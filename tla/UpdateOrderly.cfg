\* The panel waits for the device to settle; downloads fail, archives are damaged,
\* every thread is scheduled.
CONSTANTS
  MaxCmd = 3
  N = 2
  Folders = {"JabberClient", "SmartMeter"}
  Jabber = "JabberClient"
  Procs <- Processes
  Home <- HomeOf
  Target <- TargetsJSJ
  NewVer <- VersionsMixed
  ShippedVer = 2
  None = None
  RebootCmd = RebootCmd
  Upload = Upload
  Discipline = "orderly"
  Faults = {"download", "badzip"}
  MaxRebootCmds = 1
  MaxUploads = 1
  MaxKills = 0
SPECIFICATION FairSpec
PROPERTIES AcceptedIsAnswered SuccessIsStarted
CHECK_DEADLOCK FALSE
