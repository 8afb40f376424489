\* Writing an entry of the archive may fail for good.
CONSTANTS
  MaxCmd = 1
  N = 2
  Folders = {"JabberClient", "SmartMeter"}
  Jabber = "JabberClient"
  Procs <- Processes
  Home <- HomeOf
  Target <- TargetsS
  NewVer <- Versions3
  ShippedVer = 2
  None = None
  RebootCmd = RebootCmd
  Upload = Upload
  Discipline = "orderly"
  Faults = {"write"}
  MaxRebootCmds = 0
  MaxUploads = 0
  MaxKills = 0
SPECIFICATION FairSpec
PROPERTY AcceptedIsAnswered
CHECK_DEADLOCK FALSE
