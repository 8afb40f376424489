\* A command comes before the watchdog has reported any version.
CONSTANTS
  MaxCmd = 1
  N = 2
  Folders = {"JabberClient", "SmartMeter"}
  Jabber = "JabberClient"
  Procs <- Processes
  Home <- HomeOf
  Target <- TargetsS
  NewVer <- Versions1
  ShippedVer = 2
  None = None
  RebootCmd = RebootCmd
  Upload = Upload
  Discipline = "free"
  Faults = {}
  MaxRebootCmds = 0
  MaxUploads = 0
  MaxKills = 0
SPECIFICATION Spec
PROPERTY NeverGoesBack
CHECK_DEADLOCK FALSE
