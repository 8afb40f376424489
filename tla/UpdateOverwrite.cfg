\* Two commands at once, nothing else goes wrong.
CONSTANTS
  MaxCmd = 2
  N = 2
  Folders = {"JabberClient", "SmartMeter"}
  Jabber = "JabberClient"
  Procs <- Processes
  Home <- HomeOf
  Target <- TargetsJS
  NewVer <- Versions33
  ShippedVer = 2
  None = None
  RebootCmd = RebootCmd
  Upload = Upload
  Discipline = "free"
  Faults = {}
  MaxRebootCmds = 0
  MaxUploads = 0
  MaxKills = 0
SPECIFICATION Spec
PROPERTY SuccessMeansInstalled
CHECK_DEADLOCK FALSE
