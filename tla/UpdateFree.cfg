\* The panel sends whenever it likes, and everything may go wrong.
CONSTANTS
  MaxCmd = 3
  N = 1
  Folders = {"JabberClient", "SmartMeter"}
  Jabber = "JabberClient"
  Procs <- Processes
  Home <- HomeOf
  Target <- TargetsJSJ
  NewVer <- VersionsMixed
  ShippedVer = 2
  None = None
  RebootCmd = RebootCmd
  Upload = Upload
  Discipline = "free"
  Faults = {"curl", "download", "badzip", "badentry", "emptyzip", "fopen", "write",
            "kill", "udp"}
  MaxRebootCmds = 1
  MaxUploads = 0
  MaxKills = 1
SPECIFICATION Spec
INVARIANTS TypeOK InOrder AnsweredOnce
 
CHECK_DEADLOCK FALSE
