\* The panel waits for the answer to its last update command.
CONSTANTS
  MaxCmd = 3
  N = 2
  Folders = {"JabberClient", "SmartMeter"}
  Jabber = "JabberClient"
  Procs <- Processes
  Home <- HomeOf
  Target <- TargetsSJS
  NewVer <- VersionsSJS
  ShippedVer = 2
  None = None
  RebootCmd = RebootCmd
  Upload = Upload
  Discipline = "await_reply"
  Faults = {"curl", "download", "badzip", "badentry", "emptyzip", "write", "kill"}
  MaxRebootCmds = 0
  MaxUploads = 0
  MaxKills = 1
SPECIFICATION Spec
INVARIANTS FailureLeavesNothing CheckedBeforeInstall ArchiveIsOwn OneBuildPerFolder
INVARIANT BrokenIsUnanswered
PROPERTIES SuccessMeansInstalled ImplementsService
CHECK_DEADLOCK FALSE
