\* One metering process and the watchdog, two commands, two version_req.
CONSTANTS
  Procs = {"meter", "WDog"}
  WDog = "WDog"
  NoName = NoName
  Missing = Missing
  Junk = Junk
  MaxVer = 2
  OwnVer = 1
  Reports <- AnyReport
  Installs <- AnyInstall
  Commands <- AnyCommand
  MaxCmds = 2
  MaxAsks = 2
SPECIFICATION FairSpec
INVARIANTS TypeOK NoDoubleFree KnownWasHeard OwnNumber
PROPERTIES NewerIsNeverRefused AskedIsKnown
CHECK_DEADLOCK FALSE
