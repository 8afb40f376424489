\* Two threads that send, three refusals, two commands of the panel.
CONSTANTS
  Senders = {heart, wdog}
  Keys = {id, jid}
  MaxRefusals = 3
  MaxCmds = 2
SPECIFICATION FairSpec
INVARIANTS TypeOK OneContext FreedOnce CleanUntilReconnect
PROPERTIES KeepsTrying
CHECK_DEADLOCK FALSE
