\* The session is lost and a context nobody runs is connected.
CONSTANTS
  Senders = {heart}
  Keys = {id}
  MaxRefusals = 1
  MaxCmds = 0
SPECIFICATION FairSpec
PROPERTIES SessionComesBack
CHECK_DEADLOCK FALSE
