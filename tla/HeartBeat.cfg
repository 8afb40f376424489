\* In units of 2.5 s: 25 s, 30 s, 30 s; a dead process is silent for a minute.
CONSTANTS
  Period = 10
  Window = 12
  Latency = 1
  RebootSleep = 12
  Patience = 2
  None = None
SPECIFICATION FairSpec
INVARIANTS TypeOK LostIsBounded
PROPERTIES SettledIsSafe LostIsReplaced RebootIsAsked
