\* Three producers, two kinds of message, three pushes; a wait may return without
\* a signal; every thread that can run does.
CONSTANTS
  Producers = {p1, p2, p3}
  Consumer = cons
  NoThread = none
  Msgs = {a, b}
  MaxPushes = 3
SPECIFICATION FairSpec
INVARIANTS TypeOK OwnerIsInside NoLostWakeup NeverTakesFromEmpty
PROPERTIES ImplementsFifo EverythingIsTaken
CHECK_DEADLOCK FALSE
