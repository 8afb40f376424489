-------------------------------- MODULE Fifo --------------------------------
(***************************************************************************)
(* What every work queue of the client promises to the threads around it:  *)
(* messages are delivered in the order in which they were pushed, none is  *)
(* lost, none is delivered twice, and none is delivered that nobody        *)
(* pushed.  Nothing is said of locks, condition variables or wake-ups.     *)
(***************************************************************************)
EXTENDS Naturals, Sequences

CONSTANT Msgs           \* the messages that may be pushed

VARIABLES pushed,       \* every message pushed so far, in order
          taken         \* every message the consumer got so far, in order

fifoVars == <<pushed, taken>>

Init == pushed = <<>> /\ taken = <<>>

Put == /\ \E m \in Msgs : pushed' = Append(pushed, m)
       /\ UNCHANGED taken

Take == /\ Len(taken) < Len(pushed)
        /\ taken' = Append(taken, pushed[Len(taken) + 1])
        /\ UNCHANGED pushed

Next == Put \/ Take

Spec == Init /\ [][Next]_fifoVars
=============================================================================
