---------------------------- MODULE MonitorQueue ----------------------------
(***************************************************************************)
(* The work queue idiom of the client: a std::queue behind one pthread     *)
(* mutex and one condition variable, any number of pushing threads and one *)
(* detached consumer thread.  The same code is written out four times      *)
(* (MessageHandler, HttpClient, FileHandler, Logger); the definitions here *)
(* follow MessageHandler::pushToQ and the head of MessageHandler::run.     *)
(*                                                                         *)
(* The consumer tests emptiness with IF, not WHILE, so what it does after  *)
(* pthread_cond_wait returns depends on why the wait returned: signalled,  *)
(* or without a signal, as POSIX allows.                                   *)
(***************************************************************************)
EXTENDS Naturals, Sequences

CONSTANTS Producers,        \* threads that call pushToQ
          Consumer,         \* the thread that runs run()
          NoThread,         \* the owner of a free mutex
          Msgs,             \* what may be pushed
          MaxPushes         \* bound on the number of pushes

ASSUME QueueAssumption ==
  /\ Consumer \notin Producers
  /\ NoThread \notin Producers \cup {Consumer}
  /\ MaxPushes \in Nat

VARIABLES owner,    \* the thread that holds qLock, or NoThread
          msgQ,     \* the queue
          ppc,      \* where each producer is in pushToQ
          arg,      \* the argument of each producer's current call
          cpc,      \* where the consumer is in run()
          pushed,   \* observation: all messages pushed so far
          taken     \* observation: all messages the consumer popped so far

vars == <<owner, msgQ, ppc, arg, cpc, pushed, taken>>

ProducerSteps == {"out", "push", "signal", "unlock"}
ConsumerSteps == {"lock", "test", "waiting", "woken", "roused",
                  "take", "unsure", "unlock", "handle", "undefined"}

TypeOK ==
  /\ owner \in Producers \cup {Consumer, NoThread}
  /\ msgQ \in Seq(Msgs)
  /\ ppc \in [Producers -> ProducerSteps]
  /\ arg \in [Producers -> Msgs]
  /\ cpc \in ConsumerSteps
  /\ pushed \in Seq(Msgs)
  /\ taken \in Seq(Msgs)

Init ==
  /\ owner = NoThread
  /\ msgQ = <<>>
  /\ ppc = [p \in Producers |-> "out"]
  /\ arg \in [Producers -> Msgs]
  /\ cpc = "lock"
  /\ pushed = <<>>
  /\ taken = <<>>

-----------------------------------------------------------------------------
(* pushToQ *)

PushLock(p) ==
  /\ ppc[p] = "out"
  /\ Len(pushed) < MaxPushes
  /\ owner = NoThread
  /\ owner' = p
  /\ \E m \in Msgs : arg' = [arg EXCEPT ![p] = m]
  /\ ppc' = [ppc EXCEPT ![p] = "push"]
  /\ UNCHANGED <<msgQ, cpc, pushed, taken>>

(* Mutant of Push: something else than the argument is put in. *)
PushWrong(p) ==
  /\ ppc[p] = "push"
  /\ msgQ' = Append(msgQ, p)
  /\ pushed' = Append(pushed, arg[p])
  /\ ppc' = [ppc EXCEPT ![p] = "signal"]
  /\ UNCHANGED <<owner, arg, cpc, taken>>

(* Mutant of Push: the message is put in before the others. *)
PushAtFront(p) ==
  /\ ppc[p] = "push"
  /\ msgQ' = <<arg[p]>> \o msgQ
  /\ pushed' = Append(pushed, arg[p])
  /\ ppc' = [ppc EXCEPT ![p] = "signal"]
  /\ UNCHANGED <<owner, arg, cpc, taken>>

Push(p) ==
  /\ ppc[p] = "push"
  /\ msgQ' = Append(msgQ, arg[p])
  /\ pushed' = Append(pushed, arg[p])
  /\ ppc' = [ppc EXCEPT ![p] = "signal"]
  /\ UNCHANGED <<owner, arg, cpc, taken>>

(* Mutant of Signal: signals only when another message was already queued. *)
SignalIfNotFirst(p) ==
  /\ ppc[p] = "signal"
  /\ cpc' = IF cpc = "waiting" /\ Len(msgQ) > 1 THEN "woken" ELSE cpc
  /\ ppc' = [ppc EXCEPT ![p] = "unlock"]
  /\ UNCHANGED <<owner, msgQ, arg, pushed, taken>>

(* pthread_cond_signal wakes the consumer if it waits and is forgotten     *)
(* otherwise.                                                              *)
Signal(p) ==
  /\ ppc[p] = "signal"
  /\ cpc' = IF cpc = "waiting" THEN "woken" ELSE cpc
  /\ ppc' = [ppc EXCEPT ![p] = "unlock"]
  /\ UNCHANGED <<owner, msgQ, arg, pushed, taken>>

PushUnlock(p) ==
  /\ ppc[p] = "unlock"
  /\ owner' = NoThread
  /\ ppc' = [ppc EXCEPT ![p] = "out"]
  /\ UNCHANGED <<msgQ, arg, cpc, pushed, taken>>

-----------------------------------------------------------------------------
(* run() up to the point where a message has been taken *)

TakeLock ==
  /\ cpc = "lock"
  /\ owner = NoThread
  /\ owner' = Consumer
  /\ cpc' = "test"
  /\ UNCHANGED <<msgQ, ppc, arg, pushed, taken>>

(* Mutant of TestEmpty: the queue is believed to hold something. *)
TestNothing ==
  /\ cpc = "test"
  /\ cpc' = "take" /\ owner' = owner
  /\ UNCHANGED <<msgQ, ppc, arg, pushed, taken>>

(* if(msgQ.empty()) pthread_cond_wait: releasing the mutex and starting to *)
(* wait are one atomic step.                                               *)
TestEmpty ==
  /\ cpc = "test"
  /\ IF msgQ = <<>>
       THEN cpc' = "waiting" /\ owner' = NoThread
       ELSE cpc' = "take" /\ owner' = owner
  /\ UNCHANGED <<msgQ, ppc, arg, pushed, taken>>

SpuriousWakeup ==
  /\ cpc = "waiting"
  /\ cpc' = "roused"
  /\ UNCHANGED <<owner, msgQ, ppc, arg, pushed, taken>>

(* Mutant of WaitReturns: the mutex is not taken again. *)
ReturnsWithoutLock ==
  /\ cpc \in {"woken", "roused"}
  /\ cpc' = IF cpc = "woken" THEN "take" ELSE "unsure"
  /\ UNCHANGED <<owner, msgQ, ppc, arg, pushed, taken>>

(* pthread_cond_wait returns with the mutex held; emptiness is not tested  *)
(* again, so a consumer nobody signalled goes on unsure.                   *)
WaitReturns ==
  /\ cpc \in {"woken", "roused"}
  /\ owner = NoThread
  /\ owner' = Consumer
  /\ cpc' = IF cpc = "woken" THEN "take" ELSE "unsure"
  /\ UNCHANGED <<msgQ, ppc, arg, pushed, taken>>

(* front() and pop(); on an empty queue both are undefined behaviour, and  *)
(* nothing is claimed of the thread from then on.                          *)
Take ==
  /\ cpc \in {"take", "unsure"}
  /\ IF msgQ = <<>>
       THEN /\ cpc' = "undefined"
            /\ UNCHANGED <<msgQ, taken>>
       ELSE /\ cpc' = "unlock"
            /\ taken' = Append(taken, Head(msgQ))
            /\ msgQ' = Tail(msgQ)
  /\ UNCHANGED <<owner, ppc, arg, pushed>>

TakeUnlock ==
  /\ cpc = "unlock"
  /\ owner' = NoThread
  /\ cpc' = "handle"
  /\ UNCHANGED <<msgQ, ppc, arg, pushed, taken>>

(* The handler runs without the mutex and comes back to the loop's head.   *)
Handle ==
  /\ cpc = "handle"
  /\ cpc' = "lock"
  /\ UNCHANGED <<owner, msgQ, ppc, arg, pushed, taken>>

ProducerStep(p) == PushLock(p) \/ Push(p) \/ Signal(p) \/ PushUnlock(p)

ConsumerStep == TakeLock \/ TestEmpty \/ WaitReturns \/ Take \/ TakeUnlock
                \/ Handle

Next == (\E p \in Producers : ProducerStep(p)) \/ ConsumerStep
        \/ SpuriousWakeup

Spec == Init /\ [][Next]_vars

(* A thread that can run does: a producer inside pushToQ finishes the call *)
(* and the consumer is never suspended for ever.  Nobody has to call       *)
(* pushToQ, and no spurious wake-up has to happen.                         *)
Fairness == /\ WF_vars(ConsumerStep)
            /\ \A p \in Producers : WF_vars(Push(p) \/ Signal(p) \/ PushUnlock(p))

FairSpec == Spec /\ Fairness

-----------------------------------------------------------------------------
(* The mutex works: a thread is inside its critical section exactly when   *)
(* it owns qLock, so no two threads ever touch the queue together.         *)
Inside(t) ==
  IF t = Consumer THEN cpc \in {"test", "take", "unsure", "unlock", "undefined"}
                  ELSE ppc[t] \in {"push", "signal", "unlock"}

OwnerIsInside == \A t \in Producers \cup {Consumer} : Inside(t) <=> owner = t

(* run() calls front() and pop() on a queue that holds something, although *)
(* it does not test emptiness again after the wait (MessageHandler::run,   *)
(* the lines that follow pthread_cond_wait): only a wait that returned     *)
(* without a signal can make it pop an empty queue.                        *)
NeverTakesFromEmpty == cpc = "take" => msgQ # <<>>

(* No wake-up is lost: a consumer asleep over a message that is already in *)
(* the queue is about to be signalled by the producer that pushed it.      *)
NoLostWakeup ==
  cpc = "waiting" /\ msgQ # <<>> => \E p \in Producers : ppc[p] = "signal"

(* The queue holds exactly what was pushed and not yet taken, in order.    *)
HoldsTheRest == pushed = taken \o msgQ

(* pushToQ and run together implement the abstract channel: what was       *)
(* pushed is taken once, in the order of the pushes.                       *)
Channel == INSTANCE Fifo WITH Msgs <- Msgs, pushed <- pushed, taken <- taken
ImplementsFifo == Channel!Spec

(* Every message pushed is eventually taken by the consumer thread (the    *)
(* loop of MessageHandler::run and its three siblings), unless it popped   *)
(* an empty queue after a wake-up nobody sent.                             *)
EverythingIsTaken ==
  \A k \in 1..MaxPushes :
    Len(pushed) >= k ~> Len(taken) >= k \/ cpc = "undefined"
=============================================================================
