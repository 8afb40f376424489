------------------------- MODULE MonitorQueueProofs -------------------------
(***************************************************************************)
(* What is true of the work queue for any number of producers, any         *)
(* messages and any number of pushes, with pthread_cond_wait free to       *)
(* return unsignalled.                                                     *)
(***************************************************************************)
EXTENDS MonitorQueue, SequenceTheorems, TLAPS

(* The state of every reachable queue is of the declared types: what       *)
(* pushToQ and run leave in the queue is always a sequence of messages.    *)
THEOREM TypeCorrect == Spec => []TypeOK
<1>1. Init => TypeOK
  BY QueueAssumption DEF Init, TypeOK, ProducerSteps, ConsumerSteps
<1>2. TypeOK /\ [Next]_vars => TypeOK'
  <2> SUFFICES ASSUME TypeOK, [Next]_vars PROVE TypeOK'
    OBVIOUS
  <2> USE DEF TypeOK, ProducerSteps, ConsumerSteps
  <2>1. ASSUME NEW p \in Producers, PushLock(p) PROVE TypeOK'
    BY <2>1 DEF PushLock
  <2>2. ASSUME NEW p \in Producers, Push(p) PROVE TypeOK'
    <3>1. arg[p] \in Msgs
      OBVIOUS
    <3>2. Append(msgQ, arg[p]) \in Seq(Msgs) /\ Append(pushed, arg[p]) \in Seq(Msgs)
      BY <3>1
    <3> QED BY <2>2, <3>2 DEF Push
  <2>3. ASSUME NEW p \in Producers, Signal(p) PROVE TypeOK'
    BY <2>3 DEF Signal
  <2>4. ASSUME NEW p \in Producers, PushUnlock(p) PROVE TypeOK'
    BY <2>4 DEF PushUnlock
  <2>5. CASE TakeLock  BY <2>5 DEF TakeLock
  <2>6. CASE TestEmpty  BY <2>6 DEF TestEmpty
  <2>7. CASE WaitReturns  BY <2>7 DEF WaitReturns
  <2>8. CASE Take
    <3>1. CASE msgQ = <<>>  BY <2>8, <3>1 DEF Take
    <3>2. CASE msgQ # <<>>
      <4>1. Head(msgQ) \in Msgs /\ Tail(msgQ) \in Seq(Msgs)
        BY <3>2
      <4>2. Append(taken, Head(msgQ)) \in Seq(Msgs)
        BY <4>1
      <4> QED BY <2>8, <3>2, <4>1, <4>2 DEF Take
    <3> QED BY <3>1, <3>2
  <2>9. CASE TakeUnlock  BY <2>9 DEF TakeUnlock
  <2>10. CASE Handle  BY <2>10 DEF Handle
  <2>11. CASE SpuriousWakeup  BY <2>11 DEF SpuriousWakeup
  <2>12. CASE UNCHANGED vars  BY <2>12 DEF vars
  <2> QED
    BY <2>1, <2>2, <2>3, <2>4, <2>5, <2>6, <2>7, <2>8, <2>9, <2>10, <2>11, <2>12
    DEF Next, ProducerStep, ConsumerStep
<1> QED BY <1>1, <1>2, PTL DEF Spec

-----------------------------------------------------------------------------
(* The mutex is held by exactly the thread that is in a critical section   *)
(* of pushToQ or run: no two threads are in one together.                  *)
THEOREM MutualExclusion == Spec => []OwnerIsInside
<1> USE QueueAssumption DEF OwnerIsInside, Inside
<1>1. Init => OwnerIsInside
  BY DEF Init
<1>2. TypeOK /\ OwnerIsInside /\ [Next]_vars => OwnerIsInside'
  <2> SUFFICES ASSUME TypeOK, OwnerIsInside, [Next]_vars PROVE OwnerIsInside'
    OBVIOUS
  <2> USE DEF TypeOK
  <2>1. ASSUME NEW p \in Producers, PushLock(p) PROVE OwnerIsInside'
    BY <2>1 DEF PushLock
  <2>2. ASSUME NEW p \in Producers, Push(p) PROVE OwnerIsInside'
    BY <2>2 DEF Push
  <2>3. ASSUME NEW p \in Producers, Signal(p) PROVE OwnerIsInside'
    BY <2>3 DEF Signal
  <2>4. ASSUME NEW p \in Producers, PushUnlock(p) PROVE OwnerIsInside'
    BY <2>4 DEF PushUnlock
  <2>5. CASE TakeLock  BY <2>5 DEF TakeLock
  <2>6. CASE TestEmpty  BY <2>6 DEF TestEmpty
  <2>7. CASE WaitReturns  BY <2>7 DEF WaitReturns
  <2>8. CASE Take  BY <2>8 DEF Take
  <2>9. CASE TakeUnlock  BY <2>9 DEF TakeUnlock
  <2>10. CASE Handle  BY <2>10 DEF Handle
  <2>11. CASE SpuriousWakeup  BY <2>11 DEF SpuriousWakeup
  <2>12. CASE UNCHANGED vars  BY <2>12 DEF vars
  <2> QED
    BY <2>1, <2>2, <2>3, <2>4, <2>5, <2>6, <2>7, <2>8, <2>9, <2>10, <2>11, <2>12
    DEF Next, ProducerStep, ConsumerStep
<1> QED BY <1>1, <1>2, TypeCorrect, PTL DEF Spec

-----------------------------------------------------------------------------
(* run() may skip the second test of emptiness because whoever wakes it    *)
(* has put something in: WakesMeanWork is what makes NeverTakesFromEmpty   *)
(* inductive.                                                              *)
WakesMeanWork ==
  /\ NeverTakesFromEmpty
  /\ cpc = "woken" => msgQ # <<>>
  /\ \A p \in Producers : ppc[p] = "signal" => msgQ # <<>>

(* A consumer that found the queue filled, or was signalled, never calls   *)
(* front() or pop() on an empty queue.                                     *)
THEOREM NeverEmpty == Spec => []NeverTakesFromEmpty
<1> USE QueueAssumption DEF WakesMeanWork, NeverTakesFromEmpty
<1>1. Init => WakesMeanWork
  BY DEF Init
<1>2. TypeOK /\ OwnerIsInside /\ WakesMeanWork /\ [Next]_vars => WakesMeanWork'
  <2> SUFFICES ASSUME TypeOK, OwnerIsInside, WakesMeanWork, [Next]_vars
               PROVE  WakesMeanWork'
    OBVIOUS
  <2> USE DEF TypeOK
  <2>1. ASSUME NEW p \in Producers, PushLock(p) PROVE WakesMeanWork'
    BY <2>1 DEF PushLock
  <2>2. ASSUME NEW p \in Producers, Push(p) PROVE WakesMeanWork'
    <3>1. Append(msgQ, arg[p]) # <<>>
      BY AppendProperties
    <3> QED BY <2>2, <3>1 DEF Push
  <2>3. ASSUME NEW p \in Producers, Signal(p) PROVE WakesMeanWork'
    BY <2>3 DEF Signal
  <2>4. ASSUME NEW p \in Producers, PushUnlock(p) PROVE WakesMeanWork'
    BY <2>4 DEF PushUnlock
  <2>5. CASE TakeLock  BY <2>5 DEF TakeLock
  <2>6. CASE TestEmpty  BY <2>6 DEF TestEmpty
  <2>7. CASE WaitReturns  BY <2>7 DEF WaitReturns
  <2>8. CASE Take
    <3>1. \A p \in Producers : ppc[p] # "signal"
      BY <2>8 DEF Take, OwnerIsInside, Inside
    <3> QED BY <2>8, <3>1 DEF Take
  <2>9. CASE TakeUnlock  BY <2>9 DEF TakeUnlock
  <2>10. CASE Handle  BY <2>10 DEF Handle
  <2>11. CASE SpuriousWakeup  BY <2>11 DEF SpuriousWakeup
  <2>12. CASE UNCHANGED vars  BY <2>12 DEF vars
  <2> QED
    BY <2>1, <2>2, <2>3, <2>4, <2>5, <2>6, <2>7, <2>8, <2>9, <2>10, <2>11, <2>12
    DEF Next, ProducerStep, ConsumerStep
<1>3. WakesMeanWork => NeverTakesFromEmpty
  OBVIOUS
<1> QED BY <1>1, <1>2, <1>3, TypeCorrect, MutualExclusion, PTL DEF Spec

(* A consumer never sleeps over a message unless its producer is about to  *)
(* signal: the emptiness test and the wait of run(), and the push and the  *)
(* signal of pushToQ, cannot interleave so that the signal comes too early.*)
THEOREM WakeupsArrive == Spec => []NoLostWakeup
<1>1. Init => NoLostWakeup
  BY DEF Init, NoLostWakeup
<1>2. TypeOK /\ NoLostWakeup /\ [Next]_vars => NoLostWakeup'
  <2> SUFFICES ASSUME TypeOK, NoLostWakeup, [Next]_vars PROVE NoLostWakeup'
    OBVIOUS
  <2> USE DEF TypeOK, NoLostWakeup
  <2>1. ASSUME NEW p \in Producers, PushLock(p) PROVE NoLostWakeup'
    BY <2>1 DEF PushLock
  <2>2. ASSUME NEW p \in Producers, Push(p) PROVE NoLostWakeup'
    <3>1. ppc'[p] = "signal"
      BY <2>2 DEF Push
    <3> QED BY <3>1
  <2>3. ASSUME NEW p \in Producers, Signal(p) PROVE NoLostWakeup'
    BY <2>3 DEF Signal
  <2>4. ASSUME NEW p \in Producers, PushUnlock(p) PROVE NoLostWakeup'
    BY <2>4 DEF PushUnlock
  <2>5. CASE TakeLock  BY <2>5 DEF TakeLock
  <2>6. CASE TestEmpty  BY <2>6 DEF TestEmpty
  <2>7. CASE WaitReturns  BY <2>7 DEF WaitReturns
  <2>8. CASE Take  BY <2>8 DEF Take
  <2>9. CASE TakeUnlock  BY <2>9 DEF TakeUnlock
  <2>10. CASE Handle  BY <2>10 DEF Handle
  <2>11. CASE SpuriousWakeup  BY <2>11 DEF SpuriousWakeup
  <2>12. CASE UNCHANGED vars  BY <2>12 DEF vars
  <2> QED
    BY <2>1, <2>2, <2>3, <2>4, <2>5, <2>6, <2>7, <2>8, <2>9, <2>10, <2>11, <2>12
    DEF Next, ProducerStep, ConsumerStep
<1> QED BY <1>1, <1>2, TypeCorrect, PTL DEF Spec

-----------------------------------------------------------------------------
(* Only Push and Take touch what was pushed, taken and queued; every other *)
(* step leaves the three alone.                                            *)
LEMMA StepsOfTheChannel ==
  ASSUME [Next]_vars
  PROVE  \/ \E p \in Producers : Push(p)
         \/ Take
         \/ UNCHANGED <<msgQ, pushed, taken>>
BY DEF Next, vars, ProducerStep, ConsumerStep, PushLock, Signal, PushUnlock,
       TakeLock, TestEmpty, WaitReturns, TakeUnlock, Handle, SpuriousWakeup

(* What was pushed is what was taken followed by what is queued.           *)
LEMMA QueueHoldsTheRest == Spec => []HoldsTheRest
<1>1. Init => HoldsTheRest
  BY DEF Init, HoldsTheRest
<1>2. TypeOK /\ HoldsTheRest /\ [Next]_vars => HoldsTheRest'
  <2> SUFFICES ASSUME TypeOK, HoldsTheRest, [Next]_vars PROVE HoldsTheRest'
    OBVIOUS
  <2> USE DEF TypeOK, HoldsTheRest
  <2>1. ASSUME NEW p \in Producers, Push(p) PROVE HoldsTheRest'
    <3>1. arg[p] \in Msgs
      OBVIOUS
    <3>2. Append(taken \o msgQ, arg[p]) = taken \o Append(msgQ, arg[p])
      <4>1. taken \o msgQ \in Seq(Msgs) /\ <<arg[p]>> \in Seq(Msgs)
        BY <3>1, ConcatProperties
      <4>2. (taken \o msgQ) \o <<arg[p]>> = taken \o (msgQ \o <<arg[p]>>)
        BY <4>1, ConcatAssociative
      <4> QED BY <3>1, <4>1, <4>2, AppendIsConcat
    <3> QED BY <2>1, <3>2 DEF Push
  <2>2. CASE Take
    <3>1. CASE msgQ = <<>>  BY <2>2, <3>1 DEF Take
    <3>2. CASE msgQ # <<>>
      <4>1. taken \o msgQ = Append(taken, Head(msgQ)) \o Tail(msgQ)
        BY <3>2
      <4> QED BY <2>2, <3>2, <4>1 DEF Take
    <3> QED BY <3>1, <3>2
  <2>3. CASE UNCHANGED <<msgQ, pushed, taken>>
    BY <2>3
  <2> QED BY <2>1, <2>2, <2>3, StepsOfTheChannel
<1> QED BY <1>1, <1>2, TypeCorrect, PTL DEF Spec

(* pushToQ and run implement the abstract channel: every message is taken  *)
(* once, in the order of the pushes, and nothing else is taken.            *)
THEOREM QueueIsAChannel == Spec => ImplementsFifo
<1>1. Init => Channel!Init
  BY DEF Init, Channel!Init
<1>2. TypeOK /\ HoldsTheRest /\ [Next]_vars => [Channel!Next]_(Channel!fifoVars)
  <2> SUFFICES ASSUME TypeOK, HoldsTheRest, [Next]_vars
               PROVE  [Channel!Next]_(Channel!fifoVars)
    OBVIOUS
  <2> USE DEF TypeOK, HoldsTheRest, Channel!Next, Channel!fifoVars
  <2>1. ASSUME NEW p \in Producers, Push(p)
        PROVE  Channel!Put
    BY <2>1 DEF Push, Channel!Put
  <2>2. CASE Take
    <3>1. CASE msgQ = <<>>  BY <2>2, <3>1 DEF Take
    <3>2. CASE msgQ # <<>>
      <4>1. Len(taken) < Len(pushed) /\ pushed[Len(taken) + 1] = Head(msgQ)
        BY <3>2
      <4>2. Channel!Take
        BY <2>2, <3>2, <4>1 DEF Take, Channel!Take
      <4> QED BY <4>2
    <3> QED BY <3>1, <3>2
  <2>3. CASE UNCHANGED <<msgQ, pushed, taken>>
    BY <2>3
  <2> QED BY <2>1, <2>2, <2>3, StepsOfTheChannel
<1> QED BY <1>1, <1>2, TypeCorrect, QueueHoldsTheRest, PTL
        DEF Spec, ImplementsFifo, Channel!Spec
=============================================================================
