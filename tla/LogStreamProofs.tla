-------------------------- MODULE LogStreamProofs ---------------------------
(***************************************************************************)
(* What is true of the log for any number of workers, any size limit and   *)
(* any number of parts and uploads: its state is well typed, its locks     *)
(* cannot deadlock, and cutting and uploading lose nothing.                *)
(***************************************************************************)
EXTENDS LogStream, Integers, FiniteSetTheorems, SequenceTheorems, TLAPS

USE DEF stream, chunks, GoOn

LEMMA Constants ==
  /\ LogThread \in Threads /\ LogThread # None
  /\ Workers \subseteq Threads /\ None \notin Threads
  /\ Workers \subseteq Locks /\ "write" \in Locks /\ "log" \in Locks
  /\ Http \in Workers /\ None \notin Locks
BY LogAssumption DEF Threads, Locks

(* What the actions append to sequences is of the sequences' types.        *)
LEMMA LinesAndMore ==
  ASSUME NEW n \in Nat, NEW x \in Tasks
  PROVE  /\ Lines(n) \o <<x>> \in Seq(Tasks)
         /\ Len(Lines(n) \o <<x>>) = 2 * n + 1
         /\ Lines(n) \o <<x>> # <<>>
         /\ (Lines(n) \o <<x>>)[Len(Lines(n) \o <<x>>)] = x
<1>1. 2 * n \in Nat /\ \A i \in 1..2 * n : Lines(n)[i] \in Tasks
  BY DEF Lines, Tasks
<1>2. Lines(n) \in [1..2 * n -> Tasks]
  BY <1>1 DEF Lines
<1>3. Lines(n) \in Seq(Tasks) /\ Len(Lines(n)) = 2 * n
  BY <1>1, <1>2, SeqDef
<1>4. <<x>> \in Seq(Tasks) /\ Len(<<x>>) = 1 /\ <<x>>[1] = x
  OBVIOUS
<1> HIDE DEF Lines
<1> QED BY <1>1, <1>3, <1>4

LEMMA WorkIsTasks ==
  ASSUME NEW c \in Chunk
  PROVE  Work(c) \in Seq(Tasks) /\ Len(Work(c)) = 5
<1>1. "drop" \in Tasks /\ "request" \in Tasks /\ 2 \in Nat
  BY DEF Tasks
<1> QED BY <1>1, LinesAndMore DEF Work

(* A line and what follows it. *)
LEMMA LineAndMore ==
  ASSUME NEW x \in Tasks
  PROVE  /\ Line \o <<x>> \in Seq(Tasks) /\ Line \in Seq(Tasks)
         /\ Line \o <<x>> # <<>> /\ Len(Line \o <<x>>) = 3
         /\ (Line \o <<x>>)[3] = x
BY DEF Line, Tasks

LEMMA CutTypes ==
  ASSUME TypeOK, NEW t \in Threads, NEW log \in Seq(Part), Cut(t, log)
  PROVE  /\ chunk' \in [Threads -> Chunk]
         /\ cutAt' \in Nat
         /\ before' \in {"text", "end"}
         /\ ssLog' \in Seq(Part)
         /\ want' \in [Threads -> Locks \cup {None}]
         /\ at' \in [Threads -> Places]
         /\ at'[LogThread] = "pop" => at[LogThread] = "pop"
<1>1. Len(log) \in Nat /\ cutAt + Len(log) \in Nat
  BY DEF TypeOK
<1>2. [from |-> cutAt, to |-> cutAt + Len(log)] \in Chunk
  BY <1>1 DEF TypeOK, Chunk
<1>3. before' \in {"text", "end"}
  <2>1. CASE log = <<>>  BY <2>1 DEF Cut, TypeOK
  <2>2. CASE log # <<>>
    <3>1. log[Len(log)] \in Part
      BY <2>2
    <3> QED BY <2>2, <3>1 DEF Cut, Part
  <2> QED BY <2>1, <2>2
<1> QED BY <1>1, <1>2, <1>3, Constants DEF Cut, Seek, TypeOK, Places

(* The state of the log is of the declared types, and the log thread only  *)
(* pops logQ when something is in it (Logger::run tests before it waits).  *)
THEOREM LogTypeCorrect == Spec => []TypeOK
<1>1. Init => TypeOK
  BY Constants DEF Init, TypeOK, Places, Chunk, Nothing
<1>2. TypeOK /\ [Next]_vars => TypeOK'
  <2> SUFFICES ASSUME TypeOK, [Next]_vars PROVE TypeOK'
    OBVIOUS
  <2> USE Constants
  <2>1. ASSUME NEW t \in Threads, Acquire(t) PROVE TypeOK'
    BY <2>1 DEF Acquire, TypeOK
  <2>2. ASSUME NEW t \in Threads, NextPart(t) PROVE TypeOK'
    <3>1. todo[t] \in Seq(Tasks)
      BY DEF TypeOK
    <3>2. Tail(todo[t]) \in Seq(Tasks)
      BY <2>2, <3>1 DEF NextPart
    <3>3. Head(todo[t]) \in {"text", "end"}
      BY <2>2 DEF NextPart
    <3> QED BY <2>2, <3>2, <3>3 DEF NextPart, Seek, TypeOK, Places
  <2>3. ASSUME NEW t \in Threads, WriteText(t) PROVE TypeOK'
    <3>1. [kind |-> "text", stamp |-> bTime] \in Part
      BY DEF TypeOK, Part
    <3>2. Append(ssLog, [kind |-> "text", stamp |-> bTime]) \in Seq(Part)
      BY <3>1 DEF TypeOK
    <3>3. others' \in Nat
      BY <2>3 DEF WriteText, CountPart, TypeOK
    <3> QED BY <2>3, <3>2, <3>3 DEF WriteText, At, Release, TypeOK, Places
  <2>4. ASSUME NEW t \in Threads, WriteEnd(t) PROVE TypeOK'
    <3>1. EndOfLine \in Part
      BY DEF EndOfLine, Part
    <3>2. Append(ssLog, EndOfLine) \in Seq(Part)
      BY <3>1 DEF TypeOK
    <3>5. others' \in Nat
      BY <2>4 DEF WriteEnd, CountPart, TypeOK
    <3>3. CASE Len(ssLog) + 1 > MaxLog
      <4>1. Cut(t, Append(ssLog, EndOfLine)) /\ UNCHANGED lock
        BY <2>4, <3>3 DEF WriteEnd
      <4> QED BY <2>4, <3>2, <3>5, <4>1, CutTypes DEF WriteEnd, TypeOK
    <3>4. CASE ~(Len(ssLog) + 1 > MaxLog)
      BY <2>4, <3>2, <3>4, <3>5 DEF WriteEnd, Release, TypeOK, Places
    <3> QED BY <3>3, <3>4
  <2>5. ASSUME NEW t \in Threads, CutAsAsked(t) PROVE TypeOK'
    <3>1. ssLog \in Seq(Part)
      BY DEF TypeOK
    <3> QED BY <2>5, <3>1, CutTypes DEF CutAsAsked, TypeOK
  <2>6. ASSUME NEW t \in Threads, PushChunk(t) PROVE TypeOK'
    <3>1. chunk[t] \in Chunk /\ Nothing \in Chunk /\ logQ \in Seq(Chunk)
      BY DEF TypeOK, Chunk, Nothing
    <3>2. Append(logQ, chunk[t]) \in Seq(Chunk) /\ Append(logQ, chunk[t]) # <<>>
      BY <3>1, AppendProperties
    <3> QED BY <2>6, <3>1, <3>2 DEF PushChunk, At, Release, TypeOK, Places
  <2>7. ASSUME NEW t \in Threads, Leave(t) PROVE TypeOK'
    BY <2>7 DEF Leave, Release, TypeOK, Places
  <2>8. ASSUME NEW t \in Workers, LogWaiting(t) PROVE TypeOK'
    <3>1. Line \o <<"wait">> \in Seq(Tasks)
      BY LineAndMore DEF Tasks
    <3> QED BY <2>8, <3>1 DEF LogWaiting, Seek, TypeOK, Places
  <2>9. ASSUME NEW t \in Workers, WorkerLogs(t) PROVE TypeOK'
    <3>1. Line \in Seq(Tasks)
      BY LineAndMore DEF Tasks
    <3> QED BY <2>9, <3>1 DEF WorkerLogs, TypeOK
  <2>10. ASSUME NEW t \in Workers, AskUpload(t) PROVE TypeOK'
    BY <2>10 DEF AskUpload, Seek, TypeOK, Places
  <2>11. ASSUME NEW t \in Workers, Wait(t) PROVE TypeOK'
    BY <2>11 DEF Wait, Release, TypeOK
  <2>12. CASE SeekChunk
    BY <2>12 DEF SeekChunk, Seek, TypeOK, Places
  <2>13. CASE PopChunk
    <3>1. logQ \in Seq(Chunk) /\ logQ # <<>>
      BY <2>13 DEF PopChunk, At, TypeOK
    <3>2. Head(logQ) \in Chunk /\ Tail(logQ) \in Seq(Chunk)
      BY <3>1
    <3>3. Work(Head(logQ)) \in Seq(Tasks)
      BY <3>2, WorkIsTasks
    <3> QED BY <2>13, <3>2, <3>3 DEF PopChunk, Release, TypeOK, Places
  <2>14. CASE DropEmpty
    BY <2>14 DEF DropEmpty, TypeOK
  <2>15. CASE SeekRequest
    BY <2>15 DEF SeekRequest, Seek, TypeOK, Places
  <2>16. CASE RequestUpload
    BY <2>16 DEF RequestUpload, Release, TypeOK, Places
  <2>18. CASE SeekFetch
    BY <2>18 DEF SeekFetch, Seek, TypeOK, Places
  <2>19. CASE Fetch
    <3>1. \A n \in UploadLines : Lines(n) \o <<"fetch">> \in Seq(Tasks)
      <4>1. "fetch" \in Tasks /\ \A n \in UploadLines : n \in Nat
        BY LogAssumption DEF Tasks
      <4> QED BY <4>1, LinesAndMore
    <3>2. Line \o <<"rest">> \in Seq(Tasks)
      BY LineAndMore DEF Tasks
    <3>3. Http \in Threads /\ Http # LogThread /\ Http \in Locks
      BY LogAssumption DEF Locks
    <3>4. todo' \in [Threads -> Seq(Tasks)] /\ uploads' \in Nat
      <4>1. CASE uploads > 0
        <5>1. PICK n \in UploadLines :
                todo' = [todo EXCEPT ![Http] = Lines(n) \o <<"fetch">>]
          BY <2>19, <4>1 DEF Fetch
        <5>2. uploads' = uploads - 1
          BY <2>19, <4>1 DEF Fetch
        <5> QED BY <3>1, <4>1, <5>1, <5>2 DEF TypeOK
      <4>2. CASE ~(uploads > 0)
        <5>1. todo' = [todo EXCEPT ![Http] = Line \o <<"rest">>] /\ uploads' = uploads
          BY <2>19, <4>2 DEF Fetch
        <5> QED BY <3>2, <5>1 DEF TypeOK
      <4> QED BY <4>1, <4>2
    <3>5. lock' \in [Locks -> Threads \cup {None}]
      BY <2>19, <3>3 DEF Fetch, Release, TypeOK
    <3> QED BY <2>19, <3>3, <3>4, <3>5 DEF Fetch, TypeOK, Places
  <2>17. CASE UNCHANGED vars
    BY <2>17 DEF vars, TypeOK
  <2> QED
    BY <2>1, <2>2, <2>3, <2>4, <2>5, <2>6, <2>7, <2>8, <2>9, <2>10, <2>11,
       <2>12, <2>13, <2>14, <2>15, <2>16, <2>17, <2>18, <2>19
    DEF Next, LoggerStep, Choice, LogThreadStep
<1> QED BY <1>1, <1>2, PTL DEF Spec

-----------------------------------------------------------------------------
(* Who holds and awaits what, at each place of the code.  A thread waits    *)
(* for writeLock with at most its own queue's lock held, for the lock of    *)
(* logQ with writeLock held on top, and for a queue's lock with none held.  *)
Awaits(t) ==
  want[t] \in CASE at[t] = "run" -> {t} \cap Workers
                [] at[t] \in {"text", "end", "ask"} -> {"write"}
                [] at[t] \in {"push", "pop"} -> {"log"}
                [] at[t] \in {"request", "fetch"} -> {Http}
                [] OTHER -> {}

HoldsWrite(t) == \/ at[t] \in {"text", "end", "ask"} /\ want[t] = None
                 \/ at[t] \in {"push", "leave"}
HoldsLog(t)   == at[t] \in {"push", "pop"} /\ want[t] = None

LockUse ==
  \A t \in Threads :
    /\ want[t] = None \/ Awaits(t)
    /\ lock["write"] = t <=> HoldsWrite(t)
    /\ lock["log"] = t <=> HoldsLog(t)
    /\ want[t] \in Workers => \A q \in Workers : lock[q] # t
    /\ at[t] \in {"pop", "request"} => t = LogThread
    /\ at[t] = "fetch" => t = Http
    /\ t = LogThread =>
         \A q \in Workers : lock[q] = t => q = Http /\ At(t, "request")

(* Locks are taken in the order: a queue's, then write, then log.          *)
Rank(l) == IF l = "write" THEN 2 ELSE IF l = "log" THEN 3 ELSE 1

LEMMA LockUseStep == TypeOK /\ LockUse /\ [Next]_vars => LockUse'
<1> SUFFICES ASSUME TypeOK, LockUse, [Next]_vars PROVE LockUse'
  OBVIOUS
<1> USE Constants, LogAssumption
    DEF LockUse, Awaits, HoldsWrite, HoldsLog, At
<1>0. /\ lock \in [Locks -> Threads \cup {None}]
      /\ want \in [Threads -> Locks \cup {None}]
      /\ at \in [Threads -> Places]
      /\ DOMAIN lock = Locks
      /\ LogThread \notin Workers
      /\ "write" \notin Workers /\ "log" \notin Workers
  BY DEF TypeOK
<1>1. ASSUME NEW t \in Threads, Acquire(t) PROVE LockUse'
  BY <1>0, <1>1 DEF Acquire
<1>2. ASSUME NEW t \in Threads, NextPart(t) PROVE LockUse'
  BY <1>0, <1>2 DEF NextPart, Seek
<1>3. ASSUME NEW t \in Threads, WriteText(t) PROVE LockUse'
  BY <1>0, <1>3 DEF WriteText, Release
<1>4. ASSUME NEW t \in Threads, WriteEnd(t) PROVE LockUse'
  <2>1. CASE Len(ssLog) + 1 > MaxLog
    <3>1. /\ UNCHANGED lock
          /\ want' = [want EXCEPT ![t] = "log"]
          /\ at' = [at EXCEPT ![t] = "push"]
      BY <1>4, <2>1 DEF WriteEnd, Cut, Seek
    <3> QED BY <1>0, <1>4, <3>1 DEF WriteEnd
  <2>2. CASE ~(Len(ssLog) + 1 > MaxLog)
    BY <1>0, <1>4, <2>2 DEF WriteEnd, Release
  <2> QED BY <2>1, <2>2
<1>5. ASSUME NEW t \in Threads, CutAsAsked(t) PROVE LockUse'
  <2>1. /\ UNCHANGED lock
        /\ want' = [want EXCEPT ![t] = "log"]
        /\ at' = [at EXCEPT ![t] = "push"]
    BY <1>5 DEF CutAsAsked, Cut, Seek
  <2> QED BY <1>0, <1>5, <2>1 DEF CutAsAsked
<1>6. ASSUME NEW t \in Threads, PushChunk(t) PROVE LockUse'
  BY <1>0, <1>6 DEF PushChunk, Release
<1>7. ASSUME NEW t \in Threads, Leave(t) PROVE LockUse'
  BY <1>0, <1>7 DEF Leave, Release
<1>8. ASSUME NEW t \in Workers, LogWaiting(t) PROVE LockUse'
  BY <1>0, <1>8 DEF LogWaiting, Seek, Free, Bare, Holds
<1>9. ASSUME NEW t \in Workers, WorkerLogs(t) PROVE LockUse'
  BY <1>0, <1>9 DEF WorkerLogs
<1>10. ASSUME NEW t \in Workers, AskUpload(t) PROVE LockUse'
  BY <1>0, <1>10 DEF AskUpload, Seek, Free, Bare, Holds
<1>11. ASSUME NEW t \in Workers, Wait(t) PROVE LockUse'
  BY <1>0, <1>11 DEF Wait, Release
<1>12. CASE SeekChunk
  BY <1>0, <1>12 DEF SeekChunk, Seek, Free
<1>13. CASE PopChunk
  BY <1>0, <1>13 DEF PopChunk, Release
<1>14. CASE DropEmpty
  BY <1>0, <1>14 DEF DropEmpty
<1>15. CASE SeekRequest
  BY <1>0, <1>15 DEF SeekRequest, Seek
<1>16. CASE RequestUpload
  BY <1>0, <1>16 DEF RequestUpload, Release
<1>18. CASE SeekFetch
  BY <1>0, <1>18 DEF SeekFetch, Seek, Bare, Holds
<1>19. CASE Fetch
  <2>1. /\ at[Http] = "fetch" /\ want[Http] = None
        /\ at' = [at EXCEPT ![Http] = "run"] /\ want' = want
        /\ lock' \in {lock, [lock EXCEPT ![Http] = None]}
    BY <1>19 DEF Fetch, Release
  <2> QED BY <1>0, <2>1
<1>17. CASE UNCHANGED vars
  BY <1>0, <1>17 DEF vars
<1> QED
  BY <1>1, <1>2, <1>3, <1>4, <1>5, <1>6, <1>7, <1>8, <1>9, <1>10, <1>11, <1>12,
     <1>13, <1>14, <1>15, <1>16, <1>17, <1>18, <1>19
  DEF Next, LoggerStep, Choice, LogThreadStep

LEMMA LocksAreUsed == Spec => []LockUse
<1>1. Init => LockUse
  BY Constants, LogAssumption
  DEF Init, LockUse, HoldsWrite, HoldsLog
<1> QED BY <1>1, LockUseStep, LogTypeCorrect, PTL DEF Spec

(* Whoever waits for a lock holds only locks of lower rank.                *)
LEMMA RanksRise ==
  ASSUME TypeOK, LockUse, NEW t \in Threads, NEW l \in Locks,
         lock[l] = t, want[t] # None
  PROVE  Rank(l) < Rank(want[t]) /\ Rank(want[t]) <= 3
<1> USE Constants, LogAssumption
<1>0. "write" \notin Workers /\ "log" \notin Workers
  OBVIOUS
<1>1. Awaits(t) /\ want[t] \in Locks
  BY DEF LockUse, TypeOK
<1>2. at[t] # "leave"
  BY <1>1 DEF Awaits
<1>3. CASE want[t] \in Workers
  <2>1. at[t] \in {"run", "request", "fetch"}
    BY <1>0, <1>1, <1>3 DEF Awaits, TypeOK, Places
  <2> QED BY <1>3, <2>1 DEF LockUse, HoldsWrite, HoldsLog, Locks
<1>4. CASE want[t] = "write"
  <2>1. l # "write" /\ l # "log"
    BY <1>0, <1>1, <1>4 DEF LockUse, Awaits, HoldsWrite, HoldsLog
  <2> QED BY <1>4, <2>1 DEF Rank
<1>5. CASE want[t] = "log"
  <2>1. l # "log"
    BY <1>5 DEF LockUse, HoldsLog
  <2> QED BY <1>5, <2>1 DEF Rank
<1> QED BY <1>1, <1>3, <1>4, <1>5 DEF Locks

(* No threads ever wait for each other in a circle, in the code of Logger  *)
(* and of the four queues: along such a circle the ranks would rise for    *)
(* ever, and there are three.                                              *)
THEOREM NoDeadlock == Spec => []NoCircularWait
<1>1. TypeOK /\ LockUse => NoCircularWait
  <2> SUFFICES ASSUME TypeOK, LockUse,
                      NEW S \in SUBSET Threads, NEW t \in S,
                      \A u \in S : want[u] # None /\ lock[want[u]] \in S
               PROVE  FALSE
    BY DEF NoCircularWait
  <2>1. \A u \in S : want[u] \in Locks /\ want[u] # None
    BY DEF TypeOK
  <2>2. \A u \in S : Rank(want[u]) < Rank(want[lock[want[u]]])
                   /\ Rank(want[lock[want[u]]]) <= 3
    BY <2>1, RanksRise
  <2> DEFINE n(u) == lock[want[u]]
  <2>3. n(t) \in S /\ n(n(t)) \in S /\ n(n(n(t))) \in S
    OBVIOUS
  <2>4. \A u \in S : Rank(want[u]) \in {1, 2, 3}
    BY DEF Rank
  <2> QED BY <2>2, <2>3, <2>4
<1> QED BY <1>1, LocksAreUsed, LogTypeCorrect, PTL

-----------------------------------------------------------------------------
LEMMA StepsOfTheStream ==
  ASSUME [Next]_vars
  PROVE  \/ \E t \in Threads : WriteText(t) \/ WriteEnd(t) \/ CutAsAsked(t)
         \/ UNCHANGED <<bTime, ssLog, before>>
BY DEF Next, vars, LoggerStep, Choice, LogThreadStep, Acquire, NextPart,
       PushChunk, Leave, LogWaiting, WorkerLogs, AskUpload, Wait,
       SeekChunk, PopChunk, DropEmpty, SeekRequest, RequestUpload,
       SeekFetch, Fetch

LastKind == IF ssLog = <<>> THEN before ELSE ssLog[Len(ssLog)].kind

(* bTime says whether the last part ended a line, also across a cut: that  *)
(* makes StampedLines inductive.                                           *)
Stamping == StampedLines /\ (bTime <=> LastKind = "end")

LEMMA CutKeepsLast ==
  ASSUME TypeOK, NEW t \in Threads, NEW log \in Seq(Part), Cut(t, log)
  PROVE  /\ ssLog' = <<>>
         /\ LastKind' = IF log = <<>> THEN before ELSE log[Len(log)].kind
BY DEF Cut, LastKind

(* The first text of a line is stamped and no other text is.               *)
THEOREM StampsStartLines == Spec => []StampedLines
<1>1. Init => Stamping
  BY DEF Init, Stamping, StampedLines, LastKind
<1>2. TypeOK /\ Stamping /\ [Next]_vars => Stamping'
  <2> SUFFICES ASSUME TypeOK, Stamping, [Next]_vars PROVE Stamping'
    OBVIOUS
  <2>0. ssLog \in Seq(Part) /\ bTime \in BOOLEAN
    BY DEF TypeOK
  <2>1. ASSUME NEW t \in Threads, WriteText(t) PROVE Stamping'
    <3> DEFINE part == [kind |-> "text", stamp |-> bTime]
    <3>1. part \in Part
      BY <2>0 DEF Part
    <3>2. /\ ssLog' = Append(ssLog, part) /\ bTime' = FALSE /\ before' = before
      BY <2>1 DEF WriteText
    <3>3. /\ Len(ssLog') = Len(ssLog) + 1 /\ ssLog' # <<>>
          /\ \A i \in 1..Len(ssLog) : ssLog'[i] = ssLog[i]
          /\ ssLog'[Len(ssLog) + 1] = part
          /\ Len(ssLog) \in Nat
      BY <2>0, <3>1, <3>2
    <3>4. part.kind = "text" /\ part.stamp = bTime
      OBVIOUS
    <3> HIDE DEF part
    <3>5. LastKind' = "text"
      BY <3>3, <3>4 DEF LastKind
    <3>6. ASSUME NEW i \in 1..Len(ssLog'), ssLog'[i].kind = "text"
          PROVE  ssLog'[i].stamp <=>
                   (IF i = 1 THEN before' ELSE ssLog'[i - 1].kind) = "end"
      <4>1. CASE i \in 1..Len(ssLog)
        <5>1. i # 1 => i - 1 \in 1..Len(ssLog)
          BY <4>1, <3>3
        <5> QED BY <4>1, <5>1, <3>2, <3>3, <3>6 DEF Stamping, StampedLines
      <4>2. CASE i = Len(ssLog) + 1
        <5>1. (IF i = 1 THEN before' ELSE ssLog'[i - 1].kind) = LastKind
          BY <4>2, <2>0, <3>2, <3>3 DEF LastKind
        <5> QED BY <4>2, <5>1, <3>3, <3>4 DEF Stamping
      <4> QED BY <4>1, <4>2, <3>3
    <3> QED BY <3>2, <3>5, <3>6 DEF Stamping, StampedLines
  <2>2. ASSUME NEW t \in Threads, WriteEnd(t) PROVE Stamping'
    <3>1. /\ EndOfLine \in Part /\ EndOfLine.kind = "end"
          /\ bTime' = TRUE
      BY <2>2 DEF WriteEnd, EndOfLine, Part
    <3>2. Append(ssLog, EndOfLine) \in Seq(Part)
      BY <2>0, <3>1
    <3>3. CASE Len(ssLog) + 1 > MaxLog
      <4>1. Cut(t, Append(ssLog, EndOfLine))
        BY <2>2, <3>3 DEF WriteEnd
      <4>2. /\ Append(ssLog, EndOfLine) # <<>>
            /\ Append(ssLog, EndOfLine)[Len(Append(ssLog, EndOfLine))] = EndOfLine
        BY <2>0, <3>1, AppendProperties
      <4>3. ssLog' = <<>> /\ LastKind' = "end"
        BY <3>1, <3>2, <4>1, <4>2, CutKeepsLast
      <4> QED BY <3>1, <4>3 DEF Stamping, StampedLines
    <3>4. CASE ~(Len(ssLog) + 1 > MaxLog)
      <4>1. ssLog' = Append(ssLog, EndOfLine) /\ before' = before
        BY <2>2, <3>4 DEF WriteEnd
      <4>2. /\ Len(ssLog') = Len(ssLog) + 1 /\ ssLog' # <<>>
            /\ \A i \in 1..Len(ssLog) : ssLog'[i] = ssLog[i]
            /\ ssLog'[Len(ssLog) + 1] = EndOfLine
            /\ Len(ssLog) \in Nat
        BY <2>0, <3>1, <4>1
      <4>3. LastKind' = "end"
        BY <3>1, <4>2 DEF LastKind
      <4>4. ASSUME NEW i \in 1..Len(ssLog'), ssLog'[i].kind = "text"
            PROVE  ssLog'[i].stamp <=>
                     (IF i = 1 THEN before' ELSE ssLog'[i - 1].kind) = "end"
        <5>1. i \in 1..Len(ssLog)
          BY <3>1, <4>2, <4>4
        <5>2. i # 1 => i - 1 \in 1..Len(ssLog)
          BY <5>1, <4>2
        <5> QED BY <5>1, <5>2, <4>1, <4>2, <4>4 DEF Stamping, StampedLines
      <4> QED BY <3>1, <4>3, <4>4 DEF Stamping, StampedLines
    <3> QED BY <3>3, <3>4
  <2>3. ASSUME NEW t \in Threads, CutAsAsked(t) PROVE Stamping'
    <3>1. Cut(t, ssLog) /\ bTime' = bTime
      BY <2>3 DEF CutAsAsked
    <3>2. ssLog' = <<>> /\ LastKind' = LastKind
      BY <2>0, <3>1, CutKeepsLast DEF LastKind
    <3> QED BY <3>1, <3>2 DEF Stamping, StampedLines
  <2>4. CASE UNCHANGED <<bTime, ssLog, before>>
    BY <2>4 DEF Stamping, StampedLines, LastKind
  <2> QED BY <2>1, <2>2, <2>3, <2>4, StepsOfTheStream
<1>3. Stamping => StampedLines
  BY DEF Stamping
<1> QED BY <1>1, <1>2, <1>3, LogTypeCorrect, PTL DEF Spec

-----------------------------------------------------------------------------
(* The log thread has a chunk in hand only while it still has to drop or   *)
(* request it, so that PopChunk never overwrites one.                      *)
Disposes(q) == q # <<>> /\ q[Len(q)] \in {"drop", "request"}

HandInUse ==
  /\ hand = <<>> \/ at[LogThread] = "request" \/ Disposes(todo[LogThread])
  /\ at[LogThread] = "pop" => todo[LogThread] = <<>>

LEMMA TailDisposes ==
  ASSUME NEW q \in Seq(Tasks), Disposes(q), Head(q) \in {"text", "end"}
  PROVE  Disposes(Tail(q))
<1>1. Len(q) # 1
  BY DEF Disposes
<1>2. Len(q) \in Nat /\ Len(q) > 1
  BY <1>1 DEF Disposes
<1>3. /\ Tail(q) \in Seq(Tasks) /\ Len(Tail(q)) = Len(q) - 1
      /\ \A i \in 1..Len(Tail(q)) : Tail(q)[i] = q[i + 1]
  BY <1>2, HeadTailProperties
<1>4. Tail(q)[Len(Tail(q))] = q[Len(q)] /\ Tail(q) # <<>>
  <2>1. Len(Tail(q)) \in 1..Len(Tail(q))
    BY <1>2, <1>3
  <2>2. Tail(q)[Len(Tail(q))] = q[Len(Tail(q)) + 1]
    BY <2>1, <1>3
  <2>3. Len(Tail(q)) + 1 = Len(q) /\ Len(Tail(q)) # 0
    BY <1>2, <1>3
  <2>4. Tail(q) # <<>>
    BY <2>3, <1>3, EmptySeq
  <2> QED BY <2>2, <2>3, <2>4
<1> QED BY <1>4 DEF Disposes

LEMMA WorkDisposes == ASSUME NEW c \in Chunk PROVE Disposes(Work(c))
<1>1. "drop" \in Tasks /\ "request" \in Tasks /\ 2 \in Nat
  BY DEF Tasks
<1> QED BY <1>1, LinesAndMore DEF Work, Disposes

LEMMA HandStep == TypeOK /\ HandInUse /\ [Next]_vars => HandInUse'
<1> SUFFICES ASSUME TypeOK, HandInUse, [Next]_vars PROVE HandInUse'
  OBVIOUS
<1>0. /\ at \in [Threads -> Places]
      /\ todo \in [Threads -> Seq(Tasks)]
      /\ want \in [Threads -> Locks \cup {None}]
      /\ LogThread \in Threads /\ LogThread \notin Workers
      /\ Workers \subseteq Threads
  BY Constants, LogAssumption DEF TypeOK, Tasks
<1> USE <1>0 DEF HandInUse
<1>1. ASSUME NEW t \in Threads, Acquire(t) PROVE HandInUse'
  BY <1>1 DEF Acquire
<1>2. ASSUME NEW t \in Threads, NextPart(t) PROVE HandInUse'
  <2>1. CASE t = LogThread
    <3>1. /\ todo'[LogThread] = Tail(todo[LogThread])
          /\ at'[LogThread] \in {"text", "end"}
          /\ at[LogThread] = "run"
          /\ hand' = hand
          /\ Head(todo[LogThread]) \in {"text", "end"}
      BY <1>2, <2>1 DEF NextPart, Seek, At
    <3>2. Disposes(todo[LogThread]) => Disposes(Tail(todo[LogThread]))
      BY <3>1, TailDisposes
    <3> QED BY <3>1, <3>2
  <2>2. CASE t # LogThread
    BY <1>2, <2>2 DEF NextPart, Seek
  <2> QED BY <2>1, <2>2
<1>3. ASSUME NEW t \in Threads, WriteText(t) PROVE HandInUse'
  BY <1>3 DEF WriteText, At
<1>4. ASSUME NEW t \in Threads, WriteEnd(t) PROVE HandInUse'
  <2>1. /\ at' \in {[at EXCEPT ![t] = "push"], [at EXCEPT ![t] = "run"]}
        /\ at[t] = "end"
        /\ UNCHANGED <<todo, hand>>
    BY <1>4 DEF WriteEnd, Cut, Seek, At
  <2> QED BY <2>1
<1>5. ASSUME NEW t \in Threads, CutAsAsked(t) PROVE HandInUse'
  <2>1. /\ at' = [at EXCEPT ![t] = "push"] /\ at[t] = "ask"
        /\ UNCHANGED <<todo, hand>>
    BY <1>5 DEF CutAsAsked, Cut, Seek, At
  <2> QED BY <2>1
<1>6. ASSUME NEW t \in Threads, PushChunk(t) PROVE HandInUse'
  BY <1>6 DEF PushChunk, At
<1>7. ASSUME NEW t \in Threads, Leave(t) PROVE HandInUse'
  BY <1>7 DEF Leave
<1>8. ASSUME NEW t \in Workers, Choice(t) \/ Wait(t) PROVE HandInUse'
  BY <1>8 DEF Choice, LogWaiting, WorkerLogs, AskUpload, Wait, Seek
<1>9. CASE SeekChunk
  <2>1. hand' = <<>> /\ todo'[LogThread] = <<>>
    BY <1>9 DEF SeekChunk, Free, At, Disposes
  <2> QED BY <2>1
<1>10. CASE PopChunk
  <2>1. logQ \in Seq(Chunk) /\ logQ # <<>>
    BY <1>10 DEF PopChunk, At, TypeOK
  <2>2. Head(logQ) \in Chunk
    BY <2>1
  <2>3. at'[LogThread] = "run" /\ todo'[LogThread] = Work(Head(logQ))
    BY <1>10 DEF PopChunk
  <2> QED BY <2>2, <2>3, WorkDisposes
<1>11. CASE DropEmpty
  BY <1>11 DEF DropEmpty, At
<1>12. CASE SeekRequest
  BY <1>12 DEF SeekRequest, Seek
<1>13. CASE RequestUpload
  BY <1>13 DEF RequestUpload
<1>14. CASE UNCHANGED vars
  BY <1>14 DEF vars
<1>15. CASE SeekFetch \/ Fetch
  <2>1. Http # LogThread
    BY LogAssumption
  <2> QED BY <1>15, <2>1 DEF SeekFetch, Fetch, Seek
<1> QED
  BY <1>1, <1>2, <1>3, <1>4, <1>5, <1>6, <1>7, <1>8, <1>9, <1>10, <1>11, <1>12,
     <1>13, <1>14, <1>15
  DEF Next, LoggerStep, LogThreadStep

LEMMA HandIsUsed == Spec => []HandInUse
<1>1. Init => HandInUse
  BY Constants DEF Init, HandInUse
<1> QED BY <1>1, HandStep, LogTypeCorrect, PTL DEF Spec

-----------------------------------------------------------------------------
(* A chunk that starts where a chain of chunks ends prolongs the chain.    *)
LEMMA ChainGrows ==
  ASSUME NEW p \in Seq(Chunk), NEW c \in Chunk, Chained(p), c.from = EndOf(p)
  PROVE  Chained(Append(p, c)) /\ EndOf(Append(p, c)) = c.to
<1>1. /\ Len(p) \in Nat
      /\ Len(Append(p, c)) = Len(p) + 1
      /\ \A i \in 1..Len(p) : Append(p, c)[i] = p[i]
      /\ Append(p, c)[Len(p) + 1] = c
      /\ Append(p, c) # <<>>
  OBVIOUS
<1>2. Chained(Append(p, c))
  <2> SUFFICES ASSUME NEW i \in 1..Len(p) + 1
               PROVE  Append(p, c)[i].from =
                        IF i = 1 THEN 0 ELSE Append(p, c)[i - 1].to
    BY <1>1 DEF Chained
  <2>1. CASE i \in 1..Len(p)
    <3>1. i # 1 => i - 1 \in 1..Len(p)
      BY <2>1, <1>1
    <3> QED BY <2>1, <3>1, <1>1 DEF Chained
  <2>2. CASE i = Len(p) + 1
    <3>1. i # 1 => i - 1 \in 1..Len(p) /\ p # <<>>
      BY <2>2, <1>1
    <3>2. i = 1 => p = <<>>
      BY <2>2, <1>1
    <3> QED BY <2>2, <3>1, <3>2, <1>1 DEF EndOf
  <2> QED BY <2>1, <2>2, <1>1
<1>3. EndOf(Append(p, c)) = c.to
  BY <1>1 DEF EndOf
<1> QED BY <1>2, <1>3

(* What a cut does to the chunks. *)
LEMMA CutConserves ==
  ASSUME TypeOK, LockUse, Conserved, NEW t \in Threads, NEW log \in Seq(Part),
         At(t, "end") \/ At(t, "ask"), Cut(t, log), UNCHANGED <<logQ, hand, done>>
  PROVE  Conserved'
<1>1. Pushing = {} /\ Pushing' = {t}
  <2>1. HoldsWrite(t)
    BY DEF HoldsWrite, At
  <2>2. \A u \in Threads : HoldsWrite(u) => u = t
    BY <2>1 DEF LockUse
  <2>3. Pushing = {}
    BY <2>2 DEF Pushing, HoldsWrite, At
  <2> QED BY <2>3 DEF Pushing, Cut, Seek, TypeOK
<1>2. Pipeline' = Pipeline
  BY DEF Pipeline
<1>3. chunk'[t] = [from |-> cutAt, to |-> cutAt'] /\ cutAt = EndOf(Pipeline)
  BY <1>1 DEF Cut, Conserved, TypeOK
<1> QED BY <1>1, <1>2, <1>3 DEF Conserved

LEMMA TakeTheFirst ==
  ASSUME NEW S, NEW d \in Seq(S), NEW q \in Seq(S), q # <<>>
  PROVE  (d \o <<>>) \o q = (d \o <<Head(q)>>) \o Tail(q)
<1>1. /\ Head(q) \in S /\ Tail(q) \in Seq(S) /\ q = <<Head(q)>> \o Tail(q)
      /\ <<Head(q)>> \in Seq(S)
  OBVIOUS
<1>2. (d \o <<Head(q)>>) \o Tail(q) = d \o (<<Head(q)>> \o Tail(q))
  BY <1>1, ConcatAssociative
<1>3. d \o <<>> = d
  BY ConcatEmptySeq
<1> QED BY <1>1, <1>2, <1>3

(* From the stream to the upload requests no part of the log is lost,      *)
(* repeated or out of order, whoever cuts it and whenever.                 *)
THEOREM NothingIsLost == Spec => []Conserved
<1>1. Init => Conserved
  BY DEF Init, Conserved, Chained, Pipeline, EndOf, Pushing
<1>2. TypeOK /\ LockUse /\ HandInUse /\ Conserved /\ [Next]_vars => Conserved'
  <2> SUFFICES ASSUME TypeOK, LockUse, HandInUse, Conserved, [Next]_vars
               PROVE  Conserved'
    OBVIOUS
  <2>0. /\ at \in [Threads -> Places] /\ chunk \in [Threads -> Chunk]
        /\ logQ \in Seq(Chunk) /\ hand \in Seq(Chunk) /\ done \in Seq(Chunk)
        /\ ssLog \in Seq(Part)
        /\ LogThread \in Threads
    BY Constants DEF TypeOK
  <2>00. done \o hand \in Seq(Chunk) /\ Pipeline \in Seq(Chunk)
    BY <2>0, ConcatProperties DEF Pipeline
  <2>1. ASSUME NEW t \in Threads, WriteEnd(t) PROVE Conserved'
    <3>1. CASE Len(ssLog) + 1 > MaxLog
      <4>1. Append(ssLog, EndOfLine) \in Seq(Part)
        BY <2>0 DEF EndOfLine, Part
      <4> QED BY <2>1, <3>1, <4>1, CutConserves DEF WriteEnd
    <3>2. CASE ~(Len(ssLog) + 1 > MaxLog)
      <4>1. /\ UNCHANGED <<cutAt, chunk, logQ, hand, done>>
            /\ at' = [at EXCEPT ![t] = "run"] /\ at[t] = "end"
        BY <2>1, <3>2 DEF WriteEnd, At
      <4>2. Pushing' = Pushing
        BY <2>0, <4>1 DEF Pushing
      <4> QED BY <4>1, <4>2 DEF Conserved, Pipeline
    <3> QED BY <3>1, <3>2
  <2>2. ASSUME NEW t \in Threads, CutAsAsked(t) PROVE Conserved'
    BY <2>0, <2>2, CutConserves DEF CutAsAsked
  <2>3. ASSUME NEW t \in Threads, PushChunk(t) PROVE Conserved'
    <3>1. t \in Pushing /\ chunk[t] \in Chunk
      BY <2>0, <2>3 DEF PushChunk, At, Pushing
    <3>2. \A u \in Pushing : u = t
      BY <3>1 DEF Pushing, LockUse, HoldsWrite
    <3>3. Pushing' = {}
      BY <2>0, <2>3, <3>2 DEF PushChunk, Pushing
    <3>4. Pipeline' = Append(Pipeline, chunk[t])
      <4>1. Append(logQ, chunk[t]) = logQ \o <<chunk[t]>>
        BY <2>0, <3>1, AppendIsConcat
      <4>2. (done \o hand) \o (logQ \o <<chunk[t]>>)
              = ((done \o hand) \o logQ) \o <<chunk[t]>>
        BY <2>0, <2>00, <3>1, ConcatAssociative
      <4>3. Append(Pipeline, chunk[t]) = Pipeline \o <<chunk[t]>>
        BY <2>00, <3>1, AppendIsConcat
      <4> QED BY <2>3, <4>1, <4>2, <4>3 DEF PushChunk, Pipeline
    <3>5. chunk[t] = [from |-> EndOf(Pipeline), to |-> cutAt]
      BY <3>1 DEF Conserved
    <3>6. Chained(Append(Pipeline, chunk[t])) /\ EndOf(Append(Pipeline, chunk[t])) = cutAt
      <4>1. chunk[t].from = EndOf(Pipeline) /\ chunk[t].to = cutAt
        BY <3>5
      <4> QED BY <2>00, <3>1, <4>1, ChainGrows DEF Conserved
    <3>7. cutAt' = cutAt
      BY <2>3 DEF PushChunk
    <3> QED BY <3>3, <3>4, <3>6, <3>7 DEF Conserved
  <2>4. CASE PopChunk
    <3>1. logQ # <<>> /\ hand = <<>>
      BY <2>4 DEF PopChunk, At, HandInUse, TypeOK, Disposes
    <3>2. (done \o <<>>) \o logQ = (done \o <<Head(logQ)>>) \o Tail(logQ)
      BY <2>0, <3>1, TakeTheFirst
    <3>3. Pipeline' = Pipeline
      BY <2>4, <3>1, <3>2 DEF PopChunk, Pipeline
    <3>4. Pushing' = Pushing /\ UNCHANGED <<cutAt, chunk>>
      BY <2>0, <2>4 DEF PopChunk, At, Pushing
    <3> QED BY <3>3, <3>4 DEF Conserved
  <2>5. CASE DropEmpty \/ RequestUpload
    <3>1. done' = done \o hand /\ hand' = <<>> /\ logQ' = logQ
      BY <2>5 DEF DropEmpty, RequestUpload
    <3>2. (done \o hand) \o <<>> = done \o hand
      BY <2>00, ConcatEmptySeq
    <3>3. Pipeline' = Pipeline
      BY <3>1, <3>2 DEF Pipeline
    <3>4. Pushing' = Pushing /\ UNCHANGED <<cutAt, chunk>>
      BY <2>0, <2>5 DEF DropEmpty, RequestUpload, At, Pushing
    <3> QED BY <3>3, <3>4 DEF Conserved
  <2>6. CASE /\ UNCHANGED <<cutAt, chunk, logQ, hand, done>>
             /\ \A t \in Threads : at'[t] = "push" <=> at[t] = "push"
    <3>1. Pipeline' = Pipeline /\ Pushing' = Pushing
      BY <2>6 DEF Pipeline, Pushing
    <3> QED BY <2>6, <3>1 DEF Conserved
  <2>7. \/ \E t \in Threads : WriteEnd(t) \/ CutAsAsked(t) \/ PushChunk(t)
        \/ PopChunk \/ DropEmpty \/ RequestUpload
        \/ /\ UNCHANGED <<cutAt, chunk, logQ, hand, done>>
           /\ \A t \in Threads : at'[t] = "push" <=> at[t] = "push"
    BY <2>0, Constants
    DEF Next, vars, LoggerStep, Choice, LogThreadStep, Acquire, NextPart,
        WriteText, Leave, LogWaiting, WorkerLogs, AskUpload, Wait,
        SeekChunk, SeekRequest, SeekFetch, Fetch, Seek, At, Free
  <2> QED BY <2>1, <2>2, <2>3, <2>4, <2>5, <2>6, <2>7
<1> QED BY <1>1, <1>2, LogTypeCorrect, LocksAreUsed, HandIsUsed, PTL DEF Spec

-----------------------------------------------------------------------------
(* The log does not feed itself.  For a chunk the log thread writes four    *)
(* parts and, for the upload, the HTTP worker up to twelve, whatever         *)
(* happens in between; all the others are the workers' own.                 *)

(* What the log thread has still to write for the chunk in its hand.       *)
Unwritten == (IF todo[LogThread] = <<>> THEN 0 ELSE Len(todo[LogThread]) - 1)
             + (IF at[LogThread] \in {"text", "end"} THEN 1 ELSE 0)

(* The parts written so far, by the log thread, and by the HTTP worker for *)
(* uploads.                                                                *)
Written == cutAt + Len(ssLog)
Own     == 4 * Len(done) + (IF hand = <<>> THEN 0 ELSE 4 - Unwritten)
Upload  == Written - Own - others

ChunkInHand ==
  /\ Len(hand) <= 1
  /\ hand = <<>> => todo[LogThread] = <<>> /\ at[LogThread] \in {"run", "pop"}
  /\ at[LogThread] \in {"pop", "request"} => todo[LogThread] = <<>>
  /\ at[LogThread] # "ask"
  /\ Unwritten \in 0..4

Writes(t) == WriteText(t) \/ WriteEnd(t)

(* A write counts one part, whether or not the stream is cut off with it;   *)
(* nothing else counts.                                                     *)
LEMMA WritesCount ==
  ASSUME TypeOK, [Next]_vars
  PROVE  Written' = IF \E t \in Threads : Writes(t) THEN Written + 1 ELSE Written
<1>0. /\ ssLog \in Seq(Part) /\ Len(ssLog) \in Nat /\ cutAt \in Nat
      /\ EndOfLine \in Part
      /\ [kind |-> "text", stamp |-> bTime] \in Part
  BY DEF TypeOK, EndOfLine, Part
<1>1. \A e \in Part : Len(Append(ssLog, e)) = Len(ssLog) + 1
  BY <1>0
<1>2. Len(<<>>) = 0
  OBVIOUS
<1>3. ASSUME NEW t \in Threads, WriteText(t) PROVE Written' = Written + 1
  BY <1>0, <1>1, <1>3 DEF WriteText, Written
<1>4. ASSUME NEW t \in Threads, WriteEnd(t) PROVE Written' = Written + 1
  <2>1. CASE Len(ssLog) + 1 > MaxLog
    <3>1. cutAt' = cutAt + Len(Append(ssLog, EndOfLine)) /\ ssLog' = <<>>
      BY <1>4, <2>1 DEF WriteEnd, Cut
    <3> QED BY <1>0, <1>1, <1>2, <3>1 DEF Written
  <2>2. CASE ~(Len(ssLog) + 1 > MaxLog)
    <3>1. cutAt' = cutAt /\ ssLog' = Append(ssLog, EndOfLine)
      BY <1>4, <2>2 DEF WriteEnd
    <3> QED BY <1>0, <1>1, <3>1 DEF Written
  <2> QED BY <2>1, <2>2
<1>5. ASSUME NEW t \in Threads, CutAsAsked(t) PROVE Written' = Written
  <2>1. cutAt' = cutAt + Len(ssLog) /\ ssLog' = <<>>
    BY <1>5 DEF CutAsAsked, Cut
  <2> QED BY <1>0, <1>2, <2>1 DEF Written
<1>6. CASE UNCHANGED <<cutAt, ssLog>>
  <2>1. Written' = Written
    BY <1>6 DEF Written
  <2>2. ~\E t \in Threads : Writes(t)
    <3>1. Written + 1 # Written
      BY <1>0 DEF Written
    <3> QED BY <1>3, <1>4, <2>1, <3>1 DEF Writes
  <2> QED BY <2>1, <2>2
<1>7. \/ \E t \in Threads : WriteText(t) \/ WriteEnd(t) \/ CutAsAsked(t)
      \/ UNCHANGED <<cutAt, ssLog>>
  BY DEF Next, vars, LoggerStep, Choice, LogThreadStep, Acquire, NextPart,
       PushChunk, Leave, LogWaiting, WorkerLogs, AskUpload, Wait,
       SeekChunk, PopChunk, DropEmpty, SeekRequest, RequestUpload, SeekFetch, Fetch
<1>8. Written + 1 # Written
  BY <1>0 DEF Written
<1> QED BY <1>3, <1>4, <1>5, <1>6, <1>7, <1>8 DEF Writes

LEMMA LogThreadCounts ==
  ASSUME TypeOK, HandInUse, ChunkInHand, [Next]_vars
  PROVE  /\ ChunkInHand'
         /\ Own' = IF Writes(LogThread) THEN Own + 1 ELSE Own
<1> DEFINE q == todo[LogThread]
           a == at[LogThread]
<1>0. /\ at \in [Threads -> Places] /\ todo \in [Threads -> Seq(Tasks)]
      /\ LogThread \in Threads /\ LogThread \notin Workers /\ Workers \subseteq Threads
      /\ q \in Seq(Tasks) /\ hand \in Seq(Chunk) /\ done \in Seq(Chunk)
      /\ Len(q) \in Nat /\ Len(done) \in Nat /\ Len(hand) \in Nat
  BY Constants, LogAssumption, LenProperties DEF TypeOK, Tasks
<1>e. /\ q # <<>> => Len(q) > 0
      /\ hand # <<>> => Len(hand) = 1
      /\ a \in {"text", "end", "request", "push", "leave"} => hand # <<>>
      /\ q # <<>> => hand # <<>> /\ Disposes(q)
      /\ a = "run" /\ q = <<>> => hand = <<>>
      /\ a = "pop" => q = <<>> /\ hand = <<>>
  <2>1. (q # <<>> => Len(q) > 0) /\ (hand # <<>> => Len(hand) > 0)
    BY <1>0, EmptySeq
  <2>2. hand # <<>> => Len(hand) = 1
    <3>1. Len(hand) <= 1
      BY DEF ChunkInHand
    <3>2. \A n \in Nat : n > 0 /\ n <= 1 => n = 1
      OBVIOUS
    <3>3. Len(hand) \in Nat
      BY <1>0
    <3> QED BY <2>1, <3>1, <3>2, <3>3, Zenon
  <2>3. ~Disposes(<<>>)
    BY DEF Disposes
  <2>4. a \in {"text", "end", "request", "push", "leave"} \/ q # <<>> => hand # <<>>
    BY DEF ChunkInHand
  <2>5. a # "request" /\ hand # <<>> => Disposes(q)
    BY DEF HandInUse
  <2>6. a \in {"pop", "request"} => q = <<>>
    BY DEF ChunkInHand
  <2> HIDE DEF q, a
  <2> QED BY <2>1, <2>2, <2>3, <2>4, <2>5, <2>6
<1>w. ~(a \in {"text", "end"}) \/ a' = a => ~Writes(LogThread)
  BY <1>0 DEF Writes, WriteText, WriteEnd, Cut, Seek, At
<1>u. Unwritten \in 0..4 /\ Unwritten = (IF q = <<>> THEN 0 ELSE Len(q) - 1)
                                        + (IF a \in {"text", "end"} THEN 1 ELSE 0)
  BY DEF ChunkInHand, Unwritten
<1>U. Unwritten' = (IF q' = <<>> THEN 0 ELSE Len(q') - 1)
                   + (IF a' \in {"text", "end"} THEN 1 ELSE 0)
  BY DEF Unwritten
<1>c. ChunkInHand' <=> /\ Len(hand') <= 1
                       /\ hand' = <<>> => q' = <<>> /\ a' \in {"run", "pop"}
                       /\ a' \in {"pop", "request"} => q' = <<>>
                       /\ a' # "ask"
                       /\ Unwritten' \in 0..4
  BY DEF ChunkInHand
<1>o. Own' = 4 * Len(done') + (IF hand' = <<>> THEN 0 ELSE 4 - Unwritten')
  BY DEF Own
<1>O. Own = 4 * Len(done) + (IF hand = <<>> THEN 0 ELSE 4 - Unwritten)
  BY DEF Own
<1>h. /\ Len(hand) <= 1 /\ (a \in {"pop", "request"} => q = <<>>)
      /\ (hand = <<>> => q = <<>> /\ a \in {"run", "pop"}) /\ a # "ask"
  BY DEF ChunkInHand
<1> HIDE DEF q, a
<1>1. CASE NextPart(LogThread)
  <2>1. /\ a = "run" /\ q # <<>> /\ Head(q) \in {"text", "end"}
        /\ q' = Tail(q) /\ a' = Head(q) /\ UNCHANGED <<hand, done>>
    BY <1>0, <1>1 DEF NextPart, At, Seek, q, a
  <2>2. Disposes(Tail(q)) /\ Len(Tail(q)) = Len(q) - 1 /\ Tail(q) # <<>> /\ hand # <<>>
    BY <1>0, <1>e, <2>1, TailDisposes, HeadTailProperties DEF Disposes
  <2>3. Unwritten' = Unwritten
    BY <1>0, <1>u, <1>U, <2>1, <2>2
  <2>4. Own' = Own
    BY <1>o, <1>O, <2>1, <2>3
  <2>5. ~Writes(LogThread)
    BY <1>w, <2>1
  <2>6. a' \notin {"pop", "request", "ask"}
    BY <2>1
  <2> QED BY <1>c, <1>h, <1>u, <2>1, <2>2, <2>3, <2>4, <2>5, <2>6
<1>2. CASE Writes(LogThread)
  <2>1. /\ a \in {"text", "end"} /\ a' \in {"run", "push"} /\ q' = q
        /\ UNCHANGED <<hand, done>>
    BY <1>0, <1>2 DEF Writes, WriteText, WriteEnd, Cut, Seek, At, q, a
  <2>2. Unwritten' = Unwritten - 1 /\ Unwritten' \in 0..4 /\ hand # <<>>
    <3> DEFINE k == IF q = <<>> THEN 0 ELSE Len(q) - 1
    <3>1. k \in Nat
      BY <1>0, <1>e
    <3>2. Unwritten = k + 1 /\ Unwritten' = k + 0
      BY <1>u, <1>U, <2>1
    <3> HIDE DEF k
    <3>3. Unwritten' = Unwritten - 1 /\ Unwritten' \in 0..4
      <4>1. \A u \in 0..4, n \in Nat : u = n + 1 => n + 0 = u - 1 /\ n + 0 \in 0..4
        OBVIOUS
      <4>2. Unwritten \in 0..4
        BY <1>u
      <4> QED BY <3>1, <3>2, <4>1, <4>2, Zenon
    <3> QED BY <1>e, <2>1, <3>3
  <2>3. Own' = Own + 1
    <3>1. Own = 4 * Len(done) + (4 - Unwritten) /\ Own' = 4 * Len(done) + (4 - Unwritten')
      BY <1>o, <1>O, <2>1, <2>2
    <3>2. \A d \in Nat, m, n \in 0..4 : n = m - 1 => 4*d + (4 - n) = 4*d + (4 - m) + 1
      OBVIOUS
    <3> QED BY <1>0, <1>u, <2>2, <3>1, <3>2
  <2>4. a' \notin {"pop", "request", "ask"}
    BY <2>1
  <2> QED BY <1>2, <1>c, <1>h, <2>1, <2>2, <2>3, <2>4
<1>3. CASE PopChunk
  <2>1. /\ a = "pop" /\ a' = "run" /\ q' = Work(Head(logQ)) /\ hand' = <<Head(logQ)>>
        /\ UNCHANGED done
    BY <1>0, <1>3 DEF PopChunk, At, q, a
  <2>2. hand = <<>> /\ hand' # <<>> /\ Len(hand') = 1
    BY <1>e, <2>1
  <2>3. q' # <<>> /\ Len(q') = 5
    <3>1. logQ \in Seq(Chunk) /\ logQ # <<>>
      BY <1>3 DEF PopChunk, At, TypeOK
    <3>2. Head(logQ) \in Chunk
      BY <3>1
    <3>3. Len(q') = 5 /\ q' \in Seq(Tasks)
      BY <2>1, <3>2, WorkIsTasks
    <3>4. Len(<<>>) = 0
      OBVIOUS
    <3> QED BY <3>3, <3>4
  <2>4. Unwritten' = 4
    BY <1>U, <2>1, <2>3
  <2>5. Own' = Own
    BY <1>0, <1>o, <1>O, <2>1, <2>2, <2>4
  <2>6. ~Writes(LogThread)
    BY <1>w, <2>1
  <2> QED BY <1>c, <2>1, <2>2, <2>4, <2>5, <2>6
<1>4. CASE DropEmpty \/ RequestUpload
  <2>1. /\ a \in {"run", "request"} /\ a' = "run" /\ q' = <<>> /\ hand' = <<>>
        /\ done' = done \o hand
    <3>1. CASE DropEmpty
      BY <1>0, <3>1 DEF DropEmpty, At, q, a
    <3>2. CASE RequestUpload
      BY <1>0, <1>h, <3>2 DEF RequestUpload, At, q, a
    <3> QED BY <1>4, <3>1, <3>2
  <2>2. Unwritten = 0 /\ hand # <<>> /\ Len(hand) = 1
    <3>1. CASE DropEmpty
      <4>1. q = <<"drop">> /\ a = "run"
        BY <3>1 DEF DropEmpty, At, q, a
      <4>2. q # <<>> /\ Len(q) = 1
        BY <4>1
      <4> QED BY <1>e, <1>u, <4>1, <4>2
    <3>2. CASE RequestUpload
      <4>1. q = <<>> /\ a = "request"
        BY <1>h, <3>2 DEF RequestUpload, At, a
      <4> QED BY <1>e, <1>u, <4>1
    <3> QED BY <1>4, <3>1, <3>2
  <2>3. Unwritten' = 0
    BY <1>U, <2>1
  <2>4. Len(done') = Len(done) + 1 /\ Len(hand') = 0
    BY <1>0, <2>1, <2>2, ConcatProperties
  <2>5. Own' = Own
    BY <1>0, <1>o, <1>O, <2>1, <2>2, <2>4
  <2>6. ~Writes(LogThread)
    BY <1>w, <2>1
  <2> QED BY <1>c, <2>1, <2>3, <2>4, <2>5, <2>6
<1>5. CASE SeekRequest
  <2>1. /\ a = "run" /\ a' = "request" /\ q = <<"request">> /\ q' = <<>>
        /\ UNCHANGED <<hand, done>>
    BY <1>0, <1>5 DEF SeekRequest, Seek, At, q, a
  <2>2. q # <<>> /\ Len(q) = 1
    BY <2>1
  <2>3. Unwritten' = Unwritten /\ hand # <<>>
    BY <1>e, <1>u, <1>U, <2>1, <2>2
  <2>4. Own' = Own
    BY <1>o, <1>O, <2>1, <2>3
  <2>5. ~Writes(LogThread)
    BY <1>w, <2>1
  <2> QED BY <1>c, <1>h, <1>u, <2>1, <2>3, <2>4, <2>5
<1>6. CASE /\ ~Writes(LogThread) /\ UNCHANGED <<hand, done>> /\ q' = q
           /\ \/ a' = a
              \/ a = "run" /\ q = <<>> /\ a' = "pop"
              \/ a = "push" /\ a' = "leave"
              \/ a = "leave" /\ a' = "run"
  <2>1. Unwritten' = Unwritten
    BY <1>u, <1>U, <1>6
  <2>2. Own' = Own
    BY <1>o, <1>O, <1>6, <2>1
  <2> QED BY <1>c, <1>e, <1>h, <1>u, <1>6, <2>1, <2>2
<1>7. ASSUME NEW t \in Threads, Acquire(t) \/ LoggerStep(t),
             ~NextPart(LogThread), ~Writes(LogThread)
      PROVE  /\ UNCHANGED <<hand, done>> /\ q' = q
             /\ \/ a' = a
                \/ a = "push" /\ a' = "leave"
                \/ a = "leave" /\ a' = "run"
  <2>1. CASE t = LogThread
    <3>1. Acquire(t) \/ PushChunk(t) \/ Leave(t)
      BY <1>7, <1>h, <2>1 DEF LoggerStep, Writes, CutAsAsked, At, a
    <3> QED BY <1>0, <2>1, <3>1 DEF Acquire, PushChunk, Leave, At, q, a
  <2>2. CASE t # LogThread
    <3>1. UNCHANGED <<hand, done>>
      BY <1>7 DEF Acquire, LoggerStep, NextPart, WriteText, WriteEnd, CutAsAsked,
         PushChunk, Leave
    <3>2. todo'[LogThread] = todo[LogThread]
      BY <1>0, <1>7, <2>2 DEF Acquire, LoggerStep, NextPart, WriteText, WriteEnd,
         CutAsAsked, PushChunk, Leave
    <3>3. at'[LogThread] = at[LogThread]
      BY <1>0, <1>7, <2>2 DEF Acquire, LoggerStep, NextPart, WriteText, WriteEnd,
         CutAsAsked, Cut, Seek, PushChunk, Leave
    <3> QED BY <3>1, <3>2, <3>3 DEF q, a
  <2> QED BY <2>1, <2>2
<1>8. ASSUME NEW t \in Workers, Choice(t) \/ Wait(t)
      PROVE  UNCHANGED <<hand, done>> /\ q' = q /\ a' = a
  <2>1. t # LogThread /\ t \in Threads
    BY <1>0
  <2> QED BY <1>0, <1>8, <2>1 DEF Choice, LogWaiting, WorkerLogs, AskUpload, Wait,
         Seek, q, a
<1>9. CASE SeekChunk
  <2>1. UNCHANGED <<hand, done>> /\ q' = q /\ a = "run" /\ q = <<>> /\ a' = "pop"
    BY <1>0, <1>9 DEF SeekChunk, Free, At, Seek, q, a
  <2> QED BY <1>6, <1>w, <2>1
<1>10. CASE UNCHANGED vars
  <2>1. UNCHANGED <<hand, done>> /\ q' = q /\ a' = a
    BY <1>10 DEF vars, q, a
  <2> QED BY <1>6, <1>w, <2>1
<1>11. CASE \E t \in Threads : Acquire(t) \/ LoggerStep(t)
  BY <1>1, <1>2, <1>6, <1>7, <1>11
<1>12. CASE \E t \in Workers : Choice(t) \/ Wait(t)
  BY <1>6, <1>8, <1>w, <1>12
<1>13. CASE SeekFetch \/ Fetch
  <2>1. Http # LogThread
    BY LogAssumption
  <2>2. UNCHANGED <<hand, done>> /\ q' = q /\ a' = a
    BY <1>0, <1>13, <2>1 DEF SeekFetch, Fetch, Seek, q, a
  <2> QED BY <1>6, <1>w, <2>2
<1> QED BY <1>3, <1>4, <1>5, <1>9, <1>10, <1>11, <1>12, <1>13 DEF Next, LogThreadStep

(* The cuts that uploadLogs() made, and those made because the stream was  *)
(* longer than MaxLog.                                                     *)
Asking == {t \in Workers : at[t] = "ask"}
Asked  == asks - Cardinality(Asking)
Cuts   == Len(Pipeline) + (IF Pushing = {} THEN 0 ELSE 1)
Full   == Cuts - Asked

LEMMA AskedTyped ==
  ASSUME TypeOK, IsFiniteSet(Workers)
  PROVE  IsFiniteSet(Asking) /\ Cardinality(Asking) \in Nat /\ Asked \in Int
<1>1. IsFiniteSet(Asking)
  BY FS_Subset DEF Asking
<1>2. Cardinality(Asking) \in Nat
  BY <1>1, FS_CardinalityType
<1> QED BY <1>1, <1>2 DEF Asked, TypeOK

LEMMA LengthsAdd ==
  ASSUME NEW S, NEW p \in Seq(S), NEW q \in Seq(S), NEW r \in Seq(S)
  PROVE  /\ Len(p) \in Nat /\ Len(q) \in Nat /\ Len(r) \in Nat
         /\ Len(p \o q \o r) = Len(p) + Len(q) + Len(r)
<1>1. p \o q \in Seq(S) /\ Len(p \o q) = Len(p) + Len(q)
  BY ConcatProperties
<1>2. Len((p \o q) \o r) = Len(p \o q) + Len(r)
  BY <1>1, ConcatProperties
<1> QED BY <1>1, <1>2, LenProperties

(* How many cuts were asked for: asks and Asking change together but for   *)
(* the cut itself.                                                         *)
LEMMA AskedSteps ==
  ASSUME TypeOK, LockUse, ChunkInHand, IsFiniteSet(Workers), [Next]_vars
  PROVE  Asked' = IF \E t \in Threads : CutAsAsked(t) THEN Asked + 1 ELSE Asked
<1>0. /\ at \in [Threads -> Places] /\ asks \in Nat
      /\ Workers \subseteq Threads /\ LogThread \notin Workers /\ LogThread \in Threads
  BY Constants, LogAssumption DEF TypeOK
<1>a. IsFiniteSet(Asking) /\ Cardinality(Asking) \in Nat
  BY AskedTyped
<1>1. ASSUME NEW t \in Threads, CutAsAsked(t) PROVE Asked' = Asked + 1
  <2>1. at[t] = "ask" /\ at' = [at EXCEPT ![t] = "push"] /\ asks' = asks
    BY <1>1 DEF CutAsAsked, Cut, Seek, At
  <2>2. t \in Workers
    <3>1. t # LogThread
      BY <2>1 DEF ChunkInHand
    <3> QED BY <3>1 DEF Threads
  <2>3. t \in Asking /\ Asking' = Asking \ {t}
    BY <1>0, <2>1, <2>2 DEF Asking
  <2>4. Cardinality(Asking') = Cardinality(Asking) - 1
    BY <1>a, <2>3, FS_RemoveElement
  <2> QED BY <1>0, <1>a, <2>1, <2>4 DEF Asked
<1>2. ASSUME NEW t \in Workers, AskUpload(t) PROVE Asked' = Asked
  <2>1. at[t] = "run" /\ at' = [at EXCEPT ![t] = "ask"] /\ asks' = asks + 1
    BY <1>2 DEF AskUpload, Seek, Free, At
  <2>2. t \notin Asking /\ Asking' = Asking \cup {t}
    BY <1>0, <2>1 DEF Asking
  <2>3. Cardinality(Asking') = Cardinality(Asking) + 1
    BY <1>a, <2>2, FS_AddElement
  <2> QED BY <1>0, <1>a, <2>1, <2>3 DEF Asked
<1>3. ASSUME asks' = asks, \A t \in Workers : at'[t] = "ask" <=> at[t] = "ask"
      PROVE  Asked' = Asked
  <2>1. Asking' = Asking
    BY <1>3 DEF Asking
  <2> QED BY <1>3, <2>1 DEF Asked
<1>4. \/ \E t \in Threads : CutAsAsked(t)
      \/ \E t \in Workers : AskUpload(t)
      \/ asks' = asks /\ \A t \in Workers : at'[t] = "ask" <=> at[t] = "ask"
  BY <1>0
  DEF Next, vars, LoggerStep, Choice, LogThreadStep, Acquire, NextPart, WriteText,
      WriteEnd, Cut, PushChunk, Leave, LogWaiting, WorkerLogs, Wait,
      SeekChunk, PopChunk, DropEmpty, SeekRequest, RequestUpload, SeekFetch, Fetch, Seek,
      At, Free
<1>5. CASE ~\E t \in Threads : CutAsAsked(t)
  BY <1>2, <1>3, <1>4, <1>5
<1> QED BY <1>1, <1>5

(* A chunk is cut off, because somebody asked or the stream is too long.   *)
LongEnd(t)  == WriteEnd(t) /\ Len(ssLog) + 1 > MaxLog
CutsOff(t)  == CutAsAsked(t) \/ LongEnd(t)

LEMMA CutsCount ==
  ASSUME TypeOK, TypeOK', LockUse, HandInUse, ChunkInHand, [Next]_vars
  PROVE  Cuts' = IF \E t \in Threads : CutsOff(t) THEN Cuts + 1 ELSE Cuts
<1>0. /\ at \in [Threads -> Places] /\ chunk \in [Threads -> Chunk]
      /\ logQ \in Seq(Chunk) /\ hand \in Seq(Chunk) /\ done \in Seq(Chunk)
      /\ LogThread \in Threads /\ Workers \subseteq Threads
      /\ Len(logQ) \in Nat /\ Len(hand) \in Nat /\ Len(done) \in Nat
  BY Constants, LenProperties DEF TypeOK
<1> DEFINE D == Len(done)  H == Len(hand)  Q == Len(logQ)
           P == IF Pushing = {} THEN 0 ELSE 1
<1>t. D \in Nat /\ H \in Nat /\ Q \in Nat /\ P \in {0, 1}
  BY <1>0
<1>c. Cuts = D + H + Q + P
  BY LengthsAdd DEF Cuts, Pipeline, TypeOK
<1>C. D' \in Nat /\ H' \in Nat /\ Q' \in Nat /\ Cuts' = D' + H' + Q' + P'
  BY LengthsAdd DEF Cuts, Pipeline, TypeOK
<1>1. ASSUME NEW t \in Threads, CutsOff(t) PROVE Cuts' = Cuts + 1
  <2>1. /\ UNCHANGED <<done, hand, logQ>>
        /\ at[t] \in {"end", "ask"} /\ want[t] = None
        /\ at' = [at EXCEPT ![t] = "push"]
    BY <1>1 DEF CutsOff, LongEnd, CutAsAsked, WriteEnd, Cut, Seek, At
  <2>2. HoldsWrite(t) /\ at[t] # "push"
    BY <2>1 DEF HoldsWrite
  <2>3. Pushing = {} /\ Pushing' = {t}
    <3>1. \A u \in Threads : HoldsWrite(u) => u = t
      BY <2>2 DEF LockUse
    <3>2. Pushing = {}
      BY <2>2, <3>1 DEF Pushing, HoldsWrite
    <3> QED BY <1>0, <2>1, <3>2 DEF Pushing
  <2>4. D' = D /\ H' = H /\ Q' = Q /\ P = 0 /\ P' = 1
    BY <2>1, <2>3
  <2> HIDE DEF D, H, Q, P
  <2> QED BY <1>t, <1>c, <1>C, <2>4
<1>2. ASSUME NEW t \in Threads, PushChunk(t) PROVE Cuts' = Cuts
  <2>1. /\ UNCHANGED <<done, hand>> /\ logQ' = Append(logQ, chunk[t])
        /\ at[t] = "push" /\ at' = [at EXCEPT ![t] = "leave"]
    BY <1>2 DEF PushChunk, At
  <2>2. Pushing = {t} /\ Pushing' = {}
    <3>1. \A u \in Threads : HoldsWrite(u) => u = t
      BY <2>1 DEF LockUse, HoldsWrite
    <3>2. Pushing = {t}
      BY <2>1, <3>1 DEF Pushing, HoldsWrite
    <3> QED BY <1>0, <2>1, <3>2 DEF Pushing
  <2>3. Len(logQ') = Len(logQ) + 1
    BY <1>0, <2>1, AppendProperties
  <2>4. D' = D /\ H' = H /\ Q' = Q + 1 /\ P = 1 /\ P' = 0
    BY <2>1, <2>2, <2>3
  <2> HIDE DEF D, H, Q, P
  <2> QED BY <1>t, <1>c, <1>C, <2>4
<1>3. ASSUME PopChunk PROVE Cuts' = Cuts
  <2>1. /\ logQ # <<>> /\ hand = <<>> /\ logQ' = Tail(logQ) /\ hand' = <<Head(logQ)>>
        /\ done' = done
    BY <1>3 DEF PopChunk, At, HandInUse, TypeOK, Disposes
  <2>2. Len(logQ') = Len(logQ) - 1 /\ Len(hand) = 0 /\ Len(hand') = 1
    BY <1>0, <2>1, HeadTailProperties, EmptySeq
  <2>3. Pushing' = Pushing
    BY <1>0, <1>3 DEF PopChunk, At, Pushing
  <2>4. D' = D /\ H' = 1 /\ H = 0 /\ Q' = Q - 1 /\ P' = P
    BY <2>1, <2>2, <2>3
  <2> HIDE DEF D, H, Q, P
  <2> QED BY <1>t, <1>c, <1>C, <2>4
<1>4. ASSUME DropEmpty \/ RequestUpload PROVE Cuts' = Cuts
  <2>1. done' = done \o hand /\ hand' = <<>> /\ logQ' = logQ
    BY <1>4 DEF DropEmpty, RequestUpload
  <2>2. Len(done') = Len(done) + Len(hand) /\ Len(hand') = 0
    BY <1>0, <2>1, ConcatProperties
  <2>3. Pushing' = Pushing
    BY <1>0, <1>4 DEF DropEmpty, RequestUpload, At, Pushing
  <2>4. D' = D + H /\ H' = 0 /\ Q' = Q /\ P' = P
    BY <2>1, <2>2, <2>3
  <2> HIDE DEF D, H, Q, P
  <2> QED BY <1>t, <1>c, <1>C, <2>4
<1>5. ASSUME UNCHANGED <<logQ, hand, done>>,
             \A t \in Threads : at'[t] = "push" <=> at[t] = "push"
      PROVE  Cuts' = Cuts
  <2>1. Pushing' = Pushing
    BY <1>5 DEF Pushing
  <2>2. D' = D /\ H' = H /\ Q' = Q /\ P' = P
    BY <1>5, <2>1
  <2> HIDE DEF D, H, Q, P
  <2> QED BY <1>c, <1>C, <2>2
<1>6. \/ \E t \in Threads : CutsOff(t) \/ PushChunk(t)
      \/ PopChunk \/ DropEmpty \/ RequestUpload
      \/ /\ UNCHANGED <<logQ, hand, done>>
         /\ \A t \in Threads : at'[t] = "push" <=> at[t] = "push"
  BY <1>0, Constants
  DEF Next, vars, LoggerStep, Choice, LogThreadStep, Acquire, NextPart, CutsOff, LongEnd,
      WriteText, WriteEnd, Leave, LogWaiting, WorkerLogs, AskUpload, Wait,
      SeekChunk, SeekRequest, SeekFetch, Fetch, Seek, At, Free
<1>7. CASE ~\E t \in Threads : CutsOff(t)
  BY <1>2, <1>3, <1>4, <1>5, <1>6, <1>7
<1> QED BY <1>1, <1>7

(* The chunks that were cut because the stream was too long are long.      *)
FullIsLong == (MaxLog + 1) * Full <= cutAt

LEMMA CountsTyped ==
  ASSUME TypeOK, ChunkInHand, IsFiniteSet(Workers)
  PROVE  /\ Full \in Int /\ Asked \in Int /\ Cuts \in Nat /\ Cuts = Full + Asked
         /\ Written \in Nat /\ Own \in Int
         /\ Own <= 4 * Cuts
<1>1. /\ Len(done) \in Nat /\ Len(hand) \in Nat /\ Len(logQ) \in Nat
      /\ Len(Pipeline) = Len(done) + Len(hand) + Len(logQ)
  BY LengthsAdd DEF TypeOK, Pipeline
<1>2. Cuts \in Nat /\ Len(done) + Len(hand) <= Cuts
  BY <1>1 DEF Cuts
<1>3. Asked \in Int
  BY AskedTyped
<1>4. Full \in Int /\ Cuts = Full + Asked
  BY <1>2, <1>3 DEF Full
<1>5. Written \in Nat
  <2>1. Len(ssLog) \in Nat /\ cutAt \in Nat
    BY LenProperties DEF TypeOK
  <2> QED BY <2>1 DEF Written
<1>6. Own \in Int /\ Own <= 4 * (Len(done) + Len(hand))
  <2>1. Unwritten \in 0..4
    BY DEF ChunkInHand
  <2>2. CASE hand = <<>>
    <3>1. Own = 4 * Len(done) + 0
      BY <2>2 DEF Own
    <3> QED BY <1>1, <3>1
  <2>3. CASE hand # <<>>
    <3>1. Own = 4 * Len(done) + (4 - Unwritten)
      BY <2>3 DEF Own
    <3>2. Len(hand) >= 1
      BY <1>1, <2>3, EmptySeq DEF TypeOK
    <3>3. \A d, h \in Nat, u \in 0..4 :
            h >= 1 => 4*d + (4 - u) \in Int /\ 4*d + (4 - u) <= 4 * (d + h)
      OBVIOUS
    <3> QED BY <1>1, <2>1, <3>1, <3>2, <3>3
  <2> QED BY <2>2, <2>3
<1>7. Own <= 4 * Cuts
  <2>1. Len(done) + Len(hand) \in Nat
    BY <1>1
  <2>2. \A m, n \in Nat, o \in Int : m <= n /\ o <= 4 * m => o <= 4 * n
    OBVIOUS
  <2> QED BY <1>2, <1>6, <2>1, <2>2
<1> QED BY <1>2, <1>3, <1>4, <1>5, <1>6, <1>7

LEMMA FullSteps ==
  ASSUME TypeOK, TypeOK', LockUse, HandInUse, ChunkInHand, IsFiniteSet(Workers),
         FullIsLong, [Next]_vars
  PROVE  FullIsLong'
<1>0. /\ cutAt \in Nat /\ MaxLog \in Nat /\ Full \in Int /\ Cuts \in Nat /\ Asked \in Int
      /\ ssLog \in Seq(Part) /\ Len(ssLog) \in Nat /\ EndOfLine \in Part
  BY CountsTyped, LogAssumption DEF TypeOK, EndOfLine, Part
<1>f. Full = Cuts - Asked /\ Full' = Cuts' - Asked'
  BY DEF Full
<1>a. Asked' = IF \E t \in Threads : CutAsAsked(t) THEN Asked + 1 ELSE Asked
  BY AskedSteps
<1>c. Cuts' = IF \E t \in Threads : CutsOff(t) THEN Cuts + 1 ELSE Cuts
  BY CutsCount
<1>m. \A k \in Nat, f \in Int, c, d \in Nat :
        /\ (k + 1) * f <= c /\ d >= c => (k + 1) * f <= d
        /\ (k + 1) * f <= c /\ d >= c + k + 1 => (k + 1) * (f + 1) <= d
  <2>1. \A k \in Nat, f \in Int : (k + 1) * f \in Int /\ (k + 1) * (f + 1) = (k + 1) * f + k + 1
    OBVIOUS
  <2> QED BY <2>1
<1>1. CASE \E t \in Threads : CutAsAsked(t)
  <2>1. PICK t \in Threads : CutAsAsked(t)
    BY <1>1
  <2>2. cutAt' = cutAt + Len(ssLog)
    BY <2>1 DEF CutAsAsked, Cut
  <2>3. Full' = Full
    <3>1. Cuts' = Cuts + 1 /\ Asked' = Asked + 1
      BY <1>a, <1>c, <2>1 DEF CutsOff
    <3> QED BY <1>0, <1>f, <3>1
  <2>4. cutAt' \in Nat /\ cutAt' >= cutAt
    BY <1>0, <2>2
  <2> QED BY <1>0, <1>m, <2>3, <2>4 DEF FullIsLong
<1>2. CASE (\E t \in Threads : LongEnd(t)) /\ ~\E t \in Threads : CutAsAsked(t)
  <2>1. PICK t \in Threads : LongEnd(t)
    BY <1>2
  <2>2. cutAt' = cutAt + (Len(ssLog) + 1) /\ Len(ssLog) + 1 > MaxLog
    <3>1. cutAt' = cutAt + Len(Append(ssLog, EndOfLine)) /\ Len(ssLog) + 1 > MaxLog
      BY <2>1 DEF LongEnd, WriteEnd, Cut
    <3>2. Len(Append(ssLog, EndOfLine)) = Len(ssLog) + 1
      BY <1>0
    <3> QED BY <3>1, <3>2
  <2>3. Full' = Full + 1
    <3>1. Cuts' = Cuts + 1 /\ Asked' = Asked
      BY <1>2, <1>a, <1>c, <2>1 DEF CutsOff
    <3> QED BY <1>0, <1>f, <3>1
  <2>4. cutAt' \in Nat /\ cutAt' >= cutAt + MaxLog + 1
    BY <1>0, <2>2
  <2> QED BY <1>0, <1>m, <2>3, <2>4 DEF FullIsLong
<1>3. CASE ~\E t \in Threads : CutsOff(t)
  <2>1. Full' = Full
    <3>1. Cuts' = Cuts /\ Asked' = Asked
      BY <1>3, <1>a, <1>c DEF CutsOff
    <3> QED BY <1>f, <3>1
  <2>2. cutAt' = cutAt
    BY <1>3
    DEF Next, vars, LoggerStep, Choice, LogThreadStep, Acquire, NextPart, CutsOff, LongEnd,
        WriteText, WriteEnd, PushChunk, Leave, LogWaiting, WorkerLogs, AskUpload,
        Wait, SeekChunk, PopChunk, DropEmpty, SeekRequest, RequestUpload, SeekFetch, Fetch
  <2> QED BY <2>1, <2>2 DEF FullIsLong
<1> QED BY <1>1, <1>2, <1>3 DEF CutsOff

(* What the HTTP worker has still to write for the upload it performs: the *)
(* rest of the lines and, if nothing is left in its queue, the one that    *)
(* says so.                                                                *)
Ends(q) == q # <<>> /\ q[Len(q)] \in {"fetch", "rest"}
Rest(q, a) == Len(q) - 1 + (IF q[Len(q)] = "fetch" THEN 2 ELSE 0)
              + (IF a \in {"text", "end"} THEN 1 ELSE 0)
Owed(q, a, u) == IF a = "fetch" THEN (IF u > 0 THEN 0 ELSE 2)
                 ELSE IF Ends(q) THEN Rest(q, a) ELSE 0

LEMMA OwedTyped ==
  ASSUME NEW q \in Seq(Tasks), NEW a, NEW u \in Nat
  PROVE  Owed(q, a, u) \in Nat
<1>1. CASE Ends(q)
  <2>1. Len(q) \in Nat /\ Len(q) - 1 \in Nat
    <3>1. Len(q) \in Nat \ {0}
      BY <1>1, EmptySeq DEF Ends
    <3> QED BY <3>1
  <2> DEFINE n == Len(q) - 1
             e == q[Len(q)]
  <2>2. n \in Nat /\ Rest(q, a) = n + (IF e = "fetch" THEN 2 ELSE 0)
                                 + (IF a \in {"text", "end"} THEN 1 ELSE 0)
    BY <2>1 DEF Rest
  <2> HIDE DEF n, e
  <2>3. Rest(q, a) \in Nat
    BY <2>2
  <2> QED BY <2>3 DEF Owed
<1>2. CASE ~Ends(q)
  BY <1>2 DEF Owed
<1> QED BY <1>1, <1>2

LEMMA TailEnds ==
  ASSUME NEW q \in Seq(Tasks), q # <<>>, Head(q) \in {"text", "end"}
  PROVE  /\ Ends(Tail(q)) <=> Ends(q)
         /\ Ends(q) => /\ Len(Tail(q)) = Len(q) - 1
                       /\ Tail(q)[Len(Tail(q))] = q[Len(q)]
<1>1. /\ Tail(q) \in Seq(Tasks) /\ Len(Tail(q)) = Len(q) - 1 /\ Len(q) \in Nat
      /\ \A i \in 1..Len(Tail(q)) : Tail(q)[i] = q[i + 1]
      /\ Len(q) > 0 /\ Head(q) = q[1]
  BY HeadTailProperties, EmptySeq, LenProperties
<1>2. CASE Len(q) = 1
  <2>1. Tail(q) = <<>>
    <3>1. Len(Tail(q)) = 0
      BY <1>1, <1>2
    <3> QED BY <1>1, <3>1, EmptySeq
  <2> QED BY <1>1, <1>2, <2>1 DEF Ends
<1>3. CASE Len(q) # 1
  <2>1. Len(Tail(q)) \in 1..Len(Tail(q)) /\ Len(Tail(q)) + 1 = Len(q) /\ Len(Tail(q)) # 0
    BY <1>1, <1>3
  <2>2. Tail(q)[Len(Tail(q))] = q[Len(q)]
    BY <1>1, <2>1
  <2>3. Tail(q) # <<>>
    BY <1>1, <2>1, EmptySeq
  <2> QED BY <1>1, <2>2, <2>3 DEF Ends
<1> QED BY <1>2, <1>3

(* The parts the HTTP worker writes for an upload are counted for it, and  *)
(* only they.                                                              *)
LEMMA UploadCounts ==
  ASSUME TypeOK, HandInUse, ChunkInHand, IsFiniteSet(Workers), [Next]_vars
  PROVE  Upload' = IF Writes(Http) /\ Serving THEN Upload + 1 ELSE Upload
<1>0. /\ Written \in Nat /\ Own \in Int /\ others \in Nat /\ at \in [Threads -> Places]
      /\ Threads = Workers \cup {LogThread} /\ LogThread \notin Workers /\ Http \in Workers
  BY CountsTyped, LogAssumption DEF TypeOK, Threads
<1>1. Upload = Written - Own - others /\ Upload' = Written' - Own' - others'
  BY DEF Upload
<1>2. Own' = IF Writes(LogThread) THEN Own + 1 ELSE Own
  BY LogThreadCounts
<1>3. Written' = IF \E t \in Threads : Writes(t) THEN Written + 1 ELSE Written
  BY WritesCount
<1>4. ASSUME NEW t \in Threads, NEW v \in Threads, Writes(t), Writes(v) PROVE t = v
  <2>1. at[t] \in {"text", "end"} /\ at'[t] \notin {"text", "end"}
    BY <1>0, <1>4 DEF Writes, WriteText, WriteEnd, Cut, Seek, At
  <2>2. \A x \in Threads : x # v => at'[x] = at[x]
    BY <1>0, <1>4 DEF Writes, WriteText, WriteEnd, Cut, Seek
  <2> QED BY <2>1, <2>2
<1>5. ASSUME NEW t \in Threads, Writes(t)
      PROVE  others' = IF ForUpload(t) THEN others ELSE others + 1
  BY <1>5 DEF Writes, WriteText, WriteEnd, CountPart
<1>6. CASE Writes(LogThread)
  <2>1. ~Writes(Http)
    BY <1>0, <1>4, <1>6
  <2>2. others' = others
    BY <1>0, <1>5, <1>6 DEF ForUpload
  <2>3. Own' = Own + 1 /\ Written' = Written + 1
    BY <1>0, <1>2, <1>3, <1>6
  <2> QED BY <1>0, <1>1, <2>1, <2>2, <2>3
<1>7. ASSUME NEW t \in Workers, Writes(t) PROVE Upload' = IF Writes(Http) /\ Serving THEN Upload + 1 ELSE Upload
  <2>1. ~Writes(LogThread)
    BY <1>0, <1>4, <1>7
  <2>2. Own' = Own /\ Written' = Written + 1
    BY <1>0, <1>2, <1>3, <1>7, <2>1
  <2>3. ForUpload(t) <=> Writes(Http) /\ Serving
    <3>1. Writes(Http) => t = Http
      BY <1>0, <1>4, <1>7
    <3> QED BY <1>0, <1>7, <3>1 DEF ForUpload
  <2>4. others' = IF ForUpload(t) THEN others ELSE others + 1
    BY <1>0, <1>5, <1>7
  <2> QED BY <1>0, <1>1, <2>2, <2>3, <2>4
<1>8. CASE ~\E t \in Threads : Writes(t)
  <2>1. others' = others
    BY <1>8
    DEF Next, vars, LoggerStep, Choice, LogThreadStep, Acquire, NextPart, Writes, CutAsAsked,
        PushChunk, Leave, LogWaiting, WorkerLogs, AskUpload, Wait, SeekChunk, PopChunk,
        DropEmpty, SeekRequest, RequestUpload, SeekFetch, Fetch
  <2>2. Own' = Own /\ Written' = Written /\ ~Writes(Http)
    BY <1>0, <1>2, <1>3, <1>8
  <2> QED BY <1>0, <1>1, <2>1, <2>2
<1> QED BY <1>0, <1>6, <1>7, <1>8

(* What the uploads may write: twelve parts each, less what is written.    *)
WithinBudget ==
  Upload + Owed(todo[Http], at[Http], uploads) + 12 * uploads <= 12 * Len(done)

LEMMA BudgetStep ==
  ASSUME TypeOK, HandInUse, ChunkInHand, IsFiniteSet(Workers), WithinBudget, [Next]_vars
  PROVE  WithinBudget'
<1> DEFINE q == todo[Http]
           a == at[Http]
           o == Owed(todo[Http], at[Http], uploads)
           d == Len(done)
<1>0. /\ at \in [Threads -> Places] /\ todo \in [Threads -> Seq(Tasks)]
      /\ Http \in Threads /\ Http \in Workers /\ Http # LogThread
      /\ LogThread \in Threads /\ Workers \subseteq Threads
      /\ q \in Seq(Tasks) /\ uploads \in Nat
      /\ done \in Seq(Chunk) /\ hand \in Seq(Chunk) /\ d \in Nat
  BY Constants, LogAssumption, LenProperties DEF TypeOK
<1>1. Upload \in Int /\ o \in Nat
  <2>1. Written \in Nat /\ Own \in Int /\ others \in Nat
    BY CountsTyped DEF TypeOK
  <2> QED BY <1>0, <2>1, OwedTyped DEF Upload
<1>2. Upload' = IF Writes(Http) /\ Serving THEN Upload + 1 ELSE Upload
  BY UploadCounts
<1>o. o = Owed(q, a, uploads) /\ o' = Owed(q', a', uploads')
  OBVIOUS
<1>3. Upload + o + 12 * uploads <= 12 * d
  BY DEF WithinBudget
<1>4. WithinBudget' <=> Upload' + o' + 12 * uploads' <= 12 * d'
  BY DEF WithinBudget
<1>q. Len(q) \in Nat /\ (q # <<>> => Len(q) > 0)
  BY <1>0, EmptySeq, LenProperties
<1>s. Serving <=> a = "fetch" \/ Ends(q)
  BY DEF Serving, Ends
<1>m. \A w, x, y \in Int, u, e, v \in Nat :
        /\ w + x + 12 * u <= 12 * e /\ y <= x => w + y + 12 * u <= 12 * e
        /\ w + x + 12 * u <= 12 * e /\ y = x - 1 => (w + 1) + y + 12 * u <= 12 * e
        /\ w + x + 12 * u <= 12 * e /\ y <= x /\ v > e => w + y + 12 * u <= 12 * v
        /\ w + x + 12 * u <= 12 * e /\ y <= x
             => w + y + 12 * (u + 1) <= 12 * (e + 1)
        /\ w + x + 12 * u <= 12 * e /\ x = 0 /\ u > 0 /\ y <= 12
             => w + y + 12 * (u - 1) <= 12 * e
  OBVIOUS
<1> HIDE DEF q, a, o, d
<1>5. CASE Writes(Http)
  <2>1. /\ a \in {"text", "end"} /\ a' \in {"run", "push"} /\ q' = q
        /\ uploads' = uploads /\ d' = d
    BY <1>0, <1>5 DEF Writes, WriteText, WriteEnd, Cut, Seek, At, q, a, d
  <2>2. CASE Ends(q)
    <3>1. Upload' = Upload + 1
      BY <1>2, <1>5, <1>s, <2>2
    <3>2. o = Rest(q, a) /\ o' = Rest(q, a')
      BY <1>o, <2>1, <2>2 DEF Owed
    <3>3. o' = o - 1
      <4> DEFINE k == IF q[Len(q)] = "fetch" THEN 2 ELSE 0
      <4>1. Rest(q, a) = Len(q) - 1 + k + 1 /\ Rest(q, a') = Len(q) - 1 + k + 0
        BY <2>1 DEF Rest
      <4>2. k \in Nat
        OBVIOUS
      <4> HIDE DEF k
      <4> QED BY <1>q, <3>2, <4>1, <4>2
    <3>4. o' \in Int
      BY <1>1, <3>3
    <3> QED BY <1>0, <1>1, <1>3, <1>4, <1>m, <2>1, <3>1, <3>3, <3>4
  <2>3. CASE ~Ends(q)
    <3>1. Upload' = Upload
      BY <1>2, <1>s, <2>1, <2>3
    <3>2. o = 0 /\ o' = 0
      BY <1>o, <2>1, <2>3 DEF Owed
    <3> QED BY <1>3, <1>4, <2>1, <3>1, <3>2
  <2> QED BY <2>2, <2>3
<1>6. CASE NextPart(Http)
  <2>1. /\ a = "run" /\ q # <<>> /\ Head(q) \in {"text", "end"}
        /\ q' = Tail(q) /\ a' = Head(q) /\ uploads' = uploads /\ d' = d
    BY <1>0, <1>6 DEF NextPart, At, Seek, q, a, d
  <2>2. ~Writes(Http)
    BY <2>1 DEF Writes, WriteText, WriteEnd, At, a
  <2>3. o' = o
    <3>1. CASE Ends(q)
      <4>1. Ends(Tail(q)) /\ Len(Tail(q)) = Len(q) - 1 /\ Tail(q)[Len(Tail(q))] = q[Len(q)]
        BY <1>0, <2>1, <3>1, TailEnds
      <4>2. o = Rest(q, a) /\ o' = Rest(Tail(q), a')
        BY <1>o, <2>1, <3>1, <4>1 DEF Owed
      <4> DEFINE k == IF q[Len(q)] = "fetch" THEN 2 ELSE 0
      <4>3. Rest(q, a) = Len(q) - 1 + k + 0 /\ Rest(Tail(q), a') = Len(q) - 1 - 1 + k + 1
        BY <2>1, <4>1 DEF Rest
      <4>4. k \in Nat
        OBVIOUS
      <4> HIDE DEF k
      <4> QED BY <1>q, <4>2, <4>3, <4>4
    <3>2. CASE ~Ends(q)
      <4>1. ~Ends(Tail(q))
        BY <1>0, <2>1, <3>2, TailEnds
      <4> QED BY <1>o, <2>1, <3>2, <4>1 DEF Owed
    <3> QED BY <3>1, <3>2
  <2> QED BY <1>2, <1>3, <1>4, <2>1, <2>2, <2>3
<1>7. CASE Fetch
  <2>1. a = "fetch" /\ a' = "run" /\ d' = d
    BY <1>0, <1>7 DEF Fetch, At, a, d
  <2>2. Upload' = Upload
    BY <1>2, <2>1 DEF Writes, WriteText, WriteEnd, At, a
  <2>3. CASE uploads > 0
    <3>1. PICK n \in UploadLines : q' = Lines(n) \o <<"fetch">>
      <4>1. PICK n \in UploadLines :
              todo' = [todo EXCEPT ![Http] = Lines(n) \o <<"fetch">>]
        BY <1>7, <2>3 DEF Fetch
      <4>2. q' = Lines(n) \o <<"fetch">>
        BY <1>0, <4>1 DEF q
      <4> QED BY <4>2
    <3>2. uploads' = uploads - 1
      BY <1>7, <2>3 DEF Fetch
    <3>3. n \in Nat /\ n <= 5 /\ "fetch" \in Tasks
      BY LogAssumption DEF Tasks
    <3>4. Ends(q') /\ Len(q') = 2 * n + 1 /\ q'[Len(q')] = "fetch"
      BY <3>1, <3>3, LinesAndMore DEF Ends
    <3>5. o = 0 /\ o' = 2 * n + 1 - 1 + 2 + 0
      <4>1. o = 0 /\ o' = Rest(q', a')
        BY <1>o, <2>1, <2>3, <3>4 DEF Owed
      <4>2. Rest(q', a') = Len(q') - 1 + 2 + 0
        BY <2>1, <3>4 DEF Rest
      <4> QED BY <3>3, <3>4, <4>1, <4>2
    <3>6. o' \in Int /\ o' <= 12
      BY <3>3, <3>5
    <3> QED BY <1>0, <1>1, <1>3, <1>4, <1>m, <2>1, <2>2, <2>3, <3>2, <3>5, <3>6
  <2>4. CASE ~(uploads > 0)
    <3>1. q' = Line \o <<"rest">> /\ uploads' = uploads
      BY <1>0, <1>7, <2>4 DEF Fetch, q
    <3>2. Len(q') = 3 /\ q'[3] = "rest" /\ q' # <<>>
      BY <3>1, LineAndMore DEF Tasks
    <3>3. o = 2 /\ o' = 2
      BY <1>o, <2>1, <2>4, <3>1, <3>2 DEF Owed, Ends, Rest
    <3> QED BY <1>3, <1>4, <2>1, <2>2, <3>1, <3>3
  <2> QED BY <2>3, <2>4
<1>8. CASE SeekFetch
  <2>1. /\ a = "run" /\ a' = "fetch" /\ uploads' = uploads /\ d' = d
        /\ q = <<"fetch">> \/ uploads > 0
    BY <1>0, <1>8 DEF SeekFetch, Seek, At, a, d, q
  <2>2. Upload' = Upload
    BY <1>2, <2>1 DEF Writes, WriteText, WriteEnd, At, a
  <2>3. o' \in Int /\ o' <= o
    <3>1. CASE uploads > 0
      BY <1>1, <1>o, <2>1, <3>1 DEF Owed
    <3>2. CASE ~(uploads > 0)
      <4>1. q = <<"fetch">> /\ Len(<<"fetch">>) = 1
        BY <2>1, <3>2
      <4>2. o = 2
        BY <1>o, <2>1, <4>1 DEF Owed, Ends, Rest
      <4> QED BY <1>o, <2>1, <3>2, <4>2 DEF Owed
    <3> QED BY <3>1, <3>2
  <2>4. Upload + o' + 12 * uploads <= 12 * d
    <3>1. Upload \in Int /\ o \in Int /\ o' \in Int /\ uploads \in Nat /\ d \in Nat
      BY <1>0, <1>1, <2>3
    <3> QED BY <1>3, <1>m, <2>3, <3>1, Zenon
  <2> QED BY <1>4, <2>1, <2>2, <2>4
<1>9. CASE DropEmpty \/ RequestUpload
  <2>1. a' = a /\ q' = q /\ done' = done \o hand
    BY <1>0, <1>9 DEF DropEmpty, RequestUpload, a, q
  <2>2. Len(hand) = 1
    <3>1. at[LogThread] = "request" \/ todo[LogThread] = <<"drop">>
      BY <1>9 DEF DropEmpty, RequestUpload, At
    <3>2. hand # <<>>
      BY <3>1 DEF ChunkInHand
    <3>3. Len(hand) \in Nat \ {0}
      BY <1>0, <3>2, EmptySeq
    <3>4. Len(hand) <= 1
      BY DEF ChunkInHand
    <3>5. \A n \in Nat \ {0} : n <= 1 => n = 1
      OBVIOUS
    <3> QED BY <3>3, <3>4, <3>5, Zenon
  <2>3. d' = d + 1
    <3>1. Len(done \o hand) = Len(done) + Len(hand)
      BY <1>0, ConcatProperties
    <3> QED BY <2>1, <2>2, <3>1 DEF d
  <2>4. Upload' = Upload
    <3>1. ~Writes(Http)
      BY <1>0, <1>9 DEF Writes, WriteText, WriteEnd, Cut, Seek, At, DropEmpty, RequestUpload
    <3> QED BY <1>2, <3>1
  <2>5. CASE uploads' = uploads
    <3>1. o' = o
      BY <1>o, <2>1, <2>5
    <3>2. d + 1 > d /\ d + 1 \in Nat
      BY <1>0
    <3>3. Upload + o + 12 * uploads <= 12 * (d + 1)
      BY <1>0, <1>1, <1>3, <1>m, <3>2
    <3> QED BY <1>4, <2>3, <2>4, <2>5, <3>1, <3>3
  <2>6. CASE uploads' = uploads + 1
    <3>1. o' \in Int /\ o' <= o
      <4>1. o' = Owed(q, a, uploads + 1) /\ uploads + 1 > 0
        BY <1>0, <1>o, <2>1, <2>6
      <4>2. CASE a = "fetch"
        <5>1. o' = 0
          BY <4>1, <4>2 DEF Owed
        <5> QED BY <1>1, <5>1
      <4>3. CASE a # "fetch"
        <5>1. o' = o
          BY <1>o, <4>1, <4>3 DEF Owed
        <5> QED BY <1>1, <5>1
      <4> QED BY <4>2, <4>3
    <3>2. Upload + o' + 12 * (uploads + 1) <= 12 * (d + 1)
      <4>1. Upload \in Int /\ o \in Int /\ o' \in Int /\ uploads \in Nat /\ d \in Nat
        BY <1>0, <1>1, <3>1
      <4> QED BY <1>3, <1>m, <3>1, <4>1, Zenon
    <3> QED BY <1>4, <2>3, <2>4, <2>6, <3>2
  <2>7. uploads' \in {uploads, uploads + 1}
    BY <1>9 DEF DropEmpty, RequestUpload
  <2> QED BY <2>5, <2>6, <2>7
<1>10. CASE LogWaiting(Http) \/ WorkerLogs(Http) \/ Wait(Http)
  <2>1. /\ a = "run" /\ a' = "run" /\ uploads' = uploads /\ d' = d
        /\ q' \in {Line, Line \o <<"wait">>, <<>>}
    BY <1>0, <1>10 DEF LogWaiting, WorkerLogs, Wait, Free, At, Seek, q, a, d
  <2>2. ~Ends(q')
    <3>1. Line # <<>> /\ Len(Line) = 2 /\ Line[2] = "end"
      BY DEF Line
    <3>2. Len(Line \o <<"wait">>) = 3 /\ (Line \o <<"wait">>)[3] = "wait"
      BY LineAndMore DEF Tasks
    <3> QED BY <2>1, <3>1, <3>2 DEF Ends
  <2>3. o' = 0
    BY <1>o, <2>1, <2>2 DEF Owed
  <2>4. Upload' = Upload
    BY <1>2, <2>1 DEF Writes, WriteText, WriteEnd, At, a
  <2> QED BY <1>0, <1>1, <1>3, <1>4, <1>m, <2>1, <2>3, <2>4
<1>11. ASSUME ~Writes(Http), q' = q, uploads' = uploads, d' = d,
              \/ a' = a
              \/ a # "fetch" /\ a' # "fetch" /\ a \notin {"text", "end"}
                 /\ a' \notin {"text", "end"}
       PROVE  WithinBudget'
  <2>1. o' = o
    BY <1>o, <1>11 DEF Owed, Rest
  <2> QED BY <1>2, <1>3, <1>4, <1>11, <2>1
<1>12. ASSUME NEW t \in Threads, Acquire(t) \/ LoggerStep(t),
              ~NextPart(Http), ~Writes(Http)
       PROVE  /\ q' = q /\ uploads' = uploads /\ d' = d
              /\ \/ a' = a
                 \/ a # "fetch" /\ a' # "fetch" /\ a \notin {"text", "end"}
                    /\ a' \notin {"text", "end"}
  <2>1. CASE t = Http
    <3>1. Acquire(t) \/ PushChunk(t) \/ Leave(t) \/ CutAsAsked(t)
      BY <1>12, <2>1 DEF LoggerStep, Writes
    <3> QED BY <1>0, <2>1, <3>1 DEF Acquire, PushChunk, Leave, CutAsAsked, Cut, Seek, At,
            q, a, d
  <2>2. CASE t # Http
    <3>1. uploads' = uploads /\ d' = d
      BY <1>12 DEF Acquire, LoggerStep, NextPart, WriteText, WriteEnd, CutAsAsked,
         PushChunk, Leave, d
    <3>2. todo'[Http] = todo[Http]
      BY <1>0, <1>12, <2>2 DEF Acquire, LoggerStep, NextPart, WriteText, WriteEnd,
         CutAsAsked, PushChunk, Leave
    <3>3. at'[Http] = at[Http]
      BY <1>0, <1>12, <2>2 DEF Acquire, LoggerStep, NextPart, WriteText, WriteEnd,
         CutAsAsked, Cut, Seek, PushChunk, Leave
    <3> QED BY <3>1, <3>2, <3>3 DEF q, a
  <2> QED BY <2>1, <2>2
<1>13. CASE \E t \in Threads : Acquire(t) \/ LoggerStep(t)
  BY <1>5, <1>6, <1>11, <1>12, <1>13
<1>w. a' = a => ~Writes(Http)
  BY <1>0 DEF Writes, WriteText, WriteEnd, Cut, Seek, At, a
<1>14. ASSUME NEW t \in Workers, Choice(t) \/ Wait(t) PROVE WithinBudget'
  <2>1. CASE t = Http
    <3>1. ~AskUpload(t)
      BY <2>1 DEF AskUpload
    <3> QED BY <1>10, <1>14, <2>1, <3>1 DEF Choice
  <2>2. CASE t # Http
    <3>1. q' = q /\ a' = a /\ uploads' = uploads /\ d' = d
      BY <1>0, <1>14, <2>2 DEF Choice, LogWaiting, WorkerLogs, AskUpload, Wait, Seek,
         q, a, d
    <3> QED BY <1>11, <1>w, <3>1
  <2> QED BY <2>1, <2>2
<1>15. CASE SeekChunk \/ PopChunk \/ SeekRequest \/ UNCHANGED vars
  <2>1. q' = q /\ a' = a /\ uploads' = uploads /\ d' = d
    BY <1>0, <1>15 DEF SeekChunk, PopChunk, SeekRequest, Seek, vars, q, a, d
  <2> QED BY <1>11, <1>w, <2>1
<1> QED BY <1>7, <1>8, <1>9, <1>13, <1>14, <1>15 DEF Next, LogThreadStep

(* The log does not feed itself: how many chunks are cut off because the   *)
(* stream is too long is bounded by what the threads write for other       *)
(* reasons and by how often an upload is asked for, though the log thread  *)
(* and the HTTP worker log every upload in the same stream.  Sixteen parts *)
(* per chunk are theirs, so the limit has to be higher (MAX_LOG_SIZE is).  *)
THEOREM LogFeedsLittle ==
  ASSUME IsFiniteSet(Workers)
  PROVE  Spec => []((MaxLog - 15) * Full <= others + 16 * Asked)
<1>1. Init => ChunkInHand /\ WithinBudget /\ FullIsLong
  <2> SUFFICES ASSUME Init PROVE ChunkInHand /\ WithinBudget /\ FullIsLong
    OBVIOUS
  <2>1. /\ LogThread \in Threads /\ hand = <<>> /\ done = <<>> /\ logQ = <<>> /\ ssLog = <<>>
        /\ todo[LogThread] = <<>> /\ at[LogThread] = "run" /\ cutAt = 0 /\ asks = 0
        /\ \A t \in Threads : at[t] = "run" /\ todo[t] = <<>>
        /\ uploads = 0 /\ others = 0 /\ Http \in Threads
    BY Constants DEF Init
  <2>2. Len(<<>>) = 0 /\ Unwritten = 0
    BY <2>1 DEF Unwritten
  <2>3. ChunkInHand
    BY <2>1, <2>2 DEF ChunkInHand
  <2>4. WithinBudget
    <3>1. Upload = 0
      BY <2>1, <2>2 DEF Upload, Own, Written
    <3>2. Owed(todo[Http], at[Http], uploads) = 0
      BY <2>1 DEF Owed, Ends
    <3> QED BY <2>1, <2>2, <3>1, <3>2 DEF WithinBudget
  <2>5. Asked = 0
    <3>1. Asking = {}
      BY <2>1, Constants DEF Asking
    <3> QED BY <2>1, <3>1, FS_EmptySet DEF Asked
  <2>6. Cuts = 0
    <3>1. Pipeline = <<>> /\ Pushing = {}
      BY <2>1 DEF Pipeline, Pushing
    <3> QED BY <2>2, <3>1 DEF Cuts
  <2>7. Full = 0
    BY <2>5, <2>6 DEF Full
  <2>8. \A k \in Nat : (k + 1) * 0 <= 0
    OBVIOUS
  <2> QED BY <2>1, <2>3, <2>4, <2>7, <2>8, LogAssumption DEF FullIsLong
<1>2. TypeOK /\ HandInUse /\ ChunkInHand /\ [Next]_vars => ChunkInHand'
  BY LogThreadCounts
<1>3. TypeOK /\ TypeOK' /\ LockUse /\ HandInUse /\ ChunkInHand /\ FullIsLong /\ [Next]_vars
        => FullIsLong'
  BY FullSteps
<1>4. TypeOK /\ HandInUse /\ ChunkInHand /\ WithinBudget /\ [Next]_vars => WithinBudget'
  BY BudgetStep
<1>5. TypeOK /\ ChunkInHand /\ FullIsLong /\ WithinBudget
        => (MaxLog - 15) * Full <= others + 16 * Asked
  <2> SUFFICES ASSUME TypeOK, ChunkInHand, FullIsLong, WithinBudget
               PROVE  (MaxLog - 15) * Full <= others + 16 * Asked
    OBVIOUS
  <2>1. /\ Full \in Int /\ Asked \in Int /\ Cuts = Full + Asked /\ Own \in Int /\ Cuts \in Nat
        /\ Own <= 4 * Cuts /\ MaxLog \in Nat /\ Written \in Nat /\ others \in Nat
        /\ Upload = Written - Own - others /\ Upload \in Int
    BY CountsTyped, LogAssumption DEF Upload, TypeOK
  <2>2. (MaxLog + 1) * Full <= Written
    <3>1. cutAt \in Nat /\ Len(ssLog) \in Nat /\ Written = cutAt + Len(ssLog)
      BY LenProperties DEF TypeOK, Written
    <3>2. \A k \in Nat, f \in Int : (k + 1) * f \in Int
      OBVIOUS
    <3>3. \A x \in Int, c, l \in Nat : x <= c => x <= c + l
      OBVIOUS
    <3> QED BY <2>1, <3>1, <3>2, <3>3 DEF FullIsLong
  <2>3. Upload <= 12 * Cuts
    <3>1. Len(done) \in Nat /\ Len(done) <= Cuts
      <4>1. /\ Len(done) \in Nat /\ Len(hand) \in Nat /\ Len(logQ) \in Nat
            /\ Len(Pipeline) = Len(done) + Len(hand) + Len(logQ)
        BY LengthsAdd DEF TypeOK, Pipeline
      <4> QED BY <4>1 DEF Cuts
    <3>2. Http \in Threads /\ todo[Http] \in Seq(Tasks) /\ uploads \in Nat
      BY Constants DEF TypeOK
    <3>3. Owed(todo[Http], at[Http], uploads) \in Nat
      BY <3>2, OwedTyped
    <3>4. \A w \in Int, o, u, e, c \in Nat :
            w + o + 12 * u <= 12 * e /\ e <= c => w <= 12 * c
      OBVIOUS
    <3> QED BY <2>1, <3>1, <3>2, <3>3, <3>4 DEF WithinBudget
  <2>4. \A k \in Nat, f, a, o, z \in Int, w, p \in Nat :
          (k + 1) * f <= w /\ o <= 4 * (f + a) /\ z <= 12 * (f + a) /\ z = w - o - p
            => (k - 15) * f <= p + 16 * a
    <3>1. \A k \in Nat, f \in Int : (k + 1) * f \in Int /\ (k - 15) * f = (k + 1) * f - 16 * f
      OBVIOUS
    <3> QED BY <3>1
  <2> QED BY <2>1, <2>2, <2>3, <2>4
<1> QED BY <1>1, <1>2, <1>3, <1>4, <1>5, LogTypeCorrect, LocksAreUsed, HandIsUsed, PTL DEF Spec
=============================================================================
