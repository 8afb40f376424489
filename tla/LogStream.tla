----------------------------- MODULE LogStream ------------------------------
(***************************************************************************)
(* The log of the client (Logger).  Every thread writes to one stream,     *)
(* part by part: pieces of text and line ends, each under writeLock.  The  *)
(* part that starts a line is stamped with the time.  A line end that      *)
(* finds the stream longer than MAX_LOG_SIZE cuts it, uploadLogs() cuts it *)
(* wherever it is; the chunk goes through logQ to the log thread, which    *)
(* makes an upload request of it, and logs while it does so.  The worker   *)
(* that performs the request logs as well, and what both log is cut and    *)
(* uploaded like the rest.  It logs one line if curl does not start, three *)
(* if the server takes the file, four if it does not, and in these two     *)
(* cases one more if there is nobody to tell.                              *)
(*                                                                         *)
(* A worker logs while it holds the lock of its own queue.  Whoever pushes *)
(* to another's queue, the log thread too, waits for that lock with none   *)
(* held and does nothing but push under it.                                *)
(*                                                                         *)
(* A part counts 1 towards MaxLog.  A chunk is the parts of the stream     *)
(* after position from up to position to.                                  *)
(***************************************************************************)
EXTENDS Naturals, Sequences

CONSTANTS Workers,    \* the threads with a work queue, and its lock's name
          Http,       \* the worker that performs HTTP requests
          LogThread,  \* the thread that runs Logger::run
          None,       \* no thread, no lock
          MaxLog,     \* MAX_LOG_SIZE
          UploadLines, \* how many lines the worker may log for an upload
          MaxParts,   \* bound: workers log while fewer parts are from them
          MaxAsks     \* bound on the calls of uploadLogs()

Threads == Workers \cup {LogThread}
Locks   == Workers \cup {"write", "log"}

ASSUME LogAssumption ==
  /\ Http \in Workers
  /\ LogThread \notin Workers
  /\ None \notin Threads \cup Locks
  /\ Workers \cap {"write", "log"} = {}
  /\ UploadLines \subseteq 1..5
  /\ MaxLog \in Nat /\ MaxParts \in Nat /\ MaxAsks \in Nat

VARIABLES
  lock,    \* who holds each lock
  want,    \* the lock a thread is waiting for
  at,      \* where each thread is
  todo,    \* what a thread has still to do for a log line, a chunk, an upload
  bTime,   \* does the next part start a line?
  ssLog,   \* ss_log: the parts written since the last cut
  cutAt,   \* observation: how many parts were cut off so far
  before,  \* observation: the last of them was a text or an end
  chunk,   \* what a thread is pushing to logQ
  logQ,
  hand,    \* the chunk the log thread has popped
  done,    \* observation: the chunks the log thread is done with
  uploads, \* the uploads in reqQ
  asks,    \* calls of Logger::uploadLogs() so far
  others   \* observation: the parts written that no upload caused

stream  == <<bTime, ssLog, cutAt, before, others>>
chunks  == <<chunk, logQ, hand, done, uploads>>
vars == <<lock, want, at, todo, stream, chunks, asks>>

Places == {"run", "text", "end", "ask", "push", "leave", "pop", "request",
           "fetch"}
Tasks  == {"text", "end", "request", "drop", "fetch", "wait", "rest"}
Part  == [kind : {"text", "end"}, stamp : BOOLEAN]
Chunk == [from : Nat, to : Nat]
Nothing == [from |-> 0, to |-> 0]

TypeOK ==
  /\ lock \in [Locks -> Threads \cup {None}]
  /\ want \in [Threads -> Locks \cup {None}]
  /\ at \in [Threads -> Places]
  /\ todo \in [Threads -> Seq(Tasks)]
  /\ bTime \in BOOLEAN
  /\ ssLog \in Seq(Part)
  /\ cutAt \in Nat
  /\ before \in {"text", "end"}
  /\ chunk \in [Threads -> Chunk]
  /\ logQ \in Seq(Chunk)
  /\ hand \in Seq(Chunk)
  /\ done \in Seq(Chunk)
  /\ uploads \in Nat
  /\ asks \in Nat
  /\ others \in Nat
  \* control state and data agree
  /\ at[LogThread] = "pop" => logQ # <<>>

Init ==
  /\ lock = [l \in Locks |-> None]
  /\ want = [t \in Threads |-> None]
  /\ at = [t \in Threads |-> "run"]
  /\ todo = [t \in Threads |-> <<>>]
  /\ bTime = TRUE
  /\ ssLog = <<>>
  /\ cutAt = 0
  /\ before = "end"
  /\ chunk = [t \in Threads |-> Nothing]
  /\ logQ = <<>>
  /\ hand = <<>>
  /\ done = <<>>
  /\ uploads = 0
  /\ asks = 0
  /\ others = 0

Holds(t, l) == lock[l] = t
Bare(t) == \A l \in Locks : ~Holds(t, l)
Release(l) == lock' = [lock EXCEPT ![l] = None]

(* A thread waits for one lock after the other and is at a in the code once *)
(* it has it.                                                               *)
Seek(t, l, a) == want' = [want EXCEPT ![t] = l] /\ at' = [at EXCEPT ![t] = a]
GoOn(t) == at' = [at EXCEPT ![t] = "run"] /\ UNCHANGED want

Acquire(t) ==
  /\ want[t] # None
  /\ lock[want[t]] = None
  /\ lock' = [lock EXCEPT ![want[t]] = t]
  /\ want' = [want EXCEPT ![t] = None]
  /\ UNCHANGED <<at, todo, stream, chunks, asks>>

At(t, place) == at[t] = place /\ want[t] = None
Free(t) == At(t, "run") /\ todo[t] = <<>>

-----------------------------------------------------------------------------
(* What the workers do *)

Line == <<"text", "end">>

(* readFromQ of an empty queue: a line with the queue's lock held (the     *)
(* other tests and pops under that lock log nothing)                        *)
LogWaiting(t) ==
  /\ Free(t) /\ Bare(t)
  /\ others < MaxParts
  /\ todo' = [todo EXCEPT ![t] = Line \o <<"wait">>]
  /\ Seek(t, t, "run")
  /\ UNCHANGED <<lock, stream, chunks, asks>>

(* pthread_cond_wait, which releases the queue's lock *)
Wait(t) ==
  /\ At(t, "run") /\ todo[t] \in {<<"wait">>, <<"rest">>}
  /\ todo' = [todo EXCEPT ![t] = <<>>]
  /\ Release(t)
  /\ UNCHANGED <<want, at, stream, chunks, asks>>

(* info_log << text << std::endl *)
WorkerLogs(t) ==
  /\ Free(t)
  /\ others < MaxParts
  /\ todo' = [todo EXCEPT ![t] = Line]
  /\ UNCHANGED <<lock, want, at, stream, chunks, asks>>

(* The upload_logs and reboot_system commands, and FileHandler before it   *)
(* reboots; the HTTP worker never asks.                                     *)
AskUpload(t) ==
  /\ t # Http /\ Free(t)
  /\ asks < MaxAsks
  /\ asks' = asks + 1
  /\ Seek(t, "write", "ask")
  /\ UNCHANGED <<lock, todo, stream, chunks>>

-----------------------------------------------------------------------------
(* HttpClient: the upload of a chunk *)

(* The worker waits for requests with its lock released and finds an        *)
(* upload, or has performed one, and takes the lock again.                  *)
SeekFetch ==
  /\ At(Http, "run") /\ Bare(Http)
  /\ todo[Http] = <<"fetch">> \/ (todo[Http] = <<>> /\ uploads > 0)
  /\ todo' = [todo EXCEPT ![Http] = <<>>]
  /\ Seek(Http, Http, "fetch")
  /\ UNCHANGED <<lock, stream, chunks, asks>>

(* n lines *)
Lines(n) == [i \in 1..2 * n |-> IF i % 2 = 1 THEN "text" ELSE "end"]

(* readFromQ and what run() logs for the upload; an empty queue is logged   *)
(* with its lock held.                                                      *)
Fetch ==
  /\ At(Http, "fetch")
  /\ GoOn(Http)
  /\ \/ /\ uploads > 0
        /\ uploads' = uploads - 1
        /\ \E n \in UploadLines :
             todo' = [todo EXCEPT ![Http] = Lines(n) \o <<"fetch">>]
        /\ Release(Http)
     \/ /\ uploads = 0
        /\ todo' = [todo EXCEPT ![Http] = Line \o <<"rest">>]
        /\ UNCHANGED <<lock, uploads>>
  /\ UNCHANGED <<stream, chunk, logQ, hand, done, asks>>

(* The worker is performing an upload. *)
Serving ==
  at[Http] = "fetch" \/ (/\ todo[Http] # <<>>
                         /\ todo[Http][Len(todo[Http])] \in {"fetch", "rest"})

-----------------------------------------------------------------------------
(* Logger, under writeLock *)

(* The next part of a log line *)
NextPart(t) ==
  /\ At(t, "run")
  /\ todo[t] # <<>> /\ Head(todo[t]) \in {"text", "end"}
  /\ todo' = [todo EXCEPT ![t] = Tail(@)]
  /\ Seek(t, "write", Head(todo[t]))
  /\ UNCHANGED <<lock, stream, chunks, asks>>

(* Is the part that t writes there because of an upload? *)
ForUpload(t) == t = LogThread \/ (t = Http /\ Serving)
CountPart(t) == others' = IF ForUpload(t) THEN others ELSE others + 1

(* operator<< of a string or a number *)
WriteText(t) ==
  /\ At(t, "text")
  /\ ssLog' = Append(ssLog, [kind |-> "text", stamp |-> bTime])
  /\ bTime' = FALSE
  /\ CountPart(t)
  /\ Release("write")
  /\ GoOn(t)
  /\ UNCHANGED <<todo, cutAt, before, chunks, asks>>

(* str(), str("") and the call of pushToQ, which waits for its lock *)
Cut(t, log) ==
  /\ chunk' = [chunk EXCEPT ![t] = [from |-> cutAt, to |-> cutAt + Len(log)]]
  /\ cutAt' = cutAt + Len(log)
  /\ before' = IF log = <<>> THEN before ELSE log[Len(log)].kind
  /\ ssLog' = <<>>
  /\ Seek(t, "log", "push")

EndOfLine == [kind |-> "end", stamp |-> FALSE]

(* Mutant of WriteEnd: after a cut the next text is not stamped. *)
WriteEndNoStamp(t) ==
  /\ At(t, "end")
  /\ CountPart(t)
  /\ IF Len(ssLog) + 1 > MaxLog
       THEN Cut(t, Append(ssLog, EndOfLine)) /\ UNCHANGED <<lock, bTime>>
       ELSE /\ ssLog' = Append(ssLog, EndOfLine)
            /\ bTime' = TRUE
            /\ Release("write")
            /\ GoOn(t)
            /\ UNCHANGED <<cutAt, before, chunk>>
  /\ UNCHANGED <<todo, logQ, hand, done, uploads, asks>>

(* operator<< of endl *)
WriteEnd(t) ==
  /\ At(t, "end")
  /\ CountPart(t)
  /\ bTime' = TRUE
  /\ IF Len(ssLog) + 1 > MaxLog
       THEN Cut(t, Append(ssLog, EndOfLine)) /\ UNCHANGED lock
       ELSE /\ ssLog' = Append(ssLog, EndOfLine)
            /\ Release("write")
            /\ GoOn(t)
            /\ UNCHANGED <<cutAt, before, chunk>>
  /\ UNCHANGED <<todo, logQ, hand, done, uploads, asks>>

(* uploadLogs() *)
CutAsAsked(t) ==
  /\ At(t, "ask")
  /\ Cut(t, ssLog)
  /\ UNCHANGED <<lock, todo, bTime, others, logQ, hand, done, uploads, asks>>

(* pushToQ, called with writeLock held *)
PushChunk(t) ==
  /\ At(t, "push")
  /\ logQ' = Append(logQ, chunk[t])
  /\ chunk' = [chunk EXCEPT ![t] = Nothing]
  /\ Release("log")
  /\ at' = [at EXCEPT ![t] = "leave"]
  /\ UNCHANGED <<want, todo, stream, hand, done, uploads, asks>>

Leave(t) ==
  /\ at[t] = "leave"
  /\ Release("write")
  /\ GoOn(t)
  /\ UNCHANGED <<todo, stream, chunks, asks>>

-----------------------------------------------------------------------------
(* Logger::run, the log thread *)

(* Mutant of SeekChunk: the last chunk is left in the queue. *)
SeekAllButOne ==
  /\ Free(LogThread) /\ Len(logQ) > 1
  /\ Seek(LogThread, "log", "pop")
  /\ UNCHANGED <<lock, todo, stream, chunks, asks>>

(* Mutant of SeekChunk: it does not wait for a chunk. *)
SeekAtOnce ==
  /\ Free(LogThread)
  /\ Seek(LogThread, "log", "pop")
  /\ UNCHANGED <<lock, todo, stream, chunks, asks>>

(* It waits for a chunk; MonitorQueue shows that the wait ends. *)
SeekChunk ==
  /\ Free(LogThread) /\ logQ # <<>>
  /\ Seek(LogThread, "log", "pop")
  /\ UNCHANGED <<lock, todo, stream, chunks, asks>>

(* What it has to do for a chunk: the line of run(), then uploadLogs of     *)
(* HttpClient, which logs a line and drops an empty chunk or requests its   *)
(* upload.                                                                  *)
Work(c) ==
  Lines(2) \o <<IF c.from = c.to THEN "drop" ELSE "request">>

(* Mutant of PopChunk: the lock of the queue is kept. *)
PopWithoutUnlock ==
  /\ At(LogThread, "pop")
  /\ hand' = <<Head(logQ)>>
  /\ logQ' = Tail(logQ)
  /\ todo' = [todo EXCEPT ![LogThread] = Work(Head(logQ))]
  /\ GoOn(LogThread)
  /\ UNCHANGED <<lock, stream, chunk, done, uploads, asks>>

(* Mutant of PopChunk: front() without pop(). *)
PopTheFront ==
  /\ At(LogThread, "pop")
  /\ hand' = <<Head(logQ)>>
  /\ todo' = [todo EXCEPT ![LogThread] = Work(Head(logQ))]
  /\ Release("log")
  /\ GoOn(LogThread)
  /\ UNCHANGED <<stream, chunk, logQ, done, uploads, asks>>

PopChunk ==
  /\ At(LogThread, "pop")
  /\ hand' = <<Head(logQ)>>
  /\ logQ' = Tail(logQ)
  /\ todo' = [todo EXCEPT ![LogThread] = Work(Head(logQ))]
  /\ Release("log")
  /\ GoOn(LogThread)
  /\ UNCHANGED <<stream, chunk, done, uploads, asks>>

DropEmpty ==
  /\ At(LogThread, "run") /\ todo[LogThread] = <<"drop">>
  /\ todo' = [todo EXCEPT ![LogThread] = <<>>]
  /\ done' = done \o hand
  /\ hand' = <<>>
  /\ UNCHANGED <<lock, want, at, stream, chunk, logQ, uploads, asks>>

SeekRequest ==
  /\ At(LogThread, "run") /\ todo[LogThread] = <<"request">>
  /\ todo' = [todo EXCEPT ![LogThread] = <<>>]
  /\ Seek(LogThread, Http, "request")
  /\ UNCHANGED <<lock, stream, chunks, asks>>

(* HttpClient::pushToQ *)
RequestUpload ==
  /\ At(LogThread, "request")
  /\ uploads' = uploads + 1
  /\ done' = done \o hand
  /\ hand' = <<>>
  /\ Release(Http)
  /\ GoOn(LogThread)
  /\ UNCHANGED <<todo, stream, chunk, logQ, asks>>

-----------------------------------------------------------------------------
Choice(t) == LogWaiting(t) \/ WorkerLogs(t) \/ AskUpload(t)

LoggerStep(t) == NextPart(t) \/ WriteText(t) \/ WriteEnd(t) \/ CutAsAsked(t) \/ PushChunk(t)
                 \/ Leave(t)

LogThreadStep == SeekChunk \/ PopChunk \/ DropEmpty
                 \/ SeekRequest \/ RequestUpload

Next == \/ \E t \in Threads : Acquire(t) \/ LoggerStep(t)
        \/ \E t \in Workers : Choice(t) \/ Wait(t)
        \/ SeekFetch \/ Fetch
        \/ LogThreadStep

Spec == Init /\ [][Next]_vars

(* A thread inside a critical section goes on, and a thread that waits for  *)
(* a mutex gets it some time when it is free again and again: the kernel    *)
(* wakes the waiters of a mutex in turn.  The HTTP worker serves its queue  *)
(* in order: an upload is not passed over for ever.                         *)
Fairness == /\ \A t \in Threads : SF_vars(Acquire(t)) /\ WF_vars(LoggerStep(t))
            /\ \A t \in Workers : WF_vars(Wait(t))
            /\ SF_vars(SeekFetch) /\ WF_vars(Fetch)
            /\ WF_vars(LogThreadStep)

FairSpec == Spec /\ Fairness

-----------------------------------------------------------------------------
(* No threads wait for each other in a circle: run() logs with the lock of  *)
(* its queue held, Logger calls pushToQ with writeLock held, and the log    *)
(* thread, which empties that queue, logs too.                              *)
NoCircularWait ==
  ~ \E S \in SUBSET Threads :
      S # {} /\ \A t \in S : want[t] # None /\ lock[want[t]] \in S

(* Exactly the first text of a line bears the time, whichever threads the   *)
(* line's parts are from and wherever the log was cut.                      *)
StampedLines ==
  \A i \in 1..Len(ssLog) :
    ssLog[i].kind = "text" =>
      (ssLog[i].stamp <=> (IF i = 1 THEN before ELSE ssLog[i - 1].kind) = "end")

(* The chunks that have left the stream, oldest first, up to those in logQ. *)
Pipeline == done \o hand \o logQ
EndOf(p) == IF p = <<>> THEN 0 ELSE p[Len(p)].to
Chained(p) == \A i \in 1..Len(p) : p[i].from = IF i = 1 THEN 0 ELSE p[i - 1].to
Pushing == {t \in Threads : at[t] = "push"}

(* Cutting loses, repeats and reorders nothing on the way from the stream   *)
(* to the upload requests: the chunks follow each other without a gap, the  *)
(* one being pushed comes next, and what is left of the stream starts where *)
(* the last one ends.  (An upload that fails is not tried again.)           *)
Conserved ==
  /\ Chained(Pipeline)
  /\ Pushing = {} => cutAt = EndOf(Pipeline)
  /\ \A t \in Pushing : chunk[t] = [from |-> EndOf(Pipeline), to |-> cutAt]

(* Every chunk cut off the log is eventually uploaded (or dropped if it is  *)
(* empty), and then nothing is left to do: the lines that the log thread    *)
(* and the HTTP worker log for an upload, whichever way it ends, are cut    *)
(* and uploaded in their turn, and that does not go on for ever.            *)
ComesToRest ==
  <>[](logQ = <<>> /\ hand = <<>> /\ Pushing = {} /\ uploads = 0 /\ ~Serving)
====
