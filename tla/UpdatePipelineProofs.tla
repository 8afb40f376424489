------------------------ MODULE UpdatePipelineProofs ------------------------
(***************************************************************************)
(* What is true of the update service for any number of commands, folders, *)
(* entries and faults, whatever the panel does: its state is well typed,   *)
(* commands stay in order, and none is answered twice.                     *)
(***************************************************************************)
EXTENDS UpdatePipeline, SequenceTheorems, TLAPS

(* Facts about the three queues *)

LEMMA PutIn ==
  ASSUME NEW S, NEW q \in Seq(S), NEW x \in S
  PROVE  /\ Append(q, x) \in Seq(S)
         /\ In(Append(q, x)) = In(q) \cup {x}
<1>1. /\ Append(q, x) \in Seq(S)
      /\ Len(Append(q, x)) = Len(q) + 1
      /\ \A i \in 1..Len(q) : Append(q, x)[i] = q[i]
      /\ Append(q, x)[Len(q) + 1] = x
  BY AppendProperties
<1>2. DOMAIN q = 1..Len(q) /\ DOMAIN Append(q, x) = 1..(Len(q) + 1) /\ Len(q) \in Nat
  BY <1>1, LenProperties
<1>3. ASSUME NEW y \in In(Append(q, x)) PROVE y \in In(q) \cup {x}
  <2>1. PICK i \in 1..(Len(q) + 1) : y = Append(q, x)[i]
    BY <1>2, <1>3 DEF In
  <2>2. CASE i \in 1..Len(q)  BY <1>1, <1>2, <2>1, <2>2 DEF In
  <2>3. CASE i = Len(q) + 1  BY <1>1, <2>1, <2>3
  <2> QED BY <1>2, <2>1, <2>2, <2>3
<1>4. ASSUME NEW y \in In(q) PROVE y \in In(Append(q, x))
  <2>1. PICK i \in 1..Len(q) : y = q[i]
    BY <1>2, <1>4 DEF In
  <2>2. i \in DOMAIN Append(q, x) /\ Append(q, x)[i] = y
    BY <1>1, <1>2, <2>1
  <2> QED BY <2>2 DEF In
<1>5. x \in In(Append(q, x))
  <2>1. Len(q) + 1 \in DOMAIN Append(q, x)
    BY <1>2
  <2> QED BY <1>1, <2>1 DEF In
<1> QED BY <1>1, <1>3, <1>4, <1>5

LEMMA TakeOut ==
  ASSUME NEW S, NEW q \in Seq(S), q # <<>>
  PROVE  /\ Tail(q) \in Seq(S)
         /\ Head(q) \in S
         /\ Head(q) \in In(q)
         /\ In(Tail(q)) \subseteq In(q)
<1>1. /\ Head(q) \in S /\ Tail(q) \in Seq(S)
      /\ Len(Tail(q)) = Len(q) - 1
      /\ \A i \in 1..Len(Tail(q)) : Tail(q)[i] = q[i + 1]
      /\ Len(q) \in Nat \ {0}
      /\ Head(q) = q[1]
  BY HeadTailProperties, EmptySeq, LenProperties
<1>2. DOMAIN q = 1..Len(q) /\ DOMAIN Tail(q) = 1..(Len(q) - 1)
  BY <1>1, LenProperties
<1>3. Head(q) \in In(q)
  <2>1. 1 \in DOMAIN q
    BY <1>1, <1>2
  <2> QED BY <1>1, <2>1 DEF In
<1>4. ASSUME NEW y \in In(Tail(q)) PROVE y \in In(q)
  <2>1. PICK i \in 1..(Len(q) - 1) : y = Tail(q)[i]
    BY <1>2, <1>4 DEF In
  <2>2. i + 1 \in DOMAIN q /\ q[i + 1] = y
    BY <1>1, <1>2, <2>1
  <2> QED BY <2>2 DEF In
<1> QED BY <1>1, <1>3, <1>4

(* A newer command goes to the end of an ordered queue. *)
LEMMA PutOrdered ==
  ASSUME NEW S, NEW q \in Seq(S), NEW x \in S, Ordered(q), Older(In(q), {x})
  PROVE  Ordered(Append(q, x))
<1>1. /\ Len(Append(q, x)) = Len(q) + 1
      /\ \A i \in 1..Len(q) : Append(q, x)[i] = q[i]
      /\ Append(q, x)[Len(q) + 1] = x
      /\ DOMAIN q = 1..Len(q) /\ Len(q) \in Nat
      /\ DOMAIN Append(q, x) = 1..(Len(q) + 1)
  BY AppendProperties, LenProperties
<1> SUFFICES ASSUME NEW i \in DOMAIN Append(q, x), NEW j \in DOMAIN Append(q, x),
                    i < j, Append(q, x)[i] \in CmdNos, Append(q, x)[j] \in CmdNos
             PROVE  Append(q, x)[i] < Append(q, x)[j]
  BY DEF Ordered
<1>2. i \in DOMAIN q /\ Append(q, x)[i] = q[i]
  BY <1>1
<1>3. CASE j \in DOMAIN q
  BY <1>1, <1>2, <1>3 DEF Ordered
<1>4. CASE j = Len(q) + 1
  <2>1. q[i] \in In(q)
    BY <1>2 DEF In
  <2> QED BY <1>1, <1>2, <1>4, <2>1 DEF Older
<1> QED BY <1>1, <1>3, <1>4

(* The head of an ordered queue is the oldest command in it. *)
LEMMA TakeOrdered ==
  ASSUME NEW S, NEW q \in Seq(S), q # <<>>, Ordered(q)
  PROVE  Ordered(Tail(q)) /\ Older({Head(q)}, In(Tail(q)))
<1>1. /\ Len(Tail(q)) = Len(q) - 1
      /\ \A i \in 1..Len(Tail(q)) : Tail(q)[i] = q[i + 1]
      /\ Len(q) \in Nat \ {0}
      /\ Head(q) = q[1]
      /\ DOMAIN q = 1..Len(q)
      /\ DOMAIN Tail(q) = 1..(Len(q) - 1)
  BY HeadTailProperties, EmptySeq, LenProperties
<1>2. Ordered(Tail(q))
  <2> SUFFICES ASSUME NEW i \in DOMAIN Tail(q), NEW j \in DOMAIN Tail(q),
                      i < j, Tail(q)[i] \in CmdNos, Tail(q)[j] \in CmdNos
               PROVE  Tail(q)[i] < Tail(q)[j]
    BY DEF Ordered
  <2>1. i + 1 \in DOMAIN q /\ j + 1 \in DOMAIN q /\ i + 1 < j + 1
    BY <1>1
  <2>2. Tail(q)[i] = q[i + 1] /\ Tail(q)[j] = q[j + 1]
    BY <1>1
  <2> QED BY <2>1, <2>2 DEF Ordered
<1>3. Older({Head(q)}, In(Tail(q)))
  <2> SUFFICES ASSUME Head(q) \in CmdNos, NEW y \in In(Tail(q)) \cap CmdNos
               PROVE  Head(q) < y
    BY DEF Older
  <2>1. PICK i \in DOMAIN Tail(q) : y = Tail(q)[i]
    BY DEF In
  <2>2. i + 1 \in DOMAIN q /\ 1 \in DOMAIN q /\ 1 < i + 1 /\ y = q[i + 1]
    BY <1>1, <2>1
  <2> QED BY <1>1, <2>2 DEF Ordered
<1> QED BY <1>2, <1>3

-----------------------------------------------------------------------------
(* Typing, step by step *)

LEMMA InitTyped == Init => TypeOK
<1> SUFFICES ASSUME Init PROVE TypeOK
  OBVIOUS
<1> USE PipelineAssumption DEF Init
<1>1. fh \in FHState /\ fh.pc = "idle"
  BY DEF FHIdle, FHState
<1>2. zip \in Archive /\ (zip.of = None => zip.len = 0)
  BY DEF Archive
<1>3. /\ tmp \in Contents /\ disk \in Contents
      /\ running \in [Folders -> Builds \cup {None}]
  BY DEF Contents, Empty, Whole, Builds
<1>4. http \in {None} /\ http \notin CmdNos
  BY DEF CmdNos
<1>5. <<>> \in Seq(Msgs) /\ <<>> \in Seq(Reqs)
      /\ <<>> \in Seq(CmdNos) /\ <<>> \in Seq(Reply)
  BY EmptySeq
<1>6. /\ sent \in 0..MaxCmd /\ rebootCmds \in 0..MaxRebootCmds
      /\ uploads \in 0..MaxUploads /\ kills \in 0..MaxKills
      /\ flawed \subseteq CmdNos /\ blind \subseteq CmdNos
  OBVIOUS
<1> QED BY <1>1, <1>2, <1>3, <1>4, <1>5, <1>6 DEF TypeOK

LEMMA BuildInTyped == \A dir : BuildIn(dir) \in Builds \cup {None}
BY DEF BuildIn

(* How the record of FileHandler::run changes. *)
LEMMA FHTyped ==
  ASSUME fh \in FHState
  PROVE  /\ FHIdle \in FHState
         /\ fh.next <= N => /\ [fh EXCEPT !.next = @ + 1] \in FHState
                           /\ [fh EXCEPT !.next = @ + 1].pc = fh.pc
                           /\ [fh EXCEPT !.next = @ + 1].cmd = fh.cmd
         /\ [fh EXCEPT !.pc = "countdown"] \in FHState
         /\ [fh EXCEPT !.pc = "countdown"].cmd = fh.cmd
         /\ [fh EXCEPT !.pc = "countdown"].pc = "countdown"
         /\ \A c \in CmdNos, p \in {"check", "install"} :
               [pc |-> p, cmd |-> c, next |-> 1] \in FHState
BY PipelineAssumption DEF FHState, FHIdle

(* write_function adds an entry to the archive file. *)
LEMMA WriteTyped ==
  ASSUME zip \in Archive, zip.len < N
  PROVE  /\ [zip EXCEPT !.len = @ + 1] \in Archive
         /\ [zip EXCEPT !.len = @ + 1].of = zip.of
BY PipelineAssumption DEF Archive

(* extract() writes an entry into a folder. *)
LEMMA EntryTyped ==
  ASSUME NEW d \in Contents, NEW f \in Folders, NEW e \in Entries, NEW b \in CmdNos \cup {None}
  PROVE  [d EXCEPT ![f][e] = b] \in Contents
BY PipelineAssumption DEF Contents, CmdNos, Builds

(* What a restart leaves behind, whoever caused it. *)
LEMMA RestartTyped ==
  ASSUME TypeOK, LoseMemory,
         running' \in [Folders -> Builds \cup {None}],
         UNCHANGED <<panel, uploads, files, replies, seen>>,
         rebootReq' \in BOOLEAN, kills' \in 0..MaxKills
  PROVE  TypeOK'
<1> USE PipelineAssumption DEF LoseMemory, panel, files, seen, TypeOK
<1>1. fh' \in FHState /\ fh'.pc = "idle"
  BY FHTyped DEF FHIdle
<1>2. http' \notin CmdNos
  BY DEF CmdNos
<1>3. msgQ' \in Seq(Msgs) /\ reqQ' \in Seq(Reqs)
      /\ extractQ' \in Seq(CmdNos)
  BY EmptySeq
<1>4. up' \in BOOLEAN
  OBVIOUS
<1> QED BY <1>1, <1>2, <1>3, <1>4

LEMMA StepTyped == TypeOK /\ [Next]_vars => TypeOK'
<1> SUFFICES ASSUME TypeOK, [Next]_vars PROVE TypeOK'
  OBVIOUS
<1> USE PipelineAssumption DEF TypeOK, panel, queues, threads, files, device, seen
<1>1. CASE PanelUpdate
  <2>1. sent + 1 \in CmdNos /\ sent' \in 0..MaxCmd
    BY <1>1 DEF PanelUpdate, CmdNos, Msgs
  <2>2. msgQ' \in Seq(Msgs)
    BY <1>1, <2>1, PutIn DEF PanelUpdate, Msgs
  <2> QED BY <1>1, <2>1, <2>2 DEF PanelUpdate
<1>2. CASE PanelReboot
  BY <1>2, PutIn DEF PanelReboot, Msgs
<1>3. CASE WDReport
  BY <1>3 DEF WDReport
<1>4. CASE MHUpdate
  <2>1. Tail(msgQ) \in Seq(Msgs)
    BY <1>4, TakeOut DEF MHUpdate
  <2>2. reqQ' \in Seq(Reqs)
    <3>1. reqQ' \in {reqQ, Append(reqQ, Head(msgQ))} /\ Head(msgQ) \in Reqs
      BY <1>4 DEF MHUpdate, Reqs
    <3>2. Append(reqQ, Head(msgQ)) \in Seq(Reqs)
      BY <3>1, PutIn
    <3> QED BY <3>1, <3>2
  <2>3. blind' \subseteq CmdNos
    BY <1>4 DEF MHUpdate
  <2> QED BY <1>4, <2>1, <2>2, <2>3 DEF MHUpdate
<1>5. CASE MHRebootCmd
  <2>1. Tail(msgQ) \in Seq(Msgs)
    BY <1>5, TakeOut DEF MHRebootCmd
  <2> QED BY <1>5, <2>1 DEF MHRebootCmd
<1>6. CASE MHReboot
  BY <1>6 DEF MHReboot, SendReboot
<1>7. CASE PushUpload
  BY <1>7, PutIn DEF PushUpload, Reqs
<1>8. CASE HttpTake
  <2>1. Tail(reqQ) \in Seq(Reqs) /\ Head(reqQ) \in Reqs
    BY <1>8, TakeOut DEF HttpTake
  <2>2. /\ zip' \in Archive
        /\ zip'.of = None => zip'.len = 0
        /\ http' \in CmdNos => zip'.of = http'
    BY <1>8, <2>1 DEF HttpTake, Archive
  <2> QED BY <1>8, <2>1, <2>2 DEF HttpTake, Reqs
<1>9. CASE HttpNoCurl
  <2>1. Tail(reqQ) \in Seq(Reqs)
    BY <1>9, TakeOut DEF HttpNoCurl
  <2> QED BY <1>9, <2>1 DEF HttpNoCurl
<1>24. CASE HttpNoFileFails
  <2>1. Tail(reqQ) \in Seq(Reqs) /\ Head(reqQ) \in CmdNos
    BY <1>24, TakeOut DEF HttpNoFileFails, NoFile
  <2>2. replies' \in Seq(Reply)
    BY <1>24, <2>1 DEF HttpNoFileFails, Answer, Reply
  <2> QED BY <1>24, <2>1, <2>2 DEF HttpNoFileFails
<1>25. CASE HttpNoFileEmpty
  <2>1. Tail(reqQ) \in Seq(Reqs) /\ Head(reqQ) \in CmdNos
    BY <1>25, TakeOut DEF HttpNoFileEmpty, NoFile
  <2>2. extractQ' \in Seq(CmdNos)
    BY <1>25, <2>1, PutIn DEF HttpNoFileEmpty
  <2>3. flawed' \subseteq CmdNos /\ blind' \subseteq CmdNos
    BY <1>25, <2>1 DEF HttpNoFileEmpty
  <2> QED BY <1>25, <2>1, <2>2, <2>3 DEF HttpNoFileEmpty
<1>26. CASE HttpNoFileCrash
  <2>1. running' \in [Folders -> Builds \cup {None}]
    BY <1>26, BuildInTyped DEF HttpNoFileCrash, ClientRestarts
  <2> QED BY <1>26, <2>1, RestartTyped DEF HttpNoFileCrash, ClientRestarts
<1>10. CASE HttpWrite
  <2>1. zip' \in Archive /\ zip'.of = zip.of
    BY <1>10, WriteTyped DEF HttpWrite
  <2>2. zip'.of # None
    <3>1. http \in CmdNos /\ zip.of = http
      BY <1>10 DEF HttpWrite
    <3>2. http # None
      BY <3>1, PipelineAssumption DEF CmdNos
    <3> QED BY <2>1, <3>1, <3>2
  <2> QED BY <1>10, <2>1, <2>2 DEF HttpWrite
<1>11. CASE HttpSuccess
  <2>1. http' = None /\ http' \notin CmdNos
    BY <1>11 DEF HttpSuccess, CmdNos
  <2>2. extractQ' \in Seq(CmdNos)
    BY <1>11, PutIn DEF HttpSuccess
  <2>3. flawed' \subseteq CmdNos
    BY <1>11 DEF HttpSuccess
  <2> QED BY <1>11, <2>1, <2>2, <2>3 DEF HttpSuccess
<1>12. CASE HttpFailure
  <2>1. http' = None /\ http' \notin CmdNos
    BY <1>12 DEF HttpFailure, CmdNos
  <2>2. replies' \in Seq(Reply)
    BY <1>12 DEF HttpFailure, Answer, Reply
  <2>3. zip' \in Archive /\ (zip'.of = None => zip'.len = 0)
    BY <1>12 DEF HttpFailure, Archive
  <2> QED BY <1>12, <2>1, <2>2, <2>3 DEF HttpFailure
<1>13. CASE HttpUploaded
  <2>1. http' = None /\ http' \notin CmdNos
    BY <1>13 DEF HttpUploaded, CmdNos
  <2> QED BY <1>13, <2>1 DEF HttpUploaded
<1>14. CASE FHTake
  <2>1. Tail(extractQ) \in Seq(CmdNos) /\ Head(extractQ) \in CmdNos
    BY <1>14, TakeOut DEF FHTake
  <2>2. tmp' \in Contents
    BY <1>14 DEF FHTake, Empty, Contents
  <2>3. fh' \in FHState /\ fh'.cmd \in CmdNos
    BY <1>14, <2>1, FHTyped DEF FHTake
  <2> QED BY <1>14, <2>1, <2>2, <2>3 DEF FHTake
<1>15. CASE FHEntry
  <2>1. fh.next <= zip.len /\ zip.len \in 0..N /\ fh.next \in 1..N+1
    BY <1>15 DEF FHEntry, Archive, FHState
  <2>2. fh.next <= N /\ fh.next \in Entries
    BY <2>1 DEF Entries
  <2>3. fh' \in FHState /\ fh'.pc = fh.pc /\ fh'.cmd = fh.cmd
    <3>1. fh' = [fh EXCEPT !.next = @ + 1]
      BY <1>15 DEF FHEntry
    <3> QED BY <2>2, <3>1, FHTyped
  <2>4. zip.of \in CmdNos /\ Target[zip.of] \in Folders
    BY <2>1 DEF Archive
  <2>5. tmp' \in Contents /\ disk' \in Contents
    <3>1. \A x \in {zip.of, None} :
            /\ [tmp EXCEPT ![Target[zip.of]][fh.next] = x] \in Contents
            /\ [disk EXCEPT ![Target[zip.of]][fh.next] = x] \in Contents
      BY <2>2, <2>4, EntryTyped
    <3>2. CASE UNCHANGED <<tmp, disk>>
      BY <3>2
    <3>3. CASE PutEntry(zip.of) \/ PutEntry(None)
      BY <3>1, <3>3 DEF PutEntry
    <3> QED BY <1>15, <3>2, <3>3 DEF FHEntry
  <2>6. flawed' \subseteq CmdNos
    BY <1>15 DEF FHEntry, Extracting
  <2> QED BY <1>15, <2>3, <2>5, <2>6 DEF FHEntry, Extracting
<1>16. CASE FHCheckOk
  <2>1. fh' \in FHState /\ fh'.cmd \in CmdNos
    BY <1>16, FHTyped DEF FHCheckOk
  <2>2. disk' \in Contents
    BY <1>16 DEF FHCheckOk, Empty, Contents
  <2> QED BY <1>16, <2>1, <2>2 DEF FHCheckOk
<1>17. CASE FHCheckFail
  <2>1. replies' \in Seq(Reply)
    BY <1>17 DEF FHCheckFail, Answer, Reply
  <2>2. fh' \in FHState /\ fh'.pc = "idle"
    BY <1>17, FHTyped DEF FHCheckFail, FHIdle
  <2> QED BY <1>17, <2>1, <2>2 DEF FHCheckFail
<1>18. CASE FHInstallOk
  <2>1. replies' \in Seq(Reply)
    BY <1>18 DEF FHInstallOk, Answer, Reply
  <2>2. fh' \in FHState /\ fh'.cmd \in CmdNos
    BY <1>18, FHTyped DEF FHInstallOk
  <2> QED BY <1>18, <2>1, <2>2 DEF FHInstallOk
<1>19. CASE FHInstallFail
  <2>1. fh' \in FHState /\ fh'.pc = "idle"
    BY <1>19, FHTyped DEF FHInstallFail, FHIdle
  <2> QED BY <1>19, <2>1 DEF FHInstallFail
<1>20. CASE FHReboot
  <2>1. fh' \in FHState /\ fh'.pc = "idle"
    BY <1>20, FHTyped DEF FHReboot, FHIdle
  <2> QED BY <1>20, <2>1 DEF FHReboot, SendReboot
<1>21. CASE Reboot
  <2>1. running' \in [Folders -> Builds \cup {None}]
    BY <1>21, BuildInTyped DEF Reboot
  <2> QED BY <1>21, <2>1, RestartTyped DEF Reboot
<1>22. CASE Kill
  <2>1. running' \in [Folders -> Builds \cup {None}]
    BY <1>22, BuildInTyped DEF Kill, ClientRestarts
  <2> QED BY <1>22, <2>1, RestartTyped DEF Kill, ClientRestarts
<1>23. CASE UNCHANGED vars
  BY <1>23 DEF vars
<1> QED
  BY <1>1, <1>2, <1>3, <1>4, <1>5, <1>6, <1>7, <1>8, <1>9, <1>10, <1>11, <1>12,
     <1>13, <1>14, <1>15, <1>16, <1>17, <1>18, <1>19, <1>20, <1>21, <1>22, <1>23,
     <1>24, <1>25, <1>26
  DEF Next, PanelStep, MHStep, HttpStep, HttpNoFile, FHStep

(* The state of the service is always well typed; in particular            *)
(* HttpClient::run writes an archive file that is the one of its request,  *)
(* and FileHandler::run works on a command whenever it is not idle.        *)
THEOREM TypeCorrect == Spec => []TypeOK
BY InitTyped, StepTyped, PTL DEF Spec

-----------------------------------------------------------------------------
(* Order and answers.  Neither InOrder nor AnsweredOnce is inductive by    *)
(* itself: a new command is younger than all in service, and unanswered,   *)
(* because the panel counts up and no number it has not sent is about.     *)
OnlySent == \A c \in InService \cup Answered : c <= sent

ServiceInv == InOrder /\ AnsweredOnce /\ OnlySent

AnsweredApart == \A i, j \in DOMAIN replies : i # j => replies[i].cmd # replies[j].cmd

(* Sending an answer adds its command to the answered ones, and no other.  *)
LEMMA AnswerAdds ==
  ASSUME TypeOK, AnsweredApart,
         NEW c \in CmdNos, NEW ok \in BOOLEAN,
         c \notin Answered, Answer(c, ok)
  PROVE  AnsweredApart' /\ Answered' = Answered \cup {c}
<1> DEFINE r == [cmd |-> c, ok |-> ok]
<1>1. r \in Reply /\ r.cmd = c
  BY DEF Reply
<1>2. replies' = Append(replies, r) /\ replies \in Seq(Reply)
  BY DEF Answer, TypeOK
<1> HIDE DEF r
<1>3. In(replies') = In(replies) \cup {r}
  BY <1>1, <1>2, PutIn
<1>4. Answered' = Answered \cup {c}
  BY <1>1, <1>3 DEF Answered
<1>5. /\ DOMAIN replies = 1..Len(replies) /\ Len(replies) \in Nat
      /\ DOMAIN replies' = 1..(Len(replies) + 1)
      /\ \A i \in 1..Len(replies) : replies'[i] = replies[i]
      /\ replies'[Len(replies) + 1] = r
  BY <1>1, <1>2, AppendProperties, LenProperties
<1>6. ASSUME NEW i \in DOMAIN replies', NEW j \in DOMAIN replies', i # j
      PROVE  replies'[i].cmd # replies'[j].cmd
  <2>1. \A k \in DOMAIN replies : replies[k].cmd # c
    BY DEF Answered, In
  <2>2. CASE i \in DOMAIN replies /\ j \in DOMAIN replies
    BY <1>5, <1>6, <2>2 DEF AnsweredApart
  <2>3. CASE i = Len(replies) + 1
    BY <1>1, <1>5, <1>6, <2>1, <2>3
  <2>4. CASE j = Len(replies) + 1
    BY <1>1, <1>5, <1>6, <2>1, <2>4
  <2> QED BY <1>5, <2>2, <2>3, <2>4
<1> QED BY <1>4, <1>6 DEF AnsweredApart

LEMMA InitServed == Init => ServiceInv
<1> SUFFICES ASSUME Init PROVE ServiceInv
  OBVIOUS
<1>1. In(<<>>) = {} /\ Ordered(<<>>)
  BY DEF In, Ordered
<1>2. /\ msgQ = <<>> /\ reqQ = <<>> /\ extractQ = <<>> /\ replies = <<>>
      /\ AtFH = {} /\ http = None
  BY DEF Init, AtFH, FHIdle
<1>3. None \notin CmdNos
  BY PipelineAssumption DEF CmdNos
<1>4. InService = {} /\ Answered = {}
  BY <1>1, <1>2, <1>3 DEF InService, Answered
<1>5. InOrder
  BY <1>1, <1>2, <1>3 DEF InOrder, Older
<1>6. AnsweredOnce
  BY <1>2, <1>4 DEF AnsweredOnce
<1> QED BY <1>4, <1>5, <1>6 DEF ServiceInv, OnlySent

(* After a restart nothing is in service. *)
LEMMA RestartServed ==
  ASSUME ServiceInv, LoseMemory, UNCHANGED <<sent, replies>>
  PROVE  ServiceInv'
<1>1. In(<<>>) = {} /\ Ordered(<<>>)
  BY DEF In, Ordered
<1>2. /\ msgQ' = <<>> /\ reqQ' = <<>> /\ extractQ' = <<>>
      /\ AtFH' = {} /\ http' = None
  BY DEF LoseMemory, AtFH, FHIdle
<1>3. None \notin CmdNos
  BY PipelineAssumption DEF CmdNos
<1>4. InService' = {} /\ Answered' = Answered
  BY <1>1, <1>2, <1>3 DEF InService, Answered
<1>5. InOrder'
  BY <1>1, <1>2, <1>3 DEF InOrder, Older
<1>6. AnsweredOnce'
  BY <1>4 DEF AnsweredOnce, ServiceInv
<1> QED BY <1>4, <1>5, <1>6 DEF ServiceInv, OnlySent

(* A step that only takes commands out of service keeps the answers right. *)
LEMMA LessService ==
  ASSUME ServiceInv, InService' \subseteq InService,
         UNCHANGED <<sent, replies>>,
         fh.pc = "countdown" => fh' = fh
  PROVE  AnsweredOnce' /\ OnlySent'
<1>1. Answered' = Answered
  BY DEF Answered
<1> QED BY <1>1 DEF ServiceInv, AnsweredOnce, OnlySent

(* A step that moves no command and answers none. *)
LEMMA SameService ==
  ASSUME ServiceInv, UNCHANGED <<sent, msgQ, reqQ, extractQ, http, replies>>,
         AtFH' = AtFH, fh.pc # "countdown"
  PROVE  ServiceInv'
<1>1. InService' = InService /\ InOrder'
  BY DEF InService, ServiceInv, InOrder
<1> QED BY <1>1, LessService DEF ServiceInv

(* The command of FileHandler::run is nowhere else. *)
LEMMA LastIsAlone ==
  ASSUME ServiceInv, fh.cmd \in CmdNos, AtFH = {fh.cmd}
  PROVE  fh.cmd \notin In(extractQ) \cup {http} \cup In(reqQ) \cup In(msgQ)
<1>1. fh.cmd \in Nat
  BY DEF CmdNos
<1>2. ~(fh.cmd < fh.cmd)
  BY <1>1
<1> QED BY <1>2 DEF ServiceInv, InOrder, Older

LEMMA ServiceOfNumbers == TypeOK => InService \subseteq CmdNos /\ Answered \subseteq CmdNos
<1> SUFFICES ASSUME TypeOK PROVE Answered \subseteq CmdNos
  BY DEF InService
<1>1. \A i \in DOMAIN replies : replies[i] \in Reply
  BY LenProperties DEF TypeOK
<1>2. \A r \in Reply : r.cmd \in CmdNos
  BY DEF Reply
<1> QED BY <1>1, <1>2 DEF Answered, In

LEMMA StepServed == TypeOK /\ ServiceInv /\ [Next]_vars => ServiceInv'
<1> SUFFICES ASSUME TypeOK, ServiceInv, [Next]_vars PROVE ServiceInv'
  OBVIOUS
<1> USE PipelineAssumption DEF panel, queues, threads, files, device, seen
<1>a. /\ msgQ \in Seq(Msgs)
      /\ reqQ \in Seq(Reqs)
      /\ extractQ \in Seq(CmdNos)
      /\ http \in CmdNos \cup {Upload, None}
      /\ fh.pc # "idle" => fh.cmd \in CmdNos
      /\ sent \in 0..MaxCmd
      /\ None \notin CmdNos /\ Upload \notin CmdNos /\ RebootCmd \notin CmdNos
  BY DEF TypeOK, CmdNos
<1>b. CmdNos \subseteq Nat
  BY DEF CmdNos
<1>1. CASE PanelUpdate
  <2>1. /\ sent + 1 \in CmdNos /\ msgQ' = Append(msgQ, sent + 1) /\ sent' = sent + 1
        /\ UNCHANGED <<reqQ, extractQ, http, fh, replies>>
        /\ sent + 1 \in Msgs
    BY <1>1, <1>a DEF PanelUpdate, CmdNos, Msgs
  <2>2. In(msgQ') = In(msgQ) \cup {sent + 1}
    BY <2>1, <1>a, PutIn
  <2>3. \A c \in InService \cup Answered : c < sent + 1 /\ c \in Nat
    <3>1. sent \in Nat
      BY DEF TypeOK
    <3> SUFFICES ASSUME NEW c \in InService \cup Answered
                 PROVE  c < sent + 1 /\ c \in Nat
      OBVIOUS
    <3>2. c \in Nat
      BY <1>b, ServiceOfNumbers
    <3>3. c <= sent
      BY DEF ServiceInv, OnlySent
    <3> QED BY <3>1, <3>2, <3>3
  <2>4. Older(In(msgQ), {sent + 1})
    BY <2>3 DEF Older, InService
  <2>5. Ordered(msgQ')
    BY <2>1, <2>4, <1>a, PutOrdered DEF ServiceInv, InOrder
  <2>6. AtFH' = AtFH /\ InService' = InService \cup {sent + 1} /\ Answered' = Answered
    BY <2>1, <2>2 DEF AtFH, InService, Answered
  <2>7. InOrder'
    BY <2>1, <2>2, <2>3, <2>5, <2>6 DEF ServiceInv, InOrder, Older, InService
  <2>8. sent + 1 \notin Answered
    BY <2>3, <1>a
  <2>9. AnsweredOnce'
    BY <2>1, <2>6, <2>8 DEF ServiceInv, AnsweredOnce
  <2>10. OnlySent'
    <3>1. sent \in Nat
      BY DEF TypeOK
    <3> SUFFICES ASSUME NEW c \in InService' \cup Answered' PROVE c <= sent'
      BY DEF OnlySent
    <3>2. c = sent + 1 \/ c \in InService \cup Answered
      BY <2>6
    <3> QED BY <2>1, <2>3, <3>1, <3>2
  <2> QED BY <2>7, <2>9, <2>10 DEF ServiceInv
<1>2. CASE PanelReboot
  <2>1. /\ msgQ' = Append(msgQ, RebootCmd) /\ RebootCmd \in Msgs
        /\ UNCHANGED <<sent, reqQ, extractQ, http, fh, replies>>
    BY <1>2, PutIn DEF PanelReboot, Msgs
  <2>2. In(msgQ') = In(msgQ) \cup {RebootCmd}
    BY <2>1, <1>a, PutIn
  <2>3. Ordered(msgQ')
    BY <2>1, <1>a, PutOrdered DEF ServiceInv, InOrder, Older
  <2>4. AtFH' = AtFH /\ InService' = InService
    BY <2>1, <2>2, <1>a DEF AtFH, InService
  <2>5. InOrder'
    BY <2>1, <2>2, <2>3, <2>4, <1>a DEF ServiceInv, InOrder, Older
  <2> QED BY <2>1, <2>4, <2>5, LessService DEF ServiceInv
<1>3. CASE MHUpdate
  <2>1. /\ msgQ # <<>> /\ msgQ' = Tail(msgQ) /\ Head(msgQ) \in CmdNos
        /\ reqQ' \in {reqQ, Append(reqQ, Head(msgQ))}
        /\ UNCHANGED <<sent, extractQ, http, fh, replies>>
    BY <1>3 DEF MHUpdate
  <2>2. Head(msgQ) \in In(msgQ) /\ In(msgQ') \subseteq In(msgQ)
    BY <2>1, <1>a, TakeOut
  <2>3. Ordered(msgQ') /\ Older({Head(msgQ)}, In(msgQ'))
    BY <2>1, <1>a, TakeOrdered DEF ServiceInv, InOrder
  <2>a. Head(msgQ) \in Reqs
    BY <2>1 DEF Reqs
  <2>4. In(reqQ') \subseteq In(reqQ) \cup {Head(msgQ)}
    <3>1. In(Append(reqQ, Head(msgQ))) = In(reqQ) \cup {Head(msgQ)}
      BY <2>a, <1>a, PutIn
    <3> QED BY <2>1, <3>1
  <2>5. Older(In(reqQ), {Head(msgQ)})
    BY <2>1, <2>2 DEF ServiceInv, InOrder, Older
  <2>6. Ordered(reqQ')
    <3>1. Ordered(reqQ)
      BY DEF ServiceInv, InOrder
    <3>2. Ordered(Append(reqQ, Head(msgQ)))
      BY <3>1, <2>a, <2>5, <1>a, PutOrdered
    <3> QED BY <2>1, <3>1, <3>2
  <2>7. AtFH' = AtFH /\ InService' \subseteq InService
    BY <2>1, <2>2, <2>4 DEF AtFH, InService
  <2>8. InOrder'
    BY <2>1, <2>2, <2>3, <2>4, <2>6, <2>7 DEF ServiceInv, InOrder, Older
  <2> QED BY <2>1, <2>7, <2>8, LessService DEF ServiceInv
<1>4. CASE MHRebootCmd
  <2>1. /\ msgQ # <<>> /\ msgQ' = Tail(msgQ)
        /\ UNCHANGED <<sent, reqQ, extractQ, http, fh, replies>>
    BY <1>4 DEF MHRebootCmd
  <2>2. In(msgQ') \subseteq In(msgQ)
    BY <2>1, <1>a, TakeOut
  <2>3. Ordered(msgQ')
    BY <2>1, <1>a, TakeOrdered DEF ServiceInv, InOrder
  <2>4. AtFH' = AtFH /\ InService' \subseteq InService
    BY <2>1, <2>2 DEF AtFH, InService
  <2>5. InOrder'
    BY <2>1, <2>2, <2>3, <2>4 DEF ServiceInv, InOrder, Older
  <2> QED BY <2>1, <2>4, <2>5, LessService DEF ServiceInv
<1>5. CASE PushUpload
  <2>1. /\ reqQ' = Append(reqQ, Upload) /\ Upload \in Reqs
        /\ UNCHANGED <<sent, msgQ, extractQ, http, fh, replies>>
    BY <1>5 DEF PushUpload, Reqs
  <2>2. In(reqQ') = In(reqQ) \cup {Upload}
    BY <2>1, <1>a, PutIn
  <2>3. Ordered(reqQ')
    BY <2>1, <1>a, PutOrdered DEF ServiceInv, InOrder, Older
  <2>4. AtFH' = AtFH /\ InService' = InService
    BY <2>1, <2>2, <1>a DEF AtFH, InService
  <2>5. InOrder'
    BY <2>1, <2>2, <2>3, <2>4, <1>a DEF ServiceInv, InOrder, Older
  <2> QED BY <2>1, <2>4, <2>5, LessService DEF ServiceInv
<1>6. CASE HttpTake \/ HttpNoCurl
  <2>1. /\ reqQ # <<>> /\ reqQ' = Tail(reqQ)
        /\ http = None /\ http' \in {None, Head(reqQ)}
        /\ UNCHANGED <<sent, msgQ, extractQ, fh, replies>>
    BY <1>6 DEF HttpTake, HttpNoCurl
  <2>2. Head(reqQ) \in In(reqQ) /\ In(reqQ') \subseteq In(reqQ)
    BY <2>1, <1>a, TakeOut
  <2>3. Ordered(reqQ') /\ Older({Head(reqQ)}, In(reqQ'))
    BY <2>1, <1>a, TakeOrdered DEF ServiceInv, InOrder
  <2>4. AtFH' = AtFH /\ InService' \subseteq InService
    BY <2>1, <2>2, <1>a DEF AtFH, InService
  <2>5. InOrder'
    BY <2>1, <2>2, <2>3, <2>4, <1>a DEF ServiceInv, InOrder, Older
  <2> QED BY <2>1, <2>4, <2>5, LessService DEF ServiceInv
<1>7. CASE HttpSuccess
  <2>1. /\ http \in CmdNos /\ http' = None /\ extractQ' = Append(extractQ, http)
        /\ UNCHANGED <<sent, msgQ, reqQ, fh, replies>>
    BY <1>7 DEF HttpSuccess
  <2>2. In(extractQ') = In(extractQ) \cup {http}
    BY <2>1, <1>a, PutIn
  <2>3. Ordered(extractQ')
    BY <2>1, <1>a, PutOrdered DEF ServiceInv, InOrder, Older
  <2>4. AtFH' = AtFH /\ InService' \subseteq InService
    BY <2>1, <2>2, <1>a DEF AtFH, InService
  <2>5. InOrder'
    BY <2>1, <2>2, <2>3, <2>4, <1>a DEF ServiceInv, InOrder, Older
  <2> QED BY <2>1, <2>4, <2>5, LessService DEF ServiceInv
<1>18. CASE HttpNoFileFails
  <2>1. /\ reqQ # <<>> /\ reqQ' = Tail(reqQ) /\ Head(reqQ) \in CmdNos
        /\ Answer(Head(reqQ), FALSE)
        /\ UNCHANGED <<sent, msgQ, extractQ, http, fh>>
    BY <1>18 DEF HttpNoFileFails, NoFile
  <2>2. Head(reqQ) \in In(reqQ) /\ In(reqQ') \subseteq In(reqQ)
    BY <2>1, <1>a, TakeOut
  <2>3. Ordered(reqQ') /\ Older({Head(reqQ)}, In(reqQ'))
    BY <2>1, <1>a, TakeOrdered DEF ServiceInv, InOrder
  <2>4. /\ Older(AtFH \cup In(extractQ) \cup {http}, {Head(reqQ)})
        /\ Older({Head(reqQ)}, In(reqQ') \cup In(msgQ))
    BY <2>1, <2>2, <2>3 DEF ServiceInv, InOrder, Older
  <2>5. Head(reqQ) \notin AtFH \cup In(extractQ) \cup {http} \cup In(reqQ') \cup In(msgQ)
    <3>1. \A n \in Nat : ~(n < n)
      OBVIOUS
    <3>2. ~(Head(reqQ) < Head(reqQ))
      BY <2>1, <1>b, <3>1
    <3> QED BY <2>1, <2>4, <3>2 DEF Older
  <2>6. Head(reqQ) \notin Answered
    BY <2>1, <2>2, <2>5 DEF ServiceInv, AnsweredOnce, InService, AtFH
  <2>7. AnsweredApart' /\ Answered' = Answered \cup {Head(reqQ)}
    BY <2>1, <2>6, AnswerAdds DEF ServiceInv, AnsweredOnce, AnsweredApart
  <2>8. AtFH' = AtFH /\ InService' \subseteq InService \ {Head(reqQ)}
    BY <2>1, <2>2, <2>5 DEF AtFH, InService
  <2>9. InOrder'
    BY <2>1, <2>2, <2>3, <2>8 DEF ServiceInv, InOrder, Older
  <2>10. AnsweredOnce'
    BY <2>1, <2>7, <2>8 DEF ServiceInv, AnsweredOnce, AnsweredApart
  <2>11. OnlySent'
    BY <2>1, <2>2, <2>7, <2>8 DEF ServiceInv, OnlySent, InService
  <2> QED BY <2>9, <2>10, <2>11 DEF ServiceInv
<1>19. CASE HttpNoFileEmpty
  <2>1. /\ reqQ # <<>> /\ reqQ' = Tail(reqQ) /\ Head(reqQ) \in CmdNos
        /\ extractQ' = Append(extractQ, Head(reqQ)) /\ http = None
        /\ UNCHANGED <<sent, msgQ, http, fh, replies>>
    BY <1>19 DEF HttpNoFileEmpty, NoFile
  <2>2. Head(reqQ) \in In(reqQ) /\ In(reqQ') \subseteq In(reqQ)
    BY <2>1, <1>a, TakeOut
  <2>3. Ordered(reqQ') /\ Older({Head(reqQ)}, In(reqQ'))
    BY <2>1, <1>a, TakeOrdered DEF ServiceInv, InOrder
  <2>4. In(extractQ') = In(extractQ) \cup {Head(reqQ)}
    BY <2>1, <1>a, PutIn
  <2>5. Older(AtFH \cup In(extractQ), {Head(reqQ)})
    BY <2>1, <2>2 DEF ServiceInv, InOrder, Older
  <2>6. Ordered(extractQ')
    BY <2>1, <2>5, <1>a, PutOrdered DEF ServiceInv, InOrder, Older
  <2>7. AtFH' = AtFH /\ InService' \subseteq InService
    BY <2>1, <2>2, <2>4 DEF AtFH, InService
  <2>8. InOrder'
    BY <2>1, <2>2, <2>3, <2>4, <2>5, <2>6, <2>7, <1>a DEF ServiceInv, InOrder, Older
  <2> QED BY <2>1, <2>7, <2>8, LessService DEF ServiceInv
<1>8. CASE HttpFailure
  <2>1. /\ http \in CmdNos /\ http' = None /\ Answer(http, FALSE)
        /\ UNCHANGED <<sent, msgQ, reqQ, extractQ, fh>>
    BY <1>8 DEF HttpFailure
  <2>2. http \notin AtFH
    BY <2>1, <1>b DEF ServiceInv, InOrder, Older
  <2>3. http \notin Answered
    BY <2>1, <2>2 DEF ServiceInv, AnsweredOnce, InService, AtFH
  <2>4. AnsweredApart' /\ Answered' = Answered \cup {http}
    BY <2>1, <2>3, AnswerAdds DEF ServiceInv, AnsweredOnce, AnsweredApart
  <2>5. AtFH' = AtFH /\ InService' \subseteq InService \ {http}
    BY <2>1, <2>2, <1>a, <1>b DEF AtFH, InService, ServiceInv, InOrder, Older
  <2>6. InOrder'
    BY <2>1, <2>5, <1>a DEF ServiceInv, InOrder, Older
  <2>7. AnsweredOnce'
    BY <2>1, <2>4, <2>5 DEF ServiceInv, AnsweredOnce, AnsweredApart
  <2>8. OnlySent'
    BY <2>1, <2>4, <2>5 DEF ServiceInv, OnlySent, InService
  <2> QED BY <2>6, <2>7, <2>8 DEF ServiceInv
<1>9. CASE HttpUploaded
  <2>1. /\ http' = None
        /\ UNCHANGED <<sent, msgQ, reqQ, extractQ, fh, replies>>
    BY <1>9 DEF HttpUploaded
  <2>2. AtFH' = AtFH /\ InService' \subseteq InService
    BY <2>1, <1>a DEF AtFH, InService
  <2>3. InOrder'
    BY <2>1, <2>2, <1>a DEF ServiceInv, InOrder, Older
  <2> QED BY <2>1, <2>2, <2>3, LessService DEF ServiceInv
<1>10. CASE FHTake
  <2>1. /\ extractQ # <<>> /\ extractQ' = Tail(extractQ)
        /\ fh.pc = "idle" /\ AtFH = {} /\ AtFH' = {Head(extractQ)}
        /\ UNCHANGED <<sent, msgQ, reqQ, http, replies>>
    BY <1>10 DEF FHTake, AtFH
  <2>2. Head(extractQ) \in In(extractQ) /\ In(extractQ') \subseteq In(extractQ)
    BY <2>1, <1>a, TakeOut
  <2>3. Ordered(extractQ') /\ Older({Head(extractQ)}, In(extractQ'))
    BY <2>1, <1>a, TakeOrdered DEF ServiceInv, InOrder
  <2>4. InService' \subseteq InService
    BY <2>1, <2>2 DEF InService
  <2>5. InOrder'
    BY <2>1, <2>2, <2>3 DEF ServiceInv, InOrder, Older
  <2> QED BY <2>1, <2>4, <2>5, LessService DEF ServiceInv
<1>11. CASE FHEntry
  <2>1. /\ fh.pc # "countdown"
        /\ fh' = [fh EXCEPT !.next = @ + 1] /\ fh.next <= zip.len
        /\ UNCHANGED <<sent, msgQ, reqQ, extractQ, http, replies>>
    BY <1>11 DEF FHEntry, Extracting
  <2>a. fh.next <= N
    BY <2>1 DEF TypeOK, Archive, FHState
  <2>2. AtFH' = AtFH
    BY <2>1, <2>a, FHTyped DEF AtFH, TypeOK
  <2> QED BY <2>1, <2>2, SameService
<1>12. CASE FHCheckOk
  <2>1. /\ fh.pc # "countdown" /\ AtFH' = AtFH
        /\ UNCHANGED <<sent, msgQ, reqQ, extractQ, http, replies>>
    BY <1>12 DEF FHCheckOk, AtFH
  <2> QED BY <2>1, SameService
<1>13. CASE FHCheckFail
  <2>1. /\ fh.pc = "check" /\ fh.cmd \in CmdNos /\ AtFH = {fh.cmd} /\ AtFH' = {}
        /\ Answer(fh.cmd, FALSE)
        /\ UNCHANGED <<sent, msgQ, reqQ, extractQ, http>>
    BY <1>13, <1>a DEF FHCheckFail, AtFH, FHIdle
  <2>2. fh.cmd \notin Answered
    BY <2>1 DEF ServiceInv, AnsweredOnce, InService
  <2>3. AnsweredApart' /\ Answered' = Answered \cup {fh.cmd}
    BY <2>1, <2>2, AnswerAdds DEF ServiceInv, AnsweredOnce, AnsweredApart
  <2>4. InService' \subseteq InService \ {fh.cmd}
    BY <2>1, LastIsAlone DEF InService
  <2>5. InOrder'
    BY <2>1 DEF ServiceInv, InOrder, Older
  <2>6. AnsweredOnce'
    BY <2>1, <2>3, <2>4 DEF ServiceInv, AnsweredOnce, AnsweredApart
  <2>7. OnlySent'
    BY <2>1, <2>3, <2>4 DEF ServiceInv, OnlySent, InService
  <2> QED BY <2>5, <2>6, <2>7 DEF ServiceInv
<1>14. CASE FHInstallOk
  <2>1. /\ fh.pc = "install" /\ fh.cmd \in CmdNos
        /\ fh' = [fh EXCEPT !.pc = "countdown"]
        /\ Answer(fh.cmd, TRUE)
        /\ UNCHANGED <<sent, msgQ, reqQ, extractQ, http>>
    BY <1>14, <1>a DEF FHInstallOk
  <2>2. fh'.pc = "countdown" /\ fh'.cmd = fh.cmd /\ AtFH' = AtFH /\ AtFH = {fh.cmd}
    BY <2>1, FHTyped DEF AtFH, TypeOK
  <2>3. fh.cmd \notin Answered
    BY <2>1, <2>2 DEF ServiceInv, AnsweredOnce, InService
  <2>4. AnsweredApart' /\ Answered' = Answered \cup {fh.cmd}
    BY <2>1, <2>3, AnswerAdds DEF ServiceInv, AnsweredOnce, AnsweredApart
  <2>5. InService' = InService /\ InOrder'
    BY <2>1, <2>2 DEF InService, ServiceInv, InOrder
  <2>6. AnsweredOnce'
    BY <2>1, <2>2, <2>4, <2>5 DEF ServiceInv, AnsweredOnce, AnsweredApart
  <2>7. OnlySent'
    BY <2>1, <2>2, <2>4, <2>5 DEF ServiceInv, OnlySent, InService
  <2> QED BY <2>5, <2>6, <2>7 DEF ServiceInv
<1>15. CASE FHInstallFail \/ FHReboot
  <2>1. /\ AtFH = {fh.cmd} /\ AtFH' = {} /\ fh.cmd \in CmdNos
        /\ UNCHANGED <<sent, msgQ, reqQ, extractQ, http, replies>>
    BY <1>15, <1>a DEF FHInstallFail, FHReboot, AtFH, FHIdle
  <2>2. InService' \subseteq InService \ {fh.cmd} /\ Answered' = Answered
    BY <2>1, LastIsAlone DEF InService, Answered
  <2>3. InOrder'
    BY <2>1 DEF ServiceInv, InOrder, Older
  <2>4. AnsweredOnce'
    BY <2>1, <2>2 DEF ServiceInv, AnsweredOnce
  <2>5. OnlySent'
    BY <2>1, <2>2 DEF ServiceInv, OnlySent
  <2> QED BY <2>3, <2>4, <2>5 DEF ServiceInv
<1>16. CASE Reboot \/ Kill \/ HttpNoFileCrash
  <2>1. LoseMemory /\ UNCHANGED <<sent, replies>>
    BY <1>16 DEF Reboot, Kill, HttpNoFileCrash, ClientRestarts
  <2> QED BY <2>1, RestartServed
<1>17. CASE WDReport \/ MHReboot \/ HttpWrite \/ UNCHANGED vars
  <2>1. UNCHANGED <<sent, msgQ, reqQ, extractQ, http, fh, replies>>
    BY <1>17 DEF WDReport, MHReboot, HttpWrite, vars
  <2>2. AtFH' = AtFH
    BY <2>1 DEF AtFH
  <2>3. InService' = InService /\ InOrder'
    BY <2>1, <2>2 DEF InService, ServiceInv, InOrder
  <2> QED BY <2>1, <2>3, LessService DEF ServiceInv
<1> QED
  BY <1>1, <1>2, <1>3, <1>4, <1>5, <1>6, <1>7, <1>8, <1>9, <1>10, <1>11, <1>12,
     <1>13, <1>14, <1>15, <1>16, <1>17, <1>18, <1>19
  DEF Next, PanelStep, MHStep, HttpStep, HttpNoFile, FHStep

LEMMA AlwaysServed == Spec => []ServiceInv
BY InitServed, StepServed, TypeCorrect, PTL DEF Spec

(* Whatever the panel does and whatever fails, update commands go through  *)
(* MessageHandler, HttpClient and FileHandler in the order they were sent, *)
(* and none is in two places.                                              *)
THEOREM CommandsKeepOrder == Spec => []InOrder
<1>1. ServiceInv => InOrder
  BY DEF ServiceInv
<1> QED BY <1>1, AlwaysServed, PTL

(* Whatever the panel does and whatever fails, no update command is        *)
(* answered twice, and none is worked on after its answer.                 *)
THEOREM NoSecondAnswer == Spec => []AnsweredOnce
<1>1. ServiceInv => AnsweredOnce
  BY DEF ServiceInv
<1> QED BY <1>1, AlwaysServed, PTL

-----------------------------------------------------------------------------
(* The three threads come to rest.  Each step of theirs is paid from a     *)
(* number that only the panel, the log and restarts raise: the steps that  *)
(* are still to be made for what is in the queues and in the threads, were *)
(* no download and no archive to fail.                                     *)
FileSteps == 2 * N + 4              \* take, check, remove, install, answer, reboot
ReqSteps  == FileSteps + N + 2      \* take, download, hand over
MsgSteps  == ReqSteps + 1           \* take

StepsMH   == IF mh = "countdown" THEN 1 ELSE 0
StepsHttp == IF http = None THEN 0
             ELSE IF http = Upload THEN 1 ELSE FileSteps + 1 + (N - zip.len)
StepsFH   == IF fh.pc = "check" THEN FileSteps - fh.next
             ELSE IF fh.pc = "install" THEN N + 3 - fh.next
             ELSE IF fh.pc = "countdown" THEN 1 ELSE 0

LoadMH   == Len(msgQ) * MsgSteps + StepsMH
LoadHttp == Len(reqQ) * ReqSteps + StepsHttp
LoadFH   == Len(extractQ) * FileSteps + StepsFH

StepsLeft == LoadMH + LoadHttp + LoadFH

(* What a message at the end or the head of a queue costs. *)
LEMMA PutCosts ==
  ASSUME NEW S, NEW q \in Seq(S), NEW x \in S, NEW w \in Nat
  PROVE  /\ Len(q) * w \in Nat
         /\ Len(Append(q, x)) * w = Len(q) * w + w
<1>1. Len(Append(q, x)) = Len(q) + 1 /\ Len(q) \in Nat
  BY AppendProperties, LenProperties
<1>2. \A n \in Nat : n * w \in Nat /\ (n + 1) * w = n * w + w
  OBVIOUS
<1> QED BY <1>1, <1>2

LEMMA TakeCosts ==
  ASSUME NEW S, NEW q \in Seq(S), q # <<>>, NEW w \in Nat
  PROVE  /\ Len(Tail(q)) * w \in Nat
         /\ Len(q) * w = Len(Tail(q)) * w + w
<1>1. Len(Tail(q)) + 1 = Len(q) /\ Len(Tail(q)) \in Nat
  BY HeadTailProperties, EmptySeq, LenProperties
<1>2. \A n \in Nat : n * w \in Nat /\ (n + 1) * w = n * w + w
  OBVIOUS
<1> QED BY <1>1, <1>2

WeightsAreNumbers ==
  /\ FileSteps \in Nat /\ ReqSteps \in Nat /\ MsgSteps \in Nat
  /\ Len(msgQ) * MsgSteps \in Nat /\ Len(reqQ) * ReqSteps \in Nat
  /\ Len(extractQ) * FileSteps \in Nat
  /\ StepsMH \in Nat /\ StepsHttp \in Nat /\ StepsFH \in Nat
  /\ LoadMH \in Nat /\ LoadHttp \in Nat /\ LoadFH \in Nat

LEMMA StepsAreNumbers == TypeOK => WeightsAreNumbers
<1> SUFFICES ASSUME TypeOK PROVE WeightsAreNumbers
  OBVIOUS
<1> USE PipelineAssumption DEF TypeOK
<1>1. FileSteps \in Nat /\ ReqSteps \in Nat /\ MsgSteps \in Nat
  BY DEF FileSteps, ReqSteps, MsgSteps
<1>2. \A m, n \in Nat : m * n \in Nat
  OBVIOUS
<1>3. Len(msgQ) \in Nat /\ Len(reqQ) \in Nat /\ Len(extractQ) \in Nat
  BY LenProperties
<1>4. StepsHttp \in Nat
  BY <1>1 DEF StepsHttp, Archive
<1>5. StepsFH \in Nat
  BY DEF StepsFH, FileSteps, FHState
<1>6. StepsMH \in Nat
  BY DEF StepsMH
<1>7. /\ Len(msgQ) * MsgSteps \in Nat /\ Len(reqQ) * ReqSteps \in Nat
      /\ Len(extractQ) * FileSteps \in Nat
  BY <1>1, <1>2, <1>3
<1>8. \A m, n \in Nat : m + n \in Nat
  OBVIOUS
<1> HIDE DEF TypeOK
<1>9. LoadMH \in Nat /\ LoadHttp \in Nat /\ LoadFH \in Nat
  BY <1>4, <1>5, <1>6, <1>7, <1>8 DEF LoadMH, LoadHttp, LoadFH
<1> QED BY <1>1, <1>4, <1>5, <1>6, <1>7, <1>9 DEF WeightsAreNumbers

LEMMA StepsStayNumbers == TypeOK' => WeightsAreNumbers'
BY StepsAreNumbers, PTL

(* The sum falls with one of its terms. *)
LEMMA LessOfOne ==
  ASSUME NEW a \in Nat, NEW b \in Nat, NEW c \in Nat,
         NEW x \in Nat, NEW y \in Nat, NEW z \in Nat,
         \/ x < a /\ y = b /\ z = c
         \/ x = a /\ y < b /\ z = c
         \/ x = a /\ y = b /\ z < c
         \/ \E w \in Nat : a = x + w + 1 /\ y \in {b, b + w} /\ z = c
  PROVE  x + y + z < a + b + c
OBVIOUS

(* A load falls when a message that costs w is taken out of the queue and  *)
(* its thread, which had s steps to make, has fewer than s + w.            *)
LEMMA LessAfterTake ==
  ASSUME NEW l \in Nat, NEW m \in Nat, NEW s \in Nat,
         NEW x \in Nat, NEW n \in Nat, NEW u \in Nat, NEW w \in Nat,
         l = m + s, x = n + u, m = n + w, u < s + w
  PROVE  x < l
OBVIOUS

LEMMA EachStepIsPaid ==
  ASSUME TypeOK, TypeOK', MHStep \/ HttpStep \/ FHStep
  PROVE  StepsLeft' < StepsLeft
<1> USE PipelineAssumption DEF panel, queues, threads, files, device, seen
<1> DEFINE M == Len(msgQ) * MsgSteps
           R == Len(reqQ) * ReqSteps
           E == Len(extractQ) * FileSteps
<1>a. /\ FileSteps \in Nat /\ ReqSteps \in Nat /\ MsgSteps \in Nat
      /\ M \in Nat /\ R \in Nat /\ E \in Nat
      /\ StepsMH \in Nat /\ StepsHttp \in Nat /\ StepsFH \in Nat
      /\ LoadMH \in Nat /\ LoadHttp \in Nat /\ LoadFH \in Nat
  BY StepsAreNumbers DEF WeightsAreNumbers
<1>n. /\ M' \in Nat /\ R' \in Nat /\ E' \in Nat
      /\ StepsMH' \in Nat /\ StepsHttp' \in Nat /\ StepsFH' \in Nat
      /\ LoadMH' \in Nat /\ LoadHttp' \in Nat /\ LoadFH' \in Nat
  BY StepsStayNumbers DEF WeightsAreNumbers
<1>b. /\ LoadMH = M + StepsMH /\ LoadMH' = M' + StepsMH'
      /\ LoadHttp = R + StepsHttp /\ LoadHttp' = R' + StepsHttp'
      /\ LoadFH = E + StepsFH /\ LoadFH' = E' + StepsFH'
  BY DEF LoadMH, LoadHttp, LoadFH
<1>p. /\ LoadMH' < LoadMH /\ UNCHANGED <<LoadHttp, LoadFH>> => StepsLeft' < StepsLeft
      /\ LoadHttp' < LoadHttp /\ UNCHANGED <<LoadMH, LoadFH>> => StepsLeft' < StepsLeft
      /\ LoadFH' < LoadFH /\ UNCHANGED <<LoadMH, LoadHttp>> => StepsLeft' < StepsLeft
  BY <1>a, <1>n, LessOfOne DEF StepsLeft
<1>q. LoadMH' + LoadHttp' + LoadFH' < LoadMH + LoadHttp + LoadFH => StepsLeft' < StepsLeft
  BY DEF StepsLeft
<1>c. msgQ \in Seq(Msgs) /\ reqQ \in Seq(Reqs) /\ extractQ \in Seq(CmdNos)
  BY DEF TypeOK
<1>d. /\ msgQ' = msgQ => M' = M
      /\ reqQ' = reqQ => R' = R
      /\ extractQ' = extractQ => E' = E
      /\ mh' = mh => StepsMH' = StepsMH
      /\ UNCHANGED <<http, zip>> => StepsHttp' = StepsHttp
      /\ fh' = fh => StepsFH' = StepsFH
  BY DEF StepsMH, StepsHttp, StepsFH
<1>e. /\ msgQ # <<>> /\ msgQ' = Tail(msgQ) => M = M' + MsgSteps /\ M' \in Nat
      /\ reqQ # <<>> /\ reqQ' = Tail(reqQ) => R = R' + ReqSteps /\ R' \in Nat
      /\ extractQ # <<>> /\ extractQ' = Tail(extractQ) => E = E' + FileSteps /\ E' \in Nat
  BY <1>a, <1>c, TakeCosts
<1>f. ASSUME NEW x \in Reqs, reqQ' = Append(reqQ, x)
      PROVE  R' = R + ReqSteps
  BY <1>a, <1>c, <1>f, PutCosts
<1>g. ASSUME NEW x \in CmdNos, extractQ' = Append(extractQ, x)
      PROVE  E' = E + FileSteps
  BY <1>a, <1>c, <1>g, PutCosts
<1> HIDE DEF M, R, E
<1>1. CASE MHUpdate
  <2>1. /\ msgQ # <<>> /\ msgQ' = Tail(msgQ) /\ Head(msgQ) \in CmdNos
        /\ reqQ' \in {reqQ, Append(reqQ, Head(msgQ))}
        /\ UNCHANGED <<mh, http, zip, extractQ, fh>>
    BY <1>1 DEF MHUpdate
  <2>2. R' = R \/ R' = R + ReqSteps
    BY <1>d, <1>f, <2>1 DEF Reqs
  <2>3. MsgSteps = ReqSteps + 1
    BY DEF MsgSteps
  <2>4. M = M' + MsgSteps /\ M' \in Nat
    BY <1>e, <2>1
  <2>5. UNCHANGED <<StepsMH, StepsHttp, LoadFH>>
    BY <1>b, <1>d, <2>1
  <2>6. LoadMH = LoadMH' + ReqSteps + 1
    BY <1>a, <1>n, <1>b, <2>3, <2>4, <2>5
  <2>7. LoadHttp' \in {LoadHttp, LoadHttp + ReqSteps}
    <3>1. LoadHttp' = R' + StepsHttp
      BY <1>b, <2>5
    <3>2. CASE R' = R
      BY <1>b, <3>1, <3>2
    <3>3. CASE R' = R + ReqSteps
      <4>1. (R + ReqSteps) + StepsHttp = (R + StepsHttp) + ReqSteps
        BY <1>a
      <4>2. LoadHttp' = (R + StepsHttp) + ReqSteps
        BY <3>1, <3>3, <4>1, Zenon
      <4>3. LoadHttp' = LoadHttp + ReqSteps
        BY <1>b, <4>2, Zenon
      <4> QED BY <4>3
    <3> QED BY <2>2, <3>2, <3>3
  <2> QED BY <1>a, <1>n, <2>5, <2>6, <2>7, LessOfOne DEF StepsLeft
<1>2. CASE MHRebootCmd
  <2>1. /\ msgQ # <<>> /\ msgQ' = Tail(msgQ)
        /\ UNCHANGED <<reqQ, http, zip, extractQ, fh>>
    BY <1>2 DEF MHRebootCmd
  <2>2. StepsMH = 0 /\ StepsMH' = 1
    BY <1>2 DEF MHRebootCmd, StepsMH
  <2>3. MsgSteps > 1
    BY <1>a DEF MsgSteps, ReqSteps, FileSteps
  <2>4. M = M' + MsgSteps /\ M' \in Nat
    BY <1>e, <2>1
  <2>5. UNCHANGED <<LoadHttp, LoadFH>>
    BY <1>b, <1>d, <2>1
  <2>6. LoadMH' < LoadMH
    <3>1. StepsMH' < StepsMH + MsgSteps
      BY <1>a, <2>2, <2>3
    <3> QED BY <1>a, <1>n, <1>b, <2>4, <3>1, LessAfterTake, Zenon
  <2> QED BY <1>p, <2>5, <2>6
<1>3. CASE MHReboot
  <2>1. UNCHANGED <<msgQ, reqQ, http, zip, extractQ, fh>>
    BY <1>3 DEF MHReboot
  <2>2. StepsMH = 1 /\ StepsMH' = 0
    BY <1>3 DEF MHReboot, StepsMH
  <2> QED BY <1>a, <1>n, <1>b, <1>p, <1>d, <2>1, <2>2
<1>4. CASE HttpTake
  <2>1. /\ reqQ # <<>> /\ reqQ' = Tail(reqQ)
        /\ UNCHANGED <<msgQ, mh, extractQ, fh>>
    BY <1>4 DEF HttpTake
  <2>2. Head(reqQ) \in Reqs /\ http' = Head(reqQ)
    BY <1>4, <1>c, TakeOut DEF HttpTake
  <2>3. Head(reqQ) \in CmdNos => zip'.len = 0
    BY <1>4 DEF HttpTake
  <2>4. StepsHttp = 0
    BY <1>4 DEF HttpTake, StepsHttp
  <2>5. StepsHttp' \in {1, FileSteps + 1 + N}
    <3>1. CASE Head(reqQ) = Upload
      BY <2>2, <3>1 DEF StepsHttp
    <3>2. CASE Head(reqQ) \in CmdNos
      <4>1. http' # None /\ http' # Upload
        BY <2>2, <3>2 DEF CmdNos
      <4>2. StepsHttp' = FileSteps + 1 + (N - 0)
        BY <2>3, <3>2, <4>1 DEF StepsHttp, FileSteps
      <4>3. N \in Nat
        OBVIOUS
      <4> QED BY <1>a, <4>2, <4>3
    <3> QED BY <2>2, <3>1, <3>2 DEF Reqs
  <2>6. FileSteps + 1 + N < ReqSteps /\ 1 < ReqSteps
    BY <1>a DEF ReqSteps
  <2>7. R = R' + ReqSteps /\ R' \in Nat
    BY <1>e, <2>1
  <2>8. UNCHANGED <<LoadMH, LoadFH>>
    BY <1>b, <1>d, <2>1
  <2>9. LoadHttp' < LoadHttp
    <3>1. StepsHttp' < StepsHttp + ReqSteps
      BY <1>a, <1>n, <2>4, <2>5, <2>6
    <3> QED BY <1>a, <1>n, <1>b, <2>7, <3>1, LessAfterTake, Zenon
  <2> QED BY <1>p, <2>8, <2>9
<1>5. CASE HttpNoCurl \/ HttpNoFileFails
  <2>1. /\ reqQ # <<>> /\ reqQ' = Tail(reqQ)
        /\ UNCHANGED <<msgQ, mh, http, zip, extractQ, fh>>
    BY <1>5 DEF HttpNoCurl, HttpNoFileFails, NoFile
  <2>2. 0 < ReqSteps
    BY <1>a DEF ReqSteps
  <2>3. R = R' + ReqSteps /\ R' \in Nat
    BY <1>e, <2>1
  <2>4. UNCHANGED <<LoadMH, LoadFH, StepsHttp>>
    BY <1>b, <1>d, <2>1
  <2>5. LoadHttp' < LoadHttp
    <3>1. StepsHttp' < StepsHttp + ReqSteps
      BY <1>a, <2>2, <2>4
    <3> QED BY <1>a, <1>n, <1>b, <2>3, <3>1, LessAfterTake, Zenon
  <2> QED BY <1>b, <1>p, <2>4, <2>5
<1>14. CASE HttpNoFileEmpty
  <2>1. /\ reqQ # <<>> /\ reqQ' = Tail(reqQ) /\ Head(reqQ) \in CmdNos
        /\ extractQ' = Append(extractQ, Head(reqQ))
        /\ UNCHANGED <<msgQ, mh, http, zip, fh>>
    BY <1>14 DEF HttpNoFileEmpty, NoFile
  <2>2. R = R' + ReqSteps /\ R' \in Nat
    BY <1>e, <2>1
  <2>3. E' = E + FileSteps
    BY <1>g, <2>1
  <2>4. FileSteps < ReqSteps
    BY <1>a DEF ReqSteps
  <2>5. StepsHttp' = StepsHttp /\ StepsFH' = StepsFH /\ LoadMH' = LoadMH
    BY <1>b, <1>d, <2>1
  <2>6. LoadHttp = R' + ReqSteps + StepsHttp /\ LoadHttp' = R' + StepsHttp
    BY <1>b, <2>2, <2>5
  <2>7. LoadFH = E + StepsFH /\ LoadFH' = E + FileSteps + StepsFH
    BY <1>b, <2>3, <2>5
  <2>8. \A m, r, e, f, g, h, k \in Nat :
           f < g => m + (r + h) + (e + f + k) < m + (r + g + h) + (e + k)
    OBVIOUS
  <2>9. LoadMH' + LoadHttp' + LoadFH' < LoadMH + LoadHttp + LoadFH
    BY <1>a, <2>2, <2>4, <2>5, <2>6, <2>7, <2>8, Zenon
  <2> QED BY <1>q, <2>9
<1>15. CASE HttpNoFileCrash
  <2>1. /\ msgQ' = <<>> /\ reqQ' = <<>> /\ extractQ' = <<>>
        /\ mh' = "idle" /\ http' = None /\ fh'.pc = "idle"
        /\ reqQ # <<>>
    BY <1>15 DEF HttpNoFileCrash, NoFile, ClientRestarts, LoseMemory, FHIdle
  <2>2. StepsMH' = 0 /\ StepsHttp' = 0 /\ StepsFH' = 0
    BY <2>1 DEF StepsMH, StepsHttp, StepsFH
  <2>3. M' = 0 /\ R' = 0 /\ E' = 0
    <3>1. Len(<<>>) = 0 /\ \A n \in Nat : 0 * n = 0
      OBVIOUS
    <3> QED BY <1>a, <2>1, <3>1 DEF M, R, E, MsgSteps, ReqSteps, FileSteps
  <2>4. R > 0
    <3>1. Len(Tail(reqQ)) * ReqSteps \in Nat
          /\ Len(reqQ) * ReqSteps = Len(Tail(reqQ)) * ReqSteps + ReqSteps
      BY <1>a, <1>c, <2>1, TakeCosts
    <3>2. ReqSteps > 0
      BY <1>a DEF ReqSteps
    <3> QED BY <1>a, <3>1, <3>2 DEF R
  <2>5. LoadMH' = 0 /\ LoadHttp' = 0 /\ LoadFH' = 0
    BY <1>b, <2>2, <2>3
  <2>6. LoadHttp > 0
    BY <1>a, <1>b, <2>4
  <2> QED BY <1>a, <1>q, <2>5, <2>6
<1>6. CASE HttpWrite
  <2>1. /\ UNCHANGED <<msgQ, mh, reqQ, http, extractQ, fh>> /\ http \in CmdNos
        /\ zip' = [zip EXCEPT !.len = @ + 1] /\ zip.len < N /\ zip.len \in 0..N
    BY <1>6 DEF HttpWrite, TypeOK, Archive
  <2>2. zip'.len = zip.len + 1
    BY <2>1 DEF TypeOK, Archive
  <2>3. http # None /\ http # Upload
    BY <2>1 DEF CmdNos
  <2>4. StepsHttp' = StepsHttp - 1
    BY <1>a, <2>1, <2>2, <2>3 DEF StepsHttp
  <2> QED BY <1>a, <1>n, <1>b, <1>p, <1>d, <2>1, <2>4
<1>7. CASE HttpSuccess
  <2>1. /\ UNCHANGED <<msgQ, mh, reqQ, fh>> /\ http \in CmdNos /\ http' = None
        /\ extractQ' = Append(extractQ, http)
    BY <1>7 DEF HttpSuccess
  <2>2. http # None /\ http # Upload
    BY <2>1 DEF CmdNos
  <2>a. zip.len \in 0..N
    BY DEF TypeOK, Archive
  <2>3. StepsHttp' = 0 /\ StepsHttp > FileSteps
    BY <1>a, <2>1, <2>2, <2>a DEF StepsHttp
  <2>4. E' = E + FileSteps
    BY <1>g, <2>1
  <2> QED BY <1>a, <1>n, <1>b, <1>q, <1>d, <2>1, <2>3, <2>4
<1>8. CASE HttpFailure \/ HttpUploaded
  <2>1. /\ UNCHANGED <<msgQ, mh, reqQ, extractQ, fh>> /\ http \in CmdNos \cup {Upload}
        /\ http' = None
    BY <1>8 DEF HttpFailure, HttpUploaded
  <2>2. http # None
    BY <2>1 DEF CmdNos
  <2>3. StepsHttp' = 0 /\ StepsHttp > 0
    <3>1. zip.len \in 0..N /\ N \in Nat
      BY PipelineAssumption DEF TypeOK, Archive
    <3>2. N - zip.len >= 0 /\ FileSteps \in Nat
      BY <3>1 DEF FileSteps
    <3> QED BY <2>1, <2>2, <3>1, <3>2 DEF StepsHttp
  <2> QED BY <1>a, <1>n, <1>b, <1>p, <1>d, <2>1, <2>3
<1>9. CASE FHTake
  <2>1. /\ extractQ # <<>> /\ extractQ' = Tail(extractQ)
        /\ UNCHANGED <<msgQ, mh, reqQ, http, zip>>
    BY <1>9 DEF FHTake
  <2>2. StepsFH = 0 /\ StepsFH' = FileSteps - 1
    BY <1>9 DEF FHTake, StepsFH
  <2>3. 0 < FileSteps
    BY DEF FileSteps
  <2>4. E = E' + FileSteps /\ E' \in Nat
    BY <1>e, <2>1
  <2>5. UNCHANGED <<LoadMH, LoadHttp>>
    BY <1>b, <1>d, <2>1
  <2>6. LoadFH' < LoadFH
    <3>1. StepsFH' < StepsFH + FileSteps
      BY <1>a, <2>2, <2>3
    <3> QED BY <1>a, <1>n, <1>b, <2>4, <3>1, LessAfterTake, Zenon
  <2> QED BY <1>p, <2>5, <2>6
<1>10. CASE FHEntry
  <2>1. /\ UNCHANGED <<msgQ, mh, reqQ, http, zip, extractQ>> /\ Extracting
        /\ fh' = [fh EXCEPT !.next = @ + 1]
    BY <1>10 DEF FHEntry
  <2>2. fh'.pc = fh.pc /\ fh'.next = fh.next + 1 /\ fh.next \in Nat
    <3>1. fh \in FHState
      BY DEF TypeOK
    <3> QED BY <2>1, <3>1 DEF FHState
  <2>3. StepsFH' = StepsFH - 1
    <3>1. FileSteps' = FileSteps /\ N \in Nat
      BY DEF FileSteps
    <3>2. CASE fh.pc = "check"
      <4>1. StepsFH = FileSteps - fh.next /\ StepsFH' = FileSteps - (fh.next + 1)
        BY <2>2, <3>2 DEF StepsFH
      <4> QED BY <1>a, <2>2, <4>1
    <3>3. CASE fh.pc = "install"
      <4>1. StepsFH = N + 3 - fh.next /\ StepsFH' = N + 3 - (fh.next + 1)
        BY <2>2, <3>3 DEF StepsFH
      <4> QED BY <2>2, <3>1, <4>1
    <3> QED BY <2>1, <3>2, <3>3 DEF Extracting
  <2> QED BY <1>a, <1>n, <1>b, <1>p, <1>d, <2>1, <2>3
<1>11. CASE FHCheckOk
  <2>1. /\ UNCHANGED <<msgQ, mh, reqQ, http, zip, extractQ>> /\ fh.pc = "check"
        /\ fh'.pc = "install" /\ fh'.next = 1 /\ fh.next \in 1..N+1
    BY <1>11 DEF FHCheckOk, TypeOK, FHState
  <2>2. StepsFH' = N + 2 /\ StepsFH >= N + 3
    BY <2>1 DEF StepsFH, FileSteps
  <2> QED BY <1>a, <1>n, <1>b, <1>p, <1>d, <2>1, <2>2
<1>12. CASE FHInstallOk
  <2>1. /\ UNCHANGED <<msgQ, mh, reqQ, http, zip, extractQ>> /\ fh.pc = "install"
        /\ fh'.pc = "countdown" /\ fh.next \in 1..N+1
    BY <1>12, FHTyped DEF FHInstallOk, TypeOK, FHState
  <2>2. StepsFH' = 1 /\ StepsFH >= 2
    BY <2>1 DEF StepsFH
  <2> QED BY <1>a, <1>n, <1>b, <1>p, <1>d, <2>1, <2>2
<1>13. CASE FHCheckFail \/ FHInstallFail \/ FHReboot
  <2>1. /\ UNCHANGED <<msgQ, mh, reqQ, http, zip, extractQ>>
        /\ fh.pc \in {"check", "install", "countdown"} /\ fh' = FHIdle
    <3>1. CASE FHCheckFail  BY <3>1 DEF FHCheckFail
    <3>2. CASE FHInstallFail  BY <3>2 DEF FHInstallFail
    <3>3. CASE FHReboot  BY <3>3 DEF FHReboot
    <3> QED BY <1>13, <3>1, <3>2, <3>3
  <2>a. fh'.pc = "idle" /\ fh.next \in 1..N+1
    BY <2>1 DEF FHIdle, TypeOK, FHState
  <2>2. StepsFH' = 0 /\ StepsFH >= 1
    BY <2>1, <2>a DEF StepsFH, FileSteps
  <2> QED BY <1>a, <1>n, <1>b, <1>p, <1>d, <2>1, <2>2
<1> QED BY <1>1, <1>2, <1>3, <1>4, <1>5, <1>6, <1>7, <1>8, <1>9, <1>10, <1>11,
           <1>12, <1>13, <1>14, <1>15 DEF MHStep, HttpStep, HttpNoFile, FHStep

(* Whatever is pushed and whatever fails, MessageHandler, HttpClient and   *)
(* FileHandler do not go round in circles: every step of theirs uses up    *)
(* one of a finite number, so that between two pushes each of them is idle *)
(* again after at most StepsLeft steps.                                    *)
THEOREM WorkersComeToRest ==
  Spec => /\ [](StepsLeft \in Nat)
          /\ [][MHStep \/ HttpStep \/ FHStep => StepsLeft' < StepsLeft]_vars
<1>1. ASSUME TypeOK PROVE StepsLeft \in Nat
  <2>1. LoadMH \in Nat /\ LoadHttp \in Nat /\ LoadFH \in Nat
    BY <1>1, StepsAreNumbers DEF WeightsAreNumbers
  <2> QED BY <2>1 DEF StepsLeft
<1>2. TypeOK /\ TypeOK' /\ [Next]_vars
        => [MHStep \/ HttpStep \/ FHStep => StepsLeft' < StepsLeft]_vars
  BY EachStepIsPaid
<1> QED BY <1>1, <1>2, TypeCorrect, PTL DEF Spec

(* A thread that could go on with what it has, by the guards of its        *)
(* actions.                                                                *)
MHCanGoOn   == mh = "countdown" \/ msgQ # <<>>
HttpCanGoOn == IF http = None THEN reqQ # <<>>
               ELSE http = Upload \/ zip.len < N \/ BodyReceived
FHCanGoOn   == IF fh.pc = "idle" THEN extractQ # <<>>
               ELSE Extracting => fh.next <= zip.len \/ AtEOF \/ ReadError

(* A client that does not run holds nothing. *)
DownIsEmpty ==
  ~up => /\ msgQ = <<>> /\ reqQ = <<>> /\ extractQ = <<>>
         /\ mh = "idle" /\ http = None /\ fh.pc = "idle"

LEMMA StepDown == DownIsEmpty /\ [Next]_vars => DownIsEmpty'
<1> SUFFICES ASSUME DownIsEmpty, [Next]_vars PROVE DownIsEmpty'
  OBVIOUS
<1>1. CASE Reboot \/ Kill \/ HttpNoFileCrash
  <2>1. LoseMemory
    BY <1>1 DEF Reboot, Kill, HttpNoFileCrash, ClientRestarts
  <2> QED BY <2>1 DEF LoseMemory, FHIdle, DownIsEmpty
<1>2. CASE UNCHANGED vars
  BY <1>2 DEF vars, DownIsEmpty
<1>3. CASE Next /\ ~Reboot /\ ~Kill /\ ~HttpNoFileCrash
  <2>1. up /\ up' = up
    BY <1>3 DEF Next, PanelStep, MHStep, HttpStep, FHStep, device, PanelUpdate, PanelReboot,
       WDReport, MHUpdate, MHRebootCmd, MHReboot, PushUpload, HttpTake, HttpNoCurl,
       HttpNoFile, HttpNoFileFails, HttpNoFileEmpty, NoFile, HttpWrite, HttpSuccess, HttpFailure, HttpUploaded, FHTake, FHEntry, FHCheckOk,
       FHCheckFail, FHInstallOk, FHInstallFail, FHReboot
  <2> QED BY <2>1 DEF DownIsEmpty
<1> QED BY <1>1, <1>2, <1>3

(* Nothing is stuck: as long as anything is left to do, the client runs    *)
(* and one of the three threads can do it.                                 *)
THEOREM NothingIsStuck ==
  Spec => [](StepsLeft > 0 => up /\ (MHCanGoOn \/ HttpCanGoOn \/ FHCanGoOn))
<1>1. ASSUME TypeOK, DownIsEmpty, ~(up /\ (MHCanGoOn \/ HttpCanGoOn \/ FHCanGoOn))
      PROVE  StepsLeft = 0
  <2> USE PipelineAssumption DEF TypeOK
  <2>a. ~MHCanGoOn /\ ~HttpCanGoOn /\ ~FHCanGoOn
    BY <1>1 DEF DownIsEmpty, MHCanGoOn, HttpCanGoOn, FHCanGoOn
  <2>1. msgQ = <<>> /\ StepsMH = 0
    BY <1>1, <2>a DEF MHCanGoOn, StepsMH
  <2>2. http = None
    BY <1>1, <2>a DEF HttpCanGoOn, BodyReceived, Archive
  <2>3. reqQ = <<>> /\ StepsHttp = 0
    BY <1>1, <2>a, <2>2 DEF HttpCanGoOn, StepsHttp
  <2>4. fh.pc = "idle"
    <3>1. fh.next \in 1..N+1 /\ zip.len \in 0..N
      BY <1>1 DEF FHState, Archive
    <3>2. Extracting => fh.next <= zip.len \/ AtEOF \/ ReadError
      BY <3>1 DEF AtEOF, ReadError
    <3>3. fh.pc \in {"idle", "check", "install", "countdown"}
      BY <1>1 DEF FHState
    <3> QED BY <1>1, <2>a, <3>2, <3>3 DEF FHCanGoOn, Extracting
  <2>5. extractQ = <<>> /\ StepsFH = 0
    BY <1>1, <2>a, <2>4 DEF FHCanGoOn, StepsFH
  <2>6. \A n \in Nat : 0 * n = 0
    OBVIOUS
  <2>7. FileSteps \in Nat /\ ReqSteps \in Nat /\ MsgSteps \in Nat
    BY <1>1, StepsAreNumbers DEF WeightsAreNumbers
  <2>8. Len(<<>>) = 0
    OBVIOUS
  <2>9. LoadMH = 0 /\ LoadHttp = 0 /\ LoadFH = 0
    BY <2>1, <2>3, <2>5, <2>6, <2>7, <2>8 DEF LoadMH, LoadHttp, LoadFH
  <2> QED BY <2>9 DEF StepsLeft
<1>2. TypeOK /\ DownIsEmpty
        => (StepsLeft > 0 => up /\ (MHCanGoOn \/ HttpCanGoOn \/ FHCanGoOn))
  BY <1>1
<1>3. Init => DownIsEmpty
  BY DEF Init, DownIsEmpty
<1> QED BY <1>2, <1>3, StepDown, TypeCorrect, PTL DEF Spec
=============================================================================
