------------------------ MODULE UpdateInstallProofs -------------------------
(***************************************************************************)
(* What the update service guarantees to a panel that waits, for the       *)
(* answer to its last command (await_reply) or for the device to settle    *)
(* (orderly): the archive that is extracted is the right one and stays as  *)
(* it is, a folder is only written after the check, and an answer of       *)
(* success means that the folder holds the new build, of an archive with a *)
(* flaw perhaps less.  All this makes the pipeline an implementation of    *)
(* UpdateService.  Crashes, lost datagrams, failed downloads, write errors,*)
(* damaged archives and empty bodies are all allowed; only an archive file *)
(* that cannot be opened must not meet an empty body.                      *)
(***************************************************************************)
EXTENDS UpdatePipelineProofs

PatientPanel == /\ Discipline \in {"await_reply", "orderly"}
                /\ "fopen" \notin Faults \/ "emptyzip" \notin Faults

(* Only the last command sent is in service, besides one whose reboot is   *)
(* outstanding.                                                            *)
OneInService == \A c \in InService : c = sent \/ (fh.pc = "countdown" /\ c = fh.cmd)

(* From the end of the download to the end of the installation the archive *)
(* file is that of the command, and if it is empty, that counts as a flaw. *)
OwnArchive ==
  /\ \A c \in In(extractQ) : zip.of = c /\ (0 < zip.len \/ c \in flawed)
  /\ Extracting => zip.of = fh.cmd /\ (0 < zip.len \/ fh.cmd \in flawed)

(* What extract() has read and written so far; what goes on to the         *)
(* installation is a whole archive or an empty one.                        *)
Extracted ==
  /\ Extracting => fh.next <= zip.len + 1
  /\ fh.pc = "check" =>
       \A e \in Entries : e < fh.next =>
         tmp[Target[fh.cmd]][e] = fh.cmd \/ fh.cmd \in flawed
  /\ fh.pc = "install" =>
       /\ zip.len \in {0, N}
       /\ tmp[Target[fh.cmd]] = Whole(fh.cmd) \/ fh.cmd \in flawed
       /\ \A e \in Entries :
            IF e < fh.next
              THEN \/ disk[Target[fh.cmd]][e] = fh.cmd
                   \/ disk[Target[fh.cmd]][e] = None /\ fh.cmd \in flawed
              ELSE disk[Target[fh.cmd]][e] = None

InstallInv == OneInService /\ OwnArchive /\ Extracted

-----------------------------------------------------------------------------
LEMMA InitInstall == Init => InstallInv
<1> SUFFICES ASSUME Init PROVE InstallInv
  OBVIOUS
<1>1. /\ msgQ = <<>> /\ reqQ = <<>> /\ extractQ = <<>> /\ http = None
      /\ AtFH = {} /\ fh.pc = "idle"
  BY DEF Init, FHIdle, AtFH
<1>2. In(<<>>) = {} /\ None \notin CmdNos
  BY PipelineAssumption DEF In, CmdNos
<1>3. InService = {}
  BY <1>1, <1>2 DEF InService
<1> QED BY <1>1, <1>2, <1>3 DEF InstallInv, OneInService, OwnArchive, Extracted, Extracting

(* While an archive waits to be extracted or is extracted, HttpClient has  *)
(* no other update command, neither at work nor at the head of its queue.  *)
LEMMA NothingBehind ==
  ASSUME TypeOK, ServiceInv, OneInService
  PROVE  /\ http \in CmdNos => In(extractQ) = {} /\ ~Extracting
         /\ reqQ # <<>> /\ Head(reqQ) \in CmdNos => In(extractQ) = {} /\ ~Extracting
         /\ Extracting => In(extractQ) = {}
<1>1. \A c \in CmdNos : c \in Nat /\ ~(c < c)
  BY DEF CmdNos
<1>2. In(extractQ) \subseteq CmdNos
  <2>1. \A i \in DOMAIN extractQ : extractQ[i] \in CmdNos
    BY LenProperties DEF TypeOK
  <2> QED BY <2>1 DEF In
<1>3. Extracting => fh.cmd \in CmdNos /\ AtFH = {fh.cmd} /\ fh.pc # "countdown"
  BY DEF Extracting, AtFH, TypeOK
<1>4. fh.pc = "countdown" => fh.cmd \in CmdNos /\ AtFH = {fh.cmd}
  BY DEF AtFH, TypeOK
<1>5. Extracting => fh.cmd = sent
  BY <1>3 DEF OneInService, InService
<1>6. ASSUME NEW c \in (In(extractQ) \cup {http} \cup In(reqQ)) \cap CmdNos
      PROVE  c = sent
  <2>1. c = sent \/ (fh.pc = "countdown" /\ c = fh.cmd)
    BY <1>6 DEF OneInService, InService
  <2>2. ~(fh.pc = "countdown" /\ c = fh.cmd)
    BY <1>4, <1>6, LastIsAlone
  <2> QED BY <2>1, <2>2
<1>7. ASSUME NEW c \in ({http} \cup In(reqQ)) \cap CmdNos
      PROVE  In(extractQ) = {} /\ ~Extracting
  <2>1. c = sent
    BY <1>6, <1>7
  <2>2. ASSUME NEW d \in In(extractQ) PROVE FALSE
    <3>1. d \in CmdNos /\ d = sent
      BY <1>2, <1>6
    <3>2. d < c
      BY <1>7, <3>1 DEF ServiceInv, InOrder, Older
    <3> QED BY <1>1, <2>1, <3>1, <3>2
  <2>3. ~Extracting
    <3> SUFFICES ASSUME Extracting PROVE FALSE
      OBVIOUS
    <3>1. c = fh.cmd
      BY <1>5, <2>1
    <3> QED BY <1>3, <1>7, <3>1, LastIsAlone
  <2> QED BY <2>2, <2>3
<1>8. reqQ # <<>> => Head(reqQ) \in In(reqQ)
  BY TakeOut DEF TypeOK
<1>9. ASSUME Extracting, NEW d \in In(extractQ) PROVE FALSE
  <2>1. d = sent /\ d = fh.cmd
    BY <1>2, <1>5, <1>6, <1>9
  <2> QED BY <1>3, <1>9, <2>1, LastIsAlone
<1> QED BY <1>7, <1>8, <1>9

(* Only the panel brings new commands into service. *)
LEMMA ServiceShrinks ==
  ASSUME TypeOK, [Next]_vars, ~PanelUpdate
  PROVE  InService' \subseteq InService /\ sent' = sent
<1> USE PipelineAssumption DEF panel, queues, threads, files, device, seen
<1>a. /\ None \notin CmdNos /\ Upload \notin CmdNos /\ RebootCmd \notin CmdNos
      /\ http \in CmdNos \cup {Upload, None}
      /\ msgQ \in Seq(Msgs) /\ reqQ \in Seq(Reqs) /\ extractQ \in Seq(CmdNos)
  BY DEF CmdNos, TypeOK
<1>b. ASSUME NEW q \in {<<>>} PROVE In(q) = {}
  BY <1>b DEF In
<1>1. CASE PanelReboot
  <2>1. In(msgQ') = In(msgQ) \cup {RebootCmd}
    BY <1>1, <1>a, PutIn DEF PanelReboot, Msgs
  <2>2. UNCHANGED <<sent, reqQ, extractQ, http, fh>>
    BY <1>1 DEF PanelReboot
  <2> QED BY <2>1, <2>2, <1>a DEF InService, AtFH
<1>2. CASE MHUpdate
  <2>1. /\ msgQ # <<>> /\ Head(msgQ) \in Reqs
        /\ msgQ' = Tail(msgQ) /\ reqQ' \in {reqQ, Append(reqQ, Head(msgQ))}
        /\ UNCHANGED <<sent, extractQ, http, fh>>
    BY <1>2 DEF MHUpdate, Reqs
  <2>2. Head(msgQ) \in In(msgQ) /\ In(msgQ') \subseteq In(msgQ)
    BY <2>1, <1>a, TakeOut
  <2>3. In(Append(reqQ, Head(msgQ))) = In(reqQ) \cup {Head(msgQ)}
    BY <2>1, <1>a, PutIn
  <2> QED BY <2>1, <2>2, <2>3 DEF InService, AtFH
<1>3. CASE MHRebootCmd
  <2>1. In(msgQ') \subseteq In(msgQ)
    BY <1>3, <1>a, TakeOut DEF MHRebootCmd
  <2>2. UNCHANGED <<sent, reqQ, extractQ, http, fh>>
    BY <1>3 DEF MHRebootCmd
  <2> QED BY <2>1, <2>2 DEF InService, AtFH
<1>4. CASE PushUpload
  <2>1. In(reqQ') = In(reqQ) \cup {Upload}
    BY <1>4, <1>a, PutIn DEF PushUpload, Reqs
  <2>2. UNCHANGED <<sent, msgQ, extractQ, http, fh>>
    BY <1>4 DEF PushUpload
  <2> QED BY <2>1, <2>2, <1>a DEF InService, AtFH
<1>5. CASE HttpTake \/ HttpNoCurl \/ HttpNoFileFails
  <2>1. /\ reqQ # <<>> /\ reqQ' = Tail(reqQ) /\ http' \in {http, Head(reqQ)}
        /\ UNCHANGED <<sent, msgQ, extractQ, fh>>
    BY <1>5 DEF HttpTake, HttpNoCurl, HttpNoFileFails, NoFile
  <2>2. Head(reqQ) \in In(reqQ) /\ In(reqQ') \subseteq In(reqQ)
    BY <2>1, <1>a, TakeOut
  <2> QED BY <2>1, <2>2 DEF InService, AtFH
<1>14. CASE HttpNoFileEmpty
  <2>1. /\ reqQ # <<>> /\ reqQ' = Tail(reqQ) /\ Head(reqQ) \in CmdNos
        /\ extractQ' = Append(extractQ, Head(reqQ))
        /\ UNCHANGED <<sent, msgQ, http, fh>>
    BY <1>14 DEF HttpNoFileEmpty, NoFile
  <2>2. Head(reqQ) \in In(reqQ) /\ In(reqQ') \subseteq In(reqQ)
    BY <2>1, <1>a, TakeOut
  <2>3. In(extractQ') = In(extractQ) \cup {Head(reqQ)}
    BY <2>1, <1>a, PutIn
  <2> QED BY <2>1, <2>2, <2>3 DEF InService, AtFH
<1>6. CASE HttpSuccess
  <2>1. In(extractQ') = In(extractQ) \cup {http}
    BY <1>6, <1>a, PutIn DEF HttpSuccess
  <2>2. UNCHANGED <<sent, msgQ, reqQ, fh>> /\ http' = None
    BY <1>6 DEF HttpSuccess
  <2> QED BY <2>1, <2>2, <1>a DEF InService, AtFH
<1>7. CASE HttpFailure \/ HttpUploaded
  <2>1. UNCHANGED <<sent, msgQ, reqQ, extractQ, fh>> /\ http' = None
    BY <1>7 DEF HttpFailure, HttpUploaded
  <2> QED BY <2>1, <1>a DEF InService, AtFH
<1>8. CASE FHTake
  <2>1. /\ extractQ # <<>> /\ extractQ' = Tail(extractQ) /\ AtFH' = {Head(extractQ)}
        /\ UNCHANGED <<sent, msgQ, reqQ, http>>
    BY <1>8 DEF FHTake, AtFH
  <2>2. Head(extractQ) \in In(extractQ) /\ In(extractQ') \subseteq In(extractQ)
    BY <2>1, <1>a, TakeOut
  <2> QED BY <2>1, <2>2 DEF InService
<1>9. CASE FHEntry
  <2>1. fh' = [fh EXCEPT !.next = @ + 1] /\ fh.next <= zip.len
        /\ UNCHANGED <<sent, msgQ, reqQ, extractQ, http>>
    BY <1>9 DEF FHEntry
  <2>2. fh.next <= N
    BY <2>1 DEF TypeOK, FHState, Archive
  <2>3. AtFH' = AtFH
    BY <2>1, <2>2, FHTyped DEF AtFH, TypeOK
  <2> QED BY <2>1, <2>3 DEF InService
<1>10. CASE FHCheckOk \/ FHCheckFail \/ FHInstallFail \/ FHReboot
  <2>1. UNCHANGED <<sent, msgQ, reqQ, extractQ, http>> /\ AtFH' \subseteq AtFH
    <3>1. CASE FHCheckOk
      BY <3>1 DEF FHCheckOk, AtFH, queues
    <3>2. CASE FHCheckFail  BY <3>2 DEF FHCheckFail, AtFH, FHIdle
    <3>3. CASE FHInstallFail  BY <3>3 DEF FHInstallFail, AtFH, FHIdle
    <3>4. CASE FHReboot  BY <3>4 DEF FHReboot, AtFH, FHIdle
    <3> QED BY <1>10, <3>1, <3>2, <3>3, <3>4
  <2> QED BY <2>1 DEF InService
<1>11. CASE FHInstallOk
  <2>1. UNCHANGED <<sent, msgQ, reqQ, extractQ, http>> /\ fh' = [fh EXCEPT !.pc = "countdown"]
    BY <1>11 DEF FHInstallOk
  <2>2. AtFH' \subseteq AtFH
    BY <1>11, <2>1, FHTyped DEF AtFH, TypeOK, FHInstallOk
  <2> QED BY <2>1, <2>2 DEF InService
<1>12. CASE Reboot \/ Kill \/ HttpNoFileCrash
  <2>1. LoseMemory /\ sent' = sent
    BY <1>12 DEF Reboot, Kill, HttpNoFileCrash, ClientRestarts
  <2>2. InService' = {}
    BY <2>1, <1>a, <1>b DEF LoseMemory, InService, AtFH, FHIdle
  <2> QED BY <2>1, <2>2
<1>13. CASE WDReport \/ MHReboot \/ HttpWrite \/ UNCHANGED vars
  <2>1. UNCHANGED <<sent, msgQ, reqQ, extractQ, http, fh>>
    BY <1>13 DEF WDReport, MHReboot, HttpWrite, vars
  <2> QED BY <2>1 DEF InService, AtFH
<1> QED
  BY <1>1, <1>2, <1>3, <1>4, <1>5, <1>6, <1>7, <1>8, <1>9, <1>10, <1>11, <1>12,
     <1>13, <1>14 DEF Next, PanelStep, MHStep, HttpStep, HttpNoFile, FHStep

(* A panel that waits sends a command only when no other is unanswered.    *)
LEMMA StepOneInService ==
  ASSUME PatientPanel, TypeOK, ServiceInv, OneInService, [Next]_vars
  PROVE  OneInService'
<1>1. InService \subseteq CmdNos /\ CmdNos \subseteq Nat
  BY DEF InService, CmdNos
<1>2. CASE PanelUpdate
  <2>1. /\ UNCHANGED <<reqQ, extractQ, http, fh>>
        /\ msgQ' = Append(msgQ, sent + 1) /\ sent' = sent + 1
        /\ sent + 1 \in Msgs /\ msgQ \in Seq(Msgs) /\ MaySend
    BY <1>2, PipelineAssumption DEF PanelUpdate, TypeOK, CmdNos, Msgs
  <2>2. In(msgQ') = In(msgQ) \cup {sent + 1}
    BY <2>1, PutIn
  <2>3. \A c \in InService : fh.pc = "countdown" /\ c = fh.cmd
    <3>1. CASE Discipline = "await_reply"
      <4> SUFFICES ASSUME NEW c \in InService PROVE c \in Answered
        BY DEF ServiceInv, AnsweredOnce
      <4>2. Answers(c) # {}
        BY <3>1, <2>1 DEF MaySend
      <4> QED BY <4>2 DEF Answers, Answered, In
    <3>2. CASE Discipline = "orderly"
      <4>1. /\ msgQ = <<>> /\ reqQ = <<>> /\ extractQ = <<>>
            /\ http = None /\ AtFH = {}
        BY <3>2, <2>1 DEF MaySend, Quiet, AtFH
      <4>2. In(<<>>) = {} /\ None \notin CmdNos
        BY PipelineAssumption DEF In, CmdNos
      <4> QED BY <4>1, <4>2 DEF InService
    <3> QED BY <3>1, <3>2 DEF PatientPanel
  <2>4. InService' \subseteq InService \cup {sent + 1}
    BY <2>1, <2>2 DEF InService, AtFH
  <2> QED BY <2>1, <2>3, <2>4 DEF OneInService
<1>3. CASE ~PanelUpdate
  <2>1. InService' \subseteq InService /\ sent' = sent
    BY <1>3, ServiceShrinks
  <2>2. CASE fh.pc = "countdown" => fh' = fh
    BY <2>1, <2>2 DEF OneInService
  <2>3. CASE fh.pc = "countdown" /\ fh' # fh
    <3>1. FHReboot \/ LoseMemory
      BY <2>3 DEF Next, PanelStep, MHStep, HttpStep, FHStep, vars, threads,
         PanelUpdate, PanelReboot, WDReport, MHUpdate, MHRebootCmd, MHReboot,
         PushUpload, HttpTake, HttpNoFile, HttpNoFileFails, HttpNoFileEmpty,
         HttpNoFileCrash, HttpNoCurl, HttpWrite, HttpSuccess, HttpFailure,
         HttpUploaded, FHTake, FHEntry, FHCheckOk, FHCheckFail, FHInstallOk,
         FHInstallFail, Extracting, Reboot, Kill, ClientRestarts
    <3>2. fh.cmd \notin InService'
      <4>1. CASE FHReboot
        <5>1. /\ fh.cmd \in CmdNos /\ AtFH = {fh.cmd} /\ AtFH' = {}
              /\ UNCHANGED <<msgQ, reqQ, extractQ, http>>
          BY <4>1 DEF FHReboot, AtFH, FHIdle, TypeOK, queues
        <5> QED BY <5>1, LastIsAlone DEF InService
      <4>2. CASE LoseMemory
        <5>1. In(<<>>) = {} /\ None \notin CmdNos
          BY PipelineAssumption DEF In, CmdNos
        <5> QED BY <4>2, <5>1 DEF LoseMemory, InService, AtFH, FHIdle
      <4> QED BY <3>1, <4>1, <4>2
    <3> QED BY <2>1, <3>2 DEF OneInService
  <2> QED BY <2>2, <2>3
<1> QED BY <1>2, <1>3

(* Observations are kept, and with a panel that waits no archive that was  *)
(* extracted before is extracted for another command.                      *)
LEMMA FlawsStay ==
  ASSUME [Next]_vars
  PROVE  flawed \subseteq flawed'
<1> USE DEF seen
<1>1. CASE HttpNoFileEmpty \/ HttpSuccess \/ FHEntry
  BY <1>1 DEF HttpNoFileEmpty, HttpSuccess, FHEntry
<1>2. CASE ~(HttpNoFileEmpty \/ HttpSuccess \/ FHEntry)
  BY <1>2 DEF Next, PanelStep, MHStep, HttpStep, HttpNoFile, FHStep, vars,
     PanelUpdate, PanelReboot, WDReport, MHUpdate, MHRebootCmd, MHReboot,
     PushUpload, HttpTake, HttpNoFileFails, HttpNoFileCrash, HttpNoCurl,
     HttpWrite, HttpFailure, HttpUploaded, FHTake, FHCheckOk, FHCheckFail,
     FHInstallOk, FHInstallFail, FHReboot, Reboot, Kill
<1> QED BY <1>1, <1>2

LEMMA NoOldArchive ==
  ASSUME PatientPanel
  PROVE  ~HttpNoFileEmpty
BY DEF PatientPanel, HttpNoFileEmpty, NoFile

(* HttpClient truncates and fills the archive file only while no archive   *)
(* waits to be extracted.                                                  *)
LEMMA StepOwnArchive ==
  ASSUME PatientPanel, TypeOK, ServiceInv, OneInService, OwnArchive, [Next]_vars
  PROVE  OwnArchive'
<1> USE PipelineAssumption DEF panel, queues, threads, files, device, seen
<1>a. extractQ \in Seq(CmdNos) /\ None \notin CmdNos
  BY DEF TypeOK, CmdNos
<1>b. flawed \subseteq flawed'
  BY FlawsStay
<1>1. CASE HttpTake
  <2>1. CASE Head(reqQ) \in CmdNos
    <3>1. In(extractQ) = {} /\ ~Extracting
      BY <1>1, <2>1, NothingBehind DEF HttpTake
    <3> QED BY <1>1, <3>1 DEF HttpTake, OwnArchive, Extracting
  <2>2. CASE Head(reqQ) \notin CmdNos
    BY <1>1, <1>b, <2>2 DEF HttpTake, OwnArchive, Extracting
  <2> QED BY <2>1, <2>2
<1>2. CASE HttpWrite \/ HttpFailure
  <2>1. In(extractQ) = {} /\ ~Extracting
    BY <1>2, NothingBehind DEF HttpWrite, HttpFailure
  <2>2. UNCHANGED <<extractQ, fh>>
    BY <1>2 DEF HttpWrite, HttpFailure
  <2> QED BY <2>1, <2>2 DEF OwnArchive, Extracting
<1>3. CASE HttpSuccess
  <2>1. /\ http \in CmdNos /\ extractQ' = Append(extractQ, http)
        /\ flawed' = IF zip.len = 0 THEN flawed \cup {http} ELSE flawed
        /\ UNCHANGED <<zip, fh>>
    BY <1>3 DEF HttpSuccess
  <2>2. In(extractQ) = {} /\ ~Extracting
    BY <2>1, NothingBehind
  <2>3. In(extractQ') = {http}
    BY <2>1, <2>2, <1>a, PutIn
  <2>4. zip.of = http /\ (0 < zip.len \/ http \in flawed')
    <3>1. zip.len \in Nat
      BY DEF TypeOK, Archive
    <3> QED BY <2>1, <3>1 DEF TypeOK
  <2> QED BY <2>1, <2>2, <2>3, <2>4 DEF OwnArchive, Extracting
<1>4. CASE FHTake
  <2>1. Head(extractQ) \in In(extractQ) /\ In(extractQ') \subseteq In(extractQ)
    BY <1>4, <1>a, TakeOut DEF FHTake
  <2>2. fh'.cmd = Head(extractQ) /\ zip' = zip
    BY <1>4 DEF FHTake
  <2> QED BY <2>1, <2>2, <1>b DEF OwnArchive
<1>5. CASE FHEntry
  <2>1. /\ fh' = [fh EXCEPT !.next = @ + 1] /\ fh.next <= zip.len
        /\ UNCHANGED <<zip, extractQ>> /\ Extracting
    BY <1>5 DEF FHEntry
  <2>2. fh.next <= N
    BY <2>1 DEF TypeOK, FHState, Archive
  <2>3. fh'.cmd = fh.cmd
    BY <2>1, <2>2, FHTyped DEF TypeOK
  <2> QED BY <2>1, <2>3, <1>b DEF OwnArchive
<1>6. CASE FHCheckOk
  <2>1. fh'.cmd = fh.cmd /\ UNCHANGED <<zip, extractQ>> /\ Extracting
    BY <1>6 DEF FHCheckOk, Extracting
  <2> QED BY <2>1, <1>b DEF OwnArchive
<1>7. CASE FHInstallOk
  <2>1. fh' = [fh EXCEPT !.pc = "countdown"] /\ UNCHANGED <<zip, extractQ>>
    BY <1>7 DEF FHInstallOk
  <2>2. fh'.pc = "countdown"
    BY <2>1, FHTyped DEF TypeOK
  <2> QED BY <2>1, <2>2, <1>b DEF OwnArchive, Extracting
<1>8. CASE FHCheckFail \/ FHInstallFail \/ FHReboot
  <2>1. fh'.pc = "idle" /\ UNCHANGED <<zip, extractQ>>
    <3>1. CASE FHCheckFail  BY <3>1 DEF FHCheckFail, FHIdle
    <3>2. CASE FHInstallFail  BY <3>2 DEF FHInstallFail, FHIdle
    <3>3. CASE FHReboot  BY <3>3 DEF FHReboot, FHIdle
    <3> QED BY <1>8, <3>1, <3>2, <3>3
  <2> QED BY <2>1, <1>b DEF OwnArchive, Extracting
<1>9. CASE Reboot \/ Kill \/ HttpNoFileCrash
  <2>1. LoseMemory
    BY <1>9 DEF Reboot, Kill, HttpNoFileCrash, ClientRestarts
  <2>2. In(extractQ') = {} /\ fh'.pc = "idle"
    BY <2>1 DEF LoseMemory, In, FHIdle
  <2> QED BY <2>2 DEF OwnArchive, Extracting
<1>10. CASE PanelStep \/ WDReport \/ MHStep \/ PushUpload \/ HttpNoCurl
            \/ HttpNoFileFails \/ HttpUploaded \/ UNCHANGED vars
  <2>1. UNCHANGED <<zip, extractQ, fh>>
    BY <1>10 DEF PanelStep, PanelUpdate, PanelReboot, WDReport, MHStep, MHUpdate,
       MHRebootCmd, MHReboot, PushUpload, HttpNoCurl, HttpNoFileFails,
       HttpUploaded, vars
  <2> QED BY <2>1, <1>b DEF OwnArchive, Extracting
<1> QED
  BY <1>1, <1>2, <1>3, <1>4, <1>5, <1>6, <1>7, <1>8, <1>9, <1>10, NoOldArchive
  DEF Next, HttpStep, HttpNoFile, FHStep

(* An archive is at its end only after its last entry, unless it is empty. *)
LEMMA EndMeansAll ==
  ASSUME TypeOK, OwnArchive, ExtractEnds
  PROVE  fh.cmd \in flawed \/ \A e \in Entries : e < fh.next
<1>1. zip.len \in 0..N /\ N \in Nat /\ (0 < zip.len \/ fh.cmd \in flawed)
  BY PipelineAssumption DEF OwnArchive, ExtractEnds, TypeOK, Archive
<1>2. fh.cmd \in flawed \/ fh.next = N + 1
  BY <1>1 DEF ExtractEnds, AtEOF
<1> QED BY <1>1, <1>2 DEF Entries

(* One round of the loop in extract(): the entry is written, or it is      *)
(* flawed and left out, damaged, or as it was.                             *)
LEMMA EntryPut ==
  ASSUME TypeOK, OwnArchive, FHEntry,
         NEW f, f = Target[fh.cmd]
  PROVE  /\ fh'.pc = fh.pc /\ fh'.cmd = fh.cmd /\ fh'.next = fh.next + 1
         /\ fh.cmd \in CmdNos /\ f \in Folders /\ UNCHANGED zip
         /\ fh.next \in Entries /\ fh.next \in Nat /\ fh.next <= zip.len
         /\ fh.pc = "check" => /\ disk' = disk
                               /\ \A e \in Entries : tmp'[f][e] = tmp[f][e] \/ e = fh.next
                               /\ tmp'[f][fh.next] = fh.cmd \/ fh.cmd \in flawed'
         /\ fh.pc = "install" =>
              /\ tmp' = tmp
              /\ \E x \in {fh.cmd, None, disk[f][fh.next]} :
                   /\ disk' = [disk EXCEPT ![f] = [disk[f] EXCEPT ![fh.next] = x]]
                   /\ \/ x = fh.cmd /\ flawed' = flawed
                      \/ /\ x \in {None, disk[f][fh.next]}
                         /\ flawed' = flawed \cup {fh.cmd}
<1> USE PipelineAssumption
<1>1. fh' = [fh EXCEPT !.next = @ + 1] /\ fh.next <= zip.len /\ Extracting /\ UNCHANGED zip
  BY DEF FHEntry
<1>2. fh.next <= N /\ fh.next \in Entries /\ fh.next \in Nat
  <2>1. fh.next \in 1..N+1 /\ zip.len \in 0..N /\ N \in Nat
    BY DEF TypeOK, FHState, Archive
  <2> QED BY <1>1, <2>1 DEF Entries
<1>3. fh'.pc = fh.pc /\ fh'.cmd = fh.cmd /\ fh'.next = fh.next + 1
  BY <1>1, <1>2, FHTyped DEF TypeOK, FHState
<1>4. zip.of = fh.cmd /\ fh.cmd \in CmdNos /\ f \in Folders
  BY <1>1 DEF OwnArchive, Extracting, TypeOK
<1>5. tmp \in Contents /\ disk \in Contents
  BY DEF TypeOK
<1>6. ASSUME fh.pc = "check"
      PROVE  /\ disk' = disk
             /\ \A e \in Entries : tmp'[f][e] = tmp[f][e] \/ e = fh.next
             /\ tmp'[f][fh.next] = fh.cmd \/ fh.cmd \in flawed'
  <2>1. CASE PutEntry(fh.cmd)
    <3>1. tmp' = [tmp EXCEPT ![f][fh.next] = fh.cmd] /\ disk' = disk
      BY <1>4, <1>6, <2>1 DEF PutEntry
    <3> QED BY <1>2, <1>4, <1>5, <3>1 DEF Contents
  <2>2. CASE flawed' = flawed \cup {fh.cmd} /\ UNCHANGED <<tmp, disk>>
    BY <2>2
  <2>3. CASE flawed' = flawed \cup {fh.cmd} /\ PutEntry(None)
    <3>1. tmp' = [tmp EXCEPT ![f][fh.next] = None] /\ disk' = disk
      BY <1>4, <1>6, <2>3 DEF PutEntry
    <3> QED BY <1>2, <1>4, <1>5, <2>3, <3>1 DEF Contents
  <2> QED BY <1>4, <2>1, <2>2, <2>3 DEF FHEntry
<1>7. ASSUME fh.pc = "install"
      PROVE  /\ tmp' = tmp
             /\ \E x \in {fh.cmd, None, disk[f][fh.next]} :
                  /\ disk' = [disk EXCEPT ![f] = [disk[f] EXCEPT ![fh.next] = x]]
                  /\ \/ x = fh.cmd /\ flawed' = flawed
                     \/ /\ x \in {None, disk[f][fh.next]}
                        /\ flawed' = flawed \cup {fh.cmd}
  <2>1. CASE PutEntry(fh.cmd) /\ UNCHANGED flawed
    <3>1. disk' = [disk EXCEPT ![f] = [disk[f] EXCEPT ![fh.next] = fh.cmd]] /\ tmp' = tmp
      BY <1>4, <1>7, <2>1 DEF PutEntry
    <3> QED BY <2>1, <3>1
  <2>2. CASE flawed' = flawed \cup {fh.cmd} /\ UNCHANGED <<tmp, disk>>
    <3>1. disk = [disk EXCEPT ![f] = [disk[f] EXCEPT ![fh.next] = disk[f][fh.next]]]
      BY <1>2, <1>4, <1>5 DEF Contents
    <3> QED BY <2>2, <3>1
  <2>3. CASE flawed' = flawed \cup {fh.cmd} /\ PutEntry(None)
    <3>1. disk' = [disk EXCEPT ![f] = [disk[f] EXCEPT ![fh.next] = None]] /\ tmp' = tmp
      BY <1>4, <1>7, <2>3 DEF PutEntry
    <3> QED BY <2>3, <3>1
  <2> QED BY <1>4, <2>1, <2>2, <2>3 DEF FHEntry
<1> QED BY <1>1, <1>2, <1>3, <1>4, <1>6, <1>7

LEMMA StepExtracted ==
  ASSUME PatientPanel, TypeOK, ServiceInv, OneInService, OwnArchive, Extracted,
         [Next]_vars
  PROVE  Extracted'
<1> USE PipelineAssumption DEF panel, queues, threads, files, device, seen
<1>a. fh.pc # "idle" => fh.cmd \in CmdNos /\ Target[fh.cmd] \in Folders
  BY DEF TypeOK
<1>b. tmp \in Contents /\ disk \in Contents
  BY DEF TypeOK
<1>c. fh.next \in Nat /\ zip.len \in Nat /\ N \in Nat /\ \A e \in Entries : e \in Nat /\ ~(e < 1)
  BY DEF TypeOK, FHState, Archive, Entries
<1>d. flawed \subseteq flawed'
  BY FlawsStay
<1>1. CASE FHTake
  <2>1. fh'.pc = "check" /\ fh'.next = 1 /\ UNCHANGED zip
    BY <1>1 DEF FHTake
  <2> QED BY <2>1, <1>c DEF Extracted, Extracting
<1>2. CASE FHEntry
  <2> DEFINE f == Target[fh.cmd]
  <2>1. /\ fh'.pc = fh.pc /\ fh'.cmd = fh.cmd /\ fh'.next = fh.next + 1
        /\ fh.cmd \in CmdNos /\ f \in Folders /\ UNCHANGED zip
        /\ fh.next \in Entries /\ fh.next <= zip.len
    BY <1>2, EntryPut
  <2>2. fh'.next <= zip'.len + 1
    BY <1>c, <2>1
  <2>3. \A e \in Entries : (e < fh.next + 1) <=> (e < fh.next \/ e = fh.next)
    <3>1. \A m, n \in Nat : (m < n + 1) <=> (m < n \/ m = n)
      OBVIOUS
    <3> QED BY <1>c, <3>1, Zenon
  <2>4. CASE fh.pc = "check"
    <3>1. /\ \A e \in Entries : tmp'[f][e] = tmp[f][e] \/ e = fh.next
          /\ tmp'[f][fh.next] = fh.cmd \/ fh.cmd \in flawed'
      BY <1>2, <2>4, EntryPut
    <3>2. \A e \in Entries : e < fh.next => tmp[f][e] = fh.cmd \/ fh.cmd \in flawed
      BY <2>4 DEF Extracted
    <3>3. \A e \in Entries : e < fh.next + 1 => tmp'[f][e] = fh.cmd \/ fh.cmd \in flawed'
      BY <1>d, <2>3, <3>1, <3>2
    <3> QED BY <2>1, <2>2, <2>4, <3>3 DEF Extracted
  <2>5. CASE fh.pc = "install"
    <3>1. PICK x \in {fh.cmd, None, disk[f][fh.next]} :
                   /\ disk' = [disk EXCEPT ![f] = [disk[f] EXCEPT ![fh.next] = x]]
                   /\ \/ x = fh.cmd /\ flawed' = flawed
                      \/ /\ x \in {None, disk[f][fh.next]}
                         /\ flawed' = flawed \cup {fh.cmd}
      BY <1>2, <2>5, EntryPut
    <3>2. /\ tmp' = tmp /\ zip.len \in {0, N}
          /\ tmp[f] = Whole(fh.cmd) \/ fh.cmd \in flawed
          /\ disk[f][fh.next] = None
      BY <1>2, <1>c, <2>1, <2>5, EntryPut DEF Extracted
    <3>3. x = fh.cmd \/ (x = None /\ fh.cmd \in flawed')
      BY <3>1, <3>2
    <3>4. \A e \in Entries : disk'[f][e] = IF e = fh.next THEN x ELSE disk[f][e]
      BY <1>b, <2>1, <3>1 DEF Contents
    <3>5. ASSUME NEW e \in Entries
          PROVE  IF e < fh.next + 1
                   THEN disk'[f][e] = fh.cmd \/ (disk'[f][e] = None /\ fh.cmd \in flawed')
                   ELSE disk'[f][e] = None
      <4>1. IF e < fh.next
              THEN disk[f][e] = fh.cmd \/ (disk[f][e] = None /\ fh.cmd \in flawed)
              ELSE disk[f][e] = None
        BY <2>5 DEF Extracted
      <4> QED BY <1>c, <1>d, <2>3, <3>3, <3>4, <4>1
    <3>6. fh'.pc = "install" /\ ~(fh'.pc = "check")
      BY <2>1, <2>5
    <3>7. tmp'[f] = Whole(fh.cmd) \/ fh.cmd \in flawed'
      BY <1>d, <3>2
    <3>8. zip'.len \in {0, N}
      BY <2>1, <3>2
    <3> QED BY <2>1, <2>2, <3>5, <3>6, <3>7, <3>8 DEF Extracted
  <2> QED BY <1>2, <2>4, <2>5 DEF Extracting, FHEntry
<1>3. CASE FHCheckOk
  <2> DEFINE f == Target[fh.cmd]
  <2>1. /\ fh.pc = "check" /\ ExtractEnds /\ tmp' = tmp /\ UNCHANGED <<zip, flawed>>
        /\ fh'.pc = "install" /\ fh'.cmd = fh.cmd /\ fh'.next = 1
        /\ disk' = [disk EXCEPT ![f] = Empty]
    BY <1>3 DEF FHCheckOk
  <2>2. tmp[f] = Whole(fh.cmd) \/ fh.cmd \in flawed
    <3>1. (\A e \in Entries : tmp[f][e] = fh.cmd) \/ fh.cmd \in flawed
      BY <2>1, EndMeansAll DEF Extracted
    <3>2. tmp[f] \in [Entries -> Builds \cup {None}]
      BY <1>a, <1>b, <2>1 DEF Contents
    <3> QED BY <3>1, <3>2 DEF Whole
  <2>3. disk'[f] = Empty
    BY <1>a, <1>b, <2>1 DEF Contents
  <2>4. \A e \in Entries : disk'[f][e] = None /\ ~(e < 1)
    BY <1>c, <2>3 DEF Empty
  <2>5. zip.len \in {0, N}
    <3>1. fh.next <= zip.len + 1 /\ zip.len \in 0..N
      BY <2>1 DEF Extracted, Extracting, TypeOK, Archive
    <3>2. fh.next = N + 1 \/ zip.len = 0
      BY <2>1 DEF ExtractEnds, AtEOF
    <3>3. \A l, n, m \in Nat : l \in 0..n /\ m <= l + 1 /\ (m = n + 1 \/ l = 0) => l \in {0, n}
      OBVIOUS
    <3> QED BY <1>c, <3>1, <3>2, <3>3, Zenon
  <2>6. 1 <= zip.len + 1
    BY <1>c
  <2> QED BY <2>1, <2>2, <2>4, <2>5, <2>6 DEF Extracted
<1>4. CASE FHInstallOk
  <2>1. fh' = [fh EXCEPT !.pc = "countdown"]
    BY <1>4 DEF FHInstallOk
  <2>2. fh'.pc = "countdown"
    BY <2>1, FHTyped DEF TypeOK
  <2> QED BY <2>2 DEF Extracted, Extracting
<1>5. CASE FHCheckFail \/ FHInstallFail \/ FHReboot \/ Reboot \/ Kill \/ HttpNoFileCrash
  <2>1. fh' = FHIdle
    BY <1>5 DEF FHCheckFail, FHInstallFail, FHReboot, Reboot, Kill,
       HttpNoFileCrash, ClientRestarts, LoseMemory
  <2> QED BY <2>1 DEF Extracted, Extracting, FHIdle
<1>6. CASE HttpTake \/ HttpWrite \/ HttpFailure
  <2>1. UNCHANGED <<tmp, disk, fh, flawed>>
    BY <1>6 DEF HttpTake, HttpWrite, HttpFailure
  <2>2. zip' = zip \/ ~Extracting
    BY <1>6, NothingBehind DEF HttpTake, HttpWrite, HttpFailure
  <2> QED BY <2>1, <2>2 DEF Extracted, Extracting
<1>7. CASE PanelStep \/ WDReport \/ MHStep \/ PushUpload \/ HttpNoFileFails
           \/ HttpNoCurl \/ HttpSuccess \/ HttpUploaded \/ UNCHANGED vars
  <2>1. UNCHANGED <<tmp, disk, fh, zip>>
    BY <1>7 DEF PanelStep, PanelUpdate, PanelReboot, WDReport, MHStep, MHUpdate,
       MHRebootCmd, MHReboot, PushUpload, HttpNoFileFails, HttpNoCurl,
       HttpSuccess, HttpUploaded, vars
  <2> QED BY <2>1, <1>d DEF Extracted, Extracting
<1> QED BY <1>1, <1>2, <1>3, <1>4, <1>5, <1>6, <1>7, NoOldArchive
        DEF Next, HttpStep, HttpNoFile, FHStep

LEMMA AlwaysInstall ==
  ASSUME PatientPanel
  PROVE  Spec => []InstallInv
<1>1. TypeOK /\ ServiceInv /\ InstallInv /\ [Next]_vars => InstallInv'
  BY StepOneInService, StepOwnArchive, StepExtracted DEF InstallInv
<1> QED BY <1>1, InitInstall, TypeCorrect, AlwaysServed, PTL DEF Spec

(* If the panel waits, FileHandler::run extracts the archive of its own    *)
(* request, and HttpClient::run does not write to it meanwhile.            *)
THEOREM ArchiveStaysOwn ==
  ASSUME PatientPanel
  PROVE  Spec => []ArchiveIsOwn
<1>1. TypeOK /\ ServiceInv /\ InstallInv => ArchiveIsOwn
  BY NothingBehind DEF InstallInv, OwnArchive, ArchiveIsOwn
<1> QED BY <1>1, AlwaysInstall, TypeCorrect, AlwaysServed, PTL

(* What the first extraction could read, the second can. *)
LEMMA InstallReads ==
  ASSUME TypeOK, InstallInv, fh.pc = "install"
  PROVE  ~ReadError
<1>1. /\ zip.len \in {0, N} /\ fh.next <= zip.len + 1 /\ zip.of = fh.cmd
      /\ fh.cmd \in CmdNos
  BY DEF InstallInv, Extracted, OwnArchive, Extracting, TypeOK
<1>2. fh.next \in 1..N+1 /\ N \in Nat /\ zip.of # None
  BY <1>1, PipelineAssumption DEF TypeOK, FHState, CmdNos
<1> QED BY <1>1, <1>2 DEF ReadError, AtEOF

(* If the panel waits, a real folder is removed and written only after the *)
(* whole archive was read and extracted under Downloads/, whatever write   *)
(* errors and damaged archives there are; only what extract() prints and   *)
(* passes over and an empty body get by this check.  The installation does *)
(* not meet the end of a truncated archive.                                *)
THEOREM InstallsOnlyChecked ==
  ASSUME PatientPanel
  PROVE  Spec => []CheckedBeforeInstall
<1>1. TypeOK /\ InstallInv => CheckedBeforeInstall
  BY InstallReads DEF InstallInv, Extracted, CheckedBeforeInstall
<1> QED BY <1>1, AlwaysInstall, TypeCorrect, PTL

(* If the panel waits, an answer of success is the truth: the real folder  *)
(* then holds all of the build the command brought, or the archive of the  *)
(* command had a flaw that extract() does not report.                      *)
THEOREM SuccessIsTrue ==
  ASSUME PatientPanel
  PROVE  Spec => SuccessMeansInstalled
<1> DEFINE Truthful == \A c \in CmdNos :
                         c \in Succeeded' \ Succeeded =>
                           disk[Target[c]] = Whole(c) \/ c \in flawed
<1>1. TypeOK /\ InstallInv /\ [Next]_vars => [Truthful]_vars
  <2> SUFFICES ASSUME TypeOK, InstallInv, Next, NEW c \in CmdNos,
                      c \in Succeeded', c \notin Succeeded, c \notin flawed
               PROVE  disk[Target[c]] = Whole(c)
    OBVIOUS
  <2>1. replies' # replies
    BY DEF Succeeded
  <2>2. PICK r \in Reply : /\ replies' = Append(replies, r)
                           /\ r.ok => FHInstallOk /\ r.cmd = fh.cmd
    <3>1. CASE HttpFailure \/ FHCheckFail \/ HttpNoFileFails
      <4>1. PICK a \in CmdNos : Answer(a, FALSE)
        BY <3>1 DEF HttpFailure, FHCheckFail, HttpNoFileFails, NoFile, TypeOK
      <4>2. [cmd |-> a, ok |-> FALSE] \in Reply
        BY DEF Reply
      <4> QED BY <4>1, <4>2 DEF Answer
    <3>2. CASE FHInstallOk
      <4>1. [cmd |-> fh.cmd, ok |-> TRUE] \in Reply
        BY <3>2 DEF FHInstallOk, Reply, TypeOK
      <4> QED BY <3>2, <4>1 DEF FHInstallOk, Answer
    <3>3. CASE ~(HttpFailure \/ FHCheckFail \/ HttpNoFileFails \/ FHInstallOk)
      BY <2>1, <3>3 DEF Next, PanelStep, MHStep, HttpStep, HttpNoFile, FHStep, threads,
         PanelUpdate, PanelReboot, WDReport, MHUpdate, MHRebootCmd, MHReboot,
         PushUpload, HttpTake, HttpNoFileEmpty, HttpNoFileCrash, HttpNoCurl,
         HttpWrite, HttpSuccess,
         HttpUploaded, FHTake, FHEntry, FHCheckOk, FHInstallFail, FHReboot,
         Reboot, Kill
    <3> QED BY <3>1, <3>2, <3>3
  <2>3. In(replies') = In(replies) \cup {r}
    BY <2>2, PutIn DEF TypeOK
  <2>4. r.ok /\ c = r.cmd
    BY <2>3 DEF Succeeded
  <2>5. FHInstallOk /\ c = fh.cmd /\ fh.pc = "install" /\ ExtractEnds
    BY <2>2, <2>4 DEF FHInstallOk
  <2>6. \A e \in Entries : disk[Target[c]][e] = c
    BY <2>5, EndMeansAll DEF InstallInv, Extracted
  <2>7. disk[Target[c]] \in [Entries -> Builds \cup {None}]
    BY PipelineAssumption DEF TypeOK, Contents
  <2> QED BY <2>6, <2>7 DEF Whole
<1> QED BY <1>1, AlwaysInstall, TypeCorrect, PTL DEF Spec, SuccessMeansInstalled
-----------------------------------------------------------------------------
(* The refinement.  With a panel that waits, the three threads of the      *)
(* update service, their queues and the shared archive implement           *)
(* UpdateService: to the panel they look like one worker.                  *)

(* BuildIn, for the three kinds of folder contents that occur. *)
LEMMA WholeHasBuild ==
  ASSUME NEW c \in Builds
  PROVE  BuildIn(Whole(c)) = c
<1>1. 1 \in Entries
  BY PipelineAssumption DEF Entries
<1>2. \A b \in Builds : Whole(c) = Whole(b) => b = c
  BY <1>1 DEF Whole
<1> QED BY <1>2 DEF BuildIn

LEMMA EmptyHasNone == BuildIn(Empty) = None
<1>1. 1 \in Entries /\ None \notin Builds
  BY PipelineAssumption DEF Entries, Builds
<1>2. \A b \in Builds : Empty # Whole(b)
  BY <1>1 DEF Empty, Whole
<1> QED BY <1>2 DEF BuildIn

LEMMA BegunHasOneOrNone ==
  ASSUME NEW c \in Builds, NEW dir, dir[1] \in {c, None}
  PROVE  BuildIn(dir) \in {c, None}
<1>1. 1 \in Entries /\ None \notin Builds
  BY PipelineAssumption DEF Entries, Builds
<1>2. \A b \in Builds : dir = Whole(b) => b = c
  BY <1>1 DEF Whole
<1> QED BY <1>2 DEF BuildIn

(* One folder changes. *)
LEMMA OneFolderChanges ==
  ASSUME TypeOK, NEW f \in Folders, NEW d,
         disk' = [disk EXCEPT ![f] = d]
  PROVE  Installed' = [Installed EXCEPT ![f] = BuildIn(d)]
<1>1. disk \in [Folders -> [Entries -> Builds \cup {None}]]
  BY DEF TypeOK, Contents
<1>2. \A g \in Folders : disk'[g] = IF g = f THEN d ELSE disk[g]
  BY <1>1
<1>3. \A g \in Folders : BuildIn(disk'[g]) = IF g = f THEN BuildIn(d) ELSE BuildIn(disk[g])
  BY <1>2
<1>4. Installed' = [g \in Folders |-> IF g = f THEN BuildIn(d) ELSE BuildIn(disk[g])]
  BY <1>3 DEF Installed
<1> QED BY <1>4 DEF Installed

(* When a step of the service is taken for a command, it is the last one   *)
(* and it was not answered yet.                                            *)
LEMMA LastAndOpen ==
  ASSUME TypeOK, ServiceInv, OneInService,
         NEW c \in InService, ~(fh.pc = "countdown" /\ c = fh.cmd)
  PROVE  c = sent /\ Service!Open
<1>1. c = sent /\ c \notin Answered
  BY DEF OneInService, ServiceInv, AnsweredOnce
<1>2. sent > 0
  BY <1>1 DEF InService, CmdNos
<1>3. \A i \in DOMAIN replies : replies[i].cmd # sent
  BY <1>1 DEF Answered, In
<1> QED BY <1>1, <1>2, <1>3 DEF Service!Open

(* A panel that waits sends nothing during an installation. *)
LEMMA NoSendWhileInstalling ==
  ASSUME PatientPanel, TypeOK, ServiceInv, PanelUpdate
  PROVE  fh.pc # "install"
<1> SUFFICES ASSUME fh.pc = "install" PROVE FALSE
  OBVIOUS
<1>1. fh.cmd \in CmdNos /\ fh.cmd \in InService
  BY DEF TypeOK, InService, AtFH
<1>2. Discipline # "orderly"
  BY DEF PanelUpdate, MaySend, Quiet
<1>4. Answers(fh.cmd) # {}
  BY <1>1, <1>2 DEF PanelUpdate, MaySend, PatientPanel
<1>5. fh.cmd \in Answered
  BY <1>4 DEF Answers, Answered, In
<1> QED BY <1>1, <1>5 DEF ServiceInv, AnsweredOnce

-----------------------------------------------------------------------------
LEMMA InitService == Init => Service!Init
<1> SUFFICES ASSUME Init PROVE Service!Init
  OBVIOUS
<1>1. 0 \in Builds
  BY PipelineAssumption DEF Builds
<1>2. Installed = [f \in Folders |-> 0]
  BY <1>1, WholeHasBuild DEF Init, Installed
<1>3. Installing = None
  BY DEF Init, FHIdle, Installing
<1> QED BY <1>2, <1>3 DEF Init, Service!Init

LEMMA StepService ==
  ASSUME PatientPanel, TypeOK, ServiceInv, InstallInv, [Next]_vars
  PROVE  [Service!Next]_(Service!serviceVars)
<1> USE PipelineAssumption DEF panel, queues, threads, files, device, seen
<1>a. /\ None \notin CmdNos /\ CmdNos \subseteq Builds
      /\ OneInService /\ OwnArchive /\ Extracted
  BY DEF CmdNos, Builds, InstallInv
<1>b. fh.pc # "idle" => /\ fh.cmd \in CmdNos /\ fh.cmd \in Builds /\ fh.cmd # None
                        /\ Target[fh.cmd] \in Folders /\ fh.cmd \in InService
  BY <1>a DEF TypeOK, InService, AtFH
<1>1. CASE PanelUpdate
  <2>1. fh.pc # "install"
    BY <1>1, NoSendWhileInstalling
  <2>2. /\ UNCHANGED <<replies, fh, disk, flawed>>
        /\ sent' = sent + 1 /\ sent < MaxCmd
    BY <1>1 DEF PanelUpdate
  <2>3. Installing = None /\ Installing' = None /\ Installed' = Installed
    BY <2>1, <2>2 DEF Installing, Installed
  <2> QED BY <2>2, <2>3 DEF Service!Send, Service!Next
<1>2. CASE HttpFailure
  <2>1. http \in CmdNos /\ ~Extracting /\ http \in InService
    BY <1>2, <1>a, NothingBehind DEF HttpFailure, InService
  <2>2. ~(fh.pc = "countdown" /\ http = fh.cmd)
    BY <1>b, <2>1, LastIsAlone DEF AtFH
  <2>3. http = sent /\ Service!Open
    BY <1>a, <2>1, <2>2, LastAndOpen
  <2>4. /\ UNCHANGED <<sent, fh, disk, flawed>>
        /\ replies' = Append(replies, [cmd |-> http, ok |-> FALSE])
    BY <1>2 DEF HttpFailure, Answer
  <2>5. Installing = None /\ Installing' = None /\ Installed' = Installed
    BY <2>1, <2>4 DEF Installing, Installed, Extracting
  <2> QED BY <2>3, <2>4, <2>5 DEF Service!Fail, Service!Next
<1>10. CASE HttpNoFileFails
  <2> DEFINE c == Head(reqQ)
  <2>1. c \in CmdNos /\ reqQ # <<>> /\ reqQ \in Seq(Reqs) /\ http = None
    BY <1>10 DEF HttpNoFileFails, NoFile, TypeOK
  <2>2. c \in In(reqQ) /\ c \in InService
    BY <2>1, TakeOut DEF InService
  <2>3. ~Extracting
    BY <1>a, <2>1, NothingBehind
  <2>4. ~(fh.pc = "countdown" /\ c = fh.cmd)
    BY <1>b, <2>2, LastIsAlone DEF AtFH
  <2>5. c = sent /\ Service!Open
    BY <1>a, <2>2, <2>4, LastAndOpen
  <2>6. /\ UNCHANGED <<sent, fh, disk, flawed>>
        /\ replies' = Append(replies, [cmd |-> c, ok |-> FALSE])
    BY <1>10 DEF HttpNoFileFails, Answer
  <2>7. Installing = None /\ Installing' = None /\ Installed' = Installed
    BY <2>3, <2>6 DEF Installing, Installed, Extracting
  <2> QED BY <2>5, <2>6, <2>7 DEF Service!Fail, Service!Next
<1>11. CASE HttpSuccess
  <2>1. /\ http \in CmdNos /\ http \in InService
        /\ flawed' = IF zip.len = 0 THEN flawed \cup {http} ELSE flawed
        /\ UNCHANGED <<sent, replies, fh, disk>>
    BY <1>11 DEF HttpSuccess, InService
  <2>2. ~(fh.pc = "countdown" /\ http = fh.cmd)
    BY <1>b, <2>1, LastIsAlone DEF AtFH
  <2>3. http = sent /\ Service!Open
    BY <1>a, <2>1, <2>2, LastAndOpen
  <2>4. Installing' = Installing /\ Installed' = Installed
    BY <2>1 DEF Installing, Installed
  <2>5. flawed' = flawed \cup {sent} \/ flawed' = flawed
    BY <2>1, <2>3
  <2> QED BY <2>1, <2>3, <2>4, <2>5 DEF Service!Flaw, Service!Next, Service!serviceVars
<1>3. CASE FHCheckFail
  <2>1. fh.pc = "check" /\ fh' = FHIdle /\ UNCHANGED <<sent, disk, flawed>>
        /\ replies' = Append(replies, [cmd |-> fh.cmd, ok |-> FALSE])
    BY <1>3 DEF FHCheckFail, Answer
  <2>2. fh.cmd = sent /\ Service!Open
    BY <1>a, <1>b, <2>1, LastAndOpen
  <2>3. Installing = None /\ Installing' = None /\ Installed' = Installed
    BY <2>1 DEF Installing, Installed, FHIdle
  <2> QED BY <2>1, <2>2, <2>3 DEF Service!Fail, Service!Next
<1>4. CASE FHCheckOk
  <2>1. /\ fh.pc = "check" /\ fh'.pc = "install" /\ fh'.cmd = fh.cmd
        /\ disk' = [disk EXCEPT ![Target[fh.cmd]] = Empty]
        /\ UNCHANGED <<sent, replies, flawed>>
    BY <1>4 DEF FHCheckOk
  <2>2. fh.cmd = sent /\ Service!Open
    BY <1>a, <1>b, <2>1, LastAndOpen
  <2>3. Installed' = [Installed EXCEPT ![Target[sent]] = None]
    BY <1>b, <2>1, <2>2, OneFolderChanges, EmptyHasNone
  <2>4. Installing = None /\ Installing' = sent
    BY <2>1, <2>2 DEF Installing
  <2> QED BY <2>1, <2>2, <2>3, <2>4 DEF Service!Begin, Service!Next
<1>5. CASE FHEntry
  <2> DEFINE f == Target[fh.cmd]
  <2>1. /\ fh'.pc = fh.pc /\ fh'.cmd = fh.cmd /\ fh.cmd \in CmdNos /\ f \in Folders
        /\ fh.next \in Entries /\ fh.next \in Nat /\ UNCHANGED <<sent, replies>>
    BY <1>5, <1>a, EntryPut DEF FHEntry
  <2>2. Installing' = Installing
    BY <2>1 DEF Installing
  <2>3. CASE fh.pc = "check"
    <3>1. disk' = disk
      BY <1>5, <1>a, <2>3, EntryPut
    <3>2. fh.cmd = sent /\ Service!Open
      BY <1>a, <1>b, <2>3, LastAndOpen
    <3>3. flawed' \in {flawed, flawed \cup {fh.cmd}}
      BY <1>5 DEF FHEntry
    <3>4. Installed' = Installed
      BY <3>1 DEF Installed
    <3> QED BY <2>1, <2>2, <3>2, <3>3, <3>4 DEF Service!Flaw, Service!Next, Service!serviceVars
  <2>4. CASE fh.pc = "install"
    <3>1. PICK x \in {fh.cmd, None, disk[f][fh.next]} :
                   /\ disk' = [disk EXCEPT ![f] = [disk[f] EXCEPT ![fh.next] = x]]
                   /\ \/ x = fh.cmd /\ flawed' = flawed
                      \/ /\ x \in {None, disk[f][fh.next]}
                         /\ flawed' = flawed \cup {fh.cmd}
      BY <1>5, <1>a, <2>4, EntryPut
    <3>2. disk[f] \in [Entries -> Builds \cup {None}] /\ disk[f][fh.next] = None
      <4>1. ~(fh.next < fh.next)
        BY <2>1
      <4> QED BY <1>a, <2>1, <2>4, <4>1 DEF Extracted, TypeOK, Contents
    <3>3. CASE x = fh.cmd /\ flawed' = flawed
      <4> DEFINE d == [disk[f] EXCEPT ![fh.next] = fh.cmd]
      <4>1. d[1] \in {fh.cmd, None}
        <5>1. 1 \in Entries
          BY DEF Entries
        <5>2. disk[f][1] \in {fh.cmd, None}
          BY <1>a, <2>4, <5>1 DEF Extracted
        <5> QED BY <2>1, <3>2, <5>1, <5>2
      <4>2. disk' = [disk EXCEPT ![f] = d]
        BY <3>1, <3>3
      <4> HIDE DEF d
      <4>3. BuildIn(d) \in {None, fh.cmd}
        BY <1>b, <2>4, <4>1, BegunHasOneOrNone
      <4>4. Installing = fh.cmd /\ Installing # None
        BY <1>b, <2>4 DEF Installing
      <4>5. Installed' = [Installed EXCEPT ![Target[Installing]] = BuildIn(d)]
        BY <2>1, <4>2, <4>4, OneFolderChanges
      <4> QED BY <2>1, <2>2, <3>3, <4>3, <4>4, <4>5 DEF Service!Write, Service!Next
    <3>4. CASE x = None /\ flawed' = flawed \cup {fh.cmd}
      <4>1. disk' = disk
        <5>1. [disk[f] EXCEPT ![fh.next] = None] = disk[f]
          BY <3>2
        <5>2. disk \in [Folders -> [Entries -> Builds \cup {None}]]
          BY DEF TypeOK, Contents
        <5> QED BY <3>1, <3>4, <5>1, <5>2
      <4>2. fh.cmd = sent /\ Service!Open
        BY <1>a, <1>b, <2>4, LastAndOpen
      <4>3. Installed' = Installed
        BY <4>1 DEF Installed
      <4> QED BY <2>1, <2>2, <3>4, <4>2, <4>3 DEF Service!Flaw, Service!Next
    <3> QED BY <3>1, <3>2, <3>3, <3>4
  <2> QED BY <1>5, <2>3, <2>4 DEF Extracting, FHEntry
<1>6. CASE FHInstallOk
  <2>1. /\ fh.pc = "install" /\ ExtractEnds /\ fh' = [fh EXCEPT !.pc = "countdown"]
        /\ UNCHANGED <<sent, disk, flawed>>
        /\ replies' = Append(replies, [cmd |-> fh.cmd, ok |-> TRUE])
    BY <1>6 DEF FHInstallOk, Answer
  <2>2. fh.cmd \in flawed \/ disk[Target[fh.cmd]] = Whole(fh.cmd)
    <3> SUFFICES ASSUME fh.cmd \notin flawed PROVE disk[Target[fh.cmd]] = Whole(fh.cmd)
      OBVIOUS
    <3>1. \A e \in Entries : disk[Target[fh.cmd]][e] = fh.cmd
      BY <1>a, <2>1, EndMeansAll DEF Extracted
    <3>2. disk[Target[fh.cmd]] \in [Entries -> Builds \cup {None}]
      BY <1>b, <2>1 DEF TypeOK, Contents
    <3> QED BY <3>1, <3>2 DEF Whole
  <2>3. fh.cmd \in flawed \/ Installed[Target[fh.cmd]] = fh.cmd
    BY <1>b, <2>1, <2>2, WholeHasBuild DEF Installed
  <2>4. fh'.pc = "countdown"
    BY <2>1, FHTyped DEF TypeOK
  <2>5. /\ Installing = fh.cmd /\ Installing # None /\ Installing' = None
        /\ Installed' = Installed
    BY <1>b, <2>1, <2>4 DEF Installing, Installed
  <2> QED BY <2>1, <2>3, <2>5 DEF Service!Succeed, Service!Next
<1>7. CASE FHInstallFail \/ FHReboot \/ Reboot \/ Kill \/ HttpNoFileCrash
  <2>1. fh' = FHIdle /\ UNCHANGED <<sent, replies, disk, flawed>>
    <3>1. CASE FHInstallFail  BY <3>1 DEF FHInstallFail
    <3>2. CASE FHReboot  BY <3>2 DEF FHReboot
    <3>3. CASE Reboot \/ Kill \/ HttpNoFileCrash
      BY <3>3 DEF Reboot, Kill, HttpNoFileCrash, ClientRestarts, LoseMemory
    <3> QED BY <1>7, <3>1, <3>2, <3>3
  <2>2. Installing' = None /\ Installed' = Installed
    BY <2>1 DEF Installing, Installed, FHIdle
  <2> QED BY <2>1, <2>2 DEF Service!GiveUp, Service!Next, Service!serviceVars
<1>8. CASE FHTake
  <2>1. /\ fh.pc = "idle" /\ fh'.pc = "check" /\ UNCHANGED <<sent, replies, disk, flawed>>
    BY <1>8 DEF FHTake
  <2> QED BY <2>1 DEF Installing, Installed, Service!serviceVars
<1>9. CASE PanelReboot \/ WDReport \/ MHStep \/ PushUpload \/ HttpTake \/ HttpNoCurl
           \/ HttpWrite \/ HttpUploaded \/ UNCHANGED vars
  <2>1. UNCHANGED <<sent, replies, fh, disk, flawed>>
    BY <1>9 DEF PanelReboot, WDReport, MHStep, MHUpdate, MHRebootCmd, MHReboot,
       PushUpload, HttpTake, HttpNoCurl, HttpWrite, HttpUploaded, vars
  <2> QED BY <2>1 DEF Installing, Installed, Service!serviceVars
<1> QED
  BY <1>1, <1>2, <1>3, <1>4, <1>5, <1>6, <1>7, <1>8, <1>9, <1>10, <1>11, NoOldArchive
  DEF Next, PanelStep, HttpStep, HttpNoFile, FHStep

(* If the panel waits, what MessageHandler, HttpClient and FileHandler do  *)
(* together is what UpdateService promises: one command at a time, folders *)
(* that are whole except during an installation, and true answers.         *)
THEOREM PipelineIsAService ==
  ASSUME PatientPanel
  PROVE  Spec => ImplementsService
<1>1. TypeOK /\ ServiceInv /\ InstallInv /\ [Next]_vars
        => [Service!Next]_(Service!serviceVars)
  BY StepService
<1> QED BY <1>1, InitService, TypeCorrect, AlwaysServed, AlwaysInstall, PTL
        DEF Spec, ImplementsService, Service!Spec

-----------------------------------------------------------------------------
(* What follows from the service alone. *)

(* The folder of a command that was answered with success holds its build, *)
(* or a later command for the same folder was sent, or its archive had a   *)
(* flaw.                                                                   *)
SuccessLasts ==
  \A c \in Succeeded : \/ Installed[Target[c]] = c
                       \/ \E d \in c+1..sent : Target[d] = Target[c]
                       \/ c \in flawed

LEMMA AnswerSucceeds ==
  ASSUME TypeOK, NEW c \in CmdNos, NEW ok \in BOOLEAN,
         replies' = Append(replies, [cmd |-> c, ok |-> ok])
  PROVE  /\ ok => Succeeded' = Succeeded \cup {c}
         /\ ~ok => Succeeded' = Succeeded
<1> DEFINE r == [cmd |-> c, ok |-> ok]
<1>1. r \in Reply /\ r.cmd = c /\ r.ok = ok
  BY DEF Reply
<1>2. replies' = Append(replies, r) /\ replies \in Seq(Reply)
  BY DEF TypeOK
<1> HIDE DEF r
<1>3. In(replies') = In(replies) \cup {r}
  BY <1>1, <1>2, PutIn
<1> QED BY <1>1, <1>3 DEF Succeeded

LEMMA SuccessIsSent == TypeOK => Succeeded \subseteq CmdNos \cap Answered
<1> SUFFICES ASSUME TypeOK PROVE Succeeded \subseteq CmdNos \cap Answered
  OBVIOUS
<1>1. \A r \in In(replies) : r \in Reply
  BY LenProperties DEF TypeOK, In
<1>2. \A r \in Reply : r.cmd \in CmdNos
  BY DEF Reply
<1> QED BY <1>1, <1>2 DEF Succeeded, Answered

(* The command that is being installed is the last one sent, and it is     *)
(* newer than those that succeeded.                                        *)
LEMMA InstallingIsLast ==
  ASSUME TypeOK, ServiceInv, OneInService, Installing # None
  PROVE  /\ Installing = sent /\ Installing \in CmdNos
         /\ \A c \in Succeeded : c < sent
<1>1. fh.pc = "install" /\ Installing = fh.cmd /\ fh.cmd \in InService /\ fh.cmd \in CmdNos
  BY DEF Installing, TypeOK, InService, AtFH
<1>2. fh.cmd = sent /\ sent \notin Answered
  BY <1>1, LastAndOpen DEF ServiceInv, AnsweredOnce
<1>3. \A c \in Succeeded : c \in CmdNos /\ c \in Answered /\ c <= sent
  BY SuccessIsSent DEF ServiceInv, OnlySent
<1>4. \A c \in CmdNos : c <= sent /\ c # sent => c < sent
  BY DEF TypeOK, CmdNos
<1> QED BY <1>1, <1>2, <1>3, <1>4

LEMMA StepLasts ==
  ASSUME TypeOK, ServiceInv, OneInService, SuccessLasts,
         [Service!Next]_(Service!serviceVars)
  PROVE  SuccessLasts'
<1> USE PipelineAssumption
<1>a. Succeeded \subseteq CmdNos /\ CmdNos \subseteq Nat /\ sent \in Nat
  BY SuccessIsSent DEF CmdNos, TypeOK
<1>b. Installed = [f \in Folders |-> Installed[f]] /\ \A c \in CmdNos : Target[c] \in Folders
  BY DEF Installed
<1>c. Service!Open => sent \in CmdNos
  BY DEF Service!Open, CmdNos, TypeOK
\* a step that touches no folder but that of the last command
<1>d. ASSUME UNCHANGED <<sent, replies, flawed>>, \A c \in Succeeded : c <= sent,
             \A c \in Succeeded : \/ Target[c] = Target[sent] /\ c < sent
                                  \/ Installed'[Target[c]] = Installed[Target[c]]
      PROVE  SuccessLasts'
  <2>1. Succeeded' = Succeeded
    BY <1>d DEF Succeeded
  <2>2. \A c \in Succeeded : c < sent => sent \in c+1..sent
    BY <1>a
  <2> QED BY <1>d, <2>1, <2>2 DEF SuccessLasts
<1>1. CASE Service!Send
  <2>1. sent' = sent + 1 /\ UNCHANGED <<replies, flawed, Installed>>
    BY <1>1 DEF Service!Send
  <2>2. \A c \in Succeeded : c+1..sent \subseteq c+1..sent'
    BY <1>a, <2>1
  <2>3. Succeeded' = Succeeded
    BY <2>1 DEF Succeeded
  <2> QED BY <2>1, <2>2, <2>3 DEF SuccessLasts
<1>2. CASE Service!Fail
  <2>1. /\ sent \in CmdNos /\ UNCHANGED <<sent, flawed, Installed>>
        /\ replies' = Append(replies, [cmd |-> sent, ok |-> FALSE])
    BY <1>2, <1>c DEF Service!Fail
  <2>2. Succeeded' = Succeeded
    BY <2>1, AnswerSucceeds
  <2> QED BY <2>1, <2>2 DEF SuccessLasts
<1>3. CASE Service!Begin
  <2>1. /\ UNCHANGED <<sent, replies, flawed>> /\ sent \in CmdNos
        /\ Installed' = [Installed EXCEPT ![Target[sent]] = None]
    BY <1>3, <1>c DEF Service!Begin
  <2>2. sent \notin Succeeded /\ \A c \in Succeeded : c <= sent
    BY <1>3, SuccessIsSent DEF Service!Begin, Service!Open, Succeeded, In, ServiceInv, OnlySent
  <2>3. \A c \in Succeeded : c < sent
    BY <1>a, <2>2
  <2>4. \A c \in Succeeded : Target[c] # Target[sent] =>
          Installed'[Target[c]] = Installed[Target[c]]
    BY <1>a, <1>b, <2>1
  <2> QED BY <1>d, <2>1, <2>2, <2>3, <2>4
<1>4. CASE Service!Write
  <2>1. PICK b : /\ UNCHANGED <<sent, replies, flawed>>
                 /\ Installed' = [Installed EXCEPT ![Target[sent]] = b]
    BY <1>4, InstallingIsLast DEF Service!Write
  <2>2. \A c \in Succeeded : c < sent
    BY <1>4, InstallingIsLast DEF Service!Write
  <2>3. \A c \in Succeeded : Target[c] # Target[sent] =>
          Installed'[Target[c]] = Installed[Target[c]]
    BY <1>a, <1>b, <2>1
  <2>4. \A c \in Succeeded : c <= sent
    BY <1>a, <2>2
  <2> QED BY <1>d, <2>1, <2>2, <2>3, <2>4
<1>5. CASE Service!Succeed
  <2>1. /\ Installing \in CmdNos /\ UNCHANGED <<sent, flawed, Installed>>
        /\ replies' = Append(replies, [cmd |-> Installing, ok |-> TRUE])
        /\ Installed[Target[Installing]] = Installing \/ Installing \in flawed
    BY <1>5, InstallingIsLast DEF Service!Succeed
  <2>2. Succeeded' = Succeeded \cup {Installing}
    BY <2>1, AnswerSucceeds
  <2> QED BY <2>1, <2>2 DEF SuccessLasts
<1>6. CASE Service!GiveUp \/ Service!Flaw \/ UNCHANGED Service!serviceVars
  <2>1. UNCHANGED <<sent, replies, Installed>> /\ flawed \subseteq flawed'
    BY <1>6 DEF Service!GiveUp, Service!Flaw, Service!serviceVars
  <2>2. Succeeded' = Succeeded
    BY <2>1 DEF Succeeded
  <2> QED BY <2>1, <2>2 DEF SuccessLasts
<1> QED BY <1>1, <1>2, <1>3, <1>4, <1>5, <1>6 DEF Service!Next

(* If the panel waits, an answer of success stays true: whatever crashes   *)
(* and fails afterwards, the folder holds that build until a later command *)
(* for the same folder is sent, unless its archive had a flaw.             *)
THEOREM SuccessStaysTrue ==
  ASSUME PatientPanel
  PROVE  Spec => []SuccessLasts
<1>1. Init => SuccessLasts
  <2> SUFFICES ASSUME Init PROVE Succeeded = {}
    BY DEF SuccessLasts
  <2>1. replies = <<>>
    BY DEF Init
  <2> QED BY <2>1 DEF Succeeded, In
<1>2. TypeOK /\ ServiceInv /\ InstallInv /\ SuccessLasts /\ [Next]_vars => SuccessLasts'
  BY StepService, StepLasts DEF InstallInv
<1> QED BY <1>1, <1>2, TypeCorrect, AlwaysServed, AlwaysInstall, PTL DEF Spec
=============================================================================
