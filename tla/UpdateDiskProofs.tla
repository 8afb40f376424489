-------------------------- MODULE UpdateDiskProofs --------------------------
(***************************************************************************)
(* What failures, reboots and restarts leave in the real folders, and what *)
(* a restart starts.  If the panel waits, nothing of a build whose command *)
(* failed is there, no folder mixes two builds, a folder that cannot be    *)
(* started has an update without an answer, and a command is lost only at  *)
(* five places.  Whatever the panel does and whatever fails, a restart     *)
(* starts no build without a newer process, unless it was taken blindly.   *)
(***************************************************************************)
EXTENDS UpdateInstallProofs

(* An answer is added to those given. *)
LEMMA AnswersStay ==
  ASSUME TypeOK, NEW c \in CmdNos, NEW ok \in BOOLEAN, Answer(c, ok)
  PROVE  Answered' = Answered \cup {c}
<1> DEFINE r == [cmd |-> c, ok |-> ok]
<1>1. r \in Reply /\ r.cmd = c
  BY DEF Reply
<1>2. replies' = Append(replies, r) /\ replies \in Seq(Reply)
  BY DEF Answer, TypeOK
<1> HIDE DEF r
<1>3. In(replies') = In(replies) \cup {r}
  BY <1>1, <1>2, PutIn
<1> QED BY <1>1, <1>3 DEF Answered

(* Only FileHandler::run changes a real folder. *)
LEMMA OthersKeepDisk ==
  ASSUME [Next]_vars
  PROVE  disk' = disk \/ FHEntry \/ FHCheckOk
<1> USE DEF files
<1> QED
  BY DEF Next, PanelStep, MHStep, HttpStep, HttpNoFile, FHStep, vars,
     PanelUpdate, PanelReboot, WDReport, MHUpdate, MHRebootCmd, MHReboot,
     PushUpload, HttpTake, HttpNoFileFails, HttpNoFileEmpty, HttpNoFileCrash,
     HttpNoCurl, HttpWrite, HttpSuccess, HttpFailure, HttpUploaded, FHTake,
     FHCheckFail, FHInstallOk, FHInstallFail, FHReboot, Reboot, Kill

OnDisk(c) == \E f \in Folders, e \in Entries : disk[f][e] = c

(* The commands whose build may have reached a real folder. *)
InstallsOrDid(c) == fh.pc \in {"install", "countdown"} /\ c = fh.cmd

(* Nothing is on the disk of a command that was not sent, that waits to be *)
(* installed, or that failed.                                              *)
CleanDisk ==
  /\ \A c \in CmdNos : OnDisk(c) => c <= sent
  /\ \A c \in InService : OnDisk(c) => InstallsOrDid(c)
  /\ FailureLeavesNothing

LEMMA InitClean == Init => CleanDisk
<1> SUFFICES ASSUME Init PROVE CleanDisk
  OBVIOUS
<1>1. \A c \in CmdNos : ~OnDisk(c)
  BY DEF Init, OnDisk, Whole, CmdNos
<1>2. InService \subseteq CmdNos
  BY DEF InService
<1>3. replies = <<>>
  BY DEF Init
<1>4. Failed = {}
  BY <1>3 DEF Failed, In
<1> QED BY <1>1, <1>2, <1>4 DEF CleanDisk, FailureLeavesNothing

(* A command whose last step this was is no longer in service. *)
LEMMA LeavesService ==
  ASSUME TypeOK, ServiceInv, fh.pc # "idle", fh' = FHIdle,
         UNCHANGED <<msgQ, reqQ, extractQ, http>>
  PROVE  InService' \subseteq InService \ {fh.cmd}
<1>1. fh.cmd \in CmdNos /\ AtFH = {fh.cmd} /\ AtFH' = {}
  BY DEF AtFH, FHIdle, TypeOK
<1> QED BY <1>1, LastIsAlone DEF InService

(* A step that sends no command is none of the panel's updates. *)
LEMMA NothingSent ==
  ASSUME TypeOK, sent' = sent
  PROVE  ~PanelUpdate
<1>1. sent \in Nat
  BY DEF TypeOK
<1>2. PanelUpdate => sent' = sent + 1
  BY DEF PanelUpdate
<1> QED BY <1>1, <1>2

(* The commands that fail in a step. *)
LEMMA FailAdds ==
  ASSUME TypeOK, NEW c \in CmdNos, NEW ok \in BOOLEAN, Answer(c, ok)
  PROVE  Failed' \subseteq Failed \cup {c} /\ (ok => Failed' \subseteq Failed)
<1> DEFINE r == [cmd |-> c, ok |-> ok]
<1>1. r \in Reply /\ r.cmd = c /\ r.ok = ok
  BY DEF Reply
<1>2. replies' = Append(replies, r) /\ replies \in Seq(Reply)
  BY DEF Answer, TypeOK
<1> HIDE DEF r
<1>3. In(replies') = In(replies) \cup {r}
  BY <1>1, <1>2, PutIn
<1> QED BY <1>1, <1>3 DEF Failed

LEMMA EntryWritten ==
  ASSUME disk \in Contents, NEW f \in Folders, NEW e \in Entries, NEW b,
         disk' = [disk EXCEPT ![f][e] = b]
  PROVE  \A g \in Folders, d \in Entries : disk'[g][d] \in {disk[g][d], b}
BY DEF Contents

(* Steps that write no folder and answer nothing but ok, and keep exempt   *)
(* whoever was exempt.                                                     *)
LEMMA NothingWritten ==
  ASSUME TypeOK, ServiceInv, CleanDisk, [Next]_vars, ~PanelUpdate,
         \A f \in Folders, e \in Entries : disk'[f][e] \in {disk[f][e], None},
         Failed' \subseteq Failed,
         \A c \in InService' : InstallsOrDid(c) => InstallsOrDid(c)'
  PROVE  CleanDisk'
<1>1. None \notin CmdNos /\ InService' \subseteq InService /\ sent' = sent
  BY ServiceShrinks, PipelineAssumption DEF CmdNos
<1>2. InService \subseteq CmdNos /\ Failed \subseteq CmdNos
  <2>1. \A i \in DOMAIN replies : replies[i] \in Reply
    BY LenProperties DEF TypeOK
  <2>2. \A r \in Reply : r.cmd \in CmdNos
    BY DEF Reply
  <2>3. \A r \in In(replies) : r.cmd \in CmdNos
    BY <2>1, <2>2 DEF In
  <2> QED BY <2>3 DEF InService, Failed
<1>3. \A c \in CmdNos : OnDisk(c)' => OnDisk(c)
  BY <1>1 DEF OnDisk
<1>4. \A c \in CmdNos : OnDisk(c)' => c <= sent'
  BY <1>1, <1>3 DEF CleanDisk
<1>5. \A c \in InService' : OnDisk(c)' => InstallsOrDid(c)'
  BY <1>1, <1>2, <1>3 DEF CleanDisk
<1>6. FailureLeavesNothing'
  BY <1>1, <1>2 DEF CleanDisk, FailureLeavesNothing
<1> QED BY <1>4, <1>5, <1>6 DEF CleanDisk

LEMMA StepClean ==
  ASSUME PatientPanel, TypeOK, ServiceInv, InstallInv, CleanDisk, [Next]_vars
  PROVE  CleanDisk'
<1> USE PipelineAssumption DEF panel, queues, threads, files, device, seen
<1>a. None \notin CmdNos /\ InService \subseteq CmdNos /\ CmdNos \subseteq Nat
  BY DEF CmdNos, InService
<1>b. fh.pc # "idle" => fh.cmd \in CmdNos /\ fh.cmd \in InService
  BY DEF TypeOK, InService, AtFH
<1>c. Answered \cap InService \subseteq Answered /\ Failed \subseteq Answered
  BY DEF Failed, Answered
<1>1. CASE PanelUpdate
  <2>1. /\ UNCHANGED <<reqQ, extractQ, http, fh, disk, replies>>
        /\ msgQ' = Append(msgQ, sent + 1) /\ sent' = sent + 1
        /\ sent + 1 \in CmdNos /\ sent + 1 \in Msgs /\ msgQ \in Seq(Msgs)
    BY <1>1 DEF PanelUpdate, TypeOK, CmdNos, Msgs
  <2>2. In(msgQ') = In(msgQ) \cup {sent + 1}
    BY <2>1, PutIn
  <2>3. InService' \subseteq InService \cup {sent + 1}
    BY <2>1, <2>2 DEF InService, AtFH
  <2>4. ~OnDisk(sent + 1)
    <3>1. ~(sent + 1 <= sent)
      BY DEF TypeOK
    <3> QED BY <2>1, <3>1 DEF CleanDisk
  <2>5. \A c : OnDisk(c)' = OnDisk(c) /\ InstallsOrDid(c)' = InstallsOrDid(c)
    BY <2>1 DEF OnDisk, InstallsOrDid
  <2>6. \A c \in CmdNos : c <= sent => c <= sent + 1
    BY DEF TypeOK, CmdNos
  <2>7. FailureLeavesNothing'
    BY <2>1 DEF CleanDisk, FailureLeavesNothing, Failed
  <2> QED BY <2>1, <2>3, <2>4, <2>5, <2>6, <2>7 DEF CleanDisk
<1>2. CASE HttpFailure \/ HttpNoFileFails \/ FHCheckFail
  <2>1. PICK c \in InService : /\ Answer(c, FALSE) /\ ~InstallsOrDid(c)
                               /\ disk' = disk /\ fh' \in {fh, FHIdle}
                               /\ fh' # fh => ~\E d : InstallsOrDid(d)
    <3>1. CASE HttpFailure
      <4>1. http \in CmdNos /\ Answer(http, FALSE) /\ disk' = disk /\ fh' = fh
        BY <3>1 DEF HttpFailure
      <4>2. ~InstallsOrDid(http)
        BY <1>b, <4>1, LastIsAlone DEF InstallsOrDid, AtFH
      <4> QED BY <4>1, <4>2 DEF InService
    <3>2. CASE FHCheckFail
      <4>1. fh.pc = "check" /\ Answer(fh.cmd, FALSE) /\ disk' = disk /\ fh' = FHIdle
        BY <3>2 DEF FHCheckFail
      <4> QED BY <1>b, <4>1 DEF InstallsOrDid
    <3>3. CASE HttpNoFileFails
      <4>1. /\ Head(reqQ) \in CmdNos /\ reqQ # <<>> /\ reqQ \in Seq(Reqs)
            /\ Answer(Head(reqQ), FALSE) /\ disk' = disk /\ fh' = fh
        BY <3>3 DEF HttpNoFileFails, NoFile, TypeOK
      <4>2. Head(reqQ) \in In(reqQ)
        BY <4>1, TakeOut
      <4>3. ~InstallsOrDid(Head(reqQ))
        BY <1>b, <4>1, <4>2, LastIsAlone DEF InstallsOrDid, AtFH
      <4> QED BY <4>1, <4>2, <4>3 DEF InService
    <3> QED BY <1>2, <3>1, <3>2, <3>3
  <2>2. InService' \subseteq InService /\ sent' = sent
    <3>1. sent' = sent
      BY <1>2 DEF HttpFailure, HttpNoFileFails, FHCheckFail
    <3>2. ~PanelUpdate
      BY <3>1 DEF PanelUpdate, TypeOK
    <3> QED BY <3>1, <3>2, ServiceShrinks
  <2>3. Failed' \subseteq Failed \cup {c}
    BY <1>a, <2>1, FailAdds
  <2>4. ~OnDisk(c) /\ \A d : OnDisk(d)' = OnDisk(d)
    BY <2>1 DEF CleanDisk, OnDisk
  <2>5. \A d \in InService' : OnDisk(d)' => InstallsOrDid(d)'
    BY <2>1, <2>2, <2>4 DEF CleanDisk, InstallsOrDid
  <2>6. FailureLeavesNothing'
    <3>1. \A d \in Failed \cup {c}, f \in Folders, e \in Entries : disk[f][e] # d
      BY <2>4 DEF CleanDisk, FailureLeavesNothing, OnDisk
    <3> QED BY <2>1, <2>3, <3>1 DEF FailureLeavesNothing
  <2> QED BY <2>2, <2>4, <2>5, <2>6 DEF CleanDisk
<1>3. CASE FHEntry
  <2> DEFINE f == Target[fh.cmd]
  <2>1. /\ fh'.pc = fh.pc /\ fh'.cmd = fh.cmd /\ fh.cmd \in CmdNos /\ f \in Folders
        /\ fh.next \in Entries /\ UNCHANGED <<sent, replies>> /\ OwnArchive
    BY <1>3, EntryPut DEF FHEntry, InstallInv
  <2>5. \A c : InstallsOrDid(c)' = InstallsOrDid(c)
    BY <2>1 DEF InstallsOrDid
  <2>6. Failed' = Failed /\ ~PanelUpdate
    BY <2>1, NothingSent DEF Failed
  <2>7. CASE disk' = disk
    BY <2>5, <2>6, <2>7, NothingWritten
  <2>8. CASE fh.pc = "install"
    <3>0. PICK x \in {fh.cmd, None, disk[f][fh.next]} :
            disk' = [disk EXCEPT ![f] = [disk[f] EXCEPT ![fh.next] = x]]
      BY <1>3, <2>1, <2>8, EntryPut
    <3>1. \A g \in Folders, e \in Entries : disk'[g][e] \in {disk[g][e], fh.cmd, None}
      BY <2>1, <3>0 DEF TypeOK, Contents
    <3>2. fh.cmd \notin Failed /\ fh.cmd <= sent
      <4>1. fh.cmd \notin Answered
        BY <1>b, <2>8 DEF ServiceInv, AnsweredOnce
      <4>2. fh.cmd <= sent
        BY <1>b, <2>8 DEF ServiceInv, OnlySent
      <4> QED BY <1>c, <4>1, <4>2
    <3>3. InstallsOrDid(fh.cmd)
      BY <2>8 DEF InstallsOrDid
    <3>4. InService' \subseteq InService
      BY <2>6, ServiceShrinks
    <3>5. \A c \in CmdNos : OnDisk(c)' => OnDisk(c) \/ c = fh.cmd
      BY <1>a, <3>1 DEF OnDisk
    <3>6. FailureLeavesNothing'
      <4>1. Failed \subseteq CmdNos
        BY <1>c, ServiceOfNumbers
      <4> QED BY <1>a, <2>6, <3>1, <3>2, <4>1 DEF CleanDisk, FailureLeavesNothing
    <3>7. \A c \in CmdNos : OnDisk(c)' => c <= sent'
      BY <2>1, <3>2, <3>5 DEF CleanDisk
    <3>8. \A c \in InService' : OnDisk(c)' => InstallsOrDid(c)'
      BY <1>a, <2>5, <3>3, <3>4, <3>5 DEF CleanDisk
    <3> QED BY <3>6, <3>7, <3>8 DEF CleanDisk
  <2>9. fh.pc = "check" => disk' = disk
    BY <1>3, <2>1, EntryPut
  <2> QED BY <1>3, <2>7, <2>8, <2>9 DEF FHEntry, Extracting
<1>4. CASE FHCheckOk
  <2>1. /\ fh.pc = "check" /\ disk' = [disk EXCEPT ![Target[fh.cmd]] = Empty]
        /\ replies' = replies /\ sent' = sent
    BY <1>4 DEF FHCheckOk
  <2>2. \A f \in Folders, e \in Entries : disk'[f][e] \in {disk[f][e], None}
    BY <1>b, <2>1 DEF TypeOK, Contents, Empty
  <2>3. Failed' = Failed /\ ~PanelUpdate
    BY <2>1, NothingSent DEF Failed
  <2>4. \A c : ~InstallsOrDid(c)
    BY <2>1 DEF InstallsOrDid
  <2> QED BY <2>2, <2>3, <2>4, NothingWritten
<1>5. CASE FHInstallOk
  <2>1. /\ fh.pc = "install" /\ Answer(fh.cmd, TRUE) /\ UNCHANGED <<disk, sent>>
        /\ fh' = [fh EXCEPT !.pc = "countdown"]
    BY <1>5 DEF FHInstallOk
  <2>2. fh'.pc = "countdown" /\ fh'.cmd = fh.cmd
    BY <2>1, FHTyped DEF TypeOK
  <2>3. Failed' \subseteq Failed /\ ~PanelUpdate
    <3>1. Failed' \subseteq Failed
      BY <1>b, <2>1, FailAdds
    <3> QED BY <2>1, <3>1, NothingSent
  <2>4. \A c : InstallsOrDid(c) => InstallsOrDid(c)'
    BY <2>2 DEF InstallsOrDid
  <2> QED BY <2>1, <2>3, <2>4, NothingWritten
<1>6. CASE FHInstallFail \/ FHReboot
  <2>1. /\ fh.pc \in {"install", "countdown"} /\ fh' = FHIdle
        /\ UNCHANGED <<sent, msgQ, reqQ, extractQ, http, disk, replies>>
    BY <1>6 DEF FHInstallFail, FHReboot
  <2>2. InService' \subseteq InService \ {fh.cmd}
    BY <2>1, LeavesService
  <2>3. Failed' = Failed /\ ~PanelUpdate
    BY <2>1, NothingSent DEF Failed
  <2>4. \A c \in InService' : ~InstallsOrDid(c)
    BY <2>2 DEF InstallsOrDid
  <2> QED BY <2>1, <2>3, <2>4, NothingWritten
<1>7. CASE Reboot \/ Kill \/ HttpNoFileCrash
  <2>1. LoseMemory /\ UNCHANGED <<sent, disk, replies>>
    BY <1>7 DEF Reboot, Kill, HttpNoFileCrash, ClientRestarts
  <2>2. InService' = {}
    <3>1. In(<<>>) = {}
      BY DEF In
    <3> QED BY <1>a, <2>1, <3>1 DEF LoseMemory, InService, AtFH, FHIdle
  <2>3. Failed' = Failed /\ ~PanelUpdate
    BY <2>1, NothingSent DEF Failed
  <2> QED BY <2>1, <2>2, <2>3, NothingWritten
<1>8. CASE FHTake
  <2>1. /\ fh.pc = "idle" /\ UNCHANGED <<sent, disk, replies>>
    BY <1>8 DEF FHTake
  <2>2. Failed' = Failed /\ ~PanelUpdate /\ \A c : ~InstallsOrDid(c)
    BY <2>1 DEF Failed, PanelUpdate, InstallsOrDid, TypeOK
  <2> QED BY <2>1, <2>2, NothingWritten
<1>9. CASE PanelReboot \/ WDReport \/ MHStep \/ PushUpload \/ HttpTake \/ HttpNoCurl
           \/ HttpWrite \/ HttpSuccess \/ HttpUploaded \/ UNCHANGED vars
  <2>1. UNCHANGED <<sent, fh, disk, replies>>
    BY <1>9 DEF PanelReboot, WDReport, MHStep, MHUpdate, MHRebootCmd, MHReboot, PushUpload,
       HttpTake, HttpNoCurl, HttpWrite, HttpSuccess, HttpUploaded, vars
  <2>2. Failed' = Failed /\ ~PanelUpdate /\ \A c : InstallsOrDid(c)' = InstallsOrDid(c)
    BY <2>1 DEF Failed, PanelUpdate, InstallsOrDid, TypeOK
  <2> QED BY <2>1, <2>2, NothingWritten
<1> QED
  BY <1>1, <1>2, <1>3, <1>4, <1>5, <1>6, <1>7, <1>8, <1>9, NoOldArchive
  DEF Next, PanelStep, HttpStep, HttpNoFile, FHStep

(* If the panel waits, nothing of a build whose command was answered with  *)
(* failure is ever in a real folder: neither a download that ended badly   *)
(* nor an archive that cannot be extracted gets there, whatever write      *)
(* errors and kills there are.                                             *)
THEOREM FailureIsHarmless ==
  ASSUME PatientPanel
  PROVE  Spec => []FailureLeavesNothing
<1>1. TypeOK /\ ServiceInv /\ InstallInv /\ CleanDisk /\ [Next]_vars => CleanDisk'
  BY StepClean
<1>2. CleanDisk => FailureLeavesNothing
  BY DEF CleanDisk
<1> QED BY <1>1, <1>2, InitClean, AlwaysInstall, TypeCorrect, AlwaysServed, PTL DEF Spec

-----------------------------------------------------------------------------
(* One build per folder. *)

LEMMA StepOneBuild ==
  ASSUME PatientPanel, TypeOK, ServiceInv, InstallInv, OneBuildPerFolder, [Next]_vars
  PROVE  OneBuildPerFolder'
<1> USE PipelineAssumption DEF panel, queues, threads, files, device, seen
<1>a. OwnArchive /\ Extracted /\ CmdNos \subseteq Builds /\ 0 \in Builds
  BY DEF InstallInv, CmdNos, Builds
<1>1. CASE FHEntry
  <2> DEFINE f == Target[fh.cmd]
  <2>1. fh.cmd \in CmdNos /\ f \in Folders /\ fh.next \in Entries
    BY <1>1, <1>a, EntryPut
  <2>2. CASE fh.pc = "check"
    <3>1. disk' = disk
      BY <1>1, <1>a, <2>2, EntryPut
    <3> QED BY <3>1 DEF OneBuildPerFolder
  <2>3. CASE fh.pc = "install"
    <3>1. PICK x \in {fh.cmd, None, disk[f][fh.next]} :
            disk' = [disk EXCEPT ![f] = [disk[f] EXCEPT ![fh.next] = x]]
      BY <1>1, <1>a, <2>3, EntryPut
    <3>2. \A e \in Entries : disk[f][e] \in {fh.cmd, None}
      BY <1>a, <2>3 DEF Extracted
    <3>3. \A e \in Entries : disk'[f][e] \in {fh.cmd, None}
      BY <2>1, <3>1, <3>2 DEF TypeOK, Contents
    <3>4. \A g \in Folders : g = f \/ disk'[g] = disk[g]
      BY <3>1 DEF TypeOK, Contents
    <3> QED BY <1>a, <2>1, <3>3, <3>4 DEF OneBuildPerFolder
  <2> QED BY <1>1, <2>2, <2>3 DEF FHEntry, Extracting
<1>2. CASE FHCheckOk
  <2>1. disk' = [disk EXCEPT ![Target[fh.cmd]] = Empty] /\ Target[fh.cmd] \in Folders
    BY <1>2 DEF FHCheckOk, TypeOK
  <2>2. \A g \in Folders : disk'[g] = disk[g] \/ \A e \in Entries : disk'[g][e] = None
    BY <2>1 DEF TypeOK, Contents, Empty
  <2> QED BY <1>a, <2>2 DEF OneBuildPerFolder
<1>3. CASE disk' = disk
  BY <1>3 DEF OneBuildPerFolder
<1> QED BY <1>1, <1>2, <1>3, OthersKeepDisk

(* If the panel waits, no real folder ever mixes two builds: kills,        *)
(* reboots and write errors in the middle of an installation leave a part  *)
(* of one build, and the next installation starts from an empty folder.    *)
THEOREM NeverTwoBuilds ==
  ASSUME PatientPanel
  PROVE  Spec => []OneBuildPerFolder
<1>1. Init => OneBuildPerFolder
  <2>1. 0 \in Builds
    BY PipelineAssumption DEF Builds
  <2> QED BY <2>1 DEF Init, OneBuildPerFolder, Whole
<1>2. TypeOK /\ ServiceInv /\ InstallInv /\ OneBuildPerFolder /\ [Next]_vars
        => OneBuildPerFolder'
  BY StepOneBuild
<1> QED BY <1>1, <1>2, AlwaysInstall, TypeCorrect, AlwaysServed, PTL DEF Spec

-----------------------------------------------------------------------------
(* Broken folders have a cause. *)

(* An update of the folder was lost without an answer, or was flawed.      *)
LostOrFlawed(f) ==
  \E c \in 1..sent : /\ Target[c] = f
                     /\ c \in flawed \/ (c \notin Answered /\ c \notin InService)

(* A folder is broken only while it is being installed, or for a cause.    *)
BrokenHasCause ==
  /\ \A f \in Folders : running[f] = None => LostOrFlawed(f)
  /\ \A f \in Folders : BuildIn(disk[f]) = None =>
       LostOrFlawed(f) \/ (fh.pc = "install" /\ Target[fh.cmd] = f)

(* Only commands in service are answered. *)
LEMMA AnswersCome ==
  ASSUME TypeOK, ServiceInv, [Next]_vars
  PROVE  Answered' \subseteq Answered \cup InService
<1>1. CASE HttpFailure \/ HttpNoFileFails \/ FHCheckFail \/ FHInstallOk
  <2>1. PICK c \in InService, ok \in BOOLEAN : Answer(c, ok)
    <3>1. CASE HttpFailure
      BY <3>1 DEF HttpFailure, InService
    <3>2. CASE HttpNoFileFails
      <4>1. reqQ # <<>> /\ Head(reqQ) \in CmdNos /\ reqQ \in Seq(Reqs) /\ Answer(Head(reqQ), FALSE)
        BY <3>2 DEF HttpNoFileFails, NoFile, TypeOK
      <4> QED BY <4>1, TakeOut DEF InService
    <3>3. CASE FHCheckFail \/ FHInstallOk
      BY <3>3 DEF FHCheckFail, FHInstallOk, InService, AtFH, TypeOK
    <3> QED BY <1>1, <3>1, <3>2, <3>3
  <2>2. c \in CmdNos
    BY DEF InService
  <2> QED BY <2>1, <2>2, AnswersStay
<1>2. CASE ~(HttpFailure \/ HttpNoFileFails \/ FHCheckFail \/ FHInstallOk)
  <2>1. replies' = replies
    BY <1>2 DEF Next, PanelStep, MHStep, HttpStep, HttpNoFile, FHStep, vars,
       PanelUpdate, PanelReboot, WDReport, MHUpdate, MHRebootCmd, MHReboot,
       PushUpload, HttpTake, HttpNoFileEmpty, HttpNoFileCrash, HttpNoCurl,
       HttpWrite, HttpSuccess, HttpUploaded, FHTake, FHEntry, FHCheckOk,
       FHInstallFail, FHReboot, Reboot, Kill
  <2> QED BY <2>1 DEF Answered
<1> QED BY <1>1, <1>2

(* A new command is the youngest in service. *)
LEMMA ServiceGrows ==
  ASSUME TypeOK, [Next]_vars
  PROVE  /\ sent' \in {sent, sent + 1}
         /\ InService' \subseteq InService \cup {sent + 1}
<1> USE PipelineAssumption DEF panel, queues, threads, files, device, seen
<1>1. CASE PanelUpdate
  <2>1. /\ UNCHANGED <<reqQ, extractQ, http, fh>>
        /\ msgQ' = Append(msgQ, sent + 1) /\ sent' = sent + 1
        /\ sent + 1 \in Msgs /\ msgQ \in Seq(Msgs)
    BY <1>1 DEF PanelUpdate, TypeOK, CmdNos, Msgs
  <2>2. In(msgQ') = In(msgQ) \cup {sent + 1}
    BY <2>1, PutIn
  <2> QED BY <2>1, <2>2 DEF InService, AtFH
<1> QED BY <1>1, ServiceShrinks

LEMMA CauseStays ==
  ASSUME TypeOK, ServiceInv, [Next]_vars, NEW f, LostOrFlawed(f)
  PROVE  LostOrFlawed(f)'
<1>1. PICK c \in 1..sent : /\ Target[c] = f
                           /\ c \in flawed \/ (c \notin Answered /\ c \notin InService)
  BY DEF LostOrFlawed
<1>2. /\ sent' \in {sent, sent + 1} /\ sent \in Nat /\ flawed \subseteq flawed'
      /\ InService' \subseteq InService \cup {sent + 1}
      /\ Answered' \subseteq Answered \cup InService
  BY ServiceGrows, AnswersCome, FlawsStay DEF TypeOK
<1>3. c \in 1..sent' /\ c # sent + 1
  BY <1>1, <1>2
<1> QED BY <1>1, <1>2, <1>3 DEF LostOrFlawed

(* A command that leaves the service without an answer is a cause. *)
LEMMA LossIsCause ==
  ASSUME TypeOK, ServiceInv, [Next]_vars, fh.pc = "install",
         sent' = sent, replies' = replies, fh.cmd \notin InService',
         NEW f, f = Target[fh.cmd]
  PROVE  LostOrFlawed(f)'
<1>1. fh.cmd \in CmdNos /\ fh.cmd \in InService
  BY DEF TypeOK, InService, AtFH
<1>2. fh.cmd \notin Answered /\ fh.cmd <= sent
  BY <1>1 DEF ServiceInv, AnsweredOnce, OnlySent
<1>3. fh.cmd \in 1..sent'
  BY <1>1, <1>2 DEF CmdNos, TypeOK
<1>4. Answered' = Answered
  BY DEF Answered
<1> QED BY <1>2, <1>3, <1>4 DEF LostOrFlawed

(* Only a restart changes what runs. *)
LEMMA OthersKeepRunning ==
  ASSUME [Next]_vars
  PROVE  \/ running' = running
         \/ Reboot \/ Kill \/ HttpNoFileCrash
<1> USE DEF device
<1> QED
  BY DEF Next, PanelStep, MHStep, HttpStep, HttpNoFile, FHStep, vars,
     PanelUpdate, PanelReboot, WDReport, MHUpdate, MHRebootCmd, MHReboot,
     PushUpload, HttpTake, HttpNoFileFails, HttpNoFileEmpty, HttpNoCurl,
     HttpWrite, HttpSuccess, HttpFailure, HttpUploaded, FHTake, FHEntry,
     FHCheckOk, FHCheckFail, FHInstallOk, FHInstallFail, FHReboot

(* What a restart does to what runs: a folder is started anew or not.      *)
LEMMA RestartRuns ==
  ASSUME TypeOK, Reboot \/ Kill \/ HttpNoFileCrash
  PROVE  /\ LoseMemory /\ UNCHANGED <<sent, replies, disk, flawed, blind, zip>>
         /\ \A f \in Folders : running'[f] \in {running[f], BuildIn(disk[f])}
         /\ Reboot => \A f \in Folders : running'[f] = BuildIn(disk[f])
BY DEF Reboot, Kill, HttpNoFileCrash, ClientRestarts, LoseMemory, panel, files, seen, TypeOK

(* After a restart nothing is in service. *)
LEMMA RestartEmpties ==
  ASSUME LoseMemory
  PROVE  InService' = {}
<1>1. In(<<>>) = {} /\ None \notin CmdNos
  BY PipelineAssumption DEF In, CmdNos
<1> QED BY <1>1 DEF LoseMemory, InService, AtFH, FHIdle

LEMMA StepCause ==
  ASSUME PatientPanel, TypeOK, ServiceInv, InstallInv, BrokenHasCause, [Next]_vars
  PROVE  BrokenHasCause'
<1> USE PipelineAssumption DEF panel, queues, threads, files, device, seen
<1>a. OwnArchive /\ Extracted /\ CmdNos \subseteq Builds /\ None \notin Builds
  BY DEF InstallInv, CmdNos, Builds
<1>b. fh.pc # "idle" => fh.cmd \in CmdNos /\ Target[fh.cmd] \in Folders
  BY DEF TypeOK
<1>1. CASE Reboot \/ Kill \/ HttpNoFileCrash
  <2>1. /\ LoseMemory /\ UNCHANGED <<sent, replies, disk, flawed>>
        /\ \A f \in Folders : running'[f] \in {running[f], BuildIn(disk[f])}
    BY <1>1, RestartRuns
  <2>2. \A f \in Folders : fh.pc = "install" /\ Target[fh.cmd] = f => LostOrFlawed(f)'
    BY <2>1, LossIsCause, RestartEmpties
  <2>3. \A f \in Folders : BuildIn(disk[f]) = None => LostOrFlawed(f)'
    BY <2>2, CauseStays DEF BrokenHasCause
  <2>4. \A f \in Folders : running'[f] = None => LostOrFlawed(f)'
    BY <2>1, <2>3, CauseStays DEF BrokenHasCause
  <2> QED BY <2>1, <2>3, <2>4 DEF BrokenHasCause
<1>2. ASSUME running' = running,
             \A f \in Folders : BuildIn(disk'[f]) = None =>
               \/ LostOrFlawed(f)'
               \/ fh'.pc = "install" /\ Target[fh'.cmd] = f
      PROVE  BrokenHasCause'
  BY <1>2, CauseStays DEF BrokenHasCause
<1>3. CASE FHEntry
  <2> DEFINE g == Target[fh.cmd]
  <2>1. /\ fh'.pc = fh.pc /\ fh'.cmd = fh.cmd /\ fh.cmd \in CmdNos /\ g \in Folders
        /\ fh.next \in Entries /\ running' = running
    BY <1>3, <1>a, EntryPut DEF FHEntry
  <2>2. CASE fh.pc = "check"
    <3>1. disk' = disk
      BY <1>3, <1>a, <2>2, EntryPut
    <3> QED BY <1>2, <2>1, <2>2, <3>1, CauseStays DEF BrokenHasCause
  <2>3. CASE fh.pc = "install"
    <3>1. PICK x \in {fh.cmd, None, disk[g][fh.next]} :
            disk' = [disk EXCEPT ![g] = [disk[g] EXCEPT ![fh.next] = x]]
      BY <1>3, <1>a, <2>3, EntryPut
    <3>2. \A f \in Folders : f = g \/ disk'[f] = disk[f]
      BY <3>1 DEF TypeOK, Contents
    <3> QED BY <1>2, <2>1, <2>3, <3>2, CauseStays DEF BrokenHasCause
  <2> QED BY <1>3, <2>2, <2>3 DEF FHEntry, Extracting
<1>4. CASE FHCheckOk
  <2>1. /\ disk' = [disk EXCEPT ![Target[fh.cmd]] = Empty] /\ running' = running
        /\ fh.pc = "check" /\ fh'.pc = "install" /\ fh'.cmd = fh.cmd
    BY <1>4 DEF FHCheckOk
  <2>2. \A f \in Folders : f = Target[fh.cmd] \/ disk'[f] = disk[f]
    BY <2>1 DEF TypeOK, Contents
  <2> QED BY <1>2, <2>1, <2>2, CauseStays DEF BrokenHasCause
<1>5. CASE FHInstallOk
  <2>1. /\ fh.pc = "install" /\ ExtractEnds /\ UNCHANGED <<disk, running, sent>>
    BY <1>5 DEF FHInstallOk
  <2>2. BuildIn(disk[Target[fh.cmd]]) # None \/ fh.cmd \in flawed
    <3> SUFFICES ASSUME fh.cmd \notin flawed PROVE BuildIn(disk[Target[fh.cmd]]) # None
      OBVIOUS
    <3>1. \A e \in Entries : disk[Target[fh.cmd]][e] = fh.cmd
      BY <1>a, <2>1, EndMeansAll DEF Extracted
    <3>2. disk[Target[fh.cmd]] \in [Entries -> Builds \cup {None}]
      BY <1>b, <2>1 DEF TypeOK, Contents
    <3>3. disk[Target[fh.cmd]] = Whole(fh.cmd)
      BY <3>1, <3>2 DEF Whole
    <3> QED BY <1>a, <1>b, <2>1, <3>3, WholeHasBuild
  <2>3. fh.cmd \in flawed => LostOrFlawed(Target[fh.cmd])
    <3>1. fh.cmd \in CmdNos /\ fh.cmd <= sent
      BY <1>b, <2>1 DEF ServiceInv, OnlySent, InService, AtFH
    <3>2. fh.cmd \in 1..sent
      BY <3>1 DEF CmdNos, TypeOK
    <3> QED BY <3>2 DEF LostOrFlawed
  <2>4. \A f \in Folders : BuildIn(disk[f]) = None => LostOrFlawed(f)
    BY <2>1, <2>2, <2>3 DEF BrokenHasCause
  <2> QED BY <1>2, <2>1, <2>4, CauseStays
<1>6. CASE FHInstallFail
  <2>1. /\ fh.pc = "install" /\ fh' = FHIdle /\ UNCHANGED <<disk, running, sent, replies>>
        /\ UNCHANGED <<msgQ, reqQ, extractQ, http>>
    BY <1>6 DEF FHInstallFail
  <2>2. fh.cmd \notin InService'
    BY <2>1, LeavesService
  <2>3. \A f \in Folders : Target[fh.cmd] = f => LostOrFlawed(f)'
    BY <2>1, <2>2, LossIsCause
  <2> QED BY <1>2, <2>1, <2>3, CauseStays DEF BrokenHasCause
<1>7. CASE FHTake \/ FHCheckFail \/ FHReboot
  <2>1. fh.pc # "install" /\ UNCHANGED <<disk, running>>
    BY <1>7 DEF FHTake, FHCheckFail, FHReboot
  <2> QED BY <1>2, <2>1, CauseStays DEF BrokenHasCause
<1>8. CASE \/ PanelStep \/ WDReport \/ MHStep \/ PushUpload \/ HttpTake
           \/ HttpNoFileFails \/ HttpNoCurl \/ HttpWrite \/ HttpSuccess
           \/ HttpFailure \/ HttpUploaded \/ UNCHANGED vars
  <2>1. UNCHANGED <<fh, disk, running>>
    BY <1>8 DEF PanelStep, PanelUpdate, PanelReboot, WDReport, MHStep, MHUpdate,
       MHRebootCmd, MHReboot, PushUpload, HttpTake, HttpNoFileFails, HttpNoCurl,
       HttpWrite, HttpSuccess, HttpFailure, HttpUploaded, vars
  <2> QED BY <1>2, <2>1, CauseStays DEF BrokenHasCause
<1> QED BY <1>1, <1>3, <1>4, <1>5, <1>6, <1>7, <1>8, NoOldArchive
        DEF Next, HttpStep, HttpNoFile, FHStep

(* If the panel waits, a folder without a complete build at a start was    *)
(* the target of an update that got no answer, or of a flawed one: no kill,*)
(* reboot or write error makes a folder unusable behind an answer.         *)
THEOREM BrokenHasNoAnswer ==
  ASSUME PatientPanel
  PROVE  Spec => []BrokenIsUnanswered
<1>1. Init => BrokenHasCause
  <2> SUFFICES ASSUME Init PROVE BrokenHasCause
    OBVIOUS
  <2>1. 0 \in Builds /\ 0 # None /\ \A f \in Folders : disk[f] = Whole(0) /\ running[f] = 0
    BY PipelineAssumption DEF Init, Builds
  <2> QED BY <2>1, WholeHasBuild DEF BrokenHasCause
<1>2. TypeOK /\ ServiceInv /\ InstallInv /\ BrokenHasCause /\ [Next]_vars => BrokenHasCause'
  BY StepCause
<1>3. BrokenHasCause => BrokenIsUnanswered
  BY DEF BrokenHasCause, BrokenIsUnanswered, LostOrFlawed
<1> QED BY <1>1, <1>2, <1>3, AlwaysInstall, TypeCorrect, AlwaysServed, PTL DEF Spec

-----------------------------------------------------------------------------
(* What is started is newer. *)

(* A command that was taken blindly or has a newer process than what runs. *)
Fresh(c) == \/ c \in blind
            \/ \E p \in ProcsIn(Target[c]) :
                 VersionOf(running[Target[c]], p) < NewVer[c][p]

(* Only fresh commands go beyond msgQ, and only their builds get into the  *)
(* real folders; the archive file may be older while nothing is to be      *)
(* extracted.  What is not blind offers something: a folder that is not    *)
(* started counts as version 0.                                            *)
FreshOnly ==
  /\ \A c \in In(reqQ) \cap CmdNos : Fresh(c)
  /\ http \in CmdNos \/ extractQ # <<>> \/ Extracting =>
       zip.of = None \/ Fresh(zip.of)
  /\ \A f \in Folders, e \in Entries, c \in CmdNos : disk[f][e] = c =>
       /\ Target[c] = f
       /\ c \in blind \/ \E p \in ProcsIn(f) : 0 < NewVer[c][p]
       /\ c = running[f] \/ Fresh(c)

LEMMA VersionTyped ==
  /\ \A b \in Builds \cup {None}, p \in Procs : VersionOf(b, p) \in Nat
  /\ \A c \in CmdNos, p \in Procs : VersionOf(c, p) = NewVer[c][p]
  /\ \A p : VersionOf(None, p) = 0
<1>1. /\ None \notin CmdNos /\ 0 \notin CmdNos /\ Builds = CmdNos \cup {0}
      /\ NewVer \in [CmdNos -> [Procs -> Nat]] /\ ShippedVer \in Nat
  BY PipelineAssumption DEF CmdNos, Builds
<1> QED BY <1>1 DEF VersionOf

(* A command stays fresh as long as what runs stays. *)
LEMMA FreshStays ==
  ASSUME running' = running, blind \subseteq blind', NEW c, Fresh(c)
  PROVE  Fresh(c)'
BY DEF Fresh, VersionOf

LEMMA ArchiveFresh ==
  ASSUME running' = running, blind \subseteq blind',
         Fresh(zip'.of) \/ zip'.of \in blind'
  PROVE  Fresh(zip.of)'
BY DEF Fresh, VersionOf

LEMMA FreshIsPositive ==
  ASSUME TypeOK, NEW c \in CmdNos, Fresh(c), c \notin blind
  PROVE  \E p \in ProcsIn(Target[c]) : 0 < NewVer[c][p]
<1>1. PICK p \in ProcsIn(Target[c]) : VersionOf(running[Target[c]], p) < NewVer[c][p]
  BY DEF Fresh
<1>2. VersionOf(running[Target[c]], p) \in Nat /\ NewVer[c][p] \in Nat
  <2>1. p \in Procs /\ Target[c] \in Folders /\ NewVer[c][p] \in Nat
    BY PipelineAssumption DEF ProcsIn
  <2>2. running[Target[c]] \in Builds \cup {None}
    BY <2>1 DEF TypeOK
  <2> QED BY <2>1, <2>2, VersionTyped
<1> QED BY <1>1, <1>2

(* What MessageHandler::run passes on is fresh. *)
LEMMA AcceptedIsFresh ==
  ASSUME TypeOK, NEW c \in CmdNos, Accepts(c), UNCHANGED running,
         blind' = IF reported \/ Target[c] = Jabber THEN blind ELSE blind \cup {c}
  PROVE  Fresh(c)'
<1>1. CASE reported \/ Target[c] = Jabber
  <2>1. PICK p \in ProcsIn(Target[c]) : InstalledVer(p) < NewVer[c][p]
    BY DEF Accepts
  <2>2. InstalledVer(p) = VersionOf(running[Target[c]], p)
    BY <1>1 DEF InstalledVer, ProcsIn
  <2>3. Fresh(c) /\ blind' = blind
    BY <1>1, <2>1, <2>2 DEF Fresh
  <2> QED BY <2>3, FreshStays
<1>2. CASE ~(reported \/ Target[c] = Jabber)
  BY <1>2 DEF Fresh
<1> QED BY <1>1, <1>2

(* A restart: what is on the disk is started, or nothing, or it is kept.   *)
LEMMA RestartFresh ==
  ASSUME TypeOK, FreshOnly, Reboot \/ Kill \/ HttpNoFileCrash
  PROVE  FreshOnly'
<1> USE PipelineAssumption
<1>1. /\ LoseMemory /\ UNCHANGED <<disk, blind>>
      /\ \A f \in Folders : running'[f] \in {running[f], BuildIn(disk[f])}
  BY RestartRuns
<1>2. In(reqQ') = {} /\ http' \notin CmdNos /\ extractQ' = <<>> /\ ~Extracting'
  BY <1>1 DEF LoseMemory, In, CmdNos, FHIdle, Extracting
<1>3. ASSUME NEW f \in Folders, NEW e \in Entries, NEW c \in CmdNos, disk[f][e] = c
      PROVE  c = running'[f] \/ Fresh(c)'
  <2>1. /\ Target[c] = f /\ (c = running[f] \/ Fresh(c))
        /\ c \in blind \/ \E p \in ProcsIn(f) : 0 < NewVer[c][p]
    BY <1>3 DEF FreshOnly
  <2>0. CASE c = running[f] /\ running'[f] = running[f]
    BY <2>0
  <2>2. CASE Fresh(c) /\ Target[c] = f /\ running'[f] = running[f]
    <3>1. ASSUME NEW p PROVE VersionOf(running[f], p) = VersionOf(running'[f], p)
      BY <2>2
    <3>2. c \in blind \/ \E p \in ProcsIn(f) : VersionOf(running'[f], p) < NewVer[c][p]
      BY <2>2, <3>1 DEF Fresh
    <3> QED BY <1>1, <2>2, <3>2 DEF Fresh, VersionOf
  <2>3. CASE running'[f] = BuildIn(disk[f]) /\ \E b \in Builds : disk[f] = Whole(b)
    <3>1. PICK b \in Builds : disk[f] = Whole(b)
      BY <2>3
    <3>2. running'[f] = b /\ c = b
      BY <1>3, <2>3, <3>1, WholeHasBuild DEF Whole
    <3> QED BY <3>2
  <2>4. CASE running'[f] = BuildIn(disk[f]) /\ ~\E b \in Builds : disk[f] = Whole(b)
    <3>1. running'[f] = None
      BY <2>4 DEF BuildIn
    <3>2. \A p : VersionOf(running'[f], p) = 0
      BY <3>1 DEF VersionOf
    <3>3. c \in blind \/ \E p \in ProcsIn(f) : VersionOf(running'[f], p) < NewVer[c][p]
      BY <2>1, <3>2
    <3> QED BY <1>1, <2>1, <3>3 DEF Fresh, VersionOf
  <2> QED BY <1>1, <2>0, <2>1, <2>2, <2>3, <2>4
<1> QED BY <1>1, <1>2, <1>3 DEF FreshOnly

(* A step that leaves alone what is on the disk and what runs. *)
LEMMA SameFresh ==
  ASSUME FreshOnly, UNCHANGED <<running, disk>>, blind \subseteq blind',
         \A c \in In(reqQ') \cap CmdNos : c \in In(reqQ) \/ Fresh(c)',
         http' \in CmdNos \/ extractQ' # <<>> \/ Extracting' =>
           \/ zip'.of = None \/ zip'.of \in blind' \/ Fresh(zip'.of)
           \/ zip'.of = zip.of /\ (http \in CmdNos \/ extractQ # <<>> \/ Extracting)
  PROVE  FreshOnly'
<1>1. \A c : Fresh(c) => Fresh(c)'
  BY FreshStays
<1>2. \A c \in In(reqQ') \cap CmdNos : Fresh(c)'
  BY <1>1 DEF FreshOnly
<1>3. (http \in CmdNos \/ extractQ # <<>> \/ Extracting =>
       zip.of = None \/ Fresh(zip.of))'
  <2> SUFFICES ASSUME http' \in CmdNos \/ extractQ' # <<>> \/ Extracting', zip'.of # None
               PROVE  Fresh(zip.of)'
    OBVIOUS
  <2>1. zip'.of \in blind' \/ Fresh(zip'.of)
    BY DEF FreshOnly
  <2> QED BY <2>1, ArchiveFresh
<1> QED BY <1>1, <1>2, <1>3 DEF FreshOnly

LEMMA BlindStays ==
  ASSUME [Next]_vars
  PROVE  blind \subseteq blind'
<1> USE DEF seen
<1>1. CASE MHUpdate \/ HttpNoFileEmpty
  BY <1>1 DEF MHUpdate, HttpNoFileEmpty
<1>2. CASE ~(MHUpdate \/ HttpNoFileEmpty)
  BY <1>2 DEF Next, PanelStep, MHStep, HttpStep, HttpNoFile, FHStep, vars,
     PanelUpdate, PanelReboot, WDReport, MHRebootCmd, MHReboot, PushUpload,
     HttpTake, HttpNoFileFails, HttpNoFileCrash, HttpNoCurl, HttpWrite,
     HttpSuccess, HttpFailure, HttpUploaded, FHTake, FHEntry, FHCheckOk,
     FHCheckFail, FHInstallOk, FHInstallFail, FHReboot, Reboot, Kill
<1> QED BY <1>1, <1>2

LEMMA StepFresh ==
  ASSUME TypeOK, FreshOnly, [Next]_vars
  PROVE  FreshOnly'
<1> USE PipelineAssumption DEF panel, queues, threads, files, device, seen
<1>a. /\ msgQ \in Seq(Msgs) /\ reqQ \in Seq(Reqs) /\ extractQ \in Seq(CmdNos)
      /\ None \notin CmdNos /\ Upload \notin CmdNos /\ Upload \in Reqs
      /\ blind \subseteq blind'
  BY BlindStays DEF TypeOK, CmdNos, Reqs
<1>1. CASE MHUpdate
  <2> DEFINE c == Head(msgQ)
  <2>1. /\ UNCHANGED <<running, disk, http, extractQ, fh, zip>> /\ c \in CmdNos
        /\ \/ reqQ' = reqQ
           \/ /\ reqQ' = Append(reqQ, c) /\ Accepts(c)
              /\ blind' = IF reported \/ Target[c] = Jabber THEN blind ELSE blind \cup {c}
    BY <1>1 DEF MHUpdate
  <2>2. In(Append(reqQ, c)) = In(reqQ) \cup {c}
    <3>1. c \in Reqs
      BY <2>1 DEF Reqs
    <3> QED BY <1>a, <3>1, PutIn
  <2>3. ASSUME NEW d \in In(reqQ') \cap CmdNos, d \notin In(reqQ)
        PROVE  Fresh(d)'
    <3>1. /\ d = c /\ Accepts(d)
          /\ blind' = IF reported \/ Target[d] = Jabber THEN blind ELSE blind \cup {d}
      BY <2>1, <2>2, <2>3
    <3> QED BY <2>1, <3>1, AcceptedIsFresh
  <2> QED BY <1>a, <2>1, <2>3, SameFresh DEF Extracting
<1>2. CASE PushUpload
  <2>1. /\ UNCHANGED <<running, disk, http, extractQ, fh, zip>>
        /\ reqQ' = Append(reqQ, Upload)
    BY <1>2 DEF PushUpload
  <2>2. In(reqQ') = In(reqQ) \cup {Upload}
    BY <1>a, <2>1, PutIn
  <2> QED BY <1>a, <2>1, <2>2, SameFresh DEF Extracting
<1>3. CASE HttpTake
  <2>1. /\ UNCHANGED <<running, disk, extractQ, fh>> /\ reqQ # <<>> /\ reqQ' = Tail(reqQ)
        /\ http' = Head(reqQ)
        /\ zip' = IF Head(reqQ) \in CmdNos THEN [of |-> Head(reqQ), len |-> 0] ELSE zip
    BY <1>3 DEF HttpTake
  <2>2. Head(reqQ) \in In(reqQ) /\ In(reqQ') \subseteq In(reqQ)
    BY <1>a, <2>1, TakeOut
  <2>3. Head(reqQ) \in CmdNos => Fresh(Head(reqQ))
    BY <2>2 DEF FreshOnly
  <2>4. CASE Head(reqQ) \in CmdNos
    <3>1. zip'.of = Head(reqQ)
      BY <2>1, <2>4
    <3>2. Fresh(zip'.of)
      BY <2>3, <2>4, <3>1
    <3> QED BY <1>a, <2>1, <2>2, <3>2, SameFresh
  <2>5. CASE Head(reqQ) \notin CmdNos
    BY <1>a, <2>1, <2>2, <2>5, SameFresh DEF Extracting
  <2> QED BY <2>4, <2>5
<1>4. CASE HttpNoFileFails \/ HttpNoCurl
  <2>1. /\ UNCHANGED <<running, disk, http, extractQ, fh, zip>>
        /\ reqQ # <<>> /\ reqQ' = Tail(reqQ)
    BY <1>4 DEF HttpNoFileFails, HttpNoCurl, NoFile
  <2>2. In(reqQ') \subseteq In(reqQ)
    BY <1>a, <2>1, TakeOut
  <2> QED BY <1>a, <2>1, <2>2, SameFresh DEF Extracting
<1>5. CASE HttpNoFileEmpty
  <2>1. /\ UNCHANGED <<running, disk, http, fh, zip>>
        /\ reqQ # <<>> /\ reqQ' = Tail(reqQ)
        /\ blind' = blind \cup ({zip.of} \cap CmdNos)
    BY <1>5 DEF HttpNoFileEmpty, NoFile
  <2>2. In(reqQ') \subseteq In(reqQ)
    BY <1>a, <2>1, TakeOut
  <2>3. zip'.of = None \/ zip'.of \in blind'
    BY <2>1 DEF TypeOK, Archive
  <2> QED BY <1>a, <2>1, <2>2, <2>3, SameFresh
<1>6. CASE HttpSuccess \/ HttpWrite \/ HttpUploaded
  <2>1. /\ UNCHANGED <<running, disk, reqQ, fh>> /\ zip'.of = zip.of
        /\ http' \in CmdNos \/ extractQ' # <<>> =>
             http \in CmdNos \/ extractQ # <<>>
    <3>1. CASE HttpSuccess
      BY <1>a, <3>1 DEF HttpSuccess
    <3>2. CASE HttpWrite
      BY <3>2 DEF HttpWrite, TypeOK, Archive
    <3>3. CASE HttpUploaded
      BY <1>a, <3>3 DEF HttpUploaded
    <3> QED BY <1>6, <3>1, <3>2, <3>3
  <2> QED BY <1>a, <2>1, SameFresh DEF Extracting
<1>7. CASE HttpFailure
  <2>1. /\ UNCHANGED <<running, disk, reqQ, fh, extractQ>> /\ zip'.of \in {zip.of, None}
        /\ http' \notin CmdNos
    BY <1>a, <1>7 DEF HttpFailure
  <2> QED BY <1>a, <2>1, SameFresh DEF Extracting
<1>8. CASE FHTake
  <2>1. /\ UNCHANGED <<running, disk, reqQ, zip, http>> /\ extractQ # <<>>
    BY <1>8 DEF FHTake
  <2> QED BY <1>a, <2>1, SameFresh
<1>9. CASE FHEntry
  <2> DEFINE f == Target[zip.of]
             c == zip.of
  <2>1. /\ UNCHANGED <<running, reqQ, zip, http, extractQ, blind>> /\ Extracting
        /\ fh.next <= zip.len
        /\ \/ disk' = disk
           \/ \E x \in {c, None} : disk' = [disk EXCEPT ![f][fh.next] = x]
    BY <1>9 DEF FHEntry, PutEntry
  <2>2. zip.of \in CmdNos /\ f \in Folders
    BY <2>1 DEF TypeOK, Archive, FHState
  <2>3. Fresh(c)
    BY <1>a, <2>1, <2>2 DEF FreshOnly
  <2>4. \A g \in Folders, e \in Entries :
          disk'[g][e] \in {disk[g][e], None} \/ (g = f /\ disk'[g][e] = c)
    <3>1. CASE disk' = disk
      BY <3>1
    <3>2. ASSUME NEW x \in {c, None}, disk' = [disk EXCEPT ![f][fh.next] = x]
          PROVE  \A g \in Folders, e \in Entries :
                   disk'[g][e] \in {disk[g][e], None} \/ (g = f /\ disk'[g][e] = c)
      <4>1. disk \in [Folders -> [Entries -> Builds \cup {None}]]
        BY DEF TypeOK, Contents
      <4> HIDE DEF f, c
      <4> QED BY <2>2, <3>2, <4>1
    <3> QED BY <2>1, <3>1, <3>2
  <2>5. ASSUME NEW g \in Folders, NEW e \in Entries, NEW d \in CmdNos, disk'[g][e] = d
        PROVE  /\ Target[d] = g
               /\ d \in blind \/ \E p \in ProcsIn(g) : 0 < NewVer[d][p]
               /\ d = running[g] \/ Fresh(d)
    <3>1. disk[g][e] = d \/ (g = f /\ d = c)
      BY <1>a, <2>4, <2>5
    <3>2. CASE disk[g][e] = d
      BY <3>2 DEF FreshOnly
    <3>3. CASE g = f /\ d = c
      BY <2>2, <2>3, <3>3, FreshIsPositive
    <3> QED BY <3>1, <3>2, <3>3
  <2>6. \A d : Fresh(d) => Fresh(d)'
    BY <2>1, FreshStays
  <2>7. (\A g \in Folders, e \in Entries, d \in CmdNos : disk[g][e] = d =>
           /\ Target[d] = g
           /\ d \in blind \/ \E p \in ProcsIn(g) : 0 < NewVer[d][p]
           /\ d = running[g] \/ Fresh(d))'
    BY <2>1, <2>5, <2>6
  <2>8. Fresh(zip.of)'
    BY <2>1, <2>3, <2>6, ArchiveFresh
  <2> QED BY <2>1, <2>6, <2>7, <2>8 DEF FreshOnly
<1>10. CASE FHCheckOk
  <2>1. /\ UNCHANGED <<running, reqQ, zip, http, extractQ, blind>> /\ Extracting
        /\ disk' = [disk EXCEPT ![Target[fh.cmd]] = Empty]
    BY <1>10 DEF FHCheckOk, Extracting
  <2>2. \A g \in Folders, e \in Entries : disk'[g][e] \in {disk[g][e], None}
    BY <2>1 DEF TypeOK, Contents, Empty
  <2>3. \A d : Fresh(d) => Fresh(d)'
    BY <2>1, FreshStays
  <2>4. (\A g \in Folders, e \in Entries, d \in CmdNos : disk[g][e] = d =>
           /\ Target[d] = g
           /\ d \in blind \/ \E p \in ProcsIn(g) : 0 < NewVer[d][p]
           /\ d = running[g] \/ Fresh(d))'
    <3>1. \A g \in Folders, e \in Entries, d \in CmdNos :
            disk'[g][e] = d => disk[g][e] = d
      BY <1>a, <2>2
    <3> QED BY <2>1, <2>3, <3>1 DEF FreshOnly
  <2>5. zip'.of = None \/ Fresh(zip.of)'
    BY <2>1, ArchiveFresh DEF FreshOnly
  <2> QED BY <2>1, <2>3, <2>4, <2>5 DEF FreshOnly
<1>11. CASE FHCheckFail \/ FHInstallOk \/ FHInstallFail \/ FHReboot
  <2>1. /\ UNCHANGED <<running, disk, reqQ, zip, http, extractQ>> /\ ~Extracting'
    <3>1. CASE FHCheckFail  BY <3>1 DEF FHCheckFail, FHIdle, Extracting
    <3>2. CASE FHInstallOk
      BY <3>2, FHTyped DEF FHInstallOk, TypeOK, Extracting
    <3>3. CASE FHInstallFail  BY <3>3 DEF FHInstallFail, FHIdle, Extracting
    <3>4. CASE FHReboot  BY <3>4 DEF FHReboot, FHIdle, Extracting
    <3> QED BY <1>11, <3>1, <3>2, <3>3, <3>4
  <2> QED BY <1>a, <2>1, SameFresh
<1>12. CASE Reboot \/ Kill \/ HttpNoFileCrash
  BY <1>12, RestartFresh
<1>13. CASE PanelStep \/ WDReport \/ MHRebootCmd \/ MHReboot \/ UNCHANGED vars
  <2>1. UNCHANGED <<running, disk, reqQ, zip, http, extractQ, fh>>
    BY <1>13 DEF PanelStep, PanelUpdate, PanelReboot, WDReport, MHRebootCmd, MHReboot, vars
  <2> QED BY <1>a, <2>1, SameFresh DEF Extracting
<1> QED
  BY <1>1, <1>2, <1>3, <1>4, <1>5, <1>6, <1>7, <1>8, <1>9, <1>10, <1>11, <1>12, <1>13
  DEF Next, MHStep, HttpStep, HttpNoFile, FHStep

(* Whatever the panel sends and whatever fails, a build that a restart     *)
(* starts has a process that is newer than the one that ran before, unless *)
(* its command came before the first version report or its archive was     *)
(* extracted again for another command: the comparison in smartMeterUpdate *)
(* and its siblings is still good when the build is started, although the  *)
(* restart comes later and other commands are served in between.           *)
THEOREM NewerIsStarted == Spec => OnlyNewerIsStarted
<1> DEFINE Started ==
      \A f \in Folders :
        running'[f] \in CmdNos \ blind /\ running'[f] # running[f] =>
          \E p \in ProcsIn(f) : VersionOf(running[f], p) < VersionOf(running'[f], p)
<1>1. Init => FreshOnly
  <2> SUFFICES ASSUME Init PROVE FreshOnly
    OBVIOUS
  <2>1. In(reqQ) = {} /\ http \notin CmdNos /\ extractQ = <<>> /\ ~Extracting
    BY PipelineAssumption DEF Init, In, CmdNos, FHIdle, Extracting
  <2>2. \A f \in Folders, e \in Entries : disk[f][e] \notin CmdNos
    BY DEF Init, Whole, CmdNos
  <2> QED BY <2>1, <2>2 DEF FreshOnly
<1>2. TypeOK /\ FreshOnly /\ [Next]_vars => FreshOnly'
  BY StepFresh
<1>3. TypeOK /\ FreshOnly /\ [Next]_vars => [Started]_vars
  <2> SUFFICES ASSUME TypeOK, FreshOnly, [Next]_vars, NEW f \in Folders,
                      running'[f] \in CmdNos, running'[f] \notin blind,
                      running'[f] # running[f]
               PROVE  \E p \in ProcsIn(f) :
                        VersionOf(running[f], p) < VersionOf(running'[f], p)
    OBVIOUS
  <2>1. Reboot \/ Kill \/ HttpNoFileCrash
    BY OthersKeepRunning
  <2>2. running'[f] = BuildIn(disk[f])
    BY <2>1, RestartRuns
  <2>3. disk[f] = Whole(running'[f])
    <3>1. running'[f] # None
      BY PipelineAssumption DEF CmdNos
    <3> QED BY <2>2, <3>1 DEF BuildIn
  <2>4. 1 \in Entries /\ disk[f][1] = running'[f]
    BY <2>3, PipelineAssumption DEF Entries, Whole
  <2>5. Target[running'[f]] = f /\ Fresh(running'[f])
    BY <2>4 DEF FreshOnly
  <2> QED BY <2>5, VersionTyped DEF Fresh, ProcsIn
<1> QED BY <1>1, <1>2, <1>3, TypeCorrect, PTL DEF Spec, OnlyNewerIsStarted

-----------------------------------------------------------------------------
(* No command is forgotten but for a cause. *)

(* What MessageHandler::run passed on and is not yet done with. *)
Accepted == (In(reqQ) \cup {http} \cup In(extractQ) \cup AtFH) \cap CmdNos

(* The sleep(30) of FileHandler::run follows the answer. *)
AnswerFirst == fh.pc = "countdown" => fh.cmd \in Answered

LEMMA HeadAndTail ==
  ASSUME NEW S, NEW q \in Seq(S), q # <<>>
  PROVE  In(q) \subseteq {Head(q)} \cup In(Tail(q))
<1>1. /\ Len(q) \in Nat /\ DOMAIN q = 1..Len(q) /\ q[1] = Head(q)
      /\ Len(Tail(q)) = Len(q) - 1
      /\ \A i \in 1..Len(Tail(q)) : Tail(q)[i] = q[i + 1]
  BY HeadTailProperties, EmptySeq, LenProperties
<1>2. ASSUME NEW i \in DOMAIN q, i # 1
      PROVE  q[i] \in In(Tail(q))
  <2>1. i - 1 \in 1..Len(Tail(q)) /\ Tail(q)[i - 1] = q[(i - 1) + 1] /\ (i - 1) + 1 = i
    BY <1>1, <1>2
  <2>2. DOMAIN Tail(q) = 1..Len(Tail(q))
    BY HeadTailProperties, EmptySeq, LenProperties
  <2> QED BY <2>1, <2>2 DEF In
<1> QED BY <1>1, <1>2 DEF In

LEMMA StepAnswerFirst ==
  ASSUME TypeOK, AnswerFirst, [Next]_vars
  PROVE  AnswerFirst'
<1> USE PipelineAssumption DEF panel, queues, threads, files, device, seen
<1>1. CASE FHInstallOk
  <2>1. /\ fh.pc = "install" /\ fh.cmd \in CmdNos /\ Answer(fh.cmd, TRUE)
        /\ fh' = [fh EXCEPT !.pc = "countdown"]
    BY <1>1 DEF FHInstallOk, TypeOK
  <2>2. fh'.cmd = fh.cmd
    BY <2>1, FHTyped DEF TypeOK
  <2> QED BY <2>1, <2>2, AnswersStay DEF AnswerFirst
<1>2. CASE HttpFailure
  <2>1. http \in CmdNos /\ Answer(http, FALSE) /\ fh' = fh
    BY <1>2 DEF HttpFailure
  <2> QED BY <2>1, AnswersStay DEF AnswerFirst
<1>5. CASE HttpNoFileFails
  <2>1. Head(reqQ) \in CmdNos /\ Answer(Head(reqQ), FALSE) /\ fh' = fh
    BY <1>5 DEF HttpNoFileFails, NoFile
  <2> QED BY <2>1, AnswersStay DEF AnswerFirst
<1>3. CASE \/ FHTake \/ FHEntry \/ FHCheckOk \/ FHCheckFail \/ FHInstallFail \/ FHReboot
           \/ Reboot \/ Kill \/ HttpNoFileCrash
  <2>1. fh'.pc # "countdown"
    <3>1. CASE FHTake  BY <3>1 DEF FHTake
    <3>2. CASE FHEntry
      <4>1. fh' = [fh EXCEPT !.next = @ + 1] /\ fh \in FHState /\ fh.pc # "countdown"
        BY <3>2 DEF FHEntry, Extracting, TypeOK
      <4> QED BY <4>1 DEF FHState
    <3>3. CASE FHCheckOk  BY <3>3 DEF FHCheckOk
    <3>4. CASE FHCheckFail  BY <3>4 DEF FHCheckFail, FHIdle
    <3>5. CASE FHInstallFail  BY <3>5 DEF FHInstallFail, FHIdle
    <3>6. CASE FHReboot  BY <3>6 DEF FHReboot, FHIdle
    <3>7. CASE Reboot \/ Kill \/ HttpNoFileCrash
      BY <3>7 DEF Reboot, Kill, HttpNoFileCrash, ClientRestarts, LoseMemory, FHIdle
    <3> QED BY <1>3, <3>1, <3>2, <3>3, <3>4, <3>5, <3>6, <3>7
  <2> QED BY <2>1 DEF AnswerFirst
<1>4. CASE \/ PanelStep \/ WDReport \/ MHStep \/ PushUpload \/ HttpTake \/ HttpNoCurl
           \/ HttpNoFileEmpty \/ HttpWrite \/ HttpSuccess \/ HttpUploaded \/ UNCHANGED vars
  <2>1. UNCHANGED <<fh, replies>>
    BY <1>4 DEF PanelStep, PanelUpdate, PanelReboot, WDReport, MHStep, MHUpdate,
       MHRebootCmd, MHReboot, PushUpload, HttpTake, HttpNoFileEmpty, HttpNoCurl,
       HttpWrite, HttpSuccess, HttpUploaded, vars
  <2> QED BY <2>1 DEF AnswerFirst, Answered
<1> QED BY <1>1, <1>2, <1>3, <1>4, <1>5 DEF Next, HttpStep, HttpNoFile, FHStep

(* What ends the service of a command without an answer: curl cannot be    *)
(* initialised, data cannot be written into the real folder, the device is *)
(* rebooted, the watchdog kills the client, or the client crashes because  *)
(* it cannot open the archive file.                                        *)
Losses == \/ HttpNoCurl
          \/ FHInstallFail /\ "write" \in Faults
          \/ Reboot
          \/ Kill
          \/ HttpNoFileCrash

(* Whatever is done next, an accepted command is still in a queue or with  *)
(* a thread, or has its answer.                                            *)
LEMMA StepKeeps ==
  ASSUME TypeOK, InstallInv, AnswerFirst, [Next]_vars, ~Losses
  PROVE  Accepted \subseteq Accepted' \cup Answered'
<1> USE PipelineAssumption DEF panel, queues, threads, files, device, seen
<1>a. /\ msgQ \in Seq(Msgs) /\ reqQ \in Seq(Reqs) /\ extractQ \in Seq(CmdNos)
      /\ None \notin CmdNos /\ Upload \notin CmdNos
  BY DEF TypeOK, CmdNos
<1>1. CASE PanelStep \/ WDReport \/ MHRebootCmd \/ MHReboot \/ HttpWrite \/ UNCHANGED vars
  <2>1. UNCHANGED <<reqQ, http, extractQ, fh>>
    BY <1>1 DEF PanelStep, PanelUpdate, PanelReboot, WDReport, MHRebootCmd, MHReboot,
       HttpWrite, vars
  <2> QED BY <2>1 DEF Accepted, AtFH
<1>2. CASE MHUpdate \/ PushUpload
  <2>1. /\ UNCHANGED <<http, extractQ, fh>>
        /\ reqQ' = reqQ \/ \E x \in Reqs : reqQ' = Append(reqQ, x)
    <3>1. CASE MHUpdate  BY <3>1 DEF MHUpdate, Reqs
    <3>2. CASE PushUpload  BY <3>2 DEF PushUpload, Reqs
    <3> QED BY <1>2, <3>1, <3>2
  <2>2. In(reqQ) \subseteq In(reqQ')
    <3>1. \A x \in Reqs : In(reqQ) \subseteq In(Append(reqQ, x))
      BY <1>a, PutIn
    <3> QED BY <2>1, <3>1
  <2> QED BY <2>1, <2>2 DEF Accepted, AtFH
<1>3. CASE HttpTake
  <2>1. /\ http = None /\ http' = Head(reqQ) /\ reqQ # <<>> /\ reqQ' = Tail(reqQ)
        /\ UNCHANGED <<extractQ, fh>>
    BY <1>3 DEF HttpTake
  <2>2. In(reqQ) \subseteq {http'} \cup In(reqQ')
    BY <1>a, <2>1, HeadAndTail
  <2> QED BY <1>a, <2>1, <2>2 DEF Accepted, AtFH
<1>13. CASE HttpNoFileFails
  <2>1. /\ Head(reqQ) \in CmdNos /\ Answer(Head(reqQ), FALSE)
        /\ reqQ # <<>> /\ reqQ' = Tail(reqQ) /\ UNCHANGED <<http, extractQ, fh>>
    BY <1>13 DEF HttpNoFileFails, NoFile
  <2>2. In(reqQ) \subseteq {Head(reqQ)} \cup In(reqQ')
    BY <1>a, <2>1, HeadAndTail
  <2>3. Head(reqQ) \in Answered'
    BY <2>1, AnswersStay
  <2> QED BY <2>1, <2>2, <2>3 DEF Accepted, AtFH
<1>14. CASE HttpNoFileEmpty
  <2>1. /\ Head(reqQ) \in CmdNos /\ extractQ' = Append(extractQ, Head(reqQ))
        /\ reqQ # <<>> /\ reqQ' = Tail(reqQ) /\ UNCHANGED <<http, fh>>
    BY <1>14 DEF HttpNoFileEmpty, NoFile
  <2>2. In(reqQ) \subseteq {Head(reqQ)} \cup In(reqQ')
    BY <1>a, <2>1, HeadAndTail
  <2>3. In(extractQ') = In(extractQ) \cup {Head(reqQ)}
    BY <1>a, <2>1, PutIn
  <2> QED BY <2>1, <2>2, <2>3 DEF Accepted, AtFH
<1>4. CASE HttpSuccess
  <2>1. http \in CmdNos /\ extractQ' = Append(extractQ, http) /\ UNCHANGED <<reqQ, fh>>
    BY <1>4 DEF HttpSuccess
  <2>2. In(extractQ') = In(extractQ) \cup {http}
    BY <1>a, <2>1, PutIn
  <2> QED BY <2>1, <2>2 DEF Accepted, AtFH
<1>5. CASE HttpFailure
  <2>1. http \in CmdNos /\ Answer(http, FALSE) /\ UNCHANGED <<reqQ, extractQ, fh>>
    BY <1>5 DEF HttpFailure
  <2>2. http \in Answered'
    BY <2>1, AnswersStay
  <2> QED BY <2>1, <2>2 DEF Accepted, AtFH
<1>6. CASE HttpUploaded
  <2>1. http = Upload /\ UNCHANGED <<reqQ, extractQ, fh>>
    BY <1>6 DEF HttpUploaded
  <2> QED BY <1>a, <2>1 DEF Accepted, AtFH
<1>7. CASE FHTake
  <2>1. /\ fh.pc = "idle" /\ fh'.pc = "check" /\ fh'.cmd = Head(extractQ)
        /\ extractQ # <<>> /\ extractQ' = Tail(extractQ) /\ UNCHANGED <<reqQ, http>>
    BY <1>7 DEF FHTake
  <2>2. AtFH = {} /\ AtFH' = {Head(extractQ)}
    BY <2>1 DEF AtFH
  <2>3. In(extractQ) \subseteq AtFH' \cup In(extractQ')
    BY <1>a, <2>1, <2>2, HeadAndTail
  <2> QED BY <2>1, <2>2, <2>3 DEF Accepted
<1>8. CASE FHEntry \/ FHCheckOk \/ FHInstallOk
  <2>1. /\ fh.pc # "idle" /\ fh'.pc # "idle" /\ fh'.cmd = fh.cmd
        /\ UNCHANGED <<reqQ, http, extractQ>>
    <3>1. CASE FHEntry
      <4>1. /\ fh' = [fh EXCEPT !.next = @ + 1] /\ fh \in FHState /\ fh.pc # "idle"
            /\ UNCHANGED <<reqQ, http, extractQ>>
        BY <3>1 DEF FHEntry, Extracting, TypeOK
      <4> QED BY <4>1 DEF FHState
    <3>2. CASE FHCheckOk  BY <3>2 DEF FHCheckOk
    <3>3. CASE FHInstallOk
      <4>1. /\ fh' = [fh EXCEPT !.pc = "countdown"] /\ fh.pc = "install"
            /\ UNCHANGED <<reqQ, http, extractQ>>
        BY <3>3 DEF FHInstallOk
      <4> QED BY <4>1, FHTyped DEF TypeOK
    <3> QED BY <1>8, <3>1, <3>2, <3>3
  <2> QED BY <2>1 DEF Accepted, AtFH
<1>9. CASE FHCheckFail
  <2>1. /\ fh.pc = "check" /\ fh.cmd \in CmdNos /\ Answer(fh.cmd, FALSE)
        /\ UNCHANGED <<reqQ, http, extractQ>>
    BY <1>9 DEF FHCheckFail, TypeOK
  <2>2. AtFH = {fh.cmd} /\ fh.cmd \in Answered'
    BY <2>1, AnswersStay DEF AtFH
  <2> QED BY <2>1, <2>2 DEF Accepted
<1>10. CASE FHInstallFail
  \* the second extraction can read what the first could
  <2>1. fh.pc = "install" /\ ReadError
    BY <1>10 DEF FHInstallFail, ExtractFails, Losses
  <2> QED BY <2>1, InstallReads
<1>11. CASE FHReboot
  <2>1. fh.pc = "countdown" /\ UNCHANGED <<reqQ, http, extractQ, replies>>
    BY <1>11 DEF FHReboot
  <2>2. AtFH = {fh.cmd} /\ fh.cmd \in Answered'
    BY <2>1 DEF AtFH, AnswerFirst, Answered
  <2> QED BY <2>1, <2>2 DEF Accepted
<1> QED
  BY <1>1, <1>2, <1>3, <1>4, <1>5, <1>6, <1>7, <1>8, <1>9, <1>10, <1>11, <1>13,
     <1>14
  DEF Next, MHStep, HttpStep, HttpNoFile, FHStep, Losses

(* If the panel waits, a command that MessageHandler::run passed on is in  *)
(* a queue or with a thread until it is answered; no step loses it but the *)
(* five of Losses.  In particular no bad download or archive does, and the *)
(* second extraction fails only when data cannot be written.  With         *)
(* WorkersComeToRest and NothingIsStuck this is why every accepted command *)
(* is answered when none of the five happens.                              *)
THEOREM AcceptedAreKept ==
  ASSUME PatientPanel
  PROVE  Spec => [][Accepted \subseteq Accepted' \cup Answered' \/ Losses]_vars
<1>1. Init => AnswerFirst
  BY DEF Init, FHIdle, AnswerFirst
<1>2. TypeOK /\ AnswerFirst /\ [Next]_vars => AnswerFirst'
  BY StepAnswerFirst
<1>3. TypeOK /\ InstallInv /\ AnswerFirst /\ [Next]_vars
        => [Accepted \subseteq Accepted' \cup Answered' \/ Losses]_vars
  BY StepKeeps
<1> QED BY <1>1, <1>2, <1>3, AlwaysInstall, TypeCorrect, PTL DEF Spec
=============================================================================
