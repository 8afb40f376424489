--------------------------- MODULE UpdatePipeline ---------------------------
(***************************************************************************)
(* The software-update service of the client.  An update command of the    *)
(* control panel passes three threads, each with a work queue in front:    *)
(*                                                                         *)
(*   panel -> msgQ -> MessageHandler -> reqQ -> HttpClient                 *)
(*         -> extractQ -> FileHandler -> answer to the panel, reboot       *)
(*                                                                         *)
(* The threads share one archive file, Downloads/new_update.zip: HttpClient*)
(* truncates and fills it, FileHandler reads it twice, first into a folder *)
(* under Downloads (the check) and then over the real folder (the install).*)
(* A queue is a sequence with atomic push and pop; MonitorQueue shows that *)
(* the mutex and condition variable code provides exactly that.            *)
(*                                                                         *)
(* A build of a folder is named by the number of the command that brought  *)
(* it, and by 0 for what the device was shipped with.  It holds a version  *)
(* of each process of the folder.  An archive and a folder have N entries. *)
(***************************************************************************)
EXTENDS Integers, Sequences

CONSTANTS MaxCmd,       \* update commands are numbered 1..MaxCmd
          N,            \* entries of an archive
          Folders,      \* the folders that can be updated
          Jabber,       \* the folder of this client
          Procs,        \* the processes that run on the device
          Home,         \* the folder of a process
          Target,       \* the folder a command updates
          NewVer,       \* the version a command offers of a process
          ShippedVer,   \* the version every process was shipped with
          None,         \* no command, no build, no entry
          RebootCmd,    \* the reboot_system command in msgQ
          Upload,       \* a log upload in reqQ
          Discipline,   \* when the panel sends the next command
          Faults,       \* what may go wrong
          MaxRebootCmds, MaxUploads, MaxKills   \* bounds

CmdNos == 1..MaxCmd
Builds == 0..MaxCmd
Entries == 1..N
ProcsIn(f) == {p \in Procs : Home[p] = f}

AllFaults == {"curl", "download", "badzip", "badentry", "emptyzip", "fopen",
              "write", "kill", "udp"}

ASSUME PipelineAssumption ==
  /\ MaxCmd \in Nat
  /\ N \in Nat \ {0}
  /\ Jabber \in Folders
  /\ Home \in [Procs -> Folders]
  /\ \E p \in Procs : ProcsIn(Jabber) = {p}
  /\ Target \in [CmdNos -> Folders]
  /\ NewVer \in [CmdNos -> [Procs -> Nat]]
  /\ ShippedVer \in Nat \ {0}
  /\ None \notin Int
  /\ RebootCmd \notin Int
  /\ Upload \notin Int
  /\ None # Upload
  /\ Discipline \in {"free", "await_reply", "orderly"}
  /\ Faults \subseteq AllFaults
  /\ MaxRebootCmds \in Nat
  /\ MaxUploads \in Nat
  /\ MaxKills \in Nat

VARIABLES
  sent,       \* panel: the number of the last update command sent
  rebootCmds, \* panel: how many reboot_system commands it sent
  msgQ,       \* MessageHandler::msgQ
  mh,         \* MessageHandler::run: "idle" or in the sleep of reboot()
  reported,   \* has the watchdog's version reply been parsed since start-up?
  reqQ,       \* HttpClient::reqQ
  http,       \* HttpClient::run: the request being performed, or None
  uploads,    \* log uploads pushed so far
  zip,        \* new_update.zip: whose archive, and how many entries of it
  extractQ,   \* FileHandler::msgQ
  fh,         \* FileHandler::run: where it is, for which command, next entry
  tmp,        \* the folders under Downloads/
  disk,       \* the real folders
  running,    \* the build of each folder that was started at boot, or None
  up,         \* is the client running?
  rebootReq,  \* has the watchdog got a reboot datagram?
  kills,      \* how often the watchdog killed the client
  replies,    \* the answers to update commands sent to the panel
  flawed,     \* observation: the commands whose archive had no entry, or of
              \* which extract() passed over an entry
  blind       \* observation: the commands accepted before the first version
              \* report, or whose archive is extracted once more for another

queues   == <<msgQ, reqQ, extractQ>>
threads  == <<mh, http, fh>>
panel    == <<sent, rebootCmds>>
files    == <<zip, tmp, disk>>
device   == <<running, up, rebootReq, kills>>
seen     == <<flawed, blind>>
vars == <<sent, rebootCmds, msgQ, mh, reported, reqQ, http, uploads, zip,
          extractQ, fh, tmp, disk, running, up, rebootReq, kills, replies,
          flawed, blind>>

FHIdle == [pc |-> "idle", cmd |-> None, next |-> 1]
Empty  == [e \in Entries |-> None]
Whole(b) == [e \in Entries |-> b]
Msgs   == CmdNos \cup {RebootCmd}
Reqs   == CmdNos \cup {Upload}
Reply  == [cmd : CmdNos, ok : BOOLEAN]
Archive == [of : CmdNos \cup {None}, len : 0..N]
FHState == [pc : {"idle", "check", "install", "countdown"},
            cmd : CmdNos \cup {None}, next : 1..N+1]
Contents == [Folders -> [Entries -> Builds \cup {None}]]

(* The build a folder holds, if it holds all of one build. *)
BuildIn(dir) == IF \E b \in Builds : dir = Whole(b)
                  THEN CHOOSE b \in Builds : dir = Whole(b) ELSE None

(* The version of a process in a build; what is not there has version 0. *)
VersionOf(b, p) ==
  IF b = None THEN 0 ELSE IF b = 0 THEN ShippedVer ELSE NewVer[b][p]

TypeOK ==
  /\ sent \in 0..MaxCmd
  /\ rebootCmds \in 0..MaxRebootCmds
  /\ msgQ \in Seq(Msgs)
  /\ mh \in {"idle", "countdown"}
  /\ reported \in BOOLEAN
  /\ reqQ \in Seq(Reqs)
  /\ http \in CmdNos \cup {Upload, None}
  /\ uploads \in 0..MaxUploads
  /\ zip \in Archive
  /\ extractQ \in Seq(CmdNos)
  /\ fh \in FHState
  /\ tmp \in Contents
  /\ disk \in Contents
  /\ running \in [Folders -> Builds \cup {None}]
  /\ up \in BOOLEAN
  /\ rebootReq \in BOOLEAN
  /\ kills \in 0..MaxKills
  /\ replies \in Seq(Reply)
  /\ flawed \subseteq CmdNos
  /\ blind \subseteq CmdNos
  \* control state and data agree
  /\ zip.of = None => zip.len = 0
  /\ fh.pc # "idle" => fh.cmd \in CmdNos
  /\ http \in CmdNos => zip.of = http

Init ==
  /\ sent = 0
  /\ rebootCmds = 0
  /\ msgQ = <<>>
  /\ mh = "idle"
  /\ reported = FALSE
  /\ reqQ = <<>>
  /\ http = None
  /\ uploads = 0
  /\ zip = [of |-> None, len |-> 0]
  /\ extractQ = <<>>
  /\ fh = FHIdle
  /\ tmp = [f \in Folders |-> Empty]
  /\ disk = [f \in Folders |-> Whole(0)]
  /\ running = [f \in Folders |-> 0]
  /\ up = TRUE
  /\ rebootReq = FALSE
  /\ kills = 0
  /\ replies = <<>>
  /\ flawed = {}
  /\ blind = {}

-----------------------------------------------------------------------------
(* The commands in a queue, with FileHandler::run, anywhere in the service *)
In(q) == {q[i] : i \in DOMAIN q}
AtFH == IF fh.pc = "idle" THEN {} ELSE {fh.cmd}
InService == (AtFH \cup In(extractQ) \cup {http} \cup In(reqQ) \cup In(msgQ))
             \cap CmdNos

-----------------------------------------------------------------------------
(* The control panel (external).  It numbers its update commands           *)
(* increasingly; Discipline says what it waits for before the next one:    *)
(* for nothing; for the answer to each, or so long that nothing of it is   *)
(* left; or until the device has settled.                                  *)

Answers(c) == {r \in {replies[i] : i \in DOMAIN replies} : r.cmd = c}

Quiet == /\ msgQ = <<>> /\ reqQ = <<>> /\ extractQ = <<>>
         /\ mh = "idle" /\ http = None /\ fh.pc = "idle"
         /\ ~rebootReq

MaySend ==
  /\ Discipline = "await_reply" => \A c \in InService : Answers(c) # {}
  /\ Discipline = "orderly" => Quiet /\ reported

PanelUpdate ==
  /\ up
  /\ sent < MaxCmd
  /\ MaySend
  /\ sent' = sent + 1
  /\ msgQ' = Append(msgQ, sent + 1)
  /\ UNCHANGED <<rebootCmds, mh, reported, reqQ, http, uploads, extractQ, fh,
                 files, device, replies, seen>>

PanelReboot ==
  /\ up
  /\ rebootCmds < MaxRebootCmds
  /\ MaySend
  /\ rebootCmds' = rebootCmds + 1
  /\ msgQ' = Append(msgQ, RebootCmd)
  /\ UNCHANGED <<sent, mh, reported, reqQ, http, uploads, extractQ, fh, files,
                 device, replies, seen>>

-----------------------------------------------------------------------------
(* The watchdog's version reply, parsed by wdogRespThread.  Only the first *)
(* report since start-up counts: getVerForProc takes the first match.      *)
WDReport ==
  /\ up
  /\ reported' = TRUE
  /\ UNCHANGED <<panel, queues, threads, uploads, files, device, replies,
                 seen>>

-----------------------------------------------------------------------------
(* MessageHandler::run *)

(* The client knows its own version; any other is 0 until reported. *)
InstalledVer(p) ==
  IF Home[p] = Jabber \/ reported THEN VersionOf(running[Home[p]], p) ELSE 0

(* Mutant of Accepts: any other version is taken. *)
AcceptsOther(c) == \E p \in ProcsIn(Target[c]) : InstalledVer(p) # NewVer[c][p]

(* One process that gets newer is enough; the others may get older. *)
Accepts(c) == \E p \in ProcsIn(Target[c]) : InstalledVer(p) < NewVer[c][p]

(* smartMeterUpdate, jabberClientUpdate, watchDogUpdate: a command that    *)
(* brings nothing newer is dropped without an answer.                      *)
MHUpdate ==
  /\ up /\ mh = "idle"
  /\ msgQ # <<>> /\ Head(msgQ) \in CmdNos
  /\ msgQ' = Tail(msgQ)
  /\ LET c == Head(msgQ)
     IN \/ /\ Accepts(c)
           /\ reqQ' = Append(reqQ, c)
           /\ blind' = IF reported \/ Target[c] = Jabber THEN blind
                                                        ELSE blind \cup {c}
        \/ ~Accepts(c) /\ UNCHANGED <<reqQ, blind>>
  /\ UNCHANGED <<panel, mh, reported, http, uploads, extractQ, fh, files,
                 device, replies, flawed>>

(* reboot() up to its sleep(30) *)
MHRebootCmd ==
  /\ up /\ mh = "idle"
  /\ msgQ # <<>> /\ Head(msgQ) = RebootCmd
  /\ msgQ' = Tail(msgQ)
  /\ mh' = "countdown"
  /\ UNCHANGED <<panel, reported, reqQ, http, uploads, extractQ, fh, files,
                 device, replies, seen>>

(* Utils::sendPacket to the watchdog; a datagram may be lost. *)
SendReboot ==
  \/ rebootReq' = TRUE
  \/ "udp" \in Faults /\ UNCHANGED rebootReq

(* the rest of reboot() *)
MHReboot ==
  /\ up /\ mh = "countdown"
  /\ mh' = "idle"
  /\ SendReboot
  /\ UNCHANGED <<panel, queues, reported, http, uploads, fh, files, running,
                 up, kills, replies, seen>>

(* HttpClient::uploadLogs, called by the log thread whenever the log is    *)
(* full or its upload was asked for, and by wdogRespThread.                *)
PushUpload ==
  /\ up
  /\ uploads < MaxUploads
  /\ uploads' = uploads + 1
  /\ reqQ' = Append(reqQ, Upload)
  /\ UNCHANGED <<panel, msgQ, reported, extractQ, threads, files, device,
                 replies, seen>>

-----------------------------------------------------------------------------
(* The end of the process: everything in memory is lost, a file stays as   *)
(* it is.  The watchdog (external) starts the client again.                *)
LoseMemory ==
  /\ msgQ' = <<>> /\ reqQ' = <<>> /\ extractQ' = <<>>
  /\ mh' = "idle" /\ http' = None /\ fh' = FHIdle
  /\ reported' = FALSE
  /\ up' = (running'[Jabber] # None)

ClientRestarts ==
  /\ running' = [running EXCEPT ![Jabber] = BuildIn(disk[Jabber])]
  /\ LoseMemory

Answer(c, ok) == replies' = Append(replies, [cmd |-> c, ok |-> ok])

-----------------------------------------------------------------------------
(* HttpClient::run *)

(* Mutant of HttpTake: the file is not opened anew. *)
HttpTakeNoOpen ==
  /\ up /\ http = None /\ reqQ # <<>>
  /\ reqQ' = Tail(reqQ)
  /\ http' = Head(reqQ)
  /\ UNCHANGED <<panel, msgQ, mh, reported, uploads, extractQ, fh, files,
                 device, replies, seen>>

(* A download truncates the archive file before the transfer starts. *)
HttpTake ==
  /\ up /\ http = None /\ reqQ # <<>>
  /\ reqQ' = Tail(reqQ)
  /\ http' = Head(reqQ)
  /\ zip' = IF Head(reqQ) \in CmdNos THEN [of |-> Head(reqQ), len |-> 0] ELSE zip
  /\ UNCHANGED <<panel, msgQ, mh, reported, uploads, extractQ, fh, tmp, disk,
                 device, replies, seen>>

(* fopen fails, and write_function would write to a null pointer.  Nothing *)
(* is received then: either there is no connection, or the request ends    *)
(* well without a body, with what the file held before, or the first byte  *)
(* of a body ends the process.                                             *)
NoFile == /\ "fopen" \in Faults
          /\ up /\ http = None /\ reqQ # <<>> /\ Head(reqQ) \in CmdNos

HttpNoFileFails ==
  /\ NoFile
  /\ "download" \in Faults
  /\ reqQ' = Tail(reqQ)
  /\ Answer(Head(reqQ), FALSE)
  /\ UNCHANGED <<panel, msgQ, extractQ, threads, reported, uploads, files,
                 device, seen>>

HttpNoFileEmpty ==
  /\ NoFile
  /\ "emptyzip" \in Faults
  /\ reqQ' = Tail(reqQ)
  /\ extractQ' = Append(extractQ, Head(reqQ))
  /\ flawed' = flawed \cup {Head(reqQ)}
  /\ blind' = blind \cup ({zip.of} \cap CmdNos)
  /\ UNCHANGED <<panel, msgQ, threads, reported, uploads, files, device,
                 replies>>

HttpNoFileCrash ==
  /\ NoFile
  /\ ClientRestarts
  /\ UNCHANGED <<panel, uploads, files, rebootReq, kills, replies, seen>>

HttpNoFile == HttpNoFileFails \/ HttpNoFileEmpty \/ HttpNoFileCrash

(* curl_easy_init fails: the request is deleted and nobody is told. *)
HttpNoCurl ==
  /\ "curl" \in Faults
  /\ up /\ http = None /\ reqQ # <<>>
  /\ reqQ' = Tail(reqQ)
  /\ UNCHANGED <<panel, msgQ, mh, reported, http, uploads, extractQ, fh,
                 files, device, replies, seen>>

(* write_function *)
HttpWrite ==
  /\ up /\ http \in CmdNos /\ zip.len < N
  /\ zip' = [zip EXCEPT !.len = @ + 1]
  /\ UNCHANGED <<panel, queues, reported, threads, uploads, tmp, disk, device,
                 replies, seen>>

(* The transfer ended well: curl and the status line say so.  The body may *)
(* still be a damaged archive, or nothing at all.                          *)
BodyReceived ==
  \/ zip.len = N
  \/ "badzip" \in Faults /\ 0 < zip.len
  \/ "emptyzip" \in Faults /\ zip.len = 0

(* Mutant of HttpSuccess: the newest archive is extracted first. *)
HttpSuccessInFront ==
  /\ up /\ http \in CmdNos /\ BodyReceived
  /\ http' = None
  /\ extractQ' = <<http>> \o extractQ
  /\ UNCHANGED <<panel, msgQ, reqQ, mh, reported, uploads, fh, files, device,
                 replies, seen>>

(* onDownloadSuccess: FileHandler::pushToQ *)
HttpSuccess ==
  /\ up /\ http \in CmdNos /\ BodyReceived
  /\ http' = None
  /\ extractQ' = Append(extractQ, http)
  /\ flawed' = IF zip.len = 0 THEN flawed \cup {http} ELSE flawed
  /\ UNCHANGED <<panel, msgQ, reqQ, mh, reported, uploads, fh, files, device,
                 replies, blind>>

(* Mutant of HttpFailure: what was received is passed on all the same. *)
HttpFailureGoesOn ==
  /\ "download" \in Faults
  /\ up /\ http \in CmdNos
  /\ http' = None
  /\ extractQ' = Append(extractQ, http)
  /\ Answer(http, FALSE)
  /\ UNCHANGED <<panel, msgQ, reqQ, mh, reported, uploads, fh, files, device,
                 seen>>

(* The file keeps what was received, or holds the body of an error page.   *)
HttpFailure ==
  /\ "download" \in Faults
  /\ up /\ http \in CmdNos
  /\ http' = None
  /\ zip' \in {zip, [of |-> None, len |-> 0]}
  /\ Answer(http, FALSE)
  /\ UNCHANGED <<panel, queues, mh, reported, uploads, fh, tmp, disk, device,
                 seen>>

(* A log upload ends, well or not; its answer bears no command number.     *)
HttpUploaded ==
  /\ up /\ http = Upload
  /\ http' = None
  /\ UNCHANGED <<panel, queues, mh, reported, uploads, fh, files, device,
                 replies, seen>>

-----------------------------------------------------------------------------
(* FileHandler::run *)

(* Mutant of FHTake: the real folder is removed before the check. *)
FHTakeRemoves ==
  /\ up /\ fh.pc = "idle" /\ extractQ # <<>>
  /\ extractQ' = Tail(extractQ)
  /\ fh' = [pc |-> "check", cmd |-> Head(extractQ), next |-> 1]
  /\ tmp' = [tmp EXCEPT ![Target[Head(extractQ)]] = Empty]
  /\ disk' = [disk EXCEPT ![Target[Head(extractQ)]] = Empty]
  /\ UNCHANGED <<panel, msgQ, mh, reported, reqQ, http, uploads, zip, device,
                 replies, seen>>

(* Take the request and remove its folder under Downloads/. *)
FHTake ==
  /\ up /\ fh.pc = "idle" /\ extractQ # <<>>
  /\ extractQ' = Tail(extractQ)
  /\ fh' = [pc |-> "check", cmd |-> Head(extractQ), next |-> 1]
  /\ tmp' = [tmp EXCEPT ![Target[Head(extractQ)]] = Empty]
  /\ UNCHANGED <<panel, msgQ, mh, reported, reqQ, http, uploads, zip, disk,
                 device, replies, seen>>

Extracting == fh.pc \in {"check", "install"}

(* extract() reads the archive as it is at that moment, not as it was when *)
(* it was opened.  After the last entry, and in a file without any byte,   *)
(* archive_read_next_header says EOF; in a file that ends before the       *)
(* archive does, or is no archive, it fails.                               *)
AtEOF == fh.next = N + 1 \/ (fh.next = 1 /\ zip.of # None /\ zip.len = 0)
ReadError == fh.next <= N /\ zip.len < fh.next /\ ~AtEOF

(* Mutant of FHEntry: chdir is forgotten, the check writes the real folder. *)
FHEntryNoChdir ==
  /\ up /\ Extracting /\ fh.next <= zip.len
  /\ fh' = [fh EXCEPT !.next = @ + 1]
  /\ disk' = [disk EXCEPT ![Target[zip.of]][fh.next] = zip.of]
  /\ UNCHANGED <<panel, queues, mh, reported, http, uploads, zip, tmp, device,
                 replies, seen>>

(* What extract() makes of the entry it is at: into the folder under       *)
(* Downloads/ for the check, into the real one for the installation.       *)
PutEntry(x) ==
  LET f == Target[zip.of]
  IN \/ /\ fh.pc = "check"
        /\ tmp' = [tmp EXCEPT ![f][fh.next] = x]
        /\ UNCHANGED disk
     \/ /\ fh.pc = "install"
        /\ disk' = [disk EXCEPT ![f][fh.next] = x]
        /\ UNCHANGED tmp

(* One round of the loop in extract().  An entry whose header cannot be    *)
(* written is passed over, and one whose data libarchive warns of (a bad   *)
(* checksum) is left damaged: the error is printed and the loop goes on.   *)
FHEntry ==
  /\ up /\ Extracting /\ fh.next <= zip.len
  /\ fh' = [fh EXCEPT !.next = @ + 1]
  /\ \/ PutEntry(zip.of) /\ UNCHANGED flawed
     \/ /\ "badentry" \in Faults
        /\ flawed' = flawed \cup {fh.cmd}
        /\ UNCHANGED <<tmp, disk>> \/ PutEntry(None)
  /\ UNCHANGED <<panel, queues, mh, reported, http, uploads, zip, device,
                 replies, blind>>

(* extract() gives up: it cannot read on, or data cannot be written.       *)
ExtractFails == Extracting /\ (ReadError \/ "write" \in Faults)

(* Mutant of ExtractEnds: a read error leaves the loop as the end does. *)
ExtractEndsAnyhow == Extracting /\ (AtEOF \/ ReadError)

ExtractEnds == Extracting /\ AtEOF

(* Mutant of FHCheckOk: the answer is sent before the installation. *)
FHCheckOkAnswers ==
  /\ up /\ fh.pc = "check" /\ ExtractEnds
  /\ disk' = [disk EXCEPT ![Target[fh.cmd]] = Empty]
  /\ fh' = [pc |-> "install", cmd |-> fh.cmd, next |-> 1]
  /\ Answer(fh.cmd, TRUE)
  /\ UNCHANGED <<panel, queues, mh, reported, http, uploads, zip, tmp, device,
                 seen>>

(* Mutant of FHCheckOk: the real folder is not removed. *)
FHCheckOkKeeps ==
  /\ up /\ fh.pc = "check" /\ ExtractEnds
  /\ fh' = [pc |-> "install", cmd |-> fh.cmd, next |-> 1]
  /\ UNCHANGED <<panel, queues, mh, reported, http, uploads, files, device,
                 replies, seen>>

(* The check went well: the real folder is removed.                        *)
FHCheckOk ==
  /\ up /\ fh.pc = "check" /\ ExtractEnds
  /\ disk' = [disk EXCEPT ![Target[fh.cmd]] = Empty]
  /\ fh' = [pc |-> "install", cmd |-> fh.cmd, next |-> 1]
  /\ UNCHANGED <<panel, queues, mh, reported, http, uploads, zip, tmp, device,
                 replies, seen>>

(* Mutant of FHCheckFail: no answer. *)
FHCheckFailSilent ==
  /\ up /\ fh.pc = "check" /\ ExtractFails
  /\ fh' = FHIdle
  /\ UNCHANGED <<panel, queues, mh, reported, http, uploads, files, device,
                 replies, seen>>

FHCheckFail ==
  /\ up /\ fh.pc = "check" /\ ExtractFails
  /\ Answer(fh.cmd, FALSE)
  /\ fh' = FHIdle
  /\ UNCHANGED <<panel, queues, mh, reported, http, uploads, files, device,
                 seen>>

FHInstallOk ==
  /\ up /\ fh.pc = "install" /\ ExtractEnds
  /\ Answer(fh.cmd, TRUE)
  /\ fh' = [fh EXCEPT !.pc = "countdown"]
  /\ UNCHANGED <<panel, queues, mh, reported, http, uploads, files, device,
                 seen>>

(* The second extract() fails: there is no else branch. *)
FHInstallFail ==
  /\ up /\ fh.pc = "install" /\ ExtractFails
  /\ fh' = FHIdle
  /\ UNCHANGED <<panel, queues, mh, reported, http, uploads, files, device,
                 replies, seen>>

(* Mutant of FHReboot: nothing is sent to the watchdog. *)
FHRebootForgets ==
  /\ up /\ fh.pc = "countdown"
  /\ fh' = FHIdle
  /\ UNCHANGED <<panel, queues, mh, reported, http, uploads, files, device,
                 replies, seen>>

(* after sleep(30) *)
FHReboot ==
  /\ up /\ fh.pc = "countdown"
  /\ fh' = FHIdle
  /\ SendReboot
  /\ UNCHANGED <<panel, queues, mh, reported, http, uploads, files, running,
                 up, kills, replies, seen>>

-----------------------------------------------------------------------------
(* The watchdog (external) reboots the device when asked to, and kills and *)
(* restarts a client it gets no heartbeat from.                            *)

Reboot ==
  /\ rebootReq
  /\ rebootReq' = FALSE
  /\ running' = [f \in Folders |-> BuildIn(disk[f])]
  /\ LoseMemory
  /\ UNCHANGED <<panel, uploads, files, kills, replies, seen>>

Kill ==
  /\ "kill" \in Faults
  /\ up /\ kills < MaxKills
  /\ kills' = kills + 1
  /\ ClientRestarts
  /\ UNCHANGED <<panel, uploads, files, rebootReq, replies, seen>>

-----------------------------------------------------------------------------
PanelStep == PanelUpdate \/ PanelReboot
MHStep    == MHUpdate \/ MHRebootCmd \/ MHReboot
HttpStep  == HttpTake \/ HttpNoFile \/ HttpNoCurl \/ HttpWrite \/ HttpSuccess
             \/ HttpFailure \/ HttpUploaded
FHStep    == FHTake \/ FHEntry \/ FHCheckOk \/ FHCheckFail \/ FHInstallOk
             \/ FHInstallFail \/ FHReboot

Next == \/ PanelStep \/ WDReport \/ MHStep \/ PushUpload \/ HttpStep \/ FHStep
        \/ Reboot \/ Kill

Spec == Init /\ [][Next]_vars

(* A thread with work goes on; a transfer ends some time (there is no      *)
(* timeout in the code, so this is asked of the server); the watchdog      *)
(* answers and reboots.                                                    *)
Fairness == /\ WF_vars(MHStep) /\ WF_vars(HttpStep) /\ WF_vars(FHStep)
            /\ WF_vars(WDReport) /\ WF_vars(Reboot)

FairSpec == Spec /\ Fairness

-----------------------------------------------------------------------------
(* The order of the commands in the service *)

Held(x) == {x} \cap CmdNos

(* Every command in the set A is older than every command in B. *)
Older(A, B) == \A a \in A \cap CmdNos, b \in B \cap CmdNos : a < b

(* The update commands of a queue stand in the order they were sent in.    *)
Ordered(q) == \A i, j \in DOMAIN q :
                i < j /\ q[i] \in CmdNos /\ q[j] \in CmdNos => q[i] < q[j]

(* Commands go through the service in the order they were sent in: from    *)
(* the panel through the three queues to FileHandler::run none overtakes   *)
(* another and none is in two places.                                      *)
InOrder ==
  /\ Ordered(msgQ) /\ Ordered(reqQ) /\ Ordered(extractQ)
  /\ Older(AtFH, In(extractQ))
  /\ Older(AtFH \cup In(extractQ), {http})
  /\ Older(AtFH \cup In(extractQ) \cup {http}, In(reqQ))
  /\ Older(AtFH \cup In(extractQ) \cup {http} \cup In(reqQ), In(msgQ))

Answered == {r.cmd : r \in In(replies)}

(* No command is answered twice, and none is still to be worked on after   *)
(* its answer; only its reboot may be outstanding (the sleep(30) that      *)
(* follows the answer in FileHandler::run).                                *)
AnsweredOnce ==
  /\ \A i, j \in DOMAIN replies : i # j => replies[i].cmd # replies[j].cmd
  /\ \A c \in Answered \cap InService : fh.pc = "countdown" /\ c = fh.cmd

-----------------------------------------------------------------------------
(* What an answer says about the folders *)

Succeeded == {r.cmd : r \in {r \in In(replies) : r.ok}}
Failed    == {r.cmd : r \in {r \in In(replies) : ~r.ok}}

(* When FileHandler::run answers a command with success, the real folder   *)
(* holds all of the build the command brought and nothing else; of an      *)
(* archive with a flaw it may hold less.                                   *)
SuccessMeansInstalled ==
  [][\A c \in CmdNos : c \in Succeeded' \ Succeeded =>
       disk[Target[c]] = Whole(c) \/ c \in flawed]_vars

(* Of a build whose command was answered with failure (HttpClient::run or  *)
(* the failed check of FileHandler::run), nothing is in a real folder.     *)
FailureLeavesNothing ==
  \A c \in Failed, f \in Folders, e \in Entries : disk[f][e] # c

(* A real folder is only written when the archive was extracted under      *)
(* Downloads/ before and as a whole: the check FileHandler::run makes.     *)
(* Only what extract() prints and passes over, and a body without any      *)
(* byte, gets by it; what cannot be read or written does not.              *)
CheckedBeforeInstall ==
  fh.pc = "install" => /\ ~ReadError
                       /\ tmp[Target[fh.cmd]] = Whole(fh.cmd) \/ fh.cmd \in flawed

(* The archive that FileHandler::run extracts is that of its own request,  *)
(* and HttpClient::run is not writing to it.                               *)
ArchiveIsOwn == Extracting => zip.of = fh.cmd /\ http \notin CmdNos

(* No real folder mixes two builds, whenever a kill, a reboot or a write   *)
(* error ended its installation and whatever was installed later:          *)
(* FileHandler::run removes the folder before it extracts into it.         *)
OneBuildPerFolder ==
  \A f \in Folders : \E b \in Builds :
    \A e \in Entries : disk[f][e] \in {b, None}

(* If a folder had no complete build when the device booted or the         *)
(* watchdog restarted the client, the panel sent an update of that folder  *)
(* to which it got no answer (a kill, a reboot, a write error or a lost    *)
(* request in between), or the archive of one had a flaw.                  *)
BrokenIsUnanswered ==
  \A f \in Folders : running[f] = None =>
    \E c \in 1..sent : Target[c] = f /\ (c \notin Answered \/ c \in flawed)

(* What a restart starts for the first time has a process that is newer    *)
(* than the one that ran before (the comparison in smartMeterUpdate and    *)
(* its siblings), unless its command came before the first version report  *)
(* or the archive file could not be opened for another.  The comparison is *)
(* made when the command comes; other builds may be installed and started  *)
(* between it and the restart.                                             *)
OnlyNewerIsStarted ==
  [][\A f \in Folders :
       running'[f] \in CmdNos \ blind /\ running'[f] # running[f] =>
         \E p \in ProcsIn(f) :
           VersionOf(running[f], p) < VersionOf(running'[f], p)]_vars

(* A restart never starts an older version of a process than the one       *)
(* before.                                                                 *)
NeverGoesBack ==
  [][\A p \in Procs :
       VersionOf(running[Home[p]], p) <= VersionOf(running'[Home[p]], p)]_vars

(* What the folders hold, and the command whose build is being installed.  *)
Installed == [f \in Folders |-> BuildIn(disk[f])]
Installing == IF fh.pc = "install" THEN fh.cmd ELSE None

(* To a panel that waits, the three threads, their queues and the archive  *)
(* look like one worker that does what UpdateService says.                 *)
Service == INSTANCE UpdateService
             WITH folder <- Installed, busy <- Installing
ImplementsService == Service!Spec

-----------------------------------------------------------------------------
(* What eventually happens *)

(* A command that MessageHandler::run passed on is answered. *)
AcceptedIsAnswered ==
  \A c \in CmdNos : c \in In(reqQ) ~> c \in Answered

(* A build whose command was answered with success, or one that came       *)
(* later, is started by a reboot.                                          *)
SuccessIsStarted ==
  \A c \in CmdNos : c \in Succeeded ~>
    running[Target[c]] # None /\ running[Target[c]] >= c
=============================================================================
