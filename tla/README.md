# Formal models of the SGN smart meter client

The program under `src/` is the XMPP client that runs on a Raspberry Pi next to
a smart meter: it takes commands from a control panel, installs software
updates, uploads logs and keeps the watchdog of the device informed. This
directory holds TLA+ models of it, TLC configurations that check them on small
instances, and theorems about them that TLAPS checks for every instance.

How to run: `tlc -config X.cfg M` for a run (the pairs are in the table
below), `tlapm M.tla` for a proof module.

## 1. The system

One process, several threads, each component a singleton:

| component | thread | state | operations |
|---|---|---|---|
| `JabberClient` | main: `xmpp_run` | libstrophe context and connection | `connect`, `xmppShutDown`, `sendMsgTo`, `sendPresence`, `message_handler`, `conn_handler` |
| `MessageHandler` | `run` | `msgQ` | `pushToQ`, one handler per command, download callbacks |
| heartbeat | `heartBeat` | - | every 25 s a message to the own JID |
| watchdog receiver | `wdogRespThread` | UDP socket 4952 | version reports, watchdog logs |
| `Config` | none (called) | `curVersions`, XMPP account | `parseCurVersions`, `getVerForProc` |
| `HttpClient` | `run` | `reqQ`, the archive file | three kinds of download, log upload |
| `FileHandler` | `run` | `msgQ`, folders on disk | check, remove, install, answer, ask for reboot |
| `Logger` | `run` | `ss_log`, `bTime`, `logQ` | `<<`, `uploadLogs` |
| `JsonFactory`, `Utils` | none | reference counts | JSON, UDP, cryptography |

Outside: the control panel, the XMPP server, the watchdog (UDP port 4951: gets
heartbeats, answers version requests, kills and restarts processes, reboots
the device), the HTTP server, libcurl, libarchive, the file system.

How they interact. Commands arrive in the main thread and are pushed to
`MessageHandler::msgQ`. Its thread pushes downloads to `HttpClient::reqQ`;
when a download is done `HttpClient::run` pushes an extract request to
`FileHandler::msgQ`; that thread extracts the archive and answers the panel.
The archive `Downloads/new_update.zip` is a file the two last threads share
without a lock. All threads write the log; the log thread pushes uploads to
`reqQ`. Every queue is a `std::queue` behind one mutex and one condition
variable.

What is hard here: three asynchronous hand-overs with a shared file, failures
between the removal of a folder and its replacement, reboots and kills at any
moment, waits on condition variables, versions that are unknown until the
watchdog has answered, and answers that must be given on every path. The list
with lines is `hazards` in `PROJECT.json`.

What makes each component correct:

- queues: no lost or duplicated message, order kept, never a pop from an empty
  queue, no sleeping over work;
- update service: order of commands, at most one answer and eventually one,
  no installation without a complete trial extraction, success means
  installed, failure means untouched, a folder never mixes builds and is
  broken only behind an update that got no answer, a restart starts nothing
  that has no newer process;
- versions: what the client believes was heard of the process or lent to it by
  a gap in a report, and nothing newer than that is refused;
- log: nothing that was written is lost or doubled on its way to the upload
  requests, every line is stamped once, locks are nested in one order only, the log does not feed itself;
- session: no context is freed twice, left behind or used after it was freed;
  a lost session comes back;
- heartbeat: a client that works is not killed, one that lost its session is.

## 2. Modules

| module | what it is | proofs |
|---|---|---|
| `Fifo` | abstract specification of a work queue: delivered once, in order | |
| `MonitorQueue` | mutex, condition variable and queue as the code uses them | `MonitorQueueProofs` |
| `UpdateService` | abstract specification of the updates: one worker that answers | |
| `UpdatePipeline` | panel, `MessageHandler`, `HttpClient`, `FileHandler`, disk, watchdog: a whole update | `UpdatePipelineProofs`, `UpdateInstallProofs`, `UpdateDiskProofs` |
| `MCUpdatePipeline` | the commands of the TLC instances | |
| `Versions` | version reports, `Config`'s table, the comparison with a command, packets with gaps, reference counts | `VersionsProofs` |
| `MCVersions` | the reports and commands of the TLC instance | |
| `LogStream` | the log, its locks, `uploadLogs`, the log thread, the lines that uploads cause | `LogStreamProofs` |
| `XmppSession` | the life of the libstrophe contexts, `main()`, reconnecting | `XmppSessionProofs` |
| `HeartBeat` | heartbeat, `reboot()` and watchdog as clocks | `HeartBeatProofs` |

The models share the threads and differ in what they look at. `UpdatePipeline`,
`Versions` and `LogStream` use queues as sequences with atomic push and pop:
that `MonitorQueue` implements `Fifo` is what justifies it. `HeartBeat` takes
from `XmppSession` that a lost session stays lost. `UpdatePipeline` takes a
command to be well formed and versions to be known once the watchdog has
reported; what happens otherwise is the subject of `Versions`.

### MonitorQueue

Four classes contain the same code; the module follows
`MessageHandler::pushToQ` and the head of `MessageHandler::run`. `owner` is the
mutex; `ppc` and `cpc` say at which call a producer or the consumer is;
`pushed` and `taken` are observations. Each pthread call and each access to the
queue is an action. `pthread_cond_wait` is `TestEmpty` (release and sleep in
one step) and a wake-up, signalled (`"roused"`) or not (`"unsure"`), after
which the mutex is taken again; since the code tests with `if`, the pop follows
without another test. A pop from an empty queue is undefined behaviour: the
consumer stops in `"undefined"` and nothing is claimed of it from there.

### UpdatePipeline and UpdateService

Every variable and what it stands for is listed in the module. The main
abstractions:

- A command is its number, the panel counts up (`notes.txt`: "increment this
  command-no for every new request of any type"). `Target` says which folder it
  updates, `NewVer` which version it offers of each process. The folder of the
  client has one process, others may have several (`Home`): `Accepts` is the
  loop of `smartMeterUpdate`, for which one newer process is enough. The
  watchdog, which that loop skips, has a folder and a command of its own.
- The XMPP session is taken to be up while the client runs: a command that is
  sent is received, and an answer that is sent counts as given.
- A build is the number of its command, 0 is what was shipped. An archive is
  `[of, len]`: whose archive it is and how many of its `N` entries are in the
  file. A folder maps entries to builds, so mixtures and gaps can be seen.
- `HttpTake` truncates the file, `HttpWrite` adds an entry, `HttpSuccess` may
  also end a transfer whose body is damaged (`badzip`) or empty (`emptyzip`).
  If the file cannot be opened (`fopen`) the old one stays: the transfer fails
  (`HttpNoFileFails`), ends without a body, after which the old archive is
  extracted once more (`HttpNoFileEmpty`), or the first byte is written to a
  null pointer and the process ends (`HttpNoFileCrash`).
- `FHEntry` is one round of the loop in `extract()`; the file is read as it is
  at that moment. `AtEOF` and `ReadError` are what `archive_read_next_header`
  answers: a truncated archive is an error. With `badentry` in `Faults` an entry
  may also be passed over, as after `archive_write_header` failed, or be left
  damaged, as when libarchive only warns of its data (a bad checksum):
  `extract()` prints both and goes on. With `write` it may give up.
- `FHCheckOk` removes the real folder, `FHInstallOk` answers, `FHReboot` sends
  the datagram after the 30 s sleep; `FHInstallFail` does nothing, as in the
  code.
- `Reboot` and `Kill` are the watchdog. Memory is lost, files stay; a reboot
  starts every folder, a kill only the client. A folder that is not whole
  starts nothing (`running[f] = None`).
- Two observations name what the properties have to except: `flawed`, the
  commands of which an entry was passed over or whose archive had none, and
  `blind`, those taken before the first version report, or whose archive was
  extracted again for another command.

`Discipline` says when the panel sends its next command: `free` whenever it
likes; `await_reply` when the last update was answered; `orderly` when the
device has settled and its versions are known. The code imposes none of the
three; a property that needs one is checked, and proved, under that one.

`Faults`: `curl` (no curl handle), `fopen` (the archive file cannot be opened),
`download` (transfer or status fails), `badzip`, `badentry`, `emptyzip`,
`write`, `kill`, `udp` (reboot datagram lost).

`UpdateService` is what a waiting panel sees: the last command is worked on by
one worker, a folder changes only while its update is installed, success is
answered for a folder that holds the build and failure for one that was not
touched, and an installation may be given up in silence. The refinement mapping
in `UpdatePipeline` takes `folder[f]` from the disk (a build, or `None` for
anything that is not one whole build) and `busy` from what `FileHandler::run`
installs. The service has no queues, archives, trial extraction or crashes.

### Versions

`table` is `Config::curVersions`, appended to by `wdogRespThread` ("wd") and
read by `MessageHandler::run` ("mh") without a lock: `WDReads` begins a
`push_back`, `WDAdds` ends it, and a look-up in between (`pc = "grow"`) may
return anything and is noted in `raced`. `Known` is `getVerForProc`: the first
entry of a name, or 0.

Both threads read packets with the same loop: `Load` is `setJsonString`,
`OneEntry` a round with `getObjAt` and `parseFromJsonFactory`, `Unload` the
destructor of the root. `root` and `elem` are the reference counts of jansson:
`getObjAt` counts the root where it should count the entry it returns. For each
packet that has entries the root is therefore never released; since it is the
release of the array that would take one reference off each entry, this leak
is what prevents a double release (`JsonFactory.cpp:78`: "Otherwise crashes").
A gap is `Missing`: the first missing key ends the reading of an entry, and the
rest keeps the value of the entry before, because one `Version` object serves
all, in commands and in reports alike. `jabberClientUpdate` and
`watchDogUpdate` leave what they could not read uninitialised: then any
comparison may come out either way and the number is `Junk`.

A report is a sequence of shapes: which process an entry is about, and whether
it has its name and its version. A restart may bring any version of `Installs`,
older ones too, since one newer process is enough for a command. `ran` observes
which versions each process has had. `Heard(p)` is what `Config` may then know
of `p`: nothing (0), a version `p` has had, or one of a process `q` that a shape
lends to `p`, because `p`'s entry lacks its version and `q`'s is the last
complete one before it. `KnownWasHeard` says that it is never anything else: not
the version of an entry further away, nor one left from the packet before.
`NewerIsNeverRefused` says that what is newer than all of that is taken, with
the first report in force for ever and gaps on both sides.

### LogStream

Each part of a line is an action under `write`; a line end that finds the
stream at its limit cuts it, `uploadLogs` cuts it anywhere. A chunk is a pair
of positions, so that `Conserved` can say that the chunks, in the order in
which they are handed over, and the stream are one sequence without gap or
overlap. It follows them as far as the upload requests: what becomes of a
request is not part of it, and the code does not try a failed upload again.

The locks are taken as the code nests them: the queue lock of a worker that
logs while it holds it (`LogWaiting`, the line before `pthread_cond_wait`),
`write`, `log`.

The log thread and the HTTP worker log because of the log: for each chunk two
lines of the log thread (`Work`), and for each upload the lines of
`HttpClient::run` (`SeekFetch`, `Fetch`): `UploadLines` of them for the request
and how it ended, and one more when the queue is then empty. They go through the
same stream, are cut with it and uploaded in their turn; only parts that no
upload caused count in `others`, which is what `MaxParts` bounds. `ComesToRest`
says that this loop dies out. It needs `MaxLog` above what one chunk costs (8
parts in the run, 16 with the five lines the code logs at most): with a smaller
one every upload would cause the next. `MAX_LOG_SIZE` is a megabyte, far from
it.

`uploadLogs` may cut in the middle of a line: the pieces then are in two files,
nothing is lost, and the second piece has no stamp, which `StampedLines` allows
for (it looks at what came before the cut).

### XmppSession

`ctxs` are all contexts ever made, with `mem` (live or freed) and the state of
their connection; `JabberClient::ctx` is the last. `main()` reads its
configuration, connects in a loop (`MainConnects`, `MainChecks`,
`MainShutsDown`, `MainWakes`) and runs the context it then has;
`reconnectJabber` (`MHShutsDown`, `MHConnects`, `MHChecks`) replaces it. Each
sender builds a stanza in the context of one moment and sends it at another.
Use of a freed context is undefined: the process ends or goes on, `spoilt`
remembers it. `MainRunsFreed` is `xmpp_run` over a context without connections:
it may return, which ends the process, or loop for ever. If it returns the
watchdog restarts the client, which is how a device gets back in practice; if
it does not, `HeartBeat` shows that the watchdog notices.

### HeartBeat

The unit is 2.5 s: the beat every 25 s is `Period = 10`, the watchdog's look
every 30 s `Window = 12`, the sleep of `reboot()` 12. A beat goes through the
server (`flight`) into `msgQ` and from there to the watchdog, so it stops when
the session or the message thread does. `Tick` is enabled only when nobody has
anything to do at this moment. The watchdog is external: that it gives up after
two silent windows (`Patience = 2`) is read from `notes.txt:118` (a process is
dead when it is "not running more than a minute"), that it forgets a process
which it restarts until the next beat is an assumption. `settled` and `lostFor`
are observations; `lostFor` stops one tick after `MaxLost`, so that a session
that stays lost for ever would be seen and the state stays finite.

## 3. Runs

| run | states | what it shows |
|---|---|---|
| MonitorQueue | 7 thousand | with spurious wake-ups: mutual exclusion, no lost wake-up, an empty queue is popped only after a wait that returned unsignalled, refines `Fifo`; everything pushed is taken unless such a pop happens |
| UpdateFree | 1.7 million | free panel and all faults: order, single answers, and only what has a newer process is started, mixed commands included |
| UpdateOrderly | 3 thousand | orderly panel: accepted commands are answered, installed builds are started |
| UpdateAwaitReply | 1.8 million | panel that awaits answers; kills, write errors, bad archives and lost requests: only checked archives are installed, the archive is not overwritten, success means installed, failures leave nothing, no folder mixes builds or is broken behind an answer, refines `UpdateService` |
| LogStream | 294 thousand | no circle of locks, stamps, conservation, the log comes to rest although uploads are logged |
| Versions | 594 thousand | no double release, nothing believed that was not heard, nothing newer refused, requests bear their own numbers, an answer that can arrive fills the table |
| XmppSession | 59 thousand | no context left behind, freed twice or used after it was freed before the first reconnect; both loops get through |
| HeartBeat | 81 thousand | a settled client is not killed, a lost session is replaced, at the latest after three windows of the watchdog, a reboot that was begun is asked for |

Runs that find a disagreement between the code and what its comments or
`notes.txt` say (`findings` in `PROJECT.json`; each ends in a counterexample):

| run | the code |
|---|---|
| UpdateOverwrite | overwrites the archive that is being installed, and answers success |
| UpdateSilent | never answers when the second extraction fails |
| UpdateUnknownVersion | takes an older build while versions are unknown |
| XmppReconnect | after a lost session connects a context that no thread runs |

Further behaviour that was met. The code does it, the models have it, and the
properties name it where they have to except it:

- a spurious wake-up pops an empty queue (`MessageHandler.cpp:263`,
  `HttpClient.cpp:124`, `FileHandler.cpp:182`, `FileLogger.cpp:116`), which is
  why `NeverTakesFromEmpty` speaks of signalled waits;
- a reboot meets the installation of another update: `FileHandler::run` asks for
  it 30 s after its answer (`FileHandler.cpp:224-226`), `reboot()` 30 s after its
  command (`MessageHandler.cpp:207`), and the next command may be at work by
  then. The folder is left incomplete and nobody is told
  (`BrokenIsUnanswered`);
- a client killed while it installs itself, or whose second extraction failed,
  has no program to start (`FileHandler.cpp:211`);
- an entry that is skipped or damaged passes the check and is installed and
  answered with success (`FileHandler.cpp:127`, `:130-134`, fault `badentry`);
- an empty body passes it too (`FileHandler.cpp:119`, fault `emptyzip`): success
  is answered for an empty folder;
- if the archive file cannot be opened, the first byte received ends the process
  (`HttpClient.cpp:183`, `:249`), and an empty body has the archive of an
  earlier command extracted again, into that one's folder, and answered for this
  one (faults `fopen` and `emptyzip` together: only `UpdateFree` has both);
- a command with one newer process and older ones is accepted, and takes the
  others back (`MessageHandler.cpp:62-71`);
- a number that a packet lacks goes out as whatever was on the stack
  (`MessageHandler.cpp:101`); a failed `curl_easy_init` drops the request in
  silence (`HttpClient.cpp:163`);
- a command that offers nothing newer is not answered
  (`MessageHandler.cpp:88`), so `AcceptedIsAnswered` speaks of accepted ones;
- the first answer to `version_req` is lost if it comes before the socket is
  bound (`MessageHandler.cpp:232`); a lost reboot datagram is not repeated
  (`Utils.cpp:286`).

Bounds.

- `MonitorQueue`: three producers and three pushes, so that two producers
  compete while the consumer wakes, and a queue of several messages is built up
  and drained.
- `UpdatePipeline`: three commands; three processes, `client` alone in
  `JabberClient`, `meter` and `gateway` in `SmartMeter`; shipped versions are
  2. `UpdateFree` and `UpdateOrderly` update `JabberClient` - `SmartMeter` -
  `JabberClient`, with versions 4, (3, 1) and 3: the second is a mixed command,
  the third brings nothing newer unless the first one failed.
  `UpdateAwaitReply` updates `SmartMeter` - `JabberClient` - `SmartMeter`, so
  that a folder is installed twice and the client that is updated in between can
  be killed over it. Two folders, so that an archive can be extracted into
  the wrong one; two entries per archive, the least that can be mixed or cut
  (one in `UpdateFree`, where order, answers and versions do not depend on it);
  one reboot command, one log upload and one kill (`MaxRebootCmds`,
  `MaxUploads`, `MaxKills`), each of which can come at every moment.
  `UpdateFree` has all faults, `UpdateAwaitReply` all but `fopen` (excluded
  together with `emptyzip` by what it checks) and `udp` (without which more
  reboots come); `UpdateOrderly` has the faults that cost an update and leave
  the device up.
- `LogStream`: two workers and the log thread, which is enough for every pair
  of nested locks to be contended; `MaxLog = 10` parts, `MaxParts = 5`: workers
  begin no line of their own beyond it, so they write up to eight parts, and the
  stream is cut by size because of the lines that an upload caused;
  `UploadLines = {1}` (three to five, as after a transfer, only in the theorem,
  which takes any); `MaxAsks = 1` cut by `uploadLogs`, at any moment.
- `Versions`: one metering process and the watchdog, versions 0 to 2, two
  `version_req`, reports that are complete or have an entry without name and one
  without version behind the watchdog's, a metering process that goes forth and
  back, two commands of six kinds that between them have every gap; the second
  may meet what the first one and the reports left.
- `XmppSession`: two senders, three refusals (either thread may go
  round its loop several times), two commands of the panel besides the losses.
- `HeartBeat`: one message in `reboot()` at a time; the rest is bounded by the
  periods. A message takes at most `Latency = 1` (2.5 s). At 5 s the promise
  fails at an exact tie: 25 s since the last beat, 5 s on its way and 30 s of
  sleep are the watchdog's two windows.

Deadlock is checked in `HeartBeat`, where time must always be able to pass. In
the other instances everything ends when the bounded inputs have been worked
off, and the program then waits for the next one.

Fairness. Weak fairness for threads: they are detached, loop for ever, and the
scheduler runs them. Strong fairness for taking a mutex in `LogStream`, where
threads compete for it again and again. Beyond the process: transfers end
(`HttpStep`; the code sets no limit, so this is asked of the server), the
watchdog reports, reboots and answers (`UpdatePipeline`, `Versions`), a
connection that is tried comes up or fails (`XmppSession`), a server that can
be reached again and again is reached (`Connected` in `HeartBeat`, strong). The
panel and all faults are under no fairness. Where a fault itself can prevent
the good end, the liveness property is checked without it: `SuccessIsStarted`
without lost datagrams, kills and flawed archives, `AcceptedIsAnswered` without
`curl`, `fopen`, `write` and kills.

## 4. Proofs

All proofs are for any values of the constants that satisfy the module's
assumption (`QueueAssumption`, `PipelineAssumption`, `VersionsAssumption`,
`LogAssumption`, `XmppAssumption`, `HeartBeatAssumption`), which TLC evaluates
on every run. Every invariant and every action property of the passing runs is
stated by a theorem, and so are the two refinements.

`MonitorQueueProofs`. `TypeCorrect` and `MutualExclusion` (`OwnerIsInside` is
inductive with the types); `NeverEmpty`: not inductive by itself, it needs that
a roused consumer finds a message, because a producer signals only after it has
pushed and nobody else pops; `WakeupsArrive`; `QueueIsAChannel`: with
`pushed = taken \o msgQ` each step is one of `Fifo` or a stutter.

`UpdatePipelineProofs`, for every panel discipline, every set of faults and
all sizes: `TypeCorrect`, `CommandsKeepOrder`, `NoSecondAnswer`. The inductive
invariant is `ServiceInv`: `InOrder`, `AnsweredOnce` and `OnlySent`. The first
two need each other and the third: a command is answered when it leaves the
front of the service, order says that it is nowhere behind, and a new command
is newer than all that are in service or answered because it is newer than all
sent.

Two more theorems there, under no assumption either, are what can be proved
about progress. `WorkersComeToRest`: `StepsLeft` is a natural number, and every
step of the three workers lowers it. It adds up what each message in a queue
and each thread may still cost if nothing fails; handing a command on costs
less than having it, and a failure only saves steps. So only the panel, an
upload request or a start of the client makes work. `NothingIsStuck`: while
`StepsLeft` is not 0 the client is up and one worker can go on. The guards are
written out as `MHCanGoOn`, `HttpCanGoOn` and `FHCanGoOn`, because `ENABLED`
cannot be reasoned about; TLC confirmed on the states of `UpdateFree` and
`UpdateOrderly` that they imply `ENABLED` of the three threads' steps. The
invariant needed is `DownIsEmpty`: a client that is down holds nothing.

`UpdateInstallProofs`, assuming `PatientPanel`: the panel awaits answers or is
orderly, and `fopen` and `emptyzip` are not both among the faults. All other
faults are: kills, write errors, lost datagrams, damaged, incomplete and empty
archives. `ArchiveStaysOwn`, `InstallsOnlyChecked`, `SuccessIsTrue`. The
inductive invariant `InstallInv` adds to `ServiceInv`: `OneInService` (only the
last command is in service, besides one whose reboot is outstanding),
`OwnArchive` (from the end of its download the archive is that of the command)
and `Extracted` (all entries before the next one hold the command's build, on
trial first, then for good, or the command is flawed). Both assumptions are
needed: `UpdateOverwrite` is the counterexample without the first, and with an
archive file that cannot be opened and an empty body the archive of another
command is extracted.

Its section on the refinement proves `PipelineIsAService`, under `PatientPanel`
and with crashes: the same invariant, and one step per action. The trial
extraction, the download and the queues stutter; a kill or a reboot during the
installation is `GiveUp`. `SuccessStaysTrue` is then a fact about the service:
a folder whose update was answered with success keeps that build until a later
command for it is sent, since the service changes a folder only for the last
command. Without the waiting panel it is false (TLC finds the overwritten
archive again).

`UpdateDiskProofs`, under `PatientPanel` too except for `NewerIsStarted`.
`FailureIsHarmless`: the invariant `CleanDisk` says of every build on the disk
that its command is being installed or was, so that a command that fails has
left nothing. `NeverTwoBuilds`: an installation begins in an empty folder and
writes one archive. `BrokenHasNoAnswer`: `BrokenHasCause` says that a folder
that is not whole is being installed, or was the target of a command that left
the service without an answer, or that was flawed, whatever cut it off.
`NewerIsStarted` holds for every panel and every set of faults: `FreshOnly` says
that what is on its way behind `msgQ`, in the archive or on the disk is newer
than what runs in at least one process, or is running, or blind; the comparison
that `MessageHandler::run` made once stays good, since what runs changes only
with the loss of all that is in the queues. `AcceptedAreKept`: an accepted
command is in service until it is answered, in every step but five (`Losses`):
no curl handle, a second extraction that fails, a reboot, a kill, and the crash
after `fopen` failed. A second extraction can fail only for a write error, as
the same archive was read before. Its invariant `AnswerFirst` says that the
countdown to a reboot begins only when the command is answered.

`LogStreamProofs`: `LogTypeCorrect`; `NoDeadlock`: the locks each thread holds
and the lock it wants follow from where it is, and the order queue, write, log
excludes a circle; `StampsStartLines`, `NothingIsLost`: the chunks in hand, in
`logQ` and being pushed, and the stream, are one sequence. `LogFeedsLittle`, for
finitely many workers and up to five lines per upload: `Full` counts the chunks
cut because the stream was full, `Asked` those that were asked for, and
`(MaxLog - 15) * Full <= others + 16 * Asked`. `others` holds no part that an
upload caused. Each chunk costs at most four parts of the log thread
(`ChunkInHand` accounts for the one it is at) and twelve of the HTTP worker
(`WithinBudget`: what it wrote, still owes and will owe for the uploads that
wait), and a full chunk is longer than `MaxLog` (`FullIsLong`): the log's own
lines cannot pay for a full chunk once `MaxLog` is above fifteen.

`XmppSessionProofs`: `TypeCorrect`, `NoContextIsLeft`, `NoContextIsFreedTwice`,
`CleanBeforeReconnect`. The invariant `Lifetime` adds to the properties that
nobody else has begun while `main()` connects (`Alone`), that the last context
is live except between a shut-down and the next attempt (`LiveContext`), and
that a sender uses the context that `main()` runs or a later one (`UsesLater`).
`OverForGood`: a session that was lost, or whose context was freed, does not
come back while the process lasts, since only the context that `main()` runs is
ever served (`Connections`). It is what the run `XmppReconnect` finds, and what
lets `HeartBeat` treat a lost session as lost until the restart.
`LoopsGetThrough`: `ToGo` falls with every step of the two loops unless an
attempt is refused, and a loop that has ended leaves a live context whose
connection was tried.

`VersionsProofs`, for any reports and commands: `TypeCorrect`; `ReleasedOnce`
(`Counted`: before the i-th entry the root has count i, the entries before it
0, the others 1; so the root reaches 0 only for a packet without entries);
`TableIsHeard` (`Reported`: whatever is in the socket, in the packet being read,
in the entry being added and in the table was true once, and the version that
the reused object holds is that of the last complete entry, so only what a
shape lends can be inherited); `NoNewsIsRefused` (`Pending`: unless a look-up
was raced, each entry that brings something newer is still in the packet or in
the list, since a complete entry is parsed as it is, whatever the entries around
it lack); `RequestsAreNumbered`; `ReportsAreKept` (a complete entry that was received is in
the socket, in the packet, being added or in the table, as it was reported).
That a table has a first hit is the least-number principle, taken from the
well-foundedness of the finite subsets of `Nat`.

`HeartBeatProofs`, for any periods: `TypeCorrect`; `LostIsReplacedInTime`, under
no assumption on the numbers: `Aging` bounds the age of a lost session by what
the watchdog has waited since the window of the last beat, because the beats
end with the session (`Sessions`) and what still waits in `msgQ` is handled
before time passes. `WorkingIsNeverKilled` assumes `InTime`: the beat's period,
its way and the sleep of `reboot()` are together shorter than the patience of
the watchdog. `Punctual` compares its silence with the delay that the place of
the next beat accounts for (`Delay`: in `heartBeat`, on its way, in `msgQ`
behind a `reboot()`). The code's 25 s and 30 s against 60 s satisfy it as long
as a message takes less than 5 s; at 5 s TLC finds the kill.

Only model-checked are the liveness properties: the prover knows no fairness
and no `ENABLED`. What of them is safety is proved:

| liveness property | proved of it |
|---|---|
| `AcceptedIsAnswered` | `AcceptedAreKept`, `WorkersComeToRest`, `NothingIsStuck` |
| `SuccessIsStarted` | the same variant; `SuccessStaysTrue` |
| `EverythingIsTaken` | `WakeupsArrive`, `QueueIsAChannel` |
| `ComesToRest` | `LogFeedsLittle`, `NoDeadlock` |
| `AskedIsKnown` | `ReportsAreKept`, from the moment the answer has arrived |
| `KeepsTrying` | `LoopsGetThrough` |
| `LostIsReplaced` | `LostIsReplacedInTime` |
| `RebootIsAsked` | `WorkingIsNeverKilled`: the sleep is not cut off by the watchdog |

## 5. Not modelled

- `enc.c` and `dec.c`: stand-alone tools that convert one file and end.
- The contents of JSON packets and XMPP stanzas, hashes, base64, AES, address
  formatting (`Utils`), time stamps and wording of the log: conversions without
  state. Of parsing, what is missing in a packet is modelled (`Versions`); a
  report that is no JSON at all, and the length of the buffer it is received in
  (`MessageHandler.cpp:367`), are not.
- The files that log uploads are sent from (`HttpClient.cpp:95`, `:216`): each
  belongs to one request, and uploads follow each other.
- The lines of the watchdog's log that `wdogRespThread` copies into the log.
- What libcurl, libarchive, libstrophe and jansson do inside, beyond what the
  code relies on.
