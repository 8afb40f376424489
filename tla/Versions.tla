------------------------------ MODULE Versions ------------------------------
(***************************************************************************)
(* Which updates the client takes.  The watchdog answers a version_req by  *)
(* a datagram; wdogRespThread ("wd") appends the entries of the datagram   *)
(* to Config's table, one by one and without a lock.  MessageHandler::run  *)
(* ("mh") compares the versions of an update command with that table and   *)
(* hands a download request to HttpClient.                                 *)
(*                                                                         *)
(* Both threads read the entries of a packet with the same loop over a     *)
(* JSON array: one Version object is used for all entries, and getObjAt    *)
(* counts a reference to the root instead of one to the entry it returns.  *)
(***************************************************************************)
EXTENDS Integers, Sequences

CONSTANTS Procs,       \* the names of processes
          WDog,        \* WDOG_PROC_NAME
          NoName,      \* the empty name
          Missing,     \* a key that a packet does not have
          Junk,        \* a number read from an uninitialised variable
          MaxVer,      \* versions are 0..MaxVer
          OwnVer,      \* JABBER_CLIENT_VERSION
          Reports,     \* the shapes of the watchdog's answers
          Installs,    \* the processes and versions a restart may bring
          Commands,    \* the update commands the panel may send
          MaxCmds, MaxAsks   \* bounds

Vers  == 0..MaxVer
Entry == [name : Procs \cup {Missing}, ver : Vers \cup {Missing}]

(* An entry of a report is about one process and may lack its name or its  *)
(* version: both packets are read by the same code.                        *)
Told == [of : Procs, name : BOOLEAN, ver : BOOLEAN]

Command == [kind : {"meter", "jabber", "wdog"}, entries : Seq(Entry),
            ver : Vers \cup {Missing}, url : BOOLEAN, no : BOOLEAN]

ASSUME VersionsAssumption ==
  /\ WDog \in Procs
  /\ NoName \notin Procs /\ Missing \notin Procs \cup Int /\ Junk \notin Int
  /\ MaxVer \in Nat /\ OwnVer \in Vers
  /\ Reports \subseteq Seq(Told)
  /\ Installs \subseteq Procs \X Vers
  /\ Commands \subseteq Command
  /\ MaxCmds \in Nat /\ MaxAsks \in Nat

VARIABLES
  actual,   \* watchdog: the version of each process that really runs
  asked,    \* watchdog: how many version_req wait to be answered
  asks,     \* how many version_req were sent to it
  bound,    \* wd: is its socket bound?
  inbox,    \* the datagrams in that socket
  table,    \* Config::curVersions
  sent,     \* panel: the commands sent, by their number
  msgQ,     \* MessageHandler::msgQ: numbers of commands
  cmd,      \* mh: the number of the command being handled, or 0
  loop,     \* each thread's loop over the entries of a packet
  news,     \* mh: getNewVersions, then what of it is still to be compared
  reqs,     \* the requests pushed to HttpClient
  refused,  \* observation: the commands refused for bringing nothing newer
  ran,      \* observation: the versions each process has had
  raced     \* observation: has a look-up met a push_back in progress?

vars == <<actual, asked, asks, bound, inbox, table, sent, msgQ, cmd, loop, news,
          reqs, refused, raced, ran>>
outside == <<actual, ran, asked, asks, bound, inbox>>
results == <<sent, reqs, refused, raced>>

Threads == {"mh", "wd"}
Version == [name : Procs \cup {NoName}, ver : Vers]
Fresh   == [name |-> NoName, ver |-> 0]
Idle    == [pc |-> "idle", pkt |-> <<>>, i |-> 1, ver |-> Fresh,
            root |-> 0, elem |-> <<>>]
LoopState == [pc : {"idle", "read", "grow", "compare"}, pkt : Seq(Entry),
              i : Nat, ver : Version, root : Int, elem : Seq(Int)]
Request == [cmd : 1..MaxCmds, no : 1..MaxCmds \cup {Junk}]

TypeOK ==
  /\ actual \in [Procs -> Vers] /\ ran \in [Procs -> SUBSET Vers]
  /\ asked \in Nat /\ asks \in Nat /\ bound \in BOOLEAN
  /\ inbox \in Seq(Seq(Entry))
  /\ table \in Seq(Version)
  /\ sent \in Seq(Commands)
  /\ msgQ \in Seq(1..MaxCmds)
  /\ cmd \in 0..MaxCmds
  /\ loop \in [Threads -> LoopState]
  /\ news \in Seq(Version)
  /\ reqs \in Seq(Request)
  /\ refused \subseteq 1..MaxCmds
  /\ raced \in BOOLEAN
  \* control state and data agree
  /\ loop["mh"].pc # "idle" => cmd # 0
  /\ loop["mh"].pc # "grow"
  /\ \A p \in Procs : actual[p] \in ran[p]

Init ==
  /\ actual = [p \in Procs |-> OwnVer] /\ ran = [p \in Procs |-> {OwnVer}]
  /\ asked = 1 /\ asks = 1     \* onXmppConnect
  /\ bound = FALSE
  /\ inbox = <<>>
  /\ table = <<>>
  /\ sent = <<>>
  /\ msgQ = <<>>
  /\ cmd = 0
  /\ loop = [t \in Threads |-> Idle]
  /\ news = <<>>
  /\ reqs = <<>>
  /\ refused = {}
  /\ raced = FALSE

-----------------------------------------------------------------------------
(* The watchdog (external) *)

(* What it writes of a process when it answers. *)
Tell(x) == [name |-> IF x.name THEN x.of ELSE Missing,
            ver  |-> IF x.ver THEN actual[x.of] ELSE Missing]

(* It answers with the versions of the processes it knows at the moment;   *)
(* a datagram to a socket that is not bound yet is lost.                   *)
WDAnswers ==
  /\ asked > 0 /\ asked' = asked - 1
  /\ \E r \in Reports :
       inbox' = IF bound
         THEN Append(inbox, [i \in 1..Len(r) |-> Tell(r[i])])
         ELSE inbox
  /\ UNCHANGED <<actual, ran, asks, bound, table, msgQ, cmd, loop, news, results>>

(* The watchdog restarts a process, which now is what was installed: a     *)
(* command that brings one newer process may bring older ones with it.     *)
ProcessRestarts ==
  /\ \E p \in Procs, v \in Vers :
       /\ <<p, v>> \in Installs
       /\ actual' = [actual EXCEPT ![p] = v]
       /\ ran' = [ran EXCEPT ![p] = @ \cup {v}]
  /\ UNCHANGED <<asked, asks, bound, inbox, table, msgQ, cmd, loop, news, results>>

(* getVerReq, on a version_req of the panel *)
AskVersions ==
  /\ asks < MaxAsks
  /\ cmd = 0
  /\ asks' = asks + 1
  /\ asked' = asked + 1
  /\ UNCHANGED <<actual, ran, bound, inbox, table, msgQ, cmd, loop, news, results>>

PanelSends ==
  /\ Len(sent) < MaxCmds
  /\ \E c \in Commands : sent' = Append(sent, c)
  /\ msgQ' = Append(msgQ, Len(sent) + 1)
  /\ UNCHANGED <<outside, table, cmd, loop, news, reqs, refused, raced>>

-----------------------------------------------------------------------------
(* The loop over the entries of a packet *)

(* setJsonString: the root and every entry are referred to once. *)
Load(entries) ==
  [pc |-> "read", pkt |-> entries, i |-> 1, ver |-> Fresh,
   root |-> 1, elem |-> [i \in 1..Len(entries) |-> 1]]

(* Mutant of Parsed: the highest version read so far is kept. *)
ParsedHighest(v, e) ==
  [name |-> IF e.name = Missing THEN v.name ELSE e.name,
   ver  |-> IF Missing \in {e.name, e.ver} \/ e.ver < v.ver THEN v.ver ELSE e.ver]

(* parseFromJsonFactory: the first key that is missing ends the reading,   *)
(* and what was not read keeps the value of the entry before.              *)
Parsed(v, e) ==
  [name |-> IF e.name = Missing THEN v.name ELSE e.name,
   ver  |-> IF Missing \in {e.name, e.ver} THEN v.ver ELSE e.ver]

(* Mutant of OneEntry: getObjAt counts no reference at all. *)
OneEntryUncounted(l, next) ==
  [pc |-> next, pkt |-> l.pkt, i |-> l.i + 1, ver |-> Parsed(l.ver, l.pkt[l.i]),
   root |-> l.root, elem |-> [l.elem EXCEPT ![l.i] = @ - 1]]

(* getObjAt counts a reference to the root, the copy that is parsed comes  *)
(* and goes, and the end of the round takes one off the entry.             *)
OneEntry(l, next) ==
  [pc |-> next, pkt |-> l.pkt, i |-> l.i + 1, ver |-> Parsed(l.ver, l.pkt[l.i]),
   root |-> l.root + 1, elem |-> [l.elem EXCEPT ![l.i] = @ - 1]]

More(l) == l.pc = "read" /\ l.i <= Len(l.pkt)
Over(l) == l.pc = "read" /\ l.i > Len(l.pkt)

(* The destructor of the root: with the last reference go those of the     *)
(* array to its entries.                                                   *)
Unload(l, next) ==
  [pc |-> next, pkt |-> <<>>, i |-> 1, ver |-> Fresh, root |-> l.root - 1,
   elem |-> IF l.root = 1 THEN [i \in DOMAIN l.elem |-> l.elem[i] - 1] ELSE l.elem]

-----------------------------------------------------------------------------
(* wdogRespThread *)

Bind ==
  /\ ~bound /\ bound' = TRUE
  /\ UNCHANGED <<actual, ran, asked, asks, inbox, table, msgQ, cmd, loop, news, results>>

WDReceives ==
  /\ bound /\ loop["wd"].pc = "idle" /\ inbox # <<>>
  /\ inbox' = Tail(inbox)
  /\ loop' = [loop EXCEPT !["wd"] = Load(Head(inbox))]
  /\ UNCHANGED <<actual, ran, asked, asks, bound, table, msgQ, cmd, news, results>>

(* An entry is read and curVersions.push_back begins: while the vector     *)
(* grows it must not be read.                                              *)
WDReads ==
  /\ More(loop["wd"])
  /\ loop' = [loop EXCEPT !["wd"] = OneEntry(@, "grow")]
  /\ UNCHANGED <<outside, table, msgQ, cmd, news, results>>

(* Mutant of WDAdds: only what the table has already is brought up to date. *)
WDAddsIfThere ==
  /\ loop["wd"].pc = "grow"
  /\ table' = IF \E i \in DOMAIN table : table[i].name = loop["wd"].ver.name
                THEN Append(table, loop["wd"].ver) ELSE table
  /\ loop' = [loop EXCEPT !["wd"].pc = "read"]
  /\ UNCHANGED <<outside, msgQ, cmd, news, results>>

WDAdds ==
  /\ loop["wd"].pc = "grow"
  /\ table' = Append(table, loop["wd"].ver)
  /\ loop' = [loop EXCEPT !["wd"].pc = "read"]
  /\ UNCHANGED <<outside, msgQ, cmd, news, results>>

(* The report is also forwarded to the panel. *)
WDEnds ==
  /\ Over(loop["wd"])
  /\ loop' = [loop EXCEPT !["wd"] = Unload(@, "idle")]
  /\ UNCHANGED <<outside, table, msgQ, cmd, news, results>>

-----------------------------------------------------------------------------
(* getVerForProc: the first entry of that name, or 0 *)
Known(p) ==
  LET hits == {i \in DOMAIN table : table[i].name = p}
  IN IF hits = {} THEN 0
     ELSE table[CHOOSE i \in hits : \A j \in hits : i <= j].ver

(* What a look-up may return: anything if the vector is growing. *)
LookedUp(p) == IF loop["wd"].pc = "grow" THEN Vers ELSE {Known(p)}
Races == raced' = (raced \/ loop["wd"].pc = "grow")

(* MessageHandler::run *)

Now == sent[cmd]

MHTakes ==
  /\ cmd = 0 /\ msgQ # <<>>
  /\ cmd' = Head(msgQ)
  /\ msgQ' = Tail(msgQ)
  /\ loop' = [loop EXCEPT !["mh"] =
                IF sent[Head(msgQ)].kind = "meter"
                  THEN Load(sent[Head(msgQ)].entries)
                  ELSE [Idle EXCEPT !.pc = "compare"]]
  /\ UNCHANGED <<outside, table, news, results>>

(* getNewVersions *)
MHReads ==
  /\ More(loop["mh"])
  /\ loop' = [loop EXCEPT !["mh"] = OneEntry(@, "read")]
  /\ news' = Append(news, loop'["mh"].ver)
  /\ UNCHANGED <<outside, table, msgQ, cmd, results>>

MHListed ==
  /\ Over(loop["mh"])
  /\ loop' = [loop EXCEPT !["mh"] = Unload(@, "compare")]
  /\ UNCHANGED <<outside, table, msgQ, cmd, news, results>>

(* HttpClient drops a request without an address or with a number below 0. *)
Push(nos) ==
  \E no \in (IF Now.url THEN nos ELSE {Missing}) :
    reqs' = IF no = Missing THEN reqs ELSE Append(reqs, [cmd |-> cmd, no |-> no])

(* Mutant of Done: the thread goes on comparing. *)
DoneStill == cmd' = 0 /\ news' = <<>> /\ UNCHANGED loop

Done == cmd' = 0 /\ news' = <<>> /\ loop' = [loop EXCEPT !["mh"].pc = "idle"]

(* Mutant of MHSkips: a version of the watchdog ends the comparison. *)
MHStopsAtWDog ==
  /\ loop["mh"].pc = "compare" /\ Now.kind = "meter" /\ news # <<>>
  /\ \/ Head(news).name = WDog /\ UNCHANGED raced /\ news' = <<>>
     \/ /\ Head(news).name # WDog
        /\ \E cur \in LookedUp(Head(news).name) : cur >= Head(news).ver
        /\ Races
        /\ news' = Tail(news)
  /\ UNCHANGED <<outside, table, msgQ, cmd, loop, sent, reqs, refused>>

(* smartMeterUpdate goes through the versions of the command in turn. *)
MHSkips ==
  /\ loop["mh"].pc = "compare" /\ Now.kind = "meter" /\ news # <<>>
  /\ \/ Head(news).name = WDog /\ UNCHANGED raced
     \/ /\ Head(news).name # WDog
        /\ \E cur \in LookedUp(Head(news).name) : cur >= Head(news).ver
        /\ Races
  /\ news' = Tail(news)
  /\ UNCHANGED <<outside, table, msgQ, cmd, loop, sent, reqs, refused>>

(* One newer version is enough; the address and the number must be there.  *)
MHAcceptsMeter ==
  /\ loop["mh"].pc = "compare" /\ Now.kind = "meter" /\ news # <<>>
  /\ Head(news).name # WDog
  /\ \E cur \in LookedUp(Head(news).name) : cur < Head(news).ver
  /\ Races
  /\ Push(IF Now.no THEN {cmd} ELSE {Missing})
  /\ Done
  /\ UNCHANGED <<outside, table, msgQ, sent, refused>>

MHRefusesMeter ==
  /\ loop["mh"].pc = "compare" /\ Now.kind = "meter" /\ news = <<>>
  /\ refused' = refused \cup {cmd}
  /\ Done
  /\ UNCHANGED <<outside, table, msgQ, sent, reqs, raced>>

(* Mutant of Numbers: the number is read last. *)
NumbersReadLast == IF Now.url /\ Now.no /\ Now.ver # Missing THEN {cmd}
                   ELSE {Junk, Missing}

(* jabberClientUpdate and watchDogUpdate read the address, the number and  *)
(* the version; the first that is missing leaves itself and the rest       *)
(* uninitialised.  Any number may then be taken, negative ones too, and    *)
(* the comparison may come out either way.                                 *)
Numbers == IF Now.url /\ Now.no THEN {cmd} ELSE {Junk, Missing}
NewVers == IF Now.url /\ Now.no /\ Now.ver # Missing THEN {Now.ver}
           ELSE Vers \cup {MaxVer + 1}
OldVers == IF Now.kind = "jabber" THEN {OwnVer} ELSE LookedUp(WDog)

MHComparesOne ==
  /\ loop["mh"].pc = "compare" /\ Now.kind # "meter"
  /\ \E new \in NewVers, old \in OldVers :
       IF old < new THEN Push(Numbers) /\ UNCHANGED refused
                    ELSE refused' = refused \cup {cmd} /\ UNCHANGED reqs
  /\ IF Now.kind = "wdog" THEN Races ELSE UNCHANGED raced
  /\ Done
  /\ UNCHANGED <<outside, table, msgQ, sent>>

-----------------------------------------------------------------------------
WDStep == Bind \/ WDReceives \/ WDReads \/ WDAdds \/ WDEnds
MHStep == MHTakes \/ MHReads \/ MHListed \/ MHSkips
          \/ MHAcceptsMeter \/ MHRefusesMeter \/ MHComparesOne

Next == WDAnswers \/ ProcessRestarts \/ AskVersions \/ PanelSends \/ WDStep \/ MHStep

Spec == Init /\ [][Next]_vars

(* The threads run and the watchdog answers. *)
Fairness == WF_vars(WDStep) /\ WF_vars(MHStep) /\ WF_vars(WDAnswers)

FairSpec == Spec /\ Fairness

-----------------------------------------------------------------------------
(* Nothing is released twice and no entry is read after its release,       *)
(* although getObjAt counts the wrong object ("Otherwise crashes"): the    *)
(* root, counted once per entry, is never released and so never takes its  *)
(* entries with it.                                                        *)
NoDoubleFree ==
  \A t \in Threads :
    /\ loop[t].root >= 0
    /\ \A i \in DOMAIN loop[t].elem :
         loop[t].elem[i] >= (IF loop[t].pc = "read" /\ i >= loop[t].i THEN 1 ELSE 0)

(* Does a report lend the version of q to p?  That is so if p's entry has  *)
(* no version and q's is the last complete one before it.                  *)
Lends(q, p) ==
  \E r \in Reports : \E i, j \in DOMAIN r :
    /\ j < i
    /\ r[j].name /\ r[j].ver /\ r[j].of = q
    /\ r[i].name /\ ~r[i].ver /\ r[i].of = p
    /\ \A k \in DOMAIN r : j < k /\ k < i => ~(r[k].name /\ r[k].ver)

(* The versions of p that a report can have given the client. *)
Heard(p) == {0} \cup ran[p] \cup UNION {ran[q] : q \in {x \in Procs : Lends(x, p)}}

(* What Config believes of a process is a version that this process has    *)
(* had, or one it was lent by a gap in a report (procVer is reused for all *)
(* entries): never that of a process further away, and never a mixture.    *)
KnownWasHeard == \A p \in Procs : Known(p) \in Heard(p)

WellFormed(c) ==
  /\ c.url /\ c.no
  /\ c.kind # "meter" => c.ver # Missing

(* Does the command bring something newer than all that was heard of? *)
Brings(c) ==
  CASE c.kind = "meter" ->
         \E i \in DOMAIN c.entries :
           LET e == c.entries[i]
           IN /\ Missing \notin {e.name, e.ver} /\ e.name # WDog
              /\ \A v \in Heard(e.name) : e.ver > v
    [] c.kind = "jabber" -> c.ver > OwnVer
    [] c.kind = "wdog"   -> \A v \in Heard(WDog) : c.ver > v

(* No command is refused that brings something newer than every version    *)
(* the process has had or was lent, in whatever order reports and commands *)
(* come, whatever gaps the other entries have and however often processes  *)
(* go forth and back, unless a look-up met a table that was growing.       *)
NewerIsNeverRefused ==
  [][\A c \in refused' \ refused : WellFormed(sent[c]) /\ Brings(sent[c]) => raced']_vars

(* A download request has an address, and the number of its own command if *)
(* that has one: an uninitialised number only goes out for a command that  *)
(* has none.                                                               *)
OwnNumber ==
  \A i \in DOMAIN reqs :
    LET c == sent[reqs[i].cmd]
    IN c.url /\ (IF c.no THEN reqs[i].no = reqs[i].cmd
                         ELSE c.kind # "meter" /\ reqs[i].no = Junk)

(* A version_req that the panel sends once the socket is bound fills the   *)
(* table: the first answer may be lost, later ones are not.                *)
AskedIsKnown == asked > 0 /\ bound ~> table # <<>>
=============================================================================
