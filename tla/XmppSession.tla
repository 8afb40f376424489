---------------------------- MODULE XmppSession ----------------------------
(***************************************************************************)
(* The lifetime of the libstrophe contexts of JabberClient.  main()        *)
(* connects in a loop and then runs the context it has; run() of           *)
(* MessageHandler ("mh") replaces the context on reconnect_jabber; other   *)
(* threads send through whatever JabberClient::ctx points to.  No lock     *)
(* protects the pointer.                                                   *)
(*                                                                         *)
(* A context that is freed while a thread uses it is undefined behaviour:  *)
(* the process ends or goes on.  A main() that runs a freed context finds  *)
(* no connection in it: it returns, or loops for ever.                     *)
(***************************************************************************)
EXTENDS Integers, Sequences

CONSTANTS Senders,      \* heartBeat, wdogRespThread, FileHandler, HttpClient
          Keys,         \* the keys the configuration file must have
          MaxRefusals,  \* bound: attempts to connect that are refused
          MaxCmds       \* bound: reconnect_jabber commands ever sent by the panel

ASSUME XmppAssumption == MaxRefusals \in Nat /\ MaxCmds \in Nat

VARIABLES
  ctxs,     \* the contexts in the order of their creation, ctx is the last
  main,     \* where main() is, "gone" if the process has ended
  runs,     \* the context that main() runs, or 0
  mh,       \* where MessageHandler::run is
  pending,  \* the reconnect_jabber commands in msgQ
  cmds,     \* how many of them the panel has sent
  refused,  \* how many attempts to connect were refused
  served,   \* bThreadsCreated of onXmppConnect
  using,    \* the context in which each sender builds its stanza, or 0
  spoilt    \* observation: was a freed context ever used?

vars == <<ctxs, main, runs, mh, pending, cmds, refused, served, using, spoilt>>

Context == [mem : {"live", "freed"}, conn : {"new", "trying", "up", "lost"}]
Ctx == Len(ctxs)
Freed(c) == ctxs[c].mem = "freed"

TypeOK ==
  /\ ctxs \in Seq(Context)
  /\ main \in {"config", "connect", "check", "failed", "sleep", "start", "run",
               "spin", "gone"}
  /\ runs \in 0..Ctx
  /\ mh \in {"idle", "told", "connect", "check", "failed"}
  /\ pending \in Nat /\ cmds \in 0..MaxCmds /\ refused \in 0..MaxRefusals
  /\ served \in BOOLEAN
  /\ using \in [Senders -> 0..Ctx]
  /\ spoilt \in BOOLEAN
  /\ main \in {"run", "spin"} => runs # 0
  /\ main \notin {"run", "spin", "gone"} => ~served /\ mh = "idle" /\ runs = 0

Init ==
  /\ ctxs = <<>>
  /\ main = "config"
  /\ runs = 0
  /\ mh = "idle"
  /\ pending = 0 /\ cmds = 0 /\ refused = 0
  /\ served = FALSE
  /\ using = [s \in Senders |-> 0]
  /\ spoilt = FALSE

-----------------------------------------------------------------------------
(* JabberClient *)

(* connect() makes a context and a connection in it; then it asks the      *)
(* library to connect, which may refuse at once.                           *)
NewContext == ctxs' = Append(ctxs, [mem |-> "live", conn |-> "new"])
Refuses    == refused < MaxRefusals /\ refused' = refused + 1 /\ UNCHANGED ctxs
Connects   == ctxs' = [ctxs EXCEPT ![Ctx].conn = "trying"] /\ UNCHANGED refused

(* Using a context: what happens after it was freed is not defined. *)
Use(freed) ==
  /\ spoilt' = (spoilt \/ freed)
  /\ main' \in IF freed THEN {main, "gone"} ELSE {main}

(* xmppShutDown *)
Free == ctxs' = [ctxs EXCEPT ![Ctx].mem = "freed"]

-----------------------------------------------------------------------------
(* main() *)

(* parseXmppDetails: the file can be read and has all keys, or the process *)
(* ends.                                                                   *)
MainConfigures ==
  /\ main = "config"
  /\ \E readable \in BOOLEAN, found \in SUBSET Keys :
       main' = IF readable /\ found = Keys THEN "connect" ELSE "gone"
  /\ UNCHANGED <<ctxs, runs, mh, pending, cmds, refused, served, using, spoilt>>

(* Mutant of MainConnects: the threads that send are created first. *)
MainServesFirst ==
  /\ main = "connect" /\ main' = "check"
  /\ NewContext
  /\ served' = TRUE
  /\ UNCHANGED <<runs, mh, pending, cmds, refused, using, spoilt>>

MainConnects ==
  /\ main = "connect" /\ main' = "check"
  /\ NewContext
  /\ UNCHANGED <<runs, mh, pending, cmds, refused, served, using, spoilt>>

(* Mutant of MainChecks: a connection that is refused is also reported to  *)
(* the listener, which reconnects.                                         *)
MainChecksAndReports ==
  /\ main = "check"
  /\ \/ Refuses /\ main' = "failed" /\ pending' = pending + 1
     \/ Connects /\ main' = "start" /\ UNCHANGED pending
  /\ UNCHANGED <<runs, mh, cmds, served, using, spoilt>>

MainChecks ==
  /\ main = "check"
  /\ \/ Refuses /\ main' = "failed"
     \/ Connects /\ main' = "start"
  /\ UNCHANGED <<runs, mh, pending, cmds, served, using, spoilt>>

(* Mutant of MainShutsDown: the context is kept. *)
MainKeeps ==
  /\ main = "failed" /\ main' = "sleep"
  /\ UNCHANGED <<ctxs, runs, mh, pending, cmds, refused, served, using, spoilt>>

MainShutsDown ==
  /\ main = "failed" /\ main' = "sleep"
  /\ Free
  /\ UNCHANGED <<runs, mh, pending, cmds, refused, served, using, spoilt>>

MainWakes ==
  /\ main = "sleep" /\ main' = "connect"
  /\ UNCHANGED <<ctxs, runs, mh, pending, cmds, refused, served, using, spoilt>>

(* startXmpp: from now on main() stays with this context. *)
MainStarts ==
  /\ main = "start" /\ main' = "run"
  /\ runs' = Ctx
  /\ UNCHANGED <<ctxs, mh, pending, cmds, refused, served, using, spoilt>>

(* conn_handler, XMPP_CONN_CONNECT: the first time the threads that send   *)
(* are created (onXmppConnect).                                            *)
ConnUp ==
  /\ main = "run" /\ ~Freed(runs) /\ ctxs[runs].conn = "trying"
  /\ ctxs' = [ctxs EXCEPT ![runs].conn = "up"]
  /\ served' = TRUE
  /\ UNCHANGED <<main, runs, mh, pending, cmds, refused, using, spoilt>>

(* conn_handler, any other event: onXmppDisconnect *)
ConnLost ==
  /\ main = "run" /\ ~Freed(runs) /\ ctxs[runs].conn \in {"trying", "up"}
  /\ ctxs' = [ctxs EXCEPT ![runs].conn = "lost"]
  /\ pending' = pending + 1
  /\ UNCHANGED <<main, runs, mh, cmds, refused, served, using, spoilt>>

(* The panel may send the command, too (message_handler). *)
PanelReconnects ==
  /\ main = "run" /\ ~Freed(runs) /\ ctxs[runs].conn = "up"
  /\ cmds < MaxCmds
  /\ cmds' = cmds + 1
  /\ pending' = pending + 1
  /\ UNCHANGED <<ctxs, main, runs, mh, refused, served, using, spoilt>>

(* main() goes on running a context that was freed. *)
MainRunsFreed ==
  /\ main = "run" /\ Freed(runs)
  /\ main' \in {"spin", "gone"}
  /\ spoilt' = TRUE
  /\ UNCHANGED <<ctxs, runs, mh, pending, cmds, refused, served, using>>

MainStep == MainConfigures \/ MainConnects \/ MainChecks \/ MainShutsDown
            \/ MainWakes \/ MainStarts \/ MainRunsFreed

-----------------------------------------------------------------------------
(* MessageHandler::run, reconnectJabber *)

MHTakes ==
  /\ mh = "idle" /\ pending > 0
  /\ mh' = "told"
  /\ pending' = pending - 1
  /\ UNCHANGED <<ctxs, main, runs, cmds, refused, served, using, spoilt>>

(* xmppShutDown and sleep, before the first attempt and after each failure *)
MHShutsDown ==
  /\ mh \in {"told", "failed"} /\ mh' = "connect"
  /\ Free
  /\ Use(Freed(Ctx))
  /\ UNCHANGED <<runs, pending, cmds, refused, served, using>>

MHConnects ==
  /\ mh = "connect" /\ mh' = "check"
  /\ NewContext
  /\ UNCHANGED <<main, runs, pending, cmds, refused, served, using, spoilt>>

(* Mutant of MHChecks: one attempt is all. *)
MHChecksOnce ==
  /\ mh = "check"
  /\ Refuses \/ Connects
  /\ mh' = "idle"
  /\ UNCHANGED <<main, runs, pending, cmds, served, using, spoilt>>

MHChecks ==
  /\ mh = "check"
  /\ \/ Refuses /\ mh' = "failed"
     \/ Connects /\ mh' = "idle"
  /\ UNCHANGED <<main, runs, pending, cmds, served, using, spoilt>>

MHStep == MHTakes \/ MHShutsDown \/ MHConnects \/ MHChecks

-----------------------------------------------------------------------------
(* sendMsgTo and sendPresence: stanzas are built in the context, then sent *)
(* through the connection of the moment.                                   *)
SendBegins(s) ==
  /\ served /\ using[s] = 0
  /\ using' = [using EXCEPT ![s] = Ctx]
  /\ Use(Freed(Ctx))
  /\ UNCHANGED <<ctxs, runs, mh, pending, cmds, refused, served>>

SendEnds(s) ==
  /\ using[s] # 0
  /\ using' = [using EXCEPT ![s] = 0]
  /\ Use(Freed(using[s]) \/ Freed(Ctx))
  /\ UNCHANGED <<ctxs, runs, mh, pending, cmds, refused, served>>

SenderStep == \E s \in Senders : SendBegins(s) \/ SendEnds(s)

Next ==
  /\ main # "gone"
  /\ MainStep \/ ConnUp \/ ConnLost \/ PanelReconnects \/ MHStep \/ SenderStep

Spec == Init /\ [][Next]_vars

(* The threads run, and a connection that is tried comes up or fails. *)
Fairness ==
  /\ WF_vars(main # "gone" /\ MainStep)
  /\ WF_vars(main # "gone" /\ MHStep)
  /\ WF_vars(main # "gone" /\ (ConnUp \/ ConnLost))

FairSpec == Spec /\ Fairness

-----------------------------------------------------------------------------
(* Whoever makes a context has freed the one before: none is left behind,  *)
(* whichever of the two threads connects and however often it is refused.  *)
OneContext == \A i \in 1..Ctx - 1 : Freed(i)

(* Nobody frees a context twice: the loop of main() and that of            *)
(* reconnectJabber never free the same one.                                *)
FreedOnce == main = "failed" \/ mh \in {"told", "failed"} => Ctx > 0 /\ ~Freed(Ctx)

(* No freed context is ever used before a reconnect has freed the one that *)
(* main() runs: the attempts of the start meet no sender.                  *)
CleanUntilReconnect == spoilt => runs # 0 /\ Freed(runs)

(* The loop of main() gets to run a context, and each reconnect_jabber     *)
(* ends with a new context that tries to connect, if the process lasts.    *)
KeepsTrying ==
  /\ main = "connect" ~> main = "run"
  /\ pending > 0 ~> \/ main = "gone"
                    \/ pending = 0 /\ mh = "idle" /\ Ctx # 0 /\ ~Freed(Ctx)
                       /\ ctxs[Ctx].conn # "new"

(* A session that was lost comes back ("Connecting again in loop"), unless *)
(* the process ends.  It does not: nobody runs the new context.            *)
SessionComesBack ==
  runs # 0 /\ ctxs[runs].conn = "lost"
    ~> main = "gone" \/ \E c \in 1..Ctx : ctxs[c].conn = "up"
=============================================================================
