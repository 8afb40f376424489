----------------------------- MODULE HeartBeat -----------------------------
(***************************************************************************)
(* The heart beat of the client, in time.  Every 25 s the thread heartBeat *)
(* sends a message through the XMPP server to the client itself; run() of  *)
(* MessageHandler, when it gets there, tells the watchdog, which looks     *)
(* every 30 s and kills and restarts a client that was silent too long.    *)
(* reboot() keeps run() asleep for 30 s.                                   *)
(*                                                                         *)
(* Time passes in Tick, and only when no thread has anything to do: what   *)
(* the threads do takes no time.  A session that was lost stays lost, as   *)
(* XmppSession shows.                                                      *)
(***************************************************************************)
EXTENDS Integers, Sequences

CONSTANTS Period,       \* sleep of heartBeat between two messages
          Window,       \* the watchdog's time between two looks
          Latency,      \* the longest time through the XMPP server
          RebootSleep,  \* sleep of reboot()
          Patience,     \* windows without a beat until the watchdog kills
          None

ASSUME HeartBeatAssumption ==
  /\ {Period, Window, RebootSleep, Patience} \subseteq Nat \ {0}
  /\ Latency \in Nat /\ Latency < Period
  /\ None \notin Int

VARIABLES
  phase,    \* "off": the device reboots, "boot": main() sleeps, "run"
  link,     \* the session: "down" until connected, "up", "lost"
  hb,       \* the time heartBeat still sleeps, None before its creation
  flight,   \* the age of the message that is on its way, or None
  msgQ,     \* MessageHandler::msgQ
  mh,       \* the time reboot() still sleeps, None when run() is free
  wd,       \* the time until the watchdog looks
  got,      \* watchdog: was there a beat since it looked?
  silent,   \* watchdog: how many windows without one?
  watched,  \* watchdog: does it know the process?
  settled,  \* observation: has a beat been told since heartBeat exists?
  lostFor   \* observation: the time since the session was lost

vars == <<phase, link, hb, flight, msgQ, mh, wd, got, silent, watched, settled, lostFor>>
observed == <<settled, lostFor>>
client == <<phase, link, hb, flight, msgQ, mh, observed>>
watchdog == <<wd, got, silent, watched>>

Time(max) == 0..max \cup {None}

(* The longest time that a lost session may stay: the window in which the  *)
(* last beat came, and those the watchdog forgives.                        *)
MaxLost == (Patience + 1) * Window

TypeOK ==
  /\ phase \in {"off", "boot", "run"}
  /\ link \in {"down", "up", "lost"}
  /\ hb \in Time(Period) /\ flight \in Time(Latency) /\ mh \in Time(RebootSleep)
  /\ msgQ \in Seq({"beat", "reboot"})
  /\ wd \in 0..Window /\ silent \in 0..Patience - 1
  /\ got \in BOOLEAN /\ watched \in BOOLEAN /\ settled \in BOOLEAN
  /\ lostFor \in 0..MaxLost + 1
  /\ settled => hb # None

(* The client starts, or starts again: nothing is left of what it was. *)
Restart(p) ==
  /\ phase' = p /\ link' = "down" /\ hb' = None /\ flight' = None
  /\ msgQ' = <<>> /\ mh' = None /\ settled' = FALSE /\ lostFor' = 0

Init ==
  /\ phase = "boot" /\ link = "down" /\ hb = None /\ flight = None
  /\ msgQ = <<>> /\ mh = None /\ settled = FALSE /\ lostFor = 0
  /\ wd = Window /\ got = FALSE /\ silent = 0 /\ watched = FALSE

-----------------------------------------------------------------------------
PowerOn ==
  /\ phase = "off" /\ phase' = "boot"
  /\ UNCHANGED <<link, hb, flight, msgQ, mh, observed, watchdog>>

(* main(), after its two minutes: the first beat before it connects *)
MainStarts ==
  /\ phase = "boot" /\ phase' = "run"
  /\ msgQ' = Append(msgQ, "beat")
  /\ UNCHANGED <<link, hb, flight, mh, observed, watchdog>>

(* onXmppConnect creates heartBeat. *)
Connected ==
  /\ phase = "run" /\ link = "down"
  /\ link' = "up" /\ hb' = Period
  /\ UNCHANGED <<phase, flight, msgQ, mh, observed, watchdog>>

(* onXmppDisconnect, before or after the session was up *)
Lost ==
  /\ phase = "run" /\ link # "lost"
  /\ link' = "lost" /\ flight' = None
  /\ UNCHANGED <<phase, hb, msgQ, mh, observed, watchdog>>

(* Mutant of HBSends: the beat is handed to run() directly. *)
HBPushes ==
  /\ hb = 0 /\ hb' = Period
  /\ msgQ' = Append(msgQ, "beat")
  /\ UNCHANGED <<phase, link, flight, mh, observed, watchdog>>

(* heartBeat *)
HBSends ==
  /\ hb = 0 /\ hb' = Period
  /\ flight' = IF link = "up" THEN 0 ELSE None
  /\ UNCHANGED <<phase, link, msgQ, mh, observed, watchdog>>

(* message_handler: the beat is back. *)
Arrives ==
  /\ flight # None /\ flight' = None
  /\ msgQ' = Append(msgQ, "beat")
  /\ UNCHANGED <<phase, link, hb, mh, observed, watchdog>>

(* The panel sends one reboot_system at a time. *)
PanelReboots ==
  /\ link = "up" /\ mh = None
  /\ "reboot" \notin {msgQ[i] : i \in DOMAIN msgQ}
  /\ msgQ' = Append(msgQ, "reboot")
  /\ UNCHANGED <<phase, link, hb, flight, mh, observed, watchdog>>

-----------------------------------------------------------------------------
(* MessageHandler::run *)

Takes(m) == mh = None /\ msgQ # <<>> /\ Head(msgQ) = m /\ msgQ' = Tail(msgQ)

(* sendHeartBeat *)
MHTellsWatchDog ==
  /\ Takes("beat")
  /\ got' = TRUE /\ watched' = TRUE
  /\ settled' = (hb # None)
  /\ UNCHANGED <<phase, link, hb, flight, mh, wd, silent, lostFor>>

(* Mutant of MHReboots: it sleeps after the upload and once more. *)
MHRebootsLate ==
  /\ Takes("reboot")
  /\ mh' = 2 * RebootSleep
  /\ UNCHANGED <<phase, link, hb, flight, observed, watchdog>>

(* reboot(), which sleeps *)
MHReboots ==
  /\ Takes("reboot")
  /\ mh' = RebootSleep
  /\ UNCHANGED <<phase, link, hb, flight, observed, watchdog>>

(* ... and asks the watchdog, which reboots the device. *)
MHAsksReboot ==
  /\ mh = 0
  /\ Restart("off")
  /\ wd' = Window /\ got' = FALSE /\ silent' = 0 /\ watched' = FALSE

-----------------------------------------------------------------------------
(* The watchdog (external) *)

Looks == wd = 0 /\ wd' = Window /\ got' = FALSE

WDIsContent ==
  /\ Looks
  /\ got \/ ~watched
  /\ silent' = 0
  /\ UNCHANGED <<client, watched>>

WDWaits ==
  /\ Looks
  /\ watched /\ ~got /\ silent + 1 < Patience
  /\ silent' = silent + 1
  /\ UNCHANGED <<client, watched>>

WDKills ==
  /\ Looks
  /\ watched /\ ~got /\ silent + 1 = Patience
  /\ silent' = 0 /\ watched' = FALSE
  /\ Restart("boot")

WDStep == WDIsContent \/ WDWaits \/ WDKills

-----------------------------------------------------------------------------
(* Somebody has to act before time goes on. *)
Due == 0 \in {hb, mh, wd} \/ (mh = None /\ msgQ # <<>>) \/ flight = Latency

Tick ==
  /\ ~Due /\ phase # "off"
  /\ hb' = IF hb = None THEN None ELSE hb - 1
  /\ mh' = IF mh = None THEN None ELSE mh - 1
  /\ flight' = IF flight = None THEN None ELSE flight + 1
  /\ wd' = wd - 1
  /\ lostFor' = IF link = "lost" /\ lostFor <= MaxLost THEN lostFor + 1 ELSE lostFor
  /\ UNCHANGED <<phase, link, msgQ, got, silent, watched, settled>>

MHStep == MHTellsWatchDog \/ MHReboots \/ MHAsksReboot

Next == PowerOn \/ MainStarts \/ Connected \/ Lost \/ HBSends \/ Arrives
        \/ PanelReboots \/ MHStep \/ WDStep \/ Tick

Spec == Init /\ [][Next]_vars

(* Time passes, the threads run, and a server that can be reached again    *)
(* and again is connected to at last.                                      *)
Fairness ==
  /\ WF_vars(Tick) /\ WF_vars(PowerOn) /\ WF_vars(MainStarts) /\ SF_vars(Connected)
  /\ WF_vars(HBSends) /\ WF_vars(Arrives) /\ WF_vars(MHStep) /\ WF_vars(WDStep)

FairSpec == Spec /\ Fairness

-----------------------------------------------------------------------------
(* A client whose beats have begun is never killed while its session is    *)
(* up, nor in the sleep of reboot(), which keeps the beats waiting: a      *)
(* reboot that has begun is not cut off, even if the session is lost.      *)
SettledIsSafe == [][WDKills => ~(settled /\ (link = "up" \/ mh # None))]_vars

(* A session that was lost does not stay so for longer than the windows    *)
(* the watchdog forgives and one more: the beats end with the session,     *)
(* whatever waits in msgQ, and the client is then started again.           *)
LostIsBounded == lostFor <= MaxLost

(* A lost session is replaced: since the beats take the way through the    *)
(* server, they stop with it and the watchdog restarts the client ("If     *)
(* no-response, watchdog kill us & restart").                              *)
LostIsReplaced == link = "lost" ~> link = "up"

(* "Going to reboot in 30 secs": a reboot that has begun is carried out    *)
(* before the watchdog loses patience, if the beats had begun by then.     *)
RebootIsAsked == settled /\ mh # None ~> phase = "off"
=============================================================================
