-------------------------- MODULE HeartBeatProofs --------------------------
(***************************************************************************)
(* What the heart beat promises, for every choice of its periods: a client *)
(* that lost its session is restarted in time, and, if the watchdog's      *)
(* patience is longer than a period, the way through the server and the    *)
(* sleep of reboot() together, no client is killed while it works.         *)
(***************************************************************************)
EXTENDS HeartBeat, SequenceTheorems, TLAPS

(* The assumption on the constants, one number at a time. *)
LEMMA Numbers ==
  /\ Period \in Nat /\ Window \in Nat /\ RebootSleep \in Nat /\ Patience \in Nat
  /\ 0 < Period /\ 0 < Window /\ 0 < RebootSleep /\ 0 < Patience
  /\ Latency \in Nat /\ Latency < Period
  /\ None \notin Int
  /\ MaxLost \in Nat
<1>1. {Period, Window, RebootSleep, Patience} \subseteq Nat \ {0}
  BY HeartBeatAssumption
<1>2. (Patience + 1) * Window \in Nat
  BY <1>1
<1> QED BY <1>1, <1>2, HeartBeatAssumption DEF MaxLost

USE Numbers

(* Appending to and taking from msgQ, in terms of what the proofs ask of   *)
(* it: is it empty, and what comes first?                                  *)
LEMMA QueueFacts ==
  ASSUME NEW q \in Seq({"beat", "reboot"}), NEW m \in {"beat", "reboot"}
  PROVE  /\ Append(q, m) \in Seq({"beat", "reboot"})
         /\ Append(q, m) # <<>>
         /\ q # <<>> => Head(Append(q, m)) = Head(q)
         /\ q = <<>> => Head(Append(q, m)) = m
         /\ q # <<>> => Tail(q) \in Seq({"beat", "reboot"})
<1> QED OBVIOUS

-----------------------------------------------------------------------------
LEMMA InitTyped == Init => TypeOK
<1>1. <<>> \in Seq({"beat", "reboot"})
  BY EmptySeq
<1> SUFFICES ASSUME Init PROVE TypeOK
  OBVIOUS
<1>2. got \in BOOLEAN /\ watched \in BOOLEAN /\ settled \in BOOLEAN /\ ~settled
  BY DEF Init
<1>3. /\ phase = "boot" /\ link = "down" /\ hb = None /\ flight = None /\ mh = None
      /\ msgQ = <<>> /\ lostFor = 0 /\ wd = Window /\ silent = 0
  BY DEF Init
<1> QED BY <1>1, <1>2, <1>3 DEF TypeOK, Time

LEMMA StepTyped == TypeOK /\ [Next]_vars => TypeOK'
<1> SUFFICES ASSUME TypeOK, [Next]_vars PROVE TypeOK'
  OBVIOUS
<1> USE DEF TypeOK, Time, observed, client, watchdog
<1>a. <<>> \in Seq({"beat", "reboot"})
  BY EmptySeq
<1>1. CASE PowerOn  BY <1>1 DEF PowerOn
<1>2. CASE MainStarts  BY <1>2, QueueFacts DEF MainStarts
<1>3. CASE Connected  BY <1>3 DEF Connected
<1>4. CASE Lost  BY <1>4 DEF Lost
<1>5. CASE HBSends  BY <1>5 DEF HBSends
<1>6. CASE Arrives  BY <1>6, QueueFacts DEF Arrives
<1>7. CASE PanelReboots  BY <1>7, QueueFacts DEF PanelReboots
<1>8. CASE MHTellsWatchDog
  <2>1. msgQ' \in Seq({"beat", "reboot"})
    BY <1>8, QueueFacts DEF MHTellsWatchDog, Takes
  <2>2. settled' \in BOOLEAN /\ (settled' => hb' # None)
    BY <1>8 DEF MHTellsWatchDog
  <2> QED BY <1>8, <2>1, <2>2 DEF MHTellsWatchDog
<1>9. CASE MHReboots  BY <1>9, QueueFacts DEF MHReboots, Takes
<1>10. CASE MHAsksReboot
  <2>1. /\ got' \in BOOLEAN /\ watched' \in BOOLEAN /\ settled' \in BOOLEAN
        /\ ~settled'
    BY <1>10 DEF MHAsksReboot, Looks, Restart
  <2>2. /\ phase' \in {"off", "boot"} /\ link' = "down" /\ hb' = None
        /\ flight' = None /\ msgQ' = <<>> /\ mh' = None /\ lostFor' = 0
        /\ wd' = Window /\ silent' = 0
    BY <1>10 DEF MHAsksReboot, Looks, Restart
  <2> QED BY <2>1, <2>2, <1>a
<1>11. CASE WDIsContent
  <2>1. got' \in BOOLEAN
    BY <1>11 DEF WDIsContent, Looks
  <2>2. wd' = Window /\ silent' \in 0..Patience - 1
    BY <1>11 DEF WDIsContent, Looks
  <2>3. UNCHANGED <<client, watched>>
    BY <1>11 DEF WDIsContent
  <2> QED BY <2>1, <2>2, <2>3
<1>12. CASE WDWaits
  <2>1. got' \in BOOLEAN
    BY <1>12 DEF WDWaits, Looks
  <2>2. wd' = Window /\ silent' \in 0..Patience - 1
    BY <1>12 DEF WDWaits, Looks
  <2>3. UNCHANGED <<client, watched>>
    BY <1>12 DEF WDWaits
  <2> QED BY <2>1, <2>2, <2>3
<1>13. CASE WDKills
  <2>1. /\ got' \in BOOLEAN /\ watched' \in BOOLEAN /\ settled' \in BOOLEAN
        /\ ~settled'
    BY <1>13 DEF WDKills, Looks, Restart
  <2>2. /\ phase' \in {"off", "boot"} /\ link' = "down" /\ hb' = None
        /\ flight' = None /\ msgQ' = <<>> /\ mh' = None /\ lostFor' = 0
        /\ wd' = Window /\ silent' = 0
    BY <1>13 DEF WDKills, Looks, Restart
  <2> QED BY <2>1, <2>2, <1>a
<1>14. CASE Tick
  <2>1. hb' \in Time(Period) /\ mh' \in Time(RebootSleep) /\ (settled => hb' # None)
    BY <1>14 DEF Tick, Due
  <2>2. flight' \in Time(Latency)
    BY <1>14 DEF Tick, Due
  <2>3. wd' \in 0..Window
    BY <1>14 DEF Tick, Due
  <2>4. lostFor' \in 0..MaxLost + 1
    BY <1>14 DEF Tick
  <2> QED BY <1>14, <2>1, <2>2, <2>3, <2>4 DEF Tick
<1>15. CASE UNCHANGED vars  BY <1>15 DEF vars
<1> QED BY <1>1, <1>2, <1>3, <1>4, <1>5, <1>6, <1>7, <1>8, <1>9, <1>10, <1>11,
           <1>12, <1>13, <1>14, <1>15 DEF Next, MHStep, WDStep

(* The clocks stay in their ranges: no thread oversleeps, no message stays *)
(* longer than Latency, and heartBeat exists once a beat was told.         *)
THEOREM TypeCorrect == Spec => []TypeOK
BY InitTyped, StepTyped, PTL DEF Spec

-----------------------------------------------------------------------------
(* heartBeat exists with the session, a beat that is on its way was sent   *)
(* when heartBeat began the sleep it is in, and only over a session.       *)
Sessions ==
  /\ link = "up" => hb # None
  /\ link = "down" => hb = None
  /\ flight # None => link = "up" /\ flight = Period - hb
  /\ phase # "run" => link = "down" /\ msgQ = <<>> /\ mh = None /\ ~settled

(* Before it knows the client the watchdog is about to be told: the first  *)
(* message is main()'s beat.                                               *)
Announced ==
  /\ phase = "run" /\ ~watched => mh = None /\ msgQ # <<>> /\ Head(msgQ) = "beat"
  /\ settled => watched

LEMMA InitSessions == Init => Sessions /\ Announced
BY DEF Init, Sessions, Announced

LEMMA StepSessions == TypeOK /\ Sessions /\ [Next]_vars => Sessions'
<1> SUFFICES ASSUME TypeOK, Sessions, [Next]_vars PROVE Sessions'
  OBVIOUS
<1> USE DEF TypeOK, Time, Sessions, observed, client, watchdog
<1>1. CASE PowerOn \/ MainStarts \/ Connected \/ Lost
  BY <1>1 DEF PowerOn, MainStarts, Connected, Lost
<1>2. CASE HBSends
  <2>1. flight = None
    BY <1>2 DEF HBSends
  <2> QED BY <1>2, <2>1 DEF HBSends
<1>3. CASE Arrives \/ PanelReboots
  BY <1>3 DEF Arrives, PanelReboots
<1>4. CASE MHTellsWatchDog \/ MHReboots
  <2>1. msgQ # <<>> /\ UNCHANGED <<phase, link, hb, flight>>
    BY <1>4 DEF MHTellsWatchDog, MHReboots, Takes
  <2> QED BY <2>1
<1>5. CASE MHAsksReboot \/ WDKills
  <2>1. link' = "down" /\ msgQ' = <<>> /\ mh' = None /\ ~settled' /\ hb' = None /\ flight' = None
    BY <1>5 DEF MHAsksReboot, WDKills, Restart
  <2> QED BY <2>1
<1>6. CASE WDIsContent \/ WDWaits
  <2>1. UNCHANGED client
    BY <1>6 DEF WDIsContent, WDWaits
  <2> QED BY <2>1
<1>7. CASE Tick
  <2>1. phase = "run" \/ (hb = None /\ mh = None /\ flight = None)
    OBVIOUS
  <2> QED BY <1>7, <2>1 DEF Tick
<1>8. CASE UNCHANGED vars  BY <1>8 DEF vars
<1> QED BY <1>1, <1>2, <1>3, <1>4, <1>5, <1>6, <1>7, <1>8 DEF Next, MHStep, WDStep

LEMMA StepAnnounced == TypeOK /\ Sessions /\ Announced /\ [Next]_vars => Announced'
<1> SUFFICES ASSUME TypeOK, Sessions, Announced, [Next]_vars PROVE Announced'
  OBVIOUS
<1> USE DEF TypeOK, Time, Announced, observed, client, watchdog
<1>1. CASE MainStarts
  <2>1. msgQ = <<>> /\ mh = None
    BY <1>1 DEF MainStarts, Sessions
  <2>2. msgQ' # <<>> /\ Head(msgQ') = "beat" /\ UNCHANGED <<mh, settled, watched>>
    BY <1>1, <2>1, QueueFacts DEF MainStarts
  <2> QED BY <2>1, <2>2
<1>2. CASE Arrives \/ PanelReboots
  <2>1. PICK m \in {"beat", "reboot"} : msgQ' = Append(msgQ, m)
    BY <1>2 DEF Arrives, PanelReboots
  <2>2. msgQ # <<>> => msgQ' # <<>> /\ Head(msgQ') = Head(msgQ)
    BY <2>1, QueueFacts
  <2>3. UNCHANGED <<phase, mh, settled, watched>>
    BY <1>2 DEF Arrives, PanelReboots
  <2> QED BY <2>2, <2>3
<1>3. CASE MHTellsWatchDog
  <2>1. watched'
    BY <1>3 DEF MHTellsWatchDog
  <2> QED BY <2>1
<1>4. CASE MHReboots
  <2>1. msgQ # <<>> /\ Head(msgQ) = "reboot" /\ UNCHANGED <<phase, settled, watched>>
    BY <1>4 DEF MHReboots, Takes
  <2> QED BY <2>1
<1>5. CASE MHAsksReboot \/ WDKills
  <2>1. phase' # "run" /\ ~settled'
    BY <1>5 DEF MHAsksReboot, WDKills, Restart
  <2> QED BY <2>1
<1>6. CASE PowerOn \/ Connected \/ Lost \/ HBSends
  <2>1. phase' = "run" => phase = "run"
    BY <1>6 DEF PowerOn, Connected, Lost, HBSends
  <2>2. UNCHANGED <<msgQ, mh, settled, watched>>
    BY <1>6 DEF PowerOn, Connected, Lost, HBSends
  <2> QED BY <2>1, <2>2
<1>7. CASE WDIsContent \/ WDWaits \/ UNCHANGED vars
  <2>1. UNCHANGED <<phase, msgQ, mh, settled, watched>>
    BY <1>7 DEF WDIsContent, WDWaits, vars
  <2> QED BY <2>1
<1>8. CASE Tick
  <2>1. UNCHANGED <<phase, msgQ, settled, watched>> /\ (mh = None => mh' = None)
    BY <1>8 DEF Tick
  <2> QED BY <2>1
<1> QED BY <1>1, <1>2, <1>3, <1>4, <1>5, <1>6, <1>7, <1>8 DEF Next, MHStep, WDStep

-----------------------------------------------------------------------------
(* While a session is lost its age is at most that of the watchdog's       *)
(* silence and the window before it; a message that waits in msgQ is       *)
(* handled before any time passes, unless reboot() sleeps.                 *)
Aging ==
  IF link = "lost"
  THEN /\ mh = None /\ msgQ # <<>> => lostFor = 0
       /\ got => lostFor <= Window - wd
       /\ ~got => lostFor <= (silent + 1) * Window + (Window - wd)
  ELSE lostFor = 0

(* Windows are added up. *)
LEMMA Windows ==
  ASSUME NEW n \in Nat
  PROVE  /\ n * Window \in Nat
         /\ (n + 1) * Window = n * Window + Window
<1> QED OBVIOUS

LEMMA StepAging == TypeOK /\ Sessions /\ Announced /\ Aging /\ [Next]_vars => Aging'
<1> SUFFICES ASSUME TypeOK, Sessions, Announced, Aging, [Next]_vars PROVE Aging'
  OBVIOUS
<1> USE DEF TypeOK, Time, observed, client, watchdog
<1>a. /\ wd \in Nat /\ wd <= Window /\ silent \in Nat /\ lostFor \in Nat
      /\ silent * Window \in Nat /\ (silent + 1) * Window \in Nat
      /\ (silent + 1) * Window = silent * Window + Window
  BY Windows
<1>1. CASE PowerOn \/ MainStarts \/ Connected \/ Arrives \/ PanelReboots
  <2>1. link # "lost" /\ link' # "lost" /\ lostFor' = lostFor
    BY <1>1 DEF PowerOn, MainStarts, Connected, Arrives, PanelReboots, Sessions
  <2> QED BY <2>1 DEF Aging
<1>2. CASE Lost
  <2>1. link' = "lost" /\ lostFor' = 0 /\ UNCHANGED <<wd, got, silent>>
    BY <1>2 DEF Lost, Aging
  <2> QED BY <1>a, <2>1 DEF Aging
<1>3. CASE HBSends \/ UNCHANGED vars
  <2>1. UNCHANGED <<link, mh, msgQ, lostFor, wd, got, silent>>
    BY <1>3 DEF HBSends, vars
  <2> QED BY <2>1 DEF Aging
<1>4. CASE MHTellsWatchDog
  <2>1. UNCHANGED <<link, lostFor, wd>> /\ got' /\ mh = None /\ msgQ # <<>>
    BY <1>4 DEF MHTellsWatchDog, Takes
  <2>2. lostFor = 0
    BY <2>1 DEF Aging
  <2> QED BY <1>a, <2>1, <2>2 DEF Aging
<1>5. CASE MHReboots
  <2>1. UNCHANGED <<link, lostFor, wd, got, silent>> /\ mh' # None
    BY <1>5 DEF MHReboots
  <2> QED BY <2>1 DEF Aging
<1>6. CASE MHAsksReboot \/ WDKills
  <2>1. link' = "down" /\ lostFor' = 0
    BY <1>6 DEF MHAsksReboot, WDKills, Restart
  <2> QED BY <2>1 DEF Aging
<1>7. CASE WDIsContent
  <2>1. UNCHANGED <<link, lostFor, mh, msgQ>> /\ ~got' /\ wd = 0 /\ wd' = Window /\ silent' = 0
    BY <1>7 DEF WDIsContent, Looks
  <2>2. CASE link = "lost"
    <3>1. got \/ (phase = "run" /\ ~watched)
      BY <1>7, <2>2 DEF WDIsContent, Sessions
    <3>2. lostFor <= Window
      BY <1>a, <2>1, <2>2, <3>1 DEF Aging, Announced
    <3>3. (silent' + 1) * Window + (Window - wd') = Window
      BY <2>1
    <3> QED BY <2>1, <2>2, <3>2, <3>3 DEF Aging
  <2> QED BY <2>1, <2>2 DEF Aging
<1>8. CASE WDWaits
  <2>1. /\ UNCHANGED <<link, lostFor, mh, msgQ>> /\ ~got /\ ~got' /\ wd = 0 /\ wd' = Window
        /\ silent' = silent + 1
    BY <1>8 DEF WDWaits, Looks
  <2>2. (silent' + 1) * Window = (silent + 1) * Window + Window
    BY <1>a, <2>1, Windows
  <2>3. (silent' + 1) * Window + (Window - wd') = (silent + 1) * Window + (Window - wd)
    BY <1>a, <2>1, <2>2
  <2> QED BY <2>1, <2>3 DEF Aging
<1>9. CASE Tick
  <2>1. /\ UNCHANGED <<link, msgQ, got, silent>> /\ wd' = wd - 1
        /\ mh = None => msgQ = <<>>
        /\ mh' = None => mh = None
        /\ lostFor' <= lostFor + 1 /\ lostFor' \in Nat /\ (link # "lost" => lostFor' = lostFor)
    BY <1>9 DEF Tick, Due
  <2>2. (silent + 1) * Window + (Window - wd') = (silent + 1) * Window + (Window - wd) + 1
    BY <1>a, <2>1
  <2> HIDE <1>9 DEF TypeOK, Time
  <2>3. CASE link = "lost"
    <3>1. got => lostFor' <= Window - wd'
      BY <1>a, <2>1, <2>3 DEF Aging
    <3>2. ~got => lostFor' <= (silent + 1) * Window + (Window - wd')
      BY <1>a, <2>1, <2>2, <2>3 DEF Aging
    <3>3. ~(mh' = None /\ msgQ' # <<>>)
      BY <2>1
    <3> QED BY <2>1, <2>3, <3>1, <3>2, <3>3 DEF Aging
  <2>4. CASE link # "lost"
    BY <2>1, <2>4 DEF Aging
  <2> QED BY <2>3, <2>4
<1> QED BY <1>1, <1>2, <1>3, <1>4, <1>5, <1>6, <1>7, <1>8, <1>9
        DEF Next, MHStep, WDStep

(* The watchdog notices a session that was lost, whatever the periods are: *)
(* the client is restarted within the windows it forgives and one more.    *)
THEOREM LostIsReplacedInTime == Spec => []LostIsBounded
<1>1. Init => Aging
  BY DEF Init, Aging
<1>2. TypeOK /\ Aging => LostIsBounded
  <2> SUFFICES ASSUME TypeOK, Aging PROVE lostFor <= MaxLost
    BY DEF LostIsBounded
  <2>1. /\ silent \in Nat /\ wd \in Nat /\ wd <= Window /\ silent + 1 <= Patience
        /\ lostFor \in Nat
    BY DEF TypeOK
  <2>2. (silent + 1) * Window <= Patience * Window /\ Patience * Window \in Nat
    BY <2>1
  <2>3. MaxLost = Patience * Window + Window
    BY Windows DEF MaxLost
  <2>4. (silent + 1) * Window \in Nat
    BY <2>1
  <2> QED BY <2>1, <2>2, <2>3, <2>4 DEF Aging
<1> QED BY <1>1, <1>2, InitTyped, InitSessions, StepTyped, StepSessions, StepAnnounced,
        StepAging, PTL DEF Spec

-----------------------------------------------------------------------------
(* The watchdog's patience is longer than the longest time between two     *)
(* beats and the sleep of reboot() together: 60 s are more than 25 s, the  *)
(* way of the message and 30 s.                                            *)
InTime == Period + Latency + RebootSleep < Patience * Window

(* How long the watchdog has been waiting ... *)
Silence == IF got THEN 0 ELSE silent * Window + (Window - wd)

(* ... and how long it may, from where the last beat and run() are. *)
Delay == IF mh # None THEN Period + Latency + (RebootSleep - mh)
         ELSE IF msgQ # <<>> THEN Period + Latency
         ELSE IF flight # None THEN Period + flight
         ELSE Period - hb

(* A client that is served, or is about to be, has not been silent for     *)
(* longer than that.                                                       *)
Punctual == settled /\ (link = "up" \/ mh # None \/ msgQ # <<>>) => Silence <= Delay

(* What the steps of the watchdog and of time make of the silence. *)
LEMMA SilenceFacts ==
  ASSUME TypeOK
  PROVE  /\ Silence \in Nat
         /\ UNCHANGED watchdog => Silence' = Silence
         /\ WDIsContent => Silence' = 0
         /\ WDWaits => Silence' = Silence
         /\ WDKills => Silence = Patience * Window
         /\ Tick => Silence' <= Silence + 1
         /\ Tick => Silence' \in Nat
<1>1. wd \in Nat /\ wd <= Window /\ silent \in Nat /\ silent * Window \in Nat
      /\ (silent + 1) * Window = silent * Window + Window
  BY Windows DEF TypeOK
<1>2. Silence \in Nat
  BY <1>1 DEF Silence
<1>3. UNCHANGED watchdog => Silence' = Silence
  BY DEF watchdog, Silence
<1>4. WDIsContent => Silence' = 0
  <2> SUFFICES ASSUME WDIsContent PROVE Silence' = 0
    OBVIOUS
  <2>1. silent' = 0 /\ wd' = Window
    BY DEF WDIsContent, Looks
  <2> QED BY <2>1 DEF Silence
<1>5. WDWaits => Silence' = Silence
  <2> SUFFICES ASSUME WDWaits PROVE Silence' = Silence
    OBVIOUS
  <2>1. ~got /\ ~got' /\ wd = 0 /\ wd' = Window /\ silent' = silent + 1
    BY DEF WDWaits, Looks
  <2> QED BY <1>1, <2>1 DEF Silence
<1>6. WDKills => Silence = Patience * Window
  <2> SUFFICES ASSUME WDKills PROVE Silence = Patience * Window
    OBVIOUS
  <2>1. ~got /\ wd = 0 /\ silent + 1 = Patience
    BY DEF WDKills, Looks
  <2> QED BY <1>1, <2>1 DEF Silence
<1>7. Tick => Silence' <= Silence + 1 /\ Silence' \in Nat
  <2> SUFFICES ASSUME Tick PROVE Silence' <= Silence + 1 /\ Silence' \in Nat
    OBVIOUS
  <2>1. got' = got /\ silent' = silent /\ wd' = wd - 1
    BY DEF Tick
  <2> QED BY <1>1, <2>1 DEF Silence
<1> QED BY <1>2, <1>3, <1>4, <1>5, <1>6, <1>7

LEMMA StepPunctual == TypeOK /\ Sessions /\ Punctual /\ [Next]_vars => Punctual'
<1> SUFFICES ASSUME TypeOK, Sessions, Punctual, [Next]_vars,
                    settled', link' = "up" \/ mh' # None \/ msgQ' # <<>>
             PROVE  Silence' <= Delay'
  BY DEF Punctual
<1> USE DEF observed, client
<1>a. /\ hb \in 0..Period \cup {None} /\ flight \in 0..Latency \cup {None}
      /\ mh \in 0..RebootSleep \cup {None}
  BY DEF TypeOK, Time
<1>b. link = "up" => hb \in 0..Period
  BY <1>a DEF Sessions
<1>c. /\ Silence \in Nat
      /\ UNCHANGED watchdog => Silence' = Silence
      /\ WDIsContent => Silence' = 0
      /\ WDWaits => Silence' = Silence
      /\ Tick => Silence' <= Silence + 1 /\ Silence' \in Nat
  BY SilenceFacts
<1>d. link = "up" \/ mh # None \/ msgQ # <<>> => Delay \in Nat
  BY <1>a, <1>b DEF Delay
<1>e. settled /\ link = "up" /\ mh = None => Silence <= Period + Latency
  <2> SUFFICES ASSUME settled, link = "up", mh = None PROVE Silence <= Period + Latency
    OBVIOUS
  <2>1. Silence <= Delay
    BY DEF Punctual
  <2>2. Delay <= Period + Latency
    BY <1>a, <1>b DEF Delay
  <2> QED BY <1>c, <1>d, <2>1, <2>2
<1>1. CASE PowerOn \/ MainStarts
  <2>1. ~settled /\ settled' = settled
    BY <1>1 DEF PowerOn, MainStarts, Sessions
  <2> QED BY <2>1
<1>2. CASE Connected
  <2>1. ~settled
    BY <1>2 DEF Connected, Sessions, TypeOK
  <2> QED BY <1>2, <2>1 DEF Connected
<1>3. CASE Lost
  <2>1. UNCHANGED <<mh, msgQ, settled>> /\ flight' = None /\ link' = "lost" /\ UNCHANGED watchdog
    BY <1>3 DEF Lost
  <2>2. mh # None \/ msgQ # <<>>
    BY <2>1
  <2>3. Silence <= Delay
    BY <2>1, <2>2 DEF Punctual
  <2>4. Delay' = Delay
    BY <2>1, <2>2 DEF Delay
  <2> QED BY <1>c, <2>1, <2>3, <2>4
<1>4. CASE HBSends
  <2>1. /\ UNCHANGED <<link, mh, msgQ, settled>> /\ UNCHANGED watchdog
        /\ hb = 0 /\ hb' = Period /\ (link = "up" => flight' = 0)
    BY <1>4 DEF HBSends
  <2>2. flight = None
    BY <1>a, <2>1 DEF Sessions
  <2>3. Silence <= Delay
    BY <2>1 DEF Punctual
  <2>4. Delay' = Delay
    BY <1>a, <2>1, <2>2 DEF Delay
  <2> QED BY <1>c, <2>3, <2>4, <2>1
<1>5. CASE Arrives \/ PanelReboots
  <2>1. /\ link = "up" /\ UNCHANGED <<link, mh, settled>> /\ UNCHANGED watchdog /\ msgQ' # <<>>
    BY <1>5, QueueFacts DEF Arrives, PanelReboots, Sessions, TypeOK
  <2>2. CASE mh = None
    <3>1. Delay' = Period + Latency
      BY <2>1, <2>2 DEF Delay
    <3> QED BY <1>c, <1>e, <2>1, <2>2, <3>1
  <2>3. CASE mh # None
    <3>1. Delay' = Delay
      BY <2>1, <2>3 DEF Delay
    <3> QED BY <1>c, <2>1, <2>3, <3>1 DEF Punctual
  <2> QED BY <2>2, <2>3
<1>6. CASE MHTellsWatchDog
  <2>1. got' /\ UNCHANGED <<mh, link, hb, flight>> /\ mh = None
    BY <1>6 DEF MHTellsWatchDog, Takes
  <2>2. Silence' = 0
    BY <2>1 DEF Silence
  <2>3. Delay' \in Nat
    BY <1>a, <1>b, <2>1 DEF Delay
  <2> QED BY <2>2, <2>3
<1>7. CASE MHReboots
  <2>1. /\ mh = None /\ msgQ # <<>> /\ mh' = RebootSleep /\ UNCHANGED settled
        /\ UNCHANGED watchdog
    BY <1>7 DEF MHReboots, Takes
  <2>2. Silence <= Period + Latency
    BY <2>1 DEF Punctual, Delay
  <2>3. Delay' = Period + Latency
    BY <2>1 DEF Delay
  <2> QED BY <1>c, <2>1, <2>2, <2>3
<1>8. CASE MHAsksReboot \/ WDKills
  <2>1. ~settled'
    BY <1>8 DEF MHAsksReboot, WDKills, Restart
  <2> QED BY <2>1
<1>9. CASE WDIsContent \/ WDWaits
  <2>1. UNCHANGED <<link, mh, msgQ, hb, flight, settled>>
    BY <1>9 DEF WDIsContent, WDWaits
  <2>2. Delay' = Delay
    BY <2>1 DEF Delay
  <2>3. Silence <= Delay
    BY <2>1 DEF Punctual
  <2>4. Delay \in Nat
    BY <1>d, <2>1
  <2>5. Silence' = 0 \/ Silence' = Silence
    BY <1>9, <1>c
  <2> QED BY <2>2, <2>3, <2>4, <2>5
<1>10. CASE Tick
  <2>1. /\ UNCHANGED <<link, msgQ, settled>>
        /\ hb # None => hb' = hb - 1 /\ hb' # None
        /\ flight # None => flight' = flight + 1 /\ flight' # None
        /\ flight = None => flight' = None
        /\ mh = None => mh' = None /\ msgQ = <<>>
        /\ mh # None => mh' = mh - 1 /\ mh' # None
    <3>1. UNCHANGED <<link, msgQ, settled>> /\ ~(mh = None /\ msgQ # <<>>)
      BY <1>10 DEF Tick, Due
    <3>2. /\ hb' = IF hb = None THEN None ELSE hb - 1
          /\ mh' = IF mh = None THEN None ELSE mh - 1
          /\ flight' = IF flight = None THEN None ELSE flight + 1
      BY <1>10 DEF Tick
    <3>3. \A n \in Int : n # None
      OBVIOUS
    <3>4. hb # None => hb' = hb - 1 /\ hb' # None
      BY <1>a, <3>2, <3>3
    <3>5. /\ flight # None => flight' = flight + 1 /\ flight' # None
          /\ flight = None => flight' = None
      BY <1>a, <3>2, <3>3
    <3>6. /\ mh # None => mh' = mh - 1 /\ mh' # None
          /\ mh = None => mh' = None
      BY <1>a, <3>2, <3>3
    <3> QED BY <3>1, <3>4, <3>5, <3>6
  <2>2. link = "up" \/ mh # None \/ msgQ # <<>>
    BY <2>1
  <2>3. Silence <= Delay
    BY <2>1, <2>2 DEF Punctual
  <2>4. Delay' = Delay + 1
    <3>1. CASE mh # None
      BY <1>a, <2>1, <3>1 DEF Delay
    <3>2. CASE mh = None /\ flight # None
      BY <1>a, <2>1, <3>2 DEF Delay
    <3>3. CASE mh = None /\ flight = None
      <4>1. link = "up" /\ hb # None
        BY <2>1, <2>2, <3>3 DEF Sessions
      <4> QED BY <1>a, <2>1, <3>3, <4>1 DEF Delay
    <3> QED BY <3>1, <3>2, <3>3
  <2>5. Delay \in Nat
    BY <1>d, <2>2
  <2> QED BY <1>c, <1>10, <2>3, <2>4, <2>5
<1>11. CASE UNCHANGED vars
  <2>1. Silence' = Silence /\ Delay' = Delay
    BY <1>11 DEF vars, Silence, Delay
  <2> QED BY <1>11, <2>1 DEF Punctual, vars
<1> QED BY <1>1, <1>2, <1>3, <1>4, <1>5, <1>6, <1>7, <1>8, <1>9, <1>10, <1>11
        DEF Next, MHStep, WDStep

(* If the periods fit, no client is killed while its session is up and its *)
(* beats have begun, nor one whose reboot has begun.                       *)
THEOREM WorkingIsNeverKilled ==
  ASSUME InTime
  PROVE  Spec => SettledIsSafe
<1>1. Init => Punctual
  BY DEF Init, Punctual
<1>2. ASSUME TypeOK, Punctual, WDKills, settled, link = "up" \/ mh # None, Sessions
      PROVE  FALSE
  <2>1. Silence <= Delay /\ Silence = Patience * Window
    BY <1>2, SilenceFacts DEF Punctual
  <2>2. /\ hb \in 0..Period \cup {None} /\ flight \in 0..Latency \cup {None}
        /\ mh \in 0..RebootSleep \cup {None}
        /\ link = "up" => hb # None
    BY <1>2 DEF TypeOK, Time, Sessions
  <2>3. Delay <= Period + Latency + RebootSleep /\ Delay \in Nat
    BY <1>2, <2>2 DEF Delay
  <2>4. Patience * Window \in Nat
    OBVIOUS
  <2> QED BY <2>1, <2>3, <2>4 DEF InTime
<1>3. TypeOK /\ Sessions /\ Punctual /\ [Next]_vars
        => [WDKills => ~(settled /\ (link = "up" \/ mh # None))]_vars
  BY <1>2
<1> QED BY <1>1, <1>3, InitTyped, InitSessions, StepTyped, StepSessions,
        StepPunctual, PTL DEF Spec, SettledIsSafe
=============================================================================
