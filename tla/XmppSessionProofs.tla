------------------------- MODULE XmppSessionProofs -------------------------
(***************************************************************************)
(* What is true of the contexts of JabberClient for any number of senders, *)
(* refusals and commands.                                                  *)
(***************************************************************************)
EXTENDS XmppSession, SequenceTheorems, TLAPS

Starting == main \notin {"run", "spin", "gone"}

(* Nothing but main() has begun while main() is still connecting. *)
Alone ==
  /\ Starting => pending = 0 /\ ~spoilt /\ \A s \in Senders : using[s] = 0
  /\ mh # "idle" => runs # 0

(* Which of the contexts is live: the last one, from its creation until    *)
(* the thread that connects has shut it down.                              *)
LiveContext ==
  /\ main \in {"config", "connect", "sleep"} => \A i \in 1..Ctx : Freed(i)
  /\ main \in {"check", "failed", "start"} => Ctx > 0 /\ ~Freed(Ctx)
  /\ runs # 0 => Ctx > 0 /\ (Freed(Ctx) <=> mh = "connect")

(* A stanza is built in the context that main() runs or in a later one. *)
UsesLater == \A s \in Senders : using[s] # 0 => runs # 0 /\ using[s] >= runs

Lifetime == Alone /\ LiveContext /\ UsesLater /\ OneContext /\ CleanUntilReconnect

(* What the operators on contexts change. *)
LEMMA NewContextFacts ==
  ASSUME ctxs \in Seq(Context), NewContext
  PROVE  /\ ctxs' \in Seq(Context)
         /\ Ctx' = Ctx + 1 /\ ~Freed(Ctx)'
         /\ \A i \in 1..Ctx : Freed(i)' = Freed(i)
<1> DEFINE c == [mem |-> "live", conn |-> "new"]
<1>1. c \in Context
  BY DEF Context
<1>2. ctxs' = Append(ctxs, c)
  BY DEF NewContext
<1> HIDE DEF c
<1>3. /\ ctxs' \in Seq(Context) /\ Len(ctxs') = Len(ctxs) + 1
      /\ ctxs'[Len(ctxs) + 1] = c
      /\ \A i \in 1..Len(ctxs) : ctxs'[i] = ctxs[i]
  BY <1>1, <1>2, AppendProperties
<1>4. c.mem = "live"
  BY DEF c
<1> QED BY <1>3, <1>4 DEF Ctx, Freed

LEMMA FreeFacts ==
  ASSUME ctxs \in Seq(Context), Ctx > 0, Free
  PROVE  /\ ctxs' \in Seq(Context)
         /\ Ctx' = Ctx /\ Freed(Ctx)'
         /\ \A i \in 1..Ctx : i # Ctx => Freed(i)' = Freed(i)
<1> DEFINE c == [ctxs[Ctx] EXCEPT !.mem = "freed"]
<1>1. Ctx \in 1..Len(ctxs) /\ ctxs[Ctx] \in Context
  BY DEF Ctx
<1>2. c \in Context /\ c.mem = "freed"
  BY <1>1 DEF Context
<1>3. ctxs' = [ctxs EXCEPT ![Ctx] = c]
  BY DEF Free
<1> HIDE DEF c
<1>4. /\ ctxs' \in Seq(Context) /\ Len(ctxs') = Len(ctxs)
      /\ ctxs'[Ctx] = c
      /\ \A i \in 1..Len(ctxs) : i # Ctx => ctxs'[i] = ctxs[i]
  BY <1>1, <1>2, <1>3, ExceptSeq
<1> QED BY <1>1, <1>2, <1>4 DEF Ctx, Freed

LEMMA ConnFacts ==
  ASSUME ctxs \in Seq(Context), NEW r \in 1..Ctx, NEW s \in {"new", "trying", "up", "lost"},
         ctxs' = [ctxs EXCEPT ![r].conn = s]
  PROVE  /\ ctxs' \in Seq(Context)
         /\ Ctx' = Ctx
         /\ \A i \in 1..Ctx : Freed(i)' = Freed(i)
<1> DEFINE c == [ctxs[r] EXCEPT !.conn = s]
<1>1. r \in 1..Len(ctxs) /\ ctxs[r] \in Context
  BY DEF Ctx
<1>2. c \in Context /\ c.mem = ctxs[r].mem
  BY <1>1 DEF Context
<1>3. ctxs' = [ctxs EXCEPT ![r] = c]
  OBVIOUS
<1> HIDE DEF c
<1>4. /\ ctxs' \in Seq(Context) /\ Len(ctxs') = Len(ctxs)
      /\ ctxs'[r] = c
      /\ \A i \in 1..Len(ctxs) : i # r => ctxs'[i] = ctxs[i]
  BY <1>1, <1>2, <1>3, ExceptSeq
<1> QED BY <1>1, <1>2, <1>4 DEF Ctx, Freed

(* The context main() runs is freed if any context from it on is. *)
LEMMA FreedSinceRun ==
  ASSUME TypeOK, OneContext, runs # 0, NEW c \in runs..Ctx, Freed(c)
  PROVE  Freed(runs)
<1>1. Ctx \in Nat /\ runs \in 1..Ctx
  BY DEF TypeOK, Ctx
<1>2. CASE runs < Ctx
  BY <1>1, <1>2 DEF OneContext
<1>3. CASE runs = Ctx
  BY <1>1, <1>3
<1> QED BY <1>1, <1>2, <1>3

-----------------------------------------------------------------------------
LEMMA InitLifetime == Init => TypeOK /\ Lifetime
<1> SUFFICES ASSUME Init PROVE TypeOK /\ Lifetime
  OBVIOUS
<1>1. ctxs \in Seq(Context) /\ Ctx = 0
  BY DEF Init, Ctx
<1>2. 0 \in 0..Ctx /\ 0 \in 0..MaxCmds /\ 0 \in 0..MaxRefusals
  BY <1>1, XmppAssumption
<1>3. TypeOK
  BY <1>1, <1>2 DEF Init, TypeOK
<1>4. Lifetime
  BY <1>1 DEF Init, Lifetime, Alone, Starting, LiveContext, UsesLater, OneContext,
     CleanUntilReconnect
<1> QED BY <1>3, <1>4

(* Each step of the threads keeps all of it. *)
LEMMA StepLifetime ==
  ASSUME TypeOK, Lifetime, [Next]_vars
  PROVE  TypeOK' /\ Lifetime'
<1>a. /\ ctxs \in Seq(Context) /\ Ctx \in Nat /\ runs \in 0..Ctx
      /\ using \in [Senders -> 0..Ctx] /\ MaxRefusals \in Nat /\ MaxCmds \in Nat
      /\ refused \in 0..MaxRefusals /\ pending \in Nat
  BY XmppAssumption DEF TypeOK, Ctx
<1>b. main \in {"run", "spin"} => runs # 0 /\ runs \in 1..Ctx
  BY <1>a DEF TypeOK
<1> USE DEF Starting
<1>1. CASE MainConfigures
  <2>1. TypeOK'
    BY <1>1, <1>a, <1>b DEF MainConfigures, TypeOK, Ctx, Freed
  <2>2. Lifetime'
    BY <1>1, <1>a, <1>b DEF MainConfigures, Lifetime, Alone, LiveContext, UsesLater,
       OneContext, CleanUntilReconnect, TypeOK, Ctx, Freed
  <2> QED BY <2>1, <2>2
<1>2. CASE MainConnects
  <2>1. /\ ctxs' \in Seq(Context) /\ Ctx' = Ctx + 1 /\ ~Freed(Ctx)'
        /\ \A i \in 1..Ctx : Freed(i)' = Freed(i)
    BY <1>2, <1>a, <1>b, NewContextFacts DEF MainConnects
  <2>2. TypeOK'
    BY <1>2, <1>a, <1>b, <2>1 DEF MainConnects, TypeOK
  <2>3. Lifetime'
    BY <1>2, <1>a, <1>b, <2>1 DEF MainConnects, Lifetime, Alone, LiveContext, UsesLater,
       OneContext, CleanUntilReconnect, TypeOK
  <2> QED BY <2>2, <2>3
<1>3. CASE MainChecks
  <2>1. Ctx \in 1..Ctx
    BY <1>3, <1>a, <1>b DEF MainChecks, Lifetime, LiveContext
  <2>2. /\ ctxs' \in Seq(Context) /\ Ctx' = Ctx
        /\ \A i \in 1..Ctx : Freed(i)' = Freed(i)
    BY <1>3, <1>a, <1>b, <2>1, ConnFacts DEF MainChecks, Refuses, Connects, Ctx, Freed
  <2>3. TypeOK'
    BY <1>3, <1>a, <1>b, <2>1, <2>2 DEF MainChecks, Refuses, Connects, TypeOK
  <2>4. Lifetime'
    BY <1>3, <1>a, <1>b, <2>1, <2>2 DEF MainChecks, Refuses, Connects, Lifetime, Alone, LiveContext, UsesLater,
       OneContext, CleanUntilReconnect, TypeOK
  <2> QED BY <2>3, <2>4
<1>4. CASE MainShutsDown
  <2>1. /\ ctxs' \in Seq(Context) /\ Ctx' = Ctx /\ Freed(Ctx)'
        /\ \A i \in 1..Ctx : i # Ctx => Freed(i)' = Freed(i)
    BY <1>4, <1>a, <1>b, FreeFacts DEF MainShutsDown, Lifetime, LiveContext
  <2>2. TypeOK'
    BY <1>4, <1>a, <1>b, <2>1 DEF MainShutsDown, TypeOK
  <2>3. Lifetime'
    BY <1>4, <1>a, <1>b, <2>1 DEF MainShutsDown, Lifetime, Alone, LiveContext, UsesLater,
       OneContext, CleanUntilReconnect, TypeOK
  <2> QED BY <2>2, <2>3
<1>5. CASE MainWakes
  <2>1. TypeOK'
    BY <1>5, <1>a, <1>b DEF MainWakes, TypeOK, Ctx, Freed
  <2>2. Lifetime'
    BY <1>5, <1>a, <1>b DEF MainWakes, Lifetime, Alone, LiveContext, UsesLater,
       OneContext, CleanUntilReconnect, TypeOK, Ctx, Freed
  <2> QED BY <2>1, <2>2
<1>6. CASE MainStarts
  <2>1. TypeOK'
    BY <1>6, <1>a, <1>b DEF MainStarts, TypeOK, Ctx, Freed, Lifetime, LiveContext
  <2>2. Lifetime'
    BY <1>6, <1>a, <1>b DEF MainStarts, Lifetime, Alone, LiveContext, UsesLater,
       OneContext, CleanUntilReconnect, TypeOK, Ctx, Freed
  <2> QED BY <2>1, <2>2
<1>7. CASE MainRunsFreed
  <2>1. TypeOK'
    BY <1>7, <1>a, <1>b DEF MainRunsFreed, TypeOK, Ctx, Freed
  <2>2. Lifetime'
    BY <1>7, <1>a, <1>b DEF MainRunsFreed, Lifetime, Alone, LiveContext, UsesLater,
       OneContext, CleanUntilReconnect, TypeOK, Ctx, Freed
  <2> QED BY <2>1, <2>2
<1>8. CASE ConnUp
  <2>1. /\ ctxs' \in Seq(Context) /\ Ctx' = Ctx
        /\ \A i \in 1..Ctx : Freed(i)' = Freed(i)
    BY <1>8, <1>a, <1>b, ConnFacts DEF ConnUp
  <2>2. TypeOK'
    BY <1>8, <1>a, <1>b, <2>1 DEF ConnUp, TypeOK
  <2>3. Lifetime'
    BY <1>8, <1>a, <1>b, <2>1 DEF ConnUp, Lifetime, Alone, LiveContext, UsesLater,
       OneContext, CleanUntilReconnect, TypeOK
  <2> QED BY <2>2, <2>3
<1>9. CASE ConnLost
  <2>1. /\ ctxs' \in Seq(Context) /\ Ctx' = Ctx
        /\ \A i \in 1..Ctx : Freed(i)' = Freed(i)
    BY <1>9, <1>a, <1>b, ConnFacts DEF ConnLost
  <2>2. TypeOK'
    BY <1>9, <1>a, <1>b, <2>1 DEF ConnLost, TypeOK
  <2>3. main = "run" /\ UNCHANGED <<main, runs, mh, using, spoilt>>
    BY <1>9 DEF ConnLost
  <2>4. Lifetime'
    BY <1>a, <1>b, <2>1, <2>3 DEF Lifetime, Alone, LiveContext, UsesLater,
       OneContext, CleanUntilReconnect, TypeOK
  <2> QED BY <2>2, <2>4
<1>10. CASE PanelReconnects
  <2>1. TypeOK'
    BY <1>10, <1>a, <1>b DEF PanelReconnects, TypeOK, Ctx, Freed
  <2>2. Lifetime'
    BY <1>10, <1>a, <1>b DEF PanelReconnects, Lifetime, Alone, LiveContext, UsesLater,
       OneContext, CleanUntilReconnect, TypeOK, Ctx, Freed
  <2> QED BY <2>1, <2>2
<1>11. CASE main # "gone" /\ MHTakes
  <2>1. TypeOK'
    BY <1>11, <1>a, <1>b DEF MHTakes, Lifetime, Alone, TypeOK, Ctx, Freed
  <2>2. Lifetime'
    BY <1>11, <1>a, <1>b DEF MHTakes, Lifetime, Alone, LiveContext, UsesLater,
       OneContext, CleanUntilReconnect, TypeOK, Ctx, Freed
  <2> QED BY <2>1, <2>2
<1>12. CASE main # "gone" /\ MHShutsDown
  <2>1. Ctx > 0 /\ ~Freed(Ctx)
    BY <1>12, <1>a, <1>b DEF MHShutsDown, Lifetime, Alone, LiveContext
  <2>2. /\ ctxs' \in Seq(Context) /\ Ctx' = Ctx /\ Freed(Ctx)'
        /\ \A i \in 1..Ctx : i # Ctx => Freed(i)' = Freed(i)
    BY <1>12, <1>a, <1>b, <2>1, FreeFacts DEF MHShutsDown
  <2>3. main' = main /\ spoilt' = spoilt
    BY <1>12, <1>a, <1>b, <2>1 DEF MHShutsDown, Use, TypeOK
  <2>4. TypeOK'
    BY <1>12, <1>a, <1>b, <2>1, <2>2, <2>3 DEF MHShutsDown, TypeOK
  <2>5. Lifetime'
    BY <1>12, <1>a, <1>b, <2>1, <2>2, <2>3 DEF MHShutsDown, Lifetime, Alone, LiveContext, UsesLater,
       OneContext, CleanUntilReconnect, TypeOK
  <2> QED BY <2>4, <2>5
<1>13. CASE main # "gone" /\ MHConnects
  <2>1. /\ ctxs' \in Seq(Context) /\ Ctx' = Ctx + 1 /\ ~Freed(Ctx)'
        /\ \A i \in 1..Ctx : Freed(i)' = Freed(i)
    BY <1>13, <1>a, <1>b, NewContextFacts DEF MHConnects
  <2>2. TypeOK'
    BY <1>13, <1>a, <1>b, <2>1 DEF MHConnects, TypeOK
  <2>3. Lifetime'
    BY <1>13, <1>a, <1>b, <2>1 DEF MHConnects, Lifetime, Alone, LiveContext, UsesLater,
       OneContext, CleanUntilReconnect, TypeOK
  <2> QED BY <2>2, <2>3
<1>14. CASE main # "gone" /\ MHChecks
  <2>1. Ctx \in 1..Ctx
    BY <1>14, <1>a, <1>b DEF MHChecks, Lifetime, Alone, LiveContext
  <2>2. /\ ctxs' \in Seq(Context) /\ Ctx' = Ctx
        /\ \A i \in 1..Ctx : Freed(i)' = Freed(i)
    BY <1>14, <1>a, <1>b, <2>1, ConnFacts DEF MHChecks, Refuses, Connects, Ctx, Freed
  <2>3. TypeOK'
    BY <1>14, <1>a, <1>b, <2>1, <2>2 DEF MHChecks, Refuses, Connects, TypeOK
  <2>4. Lifetime'
    BY <1>14, <1>a, <1>b, <2>1, <2>2 DEF MHChecks, Refuses, Connects, Lifetime, Alone, LiveContext, UsesLater,
       OneContext, CleanUntilReconnect, TypeOK
  <2> QED BY <2>3, <2>4
<1>15. ASSUME NEW s \in Senders, main # "gone", SendBegins(s) PROVE TypeOK' /\ Lifetime'
  <2>1. main \in {"run", "spin"} /\ UNCHANGED <<ctxs, runs, mh, pending, cmds, refused, served>>
    BY <1>15 DEF SendBegins, TypeOK
  <2>2. using' = [using EXCEPT ![s] = Ctx]
    BY <1>15 DEF SendBegins
  <2>3. main' \in {main, "gone"} /\ spoilt' \in BOOLEAN /\ (spoilt' => spoilt \/ Freed(Ctx))
    BY <1>15 DEF SendBegins, Use, TypeOK
  <2>4. spoilt' => Freed(runs)
    BY <1>a, <1>b, <2>1, <2>3, FreedSinceRun DEF Lifetime, CleanUntilReconnect
  <2>5. TypeOK'
    BY <1>a, <2>1, <2>2, <2>3 DEF TypeOK, Ctx
  <2>6. Lifetime'
    BY <1>a, <1>b, <2>1, <2>2, <2>3, <2>4 DEF Lifetime, Alone, LiveContext, UsesLater,
       OneContext, CleanUntilReconnect, Ctx, Freed
  <2> QED BY <2>5, <2>6
<1>16. ASSUME NEW s \in Senders, main # "gone", SendEnds(s) PROVE TypeOK' /\ Lifetime'
  <2>1. /\ using[s] # 0 /\ using' = [using EXCEPT ![s] = 0]
        /\ UNCHANGED <<ctxs, runs, mh, pending, cmds, refused, served>>
    BY <1>16 DEF SendEnds
  <2>2. /\ main \in {"run", "spin"} /\ using[s] \in runs..Ctx
    BY <1>16, <1>a, <2>1 DEF Lifetime, Alone, UsesLater, TypeOK
  <2>3. /\ main' \in {main, "gone"} /\ spoilt' \in BOOLEAN
        /\ spoilt' => spoilt \/ Freed(using[s]) \/ Freed(Ctx)
    BY <1>16 DEF SendEnds, Use, TypeOK
  <2>4. spoilt' => Freed(runs)
    BY <1>a, <1>b, <2>2, <2>3, FreedSinceRun DEF Lifetime, CleanUntilReconnect
  <2>5. TypeOK'
    BY <1>a, <2>1, <2>2, <2>3 DEF TypeOK, Ctx
  <2>6. Lifetime'
    BY <1>a, <1>b, <2>1, <2>2, <2>3, <2>4 DEF Lifetime, Alone, LiveContext, UsesLater,
       OneContext, CleanUntilReconnect, Ctx, Freed
  <2> QED BY <2>5, <2>6
<1>17. CASE UNCHANGED vars
  BY <1>17 DEF vars, TypeOK, Lifetime, Alone, LiveContext, UsesLater, OneContext,
     CleanUntilReconnect, Ctx, Freed
<1> QED
  BY <1>1, <1>2, <1>3, <1>4, <1>5, <1>6, <1>7, <1>8, <1>9, <1>10, <1>11, <1>12, <1>13,
     <1>14, <1>15, <1>16, <1>17 DEF Next, MainStep, MHStep, SenderStep

-----------------------------------------------------------------------------
LEMMA AlwaysLifetime == Spec => [](TypeOK /\ Lifetime)
<1>1. TypeOK /\ Lifetime /\ [Next]_vars => TypeOK' /\ Lifetime'
  BY StepLifetime
<1> QED BY <1>1, InitLifetime, PTL DEF Spec

(* The state of JabberClient and of the threads that use it is of the      *)
(* declared types, and no thread but main() has begun before it runs a     *)
(* context.                                                                *)
THEOREM TypeCorrect == Spec => []TypeOK
BY AlwaysLifetime, PTL

(* main() and reconnectJabber() leave no context behind: whoever makes one *)
(* has shut down the one before.                                           *)
THEOREM NoContextIsLeft == Spec => []OneContext
<1>1. Lifetime => OneContext
  BY DEF Lifetime
<1> QED BY <1>1, AlwaysLifetime, PTL

(* Neither of the two calls xmppShutDown() on a context that was freed.    *)
THEOREM NoContextIsFreedTwice == Spec => []FreedOnce
<1>1. TypeOK /\ Lifetime => FreedOnce
  BY DEF TypeOK, Lifetime, Alone, LiveContext, FreedOnce
<1> QED BY <1>1, AlwaysLifetime, PTL

(* As long as nobody has freed the context that main() runs, no thread has *)
(* used a freed one: not main(), not a sender, not reconnectJabber().      *)
THEOREM CleanBeforeReconnect == Spec => []CleanUntilReconnect
<1>1. Lifetime => CleanUntilReconnect
  BY DEF Lifetime
<1> QED BY <1>1, AlwaysLifetime, PTL

-----------------------------------------------------------------------------
(* What becomes of the session. *)

Conn(c) == ctxs[c].conn

(* An attempt to connect that is over ... *)
AttemptOver == main = "start" \/ (runs # 0 /\ mh = "idle")

(* ... was not refused; reconnectJabber() connects in a context of its     *)
(* own, and only the one that main() runs is served, so that only its      *)
(* connection comes up or is lost.                                         *)
Connections ==
  /\ AttemptOver => Conn(Ctx) # "new"
  /\ mh = "check" => runs < Ctx
  /\ \A c \in 1..Ctx : Conn(c) \in {"up", "lost"} => c = runs

LEMMA NewContextConn ==
  ASSUME ctxs \in Seq(Context), NewContext
  PROVE  Conn(Ctx)' = "new" /\ \A c \in 1..Ctx : Conn(c)' = Conn(c)
<1> DEFINE n == [mem |-> "live", conn |-> "new"]
<1>1. n \in Context /\ ctxs' = Append(ctxs, n)
  BY DEF NewContext, Context
<1>2. n.conn = "new"
  OBVIOUS
<1> HIDE DEF n
<1>3. /\ Len(ctxs') = Len(ctxs) + 1 /\ ctxs'[Len(ctxs) + 1] = n
      /\ \A i \in 1..Len(ctxs) : ctxs'[i] = ctxs[i]
  BY <1>1, AppendProperties
<1> QED BY <1>2, <1>3 DEF Ctx, Conn

LEMMA FreeConn ==
  ASSUME ctxs \in Seq(Context), Ctx > 0, Free
  PROVE  \A c \in 1..Ctx : Conn(c)' = Conn(c)
<1>1. Ctx \in 1..Len(ctxs) /\ ctxs[Ctx] \in Context
  BY DEF Ctx
<1> DEFINE n == [ctxs[Ctx] EXCEPT !.mem = "freed"]
<1>2. n \in Context /\ n.conn = ctxs[Ctx].conn /\ ctxs' = [ctxs EXCEPT ![Ctx] = n]
  BY <1>1 DEF Free, Context
<1> HIDE DEF n
<1>3. ctxs'[Ctx] = n /\ \A i \in 1..Len(ctxs) : i # Ctx => ctxs'[i] = ctxs[i]
  BY <1>1, <1>2, ExceptSeq
<1> QED BY <1>2, <1>3 DEF Ctx, Conn

LEMMA SetConn ==
  ASSUME ctxs \in Seq(Context), NEW r \in 1..Ctx, NEW s \in {"new", "trying", "up", "lost"},
         ctxs' = [ctxs EXCEPT ![r].conn = s]
  PROVE  Conn(r)' = s /\ \A c \in 1..Ctx : c # r => Conn(c)' = Conn(c)
<1>1. r \in 1..Len(ctxs) /\ ctxs[r] \in Context
  BY DEF Ctx
<1> DEFINE n == [ctxs[r] EXCEPT !.conn = s]
<1>2. n \in Context /\ n.conn = s /\ ctxs' = [ctxs EXCEPT ![r] = n]
  BY <1>1 DEF Context
<1> HIDE DEF n
<1>3. ctxs'[r] = n /\ \A i \in 1..Len(ctxs) : i # r => ctxs'[i] = ctxs[i]
  BY <1>1, <1>2, ExceptSeq
<1> QED BY <1>2, <1>3 DEF Ctx, Conn

(* Each step of the threads keeps that, and a session that is over remains *)
(* over.                                                                   *)
SessionOver == runs # 0 /\ (Freed(runs) \/ Conn(runs) = "lost")

LEMMA StepConnections ==
  ASSUME TypeOK, Lifetime, Connections, [Next]_vars
  PROVE  Connections' /\ (SessionOver => SessionOver')
<1>a. /\ ctxs \in Seq(Context) /\ Ctx \in Nat /\ runs \in 0..Ctx
      /\ runs # 0 => runs \in 1..Ctx /\ Ctx \in 1..Ctx
  BY DEF TypeOK, Ctx
<1>b. /\ main \notin {"run", "spin", "gone"} => mh = "idle" /\ runs = 0
      /\ mh # "idle" => runs # 0
      /\ main \in {"run", "spin"} => runs # 0
      /\ main \in {"check", "failed", "start"} => Ctx > 0
      /\ mh # "idle" => Ctx > 0
  BY DEF TypeOK, Lifetime, Alone, LiveContext
\* a new context, a freed one, a connection of the last one that is tried
<1>c. ASSUME NewContext, UNCHANGED runs, ~AttemptOver'
      PROVE  Connections' /\ (SessionOver => SessionOver')
  <2>1. /\ Ctx' = Ctx + 1 /\ Conn(Ctx)' = "new"
        /\ \A c \in 1..Ctx : Conn(c)' = Conn(c) /\ Freed(c)' = Freed(c)
    BY <1>a, <1>c, NewContextFacts, NewContextConn
  <2> QED BY <1>a, <1>c, <2>1 DEF Connections, SessionOver
<1>d. ASSUME Free, Ctx > 0, UNCHANGED runs, ~AttemptOver', mh' # "check"
      PROVE  Connections' /\ (SessionOver => SessionOver')
  <2>1. /\ Ctx' = Ctx /\ Freed(Ctx)' /\ \A c \in 1..Ctx : Conn(c)' = Conn(c)
        /\ \A c \in 1..Ctx : c # Ctx => Freed(c)' = Freed(c)
    BY <1>a, <1>d, FreeFacts, FreeConn
  <2> QED BY <1>a, <1>d, <2>1 DEF Connections, SessionOver
<1>e. ASSUME Connects, Ctx > 0, Ctx # runs, UNCHANGED runs, mh' # "check"
      PROVE  Connections' /\ (SessionOver => SessionOver')
  <2>1. /\ Ctx' = Ctx /\ Conn(Ctx)' = "trying"
        /\ \A c \in 1..Ctx : c # Ctx => Conn(c)' = Conn(c)
        /\ \A c \in 1..Ctx : Freed(c)' = Freed(c)
    <3>1. ctxs' = [ctxs EXCEPT ![Ctx].conn = "trying"] /\ Ctx \in 1..Ctx
      BY <1>a, <1>e DEF Connects
    <3> QED BY <1>a, <3>1, ConnFacts, SetConn
  <2> QED BY <1>a, <1>e, <2>1 DEF Connections, SessionOver
<1>f. ASSUME UNCHANGED <<ctxs, runs>>, AttemptOver' => AttemptOver,
             mh' = "check" => mh = "check"
      PROVE  Connections' /\ (SessionOver => SessionOver')
  BY <1>f DEF Connections, SessionOver, Ctx, Conn, Freed
<1>1. CASE MainConfigures \/ MainWakes
  BY <1>1, <1>b, <1>f DEF MainConfigures, MainWakes, AttemptOver
<1>2. CASE MainConnects
  BY <1>2, <1>b, <1>c DEF MainConnects, AttemptOver
<1>3. CASE MainChecks
  <2>1. CASE Refuses /\ main' = "failed"
    BY <1>3, <2>1, <1>b, <1>f DEF MainChecks, Refuses, AttemptOver
  <2>2. CASE Connects /\ main' = "start"
    BY <1>3, <2>2, <1>b, <1>e DEF MainChecks
  <2> QED BY <1>3, <2>1, <2>2 DEF MainChecks
<1>4. CASE MainShutsDown
  BY <1>4, <1>b, <1>d DEF MainShutsDown, AttemptOver
<1>5. CASE MainStarts
  <2>1. /\ main = "start" /\ runs = 0 /\ runs' = Ctx /\ UNCHANGED <<ctxs, mh>>
        /\ Conn(Ctx) # "new" /\ Ctx' = Ctx /\ mh = "idle"
    BY <1>5, <1>b DEF MainStarts, Connections, AttemptOver, Ctx
  <2>2. \A c \in 1..Ctx : Conn(c) \notin {"up", "lost"}
    BY <1>a, <2>1 DEF Connections
  <2>3. \A c : Conn(c)' = Conn(c)
    BY <2>1 DEF Conn
  <2> QED BY <2>1, <2>2, <2>3 DEF Connections, SessionOver
<1>6. CASE MainRunsFreed \/ PanelReconnects \/ SenderStep
  <2>1. UNCHANGED <<ctxs, runs, mh>> /\ (main' = main \/ main' # "start")
    BY <1>6 DEF MainRunsFreed, PanelReconnects, SenderStep, SendBegins, SendEnds, Use
  <2> QED BY <2>1, <1>f DEF AttemptOver
<1>7. CASE ConnUp \/ ConnLost
  <2>1. PICK s \in {"up", "lost"} : ctxs' = [ctxs EXCEPT ![runs].conn = s]
    BY <1>7 DEF ConnUp, ConnLost
  <2>2. /\ main = "run" /\ runs \in 1..Ctx /\ UNCHANGED <<main, runs, mh>>
        /\ (ConnUp => Conn(runs) = "trying" /\ ~Freed(runs))
        /\ (ConnLost => ctxs' = [ctxs EXCEPT ![runs].conn = "lost"])
    BY <1>7, <1>a, <1>b DEF ConnUp, ConnLost, Conn
  <2>3. /\ Ctx' = Ctx /\ Conn(runs)' = s
        /\ \A c \in 1..Ctx : c # runs => Conn(c)' = Conn(c)
        /\ \A c \in 1..Ctx : Freed(c)' = Freed(c)
    BY <1>a, <2>1, <2>2, ConnFacts, SetConn
  <2>4. Connections'
    BY <1>a, <2>2, <2>3 DEF Connections, AttemptOver
  <2>5. CASE ConnUp
    BY <2>2, <2>4, <2>5 DEF SessionOver
  <2>6. CASE ConnLost
    <3>1. Conn(runs)' = "lost"
      BY <1>a, <2>2, <2>6, SetConn
    <3> QED BY <2>2, <2>4, <3>1 DEF SessionOver, Conn
  <2> QED BY <1>7, <2>5, <2>6
<1>8. CASE MHTakes
  BY <1>8, <1>b, <1>f DEF MHTakes, AttemptOver
<1>9. CASE MHShutsDown
  BY <1>9, <1>b, <1>d DEF MHShutsDown, AttemptOver, Use
<1>10. CASE MHConnects
  BY <1>10, <1>b, <1>c DEF MHConnects, AttemptOver
<1>11. CASE MHChecks
  <2>1. mh = "check" /\ Ctx > 0 /\ Ctx # runs /\ UNCHANGED runs
    BY <1>11, <1>a, <1>b DEF MHChecks, Connections
  <2>2. CASE Refuses /\ mh' = "failed"
    BY <2>1, <2>2, <1>b, <1>f, <1>11 DEF MHChecks, Refuses, AttemptOver
  <2>3. CASE Connects /\ mh' = "idle"
    BY <2>1, <2>3, <1>e
  <2> QED BY <1>11, <2>2, <2>3 DEF MHChecks
<1>12. CASE UNCHANGED vars
  BY <1>12, <1>f DEF vars, AttemptOver
<1> QED BY <1>1, <1>2, <1>3, <1>4, <1>5, <1>6, <1>7, <1>8, <1>9, <1>10, <1>11, <1>12
        DEF Next, MainStep, MHStep

LEMMA AlwaysConnected ==
  Spec => [](TypeOK /\ Lifetime /\ Connections) /\ [][SessionOver => SessionOver']_vars
<1>1. Init => Connections
  BY DEF Init, Connections, AttemptOver, Ctx
<1>2. TypeOK /\ Lifetime /\ Connections /\ [Next]_vars
        => Connections' /\ [SessionOver => SessionOver']_vars
  BY StepConnections
<1> QED BY <1>1, <1>2, AlwaysLifetime, PTL DEF Spec

(* A session that is over, because the connection was lost or because      *)
(* reconnectJabber() freed the context that main() runs, does not come     *)
(* back while the process lasts: no other context is ever served.  This is *)
(* what XmppReconnect finds, and what HeartBeat takes for granted.         *)
THEOREM OverForGood ==
  Spec => /\ [](SessionOver => \A c \in 1..Ctx : Conn(c) = "up" => Freed(c))
          /\ [][SessionOver => SessionOver']_vars
<1>1. Connections /\ SessionOver => \A c \in 1..Ctx : Conn(c) = "up" => Freed(c)
  BY DEF Connections, SessionOver
<1> QED BY <1>1, AlwaysConnected, PTL

-----------------------------------------------------------------------------
(* The two loops that connect.  What they still have to do if no attempt   *)
(* is refused: *)
MainToGo ==
  CASE main = "failed" -> 6
    [] main \in {"config", "sleep"} -> 5
    [] main = "connect" -> 4
    [] main = "check" -> 3
    [] main = "start" -> 2
    [] main = "run" -> 1
    [] OTHER -> 0
MHToGo ==
  CASE mh \in {"told", "failed"} -> 3
    [] mh = "connect" -> 2
    [] mh = "check" -> 1
    [] OTHER -> 0
ToGo == 4 * pending + MHToGo + MainToGo

LEMMA ToGoTyped ==
  MHToGo \in Nat /\ MainToGo \in Nat /\ MHToGo' \in Nat /\ MainToGo' \in Nat
<1>1. MHToGo \in Nat
  BY DEF MHToGo
<1>2. MainToGo \in Nat
  BY DEF MainToGo
<1>3. MHToGo' \in Nat
  BY DEF MHToGo
<1>4. MainToGo' \in Nat
  BY DEF MainToGo
<1> QED BY <1>1, <1>2, <1>3, <1>4

LEMMA FewerSteps ==
  ASSUME NEW p \in Nat, NEW a \in Nat, NEW b \in Nat, NEW c \in Nat, NEW d \in Nat
  PROVE  /\ 4 * p + a + b \in Nat
         /\ c < a /\ d <= b => 4 * p + c + d < 4 * p + a + b
         /\ c = a /\ d < b => 4 * p + c + d < 4 * p + a + b
         /\ p > 0 /\ a = 0 /\ c = 3 /\ d = b => 4 * (p - 1) + c + d < 4 * p + a + b
<1> QED OBVIOUS

(* A step of either loop brings it closer to its end, unless the library   *)
(* refuses the attempt.  When a loop has ended, the last context is live   *)
(* and its connection was tried: no refusal is mistaken for a success, and *)
(* neither thread has shut down what the other one has just connected.     *)
THEOREM LoopsGetThrough ==
  Spec => /\ [](ToGo \in Nat)
          /\ [][MainStep \/ MHStep => refused' > refused \/ ToGo' < ToGo]_vars
          /\ [](AttemptOver => Ctx > 0 /\ ~Freed(Ctx) /\ Conn(Ctx) # "new")
<1>1. TypeOK => ToGo \in Nat
  BY ToGoTyped, FewerSteps DEF TypeOK, ToGo
<1>2. ASSUME TypeOK, [Next]_vars
      PROVE  [MainStep \/ MHStep => refused' > refused \/ ToGo' < ToGo]_vars
  <2> SUFFICES ASSUME MainStep \/ MHStep PROVE refused' > refused \/ ToGo' < ToGo
    OBVIOUS
  <2>a. /\ MHToGo \in Nat /\ MainToGo \in Nat /\ MHToGo' \in Nat /\ MainToGo' \in Nat
    BY ToGoTyped
  <2>b. pending \in Nat /\ refused \in Nat
    BY <1>2, XmppAssumption DEF TypeOK
  <2>1. CASE MainStep
    <3>1. UNCHANGED <<mh, pending>> /\ (refused' > refused \/ MainToGo' < MainToGo)
      BY <2>1, <2>b DEF MainStep, MainConfigures, MainConnects, MainChecks, MainShutsDown,
         MainWakes, MainStarts, MainRunsFreed, Refuses, Connects, MainToGo
    <3>2. MHToGo' = MHToGo
      BY <3>1 DEF MHToGo
    <3> QED BY <2>a, <2>b, <3>1, <3>2, FewerSteps DEF ToGo
  <2>2. CASE MHTakes
    <3>1. pending' = pending - 1 /\ MHToGo = 0 /\ MHToGo' = 3 /\ MainToGo' = MainToGo
      BY <2>2 DEF MHTakes, MHToGo, MainToGo
    <3> QED BY <2>a, <2>b, <2>2, <3>1, FewerSteps DEF ToGo, MHTakes
  <2>3. CASE MHShutsDown \/ MHConnects \/ MHChecks
    <3>1. UNCHANGED pending /\ main' \in {main, "gone"}
      BY <2>3 DEF MHShutsDown, MHConnects, MHChecks, Use
    <3>2. MainToGo' <= MainToGo
      BY <2>a, <3>1 DEF MainToGo
    <3>3. refused' > refused \/ MHToGo' < MHToGo
      BY <2>3, <2>b DEF MHShutsDown, MHConnects, MHChecks, Refuses, Connects, MHToGo
    <3> QED BY <2>a, <2>b, <3>1, <3>2, <3>3, FewerSteps DEF ToGo
  <2> QED BY <2>1, <2>2, <2>3 DEF MHStep
<1>3. TypeOK /\ Lifetime /\ Connections /\ AttemptOver
        => Ctx > 0 /\ ~Freed(Ctx) /\ Conn(Ctx) # "new"
  BY DEF Lifetime, LiveContext, Connections, AttemptOver
<1> QED BY <1>1, <1>2, <1>3, AlwaysConnected, PTL DEF Spec
=============================================================================
