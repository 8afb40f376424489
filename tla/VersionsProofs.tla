--------------------------- MODULE VersionsProofs ---------------------------
(***************************************************************************)
(* What is true of versions for any processes, reports and commands, gaps  *)
(* and restarts with any version included: objects are released once, the  *)
(* table has what was heard of a process, and nothing newer is refused.    *)
(***************************************************************************)
EXTENDS Versions, SequenceTheorems, FiniteSetTheorems, TLAPS

(* Of the entries of a packet those before i were released once, the root  *)
(* was counted once for each of them.                                      *)
Counted(l) ==
  /\ l.pc \in {"read", "grow"} =>
       /\ l.i \in 1..Len(l.pkt) + 1 /\ l.root = l.i /\ Len(l.elem) = Len(l.pkt)
       /\ \A j \in 1..Len(l.pkt) : l.elem[j] = IF j < l.i THEN 0 ELSE 1
  /\ l.pc \in {"idle", "compare"} =>
       l.root >= 0 /\ \A j \in 1..Len(l.elem) : l.elem[j] >= 0

LEMMA FunctionIsSeq ==
  ASSUME NEW S, NEW n \in Nat, NEW f \in [1..n -> S]
  PROVE  f \in Seq(S) /\ Len(f) = n /\ DOMAIN f = 1..n
BY SeqDef

LEMMA LoopTyped ==
  ASSUME NEW pc \in {"idle", "read", "grow", "compare"}, NEW pkt \in Seq(Entry),
         NEW i \in Nat, NEW ver \in Version, NEW root \in Int, NEW elem \in Seq(Int)
  PROVE  [pc |-> pc, pkt |-> pkt, i |-> i, ver |-> ver, root |-> root, elem |-> elem]
           \in LoopState
BY DEF LoopState

LEMMA LoadFacts ==
  ASSUME NEW pkt \in Seq(Entry)
  PROVE  /\ Load(pkt) \in LoopState /\ Counted(Load(pkt))
         /\ Load(pkt).pc = "read" /\ Load(pkt).pkt = pkt /\ Load(pkt).i = 1
<1> DEFINE ones == [i \in 1..Len(pkt) |-> 1]
<1>1. ones \in Seq(Int) /\ Len(ones) = Len(pkt) /\ \A j \in 1..Len(pkt) : ones[j] = 1
  <2>1. ones \in [1..Len(pkt) -> Int] /\ Len(pkt) \in Nat
    BY LenProperties
  <2> QED BY <2>1, FunctionIsSeq
<1>2. Fresh \in Version
  BY VersionsAssumption DEF Fresh, Version, Vers
<1>3. Load(pkt) = [pc |-> "read", pkt |-> pkt, i |-> 1, ver |-> Fresh, root |-> 1,
                   elem |-> ones]
  BY DEF Load
<1> HIDE DEF ones
<1> QED BY <1>1, <1>2, <1>3, LenProperties DEF LoopState, Counted

(* The steps of the loop, and what they keep. *)
Rested(p)    == [Idle EXCEPT !.pc = p]
Turned(l, p) == [l EXCEPT !.pc = p]

LEMMA RestedFacts ==
  ASSUME NEW p \in {"idle", "compare"}
  PROVE  /\ Rested(p) \in LoopState /\ Counted(Rested(p))
         /\ Rested(p).pc = p /\ Rested(p).pkt = <<>>
<1>1. PICK none \in Seq(Int), nil \in Seq(Entry) : none = <<>> /\ nil = <<>>
  <2>1. <<>> \in Seq(Int) /\ <<>> \in Seq(Entry)
    OBVIOUS
  <2> QED BY <2>1
<1>2. Fresh \in Version
  BY VersionsAssumption DEF Fresh, Version, Vers
<1>3. Rested(p) = [pc |-> p, pkt |-> nil, i |-> 1, ver |-> Fresh, root |-> 0, elem |-> none]
  BY <1>1 DEF Rested, Idle
<1>4. /\ Rested(p) \in LoopState /\ Rested(p).pc = p /\ Rested(p).pkt = nil
      /\ Rested(p).root = 0 /\ Rested(p).elem = none
  BY <1>2, <1>3 DEF LoopState
<1>5. Len(Rested(p).elem) = 0
  BY <1>1, <1>4
<1> QED BY <1>1, <1>4, <1>5 DEF Counted

(* A key that is there is read. *)
LEMMA ParsedFacts ==
  ASSUME NEW v \in Version, NEW e \in Entry
  PROVE  /\ Parsed(v, e) \in Version
         /\ Missing \notin {e.name, e.ver} =>
              Parsed(v, e) = [name |-> e.name, ver |-> e.ver]
BY VersionsAssumption DEF Parsed, Version, Entry

LEMMA OneEntryFacts ==
  ASSUME NEW l \in LoopState, Counted(l), More(l), NEW p \in {"read", "grow"}
  PROVE  /\ OneEntry(l, p) \in LoopState /\ Counted(OneEntry(l, p))
         /\ OneEntry(l, p).pc = p /\ OneEntry(l, p).pkt = l.pkt /\ OneEntry(l, p).i = l.i + 1
         /\ OneEntry(l, p).ver = Parsed(l.ver, l.pkt[l.i]) /\ OneEntry(l, p).ver \in Version
         /\ l.pkt[l.i] \in Entry /\ l.i \in DOMAIN l.pkt
<1> DEFINE elem == [l.elem EXCEPT ![l.i] = l.elem[l.i] - 1]
           ver == Parsed(l.ver, l.pkt[l.i])
           m == OneEntry(l, p)
<1>1. /\ l.pkt \in Seq(Entry) /\ l.elem \in Seq(Int) /\ l.root = l.i
      /\ l.i \in 1..Len(l.pkt) /\ Len(l.elem) = Len(l.pkt) /\ l.i \in 1..Len(l.elem)
      /\ Len(l.pkt) \in Nat /\ l.ver \in Version /\ DOMAIN l.pkt = 1..Len(l.pkt)
      /\ \A j \in 1..Len(l.pkt) : l.elem[j] = IF j < l.i THEN 0 ELSE 1
  BY LenProperties DEF LoopState, Counted, More
<1>2. l.pkt[l.i] \in Entry /\ l.elem[l.i] - 1 \in Int
  BY <1>1, ElementOfSeq
<1>3. /\ elem \in Seq(Int) /\ Len(elem) = Len(l.pkt)
      /\ \A j \in 1..Len(l.pkt) : elem[j] = IF j < l.i + 1 THEN 0 ELSE 1
  <2>1. /\ elem \in Seq(Int) /\ Len(elem) = Len(l.elem)
        /\ elem[l.i] = l.elem[l.i] - 1
        /\ \A j \in 1..Len(l.elem) : j # l.i => elem[j] = l.elem[j]
    BY <1>1, <1>2, ExceptSeq
  <2> HIDE DEF elem
  <2>2. ASSUME NEW j \in 1..Len(l.pkt) PROVE elem[j] = IF j < l.i + 1 THEN 0 ELSE 1
    <3>1. CASE j = l.i
      <4>1. l.elem[l.i] = 1 /\ l.i \in Int
        BY <1>1
      <4>2. elem[j] = 0 /\ j < l.i + 1
        BY <2>1, <3>1, <4>1
      <4> QED BY <4>2
    <3>2. CASE j # l.i
      <4>1. elem[j] = l.elem[j] /\ (j < l.i <=> j < l.i + 1)
        BY <1>1, <2>1, <3>2
      <4> QED BY <1>1, <4>1
    <3> QED BY <3>1, <3>2
  <2> QED BY <1>1, <2>1, <2>2
<1>4. ver \in Version
  BY <1>1, <1>2, ParsedFacts
<1>5. m = [pc |-> p, pkt |-> l.pkt, i |-> l.i + 1, ver |-> ver, root |-> l.root + 1,
           elem |-> elem]
  BY DEF OneEntry
<1>6. /\ l.i + 1 \in Nat /\ l.root + 1 \in Int /\ l.pkt \in Seq(Entry)
      /\ elem \in Seq(Int) /\ ver \in Version
  BY <1>1, <1>3, <1>4
<1> HIDE DEF elem, ver, m
<1>7. m.pc = p /\ m.pkt = l.pkt /\ m.i = l.i + 1 /\ m.ver = ver /\ m.root = l.root + 1
      /\ m.elem = elem
  BY <1>5
<1>8. m \in LoopState
  BY <1>5, <1>6, LoopTyped
<1>9. Counted(m)
  <2>1. m.i \in 1..Len(m.pkt) + 1 /\ m.root = m.i /\ Len(m.elem) = Len(m.pkt)
    BY <1>1, <1>3, <1>7
  <2>2. \A j \in 1..Len(m.pkt) : m.elem[j] = IF j < m.i THEN 0 ELSE 1
    BY <1>3, <1>7
  <2>3. m.pc \notin {"idle", "compare"}
    BY <1>7
  <2> QED BY <2>1, <2>2, <2>3 DEF Counted
<1> QED BY <1>1, <1>2, <1>4, <1>7, <1>8, <1>9 DEF ver, m

LEMMA UnloadFacts ==
  ASSUME NEW l \in LoopState, Counted(l), Over(l), NEW p \in {"idle", "compare"}
  PROVE  /\ Unload(l, p) \in LoopState /\ Counted(Unload(l, p))
         /\ Unload(l, p).pc = p /\ Unload(l, p).pkt = <<>>
<1> DEFINE elem == IF l.root = 1 THEN [i \in DOMAIN l.elem |-> l.elem[i] - 1] ELSE l.elem
           m == Unload(l, p)
<1>1. /\ l.elem \in Seq(Int) /\ l.i = Len(l.pkt) + 1 /\ l.root = l.i
      /\ Len(l.pkt) \in Nat /\ Len(l.elem) = Len(l.pkt)
      /\ \A j \in 1..Len(l.pkt) : l.elem[j] = 0
  BY LenProperties DEF LoopState, Counted, Over
<1>2. elem \in Seq(Int) /\ \A j \in 1..Len(elem) : elem[j] >= 0
  <2>1. CASE l.root = 1
    <3>1. l.elem = <<>> /\ DOMAIN l.elem = {}
      BY <1>1, <2>1, EmptySeq
    <3>2. elem \in [1..0 -> Int]
      BY <2>1, <3>1
    <3> QED BY <3>2, FunctionIsSeq
  <2>2. CASE l.root # 1
    BY <1>1, <2>2
  <2> QED BY <2>1, <2>2
<1>3. Fresh \in Version /\ <<>> \in Seq(Entry)
  BY VersionsAssumption DEF Fresh, Version, Vers
<1>4. PICK nil \in Seq(Entry) : nil = <<>>
  BY <1>3
<1>5. m = [pc |-> p, pkt |-> nil, i |-> 1, ver |-> Fresh, root |-> l.root - 1, elem |-> elem]
  BY <1>4 DEF Unload
<1>6. l.root - 1 \in Int /\ l.root - 1 >= 0 /\ elem \in Seq(Int)
  BY <1>1, <1>2
<1> HIDE DEF elem, m
<1>7. m.pc = p /\ m.pkt = nil /\ m.root = l.root - 1 /\ m.elem = elem
  BY <1>5
<1>8. m \in LoopState
  BY <1>3, <1>5, <1>6, LoopTyped
<1>9. Counted(m)
  BY <1>2, <1>6, <1>7 DEF Counted
<1> QED BY <1>4, <1>7, <1>8, <1>9 DEF m

LEMMA TurnedFacts ==
  ASSUME NEW l \in LoopState, Counted(l), NEW p \in {"idle", "read"},
         <<l.pc, p>> \in {<<"compare", "idle">>, <<"grow", "read">>}
  PROVE  /\ Turned(l, p) \in LoopState /\ Counted(Turned(l, p)) /\ Turned(l, p).pc = p
         /\ Turned(l, p).pkt = l.pkt /\ Turned(l, p).i = l.i
<1> DEFINE m == Turned(l, p)
<1>1. m \in LoopState
  BY DEF Turned, LoopState
<1>2. /\ m.pc = p /\ m.pkt = l.pkt /\ m.i = l.i /\ m.root = l.root /\ m.elem = l.elem
  BY DEF Turned, LoopState
<1> HIDE DEF m
<1>3. Counted(m)
  BY <1>2 DEF Counted
<1> QED BY <1>1, <1>2, <1>3 DEF m

-----------------------------------------------------------------------------
(* The loops of the two threads. *)

LoopsTyped == loop \in [Threads -> LoopState] /\ \A t \in Threads : Counted(loop[t])

LEMMA SetLoop ==
  ASSUME LoopsTyped, NEW t \in Threads, NEW x \in LoopState, Counted(x),
         loop' = [loop EXCEPT ![t] = x]
  PROVE  LoopsTyped' /\ loop'[t] = x /\ \A u \in Threads : u # t => loop'[u] = loop[u]
BY DEF LoopsTyped

LEMMA WDReceivesLoop ==
  ASSUME TypeOK, LoopsTyped, WDReceives
  PROVE  /\ LoopsTyped' /\ loop'["mh"] = loop["mh"]
         /\ loop'["wd"].pc = "read" /\ loop'["wd"].pkt = Head(inbox)
<1>1. Head(inbox) \in Seq(Entry)
  BY HeadTailProperties DEF WDReceives, TypeOK
<1>2. loop' = [loop EXCEPT !["wd"] = Load(Head(inbox))]
  BY DEF WDReceives
<1> QED BY <1>1, <1>2, LoadFacts, SetLoop DEF Threads

LEMMA WDReadsLoop ==
  ASSUME LoopsTyped, WDReads
  PROVE  /\ LoopsTyped' /\ loop'["mh"] = loop["mh"]
         /\ loop'["wd"].pc = "grow" /\ loop'["wd"].pkt = loop["wd"].pkt
         /\ loop'["wd"].ver = Parsed(loop["wd"].ver, loop["wd"].pkt[loop["wd"].i])
         /\ loop["wd"].i \in DOMAIN loop["wd"].pkt
         /\ loop["wd"].ver \in Version /\ loop["wd"].pkt[loop["wd"].i] \in Entry
<1> DEFINE l == loop["wd"]
<1>1. l \in LoopState /\ Counted(l) /\ More(l)
  BY DEF LoopsTyped, WDReads, Threads
<1>2. loop' = [loop EXCEPT !["wd"] = OneEntry(l, "grow")]
  BY DEF WDReads
<1>3. l.ver \in Version
  BY <1>1 DEF LoopState
<1> HIDE DEF l
<1>4. /\ OneEntry(l, "grow") \in LoopState /\ Counted(OneEntry(l, "grow"))
      /\ OneEntry(l, "grow").pc = "grow" /\ OneEntry(l, "grow").pkt = l.pkt
      /\ OneEntry(l, "grow").ver = Parsed(l.ver, l.pkt[l.i])
      /\ l.pkt[l.i] \in Entry /\ l.i \in DOMAIN l.pkt
  BY <1>1, OneEntryFacts
<1>5. LoopsTyped' /\ loop'["mh"] = loop["mh"] /\ loop'["wd"] = OneEntry(l, "grow")
  BY <1>2, <1>4, SetLoop DEF Threads
<1> QED BY <1>3, <1>4, <1>5 DEF l

LEMMA WDAddsLoop ==
  ASSUME LoopsTyped, WDAdds
  PROVE  /\ LoopsTyped' /\ loop'["mh"] = loop["mh"]
         /\ loop'["wd"].pc = "read" /\ loop'["wd"].pkt = loop["wd"].pkt
         /\ loop["wd"].ver \in Version
<1> DEFINE l == loop["wd"]
<1>1. l \in LoopState /\ Counted(l) /\ l.pc = "grow"
  BY DEF LoopsTyped, WDAdds, Threads
<1>2. loop' = [loop EXCEPT !["wd"] = Turned(l, "read")]
  BY DEF WDAdds, Turned
<1>3. l.ver \in Version
  BY <1>1 DEF LoopState
<1> HIDE DEF l
<1>4. /\ Turned(l, "read") \in LoopState /\ Counted(Turned(l, "read"))
      /\ Turned(l, "read").pc = "read" /\ Turned(l, "read").pkt = l.pkt
  BY <1>1, TurnedFacts
<1>5. LoopsTyped' /\ loop'["mh"] = loop["mh"] /\ loop'["wd"] = Turned(l, "read")
  BY <1>2, <1>4, SetLoop DEF Threads
<1> QED BY <1>3, <1>4, <1>5 DEF l

LEMMA WDEndsLoop ==
  ASSUME LoopsTyped, WDEnds
  PROVE  /\ LoopsTyped' /\ loop'["mh"] = loop["mh"]
         /\ loop'["wd"].pc = "idle" /\ loop'["wd"].pkt = <<>>
<1> DEFINE l == loop["wd"]
<1>1. l \in LoopState /\ Counted(l) /\ Over(l)
  BY DEF LoopsTyped, WDEnds, Threads
<1>2. loop' = [loop EXCEPT !["wd"] = Unload(l, "idle")]
  BY DEF WDEnds
<1> HIDE DEF l
<1>3. /\ Unload(l, "idle") \in LoopState /\ Counted(Unload(l, "idle"))
      /\ Unload(l, "idle").pc = "idle" /\ Unload(l, "idle").pkt = <<>>
  BY <1>1, UnloadFacts
<1>4. LoopsTyped' /\ loop'["mh"] = loop["mh"] /\ loop'["wd"] = Unload(l, "idle")
  BY <1>2, <1>3, SetLoop DEF Threads
<1> QED BY <1>3, <1>4

LEMMA MHTakesLoop ==
  ASSUME TypeOK, LoopsTyped, MHTakes, NEW c, c = sent[Head(msgQ)], c \in Command
  PROVE  /\ LoopsTyped' /\ loop'["wd"] = loop["wd"]
         /\ c.kind = "meter" => /\ loop'["mh"].pc = "read" /\ loop'["mh"].i = 1
                                /\ loop'["mh"].pkt = c.entries
         /\ c.kind # "meter" => loop'["mh"].pc = "compare"
<1>1. CASE c.kind = "meter"
  <2>1. c.entries \in Seq(Entry)
    BY DEF Command
  <2>2. loop' = [loop EXCEPT !["mh"] = Load(c.entries)]
    BY <1>1 DEF MHTakes
  <2>3. /\ Load(c.entries) \in LoopState /\ Counted(Load(c.entries))
        /\ Load(c.entries).pc = "read" /\ Load(c.entries).i = 1
        /\ Load(c.entries).pkt = c.entries
    BY <2>1, LoadFacts
  <2>4. LoopsTyped' /\ loop'["wd"] = loop["wd"] /\ loop'["mh"] = Load(c.entries)
    BY <2>2, <2>3, SetLoop DEF Threads
  <2> QED BY <1>1, <2>3, <2>4
<1>2. CASE c.kind # "meter"
  <2>1. loop' = [loop EXCEPT !["mh"] = Rested("compare")]
    BY <1>2 DEF MHTakes, Rested
  <2> QED BY <1>2, <2>1, RestedFacts, SetLoop DEF Threads
<1> QED BY <1>1, <1>2

LEMMA MHReadsLoop ==
  ASSUME LoopsTyped, MHReads
  PROVE  /\ LoopsTyped' /\ loop'["wd"] = loop["wd"]
         /\ loop["mh"].pc = "read"
         /\ loop'["mh"].pc = "read" /\ loop'["mh"].pkt = loop["mh"].pkt
         /\ loop["mh"].i \in Nat /\ loop'["mh"].i = loop["mh"].i + 1
         /\ loop'["mh"].ver = Parsed(loop["mh"].ver, loop["mh"].pkt[loop["mh"].i])
         /\ loop'["mh"].ver \in Version
         /\ loop["mh"].ver \in Version /\ loop["mh"].pkt[loop["mh"].i] \in Entry
<1> DEFINE l == loop["mh"]
<1>1. l \in LoopState /\ Counted(l) /\ More(l)
  BY DEF LoopsTyped, MHReads, Threads
<1>2. loop' = [loop EXCEPT !["mh"] = OneEntry(l, "read")]
  BY DEF MHReads
<1>3. l.ver \in Version /\ l.i \in Nat /\ l.pc = "read"
  BY <1>1 DEF LoopState, More
<1> HIDE DEF l
<1>4. /\ OneEntry(l, "read") \in LoopState /\ Counted(OneEntry(l, "read"))
      /\ OneEntry(l, "read").pc = "read" /\ OneEntry(l, "read").pkt = l.pkt
      /\ OneEntry(l, "read").i = l.i + 1
      /\ OneEntry(l, "read").ver = Parsed(l.ver, l.pkt[l.i])
      /\ OneEntry(l, "read").ver \in Version /\ l.pkt[l.i] \in Entry
  BY <1>1, OneEntryFacts
<1>5. LoopsTyped' /\ loop'["wd"] = loop["wd"] /\ loop'["mh"] = OneEntry(l, "read")
  BY <1>2, <1>4, SetLoop DEF Threads
<1> QED BY <1>3, <1>4, <1>5 DEF l

LEMMA MHListedLoop ==
  ASSUME LoopsTyped, MHListed
  PROVE  /\ LoopsTyped' /\ loop'["wd"] = loop["wd"]
         /\ loop["mh"].pc = "read" /\ loop["mh"].i = Len(loop["mh"].pkt) + 1
         /\ Len(loop["mh"].pkt) \in Nat
         /\ loop'["mh"].pc = "compare"
<1> DEFINE l == loop["mh"]
<1>1. l \in LoopState /\ Counted(l) /\ Over(l)
  BY DEF LoopsTyped, MHListed, Threads
<1>2. loop' = [loop EXCEPT !["mh"] = Unload(l, "compare")]
  BY DEF MHListed
<1> HIDE DEF l
<1>3. /\ Unload(l, "compare") \in LoopState /\ Counted(Unload(l, "compare"))
      /\ Unload(l, "compare").pc = "compare"
  BY <1>1, UnloadFacts
<1>4. LoopsTyped' /\ loop'["wd"] = loop["wd"] /\ loop'["mh"] = Unload(l, "compare")
  BY <1>2, <1>3, SetLoop DEF Threads
<1>5. l.pc = "read" /\ l.i = Len(l.pkt) + 1 /\ Len(l.pkt) \in Nat
  BY <1>1, LenProperties DEF Counted, Over, LoopState
<1> QED BY <1>3, <1>4, <1>5 DEF l

LEMMA DoneLoop ==
  ASSUME LoopsTyped, Done, loop["mh"].pc = "compare"
  PROVE  LoopsTyped' /\ loop'["wd"] = loop["wd"] /\ loop'["mh"].pc = "idle"
<1>1. loop["mh"] \in LoopState /\ Counted(loop["mh"])
  BY DEF LoopsTyped, Threads
<1>2. loop' = [loop EXCEPT !["mh"] = Turned(loop["mh"], "idle")]
  BY DEF Done, Turned
<1> QED BY <1>1, <1>2, TurnedFacts, SetLoop DEF Threads

-----------------------------------------------------------------------------
(* Types. *)

(* Only commands that were sent are waited for, handled and answered. *)
SentOnly ==
  /\ \A i \in 1..Len(msgQ) : msgQ[i] \in 1..Len(sent)
  /\ cmd <= Len(sent)
  /\ Len(sent) <= MaxCmds

Typed == TypeOK /\ LoopsTyped /\ SentOnly

LEMMA QueueTail ==
  ASSUME NEW S, NEW q \in Seq(S), q # <<>>
  PROVE  /\ Head(q) \in S /\ Tail(q) \in Seq(S) /\ Len(q) \in Nat /\ Len(q) >= 1
         /\ Len(Tail(q)) = Len(q) - 1 /\ Head(q) = q[1]
         /\ \A i \in 1..Len(Tail(q)) : Tail(q)[i] = q[i + 1]
BY HeadTailProperties, EmptySeq, LenProperties

LEMMA NowIsACommand ==
  ASSUME Typed, loop["mh"].pc \in {"read", "compare"}
  PROVE  /\ cmd \in 1..Len(sent) /\ cmd \in 1..MaxCmds /\ Now \in Command
         /\ Len(sent) \in Nat
<1>1. cmd # 0 /\ cmd \in 0..MaxCmds /\ cmd <= Len(sent) /\ sent \in Seq(Commands)
  BY DEF Typed, TypeOK, SentOnly
<1>2. Len(sent) \in Nat /\ MaxCmds \in Nat /\ Commands \subseteq Command
  BY <1>1, LenProperties, VersionsAssumption
<1>3. cmd \in 1..Len(sent) /\ cmd \in 1..MaxCmds
  BY <1>1, <1>2
<1> QED BY <1>1, <1>2, <1>3, ElementOfSeq DEF Now

(* The least number is that of the smallest interval that ends in the set. *)
LEMMA LeastOf ==
  ASSUME NEW T, T \subseteq Nat, T # {}
  PROVE  \E m \in T : \A n \in T : m <= n
<1> DEFINE R == StrictSubsetOrdering(Nat)
           W == {0..n : n \in T}
<1>1. IsWellFoundedOn(R, FiniteSubsetsOf(Nat))
  BY FS_StrictSubsetOrderingWellFounded
<1>2. ASSUME NEW n \in T PROVE 0..n \in FiniteSubsetsOf(Nat)
  BY FS_Interval DEF FiniteSubsetsOf
<1>3. W \subseteq FiniteSubsetsOf(Nat) /\ W # {}
  BY <1>2
<1> HIDE DEF R
<1>4. PICK w \in W : \A v \in W : <<v, w>> \notin R
  BY <1>1, <1>3, WFMin
<1>5. PICK m \in T : w = 0..m
  BY <1>4
<1>6. ASSUME NEW n \in T, n < m PROVE FALSE
  <2>1. 0..n \in W /\ 0..n \subseteq 0..m /\ m \in 0..m /\ m \notin 0..n
    BY <1>6
  <2>2. <<0..n, 0..m>> \in R
    BY <2>1 DEF R, StrictSubsetOrdering
  <2> QED BY <1>4, <1>5, <2>1, <2>2
<1> QED BY <1>6

LEMMA KnownTyped ==
  ASSUME TypeOK, NEW p
  PROVE  Known(p) \in Vers
<1> DEFINE hits == {i \in DOMAIN table : table[i].name = p}
<1>1. table \in Seq(Version) /\ DOMAIN table = 1..Len(table) /\ Len(table) \in Nat
  BY LenProperties DEF TypeOK
<1>2. CASE hits = {}
  BY <1>2, VersionsAssumption DEF Known, Vers
<1>3. CASE hits # {}
  <2> DEFINE k == CHOOSE i \in hits : \A j \in hits : i <= j
  <2>1. hits \in SUBSET Nat
    BY <1>1
  <2>2. \E i \in hits : \A j \in hits : i <= j
    BY <1>3, <2>1, LeastOf
  <2>3. k \in hits
    BY <2>2
  <2>4. table[k] \in Version /\ Known(p) = table[k].ver
    BY <1>1, <1>3, <2>3, ElementOfSeq DEF Known
  <2> QED BY <2>4 DEF Version
<1> QED BY <1>2, <1>3

(* Where the version that is known of a process stands. *)
LEMMA KnownInTable ==
  ASSUME TypeOK, NEW p
  PROVE  \/ Known(p) = 0
         \/ \E k \in 1..Len(table) : table[k].name = p /\ Known(p) = table[k].ver
<1> DEFINE hits == {i \in DOMAIN table : table[i].name = p}
<1>1. table \in Seq(Version) /\ DOMAIN table = 1..Len(table) /\ Len(table) \in Nat
  BY LenProperties DEF TypeOK
<1>2. CASE hits = {}
  BY <1>2 DEF Known
<1>3. CASE hits # {}
  <2> DEFINE k == CHOOSE i \in hits : \A j \in hits : i <= j
  <2>1. hits \in SUBSET Nat
    BY <1>1
  <2>2. \E i \in hits : \A j \in hits : i <= j
    BY <1>3, <2>1, LeastOf
  <2>3. k \in hits
    BY <2>2
  <2>4. Known(p) = table[k].ver
    BY <1>3 DEF Known
  <2> QED BY <1>1, <2>3, <2>4
<1> QED BY <1>2, <1>3

LEMMA PushTyped ==
  ASSUME Typed, loop["mh"].pc \in {"read", "compare"},
         NEW nos, nos \subseteq {cmd, Junk, Missing}, Push(nos)
  PROVE  reqs' \in Seq(Request)
<1>1. cmd \in 1..MaxCmds /\ reqs \in Seq(Request)
  BY NowIsACommand DEF Typed, TypeOK
<1>2. PICK no \in (IF Now.url THEN nos ELSE {Missing}) :
        reqs' = IF no = Missing THEN reqs ELSE Append(reqs, [cmd |-> cmd, no |-> no])
  BY DEF Push
<1>3. CASE no = Missing
  BY <1>1, <1>2, <1>3
<1>4. CASE no # Missing
  <2>1. [cmd |-> cmd, no |-> no] \in Request
    BY <1>1, <1>2, <1>4 DEF Request
  <2> QED BY <1>1, <1>2, <1>4, <2>1, AppendProperties
<1> QED BY <1>3, <1>4

LEMMA TellTyped ==
  ASSUME TypeOK, NEW x \in Told
  PROVE  Tell(x) \in Entry
BY DEF TypeOK, Told, Tell, Entry

LEMMA InitTyped == Init => Typed
<1> SUFFICES ASSUME Init PROVE Typed
  OBVIOUS
<1>1. Idle = Rested("idle")
  BY DEF Idle, Rested
<1>2. Idle \in LoopState /\ Counted(Idle) /\ Idle.pc = "idle"
  BY <1>1, RestedFacts
<1>3. loop["mh"] = Idle /\ LoopsTyped
  BY <1>2 DEF Init, LoopsTyped, Threads
<1>4. TypeOK
  <2>1. /\ actual \in [Procs -> Vers] /\ ran \in [Procs -> SUBSET Vers]
        /\ \A p \in Procs : actual[p] \in ran[p]
        /\ asked \in Nat /\ asks \in Nat
        /\ bound \in BOOLEAN /\ raced \in BOOLEAN /\ cmd \in 0..MaxCmds
        /\ refused \subseteq 1..MaxCmds
    <3>1. /\ actual = [p \in Procs |-> OwnVer] /\ asked = 1 /\ asks = 1 /\ bound = FALSE
          /\ raced = FALSE /\ cmd = 0 /\ refused = {}
      BY DEF Init
    <3>2. OwnVer \in Vers /\ MaxCmds \in Nat
      BY VersionsAssumption
    <3>3. /\ actual \in [Procs -> Vers] /\ ran \in [Procs -> SUBSET Vers]
          /\ \A p \in Procs : actual[p] \in ran[p]
      <4>1. ran = [p \in Procs |-> {OwnVer}]
        BY DEF Init
      <4> QED BY <3>1, <3>2, <4>1
    <3>4. cmd \in 0..MaxCmds
      BY <3>1, <3>2
    <3> QED BY <3>1, <3>3, <3>4
  <2>2. /\ inbox \in Seq(Seq(Entry)) /\ table \in Seq(Version) /\ sent \in Seq(Commands)
        /\ msgQ \in Seq(1..MaxCmds) /\ news \in Seq(Version) /\ reqs \in Seq(Request)
    <3>1. /\ inbox = <<>> /\ table = <<>> /\ sent = <<>> /\ msgQ = <<>> /\ news = <<>>
          /\ reqs = <<>>
      BY DEF Init
    <3>2. \A S : <<>> \in Seq(S)
      BY EmptySeq
    <3> QED BY <3>1, <3>2, Zenon
  <2> QED BY <1>2, <1>3, <2>1, <2>2 DEF TypeOK, LoopsTyped
<1>5. SentOnly
  BY VersionsAssumption DEF Init, SentOnly
<1> QED BY <1>3, <1>4, <1>5 DEF Typed

LEMMA StepTyped == Typed /\ [Next]_vars => Typed'
<1> SUFFICES ASSUME Typed, [Next]_vars PROVE Typed'
  OBVIOUS
<1> USE DEF Typed
<1>a. /\ TypeOK /\ LoopsTyped /\ SentOnly /\ loop \in [Threads -> LoopState]
      /\ sent \in Seq(Commands) /\ Len(sent) \in Nat /\ msgQ \in Seq(1..MaxCmds)
      /\ MaxCmds \in Nat /\ cmd \in 0..MaxCmds /\ Commands \subseteq Command
  BY LenProperties, VersionsAssumption DEF TypeOK
<1>1. CASE WDAnswers
  <2>1. PICK r \in Reports :
          inbox' = IF bound THEN Append(inbox, [i \in 1..Len(r) |-> Tell(r[i])]) ELSE inbox
    BY <1>1 DEF WDAnswers
  <2> DEFINE d == [i \in 1..Len(r) |-> Tell(r[i])]
  <2>2. r \in Seq(Told) /\ Len(r) \in Nat
    BY VersionsAssumption, LenProperties
  <2>3. ASSUME NEW i \in 1..Len(r) PROVE Tell(r[i]) \in Entry
    <3>1. r[i] \in Told
      BY <2>2, ElementOfSeq
    <3> QED BY <3>1, TellTyped
  <2>4. d \in [1..Len(r) -> Entry]
    BY <2>3
  <2>5. d \in Seq(Entry)
    BY <2>2, <2>4, FunctionIsSeq
  <2> HIDE DEF d
  <2>6. inbox' = IF bound THEN Append(inbox, d) ELSE inbox
    BY <2>1 DEF d
  <2>7. inbox' \in Seq(Seq(Entry))
    BY <2>5, <2>6, AppendProperties DEF TypeOK
  <2>8. /\ UNCHANGED <<actual, ran, asks, bound, table, msgQ, cmd, loop, news, sent, reqs,
                       refused, raced>>
        /\ asked' \in Nat
    BY <1>1 DEF WDAnswers, results, TypeOK
  <2> QED BY <2>7, <2>8 DEF TypeOK, LoopsTyped, SentOnly
<1>2. CASE ProcessRestarts
  <2>1. UNCHANGED <<asked, asks, bound, inbox, table, msgQ, cmd, loop, news, sent, reqs,
                    refused, raced>>
    BY <1>2 DEF ProcessRestarts, results
  <2>2. PICK p \in Procs, v \in Vers : /\ actual' = [actual EXCEPT ![p] = v]
                                       /\ ran' = [ran EXCEPT ![p] = @ \cup {v}]
    BY <1>2 DEF ProcessRestarts
  <2>3. /\ actual' \in [Procs -> Vers] /\ ran' \in [Procs -> SUBSET Vers]
        /\ \A q \in Procs : actual'[q] \in ran'[q]
    BY <2>2 DEF TypeOK
  <2> QED BY <2>1, <2>3 DEF TypeOK, LoopsTyped, SentOnly
<1>3. CASE AskVersions
  BY <1>3 DEF AskVersions, results, TypeOK, LoopsTyped, SentOnly
<1>4. CASE PanelSends
  <2>1. PICK c \in Commands : sent' = Append(sent, c)
    BY <1>4 DEF PanelSends
  <2>2. sent' \in Seq(Commands) /\ Len(sent') = Len(sent) + 1
    BY <1>a, <2>1, AppendProperties
  <2>3. Len(sent) < MaxCmds /\ msgQ' = Append(msgQ, Len(sent) + 1)
    BY <1>4 DEF PanelSends
  <2>4. Len(sent) + 1 \in 1..MaxCmds
    BY <1>a, <2>3
  <2>5. /\ msgQ' \in Seq(1..MaxCmds) /\ Len(msgQ') = Len(msgQ) + 1
        /\ msgQ'[Len(msgQ) + 1] = Len(sent) + 1
        /\ \A i \in 1..Len(msgQ) : msgQ'[i] = msgQ[i]
    BY <1>a, <2>3, <2>4, AppendProperties
  <2>6. UNCHANGED <<actual, ran, asked, asks, bound, inbox, table, cmd, loop, news, reqs,
                    refused, raced>>
    BY <1>4 DEF PanelSends, outside
  <2>7. TypeOK' /\ LoopsTyped'
    BY <2>2, <2>5, <2>6 DEF TypeOK, LoopsTyped
  <2>8. Len(msgQ) \in Nat
    BY <1>a, LenProperties
  <2>9. ASSUME NEW i \in 1..Len(msgQ') PROVE msgQ'[i] \in 1..Len(sent')
    <3>1. CASE i = Len(msgQ) + 1
      BY <1>a, <2>2, <2>5, <3>1
    <3>2. CASE i # Len(msgQ) + 1
      <4>1. i \in 1..Len(msgQ)
        BY <2>5, <2>8, <3>2
      <4>2. msgQ'[i] = msgQ[i] /\ msgQ[i] \in 1..Len(sent)
        BY <1>a, <2>5, <4>1 DEF SentOnly
      <4> QED BY <1>a, <2>2, <4>2
    <3> QED BY <3>1, <3>2
  <2>10. cmd' <= Len(sent') /\ Len(sent') <= MaxCmds
    BY <1>a, <2>2, <2>3, <2>6 DEF SentOnly
  <2> QED BY <2>7, <2>9, <2>10 DEF SentOnly
<1>5. CASE Bind
  BY <1>5 DEF Bind, results, TypeOK, LoopsTyped, SentOnly
<1>6. CASE WDReceives
  <2>1. LoopsTyped' /\ loop'["mh"] = loop["mh"]
    BY <1>6, WDReceivesLoop
  <2>2. inbox' \in Seq(Seq(Entry))
    BY <1>6, QueueTail DEF WDReceives, TypeOK
  <2>3. UNCHANGED <<actual, ran, asked, asks, bound, table, msgQ, cmd, news, sent, reqs,
                    refused, raced>>
    BY <1>6 DEF WDReceives, results
  <2> QED BY <2>1, <2>2, <2>3 DEF TypeOK, LoopsTyped, SentOnly
<1>7. CASE WDReads
  <2>1. LoopsTyped' /\ loop'["mh"] = loop["mh"]
    BY <1>7, WDReadsLoop
  <2>2. UNCHANGED <<actual, ran, asked, asks, bound, inbox, table, msgQ, cmd, news, sent, reqs,
                    refused, raced>>
    BY <1>7 DEF WDReads, outside, results
  <2> QED BY <2>1, <2>2 DEF TypeOK, LoopsTyped, SentOnly
<1>8. CASE WDAdds
  <2>1. LoopsTyped' /\ loop'["mh"] = loop["mh"] /\ loop["wd"].ver \in Version
    BY <1>8, WDAddsLoop
  <2>2. table' \in Seq(Version)
    BY <1>8, <2>1, AppendProperties DEF WDAdds, TypeOK
  <2>3. UNCHANGED <<actual, ran, asked, asks, bound, inbox, msgQ, cmd, news, sent, reqs,
                    refused, raced>>
    BY <1>8 DEF WDAdds, outside, results
  <2> QED BY <2>1, <2>2, <2>3 DEF TypeOK, LoopsTyped, SentOnly
<1>9. CASE WDEnds
  <2>1. LoopsTyped' /\ loop'["mh"] = loop["mh"]
    BY <1>9, WDEndsLoop
  <2>2. UNCHANGED <<actual, ran, asked, asks, bound, inbox, table, msgQ, cmd, news, sent, reqs,
                    refused, raced>>
    BY <1>9 DEF WDEnds, outside, results
  <2> QED BY <2>1, <2>2 DEF TypeOK, LoopsTyped, SentOnly
<1>10. CASE MHTakes
  <2>1. /\ msgQ # <<>> /\ cmd' = Head(msgQ) /\ msgQ' = Tail(msgQ)
        /\ UNCHANGED <<actual, ran, asked, asks, bound, inbox, table, news, sent, reqs,
                       refused, raced>>
    BY <1>10 DEF MHTakes, outside, results
  <2>2. /\ Head(msgQ) \in 1..MaxCmds /\ Head(msgQ) \in 1..Len(sent)
        /\ msgQ' \in Seq(1..MaxCmds)
        /\ \A i \in 1..Len(msgQ') : msgQ'[i] \in 1..Len(sent)
    BY <1>a, <2>1, QueueTail DEF SentOnly
  <2>3. sent[Head(msgQ)] \in Command
    BY <1>a, <2>2, ElementOfSeq
  <2>4. LoopsTyped' /\ loop'["mh"].pc \in {"read", "compare"}
    BY <1>10, <2>3, MHTakesLoop
  <2>5. TypeOK'
    <3>1. cmd' \in 0..MaxCmds /\ cmd' # 0
      BY <2>1, <2>2
    <3>2. loop' \in [Threads -> LoopState] /\ loop'["mh"].pc # "grow"
      BY <2>4 DEF LoopsTyped
    <3> QED BY <1>a, <2>1, <2>2, <3>1, <3>2 DEF TypeOK
  <2>6. SentOnly'
    BY <1>a, <2>1, <2>2 DEF SentOnly
  <2> QED BY <2>4, <2>5, <2>6
<1>11. CASE MHReads
  <2>1. LoopsTyped' /\ loop["mh"].pc = "read" /\ loop'["mh"].pc = "read"
        /\ loop'["mh"].ver \in Version
    BY <1>11, MHReadsLoop
  <2>2. news' \in Seq(Version)
    BY <1>11, <2>1, AppendProperties DEF MHReads, TypeOK
  <2>3. UNCHANGED <<actual, ran, asked, asks, bound, inbox, table, msgQ, cmd, sent, reqs,
                    refused, raced>>
    BY <1>11 DEF MHReads, outside, results
  <2> QED BY <2>1, <2>2, <2>3 DEF TypeOK, LoopsTyped, SentOnly
<1>12. CASE MHListed
  <2>1. LoopsTyped' /\ loop["mh"].pc = "read" /\ loop'["mh"].pc = "compare"
    BY <1>12, MHListedLoop
  <2>2. UNCHANGED <<actual, ran, asked, asks, bound, inbox, table, msgQ, cmd, news, sent, reqs,
                    refused, raced>>
    BY <1>12 DEF MHListed, outside, results
  <2> QED BY <2>1, <2>2 DEF TypeOK, LoopsTyped, SentOnly
<1>13. CASE MHSkips
  <2>1. /\ news # <<>> /\ news' = Tail(news)
        /\ UNCHANGED <<actual, ran, asked, asks, bound, inbox, table, msgQ, cmd, loop, sent,
                       reqs, refused>>
        /\ raced' \in BOOLEAN
    BY <1>13 DEF MHSkips, outside, Races, TypeOK
  <2>2. news' \in Seq(Version)
    BY <2>1, QueueTail DEF TypeOK
  <2> QED BY <2>1, <2>2 DEF TypeOK, LoopsTyped, SentOnly
<1>14. CASE MHAcceptsMeter
  <2>1. /\ loop["mh"].pc = "compare" /\ Done
        /\ UNCHANGED <<actual, ran, asked, asks, bound, inbox, table, msgQ, sent, refused>>
        /\ raced' \in BOOLEAN
        /\ Push(IF Now.no THEN {cmd} ELSE {Missing})
    BY <1>14 DEF MHAcceptsMeter, outside, Races, TypeOK
  <2>2. LoopsTyped' /\ loop'["mh"].pc = "idle"
    BY <2>1, DoneLoop
  <2>3. reqs' \in Seq(Request)
    BY <2>1, PushTyped
  <2>4. cmd' = 0 /\ news' \in Seq(Version)
    BY <2>1 DEF Done
  <2> QED BY <1>a, <2>1, <2>2, <2>3, <2>4 DEF TypeOK, LoopsTyped, SentOnly
<1>15. CASE MHRefusesMeter
  <2>1. /\ loop["mh"].pc = "compare" /\ Done
        /\ UNCHANGED <<actual, ran, asked, asks, bound, inbox, table, msgQ, sent, reqs, raced>>
        /\ refused' = refused \cup {cmd}
    BY <1>15 DEF MHRefusesMeter, outside
  <2>2. LoopsTyped' /\ loop'["mh"].pc = "idle"
    BY <2>1, DoneLoop
  <2>3. refused' \subseteq 1..MaxCmds
    BY <2>1, NowIsACommand DEF TypeOK
  <2>4. cmd' = 0 /\ news' \in Seq(Version)
    BY <2>1 DEF Done
  <2> QED BY <1>a, <2>1, <2>2, <2>3, <2>4 DEF TypeOK, LoopsTyped, SentOnly
<1>16. CASE MHComparesOne
  <2>1. /\ loop["mh"].pc = "compare" /\ Done
        /\ UNCHANGED <<actual, ran, asked, asks, bound, inbox, table, msgQ, sent>>
        /\ raced' \in BOOLEAN
        /\ \/ Push(Numbers) /\ refused' = refused
           \/ refused' = refused \cup {cmd} /\ reqs' = reqs
    BY <1>16 DEF MHComparesOne, outside, Races, TypeOK
  <2>2. LoopsTyped' /\ loop'["mh"].pc = "idle"
    BY <2>1, DoneLoop
  <2>3. reqs' \in Seq(Request)
    BY <2>1, PushTyped DEF Numbers, TypeOK
  <2>4. refused' \subseteq 1..MaxCmds
    <3>1. cmd \in 1..MaxCmds /\ refused \subseteq 1..MaxCmds
      BY <2>1, NowIsACommand DEF TypeOK
    <3>2. refused' = refused \/ refused' = refused \cup {cmd}
      BY <2>1
    <3> QED BY <3>1, <3>2
  <2>5. cmd' = 0 /\ news' \in Seq(Version)
    BY <2>1 DEF Done
  <2> QED BY <1>a, <2>1, <2>2, <2>3, <2>4, <2>5 DEF TypeOK, LoopsTyped, SentOnly
<1>17. CASE UNCHANGED vars
  BY <1>17 DEF vars, TypeOK, LoopsTyped, SentOnly
<1> QED BY <1>1, <1>2, <1>3, <1>4, <1>5, <1>6, <1>7, <1>8, <1>9, <1>10, <1>11, <1>12,
           <1>13, <1>14, <1>15, <1>16, <1>17 DEF Next, WDStep, MHStep

LEMMA Types == Spec => []Typed
BY InitTyped, StepTyped, PTL DEF Spec

(* The state has the types Versions.tla gives it. *)
THEOREM TypeCorrect == Spec => []TypeOK
<1>1. Typed => TypeOK
  BY DEF Typed
<1> QED BY <1>1, Types, PTL

(* The reference counts of jansson never go below 0 and no entry is read    *)
(* after its release, in getNewVersions and wdogRespThread alike, although *)
(* JsonFactory::getObjAt counts the root in place of the entry.            *)
THEOREM ReleasedOnce == Spec => []NoDoubleFree
<1>1. Typed => NoDoubleFree
  <2> SUFFICES ASSUME Typed, NEW t \in Threads
               PROVE  /\ loop[t].root >= 0
                      /\ \A i \in DOMAIN loop[t].elem :
                           loop[t].elem[i] >=
                             (IF loop[t].pc = "read" /\ i >= loop[t].i THEN 1 ELSE 0)
    BY DEF NoDoubleFree
  <2> DEFINE l == loop[t]
  <2>1. l \in LoopState /\ Counted(l)
    BY DEF Typed, LoopsTyped
  <2>2. /\ l.pc \in {"idle", "read", "grow", "compare"} /\ l.i \in Nat
        /\ Len(l.elem) \in Nat /\ DOMAIN l.elem = 1..Len(l.elem)
    BY <2>1, LenProperties DEF LoopState
  <2> HIDE DEF l
  <2>3. CASE l.pc \in {"read", "grow"}
    <3>1. /\ l.root = l.i /\ Len(l.elem) = Len(l.pkt)
          /\ \A j \in 1..Len(l.pkt) : l.elem[j] = IF j < l.i THEN 0 ELSE 1
      BY <2>1, <2>3 DEF Counted
    <3>2. ASSUME NEW j \in DOMAIN l.elem
          PROVE  l.elem[j] >= (IF l.pc = "read" /\ j >= l.i THEN 1 ELSE 0)
      BY <2>2, <3>1
    <3> QED BY <2>2, <3>1, <3>2 DEF l
  <2>4. CASE l.pc \in {"idle", "compare"}
    <3>1. l.root >= 0 /\ \A j \in 1..Len(l.elem) : l.elem[j] >= 0
      BY <2>1, <2>4 DEF Counted
    <3> QED BY <2>2, <2>4, <3>1 DEF l
  <2> QED BY <2>2, <2>3, <2>4
<1> QED BY <1>1, Types, PTL

-----------------------------------------------------------------------------
(* The reports: what they say is what ran, or was lent by a gap. *)

HeardIn(p, h) == {0} \cup h[p] \cup UNION {h[q] : q \in {x \in Procs : Lends(x, p)}}

(* What a report of shape r says, with the versions h that ran. *)
Whole(x) == x.name /\ x.ver
Says(d, r, h) ==
  /\ Len(d) = Len(r)
  /\ \A i \in 1..Len(r) :
       /\ d[i].name = IF r[i].name THEN r[i].of ELSE Missing
       /\ IF r[i].ver THEN d[i].ver \in h[r[i].of] ELSE d[i].ver = Missing
Report(d, h) == \E r \in Reports : Says(d, r, h)

(* procVer before the entry i: its version is that of the last entry with  *)
(* name and version, and it is one its process may have been heard with.   *)
FromWhole(v, r, i, h) ==
  \/ v.ver = 0
  \/ \E j \in 1..Len(r) :
       /\ j < i /\ Whole(r[j]) /\ v.ver \in h[r[j].of]
       /\ \A k \in 1..Len(r) : j < k /\ k < i => ~Whole(r[k])
Honest(v, h) == v.name \in Procs => v.ver \in HeardIn(v.name, h)
Reading(l, h) ==
  \E r \in Reports : /\ Says(l.pkt, r, h)
                      /\ FromWhole(l.ver, r, l.i, h)

Reported ==
  /\ \A k \in 1..Len(inbox) : Report(inbox[k], ran)
  /\ loop["wd"].pc \in {"read", "grow"} =>
       Reading(loop["wd"], ran) /\ Honest(loop["wd"].ver, ran)
  /\ \A k \in 1..Len(table) : Honest(table[k], ran)

LEMMA MoreIsHeard ==
  ASSUME NEW g \in [Procs -> SUBSET Vers], NEW h \in [Procs -> SUBSET Vers],
         \A p \in Procs : g[p] \subseteq h[p]
  PROVE  /\ \A p \in Procs : HeardIn(p, g) \subseteq HeardIn(p, h)
         /\ \A d : Report(d, g) => Report(d, h)
         /\ \A l : Reading(l, g) => Reading(l, h)
         /\ \A v : Honest(v, g) => Honest(v, h)
<1>1. ASSUME NEW r \in Reports, NEW i \in 1..Len(r)
      PROVE  r[i].of \in Procs /\ g[r[i].of] \subseteq h[r[i].of]
  <2>1. r \in Seq(Told)
    BY VersionsAssumption
  <2>2. r[i] \in Told
    BY <2>1, ElementOfSeq
  <2> QED BY <2>2 DEF Told
<1>2. \A p \in Procs : HeardIn(p, g) \subseteq HeardIn(p, h)
  BY DEF HeardIn
<1>3. ASSUME NEW d, NEW r \in Reports, Says(d, r, g) PROVE Says(d, r, h)
  <2>1. ASSUME NEW i \in 1..Len(r), r[i].ver PROVE d[i].ver \in h[r[i].of]
    <3>1. d[i].ver \in g[r[i].of]
      BY <1>3, <2>1 DEF Says
    <3> QED BY <1>1, <3>1
  <2> QED BY <1>3, <2>1 DEF Says
<1>4. ASSUME NEW v, NEW r \in Reports, NEW i, FromWhole(v, r, i, g)
      PROVE  FromWhole(v, r, i, h)
  <2>1. CASE v.ver = 0
    BY <2>1 DEF FromWhole
  <2>2. CASE v.ver # 0
    <3>1. PICK j \in 1..Len(r) :
            /\ j < i /\ Whole(r[j]) /\ v.ver \in g[r[j].of]
            /\ \A k \in 1..Len(r) : j < k /\ k < i => ~Whole(r[k])
      BY <1>4, <2>2 DEF FromWhole
    <3>2. v.ver \in h[r[j].of]
      BY <1>1, <3>1
    <3> QED BY <3>1, <3>2 DEF FromWhole
  <2> QED BY <2>1, <2>2
<1>5. \A d : Report(d, g) => Report(d, h)
  BY <1>3 DEF Report
<1>6. \A l : Reading(l, g) => Reading(l, h)
  BY <1>3, <1>4 DEF Reading
<1>7. \A v : Honest(v, g) => Honest(v, h)
  BY <1>2 DEF Honest
<1> QED BY <1>2, <1>5, <1>6, <1>7

(* One round of the loop. *)
LEMMA RoundIsHonest ==
  ASSUME TypeOK, NEW r \in Reports, NEW i \in 1..Len(r), NEW d \in Seq(Entry),
         NEW v \in Version, Says(d, r, ran), FromWhole(v, r, i, ran), Honest(v, ran)
  PROVE  /\ FromWhole(Parsed(v, d[i]), r, i + 1, ran)
         /\ Honest(Parsed(v, d[i]), ran)
<1> DEFINE e == d[i]
           w == Parsed(v, e)
<1>1. /\ r \in Seq(Told) /\ Len(r) \in Nat /\ DOMAIN r = 1..Len(r)
  BY VersionsAssumption, LenProperties
<1>2. \A k \in 1..Len(r) : r[k] \in Told
  BY <1>1, ElementOfSeq
<1>3. /\ e.name = IF r[i].name THEN r[i].of ELSE Missing
      /\ IF r[i].ver THEN e.ver \in ran[r[i].of] ELSE e.ver = Missing
  BY DEF Says
<1>4. r[i].of \in Procs /\ ran[r[i].of] \subseteq Vers
  BY <1>2 DEF Told, TypeOK
<1>5. Missing \notin Procs /\ Missing \notin Vers /\ i \in Int
  BY <1>1, VersionsAssumption DEF Vers
<1>6. /\ e.name = Missing <=> ~r[i].name
      /\ e.ver = Missing <=> ~r[i].ver
  BY <1>3, <1>4, <1>5
<1> HIDE DEF e
<1>7. /\ w.name = IF e.name = Missing THEN v.name ELSE e.name
      /\ w.ver = IF Missing \in {e.name, e.ver} THEN v.ver ELSE e.ver
  BY DEF Parsed
<1> HIDE DEF w
<1>8. CASE Whole(r[i])
  <2>1. w.name = r[i].of /\ w.ver \in ran[r[i].of]
    BY <1>3, <1>6, <1>7, <1>8 DEF Whole
  <2>2. FromWhole(w, r, i + 1, ran)
    <3>1. i < i + 1 /\ \A k \in 1..Len(r) : ~(i < k /\ k < i + 1)
      BY <1>5
    <3> QED BY <1>8, <2>1, <3>1 DEF FromWhole
  <2>3. Honest(w, ran)
    BY <2>1 DEF Honest, HeardIn
  <2> QED BY <2>2, <2>3 DEF w, e
<1>9. CASE ~Whole(r[i])
  <2>1. w.ver = v.ver
    BY <1>6, <1>7, <1>9 DEF Whole
  <2>2. FromWhole(w, r, i + 1, ran)
    <3>1. CASE v.ver = 0
      BY <2>1, <3>1 DEF FromWhole
    <3>2. CASE v.ver # 0
      <4>1. PICK j \in 1..Len(r) :
              /\ j < i /\ Whole(r[j]) /\ v.ver \in ran[r[j].of]
              /\ \A k \in 1..Len(r) : j < k /\ k < i => ~Whole(r[k])
        BY <3>2 DEF FromWhole
      <4>2. j < i + 1
        BY <1>5, <4>1
      <4>3. ASSUME NEW k \in 1..Len(r), j < k, k < i + 1 PROVE ~Whole(r[k])
        <5>1. k = i \/ k < i
          BY <1>5, <4>3
        <5> QED BY <1>9, <4>1, <4>3, <5>1
      <4> QED BY <2>1, <4>1, <4>2, <4>3 DEF FromWhole
    <3> QED BY <3>1, <3>2
  <2>3. Honest(w, ran)
    <3>1. CASE ~r[i].name
      BY <1>6, <1>7, <2>1, <3>1 DEF Honest
    <3>2. CASE r[i].name
      <4>1. w.name = r[i].of /\ ~r[i].ver
        BY <1>3, <1>6, <1>7, <1>9, <3>2 DEF Whole
      <4>2. CASE v.ver = 0
        BY <2>1, <4>2 DEF Honest, HeardIn
      <4>3. CASE v.ver # 0
        <5>1. PICK j \in 1..Len(r) :
                /\ j < i /\ Whole(r[j]) /\ v.ver \in ran[r[j].of]
                /\ \A k \in 1..Len(r) : j < k /\ k < i => ~Whole(r[k])
          BY <4>3 DEF FromWhole
        <5>2. Lends(r[j].of, r[i].of)
          BY <1>1, <3>2, <4>1, <5>1 DEF Lends, Whole
        <5>3. r[j].of \in Procs
          BY <1>2 DEF Told
        <5>4. v.ver \in HeardIn(r[i].of, ran)
          BY <5>1, <5>2, <5>3 DEF HeardIn
        <5> QED BY <2>1, <4>1, <5>4 DEF Honest
      <4> QED BY <4>2, <4>3
    <3> QED BY <3>1, <3>2
  <2> QED BY <2>2, <2>3 DEF w, e
<1> QED BY <1>8, <1>9

LEMMA RanGrows ==
  ASSUME Typed, Typed', [Next]_vars
  PROVE  /\ ran \in [Procs -> SUBSET Vers] /\ ran' \in [Procs -> SUBSET Vers]
         /\ \A p \in Procs : ran[p] \subseteq ran'[p]
<1>1. ran \in [Procs -> SUBSET Vers] /\ ran' \in [Procs -> SUBSET Vers]
  BY DEF Typed, TypeOK
<1>2. CASE ProcessRestarts
  BY <1>1, <1>2 DEF ProcessRestarts
<1>3. CASE ~ProcessRestarts
  <2>1. ran' = ran
    BY <1>3 DEF Next, WDStep, MHStep, vars, outside, WDAnswers, AskVersions, PanelSends,
                Bind, WDReceives, WDReads, WDAdds, WDEnds, MHTakes, MHReads, MHListed,
                MHSkips, MHAcceptsMeter, MHRefusesMeter, MHComparesOne
  <2> QED BY <1>1, <2>1
<1> QED BY <1>1, <1>2, <1>3

LEMMA MHLeavesReports ==
  ASSUME Typed, MHStep
  PROVE  UNCHANGED <<ran, inbox, table>> /\ loop'["wd"] = loop["wd"]
<1>1. UNCHANGED <<ran, inbox, table>>
  BY DEF MHStep, outside, MHTakes, MHReads, MHListed, MHSkips, MHAcceptsMeter,
         MHRefusesMeter, MHComparesOne
<1>a. TypeOK /\ LoopsTyped /\ SentOnly
  BY DEF Typed
<1>2. CASE MHTakes
  <2>1. msgQ # <<>> /\ msgQ \in Seq(1..MaxCmds) /\ sent \in Seq(Commands)
    BY <1>2, <1>a DEF MHTakes, TypeOK
  <2>2. Head(msgQ) \in 1..Len(sent)
    BY <1>a, <2>1, QueueTail DEF SentOnly
  <2>3. sent[Head(msgQ)] \in Command
    BY <2>1, <2>2, ElementOfSeq, VersionsAssumption
  <2> QED BY <1>1, <1>2, <1>a, <2>3, MHTakesLoop
<1>3. CASE MHReads
  BY <1>1, <1>3, <1>a, MHReadsLoop
<1>4. CASE MHListed
  BY <1>1, <1>4, <1>a, MHListedLoop
<1>5. CASE MHSkips
  BY <1>1, <1>5 DEF MHSkips
<1>6. CASE MHAcceptsMeter \/ MHRefusesMeter \/ MHComparesOne
  <2>1. Done /\ loop["mh"].pc = "compare"
    BY <1>6 DEF MHAcceptsMeter, MHRefusesMeter, MHComparesOne
  <2> QED BY <1>1, <1>a, <2>1, DoneLoop
<1> QED BY <1>2, <1>3, <1>4, <1>5, <1>6 DEF MHStep

LEMMA InitReported == Init => Reported
<1> SUFFICES ASSUME Init PROVE Reported
  OBVIOUS
<1>1. inbox = <<>> /\ table = <<>> /\ loop["wd"] = Idle
  BY DEF Init, Threads
<1>2. Idle.pc = "idle"
  BY DEF Idle
<1>3. Len(<<>>) = 0
  BY EmptySeq
<1> QED BY <1>1, <1>2, <1>3 DEF Reported

LEMMA StepReported == Typed /\ Typed' /\ Reported /\ [Next]_vars => Reported'
<1> SUFFICES ASSUME Typed, Typed', Reported, [Next]_vars PROVE Reported'
  OBVIOUS
<1>a. TypeOK /\ LoopsTyped /\ SentOnly
  BY DEF Typed
<1>1. CASE WDAnswers
  <2>1. PICK r \in Reports :
          inbox' = IF bound THEN Append(inbox, [i \in 1..Len(r) |-> Tell(r[i])]) ELSE inbox
    BY <1>1 DEF WDAnswers
  <2> DEFINE d == [i \in 1..Len(r) |-> Tell(r[i])]
  <2>2. r \in Seq(Told) /\ Len(r) \in Nat
    BY VersionsAssumption, LenProperties
  <2>3. ASSUME NEW i \in 1..Len(r)
        PROVE  /\ d[i] \in Entry
               /\ d[i].name = IF r[i].name THEN r[i].of ELSE Missing
               /\ IF r[i].ver THEN d[i].ver \in ran[r[i].of] ELSE d[i].ver = Missing
    <3>1. r[i] \in Told /\ d[i] = Tell(r[i])
      BY <2>2, ElementOfSeq
    <3>2. r[i].of \in Procs
      BY <3>1 DEF Told
    <3>3. actual[r[i].of] \in ran[r[i].of]
      BY <1>a, <3>2 DEF TypeOK
    <3> QED BY <1>a, <3>1, <3>3, TellTyped DEF Tell
  <2>4. d \in [1..Len(r) -> Entry]
    BY <2>3
  <2>5. d \in Seq(Entry) /\ Len(d) = Len(r)
    BY <2>2, <2>4, FunctionIsSeq
  <2>6. inbox' = IF bound THEN Append(inbox, d) ELSE inbox
    BY <2>1
  <2> HIDE DEF d
  <2>7. Report(d, ran)
    BY <2>3, <2>5 DEF Report, Says
  <2>8. UNCHANGED <<ran, table, loop>>
    BY <1>1 DEF WDAnswers
  <2>9. \A k \in 1..Len(inbox') : Report(inbox'[k], ran)
    <3>1. inbox \in Seq(Seq(Entry)) /\ Len(inbox) \in Nat
      BY <1>a, LenProperties DEF TypeOK
    <3>2. CASE ~bound
      BY <2>6, <3>2 DEF Reported
    <3>3. CASE bound
      <4>1. /\ Len(inbox') = Len(inbox) + 1 /\ inbox'[Len(inbox) + 1] = d
            /\ \A k \in 1..Len(inbox) : inbox'[k] = inbox[k]
        BY <2>5, <2>6, <3>1, <3>3, AppendProperties
      <4>2. ASSUME NEW k \in 1..Len(inbox) + 1 PROVE Report(inbox'[k], ran)
        <5>1. CASE k = Len(inbox) + 1
          BY <2>7, <4>1, <5>1
        <5>2. CASE k # Len(inbox) + 1
          <6>1. k \in 1..Len(inbox)
            BY <3>1, <5>2
          <6> QED BY <4>1, <6>1 DEF Reported
        <5> QED BY <5>1, <5>2
      <4> QED BY <4>1, <4>2
    <3> QED BY <3>2, <3>3
  <2> QED BY <2>8, <2>9 DEF Reported
<1>2. CASE ProcessRestarts
  <2>1. UNCHANGED <<inbox, table, loop>>
    BY <1>2 DEF ProcessRestarts
  <2>2. /\ \A d : Report(d, ran) => Report(d, ran')
        /\ \A l : Reading(l, ran) => Reading(l, ran')
        /\ \A v : Honest(v, ran) => Honest(v, ran')
    BY RanGrows, MoreIsHeard
  <2> QED BY <2>1, <2>2 DEF Reported
<1>3. CASE AskVersions \/ Bind \/ UNCHANGED vars
  <2>1. UNCHANGED <<ran, inbox, table, loop>>
    BY <1>3 DEF AskVersions, Bind, vars
  <2> QED BY <2>1 DEF Reported
<1>4. CASE PanelSends
  <2>1. UNCHANGED <<ran, inbox, table, loop>>
    BY <1>4 DEF PanelSends, outside
  <2> QED BY <2>1 DEF Reported
<1>5. CASE WDReceives
  <2>1. inbox # <<>> /\ inbox' = Tail(inbox) /\ UNCHANGED <<ran, table>>
    BY <1>5 DEF WDReceives
  <2>2. inbox \in Seq(Seq(Entry))
    BY <1>a DEF TypeOK
  <2>3. /\ Head(inbox) = inbox[1] /\ Len(inbox) \in Nat /\ Len(inbox) >= 1
        /\ Len(inbox') = Len(inbox) - 1
        /\ \A k \in 1..Len(inbox') : inbox'[k] = inbox[k + 1]
    BY <2>1, <2>2, QueueTail
  <2>4. \A k \in 1..Len(inbox') : Report(inbox'[k], ran)
    BY <2>3 DEF Reported
  <2>5. loop'["wd"] = Load(inbox[1])
    BY <1>5, <1>a, <2>3 DEF WDReceives, LoopsTyped, TypeOK, Threads
  <2>6. /\ loop'["wd"].pkt = inbox[1] /\ loop'["wd"].i = 1 /\ loop'["wd"].ver = Fresh
    BY <2>5 DEF Load
  <2>7. PICK r \in Reports : Says(inbox[1], r, ran)
    BY <2>3 DEF Reported, Report
  <2>8. Fresh.ver = 0 /\ Fresh.name = NoName /\ NoName \notin Procs
    BY VersionsAssumption DEF Fresh
  <2>9. Reading(loop'["wd"], ran) /\ Honest(loop'["wd"].ver, ran)
    BY <2>6, <2>7, <2>8 DEF Reading, FromWhole, Honest
  <2> QED BY <2>1, <2>4, <2>9 DEF Reported
<1>6. CASE WDReads
  <2> DEFINE l == loop["wd"]
  <2>1. /\ loop'["wd"].pc = "grow" /\ loop'["wd"].pkt = l.pkt
        /\ loop'["wd"].ver = Parsed(l.ver, l.pkt[l.i]) /\ l.i \in DOMAIN l.pkt
        /\ l.ver \in Version /\ l.pkt[l.i] \in Entry
    BY <1>6, <1>a, WDReadsLoop
  <2>2. /\ loop'["wd"].i = l.i + 1 /\ l.pc = "read"
        /\ UNCHANGED <<ran, inbox, table>>
    BY <1>6, <1>a DEF WDReads, More, OneEntry, outside, Threads, TypeOK
  <2>3. l.pkt \in Seq(Entry) /\ DOMAIN l.pkt = 1..Len(l.pkt)
    BY <1>a, LenProperties DEF TypeOK, LoopState, Threads
  <2>4. PICK r \in Reports : Says(l.pkt, r, ran) /\ FromWhole(l.ver, r, l.i, ran)
    BY <2>2 DEF Reported, Reading
  <2>5. Honest(l.ver, ran)
    BY <2>2 DEF Reported
  <2> HIDE DEF l
  <2>6. l.i \in 1..Len(r)
    BY <2>1, <2>3, <2>4 DEF Says
  <2>7. /\ FromWhole(Parsed(l.ver, l.pkt[l.i]), r, l.i + 1, ran)
        /\ Honest(Parsed(l.ver, l.pkt[l.i]), ran)
    BY <1>a, <2>1, <2>3, <2>4, <2>5, <2>6, RoundIsHonest
  <2>8. Reading(loop'["wd"], ran) /\ Honest(loop'["wd"].ver, ran)
    BY <2>1, <2>2, <2>4, <2>7 DEF Reading
  <2> QED BY <2>2, <2>8 DEF Reported
<1>7. CASE WDAdds
  <2>1. /\ loop["wd"].pc = "grow" /\ table' = Append(table, loop["wd"].ver)
        /\ UNCHANGED <<ran, inbox>> /\ loop["wd"].ver \in Version
    BY <1>7, <1>a, WDAddsLoop DEF WDAdds, outside
  <2>2. /\ loop'["wd"].pkt = loop["wd"].pkt /\ loop'["wd"].i = loop["wd"].i
        /\ loop'["wd"].ver = loop["wd"].ver
    BY <1>7, <1>a DEF WDAdds, LoopState, Threads, TypeOK
  <2>3. table \in Seq(Version) /\ Len(table) \in Nat
    BY <1>a, LenProperties DEF TypeOK
  <2>4. /\ Len(table') = Len(table) + 1 /\ table'[Len(table) + 1] = loop["wd"].ver
        /\ \A k \in 1..Len(table) : table'[k] = table[k]
    BY <2>1, <2>3, AppendProperties
  <2>5. ASSUME NEW k \in 1..Len(table') PROVE Honest(table'[k], ran)
    <3>1. CASE k = Len(table) + 1
      BY <2>1, <2>4, <3>1 DEF Reported
    <3>2. CASE k # Len(table) + 1
      <4>1. k \in 1..Len(table)
        BY <2>3, <2>4, <3>2
      <4> QED BY <2>4, <4>1 DEF Reported
    <3> QED BY <3>1, <3>2
  <2>6. Reading(loop'["wd"], ran) /\ Honest(loop'["wd"].ver, ran)
    BY <2>1, <2>2 DEF Reported, Reading
  <2> QED BY <2>1, <2>5, <2>6 DEF Reported
<1>8. CASE WDEnds
  <2>1. loop'["wd"].pc = "idle"
    BY <1>8, <1>a, WDEndsLoop
  <2>2. UNCHANGED <<ran, inbox, table>>
    BY <1>8 DEF WDEnds, outside
  <2> QED BY <2>1, <2>2 DEF Reported
<1>9. CASE MHStep
  <2>1. UNCHANGED <<ran, inbox, table>> /\ loop'["wd"] = loop["wd"]
    BY <1>9, MHLeavesReports
  <2> QED BY <2>1 DEF Reported
<1> QED BY <1>1, <1>2, <1>3, <1>4, <1>5, <1>6, <1>7, <1>8, <1>9 DEF Next, WDStep

LEMMA KnownIsHeard ==
  ASSUME Typed, Reported, NEW p \in Procs
  PROVE  Known(p) \in Heard(p) /\ Known(p) \in Int
<1>a. TypeOK
  BY DEF Typed
<1>1. Known(p) \in Int
  <2>1. Known(p) \in Vers
    BY <1>a, KnownTyped
  <2> QED BY <2>1, VersionsAssumption DEF Vers
<1>2. CASE Known(p) = 0
  BY <1>1, <1>2 DEF Heard
<1>3. CASE \E k \in 1..Len(table) : table[k].name = p /\ Known(p) = table[k].ver
  <2>1. PICK k \in 1..Len(table) : table[k].name = p /\ Known(p) = table[k].ver
    BY <1>3
  <2>2. Honest(table[k], ran)
    BY DEF Reported
  <2>3. Known(p) \in HeardIn(p, ran)
    BY <2>1, <2>2 DEF Honest
  <2> QED BY <1>1, <2>3 DEF Heard, HeardIn
<1> QED BY <1>a, <1>2, <1>3, KnownInTable

LEMMA ReportsAreReal == Spec => [](Typed /\ Reported)
<1>1. Init => Typed /\ Reported
  BY InitTyped, InitReported
<1>2. Typed /\ Reported /\ [Next]_vars => Typed' /\ Reported'
  BY StepTyped, StepReported
<1> QED BY <1>1, <1>2, PTL DEF Spec

(* Config::getVerForProc answers 0, a version the process has had, or the  *)
(* version of the last complete entry before one without a version, with   *)
(* any gaps in the reports, any restarts and any interleaving.             *)
THEOREM TableIsHeard == Spec => []KnownWasHeard
<1>1. Typed /\ Reported => KnownWasHeard
  BY KnownIsHeard DEF KnownWasHeard
<1> QED BY <1>1, ReportsAreReal, PTL

-----------------------------------------------------------------------------
(* What is still to be compared. *)

(* An entry of an update command that brings something newer. *)
Newer(e, h) ==
  /\ Missing \notin {e.name, e.ver} /\ e.name # WDog
  /\ \A v \in HeardIn(e.name, h) : e.ver > v

(* Each entry that brings something newer is still in the packet or in the *)
(* list of versions to compare.                                            *)
InPacket(j) == loop["mh"].pc = "read" /\ j >= loop["mh"].i
InNews(e)   == \E k \in 1..Len(news) : news[k] = [name |-> e.name, ver |-> e.ver]

Pending ==
  /\ loop["mh"].pc = "read" => Now.kind = "meter" /\ loop["mh"].pkt = Now.entries
  /\ loop["mh"].pc \in {"read", "compare"} /\ Now.kind = "meter" /\ ~raced =>
       \A j \in 1..Len(Now.entries) :
         Newer(Now.entries[j], ran) => InPacket(j) \/ InNews(Now.entries[j])

(* Steps that leave the message thread alone. *)
LEMMA PendingStays ==
  ASSUME Typed, Pending, loop'["mh"] = loop["mh"],
         loop["mh"].pc \in {"read", "compare"} => Now' = Now,
         UNCHANGED <<news, raced>>,
         ran \in [Procs -> SUBSET Vers], ran' \in [Procs -> SUBSET Vers],
         \A p \in Procs : ran[p] \subseteq ran'[p]
  PROVE  Pending'
<1>1. CASE loop["mh"].pc \in {"read", "compare"}
  <2>1. /\ Now' = Now /\ Now \in Command
    BY <1>1, NowIsACommand
  <2>2. ASSUME NEW j \in 1..Len(Now.entries), Newer(Now.entries[j], ran')
        PROVE  Newer(Now.entries[j], ran)
    <3>1. Now.entries[j] \in Entry
      BY <2>1, ElementOfSeq, LenProperties DEF Command
    <3>2. PICK e \in Entry : e = Now.entries[j]
      BY <3>1
    <3>3. e.name \in Procs
      BY <2>2, <3>2 DEF Newer, Entry
    <3>4. HeardIn(e.name, ran) \subseteq HeardIn(e.name, ran')
      BY <3>3, MoreIsHeard
    <3> QED BY <2>2, <3>2, <3>4 DEF Newer
  <2> QED BY <1>1, <2>1, <2>2 DEF Pending, InPacket, InNews
<1>2. CASE loop["mh"].pc \notin {"read", "compare"}
  BY <1>2 DEF Pending
<1> QED BY <1>1, <1>2

LEMMA InitPending == Init => Pending
<1> SUFFICES ASSUME Init PROVE Pending
  OBVIOUS
<1>1. loop["mh"] = Idle
  BY DEF Init, Threads
<1>2. Idle.pc = "idle"
  BY DEF Idle
<1> QED BY <1>1, <1>2 DEF Pending

LEMMA StepPending ==
  Typed /\ Typed' /\ Reported /\ Pending /\ [Next]_vars => Pending'
<1> SUFFICES ASSUME Typed, Typed', Reported, Pending, [Next]_vars PROVE Pending'
  OBVIOUS
<1>a. TypeOK /\ LoopsTyped /\ SentOnly /\ sent \in Seq(Commands)
  BY DEF Typed, TypeOK
<1>b. /\ ran \in [Procs -> SUBSET Vers] /\ ran' \in [Procs -> SUBSET Vers]
      /\ \A p \in Procs : ran[p] \subseteq ran'[p]
  BY RanGrows
<1>1. CASE WDAnswers \/ ProcessRestarts \/ AskVersions \/ Bind \/ UNCHANGED vars
  <2>1. UNCHANGED <<loop, cmd, sent, news, raced>>
    BY <1>1 DEF WDAnswers, ProcessRestarts, AskVersions, Bind, vars, results
  <2> QED BY <1>b, <2>1, PendingStays DEF Now
<1>2. CASE PanelSends
  <2>1. UNCHANGED <<loop, cmd, news, raced>>
    BY <1>2 DEF PanelSends
  <2>2. PICK c \in Commands : sent' = Append(sent, c)
    BY <1>2 DEF PanelSends
  <2>3. \A k \in 1..Len(sent) : sent'[k] = sent[k]
    BY <1>a, <2>2, AppendProperties
  <2>4. loop["mh"].pc \in {"read", "compare"} => Now' = Now
    BY <2>1, <2>3, NowIsACommand DEF Now
  <2> QED BY <1>b, <2>1, <2>4, PendingStays
<1>3. CASE WDReceives \/ WDReads \/ WDAdds \/ WDEnds
  <2>1. loop'["mh"] = loop["mh"]
    BY <1>3, <1>a, WDReceivesLoop, WDReadsLoop, WDAddsLoop, WDEndsLoop
  <2>2. UNCHANGED <<cmd, sent, news, raced>>
    BY <1>3 DEF WDReceives, WDReads, WDAdds, WDEnds, results
  <2> QED BY <1>b, <2>1, <2>2, PendingStays DEF Now
<1>4. CASE MHTakes
  <2>1. /\ msgQ # <<>> /\ msgQ \in Seq(1..MaxCmds) /\ cmd' = Head(msgQ)
        /\ sent' = sent
    BY <1>4, <1>a DEF MHTakes, TypeOK, results
  <2>2. Head(msgQ) \in 1..Len(sent)
    BY <1>a, <2>1, QueueTail DEF SentOnly
  <2> DEFINE c == sent[Head(msgQ)]
  <2>3. c \in Command /\ Now' = c
    BY <1>a, <2>1, <2>2, ElementOfSeq, VersionsAssumption DEF Now
  <2>4. /\ c.kind = "meter" => /\ loop'["mh"].pc = "read" /\ loop'["mh"].i = 1
                               /\ loop'["mh"].pkt = c.entries
        /\ c.kind # "meter" => loop'["mh"].pc = "compare"
    BY <1>4, <1>a, <2>3, MHTakesLoop
  <2> HIDE DEF c
  <2>5. \A j \in 1..Len(c.entries) : j >= 1
    OBVIOUS
  <2> QED BY <2>3, <2>4, <2>5 DEF Pending, InPacket
<1>5. CASE MHReads
  <2> DEFINE l == loop["mh"]
  <2>1. /\ l.pc = "read" /\ loop'["mh"].pc = "read" /\ loop'["mh"].pkt = l.pkt
        /\ l.i \in Nat /\ loop'["mh"].i = l.i + 1
        /\ loop'["mh"].ver = Parsed(l.ver, l.pkt[l.i]) /\ loop'["mh"].ver \in Version
        /\ l.ver \in Version /\ l.pkt[l.i] \in Entry
    BY <1>5, <1>a, MHReadsLoop
  <2>2. news' = Append(news, loop'["mh"].ver) /\ UNCHANGED <<ran, cmd, sent, raced>>
    BY <1>5 DEF MHReads, outside, results
  <2>3. Now' = Now /\ Now.kind = "meter" /\ l.pkt = Now.entries
    BY <2>1, <2>2 DEF Now, Pending
  <2>4. /\ Len(news') = Len(news) + 1 /\ news'[Len(news) + 1] = loop'["mh"].ver
        /\ \A k \in 1..Len(news) : news'[k] = news[k]
        /\ Len(news) \in Nat
    BY <1>a, <2>1, <2>2, AppendProperties, LenProperties DEF TypeOK
  <2> HIDE DEF l
  <2>5. ASSUME NEW j \in 1..Len(Now.entries), Newer(Now.entries[j], ran), ~raced
        PROVE  j >= l.i + 1 \/ InNews(Now.entries[j])'
    <3>1. j >= l.i \/ InNews(Now.entries[j])
      BY <2>1, <2>3, <2>5 DEF Pending, InPacket, l
    <3>2. CASE InNews(Now.entries[j])
      BY <2>2, <2>3, <2>4, <3>2 DEF InNews
    <3>3. CASE j = l.i
      <4>1. Missing \notin {l.pkt[l.i].name, l.pkt[l.i].ver}
        BY <2>3, <2>5, <3>3 DEF Newer
      <4>2. Parsed(l.ver, l.pkt[l.i]) = [name |-> l.pkt[l.i].name, ver |-> l.pkt[l.i].ver]
        BY <2>1, <4>1, ParsedFacts
      <4>3. /\ Now'.entries[j] = l.pkt[l.i]
            /\ news'[Len(news) + 1] = [name |-> l.pkt[l.i].name, ver |-> l.pkt[l.i].ver]
        BY <2>1, <2>3, <2>4, <3>3, <4>2
      <4>4. Len(news) + 1 \in 1..Len(news')
        BY <2>4
      <4> QED BY <4>3, <4>4 DEF InNews
    <3>4. CASE j > l.i
      BY <2>1, <3>4
    <3> QED BY <2>1, <3>1, <3>2, <3>3, <3>4
  <2> QED BY <2>1, <2>2, <2>3, <2>5 DEF Pending, InPacket, InNews
<1>6. CASE MHListed
  <2>1. /\ loop["mh"].pc = "read" /\ loop["mh"].i = Len(loop["mh"].pkt) + 1
        /\ Len(loop["mh"].pkt) \in Nat /\ loop'["mh"].pc = "compare"
    BY <1>6, <1>a, MHListedLoop
  <2>2. UNCHANGED <<ran, cmd, sent, news, raced>>
    BY <1>6 DEF MHListed, outside, results
  <2>3. Now' = Now /\ Now.kind = "meter" /\ loop["mh"].pkt = Now.entries
    BY <2>1, <2>2 DEF Now, Pending
  <2>4. \A j \in 1..Len(Now.entries) : ~InPacket(j)
    BY <2>1, <2>3 DEF InPacket
  <2> QED BY <2>1, <2>2, <2>3, <2>4 DEF Pending, InPacket, InNews
<1>7. CASE MHSkips
  <2>1. /\ loop["mh"].pc = "compare" /\ Now.kind = "meter" /\ news # <<>>
        /\ news' = Tail(news) /\ UNCHANGED <<ran, cmd, loop, sent>>
        /\ \/ Head(news).name = WDog /\ UNCHANGED raced
           \/ /\ Head(news).name # WDog
              /\ \E cur \in LookedUp(Head(news).name) : cur >= Head(news).ver
              /\ raced' = (raced \/ loop["wd"].pc = "grow")
    BY <1>7 DEF MHSkips, outside, Races
  <2>2. Now' = Now /\ Now \in Command
    BY <2>1, NowIsACommand DEF Now
  <2>3. /\ Head(news) = news[1] /\ Len(news') = Len(news) - 1 /\ Len(news) \in Nat
        /\ \A k \in 1..Len(news') : news'[k] = news[k + 1]
    BY <1>a, <2>1, QueueTail DEF TypeOK
  <2>4. ASSUME NEW j \in 1..Len(Now.entries), Newer(Now.entries[j], ran), ~raced'
        PROVE  InNews(Now.entries[j])'
    <3> DEFINE e == Now.entries[j]
    <3>1. e \in Entry
      BY <2>2, ElementOfSeq, LenProperties DEF Command
    <3>2. /\ e.name \in Procs /\ e.ver \in Int /\ e.name # WDog
          /\ \A v \in Heard(e.name) : e.ver > v
      BY <2>4, <3>1, VersionsAssumption DEF Newer, Entry, Vers, Heard, HeardIn
    <3>3. ~raced /\ ~InPacket(j)
      <4>1. raced' = raced \/ raced' = (raced \/ loop["wd"].pc = "grow")
        BY <2>1
      <4>2. ~raced
        BY <2>4, <4>1, Zenon
      <4> QED BY <2>1, <4>2 DEF InPacket
    <3>4. InNews(e)
      BY <2>1, <2>4, <3>3 DEF Pending
    <3> HIDE DEF e
    <3>5. PICK k \in 1..Len(news) : news[k] = [name |-> e.name, ver |-> e.ver]
      BY <3>4 DEF InNews
    <3>6. CASE k = 1
      <4>1. Head(news).name = e.name /\ Head(news).ver = e.ver
        BY <2>3, <3>5, <3>6
      <4>2. \E cur \in LookedUp(e.name) : cur >= e.ver
        BY <2>1, <3>2, <4>1
      <4>3. LookedUp(e.name) = {Known(e.name)}
        BY <2>1, <2>4, <3>2, <4>1 DEF LookedUp
      <4>4. Known(e.name) \in Heard(e.name) /\ Known(e.name) \in Int
        BY <3>2, KnownIsHeard
      <4>5. e.ver > Known(e.name) /\ Known(e.name) >= e.ver
        BY <3>2, <4>2, <4>3, <4>4
      <4> QED BY <3>2, <4>4, <4>5
    <3>7. CASE k # 1
      <4>1. k - 1 \in 1..Len(news') /\ news'[k - 1] = news[k]
        BY <2>3, <3>5, <3>7
      <4> QED BY <2>2, <3>5, <4>1 DEF InNews, e
    <3> QED BY <3>6, <3>7
  <2> QED BY <2>1, <2>2, <2>4 DEF Pending, InPacket
<1>8. CASE MHAcceptsMeter \/ MHRefusesMeter \/ MHComparesOne
  <2>1. Done /\ loop["mh"].pc = "compare"
    BY <1>8 DEF MHAcceptsMeter, MHRefusesMeter, MHComparesOne
  <2>2. loop'["mh"].pc = "idle"
    BY <1>a, <2>1, DoneLoop
  <2> QED BY <2>2 DEF Pending
<1> QED BY <1>1, <1>2, <1>3, <1>4, <1>5, <1>6, <1>7, <1>8 DEF Next, WDStep, MHStep

LEMMA NothingLost == Spec => [](Typed /\ Reported /\ Pending)
<1>1. Init => Typed /\ Reported /\ Pending
  BY InitTyped, InitReported, InitPending
<1>2. Typed /\ Reported /\ Pending /\ [Next]_vars => Typed' /\ Reported' /\ Pending'
  BY StepTyped, StepReported, StepPending
<1> QED BY <1>1, <1>2, PTL DEF Spec

(* No well-formed update command is refused (smartMeterUpdate,             *)
(* jabberClientUpdate and watchDogUpdate return without a request) that    *)
(* brings something newer than every version its process has had or was    *)
(* lent, unless a look-up met a push_back: neither the order of reports    *)
(* and commands nor a gap in another entry hides it.                       *)
THEOREM NoNewsIsRefused == Spec => NewerIsNeverRefused
<1> DEFINE Good(c) == WellFormed(sent[c]) /\ Brings(sent[c]) => raced'
           Step == \A c \in refused' \ refused : Good(c)
<1>1. Typed /\ Reported /\ Pending /\ [Next]_vars => [Step]_vars
  <2> SUFFICES ASSUME Typed, Reported, Pending, Next,
                      NEW c \in refused' \ refused, WellFormed(sent[c]), Brings(sent[c]),
                      ~raced'
               PROVE  FALSE
    BY DEF vars
  <2>1. MHRefusesMeter \/ MHComparesOne
    BY DEF Next, WDStep, MHStep, outside, results, WDAnswers, ProcessRestarts, AskVersions,
           PanelSends, Bind, WDReceives, WDReads, WDAdds, WDEnds, MHTakes, MHReads,
           MHListed, MHSkips, MHAcceptsMeter
  <2>2. loop["mh"].pc = "compare" /\ c = cmd
    BY <2>1 DEF MHRefusesMeter, MHComparesOne
  <2>3. Now \in Command /\ WellFormed(Now) /\ Brings(Now)
    BY <2>2, NowIsACommand DEF Now
  <2>4. CASE MHRefusesMeter
    <3>1. news = <<>> /\ Now.kind = "meter" /\ ~raced
      BY <2>4 DEF MHRefusesMeter
    <3>2. Now.entries \in Seq(Entry) /\ DOMAIN Now.entries = 1..Len(Now.entries)
      BY <2>3, LenProperties DEF Command
    <3>3. PICK i \in 1..Len(Now.entries) : Newer(Now.entries[i], ran)
      BY <2>3, <3>1, <3>2 DEF Brings, Newer, Heard, HeardIn
    <3>4. InPacket(i) \/ InNews(Now.entries[i])
      BY <2>2, <3>1, <3>3 DEF Pending
    <3>5. Len(news) = 0
      BY <3>1, EmptySeq
    <3> QED BY <2>2, <3>4, <3>5 DEF InPacket, InNews
  <2>5. CASE MHComparesOne
    <3>1. PICK new \in NewVers, old \in OldVers : ~(old < new)
      BY <2>5 DEF MHComparesOne
    <3>2. Now.kind \in {"jabber", "wdog"} /\ Now.ver # Missing /\ Now.url /\ Now.no
      BY <2>3, <2>5 DEF MHComparesOne, WellFormed, Command
    <3>3. new = Now.ver /\ Now.ver \in Vers
      BY <2>3, <3>1, <3>2 DEF NewVers, Command
    <3>4. Now.ver \in Int /\ OwnVer \in Int
      BY <3>3, VersionsAssumption DEF Vers
    <3>5. CASE Now.kind = "jabber"
      <4>1. old = OwnVer /\ Now.ver > OwnVer
        BY <2>3, <3>1, <3>5 DEF OldVers, Brings
      <4> QED BY <3>1, <3>3, <3>4, <4>1
    <3>6. CASE Now.kind = "wdog"
      <4>1. \A v \in Heard(WDog) : Now.ver > v
        BY <2>3, <3>6 DEF Brings
      <4>2. raced' = (raced \/ loop["wd"].pc = "grow")
        BY <2>5, <3>6 DEF MHComparesOne, Races
      <4>3. old = Known(WDog)
        BY <3>1, <3>6, <4>2 DEF OldVers, LookedUp
      <4>4. Known(WDog) \in Heard(WDog) /\ Known(WDog) \in Int
        BY KnownIsHeard, VersionsAssumption
      <4>5. Now.ver > Known(WDog)
        BY <4>1, <4>4
      <4> QED BY <3>1, <3>3, <3>4, <4>3, <4>4, <4>5
    <3> QED BY <3>2, <3>5, <3>6
  <2> QED BY <2>1, <2>4, <2>5
<1>2. NewerIsNeverRefused <=> [][Step]_vars
  BY DEF NewerIsNeverRefused
<1> QED BY <1>1, <1>2, NothingLost, PTL DEF Spec

-----------------------------------------------------------------------------
(* The numbers of the requests. *)

Numbered ==
  \A i \in 1..Len(reqs) :
    LET c == sent[reqs[i].cmd]
    IN /\ reqs[i].cmd \in 1..Len(sent)
       /\ c.url /\ (IF c.no THEN reqs[i].no = reqs[i].cmd
                            ELSE c.kind # "meter" /\ reqs[i].no = Junk)

LEMMA PushNumbered ==
  ASSUME Typed, Numbered, loop["mh"].pc = "compare", sent' = sent,
         NEW nos, Push(nos),
         IF Now.no THEN Now.url => nos = {cmd}
                   ELSE nos \subseteq (IF Now.kind = "meter" THEN {Missing}
                                                             ELSE {Junk, Missing})
  PROVE  Numbered'
<1>1. cmd \in 1..Len(sent) /\ reqs \in Seq(Request)
  BY NowIsACommand DEF Typed, TypeOK
<1>2. PICK no \in (IF Now.url THEN nos ELSE {Missing}) :
        reqs' = IF no = Missing THEN reqs ELSE Append(reqs, [cmd |-> cmd, no |-> no])
  BY DEF Push
<1>3. CASE no = Missing
  BY <1>2, <1>3 DEF Numbered
<1>4. CASE no # Missing
  <2> DEFINE r == [cmd |-> cmd, no |-> no]
  <2>1. /\ Now.url
        /\ IF Now.no THEN no = cmd ELSE Now.kind # "meter" /\ no = Junk
    BY <1>2, <1>4
  <2>2. r \in Request
    BY <1>1, <2>1, NowIsACommand DEF Request
  <2>3. /\ Len(reqs') = Len(reqs) + 1 /\ reqs'[Len(reqs) + 1] = r
        /\ \A i \in 1..Len(reqs) : reqs'[i] = reqs[i]
        /\ Len(reqs) \in Nat
    BY <1>1, <1>2, <1>4, <2>2, AppendProperties, LenProperties
  <2>4. r.cmd = cmd /\ r.no = no
    OBVIOUS
  <2> HIDE DEF r
  <2>5. ASSUME NEW i \in 1..Len(reqs')
        PROVE  LET c == sent[reqs'[i].cmd]
               IN /\ reqs'[i].cmd \in 1..Len(sent)
                  /\ c.url /\ (IF c.no THEN reqs'[i].no = reqs'[i].cmd
                                       ELSE c.kind # "meter" /\ reqs'[i].no = Junk)
    <3>1. CASE i = Len(reqs) + 1
      BY <1>1, <2>1, <2>3, <2>4, <3>1 DEF Now
    <3>2. CASE i # Len(reqs) + 1
      <4>1. i \in 1..Len(reqs) /\ reqs'[i] = reqs[i]
        BY <2>3, <3>2
      <4> QED BY <4>1 DEF Numbered
    <3> QED BY <3>1, <3>2
  <2> QED BY <2>5 DEF Numbered
<1> QED BY <1>3, <1>4

LEMMA StepNumbered == Typed /\ Numbered /\ [Next]_vars => Numbered'
<1> SUFFICES ASSUME Typed, Numbered, [Next]_vars PROVE Numbered'
  OBVIOUS
<1>a. sent \in Seq(Commands) /\ Len(sent) \in Nat
  BY LenProperties DEF Typed, TypeOK
<1>1. CASE PanelSends
  <2>1. PICK c \in Commands : sent' = Append(sent, c)
    BY <1>1 DEF PanelSends
  <2>2. /\ Len(sent') = Len(sent) + 1
        /\ \A k \in 1..Len(sent) : sent'[k] = sent[k]
    BY <1>a, <2>1, AppendProperties
  <2>3. reqs' = reqs
    BY <1>1 DEF PanelSends
  <2>4. \A i \in 1..Len(reqs) : /\ reqs[i].cmd \in 1..Len(sent')
                                /\ sent'[reqs[i].cmd] = sent[reqs[i].cmd]
    BY <1>a, <2>2 DEF Numbered
  <2> QED BY <2>3, <2>4 DEF Numbered
<1>2. CASE MHAcceptsMeter
  <2>1. /\ loop["mh"].pc = "compare" /\ Now.kind = "meter" /\ sent' = sent
        /\ Push(IF Now.no THEN {cmd} ELSE {Missing})
    BY <1>2 DEF MHAcceptsMeter
  <2> QED BY <2>1, PushNumbered
<1>3. CASE MHComparesOne
  <2>1. /\ loop["mh"].pc = "compare" /\ Now.kind # "meter" /\ sent' = sent
        /\ Push(Numbers) \/ reqs' = reqs
    BY <1>3 DEF MHComparesOne
  <2>2. CASE Push(Numbers)
    BY <2>1, <2>2, PushNumbered DEF Numbers
  <2>3. CASE reqs' = reqs
    BY <2>1, <2>3 DEF Numbered
  <2> QED BY <2>1, <2>2, <2>3
<1>4. CASE ~(PanelSends \/ MHAcceptsMeter \/ MHComparesOne)
  <2>1. UNCHANGED <<sent, reqs>>
    BY <1>4 DEF Next, WDStep, MHStep, vars, results, WDAnswers, ProcessRestarts, AskVersions,
                Bind, WDReceives, WDReads, WDAdds, WDEnds, MHTakes, MHReads, MHListed,
                MHSkips, MHRefusesMeter
  <2> QED BY <2>1 DEF Numbered
<1> QED BY <1>1, <1>2, <1>3, <1>4

(* A download request carries the address and the number of its command; a *)
(* number read from an uninitialised variable goes out only for a jabber   *)
(* or watchdog update that has none.                                       *)
THEOREM RequestsAreNumbered == Spec => []OwnNumber
<1>1. Init => Typed /\ Numbered
  <2> SUFFICES ASSUME Init PROVE Numbered
    BY InitTyped
  <2>1. Len(reqs) = 0
    BY EmptySeq DEF Init
  <2> QED BY <2>1 DEF Numbered
<1>2. Typed /\ Numbered /\ [Next]_vars => Typed' /\ Numbered'
  BY StepTyped, StepNumbered
<1>3. Typed /\ Numbered => OwnNumber
  <2> SUFFICES ASSUME Typed, Numbered PROVE OwnNumber
    OBVIOUS
  <2>1. DOMAIN reqs = 1..Len(reqs)
    BY LenProperties DEF Typed, TypeOK
  <2> QED BY <2>1 DEF Numbered, OwnNumber
<1> QED BY <1>1, <1>2, <1>3, PTL DEF Spec

-----------------------------------------------------------------------------
(* No report is forgotten. *)

(* An entry that was reported with name and version is in the socket, in   *)
(* the packet being read, being added, or in the table.                    *)
WholeEntry == [name : Procs, ver : Vers]
InSocket(e) == \E k \in 1..Len(inbox) : \E j \in 1..Len(inbox[k]) : inbox[k][j] = e
Unread(l, e) == l.pc \in {"read", "grow"} /\ \E j \in l.i..Len(l.pkt) : l.pkt[j] = e
Added(l, e) == l.pc = "grow" /\ l.ver = e
InTable(e) == \E k \in 1..Len(table) : table[k] = e
Kept(e) == InSocket(e) \/ Unread(loop["wd"], e) \/ Added(loop["wd"], e) \/ InTable(e)

LEMMA StepKept ==
  ASSUME Typed, [Next]_vars, NEW e \in WholeEntry, Kept(e)
  PROVE  Kept(e)'
<1>a. TypeOK /\ LoopsTyped /\ SentOnly
  BY DEF Typed
<1>b. /\ inbox \in Seq(Seq(Entry)) /\ Len(inbox) \in Nat
      /\ table \in Seq(Version) /\ Len(table) \in Nat
      /\ loop \in [Threads -> LoopState] /\ loop["wd"] \in LoopState
  BY <1>a, LenProperties DEF TypeOK, Threads
<1>1. CASE WDAnswers
  <2>1. UNCHANGED <<table, loop>>
    BY <1>1 DEF WDAnswers
  <2>2. PICK d : inbox' = inbox \/ inbox' = Append(inbox, d)
    BY <1>1 DEF WDAnswers
  <2>3. /\ Len(inbox') >= Len(inbox) /\ Len(inbox') \in Nat
        /\ \A k \in 1..Len(inbox) : inbox'[k] = inbox[k]
    BY <1>b, <2>2
  <2>4. ASSUME InSocket(e) PROVE InSocket(e)'
    <3>1. PICK k \in 1..Len(inbox) : \E j \in 1..Len(inbox[k]) : inbox[k][j] = e
      BY <2>4 DEF InSocket
    <3>2. k \in 1..Len(inbox') /\ inbox'[k] = inbox[k]
      BY <1>b, <2>3
    <3> QED BY <3>1, <3>2 DEF InSocket
  <2> QED BY <2>1, <2>4 DEF Kept, InTable
<1>2. CASE ProcessRestarts \/ AskVersions \/ PanelSends \/ Bind \/ UNCHANGED vars
  <2>1. UNCHANGED <<inbox, table, loop>>
    BY <1>2 DEF ProcessRestarts, AskVersions, PanelSends, Bind, vars, outside
  <2> QED BY <2>1 DEF Kept, InSocket, InTable
<1>3. CASE WDReceives
  <2>1. /\ loop'["wd"] = Load(Head(inbox)) /\ loop["wd"].pc = "idle" /\ inbox # <<>>
        /\ inbox' = Tail(inbox) /\ table' = table
    BY <1>3, <1>b DEF WDReceives, Threads
  <2>2. /\ Head(inbox) = inbox[1] /\ Len(inbox) >= 1 /\ Len(inbox') = Len(inbox) - 1
        /\ \A k \in 1..Len(inbox') : inbox'[k] = inbox[k + 1]
    BY <1>b, <2>1, QueueTail
  <2>3. /\ loop'["wd"].pc = "read" /\ loop'["wd"].pkt = inbox[1] /\ loop'["wd"].i = 1
    BY <2>1, <2>2 DEF Load
  <2>4. ASSUME InSocket(e) PROVE InSocket(e)' \/ Unread(loop'["wd"], e)
    <3>1. PICK k \in 1..Len(inbox) : \E j \in 1..Len(inbox[k]) : inbox[k][j] = e
      BY <2>4 DEF InSocket
    <3>2. CASE k = 1
      BY <2>3, <3>1, <3>2 DEF Unread
    <3>3. CASE k # 1
      <4>1. k - 1 \in 1..Len(inbox') /\ inbox'[k - 1] = inbox[k]
        BY <1>b, <2>2, <3>3
      <4> QED BY <3>1, <4>1 DEF InSocket
    <3> QED BY <3>2, <3>3
  <2>5. InTable(e) => InTable(e)'
    BY <2>1 DEF InTable
  <2> QED BY <2>1, <2>4, <2>5 DEF Kept, Unread, Added
<1>4. CASE WDReads
  <2> DEFINE l == loop["wd"]
  <2>1. /\ loop'["wd"].pc = "grow" /\ loop'["wd"].pkt = l.pkt
        /\ loop'["wd"].ver = Parsed(l.ver, l.pkt[l.i]) /\ l.i \in DOMAIN l.pkt
        /\ l.ver \in Version /\ l.pkt[l.i] \in Entry
    BY <1>4, <1>a, WDReadsLoop
  <2>2. loop'["wd"].i = l.i + 1 /\ l.pc = "read" /\ UNCHANGED <<inbox, table>>
    BY <1>4, <1>b DEF WDReads, More, OneEntry, outside, Threads
  <2>3. DOMAIN l.pkt = 1..Len(l.pkt) /\ Len(l.pkt) \in Nat /\ l.i \in Nat
    BY <1>b, LenProperties DEF LoopState
  <2>6. l.pkt[l.i] = e => loop'["wd"].ver = e
    <3> HIDE DEF l
    <3> SUFFICES ASSUME l.pkt[l.i] = e PROVE loop'["wd"].ver = e
      OBVIOUS
    <3>1. e = [name |-> e.name, ver |-> e.ver] /\ Missing \notin {e.name, e.ver}
      BY VersionsAssumption DEF WholeEntry, Vers
    <3>2. Parsed(l.ver, l.pkt[l.i]) = [name |-> e.name, ver |-> e.ver]
      BY <2>1, <3>1, ParsedFacts
    <3> QED BY <2>1, <3>1, <3>2
  <2>7. Unread(l, e) => Unread(loop'["wd"], e) \/ Added(loop'["wd"], e)
    <3> HIDE DEF l
    <3> SUFFICES ASSUME NEW j \in l.i..Len(l.pkt), l.pkt[j] = e
                 PROVE  Unread(loop'["wd"], e) \/ Added(loop'["wd"], e)
      BY DEF Unread
    <3>1. CASE j = l.i
      BY <2>1, <2>6, <3>1 DEF Added
    <3>2. CASE j # l.i
      <4>1. j \in loop'["wd"].i..Len(loop'["wd"].pkt)
        BY <2>1, <2>2, <2>3, <3>2
      <4> QED BY <2>1, <4>1 DEF Unread
    <3> QED BY <3>1, <3>2
  <2>8. (InSocket(e) => InSocket(e)') /\ (InTable(e) => InTable(e)') /\ ~Added(l, e)
    BY <2>2 DEF InSocket, InTable, Added
  <2> QED BY <2>7, <2>8 DEF Kept
<1>5. CASE WDAdds
  <2>1. /\ loop["wd"].pc = "grow" /\ table' = Append(table, loop["wd"].ver)
        /\ inbox' = inbox /\ loop["wd"].ver \in Version
    BY <1>5, <1>a, WDAddsLoop DEF WDAdds, outside
  <2>2. /\ loop'["wd"].pc = "read" /\ loop'["wd"].pkt = loop["wd"].pkt
        /\ loop'["wd"].i = loop["wd"].i
    BY <1>5, <1>b DEF WDAdds, LoopState, Threads
  <2>3. /\ Len(table') = Len(table) + 1 /\ table'[Len(table) + 1] = loop["wd"].ver
        /\ \A k \in 1..Len(table) : table'[k] = table[k]
    BY <1>b, <2>1, AppendProperties
  <2>4. InTable(e) \/ Added(loop["wd"], e) => InTable(e)'
    <3>1. /\ Len(table) + 1 \in 1..Len(table')
          /\ \A k \in 1..Len(table) : k \in 1..Len(table')
      BY <1>b, <2>3
    <3>2. Added(loop["wd"], e) => InTable(e)'
      BY <2>3, <3>1 DEF InTable, Added
    <3>3. InTable(e) => InTable(e)'
      BY <2>3, <3>1, Zenon DEF InTable
    <3> QED BY <3>2, <3>3
  <2>5. Unread(loop["wd"], e) => Unread(loop'["wd"], e)
    BY <2>2 DEF Unread
  <2>6. InSocket(e) => InSocket(e)'
    BY <2>1 DEF InSocket
  <2> QED BY <2>4, <2>5, <2>6 DEF Kept
<1>6. CASE WDEnds
  <2>1. Over(loop["wd"]) /\ UNCHANGED <<inbox, table>>
    BY <1>6 DEF WDEnds, outside
  <2>2. Len(loop["wd"].pkt) \in Nat /\ loop["wd"].i \in Nat
    BY <1>b, LenProperties DEF LoopState
  <2>3. ~Unread(loop["wd"], e) /\ ~Added(loop["wd"], e)
    BY <2>1, <2>2 DEF Over, Unread, Added
  <2> QED BY <2>1, <2>3 DEF Kept, InSocket, InTable
<1>7. CASE MHStep
  <2>1. UNCHANGED <<inbox, table>> /\ loop'["wd"] = loop["wd"]
    BY <1>7, <1>a, MHLeavesReports DEF Typed
  <2> QED BY <2>1 DEF Kept, InSocket, InTable
<1> QED BY <1>1, <1>2, <1>3, <1>4, <1>5, <1>6, <1>7 DEF Next, WDStep

(* Config::parseCurVersions: a version that reached the socket under its   *)
(* name reaches the table under that name, whatever gaps the other entries *)
(* have; no step loses one, and when the thread waits again with an empty  *)
(* socket the table has them all.                                          *)
THEOREM ReportsAreKept ==
  Spec => /\ [][\A e \in WholeEntry : Kept(e) => Kept(e)']_vars
          /\ [](loop["wd"].pc = "idle" /\ inbox = <<>>
                  => \A e \in WholeEntry : Kept(e) => InTable(e))
<1>1. Typed /\ [Next]_vars => [\A e \in WholeEntry : Kept(e) => Kept(e)']_vars
  BY StepKept
<1>2. loop["wd"].pc = "idle" /\ inbox = <<>>
        => \A e \in WholeEntry : Kept(e) => InTable(e)
  BY EmptySeq DEF Kept, InSocket, Unread, Added
<1> QED BY <1>1, <1>2, Types, PTL DEF Spec
=============================================================================
