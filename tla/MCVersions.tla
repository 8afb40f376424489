----------------------------- MODULE MCVersions -----------------------------
(* An instance of Versions for TLC: one metering process and the watchdog.  *)
EXTENDS Versions

E(n, v) == [name |-> n, ver |-> v]

(* A complete report, and one where meter lacks its version. *)
T(p, name, ver) == [of |-> p, name |-> name, ver |-> ver]

AnyReport == {<<T("meter", TRUE, TRUE), T("WDog", TRUE, TRUE)>>,
              <<T("WDog", TRUE, TRUE), T("meter", FALSE, TRUE), T("meter", TRUE, FALSE)>>}

(* The metering process goes forward and back. *)
AnyInstall == {<<"meter", 1>>, <<"meter", 2>>}

(* Commands with and without gaps; what a packet lacks is Missing. *)
C(kind, entries, ver, url, no) ==
  [kind |-> kind, entries |-> entries, ver |-> ver, url |-> url, no |-> no]

AnyCommand ==
  {C("meter", <<E("WDog", 2), E(Missing, 1), E("meter", 2)>>, Missing, TRUE, TRUE),
   C("meter", <<E("meter", 2), E("meter", Missing)>>, Missing, TRUE, FALSE),
   C("jabber", <<>>, Missing, TRUE, TRUE), C("jabber", <<>>, 2, FALSE, FALSE),
   C("wdog", <<>>, 2, TRUE, TRUE), C("wdog", <<>>, 2, TRUE, FALSE)}
=============================================================================
