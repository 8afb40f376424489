-------------------------- MODULE MCUpdatePipeline --------------------------
(* Instances of UpdatePipeline for TLC: see the cfg files for the bounds.   *)
EXTENDS UpdatePipeline

\* The processes of the device and their folders.
Processes == {"client", "meter", "gateway"}
HomeOf == [p \in Processes |->
             IF p = "client" THEN "JabberClient" ELSE "SmartMeter"]

\* Which folder each command updates.
TargetsJSJ == <<"JabberClient", "SmartMeter", "JabberClient">>
TargetsSJS == <<"SmartMeter", "JabberClient", "SmartMeter">>
TargetsJS  == <<"JabberClient", "SmartMeter">>
TargetsS   == <<"SmartMeter">>

\* The versions a command offers; the shipped ones are 2.
Offer(c, m, g) == [p \in Processes |->
                     CASE p = "client" -> c [] p = "meter" -> m [] OTHER -> g]

\* One newer process and one older in the update of SmartMeter.
VersionsMixed == <<Offer(4, 0, 0), Offer(0, 3, 1), Offer(3, 0, 0)>>
VersionsSJS   == <<Offer(0, 3, 3), Offer(3, 0, 0), Offer(0, 1, 4)>>
Versions33    == <<Offer(3, 0, 0), Offer(0, 3, 3)>>
Versions3     == <<Offer(0, 3, 3)>>
Versions1     == <<Offer(0, 1, 1)>>
=============================================================================
