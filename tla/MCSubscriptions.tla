--------------------------- MODULE MCSubscriptions ---------------------------
(* Two destinations, two ids to a block, three sources; an epicentre, a    *)
(* near and a far place.                                                   *)
EXTENDS Subscriptions

CONSTANTS d1, d2, noEvent

MCDestinations == {d1, d2}
MCSources == [s \in {"jma", "sc", "eqlist"} |-> IF s = "eqlist" THEN "report" ELSE "warning"]
MCDistance == [p \in {"epicentre"} |-> [q \in {"near", "mid", "far"} |->
                 CASE q = "near" -> 1 [] q = "mid" -> 2 [] q = "far" -> 3]]
MCIntensity == [m \in {4, 6} |-> [d \in 1 .. 3 |->
                 IF m = 6 THEN CASE d = 1 -> 5 [] d = 2 -> 4 [] d = 3 -> 3 ELSE 4 - d]]

Target(place, region) == [place |-> place, regions |-> {region}]
Band(min, max, level) == [min |-> min, max |-> max, level |-> level]
Warning(sources, bands) == [category |-> "warning", sources |-> sources, magnitude |-> 0,
                            bands |-> bands]
Report(magnitude) == [category |-> "report", sources |-> All, magnitude |-> magnitude,
                      bands |-> <<>>]
Weather == [category |-> "weather", sources |-> All, magnitude |-> 0, bands |-> <<>>]

Far == [targets |-> <<Target("far", "kanto")>>,
        rules |-> <<Warning(All, <<Band(1, 2, "passive"), Band(3, 7, "critical")>>), Report(5)>>]
Both == [targets |-> <<Target("mid", "tokyo"), Target("near", "kanto")>>,
         rules |-> <<Warning(All, <<Band(2, 4, "active"), Band(5, 7, "critical")>>)>>]
EndsEarly == [targets |-> <<Target("near", "tokyo"), Target("mid", "kanto")>>,
              rules |-> <<Warning(All, <<Band(5, 6, "passive"), Band(1, 4, "critical")>>)>>]
Old(sources) == [targets |-> <<Target("near", "tokyo")>>,
                 rules |-> <<Weather, Warning(sources, <<Band(3, 7, "active")>>)>>]

MCRequests == {Both, EndsEarly}
Item(d, content) == [to |-> d, content |-> content]
MCBatches == {<<Item(d2, Both), Item(d1, Far)>>, <<Item(d2, Far), Item(d2, Both)>>}
MCLegacies == {<<>>} \cup {[d \in {d1} |-> Old(sources)] : sources \in {{"jma"}, {"sc"}}}

Event(category, source, regions) ==
  [category |-> category, source |-> source, place |-> "epicentre", magnitude |-> 6,
   level |-> 3, regions |-> regions]
MCEvents == {Event("warning", "jma", {"tokyo"}), Event("warning", "sc", {}),
             Event("report", "eqlist", {})}
=============================================================================
