------------------------------ MODULE Matching ------------------------------
(***************************************************************************)
(* What a subscription asks for, how it is compiled and indexed, and how an *)
(* event is matched against it: the validation of a request, the compiler,  *)
(* the posting keys, the plan of an event, the match of one compiled        *)
(* subscription, and the reference matcher of the tests                     *)
(* (src/models/subscription.rs, src/subscriptions/compiled.rs, src/matching).*)
(*                                                                          *)
(* A place stands for coordinates, a distance for kilometres from the       *)
(* epicentre, and Intensity for estimate_intensity, rounded, at the depth   *)
(* of the event.  No event of a retired category is ever matched, so that   *)
(* the arms of the engine for weather, tsunami and typhoon never run.       *)
(***************************************************************************)
EXTENDS Integers, FiniteSets, SequencesExt

CONSTANTS
  NoPlace,         (* an event without coordinates                         *)
  All,             (* SourceSelection::All                                 *)
  NoMagnitude,     (* an event without magnitude                           *)
  SourceOf,        (* the source registry: source to its category          *)
  Distance,        (* Distance[p][q]: distance of two places               *)
  Intensity,       (* Intensity[m][d]: intensity at distance d of a        *)
                   (* magnitude m                                          *)
  WarningCap,      (* the server's maximum distance of a warning           *)
  BlockSize        (* 2^POSTING_ID_BITS                                    *)

Retired == {"weather"}                 (* DisasterCategory::is_retired     *)
Selectable == {"warning", "report"}    (* DisasterCategory::ALL            *)
Levels == {"passive", "active", "critical"}
MaxDistance == 20000
Sources == DOMAIN SourceOf

(* estimate_intensity falls with the distance.                             *)
ASSUME IntensityAssumption ==
  \A m \in DOMAIN Intensity : \A d1, d2 \in DOMAIN Intensity[m] :
    d1 <= d2 => Intensity[m][d1] >= Intensity[m][d2]

ASSUME BlockAssumption == BlockSize \in Nat \ {0} /\ WarningCap \in Nat

None == [matched |-> FALSE]

-----------------------------------------------------------------------------
(* Subscription::validate.  A rule has a category, sources (All, or the    *)
(* set included), the minimum magnitude of a report and the intensity bands *)
(* of a warning.                                                           *)
Covers(band, i) == band.min <= i /\ i <= band.max

Disjoint(s, P(_, _)) == \A i, j \in DOMAIN s : i # j => P(s[i], s[j])

BandsMayEndEarly(bands) ==             (* mutant: critical may end below 7 *)
  /\ Len(bands) \in 1 .. 3
  /\ \A i \in DOMAIN bands : bands[i].min <= bands[i].max /\ bands[i].max <= 7
  /\ Disjoint(bands, LAMBDA a, b : a.level # b.level /\ (a.max < b.min \/ b.max < a.min))

ValidBands(bands) ==
  /\ Len(bands) \in 1 .. 3
  /\ \A i \in DOMAIN bands :
       /\ bands[i].min <= bands[i].max /\ bands[i].max <= 7
       /\ bands[i].level = "critical" => bands[i].max = 7
  /\ Disjoint(bands, LAMBDA a, b : a.level # b.level /\ (a.max < b.min \/ b.max < a.min))

ValidSources(rule) ==
  rule.sources # All =>
    /\ rule.sources # {}
    /\ \A s \in rule.sources : s \in Sources /\ SourceOf[s] = rule.category

ValidRule(rule) ==
  /\ rule.category \notin Retired
  /\ ValidSources(rule)
  /\ rule.category = "warning" => ValidBands(rule.bands)
  /\ rule.category = "report" => rule.magnitude \in 0 .. 10

Valid(request) ==
  /\ Len(request.targets) \in 1 .. 3
  /\ Len(request.rules) \in 1 .. Cardinality(Selectable)
  /\ \A i \in DOMAIN request.rules : ValidRule(request.rules[i])
  /\ Disjoint(request.rules, LAMBDA a, b : a.category # b.category)

(* What reading a stored or compiled record leaves of its rules, in order. *)
Kept(rules) ==
  LET kept[n \in 0 .. Len(rules)] ==
        IF n = 0 THEN <<>>
        ELSE IF rules[n].category \in Retired THEN kept[n - 1]
        ELSE Append(kept[n - 1], rules[n])
  IN kept[Len(rules)]

Unretired(record) == [record EXCEPT !.rules = Kept(@)]

-----------------------------------------------------------------------------
(* SubscriptionCompiler::compile.                                          *)
CompiledRule(rule) ==
  [category |-> rule.category,
   wildcard |-> rule.sources = All,
   mask |-> IF rule.sources = All THEN {} ELSE rule.sources,
   magnitude |-> IF rule.category = "report" THEN rule.magnitude ELSE 0,
   distance |-> MaxDistance,
   bands |-> IF rule.category = "warning" THEN rule.bands ELSE <<>>]

Compile(id, destination, generation, content) ==
  [id |-> id, destination |-> destination, generation |-> generation,
   targets |-> content.targets,        (* in order: the index is the ordinal *)
   rules |-> [i \in DOMAIN content.rules |-> CompiledRule(content.rules[i])]]

(* MatchPostingKey::for_subscription: a key for every rule, every source it *)
(* names (or none for all) and everything it can be found by; the cells of  *)
(* the three resolutions are one.                                          *)
Block(id) == id \div BlockSize
Offset(id) == id % BlockSize
IdAt(block, offset) == block * BlockSize + offset

KeySources(rule) == IF rule.wildcard THEN {"any"} ELSE rule.mask

Findable(targets) ==
  {<<"broad", 0>>} \cup {<<"cell", targets[t].place>> : t \in DOMAIN targets}
    \cup UNION {{<<"region", r>> : r \in targets[t].regions} : t \in DOMAIN targets}

KeysOf(compiled) ==
  UNION {{[category |-> compiled.rules[i].category, source |-> s, by |-> f,
           block |-> Block(compiled.id)]
            : s \in KeySources(compiled.rules[i]), f \in Findable(compiled.targets)}
           : i \in DOMAIN compiled.rules}

(* MatchPlan::for_event: earthquakes are looked up broadly, and by the      *)
(* regions they name.                                                      *)
Scopes(event) ==
  <<<<"broad", 0>>>> \o SetToSeq({<<"region", r>> : r \in event.regions})

AnySourceOnly(event) ==                (* mutant: forgets the event's source *)
  LET scopes == Scopes(event) IN
  [i \in DOMAIN scopes |-> [category |-> event.category, source |-> "any", by |-> scopes[i]]]

(* The lookups of posting_blocks, in order: for every scope the event's own *)
(* source, then the postings of all sources.                               *)
Lookups(event) ==
  LET scopes == Scopes(event) IN
  [i \in 1 .. 2 * Len(scopes) |->
     [category |-> event.category,
      source |-> IF i % 2 = 1 THEN event.source ELSE "any",
      by |-> scopes[(i + 1) \div 2]]]

-----------------------------------------------------------------------------
(* match_compiled_with_context: the targets in order, the nearest kept.    *)
BarkLevel(level) ==
  IF level >= 3 THEN "critical" ELSE IF level >= 2 THEN "active" ELSE "passive"

RuleMatches(rule, event) ==
  /\ rule.wildcard \/ event.source \in rule.mask
  /\ rule.magnitude <= IF event.magnitude = NoMagnitude THEN 0 ELSE event.magnitude

FirstFor(rules, category) == SelectInSeq(rules, LAMBDA r : r.category = category)

FirstBand(bands, i) == SelectInSeq(bands, LAMBDA b : Covers(b, i))

(* The level a target is alerted at, "none" if it is skipped.              *)
LevelAt(rule, event, distance) ==
  LET band == FirstBand(rule.bands, Intensity[event.magnitude][distance]) IN
  IF event.category = "report" THEN "passive"
  ELSE IF rule.bands = <<>> THEN BarkLevel(event.level)
  ELSE IF band = 0 THEN "none"
  ELSE rule.bands[band].level

IsCapped(rule, event, distance) ==
  event.category = "warning"
    /\ (distance > rule.distance \/ distance > WarningCap)

Nearer(best, distance) == best = None \/ distance < best.distance

MatchCompiled(compiled, event) ==
  LET found == FirstFor(compiled.rules, event.category)
      rule == compiled.rules[found]
      Step(best, ordinal) ==
        LET distance == Distance[event.place][compiled.targets[ordinal].place] IN
        IF \/ IsCapped(rule, event, distance)
           \/ LevelAt(rule, event, distance) = "none"
           \/ ~Nearer(best, distance)
        THEN best
        ELSE [matched |-> TRUE, subscription |-> compiled.id,
              destination |-> compiled.destination, generation |-> compiled.generation,
              target |-> ordinal, distance |-> distance,
              level |-> LevelAt(rule, event, distance)]
  IN
  IF \/ event.category \in Retired \/ found = 0 \/ event.place = NoPlace
     \/ ~RuleMatches(rule, event)
     \/ (event.category = "warning" /\ event.magnitude = NoMagnitude)
  THEN None
  ELSE FoldLeft(Step, None, [t \in DOMAIN compiled.targets |-> t])

-----------------------------------------------------------------------------
(* reference::match_subscription on the request as it was made, said       *)
(* without an order: the target alerted is one of those in a band, none of *)
(* them nearer, the first of the nearest.                                  *)
Accepts(rule, event) ==
  /\ rule.category = event.category
  /\ rule.sources = All \/ event.source \in rule.sources
  /\ rule.category = "report" =>
       rule.magnitude <= IF event.magnitude = NoMagnitude THEN 0 ELSE event.magnitude

DistanceOf(request, event, t) == Distance[event.place][request.targets[t].place]

(* The targets that alert, each at its level: <<target, level>>.           *)
Alerting(request, event) ==
  {a \in (DOMAIN request.targets) \X Levels :
     \E i \in DOMAIN request.rules :
       LET rule == request.rules[i]
           distance == DistanceOf(request, event, a[1])
       IN
       /\ Accepts(rule, event) /\ event.place # NoPlace
       /\ \/ rule.category = "report" /\ a[2] = "passive"
          \/ /\ rule.category = "warning" /\ event.magnitude # NoMagnitude
             /\ distance <= MaxDistance
             /\ \E b \in DOMAIN rule.bands :
                  /\ rule.bands[b].level = a[2]
                  /\ Covers(rule.bands[b], Intensity[event.magnitude][distance])}

(* <<target, level>> of the reference, none if nothing matches.            *)
Reference(request, event) ==
  {a \in Alerting(request, event) :
     \A b \in Alerting(request, event) :
       LET da == DistanceOf(request, event, a[1])
           db == DistanceOf(request, event, b[1])
       IN da < db \/ (da = db /\ a[1] <= b[1])}

(* The server's cap, which the reference does not know, only silences.     *)
Expected(request, event) ==
  {a \in Reference(request, event) :
     event.category = "warning" => DistanceOf(request, event, a[1]) <= WarningCap}
=============================================================================
