------------------------------- MODULE MCRoutes -------------------------------
(***************************************************************************)
(* Requests, Geocoder, Links, Provider, Listing and Bark share no variable. *)
(* In a behaviour one of them runs and the others rest where they start, so that *)
(* TLC visits the sum of their states and not the product. Nothing that is  *)
(* fair is enabled in one that rests.                                       *)
(***************************************************************************)
EXTENDS Requests, Geocoder, Links, Provider, Listing, Bark

OneStoragePermit == [subscription |-> 1, storage |-> 1, status |-> 1, detail |-> 1]

Quake(id, size) == [id |-> id, category |-> "quake", size |-> size]
Notice(to, incident, event) ==
  [to |-> to, incident |-> incident, event |-> event, target |-> "home",
   level |-> "active", rule |-> "quake", issued |-> 0]

(* Two rows of one report, cut to fit, for two destinations: the       *)
(* snapshots, and so the contexts, are the same.                            *)
SomeNotices == {Notice(to, "i1", Quake("e1", 2)) : to \in {"d1", "d2"}}
SomeSimulated == <<Nothing, Notice("d1", "i2", Quake("e2", 1))>>

(* A report, one sanitize_event refuses, one that does not parse, a text of *)
(* another type, a heartbeat and the end.                                   *)
SomeRegistry == [warning_feed |-> "warning", report_feed |-> "report"]
Text(type, complete, fits) == [type |-> type, complete |-> complete, fits |-> fits]
SomeFeed ==
  {Text("warning_feed", TRUE, TRUE), Text("warning_feed", TRUE, FALSE),
   Text("report_feed", FALSE, TRUE)}
    \cup {Text(type, TRUE, TRUE) : type \in {"other", "heartbeat", "close"}}

(* Texts of up to three characters of every width.                          *)
Texts == UNION {[1..n -> {<<1, 1>>, <<1, 2>>, <<3, 3>>}] : n \in 0..3}
SomeMessages ==
  [body : Texts, subtitle : {<<>>, <<<<3, 3>>, <<1, 2>>>>}, title : {<<<<1, 1>>, <<3, 3>>>>},
   overhead : {2, 6, 11}]

RequestsRest == InitRequests /\ UNCHANGED requestVars
GeocoderRests == InitGeocoder /\ UNCHANGED geocoderVars
LinksRest == InitLinks /\ UNCHANGED linkVars
ProviderRests == InitProvider /\ UNCHANGED providerVars
ListingRests == InitListing /\ UNCHANGED listingVars
BarkRests == InitBark /\ UNCHANGED barkVars

Init == InitRequests /\ InitGeocoder /\ InitLinks /\ InitProvider /\ InitListing /\ InitBark
Next ==
  \/ GeocoderRests /\ LinksRest /\ ProviderRests /\ ListingRests /\ BarkRests /\ NextRequests
  \/ RequestsRest /\ LinksRest /\ ProviderRests /\ ListingRests /\ BarkRests /\ NextGeocoder
  \/ RequestsRest /\ GeocoderRests /\ ProviderRests /\ ListingRests /\ BarkRests /\ NextLinks
  \/ RequestsRest /\ GeocoderRests /\ LinksRest /\ ListingRests /\ BarkRests /\ NextProvider
  \/ RequestsRest /\ GeocoderRests /\ LinksRest /\ ProviderRests /\ BarkRests /\ NextListing
  \/ RequestsRest /\ GeocoderRests /\ LinksRest /\ ProviderRests /\ ListingRests /\ NextBark

vars == <<requestVars, geocoderVars, linkVars, providerVars, listingVars, barkVars>>
FairSpec == Init /\ [][Next]_vars /\ FairRequests /\ FairGeocoder /\ FairProvider
=============================================================================
