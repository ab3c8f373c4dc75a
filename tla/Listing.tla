------------------------------- MODULE Listing -------------------------------
(***************************************************************************)
(* The event list (src/routes/events.rs, recent_incidents): a client reads  *)
(* page after page, each from the cursor the page before it ended with,      *)
(* while incidents open, get reports and are pruned. Two incidents may have  *)
(* the same time.                                                            *)
(***************************************************************************)
EXTENDS Integers, FiniteSets, SequencesExt

CONSTANTS
  IncidentIds,     (* the incidents that ever open, in the order of the ids *)
  Limits,          (* the limits of the pages asked for                    *)
  MaxNow           (* bound on the time                                    *)

ASSUME ListingAssumption == IncidentIds \subseteq Nat /\ Limits \subseteq Nat \ {0} /\ MaxNow \in Nat

VARIABLES
  now,
  updated,         (* incidents: id to updated_at_ms                       *)
  cursor,          (* next_cursor, or where the reading is                 *)
  shown,           (* the incidents the client got so far                  *)
  touched          (* observation: those changed since it began to read    *)

listingVars == <<now, updated, cursor, shown, touched>>

-----------------------------------------------------------------------------
Begin == <<"begin">>
End == <<"end">>

(* The newest first, and of one time the greatest id.                      *)
IsBefore(a, b) ==
  updated[a] > updated[b] \/ (updated[a] = updated[b] /\ a > b)

Beyond(i) ==                           (* the cursor's: strictly older     *)
  cursor = Begin
    \/ updated[i] < cursor[1] \/ (updated[i] = cursor[1] /\ i < cursor[2])

NewestFirst(ids) ==
  CHOOSE s \in [1 .. Cardinality(ids) -> ids] : \A m, n \in DOMAIN s : m < n => IsBefore(s[m], s[n])

RecentIncidents(limit) ==
  LET all == NewestFirst({i \in DOMAIN updated : Beyond(i)}) IN
  SubSeq(all, 1, IF Len(all) < limit THEN Len(all) ELSE limit)

FromTheRowBeyond(page, limit) ==       (* mutant: before it is truncated   *)
  IF Len(page) > limit THEN <<updated[Last(page)], Last(page)>> ELSE End

(* encode_cursor of the last incident that is shown.                       *)
NextCursor(page, limit) ==
  IF Len(page) > limit THEN <<updated[page[limit]], page[limit]>> ELSE End

-----------------------------------------------------------------------------
InitListing ==
  /\ now = 0
  /\ updated = <<>>
  /\ cursor = Begin /\ shown = <<>> /\ touched = {}

Tick ==
  /\ now < MaxNow /\ now' = now + 1
  /\ UNCHANGED <<updated, cursor, shown, touched>>

(* An incident opens, or a report of it is applied.                        *)
Report(i) ==
  /\ updated' = [j \in DOMAIN updated \cup {i} |-> IF j = i THEN now ELSE updated[j]]
  /\ touched' = touched \cup {i}
  /\ UNCHANGED <<now, cursor, shown>>

Prune(i) ==                           (* or discarded                     *)
  /\ i \in DOMAIN updated
  /\ updated' = [j \in DOMAIN updated \ {i} |-> updated[j]]
  /\ touched' = touched \cup {i}
  /\ UNCHANGED <<now, cursor, shown>>

ReadPage(limit) ==
  /\ cursor # End
  /\ LET page == RecentIncidents(limit + 1) IN
       /\ shown' = shown \o SubSeq(page, 1, IF Len(page) < limit THEN Len(page) ELSE limit)
       /\ cursor' = NextCursor(page, limit)
  /\ touched' = IF cursor = Begin THEN {} ELSE touched
  /\ UNCHANGED <<now, updated>>

NextListing ==
  \/ Tick \/ \E i \in IncidentIds : Report(i) \/ Prune(i)
  \/ \E limit \in Limits : ReadPage(limit)

ListingSpec == InitListing /\ [][NextListing]_listingVars

-----------------------------------------------------------------------------
Times(i) == Cardinality({n \in DOMAIN shown : shown[n] = i})

(* A client that reads to the end was shown every incident that did not     *)
(* change in the meantime once, and none twice, though incidents of the     *)
(* same time fall on two pages and others move between them (events.rs       *)
(* 129-146, fjall.rs 325-349). One that gets a report after the first page   *)
(* moves to the front, where this client does not see it any more.           *)
PagedOnce ==
  /\ \A i \in IncidentIds : Times(i) <= 1
  /\ cursor = End => \A i \in DOMAIN updated \ touched : Times(i) = 1
=============================================================================
