----------------------------- MODULE Watermark -----------------------------
(***************************************************************************)
(* The watermark an incident keeps per stream (category, source, event_id) *)
(* and how a report is judged against it (src/models/incident.rs).         *)
(*                                                                         *)
(* A report is a record with the fields num, level, final and cancel, and  *)
(* whatever else identifies its content: two reports are the same update   *)
(* (event_update_id) exactly when they are the same record.                *)
(***************************************************************************)
EXTENDS Integers, FiniteSets

CONSTANT MaxUpdates      (* MAX_CURRENT_REPORT_UPDATES                     *)

ASSUME UpdatesAssumption == MaxUpdates \in Nat \ {0}

(* IncidentStreamWatermark::from_event.                                    *)
FirstMark(r) ==
  [num |-> r.num, level |-> r.level, final |-> r.final, cancel |-> r.cancel, seen |-> {r}]

HasRoom(seen) == Cardinality(seen) < MaxUpdates

(* The report is cancelled or final for the first time on its stream.      *)
IsTerminal(w, r) == (r.cancel /\ ~w.cancel) \/ (r.final /\ ~w.final)

IsSafetyTransition(w, r) == IsTerminal(w, r) \/ r.level > w.level

Forgets(w, r) == FALSE         (* mutant: a terminal state is not remembered *)

(* A report that would take a cancellation or a final report back.         *)
IsRegression(w, r) == ~r.cancel /\ (w.cancel \/ (w.final /\ ~r.final))

OutcomeOfOlder(w, r) ==
  IF IsTerminal(w, r) THEN "applied"
  ELSE IF ((r.cancel /\ w.cancel) \/ (r.final /\ w.final)) /\ r \in w.seen THEN "replay"
  ELSE "rejected"

TakesWeaker(w, r) ==           (* mutant: the level is not compared          *)
  IF r \in w.seen THEN "replay" ELSE "applied"

OutcomeOfSame(w, r) ==
  IF IsSafetyTransition(w, r) THEN "applied"
  ELSE IF r.level < w.level THEN "rejected"
  ELSE IF r \in w.seen THEN "replay"
  ELSE IF HasRoom(w.seen) THEN "applied"
  ELSE "capacity"

(* IncidentStreamWatermark::outcome.                                       *)
Outcome(w, r) ==
  IF IsRegression(w, r) THEN "rejected"
  ELSE IF r.num > w.num THEN "applied"
  ELSE IF r.num < w.num THEN OutcomeOfOlder(w, r)
  ELSE OutcomeOfSame(w, r)

DropsUpdates(w, r) == {}       (* mutant: the updates are always cleared     *)

(* current_report_updates before the report is remembered.                 *)
UpdatesKept(w, r) ==
  IF r.num > w.num \/ (r.num = w.num /\ IsSafetyTransition(w, r)) THEN {} ELSE w.seen

LatestNumber(w, r) == IF r.num >= w.num THEN r.num ELSE w.num

StaysCancelled(w, r) == w.cancel \/ r.cancel

(* IncidentStreamWatermark::commit.  When the list of updates is full and  *)
(* was not cleared, the update is not remembered; the code's branch that   *)
(* replaces the oldest one is only asked for after a clearing.             *)
Committed(w, r) ==
  LET kept == UpdatesKept(w, r) IN
  [num    |-> LatestNumber(w, r),
   level  |-> IF r.num >= w.num THEN r.level ELSE w.level,
   final  |-> w.final \/ r.final,
   cancel |-> StaysCancelled(w, r),
   seen   |-> IF HasRoom(kept) THEN kept \cup {r} ELSE kept]
=============================================================================
