--------------------------- MODULE IncidentStream ---------------------------
(***************************************************************************)
(* One stream of one stored incident: the reports of a source about one    *)
(* event arrive in any order and any number of times, and the watermark    *)
(* decides which of them are applied (IncidentRecord::apply_outcome,       *)
(* src/models/incident.rs).                                                *)
(***************************************************************************)
EXTENDS Watermark, Sequences

CONSTANTS
  Reports,       (* the reports the source may send, and send again        *)
  MaxApplied     (* bound on the reports applied                           *)

ASSUME ReportsAssumption ==
  /\ \A r \in Reports : r.num \in Nat /\ r.level \in Nat
  /\ \A r \in Reports : r.final \in BOOLEAN /\ r.cancel \in BOOLEAN
  /\ MaxApplied \in Nat \ {0}

VARIABLES
  mark,          (* the stream's watermark                                 *)
  log            (* observation: the reports applied, in order             *)

vars == <<mark, log>>

(* The watermark's numbers and flags are those of reports of the stream.   *)
TypeOK ==
  /\ mark.num \in {r.num : r \in Reports}
  /\ mark.level \in {r.level : r \in Reports}
  /\ mark.final \in BOOLEAN /\ mark.cancel \in BOOLEAN
  /\ mark.seen \in SUBSET Reports
  /\ Cardinality(mark.seen) <= MaxUpdates
  /\ log \in Seq(Reports)

(* The stream's first report opens its watermark.                          *)
Init == \E r \in Reports : mark = FirstMark(r) /\ log = <<r>>

ApplyReport(r) ==
  /\ Outcome(mark, r) = "applied"
  /\ Len(log) < MaxApplied
  /\ mark' = Committed(mark, r)
  /\ log' = Append(log, r)

(* Replayed, rejected and quarantined reports change nothing.              *)
RefuseReport(r) == Outcome(mark, r) # "applied" /\ UNCHANGED vars

Next == \E r \in Reports : ApplyReport(r) \/ RefuseReport(r)

Spec == Init /\ [][Next]_vars

-----------------------------------------------------------------------------
Earlier(i) == {log[k] : k \in 1 .. i - 1}

(* Once a cancellation is applied every later report that is applied is a  *)
(* cancellation, and once a final one, a final one or a cancellation:      *)
(* nobody is alerted again about what was called off.                      *)
TerminalHolds ==
  \A i, j \in DOMAIN log : i < j =>
    /\ log[i].cancel => log[j].cancel
    /\ log[i].final => log[j].final \/ log[j].cancel

(* A report applied out of order is the stream's first cancellation or its *)
(* first final report; no other late report gets past a newer one.         *)
LateOnlyWhenTerminal ==
  \A j \in DOMAIN log :
    (\E e \in Earlier(j) : log[j].num < e.num) =>
      \/ log[j].cancel /\ \A e \in Earlier(j) : ~e.cancel
      \/ log[j].final /\ \A e \in Earlier(j) : ~e.final

(* Within one number and one terminal state the level applied only rises:  *)
(* a weaker repetition of a report never replaces a stronger one.          *)
LevelRises ==
  \A i \in 1 .. Len(log) - 1 :
    LET a == log[i]
        b == log[i + 1]
    IN a.num = b.num /\ a.cancel = b.cancel /\ a.final = b.final => a.level <= b.level

(* The number of the watermark never falls, and what it knows of a final    *)
(* report or a cancellation it does not forget.                            *)
NeverGoesBack ==
  [][/\ mark'.num >= mark.num
     /\ mark.cancel => mark'.cancel
     /\ mark.final => mark'.final]_vars

(* No report is applied over a newer or stronger one, unless it calls off,  *)
(* and the watermark never goes back.                                      *)
OrderKept == [](LateOnlyWhenTerminal /\ LevelRises) /\ NeverGoesBack

(* A report is applied a second time only if it is a cancellation and the  *)
(* stream became final in between.                                         *)
RepeatedOnlyByFinal ==
  \A i, j \in DOMAIN log : i < j /\ log[i] = log[j] =>
    /\ log[i].cancel
    /\ \E k \in i + 1 .. j - 1 : log[k].final /\ \A e \in Earlier(k) : ~e.final
=============================================================================
