---------------------------- MODULE MCIncidents ----------------------------
(* A warning stream that is similar to the report stream and to a second   *)
(* agency's warning stream, which are not similar to each other.           *)
EXTENDS Incidents

CONSTANTS jma, fj, eqlist

MCStreams == {jma, fj, eqlist}
MCSource == [s \in MCStreams |-> s]
MCCategory == [s \in MCStreams |-> IF s = eqlist THEN "report" ELSE "warning"]
MCSimilar == ({jma} \X {fj, eqlist}) \cup ({fj, eqlist} \X {jma})

Report(s, n, cancel) ==
  [stream |-> s, num |-> n, level |-> 1, final |-> FALSE, cancel |-> cancel,
   training |-> FALSE, timed |-> TRUE]

(* A warning, its update without a time and its cancellation; the drill of *)
(* a second agency; an earthquake report.                                  *)
MCReports ==
  {Report(jma, 1, FALSE), [Report(jma, 2, FALSE) EXCEPT !.timed = FALSE],
   Report(jma, 2, TRUE), [Report(fj, 1, FALSE) EXCEPT !.training = TRUE],
   Report(eqlist, 1, FALSE)}

(* A warning with updates, and the report of the same earthquake.          *)
MCFewReports ==
  {Report(jma, 1, FALSE), Report(jma, 2, FALSE), Report(jma, 3, FALSE),
   Report(eqlist, 1, FALSE)}
=============================================================================
