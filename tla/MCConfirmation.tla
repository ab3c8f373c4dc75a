--------------------------- MODULE MCConfirmation ---------------------------
(***************************************************************************)
(* Small instances of Confirmation for TLC.                                *)
(***************************************************************************)
EXTENDS Confirmation, TLC

(* Destinations are interchangeable; no cfg that checks liveness uses this.*)
Symmetry == Permutations(Destinations)
=============================================================================
