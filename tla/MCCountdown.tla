---------------------------- MODULE MCCountdown ----------------------------
(***************************************************************************)
(* A small instance of Countdown for TLC.                                  *)
(***************************************************************************)
EXTENDS Countdown, TLC

Symmetry == Permutations(Targets)
=============================================================================
