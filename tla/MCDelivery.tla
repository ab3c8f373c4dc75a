----------------------------- MODULE MCDelivery -----------------------------
(***************************************************************************)
(* Small instances of Delivery for TLC.                                    *)
(***************************************************************************)
EXTENDS Delivery, TLC

(* Destinations are interchangeable; no cfg that checks liveness uses this.*)
Symmetry == Permutations(Destinations)

(* What a step may depend on: all but the counters pushes and aborts, which *)
(* no guard reads.  No cfg that checks a property of them uses this.       *)
Unobserved ==
  <<batchVars, retryVars, ledger, subscriptionVars, matched, deliveryVars, lock,
    scanVars, taskVars, result, crashes>>
=============================================================================
