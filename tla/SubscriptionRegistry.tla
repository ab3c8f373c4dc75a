------------------------ MODULE SubscriptionRegistry ------------------------
(***************************************************************************)
(* What the confirmation service and the subscription store promise to one *)
(* Bark destination: at most one pending request and one active            *)
(* subscription; a newer request replaces the pending one; only the        *)
(* pending request becomes active; and what was unsubscribed or dropped    *)
(* does not come back.                                                     *)
(***************************************************************************)
EXTENDS Integers

CONSTANTS
  Destinations,   (* Bark destinations (server URL and device key)         *)
  MaxRequests     (* bound on the subscription requests ever made          *)

VARIABLES
  last,           (* the last request made, numbered from 1                *)
  pending,        (* pending[d]: the request to be confirmed, or 0         *)
  active          (* active[d]: the request d's subscription is from, or 0 *)

registryVars == <<last, pending, active>>

Init ==
  /\ last = 0
  /\ pending = [d \in Destinations |-> 0]
  /\ active = [d \in Destinations |-> 0]

Request(d) ==
  /\ last < MaxRequests
  /\ last' = last + 1
  /\ pending' = [pending EXCEPT ![d] = last + 1]
  /\ UNCHANGED active

Activate(d) ==
  /\ pending[d] # 0
  /\ active' = [active EXCEPT ![d] = pending[d]]
  /\ pending' = [pending EXCEPT ![d] = 0]
  /\ UNCHANGED last

Drop(d) ==
  /\ pending[d] # 0
  /\ pending' = [pending EXCEPT ![d] = 0]
  /\ UNCHANGED <<last, active>>

Unsubscribe(d) ==
  /\ pending' = [pending EXCEPT ![d] = 0]
  /\ active' = [active EXCEPT ![d] = 0]
  /\ UNCHANGED last

Next == \E d \in Destinations : Request(d) \/ Activate(d) \/ Drop(d) \/ Unsubscribe(d)

Spec == Init /\ [][Next]_registryVars
=============================================================================
