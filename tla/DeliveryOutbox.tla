--------------------------- MODULE DeliveryOutbox ---------------------------
(***************************************************************************)
(* What the delivery subsystem promises to one Bark destination: an outbox *)
(* of batch ids, filled in increasing order, of which only the oldest      *)
(* entry may be pushed to Bark, and from which only the oldest entry may   *)
(* leave, with exactly one result.  An entry leaves as delivered only      *)
(* after it was pushed; a push may fail before Bark is asked, so one that  *)
(* leaves as dead may never have been pushed, and neither may a skipped.   *)
(***************************************************************************)
EXTENDS Integers

CONSTANTS
  Destinations,   (* Bark destinations (server URL and device key)         *)
  MaxBatches      (* bound on the delivery batches ever created            *)

VARIABLES
  last,           (* the newest batch id handed out                        *)
  queue,          (* queue[d]: the ids that d is still owed                *)
  result,         (* result[b][d]: how the entry left, or "none"           *)
  pushes          (* pushes[b][d]: requests made to Bark for the entry     *)

outboxVars == <<last, queue, result, pushes>>

Ids == 1 .. MaxBatches

Results == {"delivered", "skipped", "dead"}

IsOldest(b, d) == b \in queue[d] /\ \A c \in queue[d] : b <= c

Init ==
  /\ last = 0
  /\ queue = [d \in Destinations |-> {}]
  /\ result = [b \in Ids |-> [d \in Destinations |-> "none"]]
  /\ pushes = [b \in Ids |-> [d \in Destinations |-> 0]]

(* One batch is added to the outboxes of a nonempty set of destinations.   *)
Enqueue ==
  /\ last < MaxBatches
  /\ last' = last + 1
  /\ \E S \in (SUBSET Destinations) \ {{}} :
       queue' = [d \in Destinations |->
                   IF d \in S THEN queue[d] \cup {last + 1} ELSE queue[d]]
  /\ UNCHANGED <<result, pushes>>

Push(b, d) ==
  /\ IsOldest(b, d)
  /\ pushes' = [pushes EXCEPT ![b][d] = @ + 1]
  /\ UNCHANGED <<last, queue, result>>

Resolve(b, d, how) ==
  /\ IsOldest(b, d)
  /\ result[b][d] = "none"
  /\ how = "delivered" => pushes[b][d] > 0
  /\ queue' = [queue EXCEPT ![d] = @ \ {b}]
  /\ result' = [result EXCEPT ![b][d] = how]
  /\ UNCHANGED <<last, pushes>>

Next ==
  \/ Enqueue
  \/ \E b \in Ids, d \in Destinations :
       \/ Push(b, d)
       \/ \E how \in Results : Resolve(b, d, how)

Spec == Init /\ [][Next]_outboxVars
=============================================================================
