---------------------------- MODULE Confirmation ----------------------------
(***************************************************************************)
(* Subscribing and unsubscribing: the confirmation service, which sends a  *)
(* test push to Bark before a subscription becomes active, and the         *)
(* deletion of a subscription (src/subscriptions/confirmation.rs,          *)
(* src/subscriptions/manager.rs, the confirmation part of                  *)
(* src/storage/fjall.rs, src/routes/subscribe.rs).                         *)
(*                                                                         *)
(* A request is its id, which also stands for the subscription it carries. *)
(* Ids are numbered in the order in which requests are stored; the code    *)
(* takes them earlier, under a lock of its own, maybe in another order.    *)
(* Every attempt reads the stored operation and writes it later by         *)
(* compare-and-swap, under the lease it was given.  Time is a choice: a    *)
(* lease may lapse, a retry fall due and a request grow too old whenever   *)
(* the code looks at the clock.                                            *)
(***************************************************************************)
EXTENDS Integers, FiniteSets

CONSTANTS
  Destinations,    (* Bark destinations                                    *)
  MaxRequests,     (* bound on the requests ever made                      *)
  MaxAttempts,     (* MAX_CONFIRMATION_ATTEMPTS                            *)
  MaxConcurrent,   (* max_concurrent, the background attempts at a time    *)
  MaxLeases,       (* bound on the lease generations of an operation       *)
  MaxDeletes,      (* bound on the unsubscribe calls                       *)
  MaxCrashes       (* bound on the crashes                                 *)

ASSUME ConstantsAssumption ==
  /\ MaxRequests \in Nat
  /\ MaxAttempts \in Nat \ {0}
  /\ MaxConcurrent \in Nat \ {0}
  /\ MaxLeases \in Nat \ {0}
  /\ MaxDeletes \in Nat
  /\ MaxCrashes \in Nat

VARIABLES
  (* Durable.                                                              *)
  last,        (* the requests stored so far                               *)
  operation,   (* operation[id]: the record under confirmation:id          *)
  index,       (* confirmation-destination:d, the id pending for d, or 0   *)
  active,      (* the request d's active subscription is from, or 0        *)
  (* Volatile.                                                             *)
  attempt,     (* attempt[id][g]: where the attempt under lease g stands   *)
  copy,        (* copy[id][g]: the record it has read and not yet replaced *)
  leasing,     (* lease_due_confirmations is running                       *)
  snapshot,    (* the records of its scan it has not yet looked at         *)
  room,        (* the leases it may still hand out                         *)
  deletion,    (* deletion[k]: where the k-th delete_subscription stands   *)
  target,      (* target[k]: its destination                               *)
  (* Observation.                                                          *)
  destination, (* destination[id]: whom the request is for                 *)
  sends,       (* test pushes sent for a request                           *)
  takeovers,   (* lapsed leases of a request given to a new attempt        *)
  absent,      (* absent[k]: since the deletion began, its destination was *)
               (* at some time without a pending or active subscription    *)
  crashes      (* crashes of the process                                   *)

storeVars == <<last, operation, index, active>>
attemptVars == <<attempt, copy>>
leaseVars == <<leasing, snapshot, room>>
deleteVars == <<deletion, target>>
observed == <<destination, sends, takeovers, absent, crashes>>
vars == <<storeVars, attemptVars, leaseVars, deleteVars, observed>>

-----------------------------------------------------------------------------
(* Types *)

Ids == 1 .. MaxRequests
Leases == 1 .. MaxLeases
Deletions == 1 .. MaxDeletes

(* "renewed" tells the two values of lease_until_ms under the first lease  *)
(* apart, as the bytes compared by a swap do.                              *)
Operations == [state : {"none", "ready", "leased"}, lease : 0 .. MaxLeases,
               attempts : 0 .. MaxAttempts - 1, renewed : BOOLEAN]

Leased(g, n) == [state |-> "leased", lease |-> g, attempts |-> n, renewed |-> FALSE]

Renewed(o) ==
  [state |-> o.state, lease |-> o.lease, attempts |-> o.attempts, renewed |-> TRUE]

NoOperation == [state |-> "none", lease |-> 0, attempts |-> 0, renewed |-> FALSE]

(* "Ended": Pending, Superseded, or dropped with the handler or process;   *)
(* they differ only in what the client is told.                            *)
Decisions == {"Activated", "Rejected"}
Swaps == {"activating", "rescheduling", "abandoning"}
Unfinished == {"waiting", "renewing", "starting", "sending"} \cup Swaps
AttemptPhases == {"none", "Ended"} \cup Unfinished \cup Decisions

DeletionPhases == {"idle", "active", "inactive", "removed", "notfound"}
Deleting == {"active", "inactive"}

(* Every variable keeps its type; in particular no operation is stored     *)
(* with all its attempts used up.                                          *)
TypeOK ==
  /\ last \in 0 .. MaxRequests
  /\ operation \in [Ids -> Operations]
  /\ index \in [Destinations -> 0 .. MaxRequests]
  /\ active \in [Destinations -> 0 .. MaxRequests]
  /\ attempt \in [Ids -> [Leases -> AttemptPhases]]
  /\ copy \in [Ids -> [Leases -> Operations]]
  /\ leasing \in BOOLEAN
  /\ snapshot \in [Ids -> Operations]
  /\ room \in 0 .. MaxConcurrent
  /\ deletion \in [Deletions -> DeletionPhases]
  /\ target \in [Deletions -> Destinations]
  /\ destination \in [Ids -> Destinations]
  /\ sends \in [Ids -> Nat]
  /\ takeovers \in [Ids -> Nat]
  /\ absent \in [Deletions -> BOOLEAN]
  /\ crashes \in 0 .. MaxCrashes

-----------------------------------------------------------------------------
(* The store *)

Exists(id) == operation[id].state # "none"

NoSwap(id, expected) == TRUE            (* mutant: a write without a compare *)

(* The record is still the one that was read.                              *)
IsUnchanged(id, expected) == Exists(id) /\ operation[id] = expected

(* The record's token is the one given out with lease g.                   *)
HasToken(id, g) == operation[id].state = "leased" /\ operation[id].lease = g

KeepsPrevious(d) == operation                (* mutant: previous record stays *)

(* The records without the one the destination index points to.            *)
WithoutPending(d) ==
  IF index[d] = 0 THEN operation ELSE [operation EXCEPT ![index[d]] = NoOperation]

IsGone(d, pending, current) == pending[d] = 0 /\ current[d] = 0

(* A commit of the index and the subscriptions; the deletions under way    *)
(* see whether it leaves their destination without either.                 *)
Commit(pending, current) ==
  /\ index' = pending
  /\ active' = current
  /\ absent' = [k \in Deletions |->
                  absent[k] \/ (deletion[k] \in Deleting /\ IsGone(target[k], pending, current))]

Remove(id) ==
  /\ operation' = [operation EXCEPT ![id] = NoOperation]
  /\ Commit([index EXCEPT ![destination[id]] = 0], active)

Init ==
  /\ last = 0
  /\ operation = [id \in Ids |-> NoOperation]
  /\ index = [d \in Destinations |-> 0]
  /\ active = [d \in Destinations |-> 0]
  /\ attempt = [id \in Ids |-> [g \in Leases |-> "none"]]
  /\ copy = [id \in Ids |-> [g \in Leases |-> NoOperation]]
  /\ leasing = FALSE
  /\ snapshot = [id \in Ids |-> NoOperation]
  /\ room = 0
  /\ deletion = [k \in Deletions |-> "idle"]
  /\ target \in [Deletions -> Destinations]
  /\ destination \in [Ids -> Destinations]
  /\ sends = [id \in Ids |-> 0]
  /\ takeovers = [id \in Ids |-> 0]
  /\ absent = [k \in Deletions |-> FALSE]
  /\ crashes = 0

-----------------------------------------------------------------------------
(* subscribe_handler: begin, then one attempt under the first lease *)

(* The new operation replaces the pending one of its destination and is    *)
(* leased to the request that made it.                                     *)
Begin ==
  LET id == last + 1
      d == destination[id] IN
  /\ id \in Ids
  /\ last' = id
  /\ operation' = [WithoutPending(d) EXCEPT ![id] = Leased(1, 0)]
  /\ Commit([index EXCEPT ![d] = id], active)
  /\ attempt' = [attempt EXCEPT ![id][1] = "waiting"]
  /\ UNCHANGED <<copy, leaseVars, deleteVars, destination, sends, takeovers, crashes>>

Moves(id, g, phase) == attempt' = [attempt EXCEPT ![id][g] = phase]

Ends(id, g, how) ==
  /\ Moves(id, g, how)
  /\ copy' = [copy EXCEPT ![id][g] = NoOperation]

(* activate_, reschedule_ or abandon_confirmation reads the record.        *)
ReadForSwap(id, g, swap) ==
  IF HasToken(id, g)
  THEN /\ Moves(id, g, swap)
       /\ copy' = [copy EXCEPT ![id][g] = operation[id]]
  ELSE Ends(id, g, "Ended")

(* confirmation_expired, before or after the wait for a Bark permit.       *)
Expire(id, g) ==
  /\ \/ attempt[id][g] = "waiting"
     \/ attempt[id][g] = "starting" /\ ~leasing
  /\ ReadForSwap(id, g, "abandoning")
  /\ UNCHANGED <<storeVars, leaseVars, deleteVars, observed>>

(* With its permit, the request's attempt renews its lease.                *)
RenewRead(id) ==
  /\ attempt[id][1] = "waiting"
  /\ IF HasToken(id, 1)
     THEN /\ Moves(id, 1, "renewing")
          /\ copy' = [copy EXCEPT ![id][1] = operation[id]]
     ELSE Ends(id, 1, "Ended")
  /\ UNCHANGED <<storeVars, leaseVars, deleteVars, observed>>

Send(id, g) ==
  /\ Moves(id, g, "sending")
  /\ sends' = [sends EXCEPT ![id] = @ + 1]

Renew(id) ==
  /\ attempt[id][1] = "renewing"
  /\ copy' = [copy EXCEPT ![id][1] = NoOperation]
  /\ IF IsUnchanged(id, copy[id][1])
     THEN /\ operation' = [operation EXCEPT ![id] = Renewed(operation[id])]
          /\ Send(id, 1)
     ELSE /\ Moves(id, 1, "Ended")
          /\ UNCHANGED <<operation, sends>>
  /\ UNCHANGED <<last, index, active, leaseVars, deleteVars, destination, takeovers,
                 absent, crashes>>

(* A background attempt has its permit and a fresh lease; it starts when   *)
(* lease_due_confirmations has returned.                                   *)
StartLeased(id, g) ==
  /\ attempt[id][g] = "starting"
  /\ ~leasing
  /\ Send(id, g)
  /\ UNCHANGED <<storeVars, copy, leaseVars, deleteVars, destination, takeovers,
                 absent, crashes>>

(* Not confirmation_retry_exhausted by attempts.                           *)
MayRetry(n) == n + 1 < MaxAttempts

(* Bark answers, or the request fails, and the attempt goes on to its swap.*)
(* It is abandoned after a permanent error, when it is too old, or when    *)
(* the attempts of the record it was leased with are used up.              *)
Answer(id, g) ==
  /\ attempt[id][g] = "sending"
  /\ \E swap \in Swaps :
       /\ swap = "rescheduling" => MayRetry(copy[id][g].attempts)
       /\ ReadForSwap(id, g, swap)
  /\ UNCHANGED <<storeVars, leaseVars, deleteVars, observed>>

(* activate_confirmation also checks that the destination index still has  *)
(* the id; the subscription is stored and the operation removed at once.   *)
Activate(id, g) ==
  LET d == destination[id] IN
  /\ attempt[id][g] = "activating"
  /\ IF IsUnchanged(id, copy[id][g]) /\ index[d] = id
     THEN /\ operation' = [operation EXCEPT ![id] = NoOperation]
          /\ Commit([index EXCEPT ![d] = 0], [active EXCEPT ![d] = id])
          /\ Ends(id, g, "Activated")
     ELSE /\ Ends(id, g, "Ended")
          /\ UNCHANGED <<operation, index, active, absent>>
  /\ UNCHANGED <<last, leaseVars, deleteVars, destination, sends, takeovers, crashes>>

ForgetsAttempt(n) == n                  (* mutant: the attempt is not counted *)

AttemptsAfter(n) == n + 1

Rescheduled(o) ==
  [state |-> "ready", lease |-> o.lease, attempts |-> AttemptsAfter(o.attempts),
   renewed |-> FALSE]

Reschedule(id, g) ==
  /\ attempt[id][g] = "rescheduling"
  /\ IF IsUnchanged(id, copy[id][g])
     THEN operation' = [operation EXCEPT ![id] = Rescheduled(operation[id])]
     ELSE UNCHANGED operation
  /\ Ends(id, g, "Ended")
  /\ UNCHANGED <<last, index, active, leaseVars, deleteVars, observed>>

Abandon(id, g) ==
  /\ attempt[id][g] = "abandoning"
  /\ IF IsUnchanged(id, copy[id][g])
     THEN Remove(id) /\ Ends(id, g, "Rejected")
     ELSE /\ Ends(id, g, "Ended")
          /\ UNCHANGED <<operation, index, active, absent>>
  /\ UNCHANGED <<last, leaseVars, deleteVars, destination, sends, takeovers, crashes>>

(* The client goes away: the handler is dropped where it waits for a       *)
(* permit or for Bark.  What runs on a blocking thread still completes.    *)
Disconnect(id) ==
  /\ attempt[id][1] \in {"waiting", "sending"}
  /\ Ends(id, 1, "Ended")
  /\ UNCHANGED <<storeVars, leaseVars, deleteVars, observed>>

-----------------------------------------------------------------------------
(* The background worker: lease what is due, then run it *)

Running == {p \in Ids \X (Leases \ {1}) : attempt[p[1]][p[2]] \in Unfinished}

BeginLeasing ==
  /\ ~leasing
  /\ \E n \in 1 .. MaxConcurrent : n + Cardinality(Running) <= MaxConcurrent /\ room' = n
  /\ leasing' = TRUE
  /\ snapshot' = operation
  /\ UNCHANGED <<storeVars, attemptVars, deleteVars, observed>>

(* The scan is in the order of the ids as taken, which may be any.         *)
IsNext(id) == leasing /\ snapshot[id].state # "none"

Passed(id) == [snapshot EXCEPT ![id] = NoOperation]

LeaseExpires(id) ==
  /\ IsNext(id)
  /\ IF IsUnchanged(id, snapshot[id])
     THEN Remove(id)
     ELSE UNCHANGED <<operation, index, active, absent>>
  /\ snapshot' = Passed(id)
  /\ UNCHANGED <<last, attemptVars, leasing, room, deleteVars, destination, sends,
                 takeovers, crashes>>

ReadyOnly(state) == state = "ready"      (* mutant: a lapsed lease is kept *)

(* The states in which an operation falls due as time passes.              *)
FallsDue(state) == state \in {"ready", "leased"}

LeaseDue(id) ==
  LET g == snapshot[id].lease + 1
      next == Leased(g, snapshot[id].attempts) IN
  /\ IsNext(id)
  /\ FallsDue(snapshot[id].state)
  /\ room > 0
  /\ g \in Leases
  /\ IF IsUnchanged(id, snapshot[id])
     THEN /\ operation' = [operation EXCEPT ![id] = next]
          /\ Moves(id, g, "starting")
          /\ copy' = [copy EXCEPT ![id][g] = next]
          /\ room' = room - 1
          /\ takeovers' = [takeovers EXCEPT
                             ![id] = IF snapshot[id].state = "leased" THEN @ + 1 ELSE @]
     ELSE UNCHANGED <<operation, attemptVars, room, takeovers>>
  /\ snapshot' = Passed(id)
  /\ UNCHANGED <<last, index, active, leasing, deleteVars, destination, sends,
                 absent, crashes>>

LeaseSkips(id) ==
  /\ IsNext(id)
  /\ snapshot' = Passed(id)
  /\ UNCHANGED <<storeVars, attemptVars, leasing, room, deleteVars, observed>>

(* The scan is through, or meets a due operation without a permit left.    *)
EndLeasing ==
  /\ leasing
  /\ (\A id \in Ids : snapshot[id].state = "none") \/ room = 0
  /\ leasing' = FALSE
  /\ snapshot' = [id \in Ids |-> NoOperation]
  /\ room' = 0
  /\ UNCHANGED <<storeVars, attemptVars, deleteVars, observed>>

-----------------------------------------------------------------------------
(* delete_subscription: read the subscription, then change the store *)

BeginDelete(k) ==
  LET d == target[k] IN
  /\ deletion[k] = "idle"
  /\ deletion' = [deletion EXCEPT ![k] = IF active[d] # 0 THEN "active" ELSE "inactive"]
  /\ absent' = [absent EXCEPT ![k] = IsGone(d, index, active)]
  /\ UNCHANGED <<storeVars, attemptVars, leaseVars, target, destination, sends,
                 takeovers, crashes>>

Ignored(d) == index                     (* mutant: the pending one is kept *)

IndexWithout(d) == [index EXCEPT ![d] = 0]

(* deactivate_subscription removes the pending operation as well.          *)
DeleteActive(k) ==
  LET d == target[k] IN
  /\ deletion[k] = "active"
  /\ operation' = WithoutPending(d)
  /\ Commit(IndexWithout(d), [active EXCEPT ![d] = 0])
  /\ deletion' = [deletion EXCEPT ![k] = "removed"]
  /\ UNCHANGED <<last, attemptVars, leaseVars, target, destination, sends, takeovers,
                 crashes>>

(* remove_confirmation_for_destination; without an operation, 404.         *)
DeleteInactive(k) ==
  LET d == target[k] IN
  /\ deletion[k] = "inactive"
  /\ IF index[d] # 0
     THEN /\ operation' = WithoutPending(d)
          /\ Commit(IndexWithout(d), active)
          /\ deletion' = [deletion EXCEPT ![k] = "removed"]
     ELSE /\ deletion' = [deletion EXCEPT ![k] = "notfound"]
          /\ UNCHANGED <<operation, index, active, absent>>
  /\ UNCHANGED <<last, attemptVars, leaseVars, target, destination, sends, takeovers,
                 crashes>>

-----------------------------------------------------------------------------
(* Crash and restart *)

(* The process stops and starts again.  A graceful stop is this after a    *)
(* time without Begin and BeginLeasing, the two that check closing.        *)
Restart ==
  /\ crashes < MaxCrashes
  /\ crashes' = crashes + 1
  /\ attempt' = [id \in Ids |-> [g \in Leases |->
                   IF attempt[id][g] \in Unfinished THEN "Ended" ELSE attempt[id][g]]]
  /\ copy' = [id \in Ids |-> [g \in Leases |-> NoOperation]]
  /\ leasing' = FALSE
  /\ snapshot' = [id \in Ids |-> NoOperation]
  /\ room' = 0
  /\ deletion' = [k \in Deletions |->
                    IF deletion[k] \in Deleting THEN "idle" ELSE deletion[k]]
  /\ UNCHANGED <<storeVars, target, destination, sends, takeovers, absent>>

AttemptStep(id, g) ==
  \/ StartLeased(id, g)
  \/ Answer(id, g)
  \/ Activate(id, g)
  \/ Reschedule(id, g)
  \/ Abandon(id, g)

RequestStep(id) == RenewRead(id) \/ Renew(id)

Next ==
  \/ Begin
  \/ \E id \in Ids : RequestStep(id) \/ Disconnect(id)
  \/ \E id \in Ids, g \in Leases : AttemptStep(id, g) \/ Expire(id, g)
  \/ BeginLeasing
  \/ \E id \in Ids : LeaseExpires(id) \/ LeaseDue(id) \/ LeaseSkips(id)
  \/ EndLeasing
  \/ \E k \in Deletions : BeginDelete(k) \/ DeleteActive(k) \/ DeleteInactive(k)
  \/ Restart

Spec == Init /\ [][Next]_vars

(* Attempts and the background loop are tasks that the runtime schedules;  *)
(* a stopped process is started again; an operation that stays due is      *)
(* leased by one of the scans.  Nobody has to subscribe, unsubscribe,      *)
(* disconnect or crash, and no request has to grow too old.                *)
Fairness ==
  /\ \A id \in Ids : WF_vars(RequestStep(id))
  /\ \A id \in Ids, g \in Leases : WF_vars(AttemptStep(id, g))
  /\ WF_vars(BeginLeasing)
  /\ \A id \in Ids : WF_vars(LeaseSkips(id)) /\ SF_vars(LeaseDue(id))
  /\ WF_vars(EndLeasing)

FairSpec == Spec /\ Fairness

-----------------------------------------------------------------------------
(* Properties *)

(* At most one operation is pending per destination, and the destination   *)
(* index says which: replace_confirmation never stops the worker with      *)
(* "confirmation destination index mismatch", and an unsubscribe finds     *)
(* what is pending, whatever requests, attempts, scans and deletions do.   *)
IndexMatches ==
  /\ \A id \in Ids : Exists(id) => index[destination[id]] = id
  /\ \A d \in Destinations :
       index[d] # 0 => Exists(index[d]) /\ destination[index[d]] = d

(* A request costs at most MaxAttempts test pushes, and one more for every *)
(* lapsed lease that was taken over: the count survives crashes and late   *)
(* answers of attempts that lost their lease.                              *)
SendsBounded == \A id \in Ids : sends[id] <= MaxAttempts + takeovers[id]

(* Attempts of one request may overlap when a lease lapses, but only one   *)
(* of them decides it; then no attempt, scan or swap revives it, and a     *)
(* rejected request is not the subscription of its destination.            *)
DecisionIsFinal ==
  \A id \in Ids, g \in Leases :
    attempt[id][g] \in Decisions =>
      /\ ~Exists(id)
      /\ \A h \in Leases \ {g} : attempt[id][h] \notin Decisions
      /\ attempt[id][g] = "Rejected" => active[destination[id]] # id

(* Requests, attempts, scans and deletions implement the registry: the     *)
(* request stored last wins, and what was removed or unsubscribed stays so.*)
Registry == INSTANCE SubscriptionRegistry WITH pending <- index
ImplementsRegistry == Registry!Spec

(* Every request is decided in the end: however attempts fail, time out,   *)
(* lose their lease, are dropped by the client or by a crash, the          *)
(* operation leaves the store (or used up the leases the instance has).    *)
EveryRequestResolved ==
  \A id \in Ids : <>[](~Exists(id) \/ operation[id].lease = MaxLeases)

(* An unsubscribe that answers 404 did so because, at some time during the *)
(* call, its destination had neither a subscription nor a pending request. *)
NotFoundMeansNone == \A k \in Deletions : deletion[k] = "notfound" => absent[k]
=============================================================================
