------------------------- MODULE ConfirmationProofs -------------------------
(***************************************************************************)
(* Proofs about Confirmation: its invariants for any number of requests,   *)
(* leases, attempts, deletions and crashes, and the refinement of          *)
(* SubscriptionRegistry.                                                   *)
(***************************************************************************)
EXTENDS Confirmation, FiniteSetTheorems, TLAPS

USE ConstantsAssumption

-----------------------------------------------------------------------------
(* The inductive invariant *)

(* Nothing is known of a request that was not made.                        *)
Unborn ==
  \A id \in Ids : id > last =>
    /\ ~Exists(id)
    /\ \A g \in Leases : attempt[id][g] = "none"
    /\ sends[id] = 0
    /\ takeovers[id] = 0

(* An attempt that still holds its lease knows the attempts of its record, *)
(* and one about to reschedule has another attempt left.                   *)
AttemptsKnown ==
  \A id \in Ids :
    /\ Exists(id) => operation[id].lease >= 1
    /\ operation[id].lease = 1 /\ operation[id].state = "leased" => operation[id].attempts = 0
    /\ \A g \in Leases :
         /\ attempt[id][g] \in {"starting", "sending"} /\ HasToken(id, g) =>
              operation[id].attempts = copy[id][g].attempts
         /\ attempt[id][g] = "rescheduling" =>
              MayRetry(copy[id][g].attempts) /\ copy[id][g].state = "leased"

(* A pending request is not active already.                                *)
NotYetActive ==
  /\ \A d \in Destinations : active[d] <= last
  /\ \A id \in Ids : Exists(id) => active[destination[id]] # id

Unsent(id) == {g \in Leases : attempt[id][g] \in {"waiting", "renewing", "starting"}}

(* The lease generation counts the pushes made and still to be made: one   *)
(* per lease, and a lease follows a counted attempt or a takeover.         *)
SendCount ==
  \A id \in Ids :
    /\ sends[id] + Cardinality(Unsent(id)) <= MaxAttempts + takeovers[id]
    /\ Exists(id) =>
         /\ operation[id].lease = operation[id].attempts + takeovers[id]
                                  + (IF operation[id].state = "leased" THEN 1 ELSE 0)
         /\ sends[id] + Cardinality(Unsent(id)) <= operation[id].lease

IInv ==
  /\ TypeOK
  /\ IndexMatches
  /\ Unborn
  /\ AttemptsKnown
  /\ NotYetActive
  /\ DecisionIsFinal
  /\ SendCount

-----------------------------------------------------------------------------
(* Steps *)

(* The actions that leave the store as it is.                              *)
StoreKept ==
  \/ \E id \in Ids : RenewRead(id) \/ Disconnect(id) \/ LeaseSkips(id)
  \/ \E id \in Ids, g \in Leases : StartLeased(id, g) \/ Answer(id, g) \/ Expire(id, g)
  \/ BeginLeasing
  \/ EndLeasing
  \/ \E k \in Deletions : BeginDelete(k)
  \/ Restart

LEMMA NextCases ==
  ASSUME Next
  PROVE  \/ StoreKept
         \/ Begin
         \/ \E id \in Ids : Renew(id) \/ LeaseExpires(id) \/ LeaseDue(id)
         \/ \E id \in Ids, g \in Leases :
              Activate(id, g) \/ Reschedule(id, g) \/ Abandon(id, g)
         \/ \E k \in Deletions : DeleteActive(k) \/ DeleteInactive(k)
BY DEF Next, RequestStep, AttemptStep, StoreKept

LEMMA NoOperationType == NoOperation \in Operations
BY DEF NoOperation, Operations

(* The operations that the actions write.                                  *)
LEMMA OperationTypes ==
  ASSUME NEW o \in Operations
  PROVE  /\ Renewed(o) \in Operations
         /\ MayRetry(o.attempts) => Rescheduled(o) \in Operations
         /\ \A g \in Leases : Leased(g, o.attempts) \in Operations
BY DEF Operations, Renewed, Rescheduled, Leased, MayRetry, AttemptsAfter, Leases

LEMMA StoreKeptUnchanged == ASSUME StoreKept PROVE UNCHANGED storeVars
BY DEF StoreKept, RenewRead, Disconnect, LeaseSkips, StartLeased, Answer, Expire, BeginLeasing,
       EndLeasing, BeginDelete, Restart, storeVars

-----------------------------------------------------------------------------
(* Types *)

LEMMA TypeInit == Init => TypeOK
<1> SUFFICES ASSUME Init PROVE TypeOK
  OBVIOUS
<1>1. "none" \in AttemptPhases /\ "idle" \in DeletionPhases
  BY DEF AttemptPhases, DeletionPhases
<1>2. /\ operation \in [Ids -> Operations]
      /\ snapshot \in [Ids -> Operations]
      /\ copy \in [Ids -> [Leases -> Operations]]
  BY NoOperationType DEF Init
<1>3. /\ attempt \in [Ids -> [Leases -> AttemptPhases]]
      /\ deletion \in [Deletions -> DeletionPhases]
  BY <1>1 DEF Init
<1>4. /\ last \in 0 .. MaxRequests
      /\ index \in [Destinations -> 0 .. MaxRequests]
      /\ active \in [Destinations -> 0 .. MaxRequests]
      /\ room \in 0 .. MaxConcurrent
      /\ crashes \in 0 .. MaxCrashes
  BY DEF Init
<1> QED
  BY <1>2, <1>3, <1>4 DEF Init, TypeOK

(* The moves of an attempt keep the types of attempt and copy.             *)
LEMMA MovesType ==
  ASSUME TypeOK, NEW id \in Ids, NEW g \in Leases, NEW p \in AttemptPhases, Moves(id, g, p)
  PROVE  attempt' \in [Ids -> [Leases -> AttemptPhases]]
BY DEF Moves, TypeOK

LEMMA EndsType ==
  ASSUME TypeOK, NEW id \in Ids, NEW g \in Leases, NEW p \in AttemptPhases, Ends(id, g, p)
  PROVE  /\ attempt' \in [Ids -> [Leases -> AttemptPhases]]
         /\ copy' \in [Ids -> [Leases -> Operations]]
BY MovesType, NoOperationType DEF Ends, TypeOK

LEMMA ReadForSwapType ==
  ASSUME TypeOK, NEW id \in Ids, NEW g \in Leases, NEW p \in Swaps, ReadForSwap(id, g, p)
  PROVE  /\ attempt' \in [Ids -> [Leases -> AttemptPhases]]
         /\ copy' \in [Ids -> [Leases -> Operations]]
<1>1. p \in AttemptPhases /\ "Ended" \in AttemptPhases
  BY DEF AttemptPhases, Unfinished
<1>2. CASE HasToken(id, g)
  <2>1. operation[id] \in Operations
    BY DEF TypeOK
  <2>2. Moves(id, g, p) /\ copy' = [copy EXCEPT ![id][g] = operation[id]]
    BY <1>2 DEF ReadForSwap
  <2>3. copy' \in [Ids -> [Leases -> Operations]]
    BY <2>1, <2>2 DEF TypeOK
  <2> QED
    BY <1>1, <2>2, <2>3, MovesType
<1>3. CASE ~HasToken(id, g)
  BY <1>1, <1>3, EndsType DEF ReadForSwap
<1> QED
  BY <1>2, <1>3

LEMMA CommitType ==
  ASSUME TypeOK, NEW i \in [Destinations -> 0 .. MaxRequests],
         NEW a \in [Destinations -> 0 .. MaxRequests], Commit(i, a)
  PROVE  /\ index' \in [Destinations -> 0 .. MaxRequests]
         /\ active' \in [Destinations -> 0 .. MaxRequests]
         /\ absent' \in [Deletions -> BOOLEAN]
BY DEF Commit, TypeOK

LEMMA RemoveType ==
  ASSUME TypeOK, NEW id \in Ids, Remove(id)
  PROVE  /\ operation' \in [Ids -> Operations]
         /\ index' \in [Destinations -> 0 .. MaxRequests]
         /\ active' \in [Destinations -> 0 .. MaxRequests]
         /\ absent' \in [Deletions -> BOOLEAN]
<1>1. [index EXCEPT ![destination[id]] = 0] \in [Destinations -> 0 .. MaxRequests]
  BY DEF TypeOK
<1> QED
  BY <1>1, CommitType, NoOperationType DEF Remove, TypeOK

LEMMA WithoutPendingType ==
  ASSUME TypeOK, NEW d \in Destinations
  PROVE  WithoutPending(d) \in [Ids -> Operations]
BY NoOperationType DEF WithoutPending, TypeOK, Ids

(* Every step keeps the types.                                             *)
LEMMA TypeStep ==
  ASSUME TypeOK, AttemptsKnown, [Next]_vars
  PROVE  TypeOK'
<1> USE DEF storeVars, attemptVars, leaseVars, deleteVars, observed
<1>0. /\ {"waiting", "renewing", "starting", "sending", "activating", "rescheduling",
          "abandoning", "Ended", "Activated", "Rejected"} \subseteq AttemptPhases
      /\ {"active", "inactive", "removed", "notfound", "idle"} \subseteq DeletionPhases
  BY DEF AttemptPhases, Unfinished, Swaps, Decisions, DeletionPhases
<1>1. CASE Begin
  <2> DEFINE id == last + 1
             d == destination[id]
             new == Leased(1, 0)
  <2>1. id \in Ids /\ id \in 0 .. MaxRequests /\ 1 \in Leases
    BY <1>1 DEF Begin, Ids, Leases, TypeOK
  <2>2. d \in Destinations
    BY <2>1 DEF TypeOK
  <2>3. new \in Operations
    BY <2>1 DEF Leased, Leases, Operations
  <2>4. operation' = [WithoutPending(d) EXCEPT ![id] = new]
    BY <1>1 DEF Begin
  <2>5. operation' \in [Ids -> Operations]
    BY <2>2, <2>3, <2>4, WithoutPendingType
  <2>6. [index EXCEPT ![d] = id] \in [Destinations -> 0 .. MaxRequests]
    BY <2>1 DEF TypeOK
  <2>7. attempt' \in [Ids -> [Leases -> AttemptPhases]]
    BY <1>0, <1>1, <2>1 DEF Begin, TypeOK
  <2>8. last' = id /\ Commit([index EXCEPT ![d] = id], active)
    BY <1>1 DEF Begin
  <2>9. /\ index' \in [Destinations -> 0 .. MaxRequests]
        /\ active' \in [Destinations -> 0 .. MaxRequests]
        /\ absent' \in [Deletions -> BOOLEAN]
    BY <2>6, <2>8, CommitType DEF TypeOK
  <2> QED
    BY <1>1, <2>1, <2>5, <2>7, <2>8, <2>9 DEF Begin, TypeOK
<1>2. ASSUME NEW id \in Ids, RenewRead(id) \/ Disconnect(id)
      PROVE  TypeOK'
  <2>1. 1 \in Leases /\ operation[id] \in Operations
    BY DEF Leases, TypeOK
  <2>2. /\ attempt' \in [Ids -> [Leases -> AttemptPhases]]
        /\ copy' \in [Ids -> [Leases -> Operations]]
    <3>1. CASE Ends(id, 1, "Ended")
      BY <1>0, <2>1, <3>1, EndsType
    <3>2. CASE Moves(id, 1, "renewing") /\ copy' = [copy EXCEPT ![id][1] = operation[id]]
      BY <1>0, <2>1, <3>2, MovesType DEF TypeOK
    <3> QED
      BY <1>2, <3>1, <3>2 DEF RenewRead, Disconnect
  <2> QED
    BY <1>2, <2>2 DEF RenewRead, Disconnect, TypeOK
<1>3. ASSUME NEW id \in Ids, Renew(id)
      PROVE  TypeOK'
  <2>1. 1 \in Leases
    BY DEF Leases
  <2>2. attempt' \in [Ids -> [Leases -> AttemptPhases]] /\ sends' \in [Ids -> Nat]
    <3>1. CASE IsUnchanged(id, copy[id][1])
      <4>1. Moves(id, 1, "sending") /\ sends' = [sends EXCEPT ![id] = @ + 1]
        BY <1>3, <3>1 DEF Renew, Send
      <4>2. sends' \in [Ids -> Nat]
        BY <4>1 DEF TypeOK
      <4> QED
        BY <1>0, <2>1, <4>1, <4>2, MovesType
    <3>2. CASE ~IsUnchanged(id, copy[id][1])
      BY <1>0, <1>3, <2>1, <3>2, MovesType DEF Renew, TypeOK
    <3> QED
      BY <3>1, <3>2
  <2>3. operation' \in [Ids -> Operations]
    <3>1. Renewed(operation[id]) \in Operations
      BY OperationTypes DEF TypeOK
    <3> QED
      BY <1>3, <3>1 DEF Renew, TypeOK
  <2>4. copy' \in [Ids -> [Leases -> Operations]]
    BY <1>3, NoOperationType DEF Renew, TypeOK
  <2> QED
    BY <1>3, <2>2, <2>3, <2>4 DEF Renew, TypeOK
<1>4. ASSUME NEW id \in Ids, NEW g \in Leases, StartLeased(id, g)
      PROVE  TypeOK'
  <2>1. attempt' \in [Ids -> [Leases -> AttemptPhases]] /\ sends' \in [Ids -> Nat]
    BY <1>0, <1>4, MovesType DEF StartLeased, Send, TypeOK
  <2> QED
    BY <1>4, <2>1 DEF StartLeased, TypeOK
<1>5. ASSUME NEW id \in Ids, NEW g \in Leases, Answer(id, g) \/ Expire(id, g)
      PROVE  TypeOK'
  <2>1. PICK swap \in Swaps : ReadForSwap(id, g, swap)
    BY <1>5 DEF Answer, Expire, Swaps
  <2>2. /\ attempt' \in [Ids -> [Leases -> AttemptPhases]]
        /\ copy' \in [Ids -> [Leases -> Operations]]
    BY <2>1, ReadForSwapType
  <2> QED
    BY <1>5, <2>2 DEF Answer, Expire, TypeOK
<1>6. ASSUME NEW id \in Ids, NEW g \in Leases, Activate(id, g)
      PROVE  TypeOK'
  <2> DEFINE d == destination[id]
  <2>1. /\ attempt' \in [Ids -> [Leases -> AttemptPhases]]
        /\ copy' \in [Ids -> [Leases -> Operations]]
    BY <1>0, <1>6, EndsType DEF Activate
  <2>2. /\ operation' \in [Ids -> Operations]
        /\ index' \in [Destinations -> 0 .. MaxRequests]
        /\ active' \in [Destinations -> 0 .. MaxRequests]
        /\ absent' \in [Deletions -> BOOLEAN]
    <3>1. CASE IsUnchanged(id, copy[id][g]) /\ index[d] = id
      <4>1. /\ operation' = [operation EXCEPT ![id] = NoOperation]
            /\ Commit([index EXCEPT ![d] = 0], [active EXCEPT ![d] = id])
        BY <1>6, <3>1 DEF Activate
      <4>2. /\ [index EXCEPT ![d] = 0] \in [Destinations -> 0 .. MaxRequests]
            /\ [active EXCEPT ![d] = id] \in [Destinations -> 0 .. MaxRequests]
        BY DEF TypeOK, Ids
      <4> QED
        BY <4>1, <4>2, CommitType, NoOperationType DEF TypeOK
    <3>2. CASE ~(IsUnchanged(id, copy[id][g]) /\ index[d] = id)
      BY <1>6, <3>2 DEF Activate, TypeOK
    <3> QED
      BY <3>1, <3>2
  <2> QED
    BY <1>6, <2>1, <2>2 DEF Activate, TypeOK
<1>7. ASSUME NEW id \in Ids, NEW g \in Leases, Reschedule(id, g)
      PROVE  TypeOK'
  <2>1. /\ attempt' \in [Ids -> [Leases -> AttemptPhases]]
        /\ copy' \in [Ids -> [Leases -> Operations]]
    BY <1>0, <1>7, EndsType DEF Reschedule
  <2>2. operation' \in [Ids -> Operations]
    <3>1. CASE IsUnchanged(id, copy[id][g])
      <4>1. MayRetry(operation[id].attempts)
        BY <1>7, <3>1 DEF IsUnchanged, Reschedule, AttemptsKnown
      <4>2. operation[id] \in Operations
        BY DEF TypeOK
      <4>3. Rescheduled(operation[id]) \in Operations
        BY <4>1, <4>2, OperationTypes
      <4> QED
        BY <1>7, <3>1, <4>3 DEF Reschedule, TypeOK
    <3>2. CASE ~IsUnchanged(id, copy[id][g])
      BY <1>7, <3>2 DEF Reschedule, TypeOK
    <3> QED
      BY <3>1, <3>2
  <2> QED
    BY <1>7, <2>1, <2>2 DEF Reschedule, TypeOK
<1>8. ASSUME NEW id \in Ids, NEW g \in Leases, Abandon(id, g)
      PROVE  TypeOK'
  <2>1. /\ attempt' \in [Ids -> [Leases -> AttemptPhases]]
        /\ copy' \in [Ids -> [Leases -> Operations]]
    BY <1>0, <1>8, EndsType DEF Abandon
  <2>2. /\ operation' \in [Ids -> Operations]
        /\ index' \in [Destinations -> 0 .. MaxRequests]
        /\ active' \in [Destinations -> 0 .. MaxRequests]
        /\ absent' \in [Deletions -> BOOLEAN]
    BY <1>8, RemoveType DEF Abandon, TypeOK
  <2> QED
    BY <1>8, <2>1, <2>2 DEF Abandon, TypeOK
<1>9. CASE BeginLeasing
  BY <1>9 DEF BeginLeasing, TypeOK
<1>10. ASSUME NEW id \in Ids, LeaseExpires(id)
       PROVE  TypeOK'
  <2>1. /\ operation' \in [Ids -> Operations]
        /\ index' \in [Destinations -> 0 .. MaxRequests]
        /\ active' \in [Destinations -> 0 .. MaxRequests]
        /\ absent' \in [Deletions -> BOOLEAN]
    BY <1>10, RemoveType DEF LeaseExpires, TypeOK
  <2>2. snapshot' \in [Ids -> Operations]
    BY <1>10, NoOperationType DEF LeaseExpires, Passed, TypeOK
  <2> QED
    BY <1>10, <2>1, <2>2 DEF LeaseExpires, TypeOK
<1>11. ASSUME NEW id \in Ids, LeaseDue(id)
       PROVE  TypeOK'
  <2> DEFINE g == snapshot[id].lease + 1
             next == Leased(g, snapshot[id].attempts)
  <2>1. g \in Leases /\ snapshot[id] \in Operations
    BY <1>11 DEF LeaseDue, TypeOK
  <2>2. next \in Operations
    BY <2>1, OperationTypes
  <2>3. snapshot' \in [Ids -> Operations]
    BY <1>11, NoOperationType DEF LeaseDue, Passed, TypeOK
  <2>4. CASE IsUnchanged(id, snapshot[id])
    <3>1. /\ operation' = [operation EXCEPT ![id] = next]
          /\ Moves(id, g, "starting")
          /\ copy' = [copy EXCEPT ![id][g] = next]
          /\ room' = room - 1 /\ room > 0
          /\ takeovers' = [takeovers EXCEPT
                             ![id] = IF snapshot[id].state = "leased" THEN @ + 1 ELSE @]
      BY <1>11, <2>4 DEF LeaseDue
    <3>2. attempt' \in [Ids -> [Leases -> AttemptPhases]]
      BY <1>0, <2>1, <3>1, MovesType
    <3>3. /\ operation' \in [Ids -> Operations]
          /\ copy' \in [Ids -> [Leases -> Operations]]
      BY <2>1, <2>2, <3>1 DEF TypeOK
    <3>4. room' \in 0 .. MaxConcurrent /\ takeovers' \in [Ids -> Nat]
      BY <3>1 DEF TypeOK
    <3> QED
      BY <1>11, <2>3, <3>2, <3>3, <3>4 DEF LeaseDue, TypeOK
  <2>5. CASE ~IsUnchanged(id, snapshot[id])
    BY <1>11, <2>3, <2>5 DEF LeaseDue, TypeOK
  <2> QED
    BY <2>4, <2>5
<1>12. ASSUME NEW id \in Ids, LeaseSkips(id)
       PROVE  TypeOK'
  BY <1>12, NoOperationType DEF LeaseSkips, Passed, TypeOK
<1>13. CASE EndLeasing
  <2>1. snapshot' \in [Ids -> Operations]
    BY <1>13, NoOperationType DEF EndLeasing
  <2>2. room' \in 0 .. MaxConcurrent
    BY <1>13 DEF EndLeasing
  <2>3. leasing' \in BOOLEAN
    BY <1>13 DEF EndLeasing
  <2> QED
    BY <1>13, <2>1, <2>2, <2>3 DEF EndLeasing, TypeOK
<1>14. ASSUME NEW k \in Deletions, BeginDelete(k)
       PROVE  TypeOK'
  BY <1>0, <1>14 DEF BeginDelete, IsGone, TypeOK
<1>15. ASSUME NEW k \in Deletions, DeleteActive(k) \/ DeleteInactive(k)
       PROVE  TypeOK'
  <2> DEFINE d == target[k]
  <2>1. d \in Destinations
    BY DEF TypeOK
  <2>2. /\ IndexWithout(d) \in [Destinations -> 0 .. MaxRequests]
        /\ [active EXCEPT ![d] = 0] \in [Destinations -> 0 .. MaxRequests]
        /\ active \in [Destinations -> 0 .. MaxRequests]
    BY DEF IndexWithout, TypeOK
  <2>3. /\ operation' \in [Ids -> Operations]
        /\ index' \in [Destinations -> 0 .. MaxRequests]
        /\ active' \in [Destinations -> 0 .. MaxRequests]
        /\ absent' \in [Deletions -> BOOLEAN]
    BY <1>15, <2>1, <2>2, CommitType, WithoutPendingType DEF DeleteActive, DeleteInactive, TypeOK
  <2>4. deletion' \in [Deletions -> DeletionPhases]
    BY <1>0, <1>15 DEF DeleteActive, DeleteInactive, TypeOK
  <2> QED
    BY <1>15, <2>3, <2>4 DEF DeleteActive, DeleteInactive, TypeOK
<1>16. CASE Restart
  <2>1. attempt' \in [Ids -> [Leases -> AttemptPhases]]
    BY <1>0, <1>16 DEF Restart, TypeOK
  <2>2. deletion' \in [Deletions -> DeletionPhases]
    BY <1>0, <1>16 DEF Restart, TypeOK
  <2>3. /\ copy' \in [Ids -> [Leases -> Operations]]
        /\ snapshot' \in [Ids -> Operations]
    BY <1>16, NoOperationType DEF Restart
  <2>4. room' \in 0 .. MaxConcurrent /\ crashes' \in 0 .. MaxCrashes
    BY <1>16 DEF Restart, TypeOK
  <2>6. leasing' \in BOOLEAN
    BY <1>16 DEF Restart
  <2>5. UNCHANGED <<storeVars, target, destination, sends, takeovers, absent>>
    BY <1>16 DEF Restart
  <2> QED
    BY <2>1, <2>2, <2>3, <2>4, <2>5, <2>6 DEF TypeOK
<1>17. CASE UNCHANGED vars
  BY <1>17 DEF vars, TypeOK
<1> QED
  BY <1>1, <1>2, <1>3, <1>4, <1>5, <1>6, <1>7, <1>8, <1>9, <1>10, <1>11, <1>12, <1>13, <1>14,
     <1>15, <1>16, <1>17 DEF Next, RequestStep, AttemptStep

LEMMA WithoutPendingAt ==
  ASSUME TypeOK, NEW d \in Destinations, NEW i \in Ids
  PROVE  WithoutPending(d)[i] = IF index[d] = i THEN NoOperation ELSE operation[i]
BY DEF WithoutPending, TypeOK, Ids

LEMMA NoOperationState == NoOperation.state = "none" /\ \A g, n : Leased(g, n).state = "leased"
BY DEF NoOperation, Leased

-----------------------------------------------------------------------------
(* What the steps do to the store *)

StoreUpdated(id, o) ==
  /\ Exists(id)
  /\ o.state # "none"
  /\ operation' = [operation EXCEPT ![id] = o]
  /\ UNCHANGED <<last, index, active>>

StoreRemoved(id, a) ==
  /\ Exists(id)
  /\ operation' = [operation EXCEPT ![id] = NoOperation]
  /\ index' = [index EXCEPT ![destination[id]] = 0]
  /\ active' = a
  /\ UNCHANGED last

StoreCleared(d, a) ==
  /\ operation' = WithoutPending(d)
  /\ index' = [index EXCEPT ![d] = 0]
  /\ active' = a
  /\ UNCHANGED last

StoreBegun(id) ==
  LET d == destination[id] IN
  /\ id = last + 1
  /\ last' = id
  /\ operation' = [WithoutPending(d) EXCEPT ![id] = Leased(1, 0)]
  /\ index' = [index EXCEPT ![d] = id]
  /\ UNCHANGED active

(* Every step changes the store in one of these ways, and only as long as  *)
(* the operation it is about exists.                                       *)
LEMMA StoreSteps ==
  ASSUME TypeOK, [Next]_vars
  PROVE  /\ UNCHANGED destination
         /\ \/ UNCHANGED storeVars
            \/ \E id \in Ids : StoreBegun(id)
            \/ \E id \in Ids : \E o : StoreUpdated(id, o)
            \/ \E id \in Ids : StoreRemoved(id, active)
            \/ \E id \in Ids : /\ index[destination[id]] = id
                               /\ StoreRemoved(id, [active EXCEPT ![destination[id]] = id])
            \/ \E d \in Destinations : index[d] # 0 /\ StoreCleared(d, active)
            \/ \E d \in Destinations : StoreCleared(d, [active EXCEPT ![d] = 0])
<1> USE DEF storeVars, observed
<1>1. CASE Begin
  BY <1>1 DEF Begin, Commit, StoreBegun
<1>2. CASE StoreKept
  BY <1>2 DEF StoreKept, RenewRead, Disconnect, LeaseSkips, StartLeased, Answer, Expire,
     BeginLeasing, EndLeasing, BeginDelete, Restart
<1>3. ASSUME NEW id \in Ids, Renew(id)
      PROVE  /\ UNCHANGED destination
             /\ UNCHANGED storeVars \/ StoreUpdated(id, Renewed(operation[id]))
  BY <1>3 DEF Renew, IsUnchanged, Exists, StoreUpdated, Renewed
<1>4. ASSUME NEW id \in Ids, NEW g \in Leases, Activate(id, g)
      PROVE  /\ UNCHANGED destination
             /\ \/ UNCHANGED storeVars
                \/ /\ index[destination[id]] = id
                   /\ StoreRemoved(id, [active EXCEPT ![destination[id]] = id])
  BY <1>4 DEF Activate, IsUnchanged, Commit, StoreRemoved
<1>5. ASSUME NEW id \in Ids, NEW g \in Leases, Reschedule(id, g)
      PROVE  /\ UNCHANGED destination
             /\ UNCHANGED storeVars \/ StoreUpdated(id, Rescheduled(operation[id]))
  BY <1>5 DEF Reschedule, IsUnchanged, StoreUpdated, Rescheduled
<1>6. ASSUME NEW id \in Ids, NEW g \in Leases, Abandon(id, g)
      PROVE  UNCHANGED destination /\ (UNCHANGED storeVars \/ StoreRemoved(id, active))
  BY <1>6 DEF Abandon, IsUnchanged, Remove, Commit, StoreRemoved
<1>7. ASSUME NEW id \in Ids, LeaseExpires(id)
      PROVE  UNCHANGED destination /\ (UNCHANGED storeVars \/ StoreRemoved(id, active))
  BY <1>7 DEF LeaseExpires, IsUnchanged, Remove, Commit, StoreRemoved
<1>8. ASSUME NEW id \in Ids, LeaseDue(id)
      PROVE  /\ UNCHANGED destination
             /\ \/ UNCHANGED storeVars
                \/ StoreUpdated(id, Leased(snapshot[id].lease + 1, snapshot[id].attempts))
  BY <1>8 DEF LeaseDue, IsUnchanged, StoreUpdated, Leased
<1>9. ASSUME NEW k \in Deletions, DeleteActive(k)
      PROVE  /\ UNCHANGED destination
             /\ StoreCleared(target[k], [active EXCEPT ![target[k]] = 0])
  BY <1>9 DEF DeleteActive, Commit, IndexWithout, StoreCleared
<1>10. ASSUME NEW k \in Deletions, DeleteInactive(k)
       PROVE  /\ UNCHANGED destination
              /\ \/ UNCHANGED storeVars
                 \/ index[target[k]] # 0 /\ StoreCleared(target[k], active)
  BY <1>10 DEF DeleteInactive, Commit, IndexWithout, StoreCleared
<1>11. CASE UNCHANGED vars
  BY <1>11 DEF vars
<1>12. \A k \in Deletions : target[k] \in Destinations
  BY DEF TypeOK
<1>13. CASE \E id \in Ids : Renew(id) \/ LeaseExpires(id) \/ LeaseDue(id)
  BY <1>3, <1>7, <1>8, <1>13
<1>14. CASE \E id \in Ids, g \in Leases : Activate(id, g) \/ Reschedule(id, g) \/ Abandon(id, g)
  BY <1>4, <1>5, <1>6, <1>14
<1>15. CASE \E k \in Deletions : DeleteActive(k) \/ DeleteInactive(k)
  BY <1>9, <1>10, <1>12, <1>15
<1> QED
  BY <1>1, <1>2, <1>11, <1>13, <1>14, <1>15, NextCases

-----------------------------------------------------------------------------
(* The destination index *)

(* d's index entry becomes n, and n the only operation for d.              *)
LEMMA IndexKept ==
  ASSUME TypeOK, IndexMatches, UNCHANGED destination,
         NEW d \in Destinations, NEW n \in 0 .. MaxRequests,
         n # 0 => destination[n] = d,
         index' = [index EXCEPT ![d] = n],
         \A i \in Ids : Exists(i)' <=> i = n \/ (Exists(i) /\ index[d] # i)
  PROVE  IndexMatches'
<1>1. /\ destination \in [Ids -> Destinations]
      /\ index \in [Destinations -> 0 .. MaxRequests]
      /\ \A m \in 0 .. MaxRequests : m # 0 => m \in Ids
      /\ 0 \notin Ids
  BY DEF TypeOK, Ids
<1>2. ASSUME NEW i \in Ids, Exists(i)'
      PROVE  index'[destination[i]] = i
  <2>1. CASE i = n
    BY <1>1, <2>1
  <2>2. CASE i # n
    <3>1. Exists(i) /\ index[d] # i /\ index[destination[i]] = i
      BY <1>2, <2>2 DEF IndexMatches
    <3> QED
      BY <1>1, <3>1
  <2> QED
    BY <2>1, <2>2
<1>3. ASSUME NEW e \in Destinations, index'[e] # 0
      PROVE  Exists(index[e])' /\ destination'[index'[e]] = e
  <2>1. CASE e = d
    <3>1. index'[e] = n /\ n \in Ids
      BY <1>1, <1>3, <2>1
    <3>2. operation'[n].state # "none"
      BY <3>1 DEF Exists
    <3>3. destination'[n] = e
      BY <1>1, <2>1, <3>1
    <3> QED
      BY <3>1, <3>2, <3>3 DEF Exists
  <2>2. CASE e # d
    <3>1. index'[e] = index[e] /\ index[e] \in Ids
      BY <1>1, <1>3, <2>2
    <3>2. Exists(index[e]) /\ destination[index[e]] = e
      BY <1>3, <3>1 DEF IndexMatches
    <3>3. index[d] # index[e]
      BY <1>1, <2>2, <3>1, <3>2 DEF IndexMatches
    <3>4. Exists(index[e])'
      BY <3>1, <3>2, <3>3
    <3> QED
      BY <3>1, <3>2, <3>4 DEF Exists
  <2> QED
    BY <2>1, <2>2
<1> QED
  BY <1>2, <1>3 DEF IndexMatches

LEMMA IndexStep ==
  ASSUME TypeOK, IndexMatches, [Next]_vars
  PROVE  IndexMatches'
<1>0. UNCHANGED destination
  BY StoreSteps
<1>1. CASE UNCHANGED storeVars
  BY <1>0, <1>1 DEF storeVars, IndexMatches, Exists
<1>2. ASSUME NEW id \in Ids, StoreBegun(id)
      PROVE  IndexMatches'
  <2> DEFINE d == destination[id]
  <2>1. d \in Destinations /\ id \in 0 .. MaxRequests
    BY DEF TypeOK, Ids
  <2>2. ASSUME NEW i \in Ids
        PROVE  Exists(i)' <=> i = id \/ (Exists(i) /\ index[d] # i)
    <3>1. operation'[i] = IF i = id THEN Leased(1, 0)
                          ELSE IF index[d] = i THEN NoOperation ELSE operation[i]
      BY <1>2, <2>1, WithoutPendingAt, WithoutPendingType DEF StoreBegun
    <3> QED
      BY <3>1, NoOperationState DEF Exists
  <2> QED
    BY <1>0, <1>2, <2>1, <2>2, IndexKept DEF StoreBegun
<1>3. ASSUME NEW id \in Ids, NEW o, StoreUpdated(id, o)
      PROVE  IndexMatches'
  <2>1. \A i \in Ids : Exists(i)' <=> Exists(i)
    BY <1>3 DEF StoreUpdated, Exists, TypeOK
  <2>2. \A d \in Destinations : index[d] # 0 => index[d] \in Ids
    BY DEF TypeOK, Ids
  <2> QED
    BY <1>0, <1>3, <2>1, <2>2 DEF StoreUpdated, IndexMatches
<1>4. ASSUME NEW id \in Ids, NEW a, StoreRemoved(id, a)
      PROVE  IndexMatches'
  <2> DEFINE d == destination[id]
  <2>1. d \in Destinations /\ index[d] = id /\ 0 \in 0 .. MaxRequests /\ 0 \notin Ids
    BY <1>4 DEF TypeOK, StoreRemoved, IndexMatches, Ids
  <2>2. ASSUME NEW i \in Ids
        PROVE  Exists(i)' <=> i = 0 \/ (Exists(i) /\ index[d] # i)
    <3>1. operation'[i] = IF i = id THEN NoOperation ELSE operation[i]
      BY <1>4 DEF StoreRemoved, TypeOK
    <3> QED
      BY <2>1, <3>1, NoOperationState DEF Exists
  <2> QED
    BY <1>0, <1>4, <2>1, <2>2, IndexKept DEF StoreRemoved
<1>5. ASSUME NEW d \in Destinations, NEW a, StoreCleared(d, a)
      PROVE  IndexMatches'
  <2>1. 0 \in 0 .. MaxRequests /\ 0 \notin Ids
    BY DEF Ids
  <2>2. ASSUME NEW i \in Ids
        PROVE  Exists(i)' <=> i = 0 \/ (Exists(i) /\ index[d] # i)
    <3>1. operation'[i] = IF index[d] = i THEN NoOperation ELSE operation[i]
      BY <1>5, WithoutPendingAt DEF StoreCleared
    <3> QED
      BY <2>1, <3>1, NoOperationState DEF Exists
  <2> QED
    BY <1>0, <1>5, <2>1, <2>2, IndexKept DEF StoreCleared
<1> QED
  BY <1>1, <1>2, <1>3, <1>4, <1>5, StoreSteps

-----------------------------------------------------------------------------
(* What is active *)

LEMMA NotYetActiveStep ==
  ASSUME TypeOK, Unborn, NotYetActive, [Next]_vars
  PROVE  NotYetActive'
<1>0. UNCHANGED destination
  BY StoreSteps
<1>1. CASE UNCHANGED storeVars
  BY <1>0, <1>1 DEF storeVars, NotYetActive, Exists
<1>2. ASSUME NEW id \in Ids, StoreBegun(id)
      PROVE  NotYetActive'
  <2>1. \A i \in Ids : Exists(i)' => i = id \/ Exists(i)
    BY <1>2, WithoutPendingType
    DEF StoreBegun, WithoutPending, Exists, NoOperation, TypeOK, Ids
  <2>2. /\ active' = active /\ last' = last + 1 /\ id = last + 1
        /\ last \in Int /\ active \in [Destinations -> Int]
        /\ destination \in [Ids -> Destinations]
    BY <1>2 DEF StoreBegun, TypeOK
  <2>3. \A d \in Destinations : active[d] <= last'
    BY <2>2 DEF NotYetActive
  <2>4. active[destination[id]] # id
    BY <2>2 DEF NotYetActive
  <2> QED
    BY <1>0, <2>1, <2>2, <2>3, <2>4 DEF NotYetActive
<1>3. ASSUME NEW id \in Ids, NEW o, StoreUpdated(id, o)
      PROVE  NotYetActive'
  BY <1>0, <1>3 DEF StoreUpdated, NotYetActive, Exists, TypeOK
<1>4. ASSUME NEW id \in Ids, StoreRemoved(id, active)
      PROVE  NotYetActive'
  BY <1>0, <1>4 DEF StoreRemoved, NotYetActive, Exists, NoOperation, TypeOK
<1>5. ASSUME NEW id \in Ids, StoreRemoved(id, [active EXCEPT ![destination[id]] = id])
      PROVE  NotYetActive'
  <2>1. id <= last
    BY <1>5 DEF StoreRemoved, Unborn, TypeOK, Ids
  <2>2. \A i \in Ids : Exists(i)' => Exists(i) /\ i # id
    BY <1>5 DEF StoreRemoved, Exists, NoOperation, TypeOK
  <2> QED
    BY <1>0, <1>5, <2>1, <2>2 DEF StoreRemoved, NotYetActive, TypeOK
<1>6. ASSUME NEW d \in Destinations,
             StoreCleared(d, active) \/ StoreCleared(d, [active EXCEPT ![d] = 0])
      PROVE  NotYetActive'
  <2>1. \A i \in Ids : Exists(i)' => Exists(i)
    <3>1. \A i \in Ids : operation'[i] = NoOperation \/ operation'[i] = operation[i]
      BY <1>6, WithoutPendingAt DEF StoreCleared
    <3> QED
      BY <3>1, NoOperationState DEF Exists
  <2>2. \A e \in Destinations : active'[e] = active[e] \/ active'[e] = 0
    BY <1>6 DEF StoreCleared, TypeOK
  <2>3. last' = last /\ last \in Nat /\ 0 \notin Ids /\ destination \in [Ids -> Destinations]
    BY <1>6 DEF StoreCleared, TypeOK, Ids
  <2> QED
    BY <1>0, <2>1, <2>2, <2>3 DEF NotYetActive
<1> QED
  BY <1>1, <1>2, <1>3, <1>4, <1>5, <1>6, StoreSteps

-----------------------------------------------------------------------------
(* Requests not made yet *)

LEMMA AttemptOf ==
  ASSUME TypeOK, NEW id \in Ids, NEW g \in Leases, NEW p, Moves(id, g, p),
         NEW i \in Ids, NEW h \in Leases
  PROVE  attempt'[i][h] = IF i = id /\ h = g THEN p ELSE attempt[i][h]
BY DEF Moves, TypeOK

LEMMA UnbornStep ==
  ASSUME TypeOK, IndexMatches, Unborn, [Next]_vars
  PROVE  Unborn'
<1> USE DEF storeVars, attemptVars, observed
<1> SUFFICES ASSUME NEW i \in Ids, i > last'
             PROVE  /\ ~Exists(i)'
                    /\ \A h \in Leases : attempt'[i][h] = "none"
                    /\ sends'[i] = 0
                    /\ takeovers'[i] = 0
  BY DEF Unborn
<1>1. i > last
  <2>1. last' = last \/ last' = last + 1
    BY StoreSteps DEF StoreBegun, StoreUpdated, StoreRemoved, StoreCleared
  <2> QED
    BY <2>1 DEF TypeOK, Ids
<1>2. /\ ~Exists(i)
      /\ \A h \in Leases : attempt[i][h] = "none"
      /\ sends[i] = 0
      /\ takeovers[i] = 0
  BY <1>1 DEF Unborn
<1>3. ~Exists(i)'
  <2>1. ASSUME NEW id \in Ids, StoreBegun(id)
        PROVE  ~Exists(i)'
    <3>1. i # id /\ destination[id] \in Destinations
      BY <2>1 DEF StoreBegun, TypeOK, Ids
    <3>2. operation'[i] = NoOperation \/ operation'[i] = operation[i]
      BY <2>1, <3>1, WithoutPendingAt, WithoutPendingType DEF StoreBegun
    <3> QED
      BY <1>2, <3>2, NoOperationState DEF Exists
  <2>2. ASSUME NEW id \in Ids, NEW o, StoreUpdated(id, o)
        PROVE  ~Exists(i)'
    BY <1>2, <2>2 DEF StoreUpdated, Exists, TypeOK
  <2>3. ASSUME NEW id \in Ids, NEW a, StoreRemoved(id, a)
        PROVE  ~Exists(i)'
    BY <1>2, <2>3 DEF StoreRemoved, Exists, TypeOK
  <2>4. ASSUME NEW d \in Destinations, NEW a, StoreCleared(d, a)
        PROVE  ~Exists(i)'
    <3>1. operation'[i] = NoOperation \/ operation'[i] = operation[i]
      BY <2>4, WithoutPendingAt DEF StoreCleared
    <3> QED
      BY <1>2, <3>1, NoOperationState DEF Exists
  <2>5. CASE UNCHANGED storeVars
    BY <1>2, <2>5 DEF Exists
  <2> QED
    BY <2>1, <2>2, <2>3, <2>4, <2>5, StoreSteps
<1>4. \A h \in Leases : attempt'[i][h] = "none" /\ sends'[i] = 0 /\ takeovers'[i] = 0
  <2> SUFFICES ASSUME NEW h \in Leases
               PROVE  attempt'[i][h] = "none" /\ sends'[i] = 0 /\ takeovers'[i] = 0
    OBVIOUS
  <2>0. 1 \in Leases
    BY DEF Leases
  <2>1. CASE Begin
    BY <1>1, <1>2, <2>0, <2>1 DEF Begin, TypeOK, Ids
  <2>2. ASSUME NEW id \in Ids, NEW g \in Leases, attempt[id][g] # "none",
               \E p : Moves(id, g, p), UNCHANGED takeovers,
               UNCHANGED sends \/ sends' = [sends EXCEPT ![id] = @ + 1]
        PROVE  attempt'[i][h] = "none" /\ sends'[i] = 0 /\ takeovers'[i] = 0
    BY <1>2, <2>2 DEF Moves, TypeOK
  <2>3. ASSUME NEW id \in Ids, RenewRead(id) \/ Renew(id) \/ Disconnect(id)
        PROVE  attempt'[i][h] = "none" /\ sends'[i] = 0 /\ takeovers'[i] = 0
    BY <2>0, <2>2, <2>3 DEF RenewRead, Renew, Disconnect, Ends, Send
  <2>4. ASSUME NEW id \in Ids, NEW g \in Leases, AttemptStep(id, g) \/ Expire(id, g)
        PROVE  attempt'[i][h] = "none" /\ sends'[i] = 0 /\ takeovers'[i] = 0
    BY <2>2, <2>4 DEF AttemptStep, StartLeased, Answer, Expire, Activate, Reschedule, Abandon,
       ReadForSwap, Ends, Send
  <2>5. ASSUME NEW id \in Ids, LeaseDue(id)
        PROVE  attempt'[i][h] = "none" /\ sends'[i] = 0 /\ takeovers'[i] = 0
    <3>1. CASE IsUnchanged(id, snapshot[id])
      <4>1. id # i
        BY <1>2, <3>1 DEF IsUnchanged
      <4> QED
        BY <1>2, <2>5, <3>1, <4>1 DEF LeaseDue, Moves, TypeOK
    <3>2. CASE ~IsUnchanged(id, snapshot[id])
      BY <1>2, <2>5, <3>2 DEF LeaseDue
    <3> QED
      BY <3>1, <3>2
  <2>6. CASE Restart
    BY <1>2, <2>6 DEF Restart, Unfinished, Swaps
  <2>7. CASE UNCHANGED <<attempt, sends, takeovers>>
    BY <1>2, <2>7
  <2>8. ASSUME NEW id \in Ids, LeaseExpires(id) \/ LeaseSkips(id)
        PROVE  UNCHANGED <<attempt, sends, takeovers>>
    BY <2>8 DEF LeaseExpires, LeaseSkips
  <2>9. ASSUME NEW k \in Deletions, BeginDelete(k) \/ DeleteActive(k) \/ DeleteInactive(k)
        PROVE  UNCHANGED <<attempt, sends, takeovers>>
    BY <2>9 DEF BeginDelete, DeleteActive, DeleteInactive
  <2>10. CASE BeginLeasing \/ EndLeasing \/ UNCHANGED vars
    BY <2>7, <2>10 DEF BeginLeasing, EndLeasing, vars
  <2> QED
    BY <2>1, <2>3, <2>4, <2>5, <2>6, <2>7, <2>8, <2>9, <2>10 DEF Next, RequestStep
<1>5. sends'[i] = 0 /\ takeovers'[i] = 0
  BY <1>4 DEF Leases
<1> QED
  BY <1>3, <1>4, <1>5

-----------------------------------------------------------------------------
(* The attempts an attempt knows *)

(* What AttemptsKnown says of one request.                                 *)
KnowsAttempts(id) ==
  /\ Exists(id) => operation[id].lease >= 1
  /\ operation[id].lease = 1 /\ operation[id].state = "leased" => operation[id].attempts = 0
  /\ \A g \in Leases :
       /\ attempt[id][g] \in {"starting", "sending"} /\ HasToken(id, g) =>
            operation[id].attempts = copy[id][g].attempts
       /\ attempt[id][g] = "rescheduling" =>
            MayRetry(copy[id][g].attempts) /\ copy[id][g].state = "leased"

(* Nothing else about a request matters than its record, attempts, copies. *)
LEMMA KnowsKept ==
  ASSUME NEW i \in Ids, KnowsAttempts(i), operation'[i] = operation[i],
         attempt'[i] = attempt[i], copy'[i] = copy[i]
  PROVE  KnowsAttempts(i)'
BY DEF KnowsAttempts, Exists, HasToken, MayRetry

(* A record that is gone, or not leased, leaves only the copies to check.  *)
LEMMA KnowsUnleased ==
  ASSUME NEW i \in Ids, KnowsAttempts(i), operation'[i].state # "leased",
         Exists(i)' => operation'[i].lease = operation[i].lease /\ Exists(i),
         \A g \in Leases : attempt'[i][g] = "rescheduling" =>
                            attempt[i][g] = "rescheduling" /\ copy'[i][g] = copy[i][g]
  PROVE  KnowsAttempts(i)'
BY DEF KnowsAttempts, Exists, HasToken, MayRetry

(* An attempt that moves to a phase other than these knows nothing new.    *)
LEMMA KnowsMoved ==
  ASSUME TypeOK, NEW i \in Ids, KnowsAttempts(i), operation'[i] = operation[i],
         NEW g \in Leases, NEW p, Moves(i, g, p),
         \A h \in Leases \ {g} : copy'[i][h] = copy[i][h],
         p \in {"starting", "sending"} /\ HasToken(i, g) =>
            operation[i].attempts = copy'[i][g].attempts,
         p = "rescheduling" => MayRetry(copy'[i][g].attempts) /\ copy'[i][g].state = "leased"
  PROVE  KnowsAttempts(i)'
<1>1. \A h \in Leases : attempt'[i][h] = IF h = g THEN p ELSE attempt[i][h]
  BY AttemptOf
<1> QED
  BY <1>1 DEF KnowsAttempts, Exists, HasToken, MayRetry

LEMMA KnowsStep ==
  ASSUME TypeOK, IndexMatches, Unborn, AttemptsKnown, [Next]_vars
  PROVE  AttemptsKnown'
<1> USE DEF storeVars, attemptVars, observed
<1> SUFFICES ASSUME NEW i \in Ids
             PROVE  KnowsAttempts(i)'
  BY DEF KnowsAttempts, AttemptsKnown
<1>0. KnowsAttempts(i) /\ 1 \in Leases /\ \A id \in Ids : KnowsAttempts(id)
  BY DEF KnowsAttempts, AttemptsKnown, Leases
<1>1. CASE Begin
  <2> DEFINE id == last + 1
  <2>1. /\ id \in Ids /\ StoreBegun(id) /\ copy' = copy
        /\ attempt' = [attempt EXCEPT ![id][1] = "waiting"]
        /\ destination[id] \in Destinations
    BY <1>1 DEF Begin, Commit, StoreBegun, TypeOK
  <2>2. CASE i = id
    <3>1. operation'[i] = Leased(1, 0)
      BY <2>1, <2>2, WithoutPendingType DEF StoreBegun
    <3>2. \A g \in Leases : attempt'[i][g] = IF g = 1 THEN "waiting" ELSE "none"
      <4>1. i > last
        BY <2>2 DEF TypeOK
      <4> QED
        BY <2>1, <2>2, <4>1 DEF Unborn, TypeOK
    <3> QED
      BY <3>1, <3>2 DEF KnowsAttempts, Leased
  <2>3. CASE i # id
    <3>1. attempt'[i] = attempt[i] /\ copy'[i] = copy[i]
      BY <2>1, <2>3 DEF TypeOK
    <3>2. operation'[i] = NoOperation \/ operation'[i] = operation[i]
      BY <2>1, <2>3, WithoutPendingAt, WithoutPendingType DEF StoreBegun
    <3> QED
      BY <1>0, <3>1, <3>2, KnowsKept, KnowsUnleased, NoOperationState DEF Exists
  <2> QED
    BY <2>2, <2>3
<1>2. ASSUME NEW id \in Ids, RenewRead(id) \/ Disconnect(id)
      PROVE  KnowsAttempts(i)'
  <2>1. operation' = operation
    BY <1>2 DEF RenewRead, Disconnect
  <2>2. PICK p \in {"renewing", "Ended"} :
          /\ Moves(id, 1, p)
          /\ \E o : copy' = [copy EXCEPT ![id][1] = o]
    BY <1>2 DEF RenewRead, Disconnect, Ends
  <2>3. CASE i = id
    <3>1. \A h \in Leases \ {1} : copy'[i][h] = copy[i][h]
      BY <2>2, <2>3 DEF TypeOK
    <3> QED
      BY <1>0, <2>1, <2>2, <2>3, <3>1, KnowsMoved
  <2>4. CASE i # id
    <3>1. attempt'[i] = attempt[i] /\ copy'[i] = copy[i]
      BY <2>2, <2>4 DEF Moves, TypeOK
    <3> QED
      BY <1>0, <2>1, <3>1, KnowsKept
  <2> QED
    BY <2>3, <2>4
<1>3. ASSUME NEW id \in Ids, Renew(id)
      PROVE  KnowsAttempts(i)'
  <2>1. /\ copy' = [copy EXCEPT ![id][1] = NoOperation]
        /\ \/ /\ operation' = [operation EXCEPT ![id] = Renewed(operation[id])]
              /\ Exists(id) /\ Moves(id, 1, "sending")
           \/ operation' = operation /\ Moves(id, 1, "Ended")
    BY <1>3 DEF Renew, IsUnchanged, Send
  <2>2. CASE i = id
    <3>1. \A h \in Leases : copy'[i][h] = IF h = 1 THEN NoOperation ELSE copy[i][h]
      BY <2>1, <2>2 DEF TypeOK
    <3>2. \/ operation'[i] = operation[i]
          \/ operation'[i] = Renewed(operation[i]) /\ Exists(i)
      BY <2>1, <2>2 DEF TypeOK
    <3>3. /\ operation'[i].state = operation[i].state
          /\ operation'[i].lease = operation[i].lease
          /\ operation'[i].attempts = operation[i].attempts
      BY <3>2 DEF Renewed
    <3>4. \A h \in Leases : IF h = 1 THEN attempt'[i][h] \in {"sending", "Ended"}
                             ELSE attempt'[i][h] = attempt[i][h]
      BY <1>0, <2>1, <2>2, AttemptOf
    <3>5. NoOperation.attempts = 0
      BY DEF NoOperation
    <3> QED
      BY <1>0, <3>1, <3>3, <3>4, <3>5 DEF KnowsAttempts, Exists, HasToken, MayRetry
  <2>3. CASE i # id
    <3>1. attempt'[i] = attempt[i] /\ copy'[i] = copy[i] /\ operation'[i] = operation[i]
      BY <2>1, <2>3 DEF Moves, TypeOK
    <3> QED
      BY <1>0, <3>1, KnowsKept
  <2> QED
    BY <2>2, <2>3
<1>4. ASSUME NEW id \in Ids, NEW g \in Leases, StartLeased(id, g)
      PROVE  KnowsAttempts(i)'
  <2>1. /\ operation' = operation /\ copy' = copy
        /\ attempt[id][g] = "starting" /\ Moves(id, g, "sending")
    BY <1>4 DEF StartLeased, Send
  <2>2. CASE i = id
    <3>1. HasToken(i, g) => operation[i].attempts = copy[i][g].attempts
      BY <1>0, <2>1, <2>2 DEF KnowsAttempts
    <3> QED
      BY <1>0, <2>1, <2>2, <3>1, KnowsMoved
  <2>3. CASE i # id
    <3>1. attempt'[i] = attempt[i]
      BY <2>1, <2>3 DEF Moves, TypeOK
    <3> QED
      BY <1>0, <2>1, <3>1, KnowsKept
  <2> QED
    BY <2>2, <2>3
<1>5. ASSUME NEW id \in Ids, NEW g \in Leases, Answer(id, g) \/ Expire(id, g)
      PROVE  KnowsAttempts(i)'
  <2>1. PICK swap \in Swaps :
          /\ ReadForSwap(id, g, swap)
          /\ operation' = operation
          /\ swap = "rescheduling" =>
               attempt[id][g] = "sending" /\ MayRetry(copy[id][g].attempts)
    BY <1>5 DEF Answer, Expire, Swaps
  <2>2. CASE i = id
    <3>1. CASE HasToken(id, g)
      <4>1. Moves(id, g, swap) /\ copy' = [copy EXCEPT ![id][g] = operation[id]]
        BY <2>1, <3>1 DEF ReadForSwap
      <4>2. \A h \in Leases : copy'[i][h] = IF h = g THEN operation[id] ELSE copy[i][h]
        BY <2>2, <4>1 DEF TypeOK
      <4>3. swap = "rescheduling" =>
              MayRetry(copy'[i][g].attempts) /\ copy'[i][g].state = "leased"
        <5>1. swap = "rescheduling" => operation[id].attempts = copy[id][g].attempts
          BY <1>0, <2>1, <3>1 DEF KnowsAttempts
        <5> QED
          BY <2>1, <2>2, <3>1, <4>2, <5>1 DEF MayRetry, HasToken
      <4>4. swap \notin {"starting", "sending"}
        BY DEF Swaps
      <4> QED
        BY <1>0, <2>1, <2>2, <4>1, <4>2, <4>3, <4>4, KnowsMoved
    <3>2. CASE ~HasToken(id, g)
      <4>1. Moves(id, g, "Ended") /\ copy' = [copy EXCEPT ![id][g] = NoOperation]
        BY <2>1, <3>2 DEF ReadForSwap, Ends
      <4>2. \A h \in Leases \ {g} : copy'[i][h] = copy[i][h]
        BY <2>2, <4>1 DEF TypeOK
      <4> QED
        BY <1>0, <2>1, <2>2, <4>1, <4>2, KnowsMoved
    <3> QED
      BY <3>1, <3>2
  <2>3. CASE i # id
    <3>1. attempt'[i] = attempt[i] /\ copy'[i] = copy[i]
      BY <2>1, <2>3 DEF ReadForSwap, Ends, Moves, TypeOK
    <3> QED
      BY <1>0, <2>1, <3>1, KnowsKept
  <2> QED
    BY <2>2, <2>3
<1>6. ASSUME NEW id \in Ids, NEW g \in Leases,
             Activate(id, g) \/ Reschedule(id, g) \/ Abandon(id, g)
      PROVE  KnowsAttempts(i)'
  <2>1. PICK p \in {"Activated", "Rejected", "Ended"} : Ends(id, g, p)
    BY <1>6 DEF Activate, Reschedule, Abandon
  <2>2. \/ operation' = operation
        \/ operation' = [operation EXCEPT ![id] = NoOperation]
        \/ operation' = [operation EXCEPT ![id] = Rescheduled(operation[id])] /\ Exists(id)
    BY <1>6 DEF Activate, Reschedule, Abandon, Remove, IsUnchanged
  <2>3. CASE i = id
    <3>1. \A h \in Leases :
            /\ attempt'[i][h] = IF h = g THEN p ELSE attempt[i][h]
            /\ copy'[i][h] = IF h = g THEN NoOperation ELSE copy[i][h]
      BY <2>1, <2>3, AttemptOf DEF Ends, TypeOK
    <3>2. \A h \in Leases : attempt'[i][h] = "rescheduling" =>
             attempt[i][h] = "rescheduling" /\ copy'[i][h] = copy[i][h]
      BY <3>1
    <3>3. CASE operation' = operation
      <4>1. /\ Moves(i, g, p)
            /\ \A h \in Leases \ {g} : copy'[i][h] = copy[i][h]
        BY <2>1, <2>3, <3>1 DEF Ends
      <4> QED
        BY <1>0, <3>3, <4>1, KnowsMoved
    <3>4. CASE operation' = [operation EXCEPT ![id] = NoOperation]
      <4>1. operation'[i] = NoOperation
        BY <2>3, <3>4 DEF TypeOK
      <4> QED
        BY <1>0, <3>2, <4>1, KnowsUnleased, NoOperationState DEF Exists
    <3>5. CASE operation' = [operation EXCEPT ![id] = Rescheduled(operation[id])] /\ Exists(id)
      <4>1. operation'[i] = Rescheduled(operation[i]) /\ Exists(i)
        BY <2>3, <3>5 DEF TypeOK
      <4>2. operation'[i].state # "leased" /\ operation'[i].lease = operation[i].lease
        BY <4>1 DEF Rescheduled
      <4> QED
        BY <1>0, <3>2, <4>1, <4>2, KnowsUnleased
    <3> QED
      BY <2>2, <3>3, <3>4, <3>5
  <2>4. CASE i # id
    <3>1. attempt'[i] = attempt[i] /\ copy'[i] = copy[i] /\ operation'[i] = operation[i]
      BY <2>1, <2>2, <2>4 DEF Ends, Moves, TypeOK
    <3> QED
      BY <1>0, <3>1, KnowsKept
  <2> QED
    BY <2>3, <2>4
<1>7. ASSUME NEW id \in Ids, LeaseExpires(id)
      PROVE  KnowsAttempts(i)'
  <2>1. attempt' = attempt /\ copy' = copy
    BY <1>7 DEF LeaseExpires
  <2>2. operation'[i] = operation[i] \/ operation'[i] = NoOperation
    BY <1>7 DEF LeaseExpires, Remove, TypeOK
  <2> QED
    BY <1>0, <2>1, <2>2, KnowsKept, KnowsUnleased, NoOperationState DEF Exists
<1>8. ASSUME NEW id \in Ids, LeaseDue(id)
      PROVE  KnowsAttempts(i)'
  <2> DEFINE g == snapshot[id].lease + 1
             next == Leased(g, snapshot[id].attempts)
  <2>1. g \in Leases
    BY <1>8 DEF LeaseDue
  <2>2. CASE IsUnchanged(id, snapshot[id]) /\ i = id
    <3>1. /\ operation' = [operation EXCEPT ![id] = next]
          /\ Moves(id, g, "starting")
          /\ copy' = [copy EXCEPT ![id][g] = next]
      BY <1>8, <2>2 DEF LeaseDue
    <3>2. /\ operation'[i] = next
          /\ \A h \in Leases : /\ attempt'[i][h] = IF h = g THEN "starting" ELSE attempt[i][h]
                               /\ copy'[i][h] = IF h = g THEN next ELSE copy[i][h]
      BY <2>1, <2>2, <3>1, AttemptOf DEF TypeOK
    <3>3. snapshot[id].lease >= 1 /\ snapshot[id].lease \in Nat
      BY <1>0, <2>2 DEF IsUnchanged, KnowsAttempts, TypeOK, Operations
    <3>4. next.lease = g /\ next.state = "leased" /\ g >= 2 /\ g \in Nat
      BY <3>3 DEF Leased
    <3> HIDE DEF next, g
    <3> QED
      BY <1>0, <3>2, <3>4 DEF KnowsAttempts, Exists, HasToken, MayRetry
  <2>3. CASE ~(IsUnchanged(id, snapshot[id]) /\ i = id)
    <3>1. attempt'[i] = attempt[i] /\ copy'[i] = copy[i] /\ operation'[i] = operation[i]
      BY <1>8, <2>1, <2>3 DEF LeaseDue, Moves, TypeOK
    <3> QED
      BY <1>0, <3>1, KnowsKept
  <2> QED
    BY <2>2, <2>3
<1>9. ASSUME NEW k \in Deletions, DeleteActive(k) \/ DeleteInactive(k)
      PROVE  KnowsAttempts(i)'
  <2>1. attempt' = attempt /\ copy' = copy /\ target[k] \in Destinations
    BY <1>9 DEF DeleteActive, DeleteInactive, TypeOK
  <2>2. operation'[i] = operation[i] \/ operation'[i] = NoOperation
    BY <1>9, <2>1, WithoutPendingAt DEF DeleteActive, DeleteInactive
  <2> QED
    BY <1>0, <2>1, <2>2, KnowsKept, KnowsUnleased, NoOperationState DEF Exists
<1>10. CASE Restart
  <2>1. /\ operation' = operation
        /\ \A g \in Leases : attempt'[i][g] \notin {"starting", "sending", "rescheduling"}
    BY <1>10 DEF Restart, Unfinished, Swaps
  <2> QED
    BY <1>0, <2>1 DEF KnowsAttempts, Exists
<1>11. CASE UNCHANGED <<operation, attempt, copy>>
  BY <1>0, <1>11, KnowsKept
<1>12. ASSUME NEW id \in Ids, LeaseSkips(id)
       PROVE  UNCHANGED <<operation, attempt, copy>>
  BY <1>12 DEF LeaseSkips
<1>13. CASE BeginLeasing \/ EndLeasing \/ (\E k \in Deletions : BeginDelete(k)) \/ UNCHANGED vars
  BY <1>11, <1>13 DEF BeginLeasing, EndLeasing, BeginDelete, vars
<1> QED
  BY <1>1, <1>2, <1>3, <1>4, <1>5, <1>6, <1>7, <1>8, <1>9, <1>10, <1>11, <1>12, <1>13
  DEF Next, RequestStep, AttemptStep

-----------------------------------------------------------------------------
(* Decisions *)

(* An operation that exists after a step existed before, or is new; the    *)
(* active subscription is the old one or that of a pending operation.      *)
LEMMA ExistedBefore ==
  ASSUME TypeOK, Unborn, [Next]_vars, NEW i \in Ids
  PROVE  /\ Exists(i)' => Exists(i) \/ i > last
         /\ active'[destination[i]] = i => active[destination[i]] = i \/ Exists(i)
<1>0. destination[i] \in Destinations /\ i \in Nat \ {0} /\ last \in Nat
  BY DEF TypeOK, Ids
<1>1. ASSUME NEW id \in Ids, StoreBegun(id)
      PROVE  Exists(i)' => Exists(i) \/ i > last
  <2>1. CASE i = id
    BY <1>0, <1>1, <2>1 DEF StoreBegun
  <2>2. CASE i # id
    <3>1. destination[id] \in Destinations
      BY DEF TypeOK
    <3>2. operation'[i] = NoOperation \/ operation'[i] = operation[i]
      BY <1>1, <2>2, <3>1, WithoutPendingAt, WithoutPendingType DEF StoreBegun
    <3> QED
      BY <3>2, NoOperationState DEF Exists
  <2> QED
    BY <2>1, <2>2
<1>2. ASSUME NEW id \in Ids, NEW o, StoreUpdated(id, o)
      PROVE  Exists(i)' => Exists(i)
  BY <1>2 DEF StoreUpdated, Exists, TypeOK
<1>3. ASSUME NEW id \in Ids, NEW a, StoreRemoved(id, a)
      PROVE  Exists(i)' => Exists(i)
  BY <1>3, NoOperationState DEF StoreRemoved, Exists, TypeOK
<1>4. ASSUME NEW d \in Destinations, NEW a, StoreCleared(d, a)
      PROVE  Exists(i)' => Exists(i)
  <2>1. operation'[i] = NoOperation \/ operation'[i] = operation[i]
    BY <1>4, WithoutPendingAt DEF StoreCleared
  <2> QED
    BY <2>1, NoOperationState DEF Exists
<1>5. CASE UNCHANGED storeVars
  BY <1>5 DEF storeVars, Exists
<1>6. ASSUME NEW id \in Ids, StoreRemoved(id, [active EXCEPT ![destination[id]] = id])
      PROVE  active'[destination[i]] = i => active[destination[i]] = i \/ Exists(i)
  BY <1>0, <1>6 DEF StoreRemoved, TypeOK
<1>7. ASSUME NEW d \in Destinations, StoreCleared(d, [active EXCEPT ![d] = 0])
      PROVE  active'[destination[i]] = i => active[destination[i]] = i
  BY <1>0, <1>7 DEF StoreCleared, TypeOK
<1>8. active' = active => (active'[destination[i]] = i => active[destination[i]] = i)
  OBVIOUS
<1>9. Exists(i)' => Exists(i) \/ i > last
  BY <1>1, <1>2, <1>3, <1>4, <1>5, StoreSteps
<1>10. active'[destination[i]] = i => active[destination[i]] = i \/ Exists(i)
  BY <1>6, <1>7, <1>8, StoreSteps DEF StoreBegun, StoreUpdated, StoreRemoved, StoreCleared, storeVars
<1> QED
  BY <1>9, <1>10

(* An attempt decides only by the swap of the record it has read.          *)
LEMMA DecisionOnlyBySwap ==
  ASSUME TypeOK, [Next]_vars, NEW i \in Ids, NEW h \in Leases,
         attempt'[i][h] \in Decisions, attempt'[i][h] # attempt[i][h]
  PROVE  /\ Activate(i, h) \/ Abandon(i, h)
         /\ IsUnchanged(i, copy[i][h])
         /\ Abandon(i, h) => attempt'[i][h] = "Rejected" /\ active' = active
         /\ Activate(i, h) => attempt'[i][h] = "Activated"
<1> USE DEF attemptVars
<1>0. 1 \in Leases
  BY DEF Leases
<1>1. ASSUME NEW id \in Ids, NEW g \in Leases, NEW p, Moves(id, g, p), p \notin Decisions
      PROVE  FALSE
  BY <1>1, AttemptOf
<1>2. ~Begin
  <2>1. Begin => last + 1 \in Ids /\ Moves(last + 1, 1, "waiting")
    BY DEF Begin, Moves
  <2> QED
    BY <1>0, <1>1, <2>1 DEF Decisions
<1>3. ASSUME NEW id \in Ids, RenewRead(id) \/ Renew(id) \/ Disconnect(id)
      PROVE  FALSE
  BY <1>0, <1>1, <1>3 DEF RenewRead, Renew, Disconnect, Ends, Send, Decisions
<1>4. ASSUME NEW id \in Ids, NEW g \in Leases,
             StartLeased(id, g) \/ Answer(id, g) \/ Expire(id, g) \/ Reschedule(id, g)
      PROVE  FALSE
  BY <1>1, <1>4 DEF StartLeased, Answer, Expire, Reschedule, ReadForSwap, Ends, Send, Decisions,
     Swaps
<1>5. ASSUME NEW id \in Ids, LeaseDue(id)
      PROVE  FALSE
  <2>1. CASE IsUnchanged(id, snapshot[id])
    BY <1>1, <1>5, <2>1 DEF LeaseDue, Decisions
  <2>2. CASE ~IsUnchanged(id, snapshot[id])
    BY <1>5, <2>2 DEF LeaseDue
  <2> QED
    BY <2>1, <2>2
<1>6. ~Restart
  BY DEF Restart, Decisions
<1>7. ASSUME NEW id \in Ids, NEW g \in Leases, Activate(id, g)
      PROVE  i = id /\ h = g /\ IsUnchanged(i, copy[i][h]) /\ attempt'[i][h] = "Activated"
  BY <1>7, AttemptOf DEF Activate, Ends, Decisions
<1>8. ASSUME NEW id \in Ids, NEW g \in Leases, Abandon(id, g)
      PROVE  /\ i = id /\ h = g /\ IsUnchanged(i, copy[i][h]) /\ attempt'[i][h] = "Rejected"
             /\ active' = active
  BY <1>8, AttemptOf DEF Abandon, Ends, Decisions, Remove, Commit
<1>9. attempt' # attempt
  OBVIOUS
<1>10. \E id \in Ids, g \in Leases : Activate(id, g) \/ Abandon(id, g)
  BY <1>2, <1>3, <1>4, <1>5, <1>6, <1>9
  DEF Next, RequestStep, AttemptStep, BeginLeasing, EndLeasing, LeaseExpires, LeaseSkips,
      BeginDelete, DeleteActive, DeleteInactive, vars
<1> QED
  BY <1>7, <1>8, <1>10

LEMMA DecisionStep ==
  ASSUME TypeOK, Unborn, NotYetActive, DecisionIsFinal, [Next]_vars
  PROVE  DecisionIsFinal'
<1> SUFFICES ASSUME NEW i \in Ids, NEW g \in Leases, attempt'[i][g] \in Decisions
             PROVE  /\ ~Exists(i)'
                    /\ \A h \in Leases \ {g} : attempt'[i][h] \notin Decisions
                    /\ attempt'[i][g] = "Rejected" => active'[destination[i]] # i
  BY StoreSteps DEF DecisionIsFinal
<1>1. CASE \E h \in Leases : attempt'[i][h] \in Decisions /\ attempt'[i][h] # attempt[i][h]
  <2>1. PICK h \in Leases : attempt'[i][h] \in Decisions /\ attempt'[i][h] # attempt[i][h]
    BY <1>1
  <2>2. /\ Activate(i, h) \/ Abandon(i, h)
        /\ IsUnchanged(i, copy[i][h])
        /\ Abandon(i, h) => attempt'[i][h] = "Rejected" /\ active' = active
        /\ Activate(i, h) => attempt'[i][h] = "Activated"
    BY <2>1, DecisionOnlyBySwap
  <2>3. Exists(i)
    BY <2>2 DEF IsUnchanged
  <2>4. \A e \in Leases : attempt[i][e] \notin Decisions
    BY <2>3 DEF DecisionIsFinal
  <2>5. PICK p : Moves(i, h, p)
    BY <2>2 DEF Activate, Abandon, Ends
  <2>6. \A e \in Leases : e # h => attempt'[i][e] = attempt[i][e]
    BY <2>5, AttemptOf
  <2>7. g = h
    BY <2>4, <2>6
  <2>8. ~Exists(i)'
    <3>1. CASE Abandon(i, h)
      <4>1. operation'[i] = NoOperation
        BY <2>2, <3>1 DEF Abandon, Remove, TypeOK
      <4> QED
        BY <4>1, NoOperationState DEF Exists
    <3>2. CASE Activate(i, h)
      <4>1. index[destination[i]] = i
        <5>1. CASE index[destination[i]] # i
          BY <2>1, <2>2, <3>2, <5>1, AttemptOf DEF Activate, Ends, Decisions
        <5> QED
          BY <5>1
      <4>2. operation'[i] = NoOperation
        BY <2>2, <3>2, <4>1 DEF Activate, TypeOK
      <4> QED
        BY <4>2, NoOperationState DEF Exists
    <3> QED
      BY <2>2, <3>1, <3>2
  <2>9. attempt'[i][g] = "Rejected" => active'[destination[i]] # i
    BY <2>2, <2>3, <2>7 DEF NotYetActive
  <2> QED
    BY <2>4, <2>6, <2>7, <2>8, <2>9
<1>2. CASE ~\E h \in Leases : attempt'[i][h] \in Decisions /\ attempt'[i][h] # attempt[i][h]
  <2>1. attempt[i][g] \in Decisions /\ attempt'[i][g] = attempt[i][g]
    BY <1>2
  <2>2. /\ ~Exists(i)
        /\ \A h \in Leases \ {g} : attempt[i][h] \notin Decisions
        /\ attempt[i][g] = "Rejected" => active[destination[i]] # i
    BY <2>1 DEF DecisionIsFinal
  <2>3. ~(i > last)
    BY <2>1 DEF Unborn, Decisions
  <2> QED
    BY <1>2, <2>1, <2>2, <2>3, ExistedBefore
<1> QED
  BY <1>1, <1>2

-----------------------------------------------------------------------------
(* The number of test pushes *)

(* What SendCount says of one request.                                     *)
SendsCounted(id) ==
  /\ sends[id] + Cardinality(Unsent(id)) <= MaxAttempts + takeovers[id]
  /\ Exists(id) =>
       /\ operation[id].lease = operation[id].attempts + takeovers[id]
                                + (IF operation[id].state = "leased" THEN 1 ELSE 0)
       /\ sends[id] + Cardinality(Unsent(id)) <= operation[id].lease

LEMMA UnsentFinite ==
  ASSUME NEW id \in Ids
  PROVE  IsFiniteSet(Unsent(id)) /\ Cardinality(Unsent(id)) \in Nat
<1>1. IsFiniteSet(Leases)
  BY FS_Interval DEF Leases
<1>2. Unsent(id) \in SUBSET Leases
  BY DEF Unsent
<1> QED
  BY <1>1, <1>2, FS_Subset, FS_CardinalityType

(* A step in which no attempt becomes unsent, pushes nothing and leaves    *)
(* the record, or removes it, or reschedules it.                           *)
LEMMA CountKept ==
  ASSUME TypeOK, NEW i \in Ids, SendsCounted(i), Unsent(i)' \subseteq Unsent(i),
         sends'[i] = sends[i], takeovers'[i] = takeovers[i],
         \/ operation'[i] = operation[i]
         \/ operation'[i] = NoOperation
         \/ operation'[i] = Rescheduled(operation[i]) /\ operation[i].state = "leased"
  PROVE  SendsCounted(i)'
<1>1. Cardinality(Unsent(i)') <= Cardinality(Unsent(i))
  BY UnsentFinite, FS_Subset
<1>2. Cardinality(Unsent(i)') \in Nat /\ Cardinality(Unsent(i)) \in Nat
  BY UnsentFinite, FS_Subset, FS_CardinalityType
<1>3. /\ sends[i] \in Nat /\ takeovers[i] \in Nat
      /\ operation[i].lease \in Nat /\ operation[i].attempts \in Nat
  BY DEF TypeOK, Operations
<1>4. CASE operation'[i] = operation[i]
  BY <1>1, <1>2, <1>3, <1>4 DEF SendsCounted, Exists
<1>5. CASE operation'[i] = NoOperation
  BY <1>1, <1>2, <1>3, <1>5, NoOperationState DEF SendsCounted, Exists
<1>6. CASE operation'[i] = Rescheduled(operation[i]) /\ operation[i].state = "leased"
  <2>1. /\ operation'[i].state = "ready"
        /\ operation'[i].lease = operation[i].lease
        /\ operation'[i].attempts = operation[i].attempts + 1
    BY <1>6 DEF Rescheduled, AttemptsAfter
  <2> QED
    BY <1>1, <1>2, <1>3, <1>6, <2>1 DEF SendsCounted, Exists
<1> QED
  BY <1>4, <1>5, <1>6

(* A push by an attempt that was still to make one.                        *)
LEMMA CountSent ==
  ASSUME TypeOK, NEW i \in Ids, SendsCounted(i), NEW g \in Leases, g \in Unsent(i),
         Unsent(i)' = Unsent(i) \ {g},
         sends'[i] = sends[i] + 1, takeovers'[i] = takeovers[i],
         \/ operation'[i] = operation[i]
         \/ operation'[i] = Renewed(operation[i])
  PROVE  SendsCounted(i)'
<1>1. Cardinality(Unsent(i)') = Cardinality(Unsent(i)) - 1
  <2>1. Cardinality(Unsent(i) \ {g}) = Cardinality(Unsent(i)) - 1
    <3>1. IsFiniteSet(Unsent(i))
      BY UnsentFinite
    <3> QED
      BY <3>1, FS_RemoveElement
  <2> QED
    BY <2>1
<1>2. /\ sends[i] \in Nat /\ takeovers[i] \in Nat /\ Cardinality(Unsent(i)) \in Nat
      /\ operation[i].lease \in Nat /\ operation[i].attempts \in Nat
  BY UnsentFinite DEF TypeOK, Operations
<1>3. /\ operation'[i].state = operation[i].state
      /\ operation'[i].lease = operation[i].lease
      /\ operation'[i].attempts = operation[i].attempts
  BY DEF Renewed
<1> QED
  BY <1>1, <1>2, <1>3 DEF SendsCounted, Exists

(* Moving an attempt moves it in or out of the unsent ones.                *)
LEMMA UnsentMoved ==
  ASSUME TypeOK, NEW id \in Ids, NEW g \in Leases, NEW p, Moves(id, g, p), NEW i \in Ids
  PROVE  /\ i # id => Unsent(i)' = Unsent(i)
         /\ p \in {"waiting", "renewing", "starting"} => Unsent(id)' = Unsent(id) \cup {g}
         /\ p \notin {"waiting", "renewing", "starting"} => Unsent(id)' = Unsent(id) \ {g}
BY AttemptOf DEF Unsent

LEMMA CountStep ==
  ASSUME TypeOK, Unborn, AttemptsKnown, SendCount, [Next]_vars
  PROVE  SendCount'
<1> USE DEF storeVars, attemptVars, observed
<1> SUFFICES ASSUME NEW i \in Ids
             PROVE  SendsCounted(i)'
  BY DEF SendsCounted, SendCount
<1>0. SendsCounted(i) /\ 1 \in Leases
  BY DEF SendsCounted, SendCount, Leases
<1>1. CASE Begin
  <2> DEFINE id == last + 1
  <2>1. /\ id \in Ids /\ StoreBegun(id) /\ sends' = sends /\ takeovers' = takeovers
        /\ Moves(id, 1, "waiting") /\ destination[id] \in Destinations
    BY <1>1 DEF Begin, Commit, StoreBegun, Moves, TypeOK
  <2>2. CASE i = id
    <3>1. /\ sends'[i] = 0 /\ takeovers'[i] = 0
          /\ \A g \in Leases : attempt[i][g] = "none"
      BY <2>1, <2>2 DEF Unborn, TypeOK
    <3>2. Unsent(i)' = {1}
      <4>1. \A g \in Leases : attempt'[i][g] = IF g = 1 THEN "waiting" ELSE "none"
        BY <1>0, <2>1, <2>2, <3>1, AttemptOf
      <4> QED
        BY <1>0, <4>1 DEF Unsent
    <3>3. Cardinality(Unsent(i)') = 1
      BY <3>2, FS_Singleton
    <3>4. operation'[i] = Leased(1, 0)
      BY <2>1, <2>2, WithoutPendingType DEF StoreBegun
    <3> QED
      BY <3>1, <3>3, <3>4 DEF SendsCounted, Leased
  <2>3. CASE i # id
    <3>1. operation'[i] = NoOperation \/ operation'[i] = operation[i]
      BY <2>1, <2>3, WithoutPendingAt, WithoutPendingType DEF StoreBegun
    <3> QED
      BY <1>0, <2>1, <2>3, <3>1, CountKept, UnsentMoved
  <2> QED
    BY <2>2, <2>3
<1>2. ASSUME NEW id \in Ids, RenewRead(id) \/ Disconnect(id)
      PROVE  SendsCounted(i)'
  <2>1. /\ operation' = operation /\ sends' = sends /\ takeovers' = takeovers
        /\ \/ Moves(id, 1, "renewing") /\ attempt[id][1] = "waiting"
           \/ Moves(id, 1, "Ended")
    BY <1>2 DEF RenewRead, Disconnect, Ends
  <2>2. Unsent(i)' \subseteq Unsent(i)
    <3>1. attempt[id][1] = "waiting" => 1 \in Unsent(id)
      BY <1>0 DEF Unsent
    <3> QED
      BY <1>0, <2>1, <3>1, UnsentMoved
  <2> QED
    BY <1>0, <2>1, <2>2, CountKept
<1>3. ASSUME NEW id \in Ids, Renew(id)
      PROVE  SendsCounted(i)'
  <2>1. CASE IsUnchanged(id, copy[id][1])
    <3>1. /\ operation' = [operation EXCEPT ![id] = Renewed(operation[id])]
          /\ Moves(id, 1, "sending") /\ takeovers' = takeovers
          /\ sends' = [sends EXCEPT ![id] = @ + 1] /\ 1 \in Unsent(id)
      BY <1>0, <1>3, <2>1 DEF Renew, Send, Unsent
    <3>2. CASE i = id
      <4>1. operation'[i] = Renewed(operation[i]) /\ sends'[i] = sends[i] + 1
        BY <3>1, <3>2 DEF TypeOK
      <4>2. Unsent(i)' = Unsent(i) \ {1}
        BY <1>0, <3>1, <3>2, UnsentMoved
      <4> QED
        BY <1>0, <3>1, <3>2, <4>1, <4>2, CountSent
    <3>3. CASE i # id
      <4>1. operation'[i] = operation[i] /\ sends'[i] = sends[i] /\ Unsent(i)' = Unsent(i)
        BY <1>0, <3>1, <3>3, UnsentMoved DEF TypeOK
      <4> QED
        BY <1>0, <3>1, <4>1, CountKept
    <3> QED
      BY <3>2, <3>3
  <2>2. CASE ~IsUnchanged(id, copy[id][1])
    <3>1. /\ operation' = operation /\ sends' = sends /\ takeovers' = takeovers
          /\ Moves(id, 1, "Ended")
      BY <1>3, <2>2 DEF Renew
    <3>2. Unsent(i)' \subseteq Unsent(i)
      BY <1>0, <3>1, UnsentMoved
    <3> QED
      BY <1>0, <3>1, <3>2, CountKept
  <2> QED
    BY <2>1, <2>2
<1>4. ASSUME NEW id \in Ids, NEW g \in Leases, StartLeased(id, g)
      PROVE  SendsCounted(i)'
  <2>1. /\ operation' = operation /\ takeovers' = takeovers /\ g \in Unsent(id)
        /\ Moves(id, g, "sending") /\ sends' = [sends EXCEPT ![id] = @ + 1]
    BY <1>4 DEF StartLeased, Send, Unsent
  <2>2. CASE i = id
    <3>1. sends'[i] = sends[i] + 1
      BY <2>1, <2>2 DEF TypeOK
    <3>2. Unsent(i)' = Unsent(i) \ {g}
      BY <2>1, <2>2, UnsentMoved
    <3> QED
      BY <1>0, <2>1, <2>2, <3>1, <3>2, CountSent
  <2>3. CASE i # id
    <3>1. sends'[i] = sends[i] /\ Unsent(i)' = Unsent(i)
      BY <2>1, <2>3, UnsentMoved DEF TypeOK
    <3> QED
      BY <1>0, <2>1, <3>1, CountKept
  <2> QED
    BY <2>2, <2>3
<1>5. ASSUME NEW id \in Ids, NEW g \in Leases, Answer(id, g) \/ Expire(id, g)
      PROVE  SendsCounted(i)'
  <2>1. /\ operation' = operation /\ sends' = sends /\ takeovers' = takeovers
        /\ \E p \in Swaps \cup {"Ended"} : Moves(id, g, p)
    BY <1>5 DEF Answer, Expire, ReadForSwap, Ends, Swaps
  <2>2. Unsent(i)' \subseteq Unsent(i)
    BY <2>1, UnsentMoved DEF Swaps
  <2> QED
    BY <1>0, <2>1, <2>2, CountKept
<1>6. ASSUME NEW id \in Ids, NEW g \in Leases,
             Activate(id, g) \/ Reschedule(id, g) \/ Abandon(id, g)
      PROVE  SendsCounted(i)'
  <2>1. /\ sends' = sends /\ takeovers' = takeovers
        /\ \E p \in {"Activated", "Rejected", "Ended"} : Moves(id, g, p)
    BY <1>6 DEF Activate, Reschedule, Abandon, Ends
  <2>2. Unsent(i)' \subseteq Unsent(i)
    BY <2>1, UnsentMoved
  <2>3. \/ operation'[i] = operation[i]
        \/ operation'[i] = NoOperation
        \/ operation'[i] = Rescheduled(operation[i]) /\ operation[i].state = "leased"
    <3>1. CASE Reschedule(id, g)
      <4>1. IsUnchanged(id, copy[id][g]) => operation[id].state = "leased"
        BY <3>1 DEF Reschedule, IsUnchanged, AttemptsKnown
      <4> QED
        BY <3>1, <4>1 DEF Reschedule, TypeOK
    <3>2. CASE Activate(id, g) \/ Abandon(id, g)
      BY <3>2 DEF Activate, Abandon, Remove, TypeOK
    <3> QED
      BY <1>6, <3>1, <3>2
  <2> QED
    BY <1>0, <2>1, <2>2, <2>3, CountKept
<1>7. ASSUME NEW id \in Ids, LeaseDue(id)
      PROVE  SendsCounted(i)'
  <2> DEFINE g == snapshot[id].lease + 1
             next == Leased(g, snapshot[id].attempts)
  <2>1. g \in Leases
    BY <1>7 DEF LeaseDue
  <2>2. CASE IsUnchanged(id, snapshot[id]) /\ i = id
    <3>1. /\ operation' = [operation EXCEPT ![id] = next]
          /\ Moves(id, g, "starting") /\ sends' = sends
          /\ takeovers' = [takeovers EXCEPT
                             ![id] = IF snapshot[id].state = "leased" THEN @ + 1 ELSE @]
          /\ operation[i] = snapshot[id] /\ Exists(i)
      BY <1>7, <2>2 DEF LeaseDue, IsUnchanged
    <3>2. /\ operation'[i] = next
          /\ takeovers'[i] = IF operation[i].state = "leased" THEN takeovers[i] + 1
                             ELSE takeovers[i]
      BY <2>2, <3>1 DEF TypeOK
    <3>3. Unsent(i)' = Unsent(i) \cup {g}
      BY <2>1, <2>2, <3>1, UnsentMoved
    <3>4. Cardinality(Unsent(i)') <= Cardinality(Unsent(i)) + 1
      <4>1. Cardinality(Unsent(i) \cup {g}) <= Cardinality(Unsent(i)) + 1
        <5>1. IsFiniteSet(Unsent(i)) /\ Cardinality(Unsent(i)) \in Nat
          BY UnsentFinite
        <5> QED
          BY <5>1, FS_AddElement
      <4> QED
        BY <3>3, <4>1
    <3>5. Cardinality(Unsent(i)') \in Nat /\ Cardinality(Unsent(i)) \in Nat
      <4>1. IsFiniteSet(Unsent(i) \cup {g})
        BY UnsentFinite, FS_AddElement
      <4> QED
        BY <3>3, <4>1, UnsentFinite, FS_CardinalityType
    <3>6. /\ next.state = "leased" /\ next.lease = operation[i].lease + 1
          /\ next.attempts = operation[i].attempts
      BY <3>1 DEF Leased
    <3>7. /\ sends[i] \in Nat /\ takeovers[i] \in Nat
          /\ operation[i].lease \in Nat /\ operation[i].attempts \in 0 .. MaxAttempts - 1
      BY DEF TypeOK, Operations
    <3>8. sends'[i] = sends[i]
      BY <3>1
    <3> HIDE DEF next, g
    <3>9. /\ operation[i].lease = operation[i].attempts + takeovers[i]
                                  + (IF operation[i].state = "leased" THEN 1 ELSE 0)
          /\ sends[i] + Cardinality(Unsent(i)) <= operation[i].lease
      BY <1>0, <3>1 DEF SendsCounted
    <3> QED
      BY <3>2, <3>4, <3>5, <3>6, <3>7, <3>8, <3>9 DEF SendsCounted
  <2>3. CASE ~(IsUnchanged(id, snapshot[id]) /\ i = id)
    <3>1. /\ operation'[i] = operation[i] /\ sends'[i] = sends[i]
          /\ takeovers'[i] = takeovers[i]
      BY <1>7, <2>3 DEF LeaseDue, TypeOK
    <3>2. Unsent(i)' = Unsent(i)
      <4>1. CASE IsUnchanged(id, snapshot[id])
        <5>1. Moves(id, g, "starting")
          BY <1>7, <4>1 DEF LeaseDue
        <5> QED
          BY <2>1, <2>3, <4>1, <5>1, UnsentMoved
      <4>2. CASE ~IsUnchanged(id, snapshot[id])
        BY <1>7, <4>2 DEF LeaseDue, Unsent
      <4> QED
        BY <4>1, <4>2
    <3> QED
      BY <1>0, <3>1, <3>2, CountKept
  <2> QED
    BY <2>2, <2>3
<1>8. ASSUME attempt' = attempt, sends' = sends, takeovers' = takeovers,
             operation'[i] = operation[i] \/ operation'[i] = NoOperation
      PROVE  SendsCounted(i)'
  <2>1. Unsent(i)' = Unsent(i)
    BY <1>8 DEF Unsent
  <2> QED
    BY <1>0, <1>8, <2>1, CountKept
<1>9. ASSUME NEW id \in Ids, LeaseExpires(id) \/ LeaseSkips(id)
      PROVE  SendsCounted(i)'
  <2>1. operation'[i] = operation[i] \/ operation'[i] = NoOperation
    BY <1>9 DEF LeaseExpires, LeaseSkips, Remove, TypeOK
  <2> QED
    BY <1>8, <1>9, <2>1 DEF LeaseExpires, LeaseSkips
<1>10. ASSUME NEW k \in Deletions, DeleteActive(k) \/ DeleteInactive(k) \/ BeginDelete(k)
       PROVE  SendsCounted(i)'
  <2>1. target[k] \in Destinations
    BY DEF TypeOK
  <2>2. operation'[i] = operation[i] \/ operation'[i] = NoOperation
    BY <1>10, <2>1, WithoutPendingAt DEF DeleteActive, DeleteInactive, BeginDelete
  <2> QED
    BY <1>8, <1>10, <2>2 DEF DeleteActive, DeleteInactive, BeginDelete
<1>11. CASE Restart
  <2>1. Unsent(i)' \subseteq Unsent(i)
    BY <1>11 DEF Restart, Unsent, Unfinished, Swaps
  <2> QED
    BY <1>0, <1>11, <2>1, CountKept DEF Restart
<1>12. CASE BeginLeasing \/ EndLeasing \/ UNCHANGED vars
  BY <1>8, <1>12 DEF BeginLeasing, EndLeasing, vars
<1> QED
  BY <1>1, <1>2, <1>3, <1>4, <1>5, <1>6, <1>7, <1>9, <1>10, <1>11, <1>12
  DEF Next, RequestStep, AttemptStep

-----------------------------------------------------------------------------
(* Theorems *)

LEMMA InvariantInit == Init => IInv
<1> SUFFICES ASSUME Init PROVE IInv
  OBVIOUS
<1>1. TypeOK
  BY TypeInit
<1>2. \A id \in Ids : ~Exists(id) /\ operation[id] = NoOperation /\ id \in Nat \ {0}
  BY DEF Init, Exists, NoOperation, Ids
<1>3. \A id \in Ids, g \in Leases : attempt[id][g] = "none"
  BY DEF Init
<1>4. IndexMatches
  BY <1>2 DEF Init, IndexMatches
<1>5. Unborn
  BY <1>2, <1>3 DEF Init, Unborn
<1>6. AttemptsKnown
  BY <1>2, <1>3, NoOperationState DEF AttemptsKnown
<1>7. NotYetActive
  BY <1>2 DEF Init, NotYetActive
<1>8. DecisionIsFinal
  BY <1>3 DEF DecisionIsFinal, Decisions
<1>9. SendCount
  <2>1. \A id \in Ids : Unsent(id) = {}
    BY <1>3 DEF Unsent
  <2>2. \A id \in Ids : Cardinality(Unsent(id)) = 0
    BY <2>1, FS_EmptySet
  <2> QED
    BY <1>2, <2>2 DEF Init, SendCount
<1> QED
  BY <1>1, <1>4, <1>5, <1>6, <1>7, <1>8, <1>9 DEF IInv

(* In every reachable state, for any number of requests and crashes: types,*)
(* index, decisions and counts, with what makes them inductive.            *)
THEOREM Invariant == Spec => []IInv
<1>1. IInv /\ [Next]_vars => IInv'
  BY TypeStep, IndexStep, UnbornStep, KnowsStep, NotYetActiveStep, DecisionStep, CountStep DEF IInv
<1> QED
  BY <1>1, InvariantInit, PTL DEF Spec

(* Every variable keeps its type.                                          *)
THEOREM TypeCorrect == Spec => []TypeOK
<1>1. IInv => TypeOK
  BY DEF IInv
<1> QED
  BY <1>1, Invariant, PTL

(* The destination index and the operations agree, so that a swap never    *)
(* ends the confirmation worker.                                           *)
THEOREM IndexCorrect == Spec => []IndexMatches
<1>1. IInv => IndexMatches
  BY DEF IInv
<1> QED
  BY <1>1, Invariant, PTL

(* One attempt decides a request, for good.                                *)
THEOREM DecisionCorrect == Spec => []DecisionIsFinal
<1>1. IInv => DecisionIsFinal
  BY DEF IInv
<1> QED
  BY <1>1, Invariant, PTL

(* The test pushes of a request are bounded by the attempts allowed and    *)
(* the leases that lapsed.                                                 *)
THEOREM SendsCorrect == Spec => []SendsBounded
<1>1. IInv => SendsBounded
  <2> SUFFICES ASSUME IInv, NEW id \in Ids
               PROVE  sends[id] <= MaxAttempts + takeovers[id]
    BY DEF SendsBounded
  <2>1. sends[id] \in Nat /\ takeovers[id] \in Nat /\ Cardinality(Unsent(id)) \in Nat
    BY UnsentFinite DEF IInv, TypeOK
  <2>2. sends[id] + Cardinality(Unsent(id)) <= MaxAttempts + takeovers[id]
    BY DEF IInv, SendCount
  <2> QED
    BY <2>1, <2>2
<1> QED
  BY <1>1, Invariant, PTL

(* The confirmation service and the deletions implement the registry.      *)
THEOREM Refinement == Spec => ImplementsRegistry
<1>1. Init => Registry!Init
  BY DEF Init, Registry!Init
<1>2. IInv /\ [Next]_vars => [Registry!Next]_Registry!registryVars
  <2> SUFFICES ASSUME IInv, [Next]_vars
               PROVE  Registry!Next \/ UNCHANGED Registry!registryVars
    OBVIOUS
  <2>0. TypeOK /\ \A id \in Ids : destination[id] \in Destinations /\ id # 0
    BY DEF IInv, TypeOK, Ids
  <2>1. ASSUME NEW id \in Ids, StoreBegun(id)
        PROVE  Registry!Next
    <3>1. last < MaxRequests
      BY <2>0, <2>1 DEF StoreBegun, TypeOK, Ids
    <3>2. Registry!Request(destination[id])
      BY <2>1, <3>1 DEF StoreBegun, Registry!Request
    <3> QED
      BY <2>0, <3>2 DEF Registry!Next
  <2>2. ASSUME NEW id \in Ids, StoreRemoved(id, active)
        PROVE  Registry!Next
    <3>1. index[destination[id]] = id
      BY <2>2 DEF StoreRemoved, IInv, IndexMatches
    <3>2. Registry!Drop(destination[id])
      BY <2>0, <2>2, <3>1 DEF StoreRemoved, Registry!Drop
    <3> QED
      BY <2>0, <3>2 DEF Registry!Next
  <2>3. ASSUME NEW id \in Ids, index[destination[id]] = id,
               StoreRemoved(id, [active EXCEPT ![destination[id]] = id])
        PROVE  Registry!Next
    <3>1. Registry!Activate(destination[id])
      BY <2>0, <2>3 DEF StoreRemoved, Registry!Activate
    <3> QED
      BY <2>0, <3>1 DEF Registry!Next
  <2>4. ASSUME NEW d \in Destinations, index[d] # 0, StoreCleared(d, active)
        PROVE  Registry!Next
    BY <2>4 DEF StoreCleared, Registry!Drop, Registry!Next
  <2>5. ASSUME NEW d \in Destinations, StoreCleared(d, [active EXCEPT ![d] = 0])
        PROVE  Registry!Next
    BY <2>5 DEF StoreCleared, Registry!Unsubscribe, Registry!Next
  <2>6. ASSUME NEW id \in Ids, NEW o, StoreUpdated(id, o)
        PROVE  UNCHANGED Registry!registryVars
    BY <2>6 DEF StoreUpdated, Registry!registryVars
  <2>7. CASE UNCHANGED storeVars
    BY <2>7 DEF storeVars, Registry!registryVars
  <2> QED
    BY <2>0, <2>1, <2>2, <2>3, <2>4, <2>5, <2>6, <2>7, StoreSteps
<1> QED
  BY <1>1, <1>2, Invariant, PTL DEF Spec, ImplementsRegistry, Registry!Spec
=============================================================================
