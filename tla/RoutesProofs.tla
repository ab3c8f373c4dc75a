---------------------------- MODULE RoutesProofs ----------------------------
(***************************************************************************)
(* Proofs about the components behind the HTTP routes, each by itself: the   *)
(* permits of Requests, the locks and the cache of Geocoder, the contexts of  *)
(* Links, the pages of Listing and the payloads of Bark, for any requests,    *)
(* queries, notices, messages and sizes.                                      *)
(***************************************************************************)
EXTENDS Requests, Geocoder, Links, Listing, Bark, FiniteSetTheorems, SequenceTheorems, NaturalsInduction,
        WellFoundedInduction, TLAPS

USE PermitsAssumption, GeocoderAssumption, LinksAssumption

-----------------------------------------------------------------------------
(* The permits of a request *)

(* Where the permits of a request are: in the future until the blocking       *)
(* operation starts, then partly with the operation, until it ends.          *)
FutureHolds(rt, s) ==
  CASE s = "waiting" -> Range(Takes(rt)) \ Moved(rt)
    [] s = "attempting" -> Range(Takes(rt)) \ {"storage"}
    [] OTHER -> {}

RequestTyped(r) ==
  /\ step[r] \in {"idle", "admitting", "waiting", "attempting", "answered", "gone"}
  /\ step[r] # "idle" => route[r] \in Routes
  /\ running[r] \in BOOLEAN
  /\ running[r] => step[r] \in {"waiting", "gone"}
  /\ step[r] = "attempting" => route[r] = "subscribe"

PermitsPlaced(r) ==
  /\ carried[r] = IF running[r] THEN Moved(route[r]) ELSE {}
  /\ IF step[r] = "admitting" THEN held[r] \subseteq Range(Takes(route[r]))
     ELSE held[r] = FutureHolds(route[r], step[r])

RequestsTyped ==
  /\ DOMAIN route = Requests /\ DOMAIN step = Requests /\ DOMAIN running = Requests
  /\ DOMAIN held = Requests /\ DOMAIN carried = Requests

(* No more permits are out than a semaphore has.                            *)
PermitsBounded ==
  \A p \in Pools : Cardinality(Users(p)) <= Size[p]

RequestsIInv ==
  /\ RequestsTyped
  /\ \A r \in Requests : RequestTyped(r) /\ PermitsPlaced(r)

(* A handler takes up to two permits of the four semaphores.                *)
LEMMA HandlersTake ==
  ASSUME NEW rt \in Routes
  PROVE  Takes(rt) \in {<<>>, <<"storage">>, <<"subscription", "storage">>,
                        <<"status", "storage">>, <<"detail", "storage">>}
  <1>1. rt \in {"subscribe", "unsubscribe", "subscriptions", "admin_subscriptions", "device_keys",
                "deliveries", "admin_deliveries", "events", "status", "detail", "history", "simulate"}
    BY DEF Routes, Handlers
  <1> USE DEF Takes, Handlers, Handler
  <1>2. CASE rt = "subscribe"
    BY <1>2 DEF Subscribe
  <1>3. CASE rt = "status"
    BY <1>3 DEF Status
  <1>4. CASE rt = "detail"
    BY <1>4 DEF IncidentDetail
  <1>5. CASE rt \in {"history", "simulate"}
    BY <1>5 DEF History, SimulateAlert
  <1>6. CASE rt \in {"unsubscribe", "subscriptions", "admin_subscriptions", "device_keys"}
    BY <1>6 DEF Unsubscribe, Subscriptions, AdminSubscriptions, DeviceKeys
  <1>7. CASE rt \in {"deliveries", "admin_deliveries", "events"}
    BY <1>7 DEF Deliveries, AdminDeliveries, EventList
  <1> QED BY <1>1, <1>2, <1>3, <1>4, <1>5, <1>6, <1>7

(* What is still missing of a handler is one of its permits.                *)
LEMMA NextPermit ==
  ASSUME NEW r, route[r] \in Routes, Missing(r) # {}
  PROVE  /\ Takes(route[r])[Min(Missing(r))] \in Range(Takes(route[r]))
         /\ Takes(route[r])[Min(Missing(r))] \in Pools
  <1> DEFINE t == Takes(route[r])
  <1>1. /\ DOMAIN t \subseteq {1, 2}
        /\ \A i \in DOMAIN t : t[i] \in Pools
    BY HandlersTake DEF Pools
  <1>2. Missing(r) \subseteq DOMAIN t
    BY DEF Missing
  <1> HIDE DEF t
  <1>3. \E i \in Missing(r) : \A j \in Missing(r) : i <= j
    <2>1. CASE 1 \in Missing(r)
      BY <1>1, <1>2, <2>1
    <2>2. CASE 1 \notin Missing(r)
      BY <1>1, <1>2, <2>2
    <2> QED BY <2>1, <2>2
  <1>4. Min(Missing(r)) \in Missing(r)
    BY <1>3, Zenon DEF Min
  <1> QED BY <1>1, <1>2, <1>4 DEF t, Range

(* One request steps, the others rest.                                      *)
OthersRest(r) ==
  \A q \in Requests \ {r} :
    /\ route'[q] = route[q] /\ step'[q] = step[q] /\ running'[q] = running[q]
    /\ held'[q] = held[q] /\ carried'[q] = carried[q]

RequestMoves(r) ==
  /\ RequestsTyped' /\ OthersRest(r) /\ RequestTyped(r)' /\ PermitsPlaced(r)'

(* A step of a request that keeps it in its place keeps the invariant.       *)
LEMMA OneRequestMoves ==
  ASSUME RequestsIInv, NEW r \in Requests, RequestMoves(r)
  PROVE  RequestsIInv'
  <1> SUFFICES ASSUME NEW q \in Requests PROVE RequestTyped(q)' /\ PermitsPlaced(q)'
    BY DEF RequestMoves, RequestsIInv
  <1>1. CASE q = r
    BY <1>1 DEF RequestMoves
  <1>2. CASE q # r
    BY <1>2 DEF RequestMoves, OthersRest, RequestsIInv, RequestTyped, PermitsPlaced
  <1> QED BY <1>1, <1>2

(* The request holds no permit it did not hold.                              *)
Keeps(r) == held'[r] \cup carried'[r] \subseteq held[r] \cup carried[r]

(* A request that arrives has nothing, answered at once or not.              *)
LEMMA ArriveMoves ==
  ASSUME RequestsIInv, NEW r \in Requests, NEW rt \in Routes, Arrive(r, rt)
  PROVE  RequestMoves(r) /\ Keeps(r)
  <1> USE DEF RequestsIInv
  <1>1. RequestTyped(r) /\ PermitsPlaced(r) /\ step[r] = "idle"
    BY DEF Arrive
  <1>2. ~running[r] /\ held[r] = {} /\ carried[r] = {}
    BY <1>1 DEF RequestTyped, PermitsPlaced, FutureHolds
  <1>3. /\ route' = [route EXCEPT ![r] = rt] /\ carried' = carried /\ running' = running
    BY DEF Arrive
  <1>4. \/ /\ step' = [step EXCEPT ![r] = "answered"] /\ held' = [held EXCEPT ![r] = {}]
        \/ /\ step' = [step EXCEPT ![r] = "admitting"] /\ held' = held
    BY DEF Arrive, Respond
  <1>5. RequestsTyped' /\ OthersRest(r)
    BY <1>3, <1>4 DEF RequestsTyped, OthersRest
  <1>6. /\ step'[r] \in {"answered", "admitting"} /\ route'[r] = rt /\ held'[r] = {}
        /\ carried'[r] = {} /\ running'[r] = running[r]
    BY <1>2, <1>3, <1>4 DEF RequestsTyped
  <1>7. RequestTyped(r)'
    BY <1>1, <1>2, <1>6 DEF RequestTyped
  <1>8. PermitsPlaced(r)'
    BY <1>2, <1>6 DEF PermitsPlaced, FutureHolds
  <1> QED BY <1>5, <1>6, <1>7, <1>8 DEF RequestMoves, Keeps

(* A permit is taken only where one is free, and is one of the handler's.    *)
LEMMA AcquireMoves ==
  ASSUME RequestsIInv, NEW r \in Requests, Acquire(r)
  PROVE  /\ RequestMoves(r)
         /\ \/ Keeps(r)
            \/ \E p \in Pools : /\ Free(p) > 0 /\ held'[r] = held[r] \cup {p}
                                 /\ carried'[r] = carried[r]
  <1> USE DEF RequestsIInv
  <1>0. RequestTyped(r) /\ PermitsPlaced(r)
    OBVIOUS
  <1> DEFINE p == Takes(route[r])[Min(Missing(r))]
  <1>1. /\ step[r] = "admitting" /\ Missing(r) # {} /\ route' = route
        /\ carried' = carried /\ running' = running
        /\ \/ Free(p) > 0 /\ held' = [held EXCEPT ![r] = @ \cup {p}] /\ step' = step
           \/ step' = [step EXCEPT ![r] = "answered"] /\ held' = [held EXCEPT ![r] = {}]
    BY DEF Acquire, Respond
  <1>2. route[r] \in Routes /\ ~running[r] /\ carried[r] = {} /\ held[r] \subseteq Range(Takes(route[r]))
    BY <1>0, <1>1 DEF RequestTyped, PermitsPlaced
  <1>3. p \in Range(Takes(route[r])) /\ p \in Pools
    BY <1>1, <1>2, NextPermit
  <1> HIDE DEF p
  <1>4. RequestsTyped' /\ OthersRest(r)
    BY <1>1 DEF RequestsTyped, OthersRest
  <1>5. /\ route'[r] = route[r] /\ running'[r] = running[r] /\ carried'[r] = {}
        /\ \/ Free(p) > 0 /\ held'[r] = held[r] \cup {p} /\ step'[r] = "admitting"
           \/ held'[r] = {} /\ step'[r] = "answered"
    BY <1>1, <1>2 DEF RequestsTyped
  <1>6. RequestTyped(r)'
    BY <1>0, <1>1, <1>2, <1>5 DEF RequestTyped
  <1>7. PermitsPlaced(r)'
    BY <1>2, <1>3, <1>5 DEF PermitsPlaced, FutureHolds
  <1> QED BY <1>2, <1>3, <1>4, <1>5, <1>6, <1>7 DEF RequestMoves, Keeps

(* The permits that move are with the operation, the others with the future. *)
LEMMA StartMoves ==
  ASSUME RequestsIInv, NEW r \in Requests, Start(r)
  PROVE  RequestMoves(r) /\ Keeps(r)
  <1> USE DEF RequestsIInv
  <1>0. RequestTyped(r) /\ PermitsPlaced(r)
    OBVIOUS
  <1>1. /\ step[r] = "admitting" /\ Missing(r) = {} /\ route' = route
        /\ running' = [running EXCEPT ![r] = TRUE]
        /\ held' = [held EXCEPT ![r] = @ \ Moved(route[r])]
        /\ carried' = [carried EXCEPT ![r] = Moved(route[r])]
        /\ step' = [step EXCEPT ![r] = "waiting"]
    BY Zenon DEF Start
  <1>2. route[r] \in Routes /\ held[r] = Range(Takes(route[r])) /\ Moved(route[r]) \subseteq held[r]
    BY <1>0, <1>1 DEF RequestTyped, PermitsPlaced, Missing, Range, Moved
  <1>3. RequestsTyped' /\ OthersRest(r)
    BY <1>1 DEF RequestsTyped, OthersRest
  <1>4. /\ route'[r] = route[r] /\ held'[r] = held[r] \ Moved(route[r])
        /\ carried'[r] = Moved(route[r]) /\ step'[r] = "waiting"
    BY <1>1 DEF RequestsTyped
  <1>5. running'[r] = TRUE
    BY <1>1, Zenon DEF RequestsTyped
  <1>6. RequestTyped(r)'
    BY <1>2, <1>4, <1>5 DEF RequestTyped
  <1>7. PermitsPlaced(r)'
    BY <1>2, <1>4, <1>5 DEF PermitsPlaced, FutureHolds
  <1> QED BY <1>2, <1>3, <1>4, <1>6, <1>7 DEF RequestMoves, Keeps

(* An operation that ends drops what went along with it. *)
LEMMA CompleteMoves ==
  ASSUME RequestsIInv, NEW r \in Requests, Complete(r)
  PROVE  RequestMoves(r) /\ Keeps(r)
  <1> USE DEF RequestsIInv
  <1>0. RequestTyped(r) /\ PermitsPlaced(r)
    OBVIOUS
  <1>1. /\ running[r] /\ route' = route /\ step' = step /\ held' = held
        /\ running' = [running EXCEPT ![r] = FALSE]
        /\ carried' = [carried EXCEPT ![r] = {}]
    BY Zenon DEF Complete
  <1>2. RequestsTyped' /\ OthersRest(r)
    BY <1>1 DEF RequestsTyped, OthersRest
  <1>3. /\ route'[r] = route[r] /\ held'[r] = held[r] /\ carried'[r] = {} /\ step'[r] = step[r]
    BY <1>1 DEF RequestsTyped
  <1>4. running'[r] = FALSE
    BY <1>1, Zenon DEF RequestsTyped
  <1>5. step[r] # "admitting"
    BY <1>0, <1>1 DEF RequestTyped
  <1>6. RequestTyped(r)'
    BY <1>0, <1>3, <1>4 DEF RequestTyped
  <1>7. PermitsPlaced(r)'
    BY <1>0, <1>3, <1>4, <1>5 DEF PermitsPlaced, FutureHolds
  <1> QED BY <1>2, <1>3, <1>6, <1>7 DEF RequestMoves, Keeps

(* A handler that answers, or whose client hangs up, drops what its future holds. *)
LEMMA ReplyMoves ==
  ASSUME RequestsIInv, NEW r \in Requests, 
         Resume(r) \/ EndAttempt(r) \/ HangUp(r)
  PROVE  RequestMoves(r) /\ Keeps(r)
  <1> USE DEF RequestsIInv
  <1>0. RequestTyped(r) /\ PermitsPlaced(r)
    OBVIOUS
  <1>1. /\ step[r] \in {"waiting", "attempting"} /\ route' = route /\ carried' = carried
        /\ running' = running /\ held' = [held EXCEPT ![r] = {}]
        /\ \/ ~running[r] /\ step' = [step EXCEPT ![r] = "answered"]
           \/ step' = [step EXCEPT ![r] = "gone"]
    BY <1>0 DEF Resume, EndAttempt, HangUp, Respond, RequestTyped
  <1>2. RequestsTyped' /\ OthersRest(r)
    BY <1>1 DEF RequestsTyped, OthersRest
  <1>3. /\ route'[r] = route[r] /\ held'[r] = {} /\ carried'[r] = carried[r]
        /\ running'[r] = running[r]
        /\ (step'[r] = "answered" /\ ~running[r]) \/ step'[r] = "gone"
    BY <1>1 DEF RequestsTyped
  <1>4. RequestTyped(r)'
    BY <1>0, <1>1, <1>3 DEF RequestTyped
  <1>5. PermitsPlaced(r)'
    BY <1>0, <1>3 DEF PermitsPlaced, FutureHolds
  <1> QED BY <1>2, <1>3, <1>4, <1>5 DEF RequestMoves, Keeps

(* An attempt keeps the permit of subscribe, and no storage permit. *)
LEMMA BeginAttemptMoves ==
  ASSUME RequestsIInv, NEW r \in Requests, BeginAttempt(r)
  PROVE  RequestMoves(r) /\ Keeps(r)
  <1> USE DEF RequestsIInv
  <1>0. RequestTyped(r) /\ PermitsPlaced(r)
    OBVIOUS
  <1>1. /\ step[r] = "waiting" /\ ~running[r] /\ route[r] = "subscribe" /\ route' = route
        /\ carried' = carried /\ running' = running
        /\ held' = [held EXCEPT ![r] = @ \ {"storage"}]
        /\ step' = [step EXCEPT ![r] = "attempting"]
    BY DEF BeginAttempt
  <1>2. held[r] = Range(Takes(route[r]))
    BY <1>0, <1>1 DEF PermitsPlaced, FutureHolds, Moved
  <1>3. RequestsTyped' /\ OthersRest(r)
    BY <1>1 DEF RequestsTyped, OthersRest
  <1>4. /\ route'[r] = route[r] /\ held'[r] = held[r] \ {"storage"} /\ carried'[r] = carried[r]
        /\ running'[r] = running[r] /\ step'[r] = "attempting"
    BY <1>1 DEF RequestsTyped
  <1>5. RequestTyped(r)'
    BY <1>0, <1>1, <1>4 DEF RequestTyped
  <1>6. PermitsPlaced(r)'
    BY <1>0, <1>1, <1>2, <1>4 DEF PermitsPlaced, FutureHolds
  <1> QED BY <1>3, <1>4, <1>5, <1>6 DEF RequestMoves, Keeps

(* Some request moves, and takes at most one permit, which was free.         *)
LEMMA RequestStep ==
  ASSUME RequestsIInv, NextRequests
  PROVE  \E r \in Requests :
           /\ RequestMoves(r)
           /\ \/ Keeps(r)
              \/ \E p \in Pools : /\ Free(p) > 0 /\ held'[r] = held[r] \cup {p}
                                   /\ carried'[r] = carried[r]
  <1>1. PICK r \in Requests : NextRequest(r)
    BY DEF NextRequests
  <1>2. CASE \E rt \in Routes : Arrive(r, rt)
    BY <1>2, ArriveMoves
  <1>3. CASE Acquire(r)
    BY <1>3, AcquireMoves
  <1>4. CASE Start(r)
    BY <1>4, StartMoves
  <1>5. CASE Complete(r)
    BY <1>5, CompleteMoves
  <1>6. CASE Resume(r) \/ EndAttempt(r) \/ HangUp(r)
    BY <1>6, ReplyMoves
  <1>7. CASE BeginAttempt(r)
    BY <1>7, BeginAttemptMoves
  <1> QED BY <1>1, <1>2, <1>3, <1>4, <1>5, <1>6, <1>7 DEF NextRequest, Handle

(* The permits are in their places in every reachable state.                 *)
LEMMA RequestsInvariant == RequestsSpec => []RequestsIInv
  <1>1. InitRequests => RequestsIInv
    BY DEF InitRequests, RequestsIInv, RequestsTyped, RequestTyped, PermitsPlaced, FutureHolds, Nowhere
  <1>2. RequestsIInv /\ [NextRequests]_requestVars => RequestsIInv'
    <2>1. ASSUME RequestsIInv, NextRequests PROVE RequestsIInv'
      BY <2>1, RequestStep, OneRequestMoves
    <2>2. ASSUME RequestsIInv, UNCHANGED requestVars PROVE RequestsIInv'
      BY <2>2 DEF requestVars, RequestsIInv, RequestsTyped, RequestTyped, PermitsPlaced
    <2> QED BY <2>1, <2>2
  <1> QED BY <1>1, <1>2, PTL DEF RequestsSpec

(* No semaphore gives out more permits than it has, whoever hangs up and      *)
(* wherever a permit went (AppState, incident.rs 97-130).                     *)
THEOREM PermitsAreBounded == RequestsSpec => []PermitsBounded
  <1>1. InitRequests => PermitsBounded
    <2> SUFFICES ASSUME InitRequests, NEW p \in Pools PROVE Cardinality(Users(p)) <= Size[p]
      BY DEF PermitsBounded
    <2>1. Users(p) = {}
      BY DEF InitRequests, Users
    <2> QED BY <2>1, FS_EmptySet
  <1>2. ASSUME RequestsIInv, PermitsBounded, [NextRequests]_requestVars PROVE PermitsBounded'
    <2>1. ASSUME NextRequests, NEW p \in Pools PROVE Cardinality(Users(p)') <= Size[p]
      <3>1. PICK r \in Requests :
              /\ OthersRest(r)
              /\ \/ Keeps(r)
                 \/ \E q \in Pools : /\ Free(q) > 0 /\ held'[r] = held[r] \cup {q}
                                      /\ carried'[r] = carried[r]
        BY <1>2, <2>1, RequestStep DEF RequestMoves
      <3>2. /\ IsFiniteSet(Users(p)) /\ Cardinality(Users(p)) \in Nat
            /\ Cardinality(Users(p)) <= Size[p] /\ Size[p] \in Nat
        <4>1. Users(p) \subseteq Requests
          BY DEF Users
        <4>2. IsFiniteSet(Users(p))
          BY <4>1, FS_Subset
        <4> QED BY <1>2, <4>2, FS_CardinalityType DEF PermitsBounded
      <3>3. CASE Users(p)' \subseteq Users(p)
        BY <3>2, <3>3, FS_Subset, FS_CardinalityType
      <3>4. CASE ~(Users(p)' \subseteq Users(p))
        <4>5. PICK s \in Requests : s \in Users(p)' /\ s \notin Users(p)
          BY <3>4 DEF Users
        <4>6. \A t \in Requests \ {r} : held'[t] = held[t] /\ carried'[t] = carried[t]
          BY <3>1 DEF OthersRest
        <4>7. s = r
          BY <4>5, <4>6 DEF Users
        <4>8. ~Keeps(r)
          BY <4>5, <4>7 DEF Users, Keeps
        <4>9. PICK q \in Pools : /\ Free(q) > 0 /\ held'[r] = held[r] \cup {q}
                                 /\ carried'[r] = carried[r]
          BY <3>1, <4>8
        <4>10. q = p
          BY <4>5, <4>7, <4>9 DEF Users
        <4>11. Users(p)' = Users(p) \cup {r}
          BY <4>5, <4>6, <4>7, <4>9 DEF Users
        <4>1. Free(p) > 0 /\ Users(p)' = Users(p) \cup {r}
          BY <4>9, <4>10, <4>11
        <4> DEFINE U == Users(p)
        <4>12. IsFiniteSet(U)
          BY <3>2
        <4>13. Cardinality(U \cup {r}) = IF r \in U THEN Cardinality(U) ELSE Cardinality(U) + 1
          <5> HIDE DEF U
          <5> QED BY <4>12, FS_AddElement, Zenon
        <4>2. Cardinality(Users(p) \cup {r}) <= Cardinality(Users(p)) + 1
          BY <3>2, <4>13
        <4>3. Cardinality(Users(p) \cup {r}) \in Nat
          BY <3>2, FS_AddElement, FS_CardinalityType
        <4> QED BY <3>2, <4>1, <4>2, <4>3 DEF Free
      <3> QED BY <3>3, <3>4
    <2>2. CASE UNCHANGED requestVars
      BY <1>2, <2>2 DEF requestVars, PermitsBounded, Users
    <2> QED BY <1>2, <2>1, <2>2 DEF PermitsBounded
  <1> QED BY <1>1, <1>2, RequestsInvariant, PTL DEF RequestsSpec

(* The storage permits in use are those of store operations that run, but for *)
(* the begin of a subscribe request whose client is gone (subscribe.rs        *)
(* 250-278, 404-412).                                                       *)
THEOREM StoragePermitsFollowWork == RequestsSpec => []StorageFollowsWork
  <1>1. ASSUME RequestsIInv, NEW r \in Requests
        PROVE  /\ running[r] /\ "storage" \in Range(Takes(route[r]))
                    => "storage" \in held[r] \cup carried[r] \/ (route[r] = "subscribe" /\ step[r] = "gone")
               /\ "storage" \in held[r] \cup carried[r]
                    => running[r] \/ step[r] = "admitting" \/ (route[r] = "subscribe" /\ step[r] = "waiting")
    <2>1. RequestTyped(r) /\ PermitsPlaced(r)
      BY <1>1 DEF RequestsIInv
    <2>2. route[r] # "subscribe" => Moved(route[r]) = Range(Takes(route[r]))
      BY DEF Moved
    <2>3. route[r] = "subscribe" => Moved(route[r]) = {}
      BY DEF Moved
    <2>4. CASE running[r]
      <3>1. step[r] \in {"waiting", "gone"} /\ carried[r] = Moved(route[r])
        BY <2>1, <2>4 DEF RequestTyped, PermitsPlaced
      <3>2. step[r] = "waiting" => held[r] = Range(Takes(route[r])) \ Moved(route[r])
        BY <2>1 DEF PermitsPlaced, FutureHolds
      <3> QED BY <2>2, <2>3, <2>4, <3>1, <3>2
    <2>5. CASE ~running[r]
      BY <2>1, <2>2, <2>5 DEF RequestTyped, PermitsPlaced, FutureHolds
    <2> QED BY <2>4, <2>5
  <1>2. ASSUME PermitsBounded, NEW p \in Pools PROVE Free(p) >= 0
    <2>1. IsFiniteSet(Users(p))
      BY FS_Subset DEF Users
    <2>2. Cardinality(Users(p)) \in Nat /\ Size[p] \in Nat
      BY <2>1, FS_CardinalityType
    <2>3. Cardinality(Users(p)) <= Size[p]
      BY <1>2 DEF PermitsBounded
    <2> QED BY <2>2, <2>3 DEF Free
  <1>3. RequestsIInv /\ PermitsBounded => StorageFollowsWork
    BY <1>1, <1>2, Zenon DEF StorageFollowsWork
  <1> QED BY <1>3, RequestsInvariant, PermitsAreBounded, PTL

-----------------------------------------------------------------------------
(* The contexts behind the links *)

Lasts(keyspace, c, day) == c \in DOMAIN keyspace /\ keyspace[c] >= day

(* What deliver_row_locked and dispatch know of a context on its way out.     *)
Underway(s) ==
  /\ s = [step |-> s.step, context |-> s.context, stored_at |-> s.stored_at]
  /\ s.step \in {"prepared", "put", "persisted"}
  /\ s.stored_at = today /\ ValidSnapshot(s.context)
  /\ s.step # "prepared" => Lasts(contexts, s.context, today)
  /\ s.step = "persisted" => Lasts(synced, s.context, today)

LinksTyped ==
  /\ today \in Nat /\ serving \in BOOLEAN
  /\ \A c \in DOMAIN contexts : contexts[c] \in Nat
  /\ \A c \in DOMAIN synced : synced[c] \in Nat
  /\ DOMAIN send = Everyone

SendSound(n) == send[n] = Idle \/ Underway(send[n])

SendsSound ==
  /\ \A n \in Everyone : SendSound(n)
  /\ ~serving => \A n \in Everyone : send[n] = Idle

(* A link that is out is of a day that was, and its context is on disk while  *)
(* it has to be.                                                              *)
Backed(p) ==
  /\ p.stored_at \in Nat /\ p.stored_at <= today /\ ValidSnapshot(p.context)
  /\ today - p.stored_at < Retention
       => Lasts(contexts, p.context, p.stored_at) /\ Lasts(synced, p.context, p.stored_at)

(* A blocking task whose client is gone goes on as its request would have.    *)
OrphansSound ==
  /\ \A s \in orphans : Underway(s)
  /\ ~serving => orphans = {}

LinksIInv == LinksTyped /\ SendsSound /\ OrphansSound /\ \A p \in pushed : Backed(p)

(* A step that leaves the day, the keyspace and what is synced alone keeps    *)
(* everything about the contexts that are on their way and those that are out. *)
LEMMA ContextsRest ==
  ASSUME LinksIInv, UNCHANGED <<today, contexts, synced>>
  PROVE  /\ \A s : Underway(s) => Underway(s)'
         /\ \A p : Backed(p) => Backed(p)'
  <1> QED BY DEF Underway, Backed, Lasts

(* So does one that stores more of this day, or syncs what is stored.          *)
LEMMA UnderwayRests ==
  ASSUME LinksIInv, UNCHANGED today,
         \A c : Lasts(contexts, c, today) => Lasts(contexts, c, today)',
         \/ UNCHANGED synced
         \/ synced' = contexts'
  PROVE  \A s : Underway(s) => Underway(s)'
  <1> QED BY DEF Underway, Lasts

(* Orphans that are left alone, or are over, stay sound.                      *)
LEMMA OrphansRest ==
  ASSUME LinksIInv, orphans' \subseteq orphans, UNCHANGED serving,
         \A s : Underway(s) => Underway(s)'
  PROVE  OrphansSound'
  <1> QED BY DEF LinksIInv, OrphansSound

(* A context that is prepared is one the detail page accepts.                *)
LEMMA PrepareKeeps ==
  ASSUME LinksIInv, NEW n \in Everyone, Prepare(n)
  PROVE  LinksIInv'
  <1> USE DEF LinksIInv
  <1> DEFINE s == [step |-> "prepared", context |-> Snapshot(n), stored_at |-> today]
  <1>1. /\ send' = [send EXCEPT ![n] = s] /\ ValidSnapshot(Snapshot(n)) /\ serving
        /\ UNCHANGED <<today, serving, contexts, synced, orphans, pushed>>
    BY DEF Prepare
  <1>2. LinksTyped'
    BY <1>1 DEF LinksTyped
  <1>3. Underway(s)
    BY <1>1 DEF Underway
  <1>4. SendsSound'
    <2>1. \A m \in Everyone : send'[m] = IF m = n THEN s ELSE send[m]
      BY <1>1 DEF LinksTyped
    <2>2. SendSound(n)'
      BY <1>1, <1>3, <2>1 DEF SendSound, Underway, Lasts
    <2>3. \A m \in Everyone \ {n} : SendSound(m)'
      BY <1>1, <2>1 DEF SendsSound, SendSound, Underway, Lasts
    <2> QED BY <1>1, <2>2, <2>3 DEF SendsSound, SendSound
  <1>5. \A p \in pushed' : Backed(p)'
    BY <1>1, ContextsRest
  <1>6. OrphansSound'
    BY <1>1, ContextsRest, OrphansRest
  <1> QED BY <1>2, <1>4, <1>5, <1>6

(* The insert gives a context its newest day, also where another notice       *)
(* stored it before.                                                          *)
LEMMA PutPreparedKeeps ==
  ASSUME LinksIInv, NEW n \in Everyone, PutPrepared(n)
  PROVE  LinksIInv'
  <1> USE DEF LinksIInv
  <1> DEFINE s == send[n]
             t == [step |-> "put", context |-> s.context, stored_at |-> s.stored_at]
  <1>1. /\ s.step = "prepared" /\ send' = [send EXCEPT ![n].step = "put"]
        /\ contexts' = [c \in DOMAIN contexts \cup {s.context} |->
                          IF c = s.context THEN s.stored_at ELSE contexts[c]]
        /\ UNCHANGED <<today, serving, synced, orphans, pushed>>
    BY DEF PutPrepared, Inserted
  <1>2. s # Idle
    BY <1>1 DEF Idle
  <1>3. Underway(s)
    BY <1>2 DEF SendsSound, SendSound
  <1>4. \A m \in Everyone : send'[m] = IF m = n THEN t ELSE send[m]
    BY <1>1, <1>3 DEF LinksTyped, Underway
  <1>5. s.stored_at = today /\ today \in Nat
    BY <1>3 DEF Underway, LinksTyped
  <1>6. LinksTyped'
    BY <1>1, <1>5 DEF LinksTyped
  <1>7. \A c, day : day \in Nat /\ day <= today /\ Lasts(contexts, c, day) => Lasts(contexts, c, day)'
    BY <1>1, <1>5 DEF Lasts
  <1>8. SendSound(n)'
    BY <1>1, <1>3, <1>4, <1>5 DEF SendSound, Underway, Lasts
  <1>9. \A m \in Everyone \ {n} : SendSound(m)'
    BY <1>1, <1>4, <1>5, <1>7 DEF SendsSound, SendSound, Underway, Lasts
  <1>10. serving
    BY <1>2 DEF SendsSound, SendSound
  <1>11. SendsSound'
    BY <1>1, <1>8, <1>9, <1>10 DEF SendsSound, SendSound
  <1>12. \A p \in pushed : Backed(p)'
    BY <1>1, <1>5, <1>7 DEF Backed, Lasts
  <1>13. OrphansSound'
    BY <1>1, <1>5, <1>7, UnderwayRests, OrphansRest
  <1> QED BY <1>1, <1>6, <1>11, <1>12, <1>13

(* What is synced is all that was inserted.                                  *)
LEMMA PersistKeeps ==
  ASSUME LinksIInv, NEW n \in Everyone, Persist(n)
  PROVE  LinksIInv'
  <1> USE DEF LinksIInv
  <1> DEFINE s == send[n]
             t == [step |-> "persisted", context |-> s.context, stored_at |-> s.stored_at]
  <1>1. /\ s.step = "put" /\ send' = [send EXCEPT ![n].step = "persisted"]
        /\ synced' = contexts /\ UNCHANGED <<today, serving, contexts, orphans, pushed>>
    BY DEF Persist
  <1>2. s # Idle
    BY <1>1 DEF Idle
  <1>3. Underway(s)
    BY <1>2 DEF SendsSound, SendSound
  <1>4. \A m \in Everyone : send'[m] = IF m = n THEN t ELSE send[m]
    BY <1>1, <1>3 DEF LinksTyped, Underway
  <1>5. LinksTyped'
    BY <1>1 DEF LinksTyped
  <1>6. SendSound(n)'
    BY <1>1, <1>3, <1>4 DEF SendSound, Underway, Lasts
  <1>7. \A m \in Everyone \ {n} : SendSound(m)'
    BY <1>1, <1>4 DEF SendsSound, SendSound, Underway, Lasts
  <1>8. serving
    BY <1>2 DEF SendsSound, SendSound
  <1>9. SendsSound'
    BY <1>1, <1>6, <1>7, <1>8 DEF SendsSound, SendSound
  <1>10. \A p \in pushed : Backed(p)'
    BY <1>1 DEF Backed, Lasts
  <1>11. OrphansSound'
    BY <1>1, UnderwayRests, OrphansRest DEF Lasts
  <1> QED BY <1>1, <1>5, <1>9, <1>10, <1>11

(* The sends of some notices are over, the others go on.                     *)
LEMMA FinishKeeps ==
  ASSUME LinksIInv, NEW N \in SUBSET Everyone,
         send' = [m \in Everyone |-> IF m \in N THEN Idle ELSE send[m]],
         UNCHANGED <<today, serving, contexts, synced>>
  PROVE  LinksTyped' /\ SendsSound'
  <1> USE DEF LinksIInv
  <1>1. LinksTyped'
    BY DEF LinksTyped
  <1>2. \A m \in Everyone : send'[m] = IF m \in N THEN Idle ELSE send[m]
    OBVIOUS
  <1>3. \A m \in Everyone : SendSound(m)'
    BY <1>2 DEF SendsSound, SendSound, Underway, Lasts
  <1> QED BY <1>1, <1>2, <1>3 DEF SendsSound, SendSound

(* The link that goes to Bark is on disk.                                   *)
LEMMA PushKeeps ==
  ASSUME LinksIInv, NEW n \in Everyone, Push(n)
  PROVE  LinksIInv'
  <1> USE DEF LinksIInv
  <1> DEFINE s == send[n]
             p == [context |-> s.context, stored_at |-> s.stored_at]
  <1>1. /\ s.step = "persisted" /\ pushed' \in {pushed, {p}}
        /\ send' = [send EXCEPT ![n] = Idle]
        /\ UNCHANGED <<today, serving, contexts, synced, orphans>>
    BY DEF Push, Finish
  <1>2. s # Idle
    BY <1>1 DEF Idle
  <1>3. Underway(s)
    BY <1>2 DEF SendsSound, SendSound
  <1>4. send' = [m \in Everyone |-> IF m \in {n} THEN Idle ELSE send[m]]
    BY <1>1 DEF LinksTyped
  <1>5. LinksTyped' /\ SendsSound'
    BY <1>1, <1>4, FinishKeeps
  <1>6. Backed(p)
    BY <1>1, <1>3 DEF Backed, Underway, Lasts, LinksTyped
  <1>7. \A q \in pushed' : Backed(q)
    BY <1>1, <1>6
  <1>8. \A q \in pushed' : Backed(q)'
    BY <1>1, <1>7, ContextsRest
  <1>9. OrphansSound'
    BY <1>1, ContextsRest, OrphansRest
  <1> QED BY <1>5, <1>8, <1>9

(* An error ends a send before its push.                                      *)
LEMMA GiveUpKeeps ==
  ASSUME LinksIInv, NEW n \in Everyone, GiveUp(n)
  PROVE  LinksIInv'
  <1> USE DEF LinksIInv
  <1>1. /\ send' = [m \in Everyone |-> IF m \in {n} THEN Idle ELSE send[m]]
        /\ UNCHANGED <<today, serving, contexts, synced, orphans, pushed>>
    BY DEF GiveUp, Finish, LinksTyped
  <1>2. OrphansSound'
    BY <1>1, ContextsRest, OrphansRest
  <1> QED BY <1>1, <1>2, FinishKeeps, ContextsRest

(* A client that hangs up ends its sends; what is being stored goes on.       *)
LEMMA HangUpKeeps ==
  ASSUME LinksIInv, HangUpSimulate
  PROVE  LinksIInv'
  <1> USE DEF LinksIInv
  <1>1. /\ UNCHANGED <<today, serving, contexts, synced, pushed>>
        /\ send' = [m \in Everyone |-> IF m \in Everyone \ Notices THEN Idle ELSE send[m]]
        /\ \A s \in orphans' :
             s \in orphans \/ \E n \in Everyone : s = send[n] /\ Storing(s)
    BY DEF HangUpSimulate
  <1>2. LinksTyped' /\ SendsSound'
    BY <1>1, FinishKeeps
  <1>3. ASSUME NEW s \in orphans' PROVE Underway(s) /\ serving
    <2>1. CASE s \in orphans
      BY <2>1 DEF OrphansSound
    <2>2. ASSUME NEW n \in Everyone, s = send[n], Storing(s) PROVE Underway(s) /\ serving
      <3>1. send[n] # Idle
        BY <2>2 DEF Storing, Idle
      <3> QED BY <2>2, <3>1 DEF SendsSound, SendSound
    <2> QED BY <1>1, <2>1, <2>2
  <1>4. \A s : Underway(s) => Underway(s)'
    BY <1>1, ContextsRest
  <1>5. OrphansSound'
    BY <1>1, <1>3, <1>4 DEF OrphansSound
  <1> QED BY <1>1, <1>2, <1>5, ContextsRest

(* What a blocking task stores for nobody takes nothing from the others.      *)
LEMMA OrphanKeeps ==
  ASSUME LinksIInv, NEW o \in orphans, PutOrphan(o) \/ PersistOrphan(o) \/ FailOrphan(o)
  PROVE  LinksIInv'
  <1> USE DEF LinksIInv
  <1>1. UNCHANGED <<today, serving, send, pushed>>
    BY DEF PutOrphan, PersistOrphan, FailOrphan
  <1>2. Underway(o) /\ serving /\ o.stored_at = today /\ today \in Nat
    BY DEF OrphansSound, Underway, LinksTyped
  <1>3. /\ LinksTyped'
        /\ \A c, day : day \in Nat /\ day <= today /\ Lasts(contexts, c, day)
                        => Lasts(contexts, c, day)'
        /\ UNCHANGED synced \/ (synced' = contexts' /\ UNCHANGED contexts)
    <2>1. CASE PutOrphan(o)
      BY <1>1, <1>2, <2>1 DEF PutOrphan, Inserted, LinksTyped, Lasts
    <2>2. CASE PersistOrphan(o) \/ FailOrphan(o)
      BY <1>1, <2>2 DEF PersistOrphan, FailOrphan, LinksTyped
    <2> QED BY <2>1, <2>2
  <1>4. \A s : Underway(s) => Underway(s)'
    BY <1>1, <1>2, <1>3, UnderwayRests
  <1>5. SendsSound'
    BY <1>1, <1>2, <1>4 DEF SendsSound, SendSound
  <1>6. OrphansSound'
    <2>1. CASE PutOrphan(o)
      <3> DEFINE t == [o EXCEPT !.step = "put"]
      <3>1. o.step = "prepared" /\ contexts' = Inserted(o) /\ orphans' = (orphans \ {o}) \cup {t}
        BY <2>1 DEF PutOrphan
      <3>2. t = [step |-> "put", context |-> o.context, stored_at |-> o.stored_at]
        BY <1>2, <3>1 DEF Underway
      <3>3. Underway(t)'
        BY <1>1, <1>2, <3>1, <3>2 DEF Underway, Inserted, Lasts
      <3> QED BY <1>1, <1>2, <1>4, <3>1, <3>3 DEF OrphansSound
    <2>2. CASE PersistOrphan(o) \/ FailOrphan(o)
      BY <1>1, <1>4, <2>2, OrphansRest DEF PersistOrphan, FailOrphan
    <2> QED BY <2>1, <2>2
  <1>7. \A p \in pushed : Backed(p)'
    BY <1>1, <1>2, <1>3 DEF Backed, Lasts
  <1> QED BY <1>1, <1>3, <1>5, <1>6, <1>7

(* Work that arrives or is skipped changes nothing.                          *)
LEMMA QueueingKeeps ==
  ASSUME LinksIInv, Simulate \/ SkipKey
  PROVE  LinksIInv'
  <1>1. UNCHANGED <<today, serving, contexts, synced, send, orphans, pushed>>
    BY DEF Simulate, SkipKey
  <1> QED BY <1>1 DEF LinksIInv, LinksTyped, SendsSound, SendSound, OrphansSound, Underway,
                      Backed, Lasts

(* A crash loses no context whose link is out.                               *)
LEMMA CrashKeeps ==
  ASSUME LinksIInv, Crash
  PROVE  LinksIInv'
  <1>1. /\ serving' = FALSE /\ contexts' \in {contexts, synced}
        /\ send' = [n \in Everyone |-> Idle] /\ orphans' = {}
        /\ UNCHANGED <<today, synced, pushed>>
    BY DEF Crash
  <1>2. LinksTyped'
    BY <1>1 DEF LinksIInv, LinksTyped
  <1>3. SendsSound'
    BY <1>1 DEF SendsSound, SendSound
  <1>4. \A p \in pushed : Backed(p)'
    BY <1>1 DEF LinksIInv, Backed, Lasts
  <1>5. OrphansSound'
    BY <1>1 DEF OrphansSound
  <1> QED BY <1>1, <1>2, <1>3, <1>4, <1>5 DEF LinksIInv

(* The startup prunes no context younger than the retention.                  *)
LEMMA StartupKeeps ==
  ASSUME LinksIInv, Startup
  PROVE  LinksIInv'
  <1> USE DEF LinksIInv
  <1>1. /\ ~serving /\ serving' = TRUE
        /\ contexts' = [c \in {d \in DOMAIN contexts : Retained(d)} |-> contexts[c]]
        /\ UNCHANGED <<today, synced, send, orphans, pushed>>
    BY DEF Startup
  <1>2. LinksTyped'
    BY <1>1 DEF LinksTyped
  <1>3. SendsSound'
    BY <1>1 DEF SendsSound, SendSound
  <1>4. ASSUME NEW p \in pushed PROVE Backed(p)'
    <2>1. Backed(p) /\ today \in Nat /\ Retention \in Nat
      BY DEF LinksTyped
    <2>2. \A c \in DOMAIN contexts : contexts[c] \in Nat
      BY DEF LinksTyped
    <2>3. today - p.stored_at < Retention => Lasts(contexts, p.context, p.stored_at)'
      BY <1>1, <2>1, <2>2 DEF Backed, Lasts, Retained
    <2> QED BY <1>1, <2>1, <2>3 DEF Backed, Lasts
  <1>5. OrphansSound'
    BY <1>1 DEF OrphansSound
  <1> QED BY <1>1, <1>2, <1>3, <1>4, <1>5

(* A day passes when nothing is on its way.                                  *)
LEMMA NextDayKeeps ==
  ASSUME LinksIInv, NextDay
  PROVE  LinksIInv'
  <1>1. /\ \A n \in Everyone : send[n] = Idle
        /\ orphans = {}
        /\ today' = today + 1 /\ UNCHANGED <<serving, contexts, synced, send, orphans, pushed>>
    BY DEF NextDay
  <1>2. LinksTyped' /\ SendsSound' /\ OrphansSound'
    BY <1>1 DEF LinksIInv, LinksTyped, SendsSound, SendSound, OrphansSound
  <1>3. \A p \in pushed : Backed(p)'
    BY <1>1 DEF LinksIInv, LinksTyped, Backed, Lasts
  <1> QED BY <1>1, <1>2, <1>3 DEF LinksIInv

(* The contexts of the links that are out are on disk in every reachable      *)
(* state.                                                                     *)
LEMMA LinksInvariant == LinksSpec => []LinksIInv
  <1>1. InitLinks => LinksIInv
    BY DEF InitLinks, LinksIInv, LinksTyped, SendsSound, SendSound, OrphansSound
  <1>2. LinksIInv /\ [NextLinks]_linkVars => LinksIInv'
    <2> SUFFICES ASSUME LinksIInv, [NextLinks]_linkVars PROVE LinksIInv'
      OBVIOUS
    <2>1. CASE UNCHANGED linkVars
      BY <2>1 DEF linkVars, LinksIInv, LinksTyped, SendsSound, SendSound, OrphansSound, Underway,
                  Backed, Lasts
    <2>2. CASE NextLinks
      BY <2>2, PrepareKeeps, PutPreparedKeeps, PersistKeeps, PushKeeps, GiveUpKeeps,
         HangUpKeeps, OrphanKeeps, QueueingKeeps, CrashKeeps, StartupKeeps, NextDayKeeps DEF NextLinks
    <2> QED BY <2>1, <2>2
  <1> QED BY <1>1, <1>2, PTL DEF LinksSpec

(* A link that reached a device opens for the whole retention time, whatever  *)
(* crashed or was pruned since, and shows the incident of its own path only   *)
(* (put_prepared, prune and verify, context.rs 98-157, 435-467).              *)
THEOREM LinksStayOpen == LinksSpec => []LinkOpens
  <1>1. LinksIInv => LinkOpens
    <2> SUFFICES ASSUME LinksIInv, NEW p \in pushed, serving, today - p.stored_at < Retention
                 PROVE  /\ Detail(p.context.incident, p.context).status = 200
                        /\ \A n \in Everyone : n.incident # p.context.incident =>
                             Detail(n.incident, p.context) = NotFound
      BY DEF LinkOpens
    <2>1. Verified(p.context.incident, p.context)
      BY DEF LinksIInv, Backed, Lasts, Verified, Got
    <2>2. Detail(p.context.incident, p.context).status = 200
      BY <2>1 DEF Detail
    <2> QED BY <2>2 DEF Detail, Verified
  <1> QED BY <1>1, LinksInvariant, PTL

-----------------------------------------------------------------------------
(* Induction *)

LessThan == {p \in Nat \X Nat : p[1] < p[2]}

(* The order of the natural numbers, as a set of pairs, is well-founded.    *)
LEMMA LessThanIsWellFounded == IsWellFoundedOn(LessThan, Nat)
  BY NatLessThanWellFounded, Zenon DEF OpToRel, LessThan

(* Numbers have a least one.                                                *)
LEMMA LeastNumber ==
  ASSUME NEW S \in SUBSET Nat, S # {}
  PROVE  \E l \in S : \A n \in S : l <= n
  <1>1. IsWellFoundedOn(LessThan, Nat)
    BY LessThanIsWellFounded
  <1>2. PICK l \in S : \A n \in S : <<n, l>> \notin LessThan
    BY <1>1, WFMin
  <1>3. ASSUME NEW n \in S PROVE l <= n
    <2>1. n \in Nat /\ l \in Nat /\ <<n, l>> \notin LessThan
      BY <1>2
    <2>2. ~(n < l)
      BY <2>1 DEF LessThan
    <2> QED BY <2>1, <2>2
  <1> QED BY <1>3

(* Induction, said of a set and not of a predicate: what the provers here   *)
(* can instantiate.                                                         *)
LEMMA NaturalInduction ==
  ASSUME NEW S, 0 \in S, \A n \in Nat : n \in S => n + 1 \in S
  PROVE  Nat \subseteq S
  <1> DEFINE T == Nat \ S
  <1> SUFFICES ASSUME T # {} PROVE FALSE
    OBVIOUS
  <1>1. IsWellFoundedOn(LessThan, Nat)
    BY LessThanIsWellFounded
  <1>2. PICK m \in T : \A k \in T : <<k, m>> \notin LessThan
    BY <1>1, WFMin
  <1>3. m # 0 /\ m - 1 \in Nat
    OBVIOUS
  <1>4. <<m - 1, m>> \in LessThan
    BY <1>3 DEF LessThan
  <1>5. m - 1 \in S
    BY <1>2, <1>3, <1>4
  <1> QED BY <1>3, <1>5

(* A move maps a value and an index to the next value; the iterates of a    *)
(* move are the functions that begin at the base and follow it.             *)
StepsWithin(move, V, N) == \A v \in V : \A n \in 1 .. N : move[<<v, n>>] \in V

Iterates(base, move, V, N) ==
  {f \in [0 .. N -> V] : f[0] = base /\ \A n \in 1 .. N : f[n] = move[<<f[n - 1], n>>]}

(* What a recursive definition along a sequence defines exists.             *)
LEMMA Recursion ==
  ASSUME NEW N \in Nat, NEW V, NEW base \in V, NEW move, StepsWithin(move, V, N)
  PROVE  Iterates(base, move, V, N) # {}
  <1> USE DEF StepsWithin
  <1> DEFINE Built(f, m) == f[0] = base /\ \A n \in 1 .. m : f[n] = move[<<f[n - 1], n>>]
             S == {m \in Nat : m <= N => \E f \in [0 .. m -> V] : Built(f, m)}
  <1>1. 0 \in S
    <2>1. [i \in 0 .. 0 |-> base] \in [0 .. 0 -> V] /\ Built([i \in 0 .. 0 |-> base], 0)
      OBVIOUS
    <2> QED BY <2>1
  <1>2. ASSUME NEW m \in Nat, m \in S PROVE m + 1 \in S
    <2> SUFFICES ASSUME m + 1 <= N PROVE \E g \in [0 .. m + 1 -> V] : Built(g, m + 1)
      OBVIOUS
    <2>1. PICK f \in [0 .. m -> V] : Built(f, m)
      BY <1>2
    <2> DEFINE g == [n \in 0 .. m + 1 |-> IF n = m + 1 THEN move[<<f[m], m + 1>>] ELSE f[n]]
    <2>2. g \in [0 .. m + 1 -> V]
      OBVIOUS
    <2>3. g[0] = base
      BY <2>1
    <2>4. \A n \in 1 .. m : g[n] = move[<<g[n - 1], n>>]
      <3> SUFFICES ASSUME NEW n \in 1 .. m PROVE g[n] = move[<<g[n - 1], n>>]
        OBVIOUS
      <3>1. g[n] = f[n] /\ g[n - 1] = f[n - 1]
        OBVIOUS
      <3> QED BY <2>1, <3>1
    <2>5. g[m + 1] = move[<<g[m], m + 1>>]
      <3>1. m \in 0 .. m + 1 /\ m + 1 \in 0 .. m + 1 /\ m # m + 1
        OBVIOUS
      <3>2. g[m] = f[m] /\ g[m + 1] = move[<<f[m], m + 1>>]
        BY <3>1
      <3> QED BY <3>2
    <2> HIDE DEF g
    <2>6. \A n \in 1 .. m + 1 : g[n] = move[<<g[n - 1], n>>]
      <3> SUFFICES ASSUME NEW n \in 1 .. m + 1 PROVE g[n] = move[<<g[n - 1], n>>]
        OBVIOUS
      <3>1. CASE n = m + 1
        BY <2>5, <3>1
      <3>2. CASE n # m + 1
        BY <2>4, <3>2
      <3> QED BY <3>1, <3>2
    <2> QED BY <2>2, <2>3, <2>6
  <1> HIDE DEF S
  <1>3. N \in S
    BY <1>1, <1>2, NaturalInduction
  <1> QED BY <1>3 DEF S, Iterates

-----------------------------------------------------------------------------
(* Sequences without repetition *)

(* What a sequence holds.                                                   *)
Contents(s) == {s[i] : i \in 1 .. Len(s)}

(* An appended element is all that is added.                                *)
LEMMA AppendedContents ==
  ASSUME NEW R, NEW s \in Seq(R), NEW x \in R
  PROVE  Contents(Append(s, x)) = Contents(s) \cup {x}
  <1>1. Len(Append(s, x)) = Len(s) + 1 /\ Append(s, x)[Len(s) + 1] = x
    OBVIOUS
  <1>2. \A i \in 1 .. Len(s) : Append(s, x)[i] = s[i]
    OBVIOUS
  <1>3. Len(s) \in Nat
    OBVIOUS
  <1> QED BY <1>1, <1>2, <1>3 DEF Contents

(* Without follows its recursive definition: the coordinates listed so far,  *)
(* but for one.                                                              *)
LEMMA WithoutUnfolds ==
  ASSUME NEW R, NEW order \in Seq(R), NEW c
  PROVE  \E kept \in [0 .. Len(order) -> Seq(R)] :
           /\ kept[0] = <<>> /\ Without(order, c) = kept[Len(order)]
           /\ \A n \in 1 .. Len(order) :
                kept[n] = IF order[n] = c THEN kept[n - 1] ELSE Append(kept[n - 1], order[n])
  <1> DEFINE N == Len(order)
             V == Seq(R)
             Next1(v, n) == IF order[n] = c THEN v ELSE Append(v, order[n])
             move == [p \in V \X (1 .. N) |-> Next1(p[1], p[2])]
             Body(f) == [n \in 0 .. N |->
                          IF n = 0 THEN <<>>
                          ELSE IF order[n] = c THEN f[n - 1]
                          ELSE Append(f[n - 1], order[n])]
  <1>1. \A v \in V : \A n \in 1 .. N : move[<<v, n>>] = Next1(v, n) /\ move[<<v, n>>] \in V
    OBVIOUS
  <1>2. ASSUME NEW f \in [0 .. N -> V], f[0] = <<>>,
               \A n \in 1 .. N : f[n] = move[<<f[n - 1], n>>]
        PROVE  f = Body(f)
    <2>1. ASSUME NEW n \in 0 .. N PROVE f[n] = Body(f)[n]
      <3>1. CASE n = 0
        BY <1>2, <3>1
      <3>2. CASE n \in 1 .. N
        <4>1. f[n - 1] \in V
          BY <3>2
        <4>2. f[n] = Next1(f[n - 1], n)
          BY <1>1, <1>2, <3>2, <4>1
        <4> QED BY <3>2, <4>2
      <3> QED BY <3>1, <3>2
    <2> HIDE DEF V, N
    <2>2. DOMAIN Body(f) = 0 .. N /\ DOMAIN f = 0 .. N
      OBVIOUS
    <2>3. f = [n \in 0 .. N |-> f[n]]
      OBVIOUS
    <2> QED BY <2>1, <2>2, <2>3
  <1>3. N \in Nat /\ <<>> \in V
    OBVIOUS
  <1>4. \E f \in [0 .. N -> V] :
          f[0] = <<>> /\ \A n \in 1 .. N : f[n] = move[<<f[n - 1], n>>]
    <2>1. StepsWithin(move, V, N)
      BY <1>1 DEF StepsWithin
    <2> HIDE DEF move, V, N
    <2>2. Iterates(<<>>, move, V, N) # {}
      BY <2>1, <1>3, Recursion
    <2> QED BY <2>2 DEF Iterates
  <1>5. \E f : f = Body(f)
    <2> HIDE DEF move, Body
    <2> QED BY <1>2, <1>4
  <1> DEFINE kept == CHOOSE f : f = Body(f)
  <1>6. kept = Body(kept)
    <2> HIDE DEF Body
    <2> QED BY <1>5, Zenon
  <1>7. Without(order, c) = kept[N]
    BY Zenon DEF Without
  <1> HIDE DEF kept
  <1>8. kept[0] = <<>> /\ \A n \in 1 .. N : kept[n] = Next1(kept[n - 1], n)
    <2> HIDE DEF V
    <2>1. \A n \in 0 .. N : kept[n] = Body(kept)[n]
      BY <1>6, Zenon
    <2> QED BY <1>3, <2>1
  <1> DEFINE S == {n \in Nat : n <= N => kept[n] \in V}
  <1>9. 0 \in S /\ \A n \in Nat : n \in S => n + 1 \in S
    <2> SUFFICES ASSUME NEW n \in Nat, kept[n] \in V, n + 1 <= N PROVE kept[n + 1] \in V
      <3>1. kept[0] \in V
        BY <1>8, <1>3
      <3> HIDE DEF V, N
      <3> QED BY <3>1, <1>3
    <2>1. n + 1 \in 1 .. N /\ (n + 1) - 1 = n
      BY <1>3
    <2>2. kept[n + 1] = Next1(kept[n], n + 1)
      BY <1>8, <2>1
    <2> QED BY <2>1, <2>2
  <1>10. Nat \subseteq S
    <2> HIDE DEF S
    <2> QED BY <1>9, NaturalInduction
  <1>11. kept \in [0 .. N -> V]
    <2>1. \A n \in 0 .. N : kept[n] \in V
      <3> HIDE DEF V, N
      <3> QED BY <1>3, <1>10
    <2>2. kept = [n \in 0 .. N |-> kept[n]]
      <3>1. DOMAIN kept = 0 .. N
        BY <1>6
      <3> QED BY <1>6, <3>1, Zenon
    <2> HIDE DEF V, N
    <2> QED BY <2>1, <2>2
  <1> QED BY <1>7, <1>8, <1>11

Distinct(s) == \A i, j \in 1 .. Len(s) : s[i] = s[j] => i = j

(* A new element keeps a sequence without repetition.                        *)
LEMMA AppendDistinct ==
  ASSUME NEW R, NEW s \in Seq(R), NEW x \in R, Distinct(s), x \notin Contents(s)
  PROVE  Append(s, x) \in Seq(R) /\ Distinct(Append(s, x))
  <1>1. Len(s) \in Nat /\ Len(Append(s, x)) = Len(s) + 1 /\ Append(s, x)[Len(s) + 1] = x
    OBVIOUS
  <1>2. \A i \in 1 .. Len(s) : Append(s, x)[i] = s[i] /\ s[i] # x
    BY DEF Contents
  <1>3. 1 .. Len(s) + 1 = (1 .. Len(s)) \cup {Len(s) + 1}
    BY <1>1
  <1>4. Append(s, x) \in Seq(R)
    OBVIOUS
  <1> QED BY <1>1, <1>2, <1>3, <1>4 DEF Distinct

(* A sequence without repetition is as long as it has elements.             *)
LEMMA DistinctLength ==
  ASSUME NEW R, NEW s \in Seq(R), Distinct(s)
  PROVE  Cardinality(Contents(s)) = Len(s)
  <1>1. Len(s) \in Nat
    OBVIOUS
  <1>2. s \in Bijection(1 .. Len(s), Contents(s))
    BY DEF Bijection, Injection, Surjection, IsInjective, Distinct, Contents
  <1>3. ExistsBijection(1 .. Len(s), Contents(s))
    BY <1>2 DEF ExistsBijection
  <1>4. IsFiniteSet(1 .. Len(s)) /\ Cardinality(1 .. Len(s)) = Len(s)
    <2>1. 1 \in Int /\ Len(s) \in Int
      OBVIOUS
    <2>2. /\ IsFiniteSet(1 .. Len(s))
          /\ Cardinality(1 .. Len(s)) = IF 1 > Len(s) THEN 0 ELSE Len(s) - 1 + 1
      BY <2>1, FS_Interval, Zenon
    <2> QED BY <1>1, <2>2
  <1> QED BY <1>3, <1>4, FS_Bijection

After(s, k) == SubSeq(s, k + 1, Len(s))

(* The end of a sequence without repetition has what its beginning has not.   *)
LEMMA DistinctEnd ==
  ASSUME NEW R, NEW s \in Seq(R), Distinct(s), NEW k \in 0 .. Len(s)
  PROVE  /\ After(s, k) \in Seq(R) /\ Len(After(s, k)) = Len(s) - k /\ Distinct(After(s, k))
         /\ Contents(After(s, k)) = Contents(s) \ {s[i] : i \in 1 .. k}
  <1> DEFINE t == After(s, k)
  <1>1. Len(s) \in Nat /\ k \in Nat /\ k <= Len(s)
    OBVIOUS
  <1>2. t \in Seq(R) /\ Len(t) = Len(s) - k /\ \A i \in 1 .. Len(s) - k : t[i] = s[i + k]
    BY <1>1 DEF After
  <1> HIDE DEF t
  <1>3. Distinct(t)
    <2> SUFFICES ASSUME NEW i \in 1 .. Len(s) - k, NEW j \in 1 .. Len(s) - k, t[i] = t[j] PROVE i = j
      BY <1>2 DEF Distinct
    <2>1. i + k \in 1 .. Len(s) /\ j + k \in 1 .. Len(s) /\ s[i + k] = s[j + k]
      BY <1>1, <1>2
    <2>2. i + k = j + k
      BY <2>1 DEF Distinct
    <2> QED BY <1>1, <2>2
  <1>4. ASSUME NEW x \in Contents(t) PROVE x \in Contents(s) \ {s[i] : i \in 1 .. k}
    <2>1. PICK i \in 1 .. Len(s) - k : x = s[i + k]
      BY <1>2 DEF Contents
    <2>2. i + k \in 1 .. Len(s) /\ \A j \in 1 .. k : j \in 1 .. Len(s) /\ j # i + k
      BY <1>1
    <2> QED BY <2>1, <2>2 DEF Contents, Distinct
  <1>5. ASSUME NEW x \in Contents(s) \ {s[i] : i \in 1 .. k} PROVE x \in Contents(t)
    <2>1. PICK i \in 1 .. Len(s) : x = s[i]
      BY DEF Contents
    <2>2. i \notin 1 .. k
      BY <2>1
    <2>3. i - k \in 1 .. Len(s) - k /\ (i - k) + k = i
      BY <1>1, <2>2
    <2>4. t[i - k] = x
      BY <1>2, <2>1, <2>3
    <2> QED BY <1>2, <2>3, <2>4 DEF Contents
  <1> QED BY <1>2, <1>3, <1>4, <1>5 DEF t

(* retain drops the one coordinate of the order.                            *)
LEMMA WithoutContents ==
  ASSUME NEW R, NEW order \in Seq(R), Distinct(order), NEW c
  PROVE  /\ Without(order, c) \in Seq(R) /\ Distinct(Without(order, c))
         /\ Len(Without(order, c)) <= Len(order)
         /\ Contents(Without(order, c)) = Contents(order) \ {c}
  <1> DEFINE N == Len(order)
             Upto(m) == {order[i] : i \in 1 .. m}
  <1>0. N \in Nat /\ \A i \in 1 .. N : order[i] \in R
    OBVIOUS
  <1>1. PICK kept \in [0 .. N -> Seq(R)] :
          /\ kept[0] = <<>> /\ Without(order, c) = kept[N]
          /\ \A n \in 1 .. N :
               kept[n] = IF order[n] = c THEN kept[n - 1] ELSE Append(kept[n - 1], order[n])
    BY WithoutUnfolds
  <1> DEFINE Right(m) == /\ Contents(kept[m]) = Upto(m) \ {c} /\ Len(kept[m]) <= m
                         /\ Distinct(kept[m])
             S == {m \in Nat : m <= N => Right(m)}
  <1>2. 0 \in S
    BY <1>1 DEF Contents, Distinct
  <1>3. ASSUME NEW m \in Nat, m \in S PROVE m + 1 \in S
    <2> SUFFICES ASSUME m + 1 <= N PROVE Right(m + 1)
      OBVIOUS
    <2> DEFINE x == order[m + 1]
    <2>1. m + 1 \in 1 .. N /\ m \in 0 .. N /\ (m + 1) - 1 = m
      BY <1>0
    <2>2. Right(m) /\ kept[m] \in Seq(R) /\ x \in R
      BY <1>0, <1>1, <1>3, <2>1
    <2>3. Upto(m + 1) = Upto(m) \cup {x}
      <3>1. 1 .. m + 1 = (1 .. m) \cup {m + 1}
        OBVIOUS
      <3> QED BY <3>1
    <2>4. x \notin Upto(m)
      <3>1. \A i \in 1 .. m : i \in 1 .. N /\ i # m + 1
        BY <1>0, <2>1
      <3> QED BY <2>1, <3>1 DEF Distinct
    <2>5. kept[m + 1] = IF x = c THEN kept[m] ELSE Append(kept[m], x)
      BY <1>1, <2>1
    <2> HIDE DEF x, Upto
    <2>6. CASE x = c
      <3>1. Len(kept[m]) \in Nat
        BY <2>2
      <3> QED BY <2>2, <2>3, <2>5, <2>6, <3>1
    <2>7. CASE x # c
      <3>1. x \notin Contents(kept[m])
        BY <2>2, <2>4
      <3>2. Distinct(Append(kept[m], x))
        BY <2>2, <3>1, AppendDistinct
      <3>3. Contents(Append(kept[m], x)) = Contents(kept[m]) \cup {x}
        BY <2>2, AppendedContents
      <3>4. Len(Append(kept[m], x)) = Len(kept[m]) + 1 /\ Len(kept[m]) \in Nat
        BY <2>2
      <3> QED BY <2>2, <2>3, <2>5, <2>7, <3>2, <3>3, <3>4
    <2> QED BY <2>6, <2>7
  <1>4. N \in S
    <2> HIDE DEF S, N
    <2> QED BY <1>0, <1>2, <1>3, NaturalInduction
  <1>5. Right(N) /\ kept[N] \in Seq(R)
    <2> HIDE DEF Right, N
    <2> QED BY <1>0, <1>1, <1>4
  <1> QED BY <1>1, <1>5 DEF Contents

-----------------------------------------------------------------------------
(* The locks, the slot and the cache of the reverse geocoder *)

QuerySteps == LookupSteps \cup {"idle", "locking", "locked", "answered", "failed", "gone"}

GeocoderTyped ==
  /\ at \in [Queries -> QuerySteps] /\ key \in [Queries -> Coordinates]
  /\ DOMAIN lock = Queries /\ DOMAIN registered = Coordinates
  /\ recent \in BOOLEAN

(* Who has a reference to a lock has the one that is registered for its       *)
(* coordinate, and one query at a time is inside.                             *)
LocksSound ==
  /\ \A q \in Queries : Refers(q) => lock[q] \in Queries /\ registered[key[q]] = lock[q]
  /\ \A p, q \in Queries : Holding(p) /\ Holding(q) /\ lock[p] = lock[q] => p = q

LookupsNeeded == \A q \in Queries : Looking(q) => key[q] \notin fresh

SlotsSound == granted \in {0, 1} /\ (~recent => granted = 0)

CacheSound ==
  /\ cache_order \in Seq(Coordinates) /\ Distinct(cache_order) /\ Len(cache_order) <= MaxCached
  /\ cached = Contents(cache_order) /\ fresh \subseteq cached

GeocoderIInv == GeocoderTyped /\ LocksSound /\ LookupsNeeded /\ SlotsSound /\ CacheSound

(* A query that goes on under its lock, or lets go of it, disturbs no other.  *)
LEMMA GoKeeps ==
  ASSUME GeocoderIInv, NEW q \in Queries, NEW s \in QuerySteps, Go(q, s), Refers(q),
         s \notin {"locking", "locked"}, s \in LookupSteps => Holding(q),
         UNCHANGED <<key, lock, registered, recent>>
  PROVE  GeocoderTyped' /\ LocksSound'
  <1> USE DEF GeocoderIInv
  <1>1. at' \in [Queries -> QuerySteps] /\ \A p \in Queries : at'[p] = IF p = q THEN s ELSE at[p]
    BY DEF Go, GeocoderTyped
  <1>2. GeocoderTyped'
    BY <1>1 DEF GeocoderTyped
  <1>3. \A p \in Queries : (Refers(p)' => Refers(p)) /\ (Holding(p)' => Holding(p))
    BY <1>1 DEF Refers, Holding
  <1>4. LocksSound'
    BY <1>3 DEF LocksSound
  <1> QED BY <1>2, <1>4

(* coordinate_lock drops only locks nobody has a reference to.               *)
LEMMA AskKeeps ==
  ASSUME GeocoderIInv, NEW q \in Queries, NEW c \in Coordinates, Ask(q, c)
  PROVE  GeocoderIInv'
  <1> USE DEF GeocoderIInv
  <1> DEFINE kept == [d \in Coordinates |-> IF Upgrades(registered[d]) THEN registered[d] ELSE NoLock]
             mine == IF kept[c] = NoLock THEN q ELSE kept[c]
  <1>1. /\ at[q] = "idle" /\ key' = [key EXCEPT ![q] = c]
        /\ lock' = [lock EXCEPT ![q] = mine] /\ registered' = [kept EXCEPT ![c] = mine]
        /\ at' = [at EXCEPT ![q] = "locking"] /\ UNCHANGED <<cacheVars, slotVars>>
    BY DEF Ask, Go
  <1>2. /\ at' \in [Queries -> QuerySteps] /\ key' \in [Queries -> Coordinates]
        /\ at'[q] = "locking" /\ key'[q] = c /\ lock'[q] = mine
        /\ \A p \in Queries \ {q} : at'[p] = at[p] /\ key'[p] = key[p] /\ lock'[p] = lock[p]
    BY <1>1 DEF GeocoderTyped, QuerySteps
  <1>3. \A d \in Coordinates :
          registered'[d] = IF d = c THEN mine
                           ELSE IF Upgrades(registered[d]) THEN registered[d] ELSE NoLock
    <2> HIDE DEF mine
    <2> QED BY <1>1
  <1>4. mine = IF Upgrades(registered[c]) /\ registered[c] # NoLock THEN registered[c] ELSE q
    OBVIOUS
  <1>5. GeocoderTyped'
    <2> HIDE DEF kept, mine
    <2>1. DOMAIN lock' = Queries /\ DOMAIN registered' = DOMAIN kept /\ UNCHANGED recent
      BY <1>1 DEF GeocoderTyped, slotVars
    <2> QED BY <1>2, <2>1 DEF GeocoderTyped, kept
  <1>6. mine \in Queries
    BY <1>4 DEF Upgrades, LocksSound
  <1> HIDE DEF mine, kept
  <1>7. ASSUME NEW p \in Queries, Refers(p)' PROVE lock'[p] \in Queries /\ registered'[key'[p]] = lock'[p]
    <2>1. CASE p = q
      BY <1>2, <1>3, <1>6, <2>1
    <2>2. CASE p # q
      <3>1. Refers(p) /\ lock'[p] = lock[p] /\ key'[p] = key[p]
        BY <1>2, <1>7, <2>2 DEF Refers, Holding
      <3>2. lock[p] \in Queries /\ registered[key[p]] = lock[p] /\ key[p] \in Coordinates
        BY <3>1 DEF LocksSound, GeocoderTyped
      <3>3. Upgrades(registered[key[p]]) /\ registered[key[p]] # NoLock
        BY <3>1, <3>2 DEF Upgrades
      <3> QED BY <1>3, <1>4, <3>1, <3>2, <3>3
    <2> QED BY <2>1, <2>2
  <1>8. \A p \in Queries : Holding(p)' => Holding(p) /\ p # q
    BY <1>2 DEF Holding, LookupSteps
  <1>9. LocksSound'
    BY <1>2, <1>7, <1>8 DEF LocksSound
  <1>10. LookupsNeeded'
    BY <1>1, <1>2 DEF LookupsNeeded, Looking, LookupSteps, cacheVars
  <1>11. SlotsSound' /\ CacheSound'
    BY <1>1 DEF SlotsSound, CacheSound, slotVars, cacheVars
  <1> QED BY <1>5, <1>9, <1>10, <1>11

(* The lock is given to one query at a time.                                 *)
LEMMA LockKeeps ==
  ASSUME GeocoderIInv, NEW q \in Queries, Lock(q)
  PROVE  GeocoderIInv'
  <1> USE DEF GeocoderIInv
  <1>1. /\ at[q] = "locking" /\ at' = [at EXCEPT ![q] = "locked"]
        /\ \A p \in Queries : Holding(p) => lock[p] # lock[q]
        /\ UNCHANGED <<key, lock, registered, cacheVars, slotVars>>
    BY DEF Lock, Go
  <1>2. at' \in [Queries -> QuerySteps] /\ \A p \in Queries : at'[p] = IF p = q THEN "locked" ELSE at[p]
    BY <1>1 DEF GeocoderTyped, QuerySteps
  <1>3. GeocoderTyped'
    BY <1>1, <1>2 DEF GeocoderTyped, slotVars
  <1>4. \A p \in Queries : (Refers(p)' => Refers(p)) /\ (Holding(p)' => Holding(p) \/ p = q)
    BY <1>1, <1>2 DEF Refers, Holding
  <1>5. LocksSound'
    BY <1>1, <1>4 DEF LocksSound
  <1>6. LookupsNeeded'
    BY <1>1, <1>2 DEF LookupsNeeded, Looking, LookupSteps, cacheVars
  <1>7. SlotsSound' /\ CacheSound'
    BY <1>1 DEF SlotsSound, CacheSound, slotVars, cacheVars
  <1> QED BY <1>3, <1>5, <1>6, <1>7

(* A lookup begins when there is no answer, and goes on to its providers.     *)
LEMMA LookupKeeps ==
  ASSUME GeocoderIInv, NEW q \in Queries, LookCached(q) \/ LookupAmap(q) \/ LookupNominatim(q)
  PROVE  GeocoderIInv'
  <1> USE DEF GeocoderIInv
  <1>1. PICK s \in QuerySteps :
          /\ Go(q, s) /\ s \notin {"locking", "locked"} /\ Holding(q)
          /\ s \in LookupSteps => key[q] \notin fresh
          /\ UNCHANGED <<key, lock, registered, cacheVars, slotVars>>
    <2>1. CASE LookCached(q)
      BY <2>1 DEF LookCached, Holding, QuerySteps, LookupSteps
    <2>2. CASE LookupAmap(q)
      BY <2>2 DEF LookupAmap, Holding, QuerySteps, LookupSteps, LookupsNeeded, Looking
    <2>3. CASE LookupNominatim(q)
      BY <2>3 DEF LookupNominatim, Holding, QuerySteps, LookupSteps, LookupsNeeded, Looking
    <2> QED BY <2>1, <2>2, <2>3
  <1>2. Refers(q)
    BY <1>1 DEF Refers
  <1>3. GeocoderTyped' /\ LocksSound'
    BY <1>1, <1>2, GoKeeps DEF slotVars
  <1>4. \A p \in Queries : at'[p] = IF p = q THEN s ELSE at[p]
    BY <1>1 DEF Go, GeocoderTyped
  <1>5. LookupsNeeded'
    BY <1>1, <1>4 DEF LookupsNeeded, Looking, cacheVars
  <1>6. SlotsSound' /\ CacheSound'
    BY <1>1 DEF SlotsSound, CacheSound, slotVars, cacheVars
  <1> QED BY <1>3, <1>5, <1>6

(* Nominatim's slot goes to the first that looks, the others sleep.           *)
LEMMA AcquireSlotKeeps ==
  ASSUME GeocoderIInv, NEW q \in Queries, AcquireSlot(q)
  PROVE  GeocoderIInv'
  <1> USE DEF GeocoderIInv
  <1>1. PICK s \in {"sleeping", "nominatim"} :
          Go(q, s) /\ UNCHANGED <<key, lock, registered, cacheVars>> /\ at[q] = "slot"
    BY DEF AcquireSlot
  <1>2. at' \in [Queries -> QuerySteps] /\ \A p \in Queries : at'[p] = IF p = q THEN s ELSE at[p]
    BY <1>1 DEF Go, GeocoderTyped, QuerySteps, LookupSteps
  <1>3. recent' \in BOOLEAN /\ SlotsSound'
    <2>1. CASE recent
      BY <2>1 DEF AcquireSlot, slotVars, SlotsSound, GeocoderTyped
    <2>2. CASE ~recent
      BY <2>2 DEF AcquireSlot, slotVars, SlotsSound, GeocoderTyped
    <2> QED BY <2>1, <2>2
  <1>4. GeocoderTyped'
    BY <1>1, <1>2, <1>3 DEF GeocoderTyped
  <1>5. \A p \in Queries : (Refers(p)' => Refers(p)) /\ (Holding(p)' => Holding(p))
    BY <1>1, <1>2 DEF Refers, Holding, LookupSteps
  <1>6. LocksSound'
    BY <1>1, <1>5 DEF LocksSound
  <1>7. LookupsNeeded'
    BY <1>1, <1>2 DEF LookupsNeeded, Looking, LookupSteps, cacheVars
  <1>8. CacheSound'
    BY <1>1 DEF CacheSound, cacheVars
  <1> QED BY <1>3, <1>4, <1>6, <1>7, <1>8

(* The sleepers wake up with their locks.                                    *)
LEMMA IntervalEndsKeeps ==
  ASSUME GeocoderIInv, IntervalEnds
  PROVE  GeocoderIInv'
  <1> USE DEF GeocoderIInv
  <1>1. /\ recent' = FALSE /\ granted' = 0 /\ UNCHANGED <<key, lock, registered, cacheVars>>
        /\ at' = [q \in Queries |-> IF at[q] = "sleeping" THEN "slot" ELSE at[q]]
    BY DEF IntervalEnds, Awake
  <1>2. GeocoderTyped'
    BY <1>1 DEF GeocoderTyped, QuerySteps, LookupSteps
  <1>3. \A p \in Queries : (Refers(p)' => Refers(p)) /\ (Holding(p)' => Holding(p)) /\ (Looking(p)' => Looking(p))
    BY <1>1 DEF Refers, Holding, Looking, LookupSteps
  <1>4. LocksSound' /\ LookupsNeeded'
    BY <1>1, <1>3 DEF LocksSound, LookupsNeeded, cacheVars
  <1>5. SlotsSound' /\ CacheSound'
    BY <1>1 DEF SlotsSound, CacheSound, cacheVars
  <1> QED BY <1>2, <1>4, <1>5

(* The cache forgets from the beginning of its order what is over the limit.  *)
LEMMA StoreKeeps ==
  ASSUME GeocoderIInv, NEW q \in Queries, Store(q)
  PROVE  GeocoderIInv'
  <1> USE DEF GeocoderIInv
  <1> DEFINE k == key[q]
             rest == Without(cache_order, k)
             order == Append(rest, k)
             over == IF Len(order) > MaxCached THEN Len(order) - MaxCached ELSE 0
             out == {order[i] : i \in 1 .. over}
  <1>1. /\ at[q] = "storing" /\ cache_order' = SubSeq(order, over + 1, Len(order))
        /\ cached' = (cached \cup {k}) \ out /\ fresh' = (fresh \cup {k}) \ out
        /\ Go(q, "answered") /\ UNCHANGED <<key, lock, registered, slotVars>>
    BY DEF Store, Reordered
  <1>2. k \in Coordinates
    BY DEF GeocoderTyped
  <1>3. /\ rest \in Seq(Coordinates) /\ Distinct(rest) /\ Len(rest) <= Len(cache_order)
        /\ Contents(rest) = cached \ {k}
    BY WithoutContents DEF CacheSound
  <1>4. order \in Seq(Coordinates) /\ Distinct(order) /\ Contents(order) = cached \cup {k}
    <2> HIDE DEF rest, k
    <2> QED BY <1>2, <1>3, AppendDistinct, AppendedContents
  <1>5. Len(order) \in Nat /\ over \in 0 .. Len(order) /\ Len(order) - over <= MaxCached
    <2>1. Len(order) \in Nat
      BY <1>4
    <2> HIDE DEF order
    <2> QED BY <2>1
  <1>6. /\ cache_order' \in Seq(Coordinates) /\ Distinct(cache_order)' /\ Len(cache_order)' <= MaxCached
        /\ Contents(cache_order)' = Contents(order) \ out
    <2> HIDE DEF order, over
    <2> DEFINE t == After(order, over)
    <2>1. /\ t \in Seq(Coordinates) /\ Len(t) = Len(order) - over /\ Distinct(t)
          /\ Contents(t) = Contents(order) \ {order[i] : i \in 1 .. over}
      BY <1>4, <1>5, DistinctEnd
    <2>2. cache_order' = t
      BY <1>1 DEF After
    <2> QED BY <1>5, <2>1, <2>2
  <1> HIDE DEF out, order, over, rest
  <1>7. CacheSound'
    BY <1>1, <1>4, <1>6 DEF CacheSound
  <1>8. Refers(q) /\ Looking(q)
    BY <1>1 DEF Refers, Holding, Looking, LookupSteps
  <1>9. GeocoderTyped' /\ LocksSound'
    BY <1>1, <1>8, GoKeeps DEF slotVars, QuerySteps, LookupSteps
  <1>10. \A p \in Queries : at'[p] = IF p = q THEN "answered" ELSE at[p]
    BY <1>1 DEF Go, GeocoderTyped
  <1>11. ASSUME NEW p \in Queries, Looking(p)' PROVE key[p] \notin fresh'
    <2>1. p # q /\ Looking(p)
      BY <1>10, <1>11 DEF Looking, LookupSteps
    <2>2. key[p] # k
      BY <1>8, <2>1 DEF LocksSound, Refers, Holding, Looking
    <2> QED BY <1>1, <2>1, <2>2 DEF LookupsNeeded
  <1>12. LookupsNeeded'
    BY <1>1, <1>11 DEF LookupsNeeded
  <1>13. SlotsSound'
    BY <1>1 DEF SlotsSound, slotVars
  <1> QED BY <1>7, <1>9, <1>12, <1>13

(* A client that hangs up lets go of its lock; an answer gets old.            *)
LEMMA LeavingKeeps ==
  ASSUME GeocoderIInv, (\E q \in Queries : HangUpQuery(q)) \/ \E c \in Coordinates : Age(c)
  PROVE  GeocoderIInv'
  <1> USE DEF GeocoderIInv
  <1>1. ASSUME NEW q \in Queries, HangUpQuery(q) PROVE GeocoderIInv'
    <2>1. /\ Refers(q) /\ Go(q, "gone")
          /\ UNCHANGED <<key, lock, registered, cacheVars, slotVars>>
      BY <1>1 DEF HangUpQuery
    <2>2. GeocoderTyped' /\ LocksSound'
      BY <2>1, GoKeeps DEF slotVars, QuerySteps, LookupSteps
    <2>3. \A p \in Queries : Looking(p)' => Looking(p)
      BY <2>1 DEF Go, GeocoderTyped, Looking, LookupSteps
    <2>4. LookupsNeeded' /\ SlotsSound' /\ CacheSound'
      BY <2>1, <2>3 DEF LookupsNeeded, SlotsSound, CacheSound, cacheVars, slotVars
    <2> QED BY <2>2, <2>4
  <1>2. ASSUME NEW c \in Coordinates, Age(c) PROVE GeocoderIInv'
    <2>1. fresh' \subseteq fresh /\ UNCHANGED <<at, key, lock, registered, cached, cache_order, slotVars>>
      BY <1>2 DEF Age
    <2>2. GeocoderTyped' /\ LocksSound' /\ SlotsSound' /\ CacheSound'
      BY <2>1 DEF GeocoderTyped, LocksSound, Refers, Holding, SlotsSound, CacheSound, slotVars
    <2>3. LookupsNeeded'
      BY <2>1 DEF LookupsNeeded, Looking
    <2> QED BY <2>2, <2>3
  <1> QED BY <1>1, <1>2

(* Locks, slot and cache are sound in every reachable state.                 *)
LEMMA GeocoderInvariant == GeocoderSpec => []GeocoderIInv
  <1>1. InitGeocoder => GeocoderIInv
    <2> SUFFICES ASSUME InitGeocoder PROVE GeocoderIInv
      OBVIOUS
    <2>1. (CHOOSE c \in Coordinates : TRUE) \in Coordinates
      OBVIOUS
    <2>2. GeocoderTyped
      BY <2>1 DEF InitGeocoder, GeocoderTyped, QuerySteps
    <2>3. \A q \in Queries : at[q] = "idle"
      BY DEF InitGeocoder
    <2>4. LocksSound /\ LookupsNeeded
      BY <2>3 DEF LocksSound, LookupsNeeded, Refers, Holding, Looking, LookupSteps
    <2>5. SlotsSound /\ CacheSound
      BY DEF InitGeocoder, SlotsSound, CacheSound, Contents, Distinct
    <2> QED BY <2>2, <2>4, <2>5 DEF GeocoderIInv
  <1>2. GeocoderIInv /\ [NextGeocoder]_geocoderVars => GeocoderIInv'
    <2> SUFFICES ASSUME GeocoderIInv, [NextGeocoder]_geocoderVars PROVE GeocoderIInv'
      OBVIOUS
    <2>1. CASE UNCHANGED geocoderVars
      BY <2>1 DEF geocoderVars, cacheVars, slotVars, GeocoderIInv, GeocoderTyped, LocksSound, Refers,
         Holding, LookupsNeeded, Looking, SlotsSound, CacheSound
    <2>2. CASE NextGeocoder
      BY <2>2, AskKeeps, LockKeeps, LookupKeeps, AcquireSlotKeeps, IntervalEndsKeeps, StoreKeeps,
         LeavingKeeps DEF NextGeocoder, Resolve
    <2> QED BY <2>1, <2>2
  <1> QED BY <1>1, <1>2, PTL DEF GeocoderSpec

(* One query at a time looks a coordinate up, and only when no answer is      *)
(* cached for it; Nominatim is asked at most once per interval; the cache      *)
(* holds what its order lists (resolve and cache, reverse_geocoder.rs          *)
(* 163-201, 228-253, 315-331).                                                *)
THEOREM LookupsAreRestrained == GeocoderSpec => []LookupsRestrained
  <1>1. GeocoderIInv => LookupsRestrained
    <2> SUFFICES ASSUME GeocoderIInv PROVE LookupsRestrained
      OBVIOUS
    <2> USE DEF GeocoderIInv
    <2>1. ASSUME NEW q \in Queries, Looking(q)
          PROVE  key[q] \notin fresh /\ \A p \in Queries \ {q} : Looking(p) => key[p] # key[q]
      BY <2>1 DEF LookupsNeeded, LocksSound, Refers, Holding, Looking
    <2>2. granted <= 1
      BY DEF SlotsSound
    <2>3. Cardinality(Contents(cache_order)) = Len(cache_order)
      BY DistinctLength DEF CacheSound
    <2>4. ToSet(cache_order) = Contents(cache_order)
      BY DEF ToSet, Contents, CacheSound
    <2>5. CacheExact
      BY <2>3, <2>4 DEF CacheExact, CacheSound
    <2> QED BY <2>1, <2>2, <2>5 DEF LookupsRestrained
  <1> QED BY <1>1, GeocoderInvariant, PTL

-----------------------------------------------------------------------------
(* The pages of the event list *)

(* An incident of this time and id comes before, or is, the last one shown:   *)
(* the cursor has left it behind.                                             *)
Behind(time, i) == time > cursor[1] \/ (time = cursor[1] /\ i >= cursor[2])

ListingTyped ==
  /\ now \in Nat
  /\ IsFiniteSet(DOMAIN updated) /\ DOMAIN updated \subseteq IncidentIds
  /\ \A i \in DOMAIN updated : updated[i] \in Nat /\ updated[i] <= now
  /\ cursor \in {Begin, End} \cup (Nat \X Nat)
  /\ shown \in Seq(IncidentIds)

(* What was shown stays behind the cursor, whenever it changes; what did not  *)
(* change and was not shown is still ahead of it.                             *)
ReadingSound ==
  /\ Distinct(shown)
  /\ cursor = Begin => shown = <<>>
  /\ cursor \notin {Begin, End} =>
       /\ \A i \in Contents(shown) : Behind(now, i) /\ (i \in DOMAIN updated => Behind(updated[i], i))
       /\ \A i \in DOMAIN updated \ touched : i \in Contents(shown) \/ Beyond(i)
  /\ cursor = End => DOMAIN updated \ touched \subseteq Contents(shown)

ListingIInv == ListingTyped /\ ReadingSound

(* A cursor of a page is not one of the marks for the beginning and the end.  *)
LEMMA CursorsDiffer == \A c \in Nat \X Nat : c # Begin /\ c # End
  <1> SUFFICES ASSUME NEW t \in Nat, NEW i \in Nat PROVE <<t, i>> # Begin /\ <<t, i>> # End
    OBVIOUS
  <1>1. Len(<<t, i>>) = 2 /\ Len(Begin) = 1 /\ Len(End) = 1
    BY DEF Begin, End
  <1> QED BY <1>1

(* Any incidents there are have one that comes last.                         *)
LEMMA LastOfAny ==
  ASSUME ListingTyped, NEW ids \in SUBSET DOMAIN updated, ids # {}
  PROVE  \E l \in ids : \A i \in ids \ {l} : IsBefore(i, l)
  <1> DEFINE T == {updated[i] : i \in ids}
  <1>2. T \subseteq Nat /\ T # {} /\ ids \subseteq Nat
    BY ListingAssumption DEF ListingTyped
  <1>3. PICK t \in T : \A u \in T : t <= u
    <2> HIDE DEF T
    <2> QED BY <1>2, LeastNumber
  <1> DEFINE S == {i \in ids : updated[i] = t}
  <1>5. S \subseteq Nat /\ S # {}
    BY <1>2, <1>3
  <1>6. PICK l \in S : \A i \in S : l <= i
    <2> HIDE DEF S
    <2> QED BY <1>5, LeastNumber
  <1>8. ASSUME NEW i \in ids \ {l} PROVE IsBefore(i, l)
    <2>1. updated[i] \in Nat /\ updated[l] = t /\ updated[i] >= t /\ i \in Nat /\ l \in Nat /\ t \in Nat
      BY <1>2, <1>3
    <2>2. updated[i] = t => i >= l
      BY <1>5, <1>6
    <2> QED BY <2>1, <2>2 DEF IsBefore
  <1> QED BY <1>8

Sorted(s) == \A m, n \in DOMAIN s : m < n => IsBefore(s[m], s[n])

(* Finitely many incidents have an order, the newest first.                  *)
LEMMA OrderExists ==
  ASSUME ListingTyped
  PROVE  \A ids \in SUBSET DOMAIN updated : \E s \in [1 .. Cardinality(ids) -> ids] : Sorted(s)
  <1> DEFINE Has(ids) == \E s \in [1 .. Cardinality(ids) -> ids] : Sorted(s)
             S == {k \in Nat : \A ids \in SUBSET DOMAIN updated : Cardinality(ids) = k => Has(ids)}
  <1>1. \A ids \in SUBSET DOMAIN updated : IsFiniteSet(ids) /\ Cardinality(ids) \in Nat
    BY FS_Subset, FS_CardinalityType DEF ListingTyped
  <1>2. 0 \in S
    <2> SUFFICES ASSUME NEW ids \in SUBSET DOMAIN updated, Cardinality(ids) = 0 PROVE Has(ids)
      OBVIOUS
    <2>1. [n \in 1 .. 0 |-> 0] \in [1 .. 0 -> ids] /\ Sorted([n \in 1 .. 0 |-> 0])
      BY DEF Sorted
    <2> QED BY <2>1
  <1>3. ASSUME NEW k \in Nat, k \in S PROVE k + 1 \in S
    <2> SUFFICES ASSUME NEW ids \in SUBSET DOMAIN updated, Cardinality(ids) = k + 1 PROVE Has(ids)
      OBVIOUS
    <2>1. ids # {}
      BY FS_EmptySet
    <2>2. PICK l \in ids : \A i \in ids \ {l} : IsBefore(i, l)
      BY <2>1, LastOfAny
    <2> DEFINE rest == ids \ {l}
    <2>3. Cardinality(rest) = k /\ rest \in SUBSET DOMAIN updated
      <3>1. Cardinality(ids \ {l}) = Cardinality(ids) - 1
        BY <1>1, FS_RemoveElement
      <3> QED BY <3>1
    <2>4. PICK s \in [1 .. k -> rest] : Sorted(s)
      BY <1>3, <2>3
    <2> DEFINE t == [n \in 1 .. k + 1 |-> IF n = k + 1 THEN l ELSE s[n]]
    <2>5. t \in [1 .. k + 1 -> ids]
      OBVIOUS
    <2>6. ASSUME NEW m \in 1 .. k + 1, NEW n \in 1 .. k + 1, m < n PROVE IsBefore(t[m], t[n])
      <3>1. m \in 1 .. k /\ t[m] = s[m] /\ s[m] \in rest
        BY <2>6
      <3>2. CASE n = k + 1
        BY <2>2, <3>1, <3>2
      <3>3. CASE n # k + 1
        <4>1. n \in 1 .. k /\ t[n] = s[n] /\ DOMAIN s = 1 .. k
          BY <3>3
        <4> QED BY <2>4, <2>6, <3>1, <4>1 DEF Sorted
      <3> QED BY <3>2, <3>3
    <2>7. Sorted(t)
      <3>1. DOMAIN t = 1 .. k + 1
        OBVIOUS
      <3> HIDE DEF t
      <3> QED BY <2>6, <3>1 DEF Sorted
    <2> HIDE DEF t
    <2> QED BY <2>5, <2>7
  <1>4. Nat \subseteq S
    <2> HIDE DEF S
    <2> QED BY <1>2, <1>3, NaturalInduction
  <1> QED BY <1>1, <1>4

(* A page lists what it is made of, each once and the newest first.          *)
LEMMA NewestFirstLists ==
  ASSUME ListingTyped, NEW ids \in SUBSET DOMAIN updated
  PROVE  /\ NewestFirst(ids) \in Seq(ids) /\ Distinct(NewestFirst(ids)) /\ Sorted(NewestFirst(ids))
         /\ Contents(NewestFirst(ids)) = ids
  <1> DEFINE N == Cardinality(ids)
             s == NewestFirst(ids)
  <1>1. IsFiniteSet(ids) /\ N \in Nat
    BY FS_Subset, FS_CardinalityType DEF ListingTyped
  <1>2. s \in [1 .. N -> ids] /\ Sorted(s)
    <2> DEFINE F == [1 .. N -> ids]
    <2>1. \E f \in F : \A m, n \in DOMAIN f : m < n => IsBefore(f[m], f[n])
      BY OrderExists DEF Sorted
    <2>2. s = CHOOSE f \in F : \A m, n \in DOMAIN f : m < n => IsBefore(f[m], f[n])
      BY Zenon DEF NewestFirst
    <2> HIDE DEF F, s
    <2>3. s \in F /\ \A m, n \in DOMAIN s : m < n => IsBefore(s[m], s[n])
      BY <2>1, <2>2
    <2> QED BY <2>3 DEF F, Sorted
  <1> HIDE DEF s
  <1>3. s \in Seq(ids) /\ Len(s) = N
    <2> HIDE DEF N
    <2> QED BY <1>1, <1>2
  <1>4. \A i \in ids : updated[i] \in Nat /\ i \in Nat
    BY ListingAssumption DEF ListingTyped
  <1>5. Distinct(s)
    <2> SUFFICES ASSUME NEW m \in 1 .. N, NEW n \in 1 .. N, s[m] = s[n], m < n PROVE FALSE
      <3> HIDE DEF N
      <3> QED BY <1>1, <1>3 DEF Distinct
    <2>1. IsBefore(s[m], s[n]) /\ s[m] \in ids
      BY <1>2 DEF Sorted
    <2> QED BY <1>4, <2>1 DEF IsBefore
  <1>6. Cardinality(Contents(s)) = N /\ Contents(s) \subseteq ids
    <2> HIDE DEF N
    <2> QED BY <1>2, <1>3, <1>5, DistinctLength DEF Contents
  <1>7. Contents(s) = ids
    <2> DEFINE C == Contents(s)
    <2>1. Cardinality(ids) = Cardinality(C) /\ C \in SUBSET ids
      BY <1>6
    <2> HIDE DEF C, N
    <2>2. IsFiniteSet(ids)
      BY <1>1
    <2>4. C \in SUBSET ids
      BY <2>1
    <2>3. Cardinality(ids) = Cardinality(C) => ids = C
      BY <2>2, <2>4, FS_Subset, Zenon
    <2> QED BY <2>1, <2>3 DEF C
  <1> QED BY <1>2, <1>3, <1>5, <1>7 DEF s

(* The page that is read next, and the incidents it shows.                   *)
Ahead == {i \in DOMAIN updated : Beyond(i)}
Taken(limit) ==
  SubSeq(NewestFirst(Ahead), 1,
         IF Len(NewestFirst(Ahead)) < limit THEN Len(NewestFirst(Ahead)) ELSE limit)

(* A page shows the newest of the incidents ahead and leaves the cursor at    *)
(* the last of them, or at the end when there are no more.                    *)
LEMMA PageEffect ==
  ASSUME ListingTyped, NEW limit \in Nat \ {0}, ReadPage(limit)
  PROVE  LET all == NewestFirst(Ahead)
             many == Len(all) > limit IN
         /\ shown' = shown \o Taken(limit)
         /\ cursor' = IF many THEN <<updated[all[limit]], all[limit]>> ELSE End
  <1> DEFINE all == NewestFirst(Ahead)
             page == RecentIncidents(limit + 1)
  <1>1. all \in Seq(Ahead)
    BY NewestFirstLists DEF Ahead
  <1>2. page = SubSeq(all, 1, IF Len(all) < limit + 1 THEN Len(all) ELSE limit + 1)
    BY DEF RecentIncidents, Ahead
  <1>3. /\ shown' = shown \o SubSeq(page, 1, IF Len(page) < limit THEN Len(page) ELSE limit)
        /\ cursor' = NextCursor(page, limit)
    BY DEF ReadPage
  <1> HIDE DEF all, page
  <1>4. Len(all) \in Nat
    BY <1>1
  <1>5. CASE Len(all) > limit
    <2>1. /\ page \in Seq(Ahead) /\ Len(page) = limit + 1
          /\ \A n \in 1 .. limit + 1 : page[n] = all[n]
      BY <1>1, <1>2, <1>4, <1>5
    <2>2. SubSeq(page, 1, limit) = SubSeq(all, 1, limit)
      BY <1>1, <1>4, <1>5, <2>1
    <2>3. page[limit] = all[limit]
      BY <2>1
    <2>4. shown' = shown \o SubSeq(all, 1, limit)
      BY <1>3, <2>1, <2>2
    <2>5. cursor' = <<updated[all[limit]], all[limit]>>
      BY <1>3, <2>1, <2>3 DEF NextCursor
    <2> QED BY <1>4, <1>5, <2>4, <2>5 DEF Taken, all
  <1>6. CASE Len(all) <= limit
    <2>1. page = SubSeq(all, 1, Len(all))
      BY <1>2, <1>4, <1>6
    <2>2. page = all
      BY <1>1, <2>1
    <2>3. shown' = shown \o SubSeq(all, 1, Len(all)) /\ cursor' = End
      BY <1>3, <1>4, <1>6, <2>2 DEF NextCursor
    <2>4. (IF Len(all) < limit THEN Len(all) ELSE limit) = Len(all) /\ ~(Len(all) > limit)
      BY <1>4, <1>6
    <2> QED BY <2>3, <2>4 DEF Taken, all
  <1> QED BY <1>4, <1>5, <1>6 DEF all

(* What is shown of the list ahead, and what is left of it.                   *)
LEMMA TakenFirst ==
  ASSUME ListingTyped, NEW limit \in Nat \ {0}
  PROVE  LET all == NewestFirst(Ahead)
             k == IF Len(all) < limit THEN Len(all) ELSE limit IN
         /\ Taken(limit) \in Seq(Ahead) /\ Len(Taken(limit)) = k /\ Distinct(Taken(limit))
         /\ Contents(Taken(limit)) = {all[n] : n \in 1 .. k}
  <1> DEFINE all == NewestFirst(Ahead)
             k == IF Len(all) < limit THEN Len(all) ELSE limit
             t == Taken(limit)
  <1>1. all \in Seq(Ahead) /\ Distinct(all)
    BY NewestFirstLists DEF Ahead
  <1>2. t = SubSeq(all, 1, k)
    BY DEF Taken
  <1> HIDE DEF all, t
  <1>3. k \in 0 .. Len(all) /\ Len(all) \in Nat
    BY <1>1
  <1> HIDE DEF k
  <1>4. t \in Seq(Ahead) /\ Len(t) = k /\ \A n \in 1 .. k : t[n] = all[n]
    BY <1>1, <1>2, <1>3
  <1>5. Distinct(t)
    BY <1>1, <1>3, <1>4 DEF Distinct
  <1>6. Contents(t) = {all[n] : n \in 1 .. k}
    BY <1>4 DEF Contents
  <1> QED BY <1>4, <1>5, <1>6 DEF all, t, k

(* Two lists without repetition and without a common element, one behind the  *)
(* other.                                                                     *)
LEMMA ConcatDistinct ==
  ASSUME NEW R, NEW s \in Seq(R), NEW t \in Seq(R), Distinct(s), Distinct(t),
         Contents(s) \cap Contents(t) = {}
  PROVE  /\ s \o t \in Seq(R) /\ Distinct(s \o t)
         /\ Contents(s \o t) = Contents(s) \cup Contents(t)
  <1> DEFINE c == s \o t
  <1>1. /\ Len(s) \in Nat /\ Len(t) \in Nat /\ Len(c) = Len(s) + Len(t) /\ c \in Seq(R)
        /\ \A n \in 1 .. Len(s) + Len(t) : c[n] = IF n <= Len(s) THEN s[n] ELSE t[n - Len(s)]
    OBVIOUS
  <1> HIDE DEF c
  <1>2. ASSUME NEW m \in 1 .. Len(c), NEW n \in 1 .. Len(c), c[m] = c[n] PROVE m = n
    <2>1. CASE m <= Len(s) /\ n <= Len(s)
      BY <1>1, <1>2, <2>1 DEF Distinct
    <2>2. CASE m > Len(s) /\ n > Len(s)
      <3>1. m - Len(s) \in 1 .. Len(t) /\ n - Len(s) \in 1 .. Len(t)
        BY <1>1, <2>2
      <3>2. t[m - Len(s)] = t[n - Len(s)]
        BY <1>1, <1>2, <2>2
      <3>3. m - Len(s) = n - Len(s)
        BY <3>1, <3>2 DEF Distinct
      <3> QED BY <1>1, <3>3
    <2>3. CASE m <= Len(s) /\ n > Len(s)
      <3>1. m \in 1 .. Len(s) /\ n - Len(s) \in 1 .. Len(t) /\ s[m] = t[n - Len(s)]
        BY <1>1, <1>2, <2>3
      <3> QED BY <3>1 DEF Contents
    <2>4. CASE m > Len(s) /\ n <= Len(s)
      <3>1. n \in 1 .. Len(s) /\ m - Len(s) \in 1 .. Len(t) /\ s[n] = t[m - Len(s)]
        BY <1>1, <1>2, <2>4
      <3> QED BY <3>1 DEF Contents
    <2> QED BY <1>1, <2>1, <2>2, <2>3, <2>4
  <1>3. ASSUME NEW x \in Contents(c) PROVE x \in Contents(s) \cup Contents(t)
    <2>1. PICK n \in 1 .. Len(s) + Len(t) : x = c[n]
      BY <1>1 DEF Contents
    <2>2. CASE n <= Len(s)
      <3>1. n \in 1 .. Len(s) /\ x = s[n]
        BY <1>1, <2>1, <2>2
      <3> QED BY <3>1 DEF Contents
    <2>3. CASE n > Len(s)
      <3>1. n - Len(s) \in 1 .. Len(t) /\ x = t[n - Len(s)]
        BY <1>1, <2>1, <2>3
      <3> QED BY <3>1 DEF Contents
    <2> QED BY <1>1, <2>2, <2>3
  <1>4. ASSUME NEW n \in 1 .. Len(s) PROVE s[n] \in Contents(c)
    BY <1>1 DEF Contents
  <1>5. ASSUME NEW n \in 1 .. Len(t) PROVE t[n] \in Contents(c)
    <2> DEFINE m == n + Len(s)
    <2>2. m \in 1 .. Len(c) /\ m > Len(s) /\ m - Len(s) = n
      BY <1>1
    <2> HIDE DEF m
    <2>1. m \in 1 .. Len(c) /\ c[m] = t[n]
      BY <1>1, <2>2
    <2> QED BY <2>1 DEF Contents
  <1>6. Contents(c) = Contents(s) \cup Contents(t)
    BY <1>3, <1>4, <1>5 DEF Contents
  <1> QED BY <1>1, <1>2, <1>6 DEF c, Distinct

(* The reading begins.                                                       *)
LEMMA ListingBegins == InitListing => ListingIInv
  <1> SUFFICES ASSUME InitListing PROVE ListingIInv
    OBVIOUS
  <1>1. now = 0 /\ updated = <<>> /\ cursor = Begin /\ shown = <<>> /\ touched = {}
    BY DEF InitListing
  <1>2. DOMAIN updated = {} /\ IsFiniteSet({})
    BY <1>1, FS_EmptySet
  <1>3. ListingTyped
    BY <1>1, <1>2 DEF ListingTyped
  <1>4. Begin # End
    BY DEF Begin, End
  <1>5. ReadingSound
    BY <1>1, <1>4 DEF ReadingSound, Distinct
  <1> QED BY <1>3, <1>5 DEF ListingIInv

(* A report puts its incident in front of everything, behind the cursor.      *)
LEMMA ReportKeeps ==
  ASSUME ListingIInv, NEW i \in IncidentIds, Report(i)
  PROVE  ListingIInv'
  <1> USE DEF ListingIInv
  <1>1. /\ updated' = [j \in DOMAIN updated \cup {i} |-> IF j = i THEN now ELSE updated[j]]
        /\ touched' = touched \cup {i} /\ UNCHANGED <<now, cursor, shown>>
    BY DEF Report
  <1>2. /\ DOMAIN updated' = DOMAIN updated \cup {i} /\ updated'[i] = now
        /\ \A j \in DOMAIN updated \ {i} : updated'[j] = updated[j]
    BY <1>1
  <1>3. IsFiniteSet(DOMAIN updated \cup {i})
    BY FS_AddElement DEF ListingTyped
  <1>4. ListingTyped'
    BY <1>1, <1>2, <1>3 DEF ListingTyped
  <1>5. ASSUME NEW j \in Contents(shown), cursor \notin {Begin, End}
        PROVE  Behind(now, j) /\ (j \in DOMAIN updated' => Behind(updated'[j], j))
    BY <1>2, <1>5 DEF ReadingSound
  <1>6. ASSUME NEW j \in DOMAIN updated' \ touched' PROVE j \in DOMAIN updated \ touched /\ updated'[j] = updated[j]
    BY <1>1, <1>2
  <1>7. ReadingSound'
    BY <1>1, <1>2, <1>5, <1>6 DEF ReadingSound, Behind, Beyond
  <1> QED BY <1>4, <1>7

(* An incident that is gone may come back, in front of everything.            *)
LEMMA PruneKeeps ==
  ASSUME ListingIInv, NEW i \in IncidentIds, Prune(i)
  PROVE  ListingIInv'
  <1> USE DEF ListingIInv
  <1>1. /\ updated' = [j \in DOMAIN updated \ {i} |-> updated[j]]
        /\ touched' = touched \cup {i} /\ UNCHANGED <<now, cursor, shown>>
    BY DEF Prune
  <1>2. DOMAIN updated' = DOMAIN updated \ {i} /\ \A j \in DOMAIN updated \ {i} : updated'[j] = updated[j]
    BY <1>1
  <1>3. IsFiniteSet(DOMAIN updated \ {i})
    BY FS_RemoveElement DEF ListingTyped
  <1>4. ListingTyped'
    BY <1>1, <1>2, <1>3 DEF ListingTyped
  <1>5. ReadingSound'
    BY <1>1, <1>2 DEF ReadingSound, Behind, Beyond
  <1> QED BY <1>4, <1>5

(* Time passes.                                                              *)
LEMMA TickKeeps ==
  ASSUME ListingIInv, Tick
  PROVE  ListingIInv'
  <1> USE DEF ListingIInv
  <1>1. now' = now + 1 /\ UNCHANGED <<updated, cursor, shown, touched>>
    BY DEF Tick
  <1>2. ListingTyped'
    BY <1>1 DEF ListingTyped
  <1>3. ASSUME NEW j \in Contents(shown), cursor \notin {Begin, End} PROVE Behind(now, j)'
    <2>1. Behind(now, j) /\ now \in Nat /\ cursor[1] \in Nat
      BY <1>3 DEF ReadingSound, ListingTyped
    <2> QED BY <1>1, <2>1 DEF Behind
  <1>4. ReadingSound'
    BY <1>1, <1>3 DEF ReadingSound, Behind, Beyond
  <1> QED BY <1>2, <1>4

(* A page shows what is ahead and nothing that was shown, and leaves nothing   *)
(* out.                                                                       *)
LEMMA ReadPageKeeps ==
  ASSUME ListingIInv, NEW limit \in Limits, ReadPage(limit)
  PROVE  ListingIInv'
  <1> USE DEF ListingIInv
  <1> DEFINE all == NewestFirst(Ahead)
             many == Len(all) > limit
             page == Taken(limit)
             k == IF Len(all) < limit THEN Len(all) ELSE limit
  <1>0. limit \in Nat \ {0} /\ IncidentIds \subseteq Nat
    BY ListingAssumption
  <1>1. /\ shown' = shown \o page /\ UNCHANGED <<now, updated>>
        /\ cursor' = IF many THEN <<updated[all[limit]], all[limit]>> ELSE End
    <2>1. shown' = shown \o page /\ cursor' = IF many THEN <<updated[all[limit]], all[limit]>> ELSE End
      BY <1>0, PageEffect
    <2> QED BY <2>1 DEF ReadPage
  <1>2. cursor # End /\ touched' = IF cursor = Begin THEN {} ELSE touched
    BY DEF ReadPage
  <1>3. all \in Seq(Ahead) /\ Distinct(all) /\ Sorted(all) /\ Contents(all) = Ahead
    BY NewestFirstLists DEF Ahead
  <1>4. page \in Seq(Ahead) /\ Distinct(page) /\ Contents(page) = {all[n] : n \in 1 .. k}
    BY <1>0, TakenFirst
  <1> HIDE DEF all, page
  <1>5. /\ Len(all) \in Nat /\ DOMAIN all = 1 .. Len(all) /\ \A n \in 1 .. Len(all) : all[n] \in Ahead
        /\ k \in 0 .. Len(all)
    BY <1>0, <1>3
  <1>6. Contents(page) \subseteq Ahead
    BY <1>4, <1>5
  <1>7. \A i \in DOMAIN updated : updated[i] \in Nat /\ updated[i] <= now /\ i \in Nat
    BY <1>0 DEF ListingTyped
  <1>8. cursor = Begin \/ cursor \in Nat \X Nat
    BY <1>2 DEF ListingTyped
  <1>9. Contents(shown) \cap Contents(page) = {}
    <2> SUFFICES ASSUME NEW i \in Contents(shown), i \in Contents(page) PROVE FALSE
      OBVIOUS
    <2>1. i \in DOMAIN updated /\ Beyond(i)
      BY <1>6 DEF Ahead
    <2>2. CASE cursor = Begin
      BY <2>2 DEF ReadingSound, Contents
    <2>3. CASE cursor \in Nat \X Nat
      <3>1. cursor # Begin /\ cursor # End /\ cursor[1] \in Nat /\ cursor[2] \in Nat
        BY <2>3, CursorsDiffer
      <3>2. Behind(updated[i], i)
        BY <2>1, <3>1 DEF ReadingSound
      <3> QED BY <1>7, <2>1, <3>1, <3>2 DEF Beyond, Behind
    <2> QED BY <1>8, <2>2, <2>3
  <1>10. /\ shown' \in Seq(IncidentIds) /\ Distinct(shown)'
         /\ Contents(shown)' = Contents(shown) \cup Contents(page)
    <2>1. Ahead \subseteq IncidentIds
      BY DEF Ahead, ListingTyped
    <2>2. page \in Seq(IncidentIds) /\ shown \in Seq(IncidentIds) /\ Distinct(shown)
      BY <1>4, <2>1 DEF ListingTyped, ReadingSound
    <2>3. /\ shown \o page \in Seq(IncidentIds) /\ Distinct(shown \o page)
          /\ Contents(shown \o page) = Contents(shown) \cup Contents(page)
      BY <1>4, <1>9, <2>2, ConcatDistinct
    <2> QED BY <1>1, <2>3
  <1>11. cursor' \in {Begin, End} \cup (Nat \X Nat)
    <2>1. CASE many
      <3>1. all[limit] \in Ahead
        BY <1>0, <1>5, <2>1
      <3>2. updated[all[limit]] \in Nat /\ all[limit] \in Nat
        BY <1>7, <3>1 DEF Ahead
      <3> QED BY <1>1, <2>1, <3>2
    <2>2. CASE ~many
      BY <1>1, <2>2
    <2> QED BY <2>1, <2>2
  <1>12. ListingTyped'
    BY <1>1, <1>10, <1>11 DEF ListingTyped
  <1>13. ASSUME NEW i \in DOMAIN updated \ touched' PROVE i \in Contents(shown) \/ i \in Ahead
    <2>1. CASE cursor = Begin
      BY <2>1 DEF Ahead, Beyond
    <2>2. CASE cursor # Begin
      BY <1>2, <1>13, <2>2 DEF ReadingSound, Ahead
    <2> QED BY <2>1, <2>2
  <1>14. CASE many
    <2> DEFINE l == all[limit]
    <2>10. limit \in 1 .. Len(all) /\ ~(Len(all) < limit)
      BY <1>0, <1>5, <1>14
    <2>1. k = limit /\ limit \in 1 .. Len(all) /\ l \in Ahead
      BY <1>5, <2>10
    <2>2. l \in DOMAIN updated /\ Beyond(l) /\ updated[l] \in Nat /\ l \in Nat /\ updated[l] <= now
      BY <1>7, <2>1 DEF Ahead
    <2>3. cursor' = <<updated[l], l>>
      BY <1>1, <1>14
    <2>4. cursor' # Begin /\ cursor' # End /\ cursor'[1] = updated[l] /\ cursor'[2] = l
      BY <2>2, <2>3, CursorsDiffer
    <2>5. ASSUME NEW i \in Contents(page)
          PROVE  i \in DOMAIN updated /\ (updated[i] > updated[l] \/ (updated[i] = updated[l] /\ i >= l))
      <3>1. PICK n \in 1 .. limit : i = all[n]
        BY <1>4, <2>1
      <3>5. n \in 1 .. Len(all) /\ limit \in 1 .. Len(all) /\ (n = limit \/ n < limit)
        BY <1>0, <1>5, <2>10
      <3>4. n \in DOMAIN all /\ limit \in DOMAIN all /\ (n = limit \/ n < limit)
        BY <1>5, <3>5
      <3>2. n = limit \/ IsBefore(all[n], all[limit])
        BY <1>3, <3>4 DEF Sorted
      <3>3. i \in DOMAIN updated
        BY <1>6 DEF Ahead
      <3> QED BY <1>7, <2>2, <3>1, <3>2, <3>3 DEF IsBefore
    <2> HIDE DEF l
    <2>6. ASSUME NEW i \in Contents(page) PROVE Behind(now, i)' /\ Behind(updated[i], i)'
      <3>1. updated[i] \in Nat /\ updated[i] <= now /\ now \in Nat /\ i \in Nat
        BY <1>7, <2>5 DEF ListingTyped
      <3> QED BY <1>1, <2>2, <2>4, <2>5, <3>1 DEF Behind
    <2>7. ASSUME NEW i \in Contents(shown)
          PROVE  Behind(now, i)' /\ (i \in DOMAIN updated => Behind(updated[i], i)')
      <3>1. cursor # Begin
        BY DEF ReadingSound, Contents
      <3>2. cursor[1] \in Nat /\ cursor[2] \in Nat /\ cursor # End
        BY <1>2, <1>8, <3>1
      <3>3. Behind(now, i) /\ (i \in DOMAIN updated => Behind(updated[i], i))
        BY <3>1, <3>2 DEF ReadingSound
      <3>4. updated[l] < cursor[1] \/ (updated[l] = cursor[1] /\ l < cursor[2])
        BY <2>2, <3>1 DEF Beyond
      <3>6. shown \in Seq(IncidentIds) /\ now \in Nat
        BY DEF ListingTyped
      <3>7. \A n \in 1 .. Len(shown) : shown[n] \in IncidentIds
        BY <3>6
      <3>5. i \in Nat /\ now \in Nat
        BY <1>0, <3>6, <3>7 DEF Contents
      <3> QED BY <1>1, <1>7, <2>2, <2>4, <3>2, <3>3, <3>4, <3>5 DEF Behind
    <2>8. ASSUME NEW i \in DOMAIN updated \ touched' PROVE i \in Contents(shown)' \/ Beyond(i)'
      <3>1. CASE i \in Ahead /\ i \notin Contents(page)
        <4>1. PICK n \in 1 .. Len(all) : i = all[n]
          BY <1>3, <3>1 DEF Contents
        <4>2. n > limit
          BY <1>0, <1>4, <2>1, <3>1, <4>1
        <4>3. IsBefore(l, i)
          BY <1>0, <1>3, <1>5, <2>1, <4>1, <4>2 DEF Sorted, l
        <4> QED BY <1>1, <1>7, <2>2, <2>4, <4>3 DEF IsBefore, Beyond
      <3> QED BY <1>10, <1>13, <3>1
    <2>9. ReadingSound'
      BY <1>1, <1>10, <2>4, <2>6, <2>7, <2>8 DEF ReadingSound
    <2> QED BY <1>12, <2>9
  <1>15. CASE ~many
    <2>1. cursor' = End /\ Begin # End
      BY <1>1, <1>15 DEF Begin, End
    <2>6. Len(all) <= limit
      BY <1>0, <1>5, <1>15
    <2>2. k = Len(all)
      <3>1. CASE Len(all) < limit
        BY <3>1
      <3>2. CASE ~(Len(all) < limit)
        <4>1. k = limit
          BY <3>2
        <4>2. limit = Len(all)
          <5>1. limit \in Int /\ Len(all) \in Int
            BY <1>0, <1>5
          <5> QED BY <5>1, <2>6, <3>2
        <4> QED BY <4>1, <4>2
      <3> QED BY <3>1, <3>2
    <2>3. Contents(page) = Ahead
      BY <1>3, <1>4, <2>2 DEF Contents
    <2>4. DOMAIN updated \ touched' \subseteq Contents(shown)'
      BY <1>10, <1>13, <2>3
    <2>5. ReadingSound'
      BY <1>1, <1>10, <2>1, <2>4 DEF ReadingSound
    <2> QED BY <1>12, <2>5
  <1> QED BY <1>14, <1>15

(* The reading is sound in every reachable state.                            *)
LEMMA ListingInvariant == ListingSpec => []ListingIInv
  <1>1. ListingIInv /\ [NextListing]_listingVars => ListingIInv'
    <2> SUFFICES ASSUME ListingIInv, [NextListing]_listingVars PROVE ListingIInv'
      OBVIOUS
    <2>1. CASE UNCHANGED listingVars
      BY <2>1 DEF listingVars, ListingIInv, ListingTyped, ReadingSound, Behind, Beyond
    <2>2. CASE NextListing
      BY <2>2, TickKeeps, ReportKeeps, PruneKeeps, ReadPageKeeps DEF NextListing
    <2> QED BY <2>1, <2>2
  <1> QED BY <1>1, ListingBegins, PTL DEF ListingSpec

(* A client that reads to the end was shown every incident that did not       *)
(* change in the meantime once, and none twice, whatever opened, changed or   *)
(* was pruned between its pages (events.rs 129-146, fjall.rs 325-349).        *)
THEOREM PagesShowOnce == ListingSpec => []PagedOnce
  <1>1. ASSUME ListingIInv, NEW i \in IncidentIds
        PROVE  Times(i) <= 1 /\ (i \in Contents(shown) => Times(i) = 1)
    <2> DEFINE T == {n \in DOMAIN shown : shown[n] = i}
    <2>1. DOMAIN shown = 1 .. Len(shown) /\ Distinct(shown)
      BY <1>1 DEF ListingIInv, ListingTyped, ReadingSound
    <2>2. CASE i \notin Contents(shown)
      <3>1. T = {}
        BY <2>1, <2>2 DEF Contents
      <3> QED BY <2>2, <3>1, FS_EmptySet DEF Times
    <2>3. CASE i \in Contents(shown)
      <3>1. PICK n \in 1 .. Len(shown) : shown[n] = i
        BY <2>3 DEF Contents
      <3>2. T = {n}
        BY <2>1, <3>1 DEF Distinct
      <3>3. Cardinality({n}) = 1
        BY FS_Singleton
      <3>4. Times(i) = 1
        BY <3>2, <3>3 DEF Times
      <3> QED BY <3>4
    <2> QED BY <2>2, <2>3
  <1>2. ListingIInv => PagedOnce
    <2> SUFFICES ASSUME ListingIInv PROVE PagedOnce
      OBVIOUS
    <2>1. cursor = End => DOMAIN updated \ touched \subseteq Contents(shown)
      BY DEF ListingIInv, ReadingSound
    <2>2. DOMAIN updated \subseteq IncidentIds
      BY DEF ListingIInv, ListingTyped
    <2> QED BY <1>1, <2>1, <2>2 DEF PagedOnce
  <1> QED BY <1>2, ListingInvariant, PTL

-----------------------------------------------------------------------------
(* The payloads of pushes *)

USE BarkAssumption

(* The size of a text *)

(* Total follows its recursive definition: the sums of the beginnings.       *)
LEMMA TotalUnfolds ==
  ASSUME NEW text \in Seq(Characters), NEW k \in {1, 2}
  PROVE  \E sum \in [0 .. Len(text) -> Nat] :
           /\ sum[0] = 0 /\ Total(text, k) = sum[Len(text)]
           /\ \A n \in 1 .. Len(text) : sum[n] = sum[n - 1] + text[n][k]
  <1> DEFINE N == Len(text)
             Next1(v, n) == v + text[n][k]
             move == [p \in Nat \X (1 .. N) |-> Next1(p[1], p[2])]
             Body(f) == [n \in 0 .. N |-> IF n = 0 THEN 0 ELSE f[n - 1] + text[n][k]]
  <1>0. \A n \in 1 .. N : text[n][k] \in Nat
    <2> SUFFICES ASSUME NEW n \in 1 .. N PROVE text[n][k] \in Nat
      OBVIOUS
    <2>1. text[n] \in Characters
      OBVIOUS
    <2>2. text[n] \in (1 .. 4) \X Nat
      BY <2>1 DEF Characters
    <2> QED BY <2>2
  <1>1. \A v \in Nat : \A n \in 1 .. N : move[<<v, n>>] = Next1(v, n) /\ move[<<v, n>>] \in Nat
    BY <1>0
  <1>2. ASSUME NEW f \in [0 .. N -> Nat], f[0] = 0,
               \A n \in 1 .. N : f[n] = move[<<f[n - 1], n>>]
        PROVE  f = Body(f)
    <2>1. ASSUME NEW n \in 0 .. N PROVE f[n] = Body(f)[n]
      <3>1. CASE n = 0
        BY <1>2, <3>1
      <3>2. CASE n \in 1 .. N
        <4>1. f[n - 1] \in Nat
          BY <3>2
        <4>2. f[n] = Next1(f[n - 1], n)
          BY <1>1, <1>2, <3>2, <4>1
        <4> QED BY <3>2, <4>2
      <3> QED BY <3>1, <3>2
    <2> HIDE DEF N
    <2>2. DOMAIN Body(f) = 0 .. N /\ DOMAIN f = 0 .. N
      OBVIOUS
    <2>3. f = [n \in 0 .. N |-> f[n]]
      OBVIOUS
    <2> QED BY <2>1, <2>2, <2>3
  <1>3. N \in Nat
    OBVIOUS
  <1>4. \E f \in [0 .. N -> Nat] :
          f[0] = 0 /\ \A n \in 1 .. N : f[n] = move[<<f[n - 1], n>>]
    <2>1. StepsWithin(move, Nat, N)
      BY <1>1 DEF StepsWithin
    <2> HIDE DEF move, N
    <2>2. Iterates(0, move, Nat, N) # {}
      BY <2>1, <1>3, Recursion
    <2> QED BY <2>2 DEF Iterates
  <1>5. \E f : f = Body(f)
    <2> HIDE DEF move, Body
    <2> QED BY <1>2, <1>4
  <1> DEFINE sum == CHOOSE f : f = Body(f)
  <1>6. sum = Body(sum)
    <2> HIDE DEF Body
    <2> QED BY <1>5, Zenon
  <1>7. Total(text, k) = sum[N]
    BY Zenon DEF Total
  <1> HIDE DEF sum
  <1>8. sum[0] = 0 /\ \A n \in 1 .. N : sum[n] = Next1(sum[n - 1], n)
    <2>1. \A n \in 0 .. N : sum[n] = Body(sum)[n]
      BY <1>6, Zenon
    <2> QED BY <1>3, <2>1
  <1> DEFINE S == {n \in Nat : n <= N => sum[n] \in Nat}
  <1>9. 0 \in S /\ \A n \in Nat : n \in S => n + 1 \in S
    <2> SUFFICES ASSUME NEW n \in Nat, sum[n] \in Nat, n + 1 <= N PROVE sum[n + 1] \in Nat
      BY <1>8, <1>3
    <2>1. n + 1 \in 1 .. N /\ (n + 1) - 1 = n
      BY <1>3
    <2>2. sum[n + 1] = Next1(sum[n], n + 1)
      BY <1>8, <2>1
    <2> QED BY <1>0, <2>1, <2>2
  <1>10. Nat \subseteq S
    <2> HIDE DEF S
    <2> QED BY <1>9, NaturalInduction
  <1>11. sum \in [0 .. N -> Nat]
    <2>1. \A n \in 0 .. N : sum[n] \in Nat
      <3> HIDE DEF N
      <3> QED BY <1>3, <1>10
    <2>2. sum = [n \in 0 .. N |-> sum[n]]
      <3>1. DOMAIN sum = 0 .. N
        BY <1>6
      <3> QED BY <1>6, <3>1, Zenon
    <2> HIDE DEF N
    <2> QED BY <2>1, <2>2
  <1> QED BY <1>7, <1>8, <1>11

(* A text with one more character has that character's bytes more.          *)
LEMMA TotalGrows ==
  ASSUME NEW text \in Seq(Characters), NEW c \in Characters, NEW k \in {1, 2}
  PROVE  /\ Total(<<>>, k) = 0 /\ Total(text, k) \in Nat
         /\ Total(Append(text, c), k) = Total(text, k) + c[k]
  <1> DEFINE N == Len(text)
             longer == Append(text, c)
  <1>1. /\ N \in Nat /\ longer \in Seq(Characters) /\ Len(longer) = N + 1 /\ longer[N + 1] = c
        /\ \A n \in 1 .. N : longer[n] = text[n]
    OBVIOUS
  <1>2. PICK a \in [0 .. N -> Nat] :
          /\ a[0] = 0 /\ Total(text, k) = a[N]
          /\ \A n \in 1 .. N : a[n] = a[n - 1] + text[n][k]
    BY TotalUnfolds
  <1>3. PICK b \in [0 .. N + 1 -> Nat] :
          /\ b[0] = 0 /\ Total(longer, k) = b[N + 1]
          /\ \A n \in 1 .. N + 1 : b[n] = b[n - 1] + longer[n][k]
    <2> HIDE DEF longer, N
    <2>1. \E b \in [0 .. Len(longer) -> Nat] :
            /\ b[0] = 0 /\ Total(longer, k) = b[Len(longer)]
            /\ \A n \in 1 .. Len(longer) : b[n] = b[n - 1] + longer[n][k]
      BY <1>1, TotalUnfolds
    <2> QED BY <1>1, <2>1
  <1>4. Total(<<>>, k) = 0
    <2>1. PICK e \in [0 .. Len(<<>>) -> Nat] : e[0] = 0 /\ Total(<<>>, k) = e[Len(<<>>)]
      <3>1. <<>> \in Seq(Characters)
        OBVIOUS
      <3> QED BY <3>1, TotalUnfolds
    <2> QED BY <2>1
  <1> HIDE DEF longer, N
  <1> DEFINE S == {n \in Nat : n <= N => a[n] = b[n]}
  <1>5. 0 \in S
    BY <1>2, <1>3
  <1>6. ASSUME NEW n \in Nat, n \in S PROVE n + 1 \in S
    <2> SUFFICES ASSUME n + 1 <= N PROVE a[n + 1] = b[n + 1]
      OBVIOUS
    <2>1. n + 1 \in 1 .. N /\ n + 1 \in 1 .. N + 1 /\ (n + 1) - 1 = n
      BY <1>1
    <2>2. a[n] = b[n]
      BY <1>1, <1>6, <2>1
    <2>3. a[n + 1] = a[n] + text[n + 1][k]
      BY <1>2, <2>1
    <2>4. b[n + 1] = b[n] + longer[n + 1][k]
      BY <1>3, <2>1
    <2>5. longer[n + 1] = text[n + 1]
      BY <1>1, <2>1
    <2> QED BY <2>2, <2>3, <2>4, <2>5
  <1>7. a[N] = b[N]
    <2> HIDE DEF S
    <2>1. N \in S
      BY <1>1, <1>5, <1>6, NaturalInduction
    <2> QED BY <1>1, <2>1 DEF S
  <1>8. b[N + 1] = b[N] + c[k]
    <2>1. N + 1 \in 1 .. N + 1 /\ (N + 1) - 1 = N
      BY <1>1
    <2> QED BY <1>1, <1>3, <2>1
  <1> QED BY <1>1, <1>2, <1>3, <1>4, <1>7, <1>8 DEF longer

(* The first n characters of a text.                                        *)
Beginning(text, n) == SubSeq(text, 1, n)

(* A text that begins longer has as many more bytes, and more in JSON, as   *)
(* no character is shorter there.                                           *)
LEMMA StartsGrow ==
  ASSUME NEW text \in Seq(Characters), NEW n \in 0 .. Len(text), NEW m \in n .. Len(text)
  PROVE  /\ Beginning(text, n) \in Seq(Characters) /\ Bytes(Beginning(text, n)) \in Nat
         /\ Json(Beginning(text, n)) \in Nat
         /\ Bytes(Beginning(text, n)) <= Bytes(Beginning(text, m))
         /\ Bytes(Beginning(text, m)) - Bytes(Beginning(text, n))
              <= Json(Beginning(text, m)) - Json(Beginning(text, n))
  <1> DEFINE Grown(a, b) == /\ Bytes(Beginning(text, a)) <= Bytes(Beginning(text, b))
                            /\ Bytes(Beginning(text, b)) - Bytes(Beginning(text, a))
                                 <= Json(Beginning(text, b)) - Json(Beginning(text, a))
             N == Len(text)
             S == {d \in Nat : n + d <= N => Grown(n, n + d)}
  <1>1. N \in Nat /\ n \in Nat /\ m \in Nat /\ n <= m /\ m <= N
    OBVIOUS
  <1>2. ASSUME NEW i \in 0 .. N
        PROVE  /\ Beginning(text, i) \in Seq(Characters)
               /\ Bytes(Beginning(text, i)) \in Nat /\ Json(Beginning(text, i)) \in Nat
    <2>1. Beginning(text, i) \in Seq(Characters)
      BY DEF Beginning
    <2>2. <<1, 1>> \in Characters
      BY DEF Characters
    <2> QED BY <2>1, <2>2, TotalGrows DEF Bytes, Json
  <1>3. ASSUME NEW i \in 0 .. N, i + 1 <= N PROVE Grown(i, i + 1)
    <2> DEFINE c == text[i + 1]
    <2>1. c \in Characters
      BY <1>1, <1>3
    <2>2. c[1] \in Nat /\ c[2] \in Nat /\ c[1] <= c[2]
      BY <2>1 DEF Characters
    <2>3. Beginning(text, i + 1) = Append(Beginning(text, i), c)
      <3>1. Len(Beginning(text, i)) = i /\ Len(Beginning(text, i + 1)) = i + 1
        BY <1>1, <1>3 DEF Beginning
      <3>2. \A j \in 1 .. i + 1 : Beginning(text, i + 1)[j] = Append(Beginning(text, i), c)[j]
        <4> SUFFICES ASSUME NEW j \in 1 .. i + 1 PROVE Beginning(text, i + 1)[j] = Append(Beginning(text, i), c)[j]
          OBVIOUS
        <4>1. CASE j = i + 1
          BY <1>1, <1>3, <4>1 DEF Beginning
        <4>2. CASE j \in 1 .. i
          <5>1. j \in 1 .. Len(Beginning(text, i)) /\ Beginning(text, i)[j] = text[j]
            BY <1>1, <1>3, <4>2 DEF Beginning
          <5>2. Beginning(text, i + 1)[j] = text[j]
            BY <1>1, <1>3, <4>2 DEF Beginning
          <5>3. Beginning(text, i) \in Seq(Characters)
            BY <1>2
          <5> HIDE DEF c
          <5>4. Append(Beginning(text, i), c)[j] = Beginning(text, i)[j]
            BY <2>1, <5>1, <5>3
          <5> QED BY <5>1, <5>2, <5>4
        <4>3. j = i + 1 \/ j \in 1 .. i
          BY <1>1
        <4> QED BY <4>1, <4>2, <4>3
      <3>3. i + 1 \in 0 .. N
        BY <1>1, <1>3
      <3>4. Beginning(text, i + 1) \in Seq(Characters) /\ Append(Beginning(text, i), c) \in Seq(Characters)
        <4> HIDE DEF c, N
        <4> QED BY <1>2, <2>1, <3>3
      <3> HIDE DEF c, N
      <3> QED BY <3>1, <3>2, <3>4
    <2> HIDE DEF c, N
    <2>4. /\ Bytes(Beginning(text, i + 1)) = Bytes(Beginning(text, i)) + c[1]
          /\ Json(Beginning(text, i + 1)) = Json(Beginning(text, i)) + c[2]
      BY <1>2, <2>1, <2>3, TotalGrows DEF Bytes, Json
    <2> QED BY <1>2, <2>2, <2>4
  <1> HIDE DEF N
  <1>4. 0 \in S
    BY <1>1, <1>2
  <1>5. ASSUME NEW d \in Nat, d \in S PROVE d + 1 \in S
    <2> SUFFICES ASSUME n + (d + 1) <= N PROVE Grown(n, n + (d + 1))
      OBVIOUS
    <2>1. n + d \in 0 .. N /\ n \in 0 .. N /\ (n + d) + 1 \in 0 .. N /\ n + (d + 1) = (n + d) + 1
      BY <1>1
    <2>2. Grown(n, n + d)
      BY <1>1, <1>5, <2>1
    <2>3. Grown(n + d, (n + d) + 1)
      <3> HIDE DEF Grown
      <3> QED BY <1>3, <2>1
    <2>4. \A i \in {n, n + d, (n + d) + 1} :
            Bytes(Beginning(text, i)) \in Nat /\ Json(Beginning(text, i)) \in Nat
      BY <1>2, <2>1
    <2>5. Grown(n, (n + d) + 1)
      <3>1. \A u, v, w, x, y, z \in Nat :
              u <= v /\ v - u <= y - x /\ v <= w /\ w - v <= z - y => u <= w /\ w - u <= z - x
        OBVIOUS
      <3> QED BY <2>2, <2>3, <2>4, <3>1
    <2> HIDE DEF Grown
    <2> QED BY <2>1, <2>5
  <1>6. m - n \in S
    <2> HIDE DEF S
    <2>1. m - n \in Nat
      BY <1>1
    <2> QED BY <1>4, <1>5, <2>1, NaturalInduction
  <1>7. n + (m - n) = m
    BY <1>1
  <1>8. Grown(n, m)
    <2> HIDE DEF Grown
    <2> QED BY <1>1, <1>6, <1>7
  <1> QED BY <1>1, <1>2, <1>8

(* The lengths at which a text may be cut, for max bytes with the ellipsis.   *)
Ends(text, max) ==
  {n \in 0 .. Len(text) : Bytes(SubSeq(text, 1, n)) <= max - Ellipsis[1]}

LastEnd(text, max) == CHOOSE n \in Ends(text, max) : \A k \in Ends(text, max) : k <= n

(* A text that has to be cut keeps the longest beginning that leaves room.   *)
LEMMA LastEndIsLast ==
  ASSUME NEW text \in Seq(Characters), NEW max \in Nat, max >= 3
  PROVE  /\ LastEnd(text, max) \in 0 .. Len(text)
         /\ Bytes(Beginning(text, LastEnd(text, max))) <= max - 3
         /\ \A k \in Ends(text, max) : k <= LastEnd(text, max)
  <1> DEFINE N == Len(text)
             E == Ends(text, max)
             S == {k \in Nat : \E n \in E : k = N - n}
  <1>1. N \in Nat /\ E \subseteq 0 .. N
    BY DEF Ends
  <1>2. 0 \in E
    <2>1. SubSeq(text, 1, 0) = <<>>
      OBVIOUS
    <2>2. Bytes(<<>>) = 0
      <3>1. <<1, 1>> \in Characters
        BY DEF Characters
      <3> QED BY <3>1, TotalGrows DEF Bytes
    <2>3. Ellipsis[1] = 3
      BY DEF Ellipsis
    <2>4. Bytes(SubSeq(text, 1, 0)) <= max - Ellipsis[1]
      <3>1. 0 <= max - Ellipsis[1]
        BY <2>3
      <3> QED BY <2>1, <2>2, <3>1, Zenon
    <2>5. 0 \in 0 .. Len(text)
      BY <1>1
    <2> QED BY <2>4, <2>5, Zenon DEF Ends
  <1> HIDE DEF E, N
  <1>3. S # {} /\ S \in SUBSET Nat
    <2>1. N - 0 \in S
      BY <1>1, <1>2
    <2> QED BY <2>1
  <1>4. PICK l \in S : \A k \in S : l <= k
    <2> HIDE DEF S
    <2> QED BY <1>3, LeastNumber
  <1>5. PICK n \in E : l = N - n
    BY <1>4
  <1>6. ASSUME NEW k \in E PROVE k <= n
    <2>1. N - k \in S /\ k \in Nat /\ n \in Nat
      BY <1>1, <1>5
    <2>2. l <= N - k
      BY <1>4, <2>1
    <2> QED BY <1>1, <1>5, <2>1, <2>2
  <1> DEFINE last == LastEnd(text, max)
  <1>7. last \in E /\ \A k \in E : k <= last
    BY <1>5, <1>6 DEF LastEnd, E
  <1> QED BY <1>1, <1>7 DEF E, Ends, N, Ellipsis, Beginning

(* A cut text is a text of at most max bytes.                                *)
LEMMA CutIsWithin ==
  ASSUME NEW text \in Seq(Characters), NEW max \in Nat
  PROVE  /\ Cut(text, max) \in Seq(Characters) /\ Json(Cut(text, max)) \in Nat
         /\ Bytes(Cut(text, max)) \in Nat /\ Bytes(Cut(text, max)) <= max
         /\ Cut(text, max) =
              IF Bytes(text) <= max THEN text
              ELSE IF max < 3 THEN <<>>
              ELSE Append(Beginning(text, LastEnd(text, max)), Ellipsis)
         /\ ~(Bytes(text) <= max) /\ max >= 3 =>
              /\ Bytes(Cut(text, max)) = Bytes(Beginning(text, LastEnd(text, max))) + 3
              /\ Json(Cut(text, max)) = Json(Beginning(text, LastEnd(text, max))) + 3
  <1> DEFINE n == LastEnd(text, max)
             begin == Beginning(text, n)
  <1>1. Cut(text, max) =
          IF Bytes(text) <= max THEN text ELSE IF max < 3 THEN <<>> ELSE Append(begin, Ellipsis)
    <2>1. Ellipsis[1] = 3
      BY DEF Ellipsis
    <2>2. Cut(text, max) =
            IF Bytes(text) <= max THEN text
            ELSE IF max < Ellipsis[1] THEN <<>>
            ELSE Append(begin, Ellipsis)
      BY Zenon DEF Cut, LastEnd, Ends, Beginning
    <2> HIDE DEF begin
    <2> QED BY <2>1, <2>2
  <1>2. Ellipsis \in Characters /\ Ellipsis[1] = 3 /\ Ellipsis[2] = 3
    BY DEF Ellipsis, Characters
  <1>3. ASSUME NEW t \in Seq(Characters) PROVE Bytes(t) \in Nat /\ Json(t) \in Nat
    BY <1>2, TotalGrows DEF Bytes, Json
  <1>4. Bytes(<<>>) = 0 /\ <<>> \in Seq(Characters)
    BY <1>2, TotalGrows DEF Bytes
  <1>5. ASSUME max >= 3
        PROVE  /\ Append(begin, Ellipsis) \in Seq(Characters)
               /\ Bytes(Append(begin, Ellipsis)) = Bytes(begin) + 3
               /\ Json(Append(begin, Ellipsis)) = Json(begin) + 3
               /\ Bytes(begin) + 3 <= max
    <2>1. n \in 0 .. Len(text) /\ Bytes(begin) <= max - 3
      BY <1>5, LastEndIsLast
    <2>2. begin \in Seq(Characters)
      <3>1. Len(text) \in n .. Len(text)
        BY <2>1
      <3> HIDE DEF n
      <3> QED BY <2>1, <3>1, StartsGrow
    <2> HIDE DEF begin
    <2>3. Append(begin, Ellipsis) \in Seq(Characters)
      BY <1>2, <2>2
    <2>4. /\ Bytes(Append(begin, Ellipsis)) = Bytes(begin) + 3
          /\ Json(Append(begin, Ellipsis)) = Json(begin) + 3
      BY <1>2, <2>2, TotalGrows DEF Bytes, Json
    <2>5. Bytes(begin) \in Nat
      BY <1>3, <2>2
    <2> QED BY <2>1, <2>3, <2>4, <2>5
  <1> HIDE DEF begin
  <1>6. Cut(text, max) \in Seq(Characters) /\ Bytes(Cut(text, max)) <= max
    <2>1. CASE Bytes(text) <= max
      BY <1>1, <2>1
    <2>2. CASE ~(Bytes(text) <= max) /\ max < 3
      BY <1>1, <1>4, <2>2
    <2>3. CASE ~(Bytes(text) <= max) /\ ~(max < 3)
      BY <1>1, <1>5, <2>3
    <2> QED BY <2>1, <2>2, <2>3
  <1>7. Json(Cut(text, max)) \in Nat /\ Bytes(Cut(text, max)) \in Nat
    BY <1>3, <1>6
  <1>8. ~(Bytes(text) <= max) /\ max >= 3 =>
          Bytes(Cut(text, max)) = Bytes(begin) + 3 /\ Json(Cut(text, max)) = Json(begin) + 3
    BY <1>1, <1>5
  <1> QED BY <1>1, <1>6, <1>7, <1>8 DEF begin

(* More bytes give a text that is no shorter, and no shorter in JSON: this is *)
(* what the bisection relies on. The ellipsis takes the place of more bytes   *)
(* than its own.                                                              *)
LEMMA CutsGrow ==
  ASSUME NEW text \in Seq(Characters), NEW a \in Nat, NEW b \in Nat, a <= b
  PROVE  /\ Bytes(Cut(text, a)) <= Bytes(Cut(text, b))
         /\ Json(Cut(text, a)) <= Json(Cut(text, b))
  <1> DEFINE ea == LastEnd(text, a)
             eb == LastEnd(text, b)
             N == Len(text)
  <1>1. N \in Nat /\ Beginning(text, N) = text
    BY DEF Beginning
  <1>2. Bytes(<<>>) = 0 /\ Json(<<>>) = 0
    <2>1. <<1, 1>> \in Characters /\ <<>> \in Seq(Characters)
      BY DEF Characters
    <2> QED BY <2>1, TotalGrows DEF Bytes, Json
  <1>3. /\ Bytes(Cut(text, a)) \in Nat /\ Json(Cut(text, a)) \in Nat
        /\ Bytes(Cut(text, b)) \in Nat /\ Json(Cut(text, b)) \in Nat
    BY CutIsWithin
  <1>4. N \in 0 .. N /\ N \in N .. N
    BY <1>1
  <1>5. Bytes(text) \in Nat /\ Json(text) \in Nat
    <2> HIDE DEF N
    <2> QED BY <1>1, <1>4, StartsGrow DEF N
  <1>6. CASE Bytes(text) <= a
    BY <1>3, <1>5, <1>6, CutIsWithin
  <1>7. CASE ~(Bytes(text) <= a) /\ a < 3
    <2>1. Cut(text, a) = <<>>
      BY <1>7, CutIsWithin
    <2> QED BY <1>2, <1>3, <2>1
  <1>8. CASE ~(Bytes(text) <= a) /\ ~(a < 3)
    <2>1. /\ ea \in 0 .. N /\ Bytes(Beginning(text, ea)) <= a - 3
          /\ eb \in 0 .. N /\ \A k \in Ends(text, b) : k <= eb
      BY <1>8, LastEndIsLast
    <2>2. ea \in Ends(text, b)
      <3>1. Ellipsis[1] = 3 /\ Bytes(Beginning(text, ea)) <= b - 3
        <4>1. Bytes(Beginning(text, ea)) \in Nat
          <5>1. N \in ea .. N
            BY <1>1, <2>1
          <5> QED BY <2>1, <5>1, StartsGrow
        <4> HIDE DEF ea
        <4> QED BY <2>1, <4>1 DEF Ellipsis
      <3> HIDE DEF ea
      <3> QED BY <2>1, <3>1 DEF Ends, Beginning
    <2>3. ea <= eb /\ eb \in ea .. N /\ N \in ea .. N
      BY <1>1, <2>1, <2>2
    <2>4. /\ Bytes(Cut(text, a)) = Bytes(Beginning(text, ea)) + 3
          /\ Json(Cut(text, a)) = Json(Beginning(text, ea)) + 3
      <3>1. a >= 3
        BY <1>8
      <3> QED BY <1>8, <3>1, CutIsWithin
    <2>5. Bytes(Beginning(text, ea)) \in Nat /\ Json(Beginning(text, ea)) \in Nat
      BY <2>1, <2>3, StartsGrow
    <2>6. CASE Bytes(text) <= b
      <3>1. Cut(text, b) = text
        BY <2>6, CutIsWithin
      <3>2. Bytes(text) - Bytes(Beginning(text, ea)) <= Json(text) - Json(Beginning(text, ea))
        <4>1. Bytes(Beginning(text, N)) - Bytes(Beginning(text, ea))
                <= Json(Beginning(text, N)) - Json(Beginning(text, ea))
          <5> HIDE DEF ea
          <5> QED BY <2>1, <2>3, StartsGrow
        <4> HIDE DEF N, ea
        <4> QED BY <1>1, <4>1
      <3> HIDE DEF ea
      <3> QED BY <1>5, <1>8, <2>1, <2>4, <2>5, <3>1, <3>2
    <2>7. CASE ~(Bytes(text) <= b)
      <3>1. /\ Bytes(Cut(text, b)) = Bytes(Beginning(text, eb)) + 3
            /\ Json(Cut(text, b)) = Json(Beginning(text, eb)) + 3
        <4>1. b >= 3
          BY <1>8
        <4> QED BY <2>7, <4>1, CutIsWithin
      <3>2. /\ Bytes(Beginning(text, ea)) <= Bytes(Beginning(text, eb))
            /\ Bytes(Beginning(text, eb)) - Bytes(Beginning(text, ea))
                 <= Json(Beginning(text, eb)) - Json(Beginning(text, ea))
        BY <2>1, <2>3, StartsGrow
      <3>3. Bytes(Beginning(text, eb)) \in Nat /\ Json(Beginning(text, eb)) \in Nat
        <4>1. N \in eb .. N
          BY <1>1, <2>1
        <4> QED BY <2>1, <4>1, StartsGrow
      <3> HIDE DEF ea, eb
      <3> QED BY <2>4, <2>5, <3>1, <3>2, <3>3
    <2> QED BY <2>6, <2>7
  <1> QED BY <1>6, <1>7, <1>8

-----------------------------------------------------------------------------
(* The bisection *)

FieldNames == {"body", "subtitle", "title"}
TextsOfFields == [FieldNames -> Seq(Characters)]

FitsWith(m, texts, field, text) == FitsIn(m, [texts EXCEPT ![field] = text])

(* The bytes of a text are a number.                                         *)
LEMMA SizesAreNumbers ==
  ASSUME NEW text \in Seq(Characters)
  PROVE  Bytes(text) \in Nat /\ Json(text) \in Nat
  <1>1. <<1, 1>> \in Characters
    BY DEF Characters
  <1> QED BY <1>1, TotalGrows DEF Bytes, Json

(* What fits still fits when a field gets shorter in JSON.                   *)
LEMMA ShorterFits ==
  ASSUME NEW m \in Messages, NEW texts \in TextsOfFields, NEW field \in FieldNames,
         NEW a \in Seq(Characters), NEW b \in Seq(Characters), Json(a) <= Json(b),
         FitsWith(m, texts, field, b)
  PROVE  FitsWith(m, texts, field, a)
  <1>1. m.overhead \in Nat /\ MaxPayload \in Nat
    BY BarkAssumption
  <1>2. \A f \in FieldNames : Json(texts[f]) \in Nat
    BY SizesAreNumbers DEF TextsOfFields
  <1>3. Json(a) \in Nat /\ Json(b) \in Nat
    BY SizesAreNumbers
  <1> DEFINE Text(c, f) == [texts EXCEPT ![field] = c][f]
  <1>4. \A c, f : f \in FieldNames => Text(c, f) = IF f = field THEN c ELSE texts[f]
    BY DEF TextsOfFields
  <1>5. ASSUME NEW c
        PROVE FitsWith(m, texts, field, c) =
                (m.overhead + Json(Text(c, "body")) + Json(Text(c, "subtitle"))
                   + Json(Text(c, "title")) <= MaxPayload)
    BY DEF FitsWith, FitsIn, SizeOf
  <1> HIDE DEF Text
  <1>6. /\ "body" \in FieldNames /\ "subtitle" \in FieldNames /\ "title" \in FieldNames
    BY DEF FieldNames
  <1>7. \A f \in FieldNames : /\ Json(Text(a, f)) \in Nat /\ Json(Text(b, f)) \in Nat
                              /\ Json(Text(a, f)) <= Json(Text(b, f))
    <2> SUFFICES ASSUME NEW f \in FieldNames
                 PROVE  /\ Json(Text(a, f)) \in Nat /\ Json(Text(b, f)) \in Nat
                        /\ Json(Text(a, f)) <= Json(Text(b, f))
      OBVIOUS
    <2>1. CASE f = field
      <3>1. Text(a, f) = a /\ Text(b, f) = b
        BY <1>4, <2>1
      <3> QED BY <1>3, <3>1
    <2>2. CASE f # field
      <3>1. Text(a, f) = texts[f] /\ Text(b, f) = texts[f]
        BY <1>4, <2>2
      <3>2. Json(texts[f]) \in Nat /\ Json(texts[f]) <= Json(texts[f])
        BY <1>2
      <3> QED BY <3>1, <3>2
    <2> QED BY <2>1, <2>2
  <1>8. m.overhead + Json(Text(b, "body")) + Json(Text(b, "subtitle")) + Json(Text(b, "title"))
          <= MaxPayload
    BY <1>5
  <1>9. /\ Json(Text(a, "body")) \in Nat /\ Json(Text(b, "body")) \in Nat
        /\ Json(Text(a, "body")) <= Json(Text(b, "body"))
    BY <1>6, <1>7
  <1>10. /\ Json(Text(a, "subtitle")) \in Nat /\ Json(Text(b, "subtitle")) \in Nat
         /\ Json(Text(a, "subtitle")) <= Json(Text(b, "subtitle"))
    BY <1>6, <1>7
  <1>11. /\ Json(Text(a, "title")) \in Nat /\ Json(Text(b, "title")) \in Nat
         /\ Json(Text(a, "title")) <= Json(Text(b, "title"))
    BY <1>6, <1>7
  <1>12. m.overhead + Json(Text(a, "body")) + Json(Text(a, "subtitle")) + Json(Text(a, "title"))
           <= MaxPayload
    <2>1. \A o, p, u, v, w, x, y, z \in Nat :
            o + x + y + z <= p /\ u <= x /\ v <= y /\ w <= z => o + u + v + w <= p
      OBVIOUS
    <2> QED BY <1>1, <1>8, <1>9, <1>10, <1>11, <2>1
  <1> QED BY <1>5, <1>12

(* The middle of an interval is in it.                                       *)
LEMMA MiddleIsBetween ==
  ASSUME NEW low \in Nat, NEW high \in Int, low <= high
  PROVE  (low + high) \div 2 \in Int /\ low <= (low + high) \div 2 /\ (low + high) \div 2 <= high
  OBVIOUS

(* A state of the bisection: the lengths left are from low to high.           *)
Loops(all) == [low : 0 .. all + 1, high : -1 .. all, best : Seq(Characters)]

(* The lengths below a cut that fits, or above one that does not, are done    *)
(* with.                                                                      *)
Narrowed(l, next, m, texts, field) ==
  \E middle \in l.low .. l.high :
    LET cut == Cut(m[field], middle) IN
    \/ /\ FitsWith(m, texts, field, cut)
       /\ next.low = middle + 1 /\ next.high = l.high /\ next.best = cut
    \/ /\ ~FitsWith(m, texts, field, cut)
       /\ next.low = l.low /\ next.high = middle - 1 /\ next.best = l.best

(* One turn leaves fewer lengths.                                            *)
LEMMA TurnOfLoop ==
  ASSUME NEW m \in Messages, NEW texts, NEW field \in FieldNames,
         NEW l \in Loops(Bytes(m[field]))
  PROVE  /\ Tried(l, m, texts, field, 1) \in Loops(Bytes(m[field]))
         /\ l.high < l.low => Tried(l, m, texts, field, 1) = l
         /\ l.low <= l.high =>
              Narrowed(l, Tried(l, m, texts, field, 1), m, texts, field)
  <1> DEFINE t == m[field]
             all == Bytes(t)
             middle == (l.low + l.high) \div 2
             cut == Cut(t, middle)
             next == Tried(l, m, texts, field, 1)
  <1>1. t \in Seq(Characters)
    BY BarkAssumption DEF FieldNames
  <1>2. all \in Nat
    <2> HIDE DEF t
    <2> QED BY <1>1, SizesAreNumbers
  <1>3. next = IF l.high - l.low + 1 < 1 THEN l
               ELSE IF FitsWith(m, texts, field, cut) THEN [l EXCEPT !.low = middle + 1, !.best = cut]
               ELSE [l EXCEPT !.high = middle - 1]
    BY Zenon DEF Tried, FitsWith
  <1> HIDE DEF all, t
  <1>4. /\ l = [low |-> l.low, high |-> l.high, best |-> l.best]
        /\ l.low \in 0 .. all + 1 /\ l.high \in -1 .. all /\ l.best \in Seq(Characters)
        /\ l.low \in Nat /\ l.high \in Int
    BY <1>2 DEF Loops, all, t
  <1> HIDE DEF next
  <1>5. CASE l.high < l.low
    <2>1. next = l
      BY <1>3, <1>4, <1>5
    <2> QED BY <1>4, <1>5, <2>1 DEF next, all, t
  <1>6. CASE l.low <= l.high
    <2>1. middle \in Int /\ l.low <= middle /\ middle <= l.high
      BY <1>4, <1>6, MiddleIsBetween
    <2> HIDE DEF middle
    <2>2. middle \in l.low .. l.high /\ middle \in Nat
      BY <1>4, <2>1
    <2>3. cut \in Seq(Characters)
      BY <1>1, <2>2, CutIsWithin
    <2> HIDE DEF cut
    <2>4. ~(l.high - l.low + 1 < 1)
      BY <1>4, <1>6
    <2>5. CASE FitsWith(m, texts, field, cut)
      <3>1. next = [low |-> middle + 1, high |-> l.high, best |-> cut]
        BY <1>3, <1>4, <2>4, <2>5
      <3>2. middle + 1 \in 0 .. all + 1
        BY <1>2, <1>4, <2>1
      <3>3. next \in Loops(all)
        BY <1>4, <2>3, <3>1, <3>2 DEF Loops
      <3>4. next.low = middle + 1 /\ next.high = l.high /\ next.best = cut
        BY <3>1
      <3> QED BY <1>4, <1>6, <2>2, <2>5, <3>3, <3>4 DEF Narrowed, next, all, t, cut
    <2>6. CASE ~FitsWith(m, texts, field, cut)
      <3>1. next = [low |-> l.low, high |-> middle - 1, best |-> l.best]
        BY <1>3, <1>4, <2>4, <2>6
      <3>2. middle - 1 \in -1 .. all
        BY <1>2, <1>4, <2>1
      <3>3. next \in Loops(all)
        BY <1>4, <3>1, <3>2 DEF Loops
      <3>4. next.low = l.low /\ next.high = middle - 1 /\ next.best = l.best
        BY <3>1
      <3> QED BY <1>4, <1>6, <2>2, <2>6, <3>3, <3>4 DEF Narrowed, next, all, t, cut
    <2> QED BY <2>5, <2>6
  <1> QED BY <1>4, <1>5, <1>6

(* The states of the bisection of a field; Fitted is what it ends with, after *)
(* one turn more than there are bytes.                                        *)
Bisections(m, texts, field) ==
  {loop \in [0 .. Bytes(m[field]) + 1 -> Loops(Bytes(m[field]))] :
     /\ loop[0] = [low |-> 0, high |-> Bytes(m[field]), best |-> <<>>]
     /\ Fitted(m, texts, field) = loop[Bytes(m[field]) + 1].best
     /\ \A n \in 1 .. Bytes(m[field]) + 1 : loop[n] = Tried(loop[n - 1], m, texts, field, 1)}

(* There are such states, as its recursive definition says.                   *)
LEMMA LoopUnfolds ==
  ASSUME NEW m \in Messages, NEW texts, NEW field \in FieldNames
  PROVE  Bisections(m, texts, field) # {}
  <1> DEFINE all == Bytes(m[field])
             N == all + 1
             V == Loops(all)
             base == [low |-> 0, high |-> all, best |-> <<>>]
             Next1(v, n) == Tried(v, m, texts, field, 1)
             move == [p \in V \X (1 .. N) |-> Next1(p[1], p[2])]
             Body(f) == [n \in 0 .. N |->
                           IF n = 0 THEN base ELSE Tried(f[n - 1], m, texts, field, 1)]
  <1>0. all \in Nat
    <2>1. m[field] \in Seq(Characters)
      BY BarkAssumption DEF FieldNames
    <2> QED BY <2>1, SizesAreNumbers
  <1>1. \A v \in V : \A n \in 1 .. N : move[<<v, n>>] = Next1(v, n) /\ move[<<v, n>>] \in V
    <2>1. \A v \in V : Tried(v, m, texts, field, 1) \in V
      BY TurnOfLoop
    <2> HIDE DEF V, N
    <2> QED BY <2>1
  <1>3. N \in Nat /\ base \in V
    <2>1. <<>> \in Seq(Characters)
      OBVIOUS
    <2> HIDE DEF all
    <2> QED BY <1>0, <2>1 DEF Loops
  <1> HIDE DEF all, base, V
  <1>2. ASSUME NEW f \in [0 .. N -> V], f[0] = base,
               \A n \in 1 .. N : f[n] = move[<<f[n - 1], n>>]
        PROVE  f = Body(f)
    <2> HIDE DEF N
    <2>1. ASSUME NEW n \in 0 .. N PROVE f[n] = Body(f)[n]
      <3>1. CASE n = 0
        BY <1>2, <3>1
      <3>2. CASE n \in 1 .. N
        <4>1. f[n - 1] \in V
          BY <1>3, <3>2
        <4> HIDE DEF move
        <4>2. f[n] = Next1(f[n - 1], n)
          BY <1>1, <1>2, <3>2, <4>1
        <4> QED BY <3>2, <4>2
      <3> QED BY <1>3, <3>1, <3>2
    <2>2. DOMAIN Body(f) = 0 .. N /\ DOMAIN f = 0 .. N
      OBVIOUS
    <2>3. f = [n \in 0 .. N |-> f[n]]
      OBVIOUS
    <2> QED BY <2>1, <2>2, <2>3
  <1>4. \E f \in [0 .. N -> V] :
          f[0] = base /\ \A n \in 1 .. N : f[n] = move[<<f[n - 1], n>>]
    <2> HIDE DEF move, N
    <2>1. StepsWithin(move, V, N)
      BY <1>1 DEF StepsWithin
    <2>2. Iterates(base, move, V, N) # {}
      BY <2>1, <1>3, Recursion
    <2> QED BY <2>2 DEF Iterates
  <1>5. \E f : f = Body(f)
    <2> HIDE DEF move, Body
    <2> QED BY <1>2, <1>4
  <1> DEFINE loop == CHOOSE f : f = Body(f)
  <1>6. loop = Body(loop)
    <2> HIDE DEF Body
    <2> QED BY <1>5, Zenon
  <1>7. Fitted(m, texts, field) = loop[N].best
    BY Zenon DEF Fitted, Bisected, all, base
  <1> HIDE DEF loop, N
  <1>8. loop[0] = base /\ \A n \in 1 .. N : loop[n] = Next1(loop[n - 1], n)
    <2>1. \A n \in 0 .. N : loop[n] = Body(loop)[n]
      BY <1>6, Zenon
    <2> QED BY <1>3, <2>1
  <1> DEFINE S == {n \in Nat : n <= N => loop[n] \in V}
  <1>9. 0 \in S /\ \A n \in Nat : n \in S => n + 1 \in S
    <2> SUFFICES ASSUME NEW n \in Nat, loop[n] \in V, n + 1 <= N PROVE loop[n + 1] \in V
      BY <1>8, <1>3
    <2>1. n + 1 \in 1 .. N /\ (n + 1) - 1 = n
      BY <1>3
    <2>2. loop[n + 1] = Next1(loop[n], n + 1)
      BY <1>8, <2>1
    <2> QED BY <2>2, TurnOfLoop DEF V, all
  <1>10. Nat \subseteq S
    <2> HIDE DEF S
    <2> QED BY <1>9, NaturalInduction
  <1>11. loop \in [0 .. N -> V]
    <2>1. \A n \in 0 .. N : loop[n] \in V
      BY <1>3, <1>10
    <2>2. loop = [n \in 0 .. N |-> loop[n]]
      <3>1. DOMAIN loop = 0 .. N
        BY <1>6
      <3> QED BY <1>6, <3>1, Zenon
    <2> QED BY <2>1, <2>2
  <1>12. \E f \in [0 .. N -> V] :
           /\ f[0] = base /\ Fitted(m, texts, field) = f[N].best
           /\ \A n \in 1 .. N : f[n] = Tried(f[n - 1], m, texts, field, 1)
    BY <1>7, <1>8, <1>11
  <1> QED BY <1>12 DEF Bisections, N, all, V, base

(* Where the loop is: best is the longest of the cuts below low, and those   *)
(* above high do not fit.                                                     *)
LoopSound(l, m, texts, field) ==
  /\ l.low <= l.high + 1
  /\ \/ l.low = 0 /\ l.best = <<>>
     \/ l.low > 0 /\ l.best = Cut(m[field], l.low - 1) /\ FitsWith(m, texts, field, l.best)
  /\ \A k \in l.high + 1 .. Bytes(m[field]) : ~FitsWith(m, texts, field, Cut(m[field], k))

(* A turn keeps it there.                                                    *)
LEMMA TurnIsSound ==
  ASSUME NEW m \in Messages, NEW texts \in TextsOfFields, NEW field \in FieldNames,
         NEW l \in Loops(Bytes(m[field])), LoopSound(l, m, texts, field)
  PROVE  LoopSound(Tried(l, m, texts, field, 1), m, texts, field)
  <1> DEFINE t == m[field]
             all == Bytes(t)
             next == Tried(l, m, texts, field, 1)
  <1>1. t \in Seq(Characters)
    BY BarkAssumption DEF FieldNames
  <1>2. all \in Nat
    <2> HIDE DEF t
    <2> QED BY <1>1, SizesAreNumbers
  <1>3. l.low \in 0 .. all + 1 /\ l.high \in -1 .. all /\ l.low \in Nat /\ l.high \in Int
    <2> HIDE DEF all
    <2>1. l \in Loops(all)
      BY DEF all
    <2> QED BY <1>2, <2>1 DEF Loops
  <1>4. CASE l.high < l.low
    BY <1>4, TurnOfLoop
  <1>5. CASE l.low <= l.high
    <2>1. PICK middle \in l.low .. l.high :
            \/ /\ FitsWith(m, texts, field, Cut(t, middle))
               /\ next.low = middle + 1 /\ next.high = l.high /\ next.best = Cut(t, middle)
            \/ /\ ~FitsWith(m, texts, field, Cut(t, middle))
               /\ next.low = l.low /\ next.high = middle - 1 /\ next.best = l.best
      <3>1. Narrowed(l, next, m, texts, field)
        BY <1>5, TurnOfLoop
      <3> HIDE DEF next
      <3> QED BY <3>1, Zenon DEF Narrowed
    <2> DEFINE cut == Cut(t, middle)
    <2>2. middle \in Nat /\ l.low <= middle /\ middle <= l.high
      BY <1>3, <2>1
    <2>3. CASE FitsWith(m, texts, field, cut)
      <3>1. next.low = middle + 1 /\ next.high = l.high /\ next.best = cut
        BY <2>1, <2>3
      <3> HIDE DEF next
      <3>2. next.low > 0 /\ next.low <= next.high + 1 /\ next.low - 1 = middle
        BY <1>3, <2>2, <3>1
      <3> QED BY <2>3, <3>1, <3>2 DEF LoopSound, next
    <2>4. CASE ~FitsWith(m, texts, field, cut)
      <3>1. next.low = l.low /\ next.high = middle - 1 /\ next.best = l.best
        BY <2>1, <2>4
      <3>2. ASSUME NEW k \in middle .. all PROVE ~FitsWith(m, texts, field, Cut(t, k))
        <4>1. k \in Nat /\ middle <= k
          BY <1>2, <2>2
        <4>2. Json(cut) <= Json(Cut(t, k)) /\ cut \in Seq(Characters) /\ Cut(t, k) \in Seq(Characters)
          <5> HIDE DEF t
          <5> QED BY <1>1, <2>2, <4>1, CutsGrow, CutIsWithin
        <4> HIDE DEF cut, t
        <4> QED BY <2>4, <4>2, ShorterFits
      <3> HIDE DEF next
      <3>3. next.low <= next.high + 1 /\ next.high + 1 = middle
        BY <1>3, <2>2, <3>1
      <3> QED BY <3>1, <3>2, <3>3 DEF LoopSound, next
    <2> QED BY <2>3, <2>4
  <1> QED BY <1>3, <1>4, <1>5

(* The text of a field after its turn: a text that fits and is as long as    *)
(* any cut that does, or nothing, where not even that fits.                   *)
LEMMA FittedIsLongest ==
  ASSUME NEW m \in Messages, NEW texts \in TextsOfFields, NEW field \in FieldNames
  PROVE  /\ Fitted(m, texts, field) \in Seq(Characters)
         /\ \A max \in 0 .. Bytes(m[field]) :
              FitsWith(m, texts, field, Cut(m[field], max)) =>
                Bytes(Cut(m[field], max)) <= Bytes(Fitted(m, texts, field))
         /\ \/ FitsWith(m, texts, field, Fitted(m, texts, field))
            \/ Fitted(m, texts, field) = <<>>
  <1> DEFINE t == m[field]
             all == Bytes(t)
             N == all + 1
  <1>1. t \in Seq(Characters)
    BY BarkAssumption DEF FieldNames
  <1>2. all \in Nat /\ N \in Nat
    <2> HIDE DEF t
    <2> QED BY <1>1, SizesAreNumbers
  <1>3. PICK loop \in [0 .. N -> Loops(all)] :
          /\ loop[0] = [low |-> 0, high |-> all, best |-> <<>>]
          /\ Fitted(m, texts, field) = loop[N].best
          /\ \A n \in 1 .. N : loop[n] = Tried(loop[n - 1], m, texts, field, 1)
    <2>1. Bisections(m, texts, field) # {}
      BY LoopUnfolds
    <2>2. PICK loop \in Bisections(m, texts, field) : TRUE
      BY <2>1
    <2> QED BY <2>2, Zenon DEF Bisections
  <1> DEFINE Left(l) == l.high + 1 - l.low
             Sound(n) == /\ LoopSound(loop[n], m, texts, field)
                         /\ Left(loop[n]) <= N - n
             S == {n \in Nat : n <= N => Sound(n)}
  <1> HIDE DEF all, t
  <1>4. 0 \in S
    <2>1. LoopSound(loop[0], m, texts, field)
      <3>1. loop[0].low = 0 /\ loop[0].high = all /\ loop[0].best = <<>>
        BY <1>3
      <3> QED BY <1>2, <3>1 DEF LoopSound, all, t
    <2>2. Left(loop[0]) <= N - 0
      BY <1>2, <1>3
    <2> HIDE DEF Left
    <2> QED BY <2>1, <2>2
  <1> HIDE DEF N
  <1>5. ASSUME NEW n \in Nat, n \in S PROVE n + 1 \in S
    <2> SUFFICES ASSUME n + 1 <= N PROVE Sound(n + 1)
      OBVIOUS
    <2> DEFINE l == loop[n]
               next == loop[n + 1]
    <2>1. n + 1 \in 1 .. N /\ (n + 1) - 1 = n /\ n \in 0 .. N
      BY <1>2
    <2>2. Sound(n) /\ l \in Loops(all) /\ next = Tried(l, m, texts, field, 1)
      BY <1>2, <1>3, <1>5, <2>1
    <2>3. LoopSound(next, m, texts, field)
      <3> HIDE DEF l, next
      <3> QED BY <2>2, TurnIsSound DEF all, t, l
    <2> HIDE DEF l, next
    <2>4. l.low \in Nat /\ l.high \in Int
      BY <1>2, <2>2 DEF Loops
    <2>5. CASE l.high < l.low
      <3>1. next = l
        BY <2>2, <2>5, TurnOfLoop DEF all, t
      <3> QED BY <1>2, <2>1, <2>3, <2>4, <2>5, <3>1 DEF l, next
    <2>6. CASE l.low <= l.high
      <3>1. PICK middle \in l.low .. l.high :
              \/ next.low = middle + 1 /\ next.high = l.high
              \/ next.low = l.low /\ next.high = middle - 1
        <4>1. l \in Loops(Bytes(m[field]))
          BY <2>2 DEF all, t
        <4>2. Narrowed(l, Tried(l, m, texts, field, 1), m, texts, field)
          BY <2>6, <4>1, TurnOfLoop
        <4>3. Narrowed(l, next, m, texts, field)
          BY <2>2, <4>2
        <4> QED BY <4>3 DEF Narrowed
      <3>2. Left(next) <= Left(l) - 1
        BY <2>4, <3>1
      <3>3. Left(l) <= N - n /\ Left(l) \in Int /\ Left(next) \in Int
        <4>1. Left(l) <= N - n
          <5> HIDE DEF Left
          <5> QED BY <2>2 DEF l
        <4>2. middle \in Int /\ next.low \in Int /\ next.high \in Int
          BY <2>4, <3>1
        <4> QED BY <2>4, <4>1, <4>2
      <3> HIDE DEF Left
      <3>4. Left(next) <= N - (n + 1)
        BY <1>2, <3>2, <3>3
      <3> QED BY <2>3, <3>4 DEF next
    <2> QED BY <2>4, <2>5, <2>6
  <1>6. N \in S
    <2> HIDE DEF S
    <2> QED BY <1>2, <1>4, <1>5, NaturalInduction
  <1> DEFINE l == loop[N]
  <1>7. LoopSound(l, m, texts, field) /\ Left(l) <= 0 /\ l \in Loops(all)
    BY <1>2, <1>3, <1>6
  <1>8. Fitted(m, texts, field) = l.best
    BY <1>3
  <1> HIDE DEF l
  <1>9. l.low \in Nat /\ l.high \in -1 .. all /\ l.high \in Int /\ l.best \in Seq(Characters)
    BY <1>2, <1>7 DEF Loops
  <1>10. l.low = l.high + 1
    BY <1>7, <1>9 DEF LoopSound
  <1>11. ASSUME NEW max \in 0 .. all, FitsWith(m, texts, field, Cut(t, max))
         PROVE  Bytes(Cut(t, max)) <= Bytes(l.best)
    <2>1. max < l.low
      <3> SUFFICES ASSUME l.low <= max PROVE FALSE
        BY <1>2, <1>9
      <3>1. max \in l.high + 1 .. all
        BY <1>2, <1>9, <1>10
      <3> QED BY <1>7, <1>11, <3>1 DEF LoopSound, all, t
    <2>2. l.best = Cut(t, l.low - 1)
      BY <1>2, <1>7, <1>9, <2>1 DEF LoopSound, t
    <2>3. max \in Nat /\ l.low - 1 \in Nat /\ max <= l.low - 1
      BY <1>2, <1>9, <2>1
    <2> QED BY <1>1, <2>2, <2>3, CutsGrow
  <1>12. FitsWith(m, texts, field, l.best) \/ l.best = <<>>
    BY <1>7 DEF LoopSound
  <1> QED BY <1>8, <1>9, <1>11, <1>12 DEF all, t

-----------------------------------------------------------------------------
(* A push that is fitted *)

(* The fields that had their turn, in the order of Fields.                    *)
Turns == 3 - Len(uncut)

(* What is in the payload: the fields that had no turn are whole; one that   *)
(* had is as long as could be, and those before it are empty; and while it    *)
(* does not fit, all that had their turn are.                                 *)
CutSound ==
  /\ \A i \in Turns + 1 .. 3 : payload[Fields[i]] = message[Fields[i]]
  /\ \A i \in 1 .. Turns : Longest(i) /\ \A k \in 1 .. i - 1 : payload[Fields[k]] = <<>>
  /\ ~FitsIn(message, payload) => \A i \in 1 .. Turns : payload[Fields[i]] = <<>>
  /\ push = "posting" => FitsIn(message, payload)

BarkTyped ==
  /\ push \in {"idle", "fitting", "posting", "sent", "transient", "permanent"}
  /\ push # "idle" => message \in Messages
  /\ payload \in TextsOfFields
  /\ uncut \in {Fields, <<"subtitle", "title">>, <<"title">>, <<>>}

BarkIInv == BarkTyped /\ (push # "idle" => CutSound)

(* The next field to be cut is the one after those that had their turn.       *)
LEMMA NextTurn ==
  ASSUME BarkTyped
  PROVE  /\ Turns \in 0 .. 3 /\ (Turns = 3 <=> uncut = <<>>)
         /\ uncut # <<>> =>
              /\ Head(uncut) = Fields[Turns + 1] /\ Len(Tail(uncut)) = Len(uncut) - 1
              /\ Tail(uncut) \in {Fields, <<"subtitle", "title">>, <<"title">>, <<>>}
         /\ \A i \in 1 .. 3 : Fields[i] \in FieldNames
         /\ \A i, k \in 1 .. 3 : Fields[i] = Fields[k] => i = k
         /\ \A f \in FieldNames : \E i \in 1 .. 3 : Fields[i] = f
         /\ Len(Fields) = 3
  <1>1. Fields = <<"body", "subtitle", "title">>
    BY DEF Fields
  <1>2. /\ \A i \in 1 .. 3 : Fields[i] \in FieldNames
        /\ \A i, k \in 1 .. 3 : Fields[i] = Fields[k] => i = k
        /\ \A f \in FieldNames : \E i \in 1 .. 3 : Fields[i] = f
        /\ Len(Fields) = 3
    BY <1>1 DEF FieldNames
  <1>3. CASE uncut = Fields
    BY <1>1, <1>2, <1>3 DEF Turns
  <1>4. CASE uncut = <<"subtitle", "title">>
    BY <1>1, <1>2, <1>4 DEF Turns
  <1>5. CASE uncut = <<"title">>
    BY <1>1, <1>2, <1>5 DEF Turns
  <1>6. CASE uncut = <<>>
    BY <1>1, <1>2, <1>6 DEF Turns
  <1> QED BY <1>3, <1>4, <1>5, <1>6 DEF BarkTyped

(* A message that is composed is whole.                                      *)
LEMMA ComposeIsSound ==
  ASSUME BarkIInv, \E m \in Messages : Compose(m)
  PROVE  BarkIInv'
  <1>1. PICK m \in Messages : Compose(m)
    OBVIOUS
  <1>2. DOMAIN Blank = FieldNames
    BY DEF Blank, FieldNames
  <1>3. payload' = [f \in FieldNames |-> m[f]] /\ message' = m /\ push' = "fitting" /\ uncut' = Fields
    BY <1>1, <1>2 DEF Compose
  <1>4. \A f \in FieldNames : m[f] \in Seq(Characters)
    BY BarkAssumption DEF FieldNames
  <1>5. BarkTyped'
    BY <1>3, <1>4 DEF BarkTyped, TextsOfFields
  <1>6. Turns' = 0
    BY <1>3, NextTurn DEF Turns, BarkIInv
  <1>7. \A i \in 1 .. 3 : Fields[i] \in FieldNames
    BY NextTurn DEF BarkIInv
  <1>8. CutSound'
    BY <1>3, <1>6, <1>7 DEF CutSound
  <1> QED BY <1>5, <1>8 DEF BarkIInv

(* A field is cut as little as it has to be.                                 *)
LEMMA CutFieldIsSound ==
  ASSUME BarkIInv, CutField
  PROVE  BarkIInv'
  <1> DEFINE n == Turns + 1
             F == Fields[n]
             cut == Fitted(message, payload, F)
  <1>1. /\ push = "fitting" /\ ~FitsIn(message, payload) /\ uncut # <<>>
        /\ payload' = [payload EXCEPT ![Head(uncut)] = Fitted(message, payload, Head(uncut))]
        /\ uncut' = Tail(uncut) /\ push' = push /\ message' = message
    BY DEF CutField
  <1>2. BarkTyped /\ CutSound /\ message \in Messages /\ payload \in TextsOfFields
    BY <1>1 DEF BarkIInv, BarkTyped
  <1>3. Turns \in 0 .. 3 /\ Turns # 3 /\ Head(uncut) = F /\ Turns' = n
    BY <1>1, <1>2, NextTurn DEF Turns
  <1>4. n \in 1 .. 3 /\ n \in Nat /\ F \in FieldNames
    <2>1. n \in 1 .. 3 /\ n \in Nat
      BY <1>3
    <2> HIDE DEF n
    <2> QED BY <1>2, <2>1, NextTurn
  <1>5. /\ cut \in Seq(Characters)
        /\ \A max \in 0 .. Bytes(message[F]) :
             FitsWith(message, payload, F, Cut(message[F], max)) =>
               Bytes(Cut(message[F], max)) <= Bytes(cut)
        /\ FitsWith(message, payload, F, cut) \/ cut = <<>>
    <2> HIDE DEF F
    <2> QED BY <1>2, <1>4, FittedIsLongest
  <1>6. payload' = [payload EXCEPT ![F] = cut]
    BY <1>1, <1>3
  <1> HIDE DEF cut
  <1>7. /\ payload' \in TextsOfFields /\ payload'[F] = cut
        /\ \A i \in 1 .. 3 : i # n => payload'[Fields[i]] = payload[Fields[i]]
    <2>1. \A i \in 1 .. 3 : Fields[i] \in FieldNames /\ (Fields[i] = F => i = n)
      BY <1>2, <1>4, NextTurn
    <2> HIDE DEF F, n
    <2> QED BY <1>2, <1>4, <1>5, <1>6, <2>1 DEF TextsOfFields
  <1>8. BarkTyped'
    <2>1. Tail(uncut) \in {Fields, <<"subtitle", "title">>, <<"title">>, <<>>}
      BY <1>1, <1>2, NextTurn
    <2> QED BY <1>1, <1>2, <1>7, <2>1 DEF BarkTyped
  <1>9. \A i \in Turns' + 1 .. 3 : payload'[Fields[i]] = message'[Fields[i]]
    <2> SUFFICES ASSUME NEW i \in n + 1 .. 3 PROVE payload'[Fields[i]] = message'[Fields[i]]
      BY <1>3
    <2>1. i \in 1 .. 3 /\ i # n /\ i \in Turns + 1 .. 3
      BY <1>3, <1>4
    <2> HIDE DEF n
    <2> QED BY <1>1, <1>2, <1>7, <2>1 DEF CutSound
  <1>10. \A i \in 1 .. Turns : payload[Fields[i]] = <<>> /\ Longest(i)
    BY <1>1, <1>2 DEF CutSound
  <1>11. \A i \in 1 .. Turns : payload'[Fields[i]] = <<>>
    <2> SUFFICES ASSUME NEW i \in 1 .. Turns PROVE payload'[Fields[i]] = <<>>
      OBVIOUS
    <2>1. i \in 1 .. 3 /\ i # n
      BY <1>3
    <2> HIDE DEF n
    <2> QED BY <1>7, <1>10, <2>1
  <1>12. DOMAIN payload = FieldNames /\ DOMAIN payload' = FieldNames
    BY <1>2, <1>7 DEF TextsOfFields
  <1>13. ASSUME NEW i \in 1 .. n
         PROVE  /\ \A f \in FieldNames \ {Fields[i]} :
                     AtTurn(i)'[f] = IF i = n THEN payload[f] ELSE AtTurn(i)[f]
                /\ DOMAIN AtTurn(i)' = FieldNames /\ DOMAIN AtTurn(i) = FieldNames
    <2>1. DOMAIN AtTurn(i)' = FieldNames /\ DOMAIN AtTurn(i) = FieldNames
      BY <1>12 DEF AtTurn
    <2>2. ASSUME NEW f \in FieldNames, f # Fields[i]
          PROVE  AtTurn(i)'[f] = IF i = n THEN payload[f] ELSE AtTurn(i)[f]
      <3>1. PICK k \in 1 .. 3 : Fields[k] = f
        BY <1>2, NextTurn
      <3>2. \A j \in 1 .. 3 : Fields[j] = f => j = k
        BY <1>2, <3>1, NextTurn
      <3>3. i \in 1 .. 3 /\ i <= n /\ k # i /\ k \in Nat /\ i \in Nat
        BY <1>3, <1>4, <2>2, <3>1
      <3>4. (\E j \in i + 1 .. 3 : Fields[j] = f) <=> k > i
        <4>1. CASE k > i
          BY <3>1, <3>3, <4>1
        <4>2. ASSUME NEW j \in i + 1 .. 3, Fields[j] = f PROVE k > i
          BY <3>2, <3>3, <4>2
        <4> QED BY <4>1, <4>2
      <3>5. AtTurn(i)'[f] = IF k > i THEN message[f] ELSE payload'[f]
        BY <1>1, <1>12, <3>4 DEF AtTurn
      <3>6. AtTurn(i)[f] = IF k > i THEN message[f] ELSE payload[f]
        BY <1>12, <3>4 DEF AtTurn
      <3>7. k # n => payload'[f] = payload[f]
        <4> HIDE DEF n
        <4> QED BY <1>7, <3>1
      <3>8. k > n => payload[f] = message[f]
        <4>1. k > n => k \in Turns + 1 .. 3
          BY <1>3, <3>3
        <4> HIDE DEF n
        <4> QED BY <1>2, <3>1, <4>1 DEF CutSound
      <3> HIDE DEF n
      <3> QED BY <1>4, <3>3, <3>5, <3>6, <3>7, <3>8
    <2> QED BY <2>1, <2>2
  <1>14. ASSUME NEW i \in 1 .. n PROVE Longest(i)'
    <2> DEFINE G == Fields[i]
    <2>1. G \in FieldNames
      <3>1. i \in 1 .. 3
        BY <1>4
      <3> QED BY <1>2, <3>1, NextTurn
    <2>2. ASSUME NEW c
          PROVE  [AtTurn(i)' EXCEPT ![G] = c] =
                   IF i = n THEN [payload EXCEPT ![G] = c] ELSE [AtTurn(i) EXCEPT ![G] = c]
      <3> DEFINE before == IF i = n THEN payload ELSE AtTurn(i)
                 after == AtTurn(i)'
      <3>0. after \in [FieldNames -> {after[f] : f \in FieldNames}]
        BY <1>13, Zenon DEF AtTurn
      <3>1. /\ DOMAIN after = FieldNames /\ DOMAIN before = FieldNames
            /\ \A f \in FieldNames \ {G} : after[f] = before[f]
        BY <1>12, <1>13
      <3> HIDE DEF before, after, G
      <3>2. [after EXCEPT ![G] = c] = [before EXCEPT ![G] = c]
        <4>1. [after EXCEPT ![G] = c] = [f \in FieldNames |-> IF f = G THEN c ELSE after[f]]
          BY <3>1, Zenon
        <4>2. [before EXCEPT ![G] = c] = [f \in FieldNames |-> IF f = G THEN c ELSE before[f]]
          BY <3>1, Zenon
        <4>3. \A f \in FieldNames :
                (IF f = G THEN c ELSE after[f]) = (IF f = G THEN c ELSE before[f])
          BY <3>1
        <4> QED BY <4>1, <4>2, <4>3
      <3> QED BY <3>2 DEF before, after
    <2>3. CASE i = n
      <3>1. ASSUME NEW max \in 0 .. Bytes(message[G]),
                   FitsIn(message, [AtTurn(i)' EXCEPT ![G] = Cut(message[G], max)])
            PROVE  Bytes(Cut(message[G], max)) <= Bytes(payload'[G])
        BY <1>5, <1>7, <2>2, <2>3, <3>1 DEF FitsWith
      <3> QED BY <1>1, <3>1 DEF Longest
    <2>4. CASE i # n
      <3>1. i \in 1 .. Turns /\ i \in 1 .. 3
        BY <1>3, <1>4, <2>4
      <3>2. Longest(i) /\ payload'[G] = payload[G]
        <4> HIDE DEF n
        <4> QED BY <1>7, <1>10, <2>4, <3>1
      <3>3. ASSUME NEW max \in 0 .. Bytes(message[G]),
                   FitsIn(message, [AtTurn(i)' EXCEPT ![G] = Cut(message[G], max)])
            PROVE  Bytes(Cut(message[G], max)) <= Bytes(payload'[G])
        BY <2>2, <2>4, <3>2, <3>3 DEF Longest
      <3> QED BY <1>1, <3>3 DEF Longest
    <2> QED BY <2>3, <2>4
  <1>15. \A i \in 1 .. Turns' : Longest(i)' /\ \A k \in 1 .. i - 1 : payload'[Fields[k]] = <<>>
    <2> SUFFICES ASSUME NEW i \in 1 .. n, NEW k \in 1 .. i - 1 PROVE payload'[Fields[k]] = <<>>
      BY <1>3, <1>14
    <2>1. k \in 1 .. Turns
      BY <1>3
    <2> QED BY <1>11, <2>1
  <1>16. ~FitsIn(message', payload') => \A i \in 1 .. Turns' : payload'[Fields[i]] = <<>>
    <2> SUFFICES ASSUME ~FitsIn(message, payload'), NEW i \in 1 .. n PROVE payload'[Fields[i]] = <<>>
      BY <1>1, <1>3
    <2>1. cut = <<>>
      BY <1>5, <1>6 DEF FitsWith
    <2>2. i = n \/ i \in 1 .. Turns
      BY <1>3
    <2> QED BY <1>7, <1>11, <2>1, <2>2
  <1>17. CutSound'
    BY <1>1, <1>9, <1>15, <1>16 DEF CutSound
  <1> QED BY <1>8, <1>17 DEF BarkIInv

(* What is posted, and what becomes of it.                                   *)
LEMMA PostIsSound ==
  ASSUME BarkIInv, LeavesNoRoom \/ BeginPost \/ Answer
  PROVE  BarkIInv'
  <1>1. /\ push \in {"fitting", "posting"} /\ UNCHANGED <<message, payload, uncut>>
        /\ push' \in {"posting", "sent", "transient", "permanent"}
        /\ push' = "posting" => FitsIn(message, payload)
    <2>1. CASE LeavesNoRoom
      BY <2>1 DEF LeavesNoRoom
    <2>2. CASE BeginPost
      BY <2>2 DEF BeginPost
    <2>3. CASE Answer
      <3>1. \A status \in Statuses, body \in Bodies :
              ClassifyBarkResponse(status, body) \in {"sent", "transient", "permanent"}
        BY DEF ClassifyBarkResponse
      <3>2. push' \in {"sent", "transient", "permanent"}
        BY <2>3, <3>1 DEF Answer
      <3> QED BY <2>3, <3>2 DEF Answer
    <2> QED BY <2>1, <2>2, <2>3
  <1>2. BarkTyped /\ CutSound
    BY <1>1 DEF BarkIInv
  <1>3. BarkTyped'
    BY <1>1, <1>2 DEF BarkTyped
  <1>4. CutSound'
    <2>1. Turns' = Turns /\ \A i \in 1 .. Turns : Longest(i)' = Longest(i)
      BY <1>1 DEF Turns, Longest, AtTurn
    <2> QED BY <1>1, <1>2, <2>1 DEF CutSound
  <1> QED BY <1>3, <1>4 DEF BarkIInv

(* The invariant is inductive.                                               *)
LEMMA BarkInvariant == BarkSpec => []BarkIInv
  <1>1. DOMAIN Blank = FieldNames /\ \A f \in FieldNames : Blank[f] = <<>>
    BY DEF Blank, FieldNames
  <1>2. Blank \in TextsOfFields
    <2>1. <<>> \in Seq(Characters)
      OBVIOUS
    <2>2. Blank = [f \in FieldNames |-> Blank[f]]
      BY DEF Blank, FieldNames
    <2> QED BY <1>1, <2>1, <2>2 DEF TextsOfFields
  <1>3. InitBark => BarkIInv
    BY <1>2 DEF InitBark, BarkIInv, BarkTyped
  <1>4. ASSUME BarkIInv, [NextBark]_barkVars PROVE BarkIInv'
    <2>1. CASE \E m \in Messages : Compose(m)
      BY <1>4, <2>1, ComposeIsSound
    <2>2. CASE CutField
      BY <1>4, <2>2, CutFieldIsSound
    <2>3. CASE LeavesNoRoom \/ BeginPost \/ Answer
      BY <1>4, <2>3, PostIsSound
    <2>4. CASE Return
      BY <1>2, <2>4 DEF Return, BarkIInv, BarkTyped
    <2>5. CASE UNCHANGED barkVars
      <3>1. UNCHANGED <<push, message, payload, uncut>>
        BY <2>5 DEF barkVars
      <3> QED BY <1>4, <3>1
                 DEF BarkIInv, BarkTyped, CutSound, Turns, Longest, AtTurn
    <2> QED BY <1>4, <2>1, <2>2, <2>3, <2>4, <2>5 DEF NextBark
  <1> QED BY <1>3, <1>4, PTL DEF BarkSpec

(* What is posted fits into a payload, and no more of it is cut than has to   *)
(* be; a push is given up only when it would not fit without any text, for    *)
(* texts of any length and characters of any width.                          *)
THEOREM PayloadsFit == BarkSpec => []PayloadFits
  <1>1. ASSUME BarkIInv PROVE PayloadFits
    <2>1. BarkTyped /\ (push # "idle" => CutSound)
      BY <1>1 DEF BarkIInv
    <2>2. ASSUME push = "posting"
          PROVE  /\ FitsIn(message, payload)
                 /\ \A i \in 1 .. 3 : payload[Fields[i]] # message[Fields[i]] =>
                      Longest(i) /\ \A k \in 1 .. i - 1 : payload[Fields[k]] = <<>>
      <3>1. CutSound /\ Turns \in 0 .. 3
        BY <2>1, <2>2, NextTurn
      <3>2. \A i \in 1 .. 3 : i \in 1 .. Turns \/ i \in Turns + 1 .. 3
        BY <3>1
      <3> QED BY <2>2, <3>1, <3>2 DEF CutSound
    <2>3. ASSUME push = "fitting", uncut = <<>>, ~FitsIn(message, payload)
          PROVE  ~FitsIn(message, Blank)
      <3>1. CutSound /\ Turns = 3
        BY <2>1, <2>3, NextTurn
      <3>2. \A i \in 1 .. 3 : payload[Fields[i]] = <<>>
        BY <2>3, <3>1 DEF CutSound
      <3>3. /\ payload["body"] = <<>> /\ payload["subtitle"] = <<>> /\ payload["title"] = <<>>
        BY <3>2 DEF Fields
      <3>4. SizeOf(message, payload) = SizeOf(message, Blank)
        BY <3>3 DEF SizeOf, Blank
      <3> QED BY <2>3, <3>4 DEF FitsIn
    <2> QED BY <2>2, <2>3 DEF PayloadFits
  <1> QED BY <1>1, BarkInvariant, PTL
=============================================================================
