------------------------------ MODULE Requests ------------------------------
(***************************************************************************)
(* The HTTP handlers and the four semaphores that admit them                *)
(* (src/routes/): what a request takes before it works on the store, which  *)
(* of it goes along with the blocking operation and which stays with the     *)
(* handler's future, and what a client that hangs up leaves behind: axum     *)
(* drops the future at its await, a spawn_blocking closure runs to its end.  *)
(*                                                                           *)
(* What an operation does to the store is in Subscriptions, Confirmation,     *)
(* Delivery and Links; here it runs, and answers something or fails.         *)
(***************************************************************************)
EXTENDS Integers, FiniteSetsExt, Functions

CONSTANTS
  Requests,        (* the requests that ever arrive                        *)
  Size             (* the permits of each semaphore of AppState            *)

VARIABLES
  route,           (* the handler a request is for                         *)
  step,            (* where its handler is                                 *)
  held,            (* the permits its future holds                         *)
  carried,         (* the permits its blocking operation holds             *)
  running,         (* its blocking operation runs                          *)
  result,          (* what the operation came to                           *)
  reply            (* the status of the response                           *)

requestVars == <<route, step, held, carried, running, result, reply>>

-----------------------------------------------------------------------------
Pools == {"subscription", "storage", "status", "detail"}

ASSUME PermitsAssumption == IsFiniteSet(Requests) /\ Size \in [Pools -> Nat]

(* A handler: what it may answer before it takes anything, the permits it   *)
(* takes, in this order, and what the result of its blocking operation is    *)
(* answered with.                                                            *)
Handler(at_once, takes, answers) ==
  [at_once |-> at_once, takes |-> takes, answers |-> answers]

(* The checks of what the client sent, by what they refuse it with.          *)
ServiceToken == {401}                  (* require_bff_service_token        *)
Bearer == {401}                        (* require_bearer                   *)
OptionalBearer == {401}                (* optional_bearer                  *)
Malformed == {400}                     (* the extractors, normalize_bark_url *)
DeviceKey == {400}                     (* validate_device_key              *)
Targets == {400}                       (* normalize_targets, validate      *)
Limit == {400}                         (* parse_limit, parse_event_query   *)
Keys == {400}                          (* resolve_device_keys              *)
Mode == {400, 404}                     (* parse_simulate_mode              *)
Unparsed == {404}                      (* IncidentId::parse                *)

Found == [ok |-> {200}, error |-> {500}]
FoundOrNot(none) == [ok |-> {200}, none |-> {none}, error |-> {500}]

(* subscribe goes on when its request is stored.                             *)
Subscribe ==
  Handler(ServiceToken \cup Malformed \cup DeviceKey \cup Targets,
          <<"subscription", "storage">>, [error |-> {500}])
Unsubscribe == Handler(ServiceToken \cup Malformed \cup DeviceKey, <<"storage">>, FoundOrNot(404))
Subscriptions == Handler(Bearer, <<"storage">>, FoundOrNot(200))
AdminSubscriptions == Handler(Malformed \cup DeviceKey, <<"storage">>, FoundOrNot(200))
DeviceKeys == Handler({}, <<"storage">>, Found)
Deliveries == Handler(Bearer \cup Limit, <<"storage">>, FoundOrNot(404))
AdminDeliveries == Handler(Limit \cup DeviceKey, <<"storage">>, FoundOrNot(404))
EventList == Handler(Limit, <<"storage">>, Found)
Status == Handler({}, <<"status", "storage">>, Found)
IncidentDetail == Handler(Unparsed, <<"detail", "storage">>, FoundOrNot(404))

(* history looks a subscription up, if the client has one, and simulate      *)
(* sends, both without a permit.                                             *)
History == Handler(Malformed \cup OptionalBearer \cup {200}, <<>>, FoundOrNot(200))
SimulateAlert == Handler(ServiceToken \cup Malformed \cup Mode \cup Keys, <<>>, Found)

Handlers ==
  [subscribe |-> Subscribe, unsubscribe |-> Unsubscribe, subscriptions |-> Subscriptions,
   admin_subscriptions |-> AdminSubscriptions, device_keys |-> DeviceKeys,
   deliveries |-> Deliveries, admin_deliveries |-> AdminDeliveries, events |-> EventList,
   status |-> Status, detail |-> IncidentDetail, history |-> History,
   simulate |-> SimulateAlert]

Routes == DOMAIN Handlers
Takes(rt) == Handlers[rt].takes
Answers(rt) == Handlers[rt].answers

(* The attempt of a confirmation: activated, pending, rejected, superseded, *)
(* or not recorded.                                                          *)
Outcomes == {200, 202, 502, 409, 500}

Nowhere == "none"
NoReply == 0

NothingMoved(rt) == {}                 (* mutant: the permit stays in the handler *)

(* The permits that move into the closure: subscribe passes its request on  *)
(* to SubscriptionConfirmationService::begin and keeps the permits.          *)
Moved(rt) == IF rt = "subscribe" THEN {} ELSE Range(Takes(rt))

Users(p) == {r \in Requests : p \in held[r] \cup carried[r]}
Free(p) == Size[p] - Cardinality(Users(p))

InitRequests ==
  /\ route = [r \in Requests |-> Nowhere]
  /\ step = [r \in Requests |-> "idle"]
  /\ held = [r \in Requests |-> {}] /\ carried = [r \in Requests |-> {}]
  /\ running = [r \in Requests |-> FALSE]
  /\ result = [r \in Requests |-> Nowhere]
  /\ reply = [r \in Requests |-> NoReply]

(* The handler returns: what its future still holds is dropped.            *)
Respond(r, status) ==
  /\ step' = [step EXCEPT ![r] = "answered"]
  /\ reply' = [reply EXCEPT ![r] = status]
  /\ held' = [held EXCEPT ![r] = {}]

-----------------------------------------------------------------------------
Arrive(r, rt) ==
  /\ step[r] = "idle"
  /\ route' = [route EXCEPT ![r] = rt]
  /\ \/ \E status \in Handlers[rt].at_once : Respond(r, status)
     \/ step' = [step EXCEPT ![r] = "admitting"] /\ UNCHANGED <<held, reply>>
  /\ UNCHANGED <<carried, running, result>>

Missing(r) == {i \in DOMAIN Takes(route[r]) : Takes(route[r])[i] \notin held[r]}

(* try_acquire_owned, of the next semaphore of the handler.                *)
Acquire(r) ==
  /\ step[r] = "admitting" /\ Missing(r) # {}
  /\ LET p == Takes(route[r])[Min(Missing(r))] IN
       IF Free(p) > 0
       THEN held' = [held EXCEPT ![r] = @ \cup {p}] /\ UNCHANGED <<step, reply>>
       ELSE Respond(r, 503)
  /\ UNCHANGED <<route, carried, running, result>>

Start(r) ==                            (* spawn_blocking                   *)
  /\ step[r] = "admitting" /\ Missing(r) = {}
  /\ running' = [running EXCEPT ![r] = TRUE]
  /\ held' = [held EXCEPT ![r] = @ \ Moved(route[r])]
  /\ carried' = [carried EXCEPT ![r] = Moved(route[r])]
  /\ step' = [step EXCEPT ![r] = "waiting"]
  /\ UNCHANGED <<route, result, reply>>

Complete(r) ==                         (* the closure returns              *)
  /\ running[r]
  /\ running' = [running EXCEPT ![r] = FALSE]
  /\ carried' = [carried EXCEPT ![r] = {}]
  /\ \E res \in DOMAIN Answers(route[r]) \cup {"ok"} : result' = [result EXCEPT ![r] = res]
  /\ UNCHANGED <<route, step, held, reply>>

(* The handler that awaited the closure goes on.                           *)
Resume(r) ==
  /\ step[r] = "waiting" /\ ~running[r]
  /\ result[r] \in DOMAIN Answers(route[r])
  /\ \E status \in Answers(route[r])[result[r]] : Respond(r, status)
  /\ UNCHANGED <<route, carried, running, result>>

BeginAttempt(r) ==
  /\ step[r] = "waiting" /\ ~running[r] /\ route[r] = "subscribe" /\ result[r] = "ok"
  /\ held' = [held EXCEPT ![r] = @ \ {"storage"}]
  /\ step' = [step EXCEPT ![r] = "attempting"]
  /\ UNCHANGED <<route, carried, running, result, reply>>

EndAttempt(r) ==
  /\ step[r] = "attempting"
  /\ \E status \in Outcomes : Respond(r, status)
  /\ UNCHANGED <<route, carried, running, result>>

LeavesPermits(r) ==                    (* mutant: permits forgotten, not dropped *)
  /\ step[r] \in {"waiting", "attempting"}
  /\ step' = [step EXCEPT ![r] = "gone"]
  /\ UNCHANGED <<route, held, carried, running, result, reply>>

HangUp(r) ==                           (* at an await: the future is dropped *)
  /\ step[r] \in {"waiting", "attempting"}
  /\ step' = [step EXCEPT ![r] = "gone"]
  /\ held' = [held EXCEPT ![r] = {}]
  /\ UNCHANGED <<route, carried, running, result, reply>>

-----------------------------------------------------------------------------
Handle(r) ==
  \/ Acquire(r) \/ Start(r) \/ Complete(r) \/ Resume(r) \/ BeginAttempt(r) \/ EndAttempt(r)

NextRequest(r) == Handle(r) \/ HangUp(r) \/ \E rt \in Routes : Arrive(r, rt)
NextRequests == \E r \in Requests : NextRequest(r)

(* A handler goes on when what it awaits is there; the store and the Bark   *)
(* client answer or time out.                                                *)
FairRequests == \A r \in Requests : WF_requestVars(Handle(r))

RequestsSpec == InitRequests /\ [][NextRequests]_requestVars /\ FairRequests

-----------------------------------------------------------------------------
(* The storage permits in use are those of store operations that run, so     *)
(* that as many run as there are permits, whoever hangs up, and no permit    *)
(* is spent on waiting for Bark. The begin of a subscribe request whose       *)
(* client is gone is the exception: its permit was the future's (subscribe.rs *)
(* 250-278, 404-412, 504-518, 552-573; incident.rs 97-130).                   *)
StorageFollowsWork ==
  \A r \in Requests :
    /\ running[r] /\ "storage" \in Range(Takes(route[r]))
         => "storage" \in held[r] \cup carried[r] \/ (route[r] = "subscribe" /\ step[r] = "gone")
    /\ "storage" \in held[r] \cup carried[r]
         => running[r] \/ step[r] = "admitting" \/ (route[r] = "subscribe" /\ step[r] = "waiting")
    /\ \A p \in Pools : Free(p) >= 0

(* Whatever is refused half way, fails or is abandoned, all permits are       *)
(* free again when the requests are over.                                     *)
PermitsComeBack == <>[](\A p \in Pools : Free(p) = Size[p])
=============================================================================
