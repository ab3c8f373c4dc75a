------------------------------ MODULE Geocoder ------------------------------
(***************************************************************************)
(* ReverseGeocoder (src/routes/reverse_geocoder.rs): a cache in front of two *)
(* providers. One lock per coordinate, held through the lookup and kept in   *)
(* a registry of weak references; a slot per second for Nominatim; a cache   *)
(* that forgets the oldest coordinate. A client may hang up at any await,    *)
(* which drops its guard and its reference.                                  *)
(***************************************************************************)
EXTENDS Integers, FiniteSets, SequencesExt

CONSTANTS
  Queries,         (* the queries that ever arrive                         *)
  Coordinates,     (* the coordinate keys they are for                     *)
  NoLock,          (* no lock is registered                                *)
  MaxCached,       (* MAX_CACHE_ENTRIES                                    *)
  HasAmap          (* the primary provider is configured                   *)

ASSUME GeocoderAssumption ==
  Coordinates # {} /\ NoLock \notin Queries /\ MaxCached \in Nat \ {0}

VARIABLES
  at,              (* where resolve() is for a query                       *)
  key,             (* its coordinate                                       *)
  lock,            (* the lock it has a reference to, named by its creator *)
  registered,      (* coordinate_locks                                     *)
  cached,          (* the coordinates in cache                             *)
  fresh,           (* those stored no longer than CACHE_TTL ago            *)
  cache_order,     (* cache_order                                          *)
  recent,          (* last_nominatim_request is under MIN_REQUEST_INTERVAL old *)
  granted          (* observation: slots granted in this interval          *)

cacheVars == <<cached, fresh, cache_order>>
slotVars == <<recent, granted>>
geocoderVars == <<at, key, lock, registered, cacheVars, slotVars>>

-----------------------------------------------------------------------------
LookupSteps == {"amap", "slot", "sleeping", "nominatim", "storing"}
Holding(q) == at[q] \in LookupSteps \cup {"locked"}
Looking(q) == at[q] \in LookupSteps
Refers(q) == Holding(q) \/ at[q] = "locking"

Go(q, s) == at' = [at EXCEPT ![q] = s]

InitGeocoder ==
  /\ at = [q \in Queries |-> "idle"]
  /\ key = [q \in Queries |-> CHOOSE c \in Coordinates : TRUE]
  /\ lock = [q \in Queries |-> NoLock]
  /\ registered = [c \in Coordinates |-> NoLock]
  /\ cached = {} /\ fresh = {} /\ cache_order = <<>>
  /\ recent = FALSE /\ granted = 0

(* A weak reference upgrades while a query has the lock.                   *)
Upgrades(l) == \E q \in Queries : Refers(q) /\ lock[q] = l

Ask(q, c) ==                           (* coordinate_lock                  *)
  /\ at[q] = "idle"
  /\ key' = [key EXCEPT ![q] = c]
  /\ LET kept == [d \in Coordinates |-> IF Upgrades(registered[d]) THEN registered[d] ELSE NoLock]
         mine == IF kept[c] = NoLock THEN q ELSE kept[c] IN
       /\ lock' = [lock EXCEPT ![q] = mine]
       /\ registered' = [kept EXCEPT ![c] = mine]
  /\ Go(q, "locking")
  /\ UNCHANGED <<cacheVars, slotVars>>

Lock(q) ==
  /\ at[q] = "locking"
  /\ \A p \in Queries : Holding(p) => lock[p] # lock[q]
  /\ Go(q, "locked")
  /\ UNCHANGED <<key, lock, registered, cacheVars, slotVars>>

LookCached(q) ==                       (* cached(key)                      *)
  /\ at[q] = "locked"
  /\ Go(q, IF key[q] \in fresh THEN "answered" ELSE IF HasAmap THEN "amap" ELSE "slot")
  /\ UNCHANGED <<key, lock, registered, cacheVars, slotVars>>

LookupAmap(q) ==                       (* answers, or fails and falls back *)
  /\ at[q] = "amap"
  /\ \E s \in {"storing", "slot"} : Go(q, s)
  /\ UNCHANGED <<key, lock, registered, cacheVars, slotVars>>

AcquireSlot(q) ==                      (* acquire_nominatim_slot           *)
  /\ at[q] = "slot"
  /\ IF recent
     THEN Go(q, "sleeping") /\ UNCHANGED slotVars
     ELSE Go(q, "nominatim") /\ recent' = TRUE /\ granted' = granted + 1
  /\ UNCHANGED <<key, lock, registered, cacheVars>>

Awake(s) == [q \in Queries |-> IF at[q] = "sleeping" THEN s ELSE at[q]]

SkipsSecondLook ==                     (* mutant: a sleeper does not look again *)
  /\ recent
  /\ recent' = FALSE /\ at' = Awake("nominatim")
  /\ granted' = Cardinality({q \in Queries : at[q] = "sleeping"})
  /\ UNCHANGED <<key, lock, registered, cacheVars>>

StillAsleep ==                         (* mutant: nobody is woken          *)
  /\ recent
  /\ recent' = FALSE /\ granted' = 0
  /\ UNCHANGED <<at, key, lock, registered, cacheVars>>

(* The interval is over: those who slept through it look again.            *)
IntervalEnds ==
  /\ recent
  /\ recent' = FALSE /\ at' = Awake("slot") /\ granted' = 0
  /\ UNCHANGED <<key, lock, registered, cacheVars>>

LookupNominatim(q) ==
  /\ at[q] = "nominatim"
  /\ \E s \in {"storing", "failed"} : Go(q, s)
  /\ UNCHANGED <<key, lock, registered, cacheVars, slotVars>>

(* The coordinates of an order except c, in that order.                    *)
Without(order, c) ==
  LET kept[n \in 0 .. Len(order)] ==
        IF n = 0 THEN <<>>
        ELSE IF order[n] = c THEN kept[n - 1] ELSE Append(kept[n - 1], order[n])
  IN kept[Len(order)]

Reordered(q) == Append(Without(cache_order, key[q]), key[q])

Store(q) ==                            (* cache(key, value)                *)
  /\ at[q] = "storing"
  /\ LET order == Reordered(q)
         over == IF Len(order) > MaxCached THEN Len(order) - MaxCached ELSE 0
         out == {order[i] : i \in 1..over} IN
       /\ cache_order' = SubSeq(order, over + 1, Len(order))
       /\ cached' = (cached \cup {key[q]}) \ out
       /\ fresh' = (fresh \cup {key[q]}) \ out
  /\ Go(q, "answered")
  /\ UNCHANGED <<key, lock, registered, slotVars>>

HangUpQuery(q) ==
  /\ Refers(q)
  /\ Go(q, "gone")
  /\ UNCHANGED <<key, lock, registered, cacheVars, slotVars>>

Age(c) ==                              (* CACHE_TTL passes                 *)
  /\ c \in fresh
  /\ fresh' = fresh \ {c}
  /\ UNCHANGED <<at, key, lock, registered, cached, cache_order, slotVars>>

-----------------------------------------------------------------------------
Resolve(q) ==
  \/ Lock(q) \/ LookCached(q) \/ LookupAmap(q) \/ AcquireSlot(q) \/ LookupNominatim(q) \/ Store(q)

NextGeocoder ==
  \/ \E q \in Queries : Resolve(q) \/ HangUpQuery(q) \/ \E c \in Coordinates : Ask(q, c)
  \/ IntervalEnds \/ \E c \in Coordinates : Age(c)

(* Time passes, the providers answer or time out, and the lock is fair.    *)
FairGeocoder == WF_geocoderVars(IntervalEnds) /\ \A q \in Queries : WF_geocoderVars(Resolve(q))

GeocoderSpec == InitGeocoder /\ [][NextGeocoder]_geocoderVars /\ FairGeocoder

-----------------------------------------------------------------------------
(* The cache holds what cache_order lists, each once and no more than fits   *)
(* (reverse_geocoder.rs 315-331).                                            *)
CacheExact ==
  /\ cached = ToSet(cache_order) /\ fresh \subseteq cached
  /\ Len(cache_order) = Cardinality(cached) /\ Len(cache_order) <= MaxCached

(* One query at a time looks a coordinate up, and only when no answer is      *)
(* cached for it; Nominatim is asked at most once per interval (resolve,      *)
(* reverse_geocoder.rs 163-201, 228-253). A query that reaches "storing"       *)
(* found nothing, though an answer may get old in the meantime. The cache holds *)
(* what its order lists.                                                      *)
LookupsRestrained ==
  /\ \A q \in Queries : Looking(q) =>
       key[q] \notin fresh /\ \A p \in Queries \ {q} : Looking(p) => key[p] # key[q]
  /\ granted <= 1 /\ CacheExact

(* A query that waits for the lock, the slot or a provider comes to an end,   *)
(* also when the query before it hung up.                                     *)
QueriesEnd == \A q \in Queries : Refers(q) ~> at[q] \in {"answered", "failed", "gone"}
=============================================================================
