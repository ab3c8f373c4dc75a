---------------------------- MODULE Subscriptions ----------------------------
(***************************************************************************)
(* The store of the subscriptions, its posting index, and the match job    *)
(* that reads both while they change (src/storage/fjall.rs 618-930 and     *)
(* 1050-1152, src/subscriptions/manager.rs, process_match_job).            *)
(*                                                                         *)
(* Every change is one batch under subscription_lock.  A match job takes   *)
(* no lock: it reads one posting prefix after the other, then the compiled *)
(* subscriptions it found one by one.  What is asked of a destination      *)
(* before it is stored is in Confirmation.  The import of subscriptions is *)
(* compiled with the feature benchmarks alone: the server has no caller of *)
(* it, and Batches = {} is the store as it is shipped.                     *)
(***************************************************************************)
EXTENDS Matching

CONSTANTS
  Destinations,    (* Bark addresses with their device keys                *)
  Requests,        (* what clients submit, valid or not                    *)
  Batches,         (* what is imported: sequences of                       *)
                   (* [to: Destinations, content: Requests]                *)
  Legacies,        (* what older releases may have left: functions from    *)
                   (* destinations to contents                             *)
  Events,          (* the events matched                                   *)
  NoEvent,         (* no match job runs                                    *)
  MaxId,           (* bound on the ids given out                           *)
  MaxGeneration,   (* bound on the generations                             *)
  MaxDeletes       (* bound on the deletions under way                     *)

IsSequence(s) == s \in Seq({s[i] : i \in DOMAIN s})

ASSUME BoundsAssumption == {MaxId, MaxGeneration, MaxDeletes} \subseteq Nat

ASSUME ContentAssumption ==
  /\ \A r \in Requests : IsSequence(r.rules)
  /\ \A b \in Batches : IsSequence(b) /\ \A i \in DOMAIN b : IsSequence(b[i].content.rules)
  /\ \A l \in Legacies :
       /\ IsFiniteSet(DOMAIN l) /\ Cardinality(DOMAIN l) <= MaxId
       /\ \A d \in DOMAIN l : IsSequence(l[d].rules)

VARIABLES
  subscriptions,   (* subscriptions: id to the stored record               *)
  byDestination,   (* subscriptions_by_destination                         *)
  compiled,        (* compiled_subscriptions: id to the compiled one       *)
  postings,        (* postings: key to the offsets in its block            *)
  lastId,          (* the counters of next_id                              *)
  deleting,        (* the records delete_subscription has read active      *)
  matching,        (* the event of the match job that runs                 *)
  lookups,         (* the posting prefixes it has still to read            *)
  found,           (* the ids it found and has still to load               *)
  loaded,          (* the compiled subscriptions it loaded                 *)
  changed          (* observation: ids stored while the match runs         *)

store == <<subscriptions, byDestination, compiled, postings>>
match == <<matching, lookups, found, loaded>>
vars == <<store, lastId, deleting, match, changed>>

-----------------------------------------------------------------------------
Posting(key) == IF key \in DOMAIN postings THEN postings[key] ELSE {}
With(f, x, v) == [y \in DOMAIN f \cup {x} |-> IF y = x THEN v ELSE f[y]]
Without(f, x) == [y \in DOMAIN f \ {x} |-> f[y]]
Over(f, g) == [x \in DOMAIN f \cup DOMAIN g |-> IF x \in DOMAIN f THEN f[x] ELSE g[x]]

(* A bitmap that would be empty is removed.                                *)
WritePostings(bitmaps) ==
  LET all == Over(bitmaps, postings) IN
  postings' = [key \in {k \in DOMAIN all : all[k] # {}} |-> all[key]]

RemovedLast(old, new, offset, key) ==  (* mutant: removes after inserting  *)
  IF key \in old THEN Posting(key) \ {offset}
  ELSE IF key \in new THEN Posting(key) \cup {offset}
  ELSE Posting(key)

(* remove_postings, then insert_postings, in one batch: each reads the     *)
(* bitmaps of the store, and of two writes to one key the last stays.      *)
Repost(old, new, offset, key) ==
  IF key \in new THEN Posting(key) \cup {offset}
  ELSE IF key \in old THEN Posting(key) \ {offset}
  ELSE Posting(key)

(* What a read of a compiled subscription finds indexed: the retired rules *)
(* are dropped on read, and their postings stay.                           *)
ReadKeys(id) == IF id \in DOMAIN compiled THEN KeysOf(Unretired(compiled[id])) ELSE {}

ChangedWith(ids) == IF matching = NoEvent THEN {} ELSE changed \cup ids

ActiveIds == {id \in DOMAIN subscriptions : subscriptions[id].active}

(* active_subscriptions_by_device_key, of a key that one destination has.  *)
ActiveAt(d) == {id \in ActiveIds : subscriptions[id].to = d}

-----------------------------------------------------------------------------
(* The orders in which ids were given to destinations.                     *)
Orders(S) ==
  {f \in [1 .. Cardinality(S) -> S] :
     /\ \A d \in S : \E id \in DOMAIN f : f[id] = d
     /\ \A i, j \in DOMAIN f : f[i] = f[j] => i = j}

(* A store an older release left: what it stored is indexed by all its     *)
(* rules, also those of categories retired since.                          *)
Init ==
  \E legacy \in Legacies :
  \E order \in Orders(DOMAIN legacy) :
    LET ids == DOMAIN order
        Compiled(id) == Compile(id, id, 1, legacy[order[id]])
        keys == UNION {KeysOf(Compiled(id)) : id \in ids}
    IN
    /\ subscriptions = [id \in ids |-> [to |-> order[id], destination |-> id,
                          generation |-> 1, active |-> TRUE, content |-> legacy[order[id]]]]
    /\ byDestination = [d \in DOMAIN legacy |-> CHOOSE id \in ids : order[id] = d]
    /\ compiled = [id \in ids |-> Compiled(id)]
    /\ postings = [key \in keys |-> {Offset(id) : id \in {i \in ids : key \in KeysOf(Compiled(i))}}]
    /\ lastId = [subscription |-> Cardinality(ids), destination |-> Cardinality(ids)]
    /\ deleting = {} /\ matching = NoEvent /\ lookups = <<>> /\ found = {}
    /\ loaded = <<>> /\ changed = {}

SameGeneration(id) == subscriptions[id].generation  (* mutant: is not raised *)

NextGeneration(id) == subscriptions[id].generation + 1

(* store_subscription_inner: a destination keeps its id through all its    *)
(* requests, also when it was deactivated in between.                      *)
Store(id, destination, generation, d, content) ==
  LET new == Compile(id, destination, generation, content) IN
  /\ subscriptions' = With(subscriptions, id,
       [to |-> d, destination |-> destination, generation |-> generation,
        active |-> TRUE, content |-> content])
  /\ byDestination' = With(byDestination, d, id)
  /\ compiled' = With(compiled, id, new)
  /\ WritePostings([key \in ReadKeys(id) \cup KeysOf(new) |->
                     Repost(ReadKeys(id), KeysOf(new), Offset(id), key)])
  /\ changed' = ChangedWith({id})

LooksUnlocked(d, content) ==           (* mutant: the look is before the lock *)
  /\ Valid(content)
  /\ lastId.subscription < MaxId
  /\ lastId' = [subscription |-> lastId.subscription + 1,
                destination |-> lastId.destination + 1]
  /\ Store(lastId.subscription + 1, lastId.destination + 1, 1, d, content)
  /\ UNCHANGED <<deleting, match>>

StoreNew(d, content) ==
  /\ d \notin DOMAIN byDestination /\ Valid(content)
  /\ lastId.subscription < MaxId
  /\ lastId' = [subscription |-> lastId.subscription + 1,
                destination |-> lastId.destination + 1]
  /\ Store(lastId.subscription + 1, lastId.destination + 1, 1, d, content)
  /\ UNCHANGED <<deleting, match>>

StoreAgain(d, content) ==
  /\ d \in DOMAIN byDestination /\ Valid(content)
  /\ LET id == byDestination[d] IN
     /\ subscriptions[id].generation < MaxGeneration
     /\ Store(id, subscriptions[id].destination, NextGeneration(id), d, content)
  /\ UNCHANGED <<lastId, deleting, match>>

(* The ids are taken before the batch: a failure, or a crash, burns them.  *)
StoreFails(d) ==
  /\ d \notin DOMAIN byDestination
  /\ lastId.subscription < MaxId
  /\ \E both \in BOOLEAN :
       lastId' = [subscription |-> lastId.subscription + 1,
                  destination |-> lastId.destination + IF both THEN 1 ELSE 0]
  /\ UNCHANGED <<store, deleting, match, changed>>

(* delete_subscription reads the record, without the lock ...              *)
ReadForDelete(d) ==
  /\ d \in DOMAIN byDestination /\ subscriptions[byDestination[d]].active
  /\ deleting' = deleting \cup {byDestination[d]}
  /\ deleting' # deleting /\ Cardinality(deleting') <= MaxDeletes
  /\ UNCHANGED <<store, lastId, match, changed>>

(* ... and deactivates whatever the id holds by then.                      *)
Deactivate(id) ==
  /\ id \in deleting /\ deleting' = deleting \ {id}
  /\ subscriptions[id].generation < MaxGeneration
  /\ subscriptions' = [subscriptions EXCEPT ![id].active = FALSE,
                         ![id].generation = NextGeneration(id), ![id].content = Unretired(@)]
  /\ compiled' = Without(compiled, id)
  /\ WritePostings([key \in ReadKeys(id) |-> Repost(ReadKeys(id), {}, Offset(id), key)])
  /\ changed' = ChangedWith({id})
  /\ UNCHANGED <<byDestination, lastId, match>>

(* import_subscription_batch, in builds for benchmarks: all valid, for     *)
(* destinations never seen, each once; the posting changes of the whole    *)
(* batch are merged.                                                       *)
Importable(batch, i) ==
  /\ Valid(batch[i].content)
  /\ batch[i].to \notin DOMAIN byDestination
  /\ \A j \in 1 .. i - 1 : batch[j].to # batch[i].to

Import(batch) ==
  /\ \A i \in DOMAIN batch : Importable(batch, i)
  /\ lastId.subscription + Len(batch) <= MaxId
  /\ LET IdOf(i) == lastId.subscription + i
         ids == {IdOf(i) : i \in DOMAIN batch}
         At(id) == batch[id - lastId.subscription]
         new == [id \in ids |->
                  Compile(id, lastId.destination + id - lastId.subscription, 1, At(id).content)]
         Gained(key) == {Offset(id) : id \in {i \in ids : key \in KeysOf(new[i])}}
     IN
     /\ subscriptions' = Over([id \in ids |->
          [to |-> At(id).to, destination |-> new[id].destination, generation |-> 1,
           active |-> TRUE, content |-> At(id).content]], subscriptions)
     /\ byDestination' = Over([d \in {batch[i].to : i \in DOMAIN batch} |->
          CHOOSE id \in ids : At(id).to = d], byDestination)
     /\ compiled' = Over(new, compiled)
     /\ WritePostings([key \in UNION {KeysOf(new[id]) : id \in ids} |->
                        Posting(key) \cup Gained(key)])
     /\ changed' = ChangedWith(ids)
  /\ lastId' = [c \in DOMAIN lastId |-> lastId[c] + Len(batch)]
  /\ UNCHANGED <<deleting, match>>

(* The ids of the records before the one refused are burnt.                *)
ImportFails(batch) ==
  /\ \E i \in DOMAIN batch :
       /\ ~Importable(batch, i) /\ \A j \in 1 .. i - 1 : Importable(batch, j)
       /\ lastId.subscription + i - 1 <= MaxId
       /\ lastId' = [c \in DOMAIN lastId |-> lastId[c] + i - 1]
  /\ UNCHANGED <<store, deleting, match, changed>>

-----------------------------------------------------------------------------
(* process_match_job: the plan of the event ...                            *)
BeginMatch(event) ==
  /\ matching = NoEvent /\ event.category \notin Retired
  /\ matching' = event /\ lookups' = Lookups(event)
  /\ UNCHANGED <<store, lastId, deleting, found, loaded, changed>>

HasPrefix(key, wanted) ==              (* a key of any block               *)
  key.category = wanted.category /\ key.source = wanted.source /\ key.by = wanted.by

PostedUnder(wanted) ==                 (* extend_posting_blocks            *)
  UNION {{IdAt(key.block, offset) : offset \in postings[key]}
           : key \in {k \in DOMAIN postings : HasPrefix(k, wanted)}}

(* ... posting_blocks, one prefix at a time ...                            *)
ScanPostings ==
  /\ lookups # <<>>
  /\ found' = found \cup PostedUnder(Head(lookups))
  /\ lookups' = Tail(lookups)
  /\ UNCHANGED <<store, lastId, deleting, matching, loaded, changed>>

(* ... load_compiled_blocks, in the order of the ids ...                   *)
LoadCompiled ==
  /\ matching # NoEvent /\ lookups = <<>> /\ found # {}
  /\ LET id == Min(found) IN
     /\ found' = found \ {id}
     /\ loaded' = IF id \in DOMAIN compiled
                  THEN With(loaded, id, Unretired(compiled[id])) ELSE loaded
  /\ UNCHANGED <<store, lastId, deleting, matching, lookups, changed>>

(* ... and match_blocks: the rows of the job, which Incidents and Delivery *)
(* take from here.                                                         *)
Rows == {MatchCompiled(loaded[id], matching) : id \in DOMAIN loaded} \ {None}

MatchBlocks ==
  /\ matching # NoEvent /\ lookups = <<>> /\ found = {}
  /\ matching' = NoEvent /\ loaded' = <<>> /\ changed' = {}
  /\ UNCHANGED <<store, lastId, deleting, lookups, found>>

Next ==
  \/ \E d \in Destinations, r \in Requests : StoreNew(d, r) \/ StoreAgain(d, r)
  \/ \E d \in Destinations : StoreFails(d) \/ ReadForDelete(d)
  \/ \E id \in deleting : Deactivate(id)
  \/ \E b \in Batches : Import(b) \/ ImportFails(b)
  \/ \E e \in Events : BeginMatch(e)
  \/ ScanPostings
  \/ LoadCompiled
  \/ MatchBlocks

Spec == Init /\ [][Next]_vars
-----------------------------------------------------------------------------
(* The index is exact for the categories still matched: an id is in a      *)
(* posting if and only if its compiled subscription, as it is read, has    *)
(* that key (the batch of commit_subscription_change reads the bitmaps of   *)
(* the store while it stages other changes to the same keys).              *)
PostingsExact ==
  \A id \in DOMAIN subscriptions :
    {key \in DOMAIN postings :
       /\ key.category \notin Retired /\ key.block = Block(id) /\ Offset(id) \in postings[key]}
    = ReadKeys(id)

(* The four keyspaces tell one story: the active records are the compiled  *)
(* ones (so that what the pages list at a device is what the matcher can   *)
(* find there), each compiled from the content and the generation of its   *)
(* record, and every record is the only one of its destination and of its  *)
(* numeric destination id, by which deliveries are ordered.                *)
StoreConsistent ==
  /\ DOMAIN compiled = ActiveIds
  /\ \A d \in DOMAIN byDestination : ActiveAt(d) = {id \in DOMAIN compiled : byDestination[d] = id}
  /\ \A id \in ActiveIds :
       LET s == subscriptions[id] IN
       compiled[id] = Compile(id, s.destination, s.generation, s.content)
  /\ \A id \in DOMAIN subscriptions :
       /\ subscriptions[id].to \in DOMAIN byDestination
       /\ byDestination[subscriptions[id].to] = id
       /\ \A other \in DOMAIN subscriptions :
            subscriptions[other].destination = subscriptions[id].destination => other = id

(* An id and a generation name one content for ever: a record that changes *)
(* is raised, its destination and numeric id stay, and a new record has an *)
(* id that was never given out, so that a delivery row, a retry or a        *)
(* countdown left from an older content is always found out.               *)
GenerationNamesContent ==
  [][/\ \A id \in DOMAIN subscriptions :
          /\ id \in DOMAIN subscriptions'
          /\ \/ subscriptions'[id] = subscriptions[id]
             \/ /\ subscriptions'[id].generation > subscriptions[id].generation
                /\ subscriptions'[id].to = subscriptions[id].to
                /\ subscriptions'[id].destination = subscriptions[id].destination
     /\ \A id \in DOMAIN subscriptions' \ DOMAIN subscriptions :
          /\ id > lastId.subscription
          /\ subscriptions'[id].destination > lastId.destination]_vars

RowsOf(id) == {<<r.target, r.level>> : r \in {q \in Rows : q.subscription = id}}

(* The match of an event finds, of every subscription that nothing stored  *)
(* since the match began, exactly the row the reference matcher says, and  *)
(* nothing of one that is not active; of one stored meanwhile, a row that  *)
(* carries its current generation is the row of its current content.       *)
MatchedExactly ==
  [][MatchBlocks =>
       \A id \in DOMAIN subscriptions :
         LET s == subscriptions[id] IN
         /\ id \notin changed =>
              RowsOf(id) = IF s.active THEN Expected(s.content, matching) ELSE {}
         /\ \A r \in Rows : r.subscription = id /\ r.generation = s.generation =>
              s.active /\ r.destination = s.destination
                /\ <<r.target, r.level>> \in Expected(s.content, matching)]_vars

(* Where the shaking estimated at any place of a subscription is one it    *)
(* wants to be woken for, it is woken: a row that was matched is critical   *)
(* if any of its places within the cap is (a critical band reaches to 7,   *)
(* and the nearest place has the strongest shaking).                       *)
CriticalWins ==
  [][MatchBlocks =>
       \A id \in ActiveIds \ changed : LET s == subscriptions[id].content IN
         (\E t \in DOMAIN s.targets : /\ <<t, "critical">> \in Alerting(s, matching)
                                      /\ DistanceOf(s, matching, t) <= WarningCap)
           => \E t \in DOMAIN s.targets : <<t, "critical">> \in RowsOf(id)]_vars
=============================================================================
