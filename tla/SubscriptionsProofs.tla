------------------------- MODULE SubscriptionsProofs -------------------------
(***************************************************************************)
(* Proofs about Subscriptions: the four keyspaces of the store agree and    *)
(* its posting index is exact, for any destinations, contents, imports,     *)
(* block size and number of ids, and whatever an older release left.        *)
(***************************************************************************)
EXTENDS Subscriptions, FiniteSetTheorems, SequenceTheorems, NaturalsInduction, WellFoundedInduction,
        TLAPS

USE BlockAssumption, BoundsAssumption

-----------------------------------------------------------------------------
(* Induction *)

LessThan == {p \in Nat \X Nat : p[1] < p[2]}

(* The order of the natural numbers, as a set of pairs, is well-founded.    *)
LEMMA LessThanIsWellFounded == IsWellFoundedOn(LessThan, Nat)
  BY NatLessThanWellFounded, Zenon DEF OpToRel, LessThan

(* Induction, said of a set and not of a predicate: what the provers here   *)
(* can instantiate.                                                         *)
LEMMA NaturalInduction ==
  ASSUME NEW S, 0 \in S, \A n \in Nat : n \in S => n + 1 \in S
  PROVE  Nat \subseteq S
  <1> DEFINE T == Nat \ S
  <1> SUFFICES ASSUME T # {} PROVE FALSE
    OBVIOUS
  <1>1. IsWellFoundedOn(LessThan, Nat)
    BY LessThanIsWellFounded
  <1>2. PICK m \in T : \A k \in T : <<k, m>> \notin LessThan
    BY <1>1, WFMin
  <1>3. m # 0 /\ m - 1 \in Nat
    OBVIOUS
  <1>4. <<m - 1, m>> \in LessThan
    BY <1>3 DEF LessThan
  <1>5. m - 1 \in S
    BY <1>2, <1>3, <1>4
  <1> QED BY <1>3, <1>5

(* A step maps a value and an index to the next value; the iterates of a    *)
(* step are the functions that begin at the base and follow it.             *)
StepsWithin(step, V, N) == \A v \in V : \A n \in 1 .. N : step[<<v, n>>] \in V

Iterates(base, step, V, N) ==
  {f \in [0 .. N -> V] : f[0] = base /\ \A n \in 1 .. N : f[n] = step[<<f[n - 1], n>>]}

(* What a recursive definition along a sequence defines exists.             *)
LEMMA Recursion ==
  ASSUME NEW N \in Nat, NEW V, NEW base \in V, NEW step, StepsWithin(step, V, N)
  PROVE  Iterates(base, step, V, N) # {}
  <1> USE DEF StepsWithin
  <1> DEFINE Built(f, m) == f[0] = base /\ \A n \in 1 .. m : f[n] = step[<<f[n - 1], n>>]
             S == {m \in Nat : m <= N => \E f \in [0 .. m -> V] : Built(f, m)}
  <1>1. 0 \in S
    <2>1. [i \in 0 .. 0 |-> base] \in [0 .. 0 -> V] /\ Built([i \in 0 .. 0 |-> base], 0)
      OBVIOUS
    <2> QED BY <2>1
  <1>2. ASSUME NEW m \in Nat, m \in S PROVE m + 1 \in S
    <2> SUFFICES ASSUME m + 1 <= N PROVE \E g \in [0 .. m + 1 -> V] : Built(g, m + 1)
      OBVIOUS
    <2>1. PICK f \in [0 .. m -> V] : Built(f, m)
      BY <1>2
    <2> DEFINE g == [n \in 0 .. m + 1 |-> IF n = m + 1 THEN step[<<f[m], m + 1>>] ELSE f[n]]
    <2>2. g \in [0 .. m + 1 -> V]
      OBVIOUS
    <2>3. g[0] = base
      BY <2>1
    <2>4. \A n \in 1 .. m : g[n] = step[<<g[n - 1], n>>]
      <3> SUFFICES ASSUME NEW n \in 1 .. m PROVE g[n] = step[<<g[n - 1], n>>]
        OBVIOUS
      <3>1. g[n] = f[n] /\ g[n - 1] = f[n - 1]
        OBVIOUS
      <3> QED BY <2>1, <3>1
    <2>5. g[m + 1] = step[<<g[m], m + 1>>]
      <3>1. m \in 0 .. m + 1 /\ m + 1 \in 0 .. m + 1 /\ m # m + 1
        OBVIOUS
      <3>2. g[m] = f[m] /\ g[m + 1] = step[<<f[m], m + 1>>]
        BY <3>1
      <3> QED BY <3>2
    <2> HIDE DEF g
    <2>6. \A n \in 1 .. m + 1 : g[n] = step[<<g[n - 1], n>>]
      <3> SUFFICES ASSUME NEW n \in 1 .. m + 1 PROVE g[n] = step[<<g[n - 1], n>>]
        OBVIOUS
      <3>1. CASE n = m + 1
        BY <2>5, <3>1
      <3>2. CASE n # m + 1
        BY <2>4, <3>2
      <3> QED BY <3>1, <3>2
    <2> QED BY <2>2, <2>3, <2>6
  <1> HIDE DEF S
  <1>3. N \in S
    BY <1>1, <1>2, NaturalInduction
  <1> QED BY <1>3 DEF S, Iterates

-----------------------------------------------------------------------------
(* Rules, keys and bitmaps *)

(* Kept follows its recursive definition: the rules read so far, without    *)
(* those of retired categories.                                             *)
LEMMA KeptUnfolds ==
  ASSUME NEW R, NEW rules \in Seq(R)
  PROVE  \E kept \in [0 .. Len(rules) -> Seq(R)] :
           /\ kept[0] = <<>> /\ Kept(rules) = kept[Len(rules)]
           /\ \A n \in 1 .. Len(rules) :
                kept[n] = IF rules[n].category \in Retired THEN kept[n - 1]
                          ELSE Append(kept[n - 1], rules[n])
  <1> DEFINE N == Len(rules)
             V == Seq(R)
             Next1(v, n) == IF rules[n].category \in Retired THEN v ELSE Append(v, rules[n])
             step == [p \in V \X (1 .. N) |-> Next1(p[1], p[2])]
             Body(f) == [n \in 0 .. N |->
                          IF n = 0 THEN <<>>
                          ELSE IF rules[n].category \in Retired THEN f[n - 1]
                          ELSE Append(f[n - 1], rules[n])]
  <1>1. \A v \in V : \A n \in 1 .. N : step[<<v, n>>] = Next1(v, n) /\ step[<<v, n>>] \in V
    OBVIOUS
  <1>2. ASSUME NEW f \in [0 .. N -> V], f[0] = <<>>,
               \A n \in 1 .. N : f[n] = step[<<f[n - 1], n>>]
        PROVE  f = Body(f)
    <2>1. ASSUME NEW n \in 0 .. N PROVE f[n] = Body(f)[n]
      <3>1. CASE n = 0
        BY <1>2, <3>1
      <3>2. CASE n \in 1 .. N
        <4>1. f[n - 1] \in V
          BY <3>2
        <4>2. f[n] = Next1(f[n - 1], n)
          BY <1>1, <1>2, <3>2, <4>1
        <4> QED BY <3>2, <4>2
      <3> QED BY <3>1, <3>2
    <2> HIDE DEF V, N
    <2>2. DOMAIN Body(f) = 0 .. N /\ DOMAIN f = 0 .. N
      OBVIOUS
    <2>3. f = [n \in 0 .. N |-> f[n]]
      OBVIOUS
    <2> QED BY <2>1, <2>2, <2>3
  <1>3. N \in Nat /\ <<>> \in V
    OBVIOUS
  <1>4. \E f \in [0 .. N -> V] :
          f[0] = <<>> /\ \A n \in 1 .. N : f[n] = step[<<f[n - 1], n>>]
    <2>1. StepsWithin(step, V, N)
      BY <1>1 DEF StepsWithin
    <2> HIDE DEF step, V, N
    <2>2. Iterates(<<>>, step, V, N) # {}
      BY <2>1, <1>3, Recursion
    <2> QED BY <2>2 DEF Iterates
  <1>5. \E f : f = Body(f)
    <2> HIDE DEF step, Body
    <2> QED BY <1>2, <1>4
  <1> DEFINE kept == CHOOSE f : f = Body(f)
  <1>6. kept = Body(kept)
    <2> HIDE DEF Body
    <2> QED BY <1>5, Zenon
  <1>7. Kept(rules) = kept[N]
    BY Zenon DEF Kept
  <1> HIDE DEF kept
  <1>8. kept[0] = <<>> /\ \A n \in 1 .. N : kept[n] = Next1(kept[n - 1], n)
    <2> HIDE DEF V
    <2>1. \A n \in 0 .. N : kept[n] = Body(kept)[n]
      BY <1>6, Zenon
    <2> QED BY <1>3, <2>1
  <1> DEFINE S == {n \in Nat : n <= N => kept[n] \in V}
  <1>9. 0 \in S /\ \A n \in Nat : n \in S => n + 1 \in S
    <2> SUFFICES ASSUME NEW n \in Nat, kept[n] \in V, n + 1 <= N PROVE kept[n + 1] \in V
      <3>1. kept[0] \in V
        BY <1>8, <1>3
      <3> HIDE DEF V, N
      <3> QED BY <3>1, <1>3
    <2>1. n + 1 \in 1 .. N /\ (n + 1) - 1 = n
      BY <1>3
    <2>2. kept[n + 1] = Next1(kept[n], n + 1)
      BY <1>8, <2>1
    <2> QED BY <2>1, <2>2
  <1>10. Nat \subseteq S
    <2> HIDE DEF S
    <2> QED BY <1>9, NaturalInduction
  <1>11. kept \in [0 .. N -> V]
    <2>1. \A n \in 0 .. N : kept[n] \in V
      <3> HIDE DEF V, N
      <3> QED BY <1>3, <1>10
    <2>2. kept = [n \in 0 .. N |-> kept[n]]
      <3>1. DOMAIN kept = 0 .. N
        BY <1>6
      <3> QED BY <1>6, <3>1, Zenon
    <2> HIDE DEF V, N
    <2> QED BY <2>1, <2>2
  <1> QED BY <1>7, <1>8, <1>11

(* What a sequence holds.                                                   *)
Contents(s) == {s[i] : i \in 1 .. Len(s)}

(* An appended element is all that is added.                                *)
LEMMA AppendedContents ==
  ASSUME NEW R, NEW s \in Seq(R), NEW x \in R
  PROVE  Contents(Append(s, x)) = Contents(s) \cup {x}
  <1>1. Len(Append(s, x)) = Len(s) + 1 /\ Append(s, x)[Len(s) + 1] = x
    OBVIOUS
  <1>2. \A i \in 1 .. Len(s) : Append(s, x)[i] = s[i]
    OBVIOUS
  <1>3. Len(s) \in Nat
    OBVIOUS
  <1> QED BY <1>1, <1>2, <1>3 DEF Contents

(* Reading drops the rules of retired categories, and nothing else.         *)
LEMMA KeptContents ==
  ASSUME NEW R, NEW rules \in Seq(R)
  PROVE  /\ Kept(rules) \in Seq(R)
         /\ Contents(Kept(rules)) = {r \in Contents(rules) : r.category \notin Retired}
  <1> DEFINE N == Len(rules)
             Live(m) == {r \in {rules[i] : i \in 1 .. m} : r.category \notin Retired}
  <1>0. N \in Nat /\ \A i \in 1 .. N : rules[i] \in R
    OBVIOUS
  <1>1. PICK kept \in [0 .. N -> Seq(R)] :
          /\ kept[0] = <<>> /\ Kept(rules) = kept[N]
          /\ \A n \in 1 .. N :
               kept[n] = IF rules[n].category \in Retired THEN kept[n - 1]
                         ELSE Append(kept[n - 1], rules[n])
    BY KeptUnfolds
  <1> DEFINE S == {m \in Nat : m <= N => Contents(kept[m]) = Live(m)}
  <1>2. 0 \in S
    BY <1>1 DEF Contents
  <1>3. ASSUME NEW m \in Nat, m \in S PROVE m + 1 \in S
    <2> SUFFICES ASSUME m + 1 <= N PROVE Contents(kept[m + 1]) = Live(m + 1)
      OBVIOUS
    <2>1. m + 1 \in 1 .. N /\ m \in 0 .. N /\ (m + 1) - 1 = m
      BY <1>0
    <2>2. Contents(kept[m]) = Live(m) /\ kept[m] \in Seq(R) /\ rules[m + 1] \in R
      BY <1>0, <1>1, <1>3, <2>1
    <2>3. {rules[i] : i \in 1 .. m + 1} = {rules[i] : i \in 1 .. m} \cup {rules[m + 1]}
      <3>1. 1 .. m + 1 = (1 .. m) \cup {m + 1}
        OBVIOUS
      <3> QED BY <3>1
    <2>4. kept[m + 1] = IF rules[m + 1].category \in Retired THEN kept[m]
                        ELSE Append(kept[m], rules[m + 1])
      BY <1>1, <2>1
    <2>5. CASE rules[m + 1].category \in Retired
      BY <2>2, <2>3, <2>4, <2>5
    <2>6. CASE rules[m + 1].category \notin Retired
      <3>1. Contents(kept[m + 1]) = Contents(kept[m]) \cup {rules[m + 1]}
        BY <2>2, <2>4, <2>6, AppendedContents
      <3> QED BY <2>2, <2>3, <2>6, <3>1
    <2> QED BY <2>5, <2>6
  <1>4. N \in S
    <2> HIDE DEF S, N
    <2> QED BY <1>0, <1>2, <1>3, NaturalInduction
  <1>5. Contents(kept[N]) = Live(N) /\ kept[N] \in Seq(R)
    <2> HIDE DEF Live, N
    <2> QED BY <1>0, <1>1, <1>4
  <1> QED BY <1>1, <1>5 DEF Contents

(* The keys of one rule.                                                    *)
RuleKeys(rule, targets, block) ==
  {[category |-> rule.category, source |-> s, by |-> f, block |-> block]
     : s \in KeySources(rule), f \in Findable(targets)}

(* The keys of a compiled subscription are those of its rules.              *)
LEMMA KeysOfRules ==
  ASSUME NEW c, NEW R, c.rules \in Seq(R)
  PROVE  KeysOf(c) = UNION {RuleKeys(r, c.targets, Block(c.id)) : r \in Contents(c.rules)}
  <1>1. DOMAIN c.rules = 1 .. Len(c.rules)
    OBVIOUS
  <1>2. \A i \in DOMAIN c.rules :
          {[category |-> c.rules[i].category, source |-> s, by |-> f, block |-> Block(c.id)]
             : s \in KeySources(c.rules[i]), f \in Findable(c.targets)}
          = RuleKeys(c.rules[i], c.targets, Block(c.id))
    BY DEF RuleKeys
  <1>3. KeysOf(c) = UNION {RuleKeys(c.rules[i], c.targets, Block(c.id)) : i \in DOMAIN c.rules}
    BY <1>2 DEF KeysOf
  <1> QED BY <1>1, <1>3 DEF Contents

(* A key names the block of its id.                                         *)
LEMMA KeysNameTheirBlock ==
  ASSUME NEW c, NEW R, c.rules \in Seq(R), NEW key \in KeysOf(c)
  PROVE  key.block = Block(c.id)
  BY KeysOfRules DEF RuleKeys

(* What is read is indexed under the keys of the rules that are not retired. *)
LEMMA UnretiredKeys ==
  ASSUME NEW id, NEW destination, NEW generation, NEW content, IsSequence(content.rules)
  PROVE  LET c == Compile(id, destination, generation, content) IN
         /\ KeysOf(Unretired(c)) = {key \in KeysOf(c) : key.category \notin Retired}
         /\ \A key \in KeysOf(c) : key.block = Block(id)
  <1> DEFINE c == Compile(id, destination, generation, content)
             R == {c.rules[i] : i \in DOMAIN c.rules}
             K(r) == RuleKeys(r, c.targets, Block(id))
  <1>1. content.rules \in Seq({content.rules[i] : i \in DOMAIN content.rules})
    BY DEF IsSequence
  <1>2. c.rules = [i \in DOMAIN content.rules |-> CompiledRule(content.rules[i])] /\ c.id = id
    BY DEF Compile
  <1>3. DOMAIN content.rules = 1 .. Len(content.rules) /\ Len(content.rules) \in Nat
    BY <1>1
  <1>4. c.rules \in Seq(R)
    BY <1>2, <1>3
  <1>5. Unretired(c).rules = Kept(c.rules) /\ Unretired(c).id = id /\ Unretired(c).targets = c.targets
    BY <1>2 DEF Unretired, Compile
  <1> HIDE DEF c, R
  <1>6. KeysOf(c) = UNION {K(r) : r \in Contents(c.rules)}
    BY <1>2, <1>4, KeysOfRules
  <1>7. /\ Kept(c.rules) \in Seq(R)
        /\ Contents(Kept(c.rules)) = {r \in Contents(c.rules) : r.category \notin Retired}
    BY <1>4, KeptContents
  <1>8. KeysOf(Unretired(c)) = UNION {K(r) : r \in Contents(Kept(c.rules))}
    BY <1>5, <1>7, KeysOfRules
  <1>9. \A r : \A key \in K(r) : key.category = r.category /\ key.block = Block(id)
    BY DEF RuleKeys
  <1> HIDE DEF K
  <1>10. KeysOf(Unretired(c)) = {key \in KeysOf(c) : key.category \notin Retired}
    BY <1>6, <1>7, <1>8, <1>9
  <1>11. \A key \in KeysOf(c) : key.block = Block(id)
    BY <1>6, <1>9
  <1> QED BY <1>10, <1>11 DEF c

(* An id is its block and its offset.                                       *)
LEMMA OffsetsTellIdsApart ==
  ASSUME NEW i \in Nat, NEW j \in Nat, Block(i) = Block(j), Offset(i) = Offset(j)
  PROVE  i = j
  BY DEF Block, Offset

(* What a batch of bitmaps leaves under a key: its own bitmap, or what was   *)
(* there.                                                                   *)
LEMMA WriteEffect ==
  ASSUME NEW bitmaps, WritePostings(bitmaps)
  PROVE  \A key : Posting(key)' = IF key \in DOMAIN bitmaps THEN bitmaps[key] ELSE Posting(key)
  <1> DEFINE all == Over(bitmaps, postings)
  <1>1. /\ DOMAIN all = DOMAIN bitmaps \cup DOMAIN postings
        /\ \A key \in DOMAIN all : all[key] = IF key \in DOMAIN bitmaps THEN bitmaps[key] ELSE postings[key]
    BY DEF Over
  <1>2. postings' = [key \in {k \in DOMAIN all : all[k] # {}} |-> all[key]]
    BY DEF WritePostings
  <1> HIDE DEF all
  <1>3. /\ DOMAIN postings' = {k \in DOMAIN all : all[k] # {}}
        /\ \A key \in DOMAIN postings' : postings'[key] = all[key]
    BY <1>2
  <1> QED BY <1>1, <1>3 DEF Posting

-----------------------------------------------------------------------------
(* The inductive invariant *)

(* A stored record, whose numeric destination id was given out.             *)
RecordTyped(s) ==
  /\ s = [to |-> s.to, destination |-> s.destination, generation |-> s.generation,
          active |-> s.active, content |-> s.content]
  /\ s.destination \in 1 .. lastId.destination /\ s.generation \in Nat /\ s.active \in BOOLEAN

IdsTyped ==
  /\ lastId = [subscription |-> lastId.subscription, destination |-> lastId.destination]
  /\ lastId.subscription \in 0 .. MaxId /\ lastId.destination \in Nat
  /\ DOMAIN subscriptions \subseteq 1 .. lastId.subscription
  /\ \A id \in DOMAIN subscriptions : RecordTyped(subscriptions[id])
  /\ deleting \subseteq DOMAIN subscriptions

(* A destination leads to the record that is its own, and to no other.       *)
DestinationsOwned ==
  /\ \A d \in DOMAIN byDestination :
       /\ byDestination[d] \in DOMAIN subscriptions
       /\ subscriptions[byDestination[d]].to = d
  /\ \A id \in DOMAIN subscriptions :
       /\ subscriptions[id].to \in DOMAIN byDestination
       /\ byDestination[subscriptions[id].to] = id
       /\ \A other \in DOMAIN subscriptions :
            subscriptions[other].destination = subscriptions[id].destination => other = id

(* What is compiled is compiled from the active records.                    *)
CompiledCurrent ==
  /\ DOMAIN compiled = ActiveIds
  /\ \A id \in DOMAIN compiled :
       /\ compiled[id] = Compile(id, subscriptions[id].destination,
                                 subscriptions[id].generation, subscriptions[id].content)
       /\ IsSequence(subscriptions[id].content.rules)

(* The postings of an id, given out or not, that a match may read.           *)
PostedKeys(id) ==
  {key \in DOMAIN postings :
     key.category \notin Retired /\ key.block = Block(id) /\ Offset(id) \in postings[key]}

PostedExactly == \A id \in 1 .. MaxId : PostedKeys(id) = ReadKeys(id)

IInv == IdsTyped /\ DestinationsOwned /\ CompiledCurrent /\ PostedExactly

-----------------------------------------------------------------------------
(* Facts of a state *)

(* What is read of an id is live and in the block of the id.                *)
LEMMA ReadKeysOfBlock ==
  ASSUME CompiledCurrent, NEW id
  PROVE  \A key \in ReadKeys(id) : key.category \notin Retired /\ key.block = Block(id)
  <1>1. CASE id \in DOMAIN compiled
    <2>1. /\ compiled[id] = Compile(id, subscriptions[id].destination,
                                    subscriptions[id].generation, subscriptions[id].content)
          /\ IsSequence(subscriptions[id].content.rules)
      BY <1>1 DEF CompiledCurrent
    <2> QED BY <1>1, <2>1, UnretiredKeys DEF ReadKeys
  <1>2. CASE id \notin DOMAIN compiled
    BY <1>2 DEF ReadKeys
  <1> QED BY <1>1, <1>2

(* The postings of an id are exact, said bitmap by bitmap.                  *)
LEMMA PostedInBitmap ==
  ASSUME PostedExactly, NEW id \in 1 .. MaxId, NEW key,
         key.category \notin Retired, key.block = Block(id)
  PROVE  Offset(id) \in Posting(key) <=> key \in ReadKeys(id)
  BY DEF PostedExactly, PostedKeys, Posting

-----------------------------------------------------------------------------
(* A store *)

(* After a store the index is exact: what was indexed of the id is gone,    *)
(* what is compiled of it now is there, and no other id moved.              *)
LEMMA StoreKeepsPostings ==
  ASSUME CompiledCurrent, PostedExactly, NEW id \in 1 .. MaxId,
         NEW destination, NEW generation, NEW d, NEW content, IsSequence(content.rules),
         Store(id, destination, generation, d, content)
  PROVE  PostedExactly'
  <1> DEFINE new == Compile(id, destination, generation, content)
             bitmaps == [key \in ReadKeys(id) \cup KeysOf(new) |->
                          Repost(ReadKeys(id), KeysOf(new), Offset(id), key)]
  <1>1. /\ KeysOf(Unretired(new)) = {key \in KeysOf(new) : key.category \notin Retired}
        /\ \A key \in KeysOf(new) : key.block = Block(id)
    BY UnretiredKeys
  <1> HIDE DEF new
  <1>2. compiled' = With(compiled, id, new) /\ WritePostings(bitmaps)
    BY DEF Store, new
  <1>3. \A key : Posting(key)' = IF key \in ReadKeys(id) \cup KeysOf(new)
                               THEN Repost(ReadKeys(id), KeysOf(new), Offset(id), key)
                               ELSE Posting(key)
    <2> HIDE DEF bitmaps
    <2>1. \A key : Posting(key)' = IF key \in DOMAIN bitmaps THEN bitmaps[key] ELSE Posting(key)
      BY <1>2, WriteEffect
    <2> QED BY <2>1 DEF bitmaps
  <1>4. ReadKeys(id)' = KeysOf(Unretired(new))
    <2>1. id \in DOMAIN compiled' /\ compiled'[id] = new
      BY <1>2 DEF With
    <2> QED BY <2>1 DEF ReadKeys
  <1>5. ASSUME NEW other \in 1 .. MaxId, other # id PROVE ReadKeys(other)' = ReadKeys(other)
    <2>1. /\ other \in DOMAIN compiled' <=> other \in DOMAIN compiled
          /\ other \in DOMAIN compiled => compiled'[other] = compiled[other]
      BY <1>2, <1>5 DEF With
    <2> QED BY <2>1 DEF ReadKeys
  <1>6. ASSUME NEW other \in 1 .. MaxId, NEW key,
               key.category \notin Retired, key.block = Block(other)
        PROVE  Offset(other) \in Posting(key)' <=> key \in ReadKeys(other)'
    <2>1. Offset(other) \in Posting(key) <=> key \in ReadKeys(other)
      BY <1>6, PostedInBitmap
    <2>2. CASE other = id
      BY <1>1, <1>3, <1>4, <1>6, <2>1, <2>2 DEF Repost
    <2>3. CASE other # id
      <3>1. ReadKeys(other)' = ReadKeys(other)
        BY <1>5, <2>3
      <3>2. key \in ReadKeys(id) \cup KeysOf(new) => Offset(other) # Offset(id)
        <4>1. key \in ReadKeys(id) \cup KeysOf(new) => key.block = Block(id)
          BY <1>1, ReadKeysOfBlock
        <4>2. Block(other) = Block(id) => Offset(other) # Offset(id)
          BY <2>3, OffsetsTellIdsApart
        <4> QED BY <1>6, <4>1, <4>2
      <3> QED BY <1>3, <2>1, <3>1, <3>2 DEF Repost
    <2> QED BY <2>2, <2>3
  <1>7. ASSUME NEW other \in 1 .. MaxId, NEW key \in ReadKeys(other)'
        PROVE  key.category \notin Retired /\ key.block = Block(other)
    <2>1. CASE other = id
      BY <1>1, <1>4, <1>7, <2>1
    <2>2. CASE other # id
      BY <1>5, <1>7, <2>2, ReadKeysOfBlock
    <2> QED BY <2>1, <2>2
  <1> QED BY <1>6, <1>7 DEF PostedExactly, PostedKeys, Posting

(* The counters only grow.                                                  *)
Grown ==
  /\ lastId' = [subscription |-> lastId'.subscription, destination |-> lastId'.destination]
  /\ lastId'.subscription \in lastId.subscription .. MaxId
  /\ lastId'.destination \in Nat /\ lastId'.destination >= lastId.destination

(* A record typed under the counters stays so when they grow.               *)
LEMMA TypedWhenGrown ==
  ASSUME IdsTyped, Grown, NEW id \in DOMAIN subscriptions,
         NEW t, t = subscriptions[id]
  PROVE  /\ t = [to |-> t.to, destination |-> t.destination, generation |-> t.generation,
                 active |-> t.active, content |-> t.content]
         /\ t.destination \in 1 .. lastId'.destination
         /\ t.generation \in Nat /\ t.active \in BOOLEAN
  <1>1. RecordTyped(subscriptions[id])
    BY DEF IdsTyped
  <1>2. t = [to |-> t.to, destination |-> t.destination, generation |-> t.generation,
             active |-> t.active, content |-> t.content]
    BY <1>1, Zenon DEF RecordTyped
  <1>3. t.destination \in 1 .. lastId.destination /\ t.generation \in Nat
    BY <1>1 DEF RecordTyped
  <1>4. t.active \in BOOLEAN
    BY <1>1, Zenon DEF RecordTyped
  <1>5. t.destination \in 1 .. lastId'.destination
    BY <1>3 DEF Grown, IdsTyped
  <1> QED BY <1>2, <1>3, <1>4, <1>5

(* A store keeps the records typed, owned and compiled, if the destination   *)
(* and the numeric id are nobody else's and a record stays at its own.      *)
LEMMA StoreKeepsRecords ==
  ASSUME IdsTyped, DestinationsOwned, CompiledCurrent, Grown,
         NEW id \in 1 .. lastId'.subscription, NEW destination \in 1 .. lastId'.destination,
         NEW generation \in Nat, NEW d, NEW content, IsSequence(content.rules),
         \A other \in DOMAIN subscriptions \ {id} :
           subscriptions[other].to # d /\ subscriptions[other].destination # destination,
         id \in DOMAIN subscriptions => subscriptions[id].to = d,
         Store(id, destination, generation, d, content), deleting' = deleting
  PROVE  IdsTyped' /\ DestinationsOwned' /\ CompiledCurrent'
  <1> DEFINE rec == [to |-> d, destination |-> destination, generation |-> generation,
                     active |-> TRUE, content |-> content]
             new == Compile(id, destination, generation, content)
  <1>1. /\ subscriptions' = With(subscriptions, id, rec)
        /\ byDestination' = With(byDestination, d, id)
        /\ compiled' = With(compiled, id, new)
    BY DEF Store
  <1>2. /\ DOMAIN subscriptions' = DOMAIN subscriptions \cup {id}
        /\ subscriptions'[id] = rec
        /\ \A other \in DOMAIN subscriptions \ {id} : subscriptions'[other] = subscriptions[other]
    <2> HIDE DEF rec
    <2> QED BY <1>1 DEF With
  <1>3. /\ DOMAIN byDestination' = DOMAIN byDestination \cup {d} /\ byDestination'[d] = id
        /\ \A e \in DOMAIN byDestination \ {d} : byDestination'[e] = byDestination[e]
    BY <1>1 DEF With
  <1>4. /\ DOMAIN compiled' = DOMAIN compiled \cup {id} /\ compiled'[id] = new
        /\ \A other \in DOMAIN compiled \ {id} : compiled'[other] = compiled[other]
    <2> HIDE DEF new
    <2> QED BY <1>1 DEF With
  <1>5. /\ rec.to = d /\ rec.destination = destination /\ rec.generation = generation
        /\ rec.active = TRUE /\ rec.content = content
    OBVIOUS
  <1> HIDE DEF new
  <1>6. IdsTyped'
    <2>1. ASSUME NEW other \in DOMAIN subscriptions' PROVE RecordTyped(subscriptions[other])'
      <3> DEFINE t == subscriptions'[other]
      <3>1. /\ t = [to |-> t.to, destination |-> t.destination, generation |-> t.generation,
                    active |-> t.active, content |-> t.content]
            /\ t.destination \in 1 .. lastId'.destination
            /\ t.generation \in Nat /\ t.active \in BOOLEAN
        <4>1. CASE other = id
          <5>1. rec = [to |-> rec.to, destination |-> rec.destination,
                       generation |-> rec.generation, active |-> rec.active, content |-> rec.content]
            BY Zenon
          <5>2. t = rec
            BY <1>2, <4>1
          <5> HIDE DEF t, rec
          <5> QED BY <1>5, <5>1, <5>2
        <4>2. CASE other \in DOMAIN subscriptions \ {id}
          <5> HIDE DEF rec
          <5>1. t = subscriptions[other]
            BY <1>2, <4>2
          <5> HIDE DEF t
          <5> QED BY <4>2, <5>1, TypedWhenGrown
        <4> QED BY <1>2, <4>1, <4>2
      <3> QED BY <3>1, Zenon DEF RecordTyped
    <2>2. DOMAIN subscriptions' \subseteq 1 .. lastId'.subscription
      BY <1>2 DEF IdsTyped, Grown
    <2>3. deleting' \subseteq DOMAIN subscriptions'
      BY <1>2 DEF IdsTyped
    <2>4. lastId'.subscription \in 0 .. MaxId
      BY DEF IdsTyped, Grown
    <2> QED BY <2>1, <2>2, <2>3, <2>4 DEF IdsTyped, Grown
  <1> HIDE DEF rec
  <1>7. DestinationsOwned'
    <2>1. \A e \in DOMAIN byDestination' :
            /\ byDestination'[e] \in DOMAIN subscriptions'
            /\ subscriptions'[byDestination'[e]].to = e
      <3> SUFFICES ASSUME NEW e \in DOMAIN byDestination'
                   PROVE  /\ byDestination'[e] \in DOMAIN subscriptions'
                          /\ subscriptions'[byDestination'[e]].to = e
        OBVIOUS
      <3>1. CASE e = d
        BY <1>2, <1>3, <1>5, <3>1
      <3>2. CASE e # d
        <4>1. /\ byDestination'[e] = byDestination[e] /\ byDestination[e] \in DOMAIN subscriptions
              /\ subscriptions[byDestination[e]].to = e
          BY <1>3, <3>2 DEF DestinationsOwned
        <4>2. byDestination[e] # id
          BY <3>2, <4>1
        <4> QED BY <1>2, <4>1, <4>2
      <3> QED BY <3>1, <3>2
    <2>2. \A other \in DOMAIN subscriptions' :
            /\ subscriptions'[other].to \in DOMAIN byDestination'
            /\ byDestination'[subscriptions'[other].to] = other
      <3> SUFFICES ASSUME NEW other \in DOMAIN subscriptions'
                   PROVE  /\ subscriptions'[other].to \in DOMAIN byDestination'
                          /\ byDestination'[subscriptions'[other].to] = other
        OBVIOUS
      <3>1. CASE other = id
        BY <1>2, <1>3, <1>5, <3>1
      <3>2. CASE other # id
        BY <1>2, <1>3, <3>2 DEF DestinationsOwned
      <3> QED BY <3>1, <3>2
    <2>3. \A i, j \in DOMAIN subscriptions' :
            subscriptions'[i].destination = subscriptions'[j].destination => i = j
      BY <1>2, <1>5 DEF DestinationsOwned
    <2> QED BY <2>1, <2>2, <2>3 DEF DestinationsOwned
  <1>8. CompiledCurrent'
    <2>1. \A other \in DOMAIN subscriptions :
            other # id => subscriptions'[other] = subscriptions[other]
      BY <1>2
    <2>2. ActiveIds' = ActiveIds \cup {id}
      BY <1>2, <1>5, <2>1 DEF ActiveIds
    <2>3. ASSUME NEW other \in DOMAIN compiled'
          PROVE  /\ compiled'[other] = Compile(other, subscriptions'[other].destination,
                        subscriptions'[other].generation, subscriptions'[other].content)
                 /\ IsSequence(subscriptions'[other].content.rules)
      <3>1. CASE other = id
        BY <1>2, <1>4, <1>5, <3>1 DEF new
      <3>2. CASE other # id
        <4>1. other \in DOMAIN compiled /\ other \in DOMAIN subscriptions
          BY <1>4, <2>3, <3>2 DEF CompiledCurrent, ActiveIds
        <4>2. compiled'[other] = compiled[other] /\ subscriptions'[other] = subscriptions[other]
          BY <1>4, <2>1, <3>2, <4>1
        <4> QED BY <4>1, <4>2 DEF CompiledCurrent
      <3> QED BY <3>1, <3>2
    <2> QED BY <1>4, <2>2, <2>3 DEF CompiledCurrent
  <1> QED BY <1>6, <1>7, <1>8

(* The request of a store holds a sequence of rules.                        *)
LEMMA RequestsHoldRules ==
  ASSUME NEW r \in Requests
  PROVE  IsSequence(r.rules)
  BY ContentAssumption

(* A new record takes the next ids, which nobody has.                       *)
LEMMA StoreNewKeeps ==
  ASSUME IInv, NEW d, NEW r \in Requests, StoreNew(d, r)
  PROVE  IInv' /\ Grown
  <1> DEFINE id == lastId.subscription + 1
             n == lastId.destination + 1
  <1>1. /\ lastId.subscription \in 0 .. MaxId /\ lastId.destination \in Nat
        /\ lastId.subscription < MaxId
        /\ lastId'.subscription = id /\ lastId'.destination = n
    BY DEF IInv, IdsTyped, StoreNew
  <1>2. Grown
    BY <1>1 DEF Grown, StoreNew
  <1>3. id \in 1 .. lastId'.subscription /\ n \in 1 .. lastId'.destination /\ id \in 1 .. MaxId
    BY <1>1
  <1>4. id \notin DOMAIN subscriptions
    BY <1>1 DEF IInv, IdsTyped
  <1>5. \A other \in DOMAIN subscriptions \ {id} :
          subscriptions[other].to # d /\ subscriptions[other].destination # n
    BY <1>1 DEF IInv, IdsTyped, DestinationsOwned, RecordTyped, StoreNew
  <1>6. Store(id, n, 1, d, r) /\ deleting' = deleting /\ IsSequence(r.rules)
    BY RequestsHoldRules DEF StoreNew
  <1> HIDE DEF id, n
  <1>7. IdsTyped' /\ DestinationsOwned' /\ CompiledCurrent'
    BY <1>2, <1>3, <1>4, <1>5, <1>6, StoreKeepsRecords DEF IInv
  <1>8. PostedExactly'
    BY <1>3, <1>6, StoreKeepsPostings DEF IInv
  <1> QED BY <1>2, <1>7, <1>8 DEF IInv

(* A destination stored again keeps its ids.                                *)
LEMMA StoreAgainKeeps ==
  ASSUME IInv, NEW d, NEW r \in Requests, StoreAgain(d, r)
  PROVE  IInv' /\ Grown
  <1> DEFINE id == byDestination[d]
             n == subscriptions[id].destination
             g == NextGeneration(id)
  <1>1. /\ id \in DOMAIN subscriptions /\ subscriptions[id].to = d
        /\ lastId' = lastId /\ deleting' = deleting /\ Store(id, n, g, d, r)
    BY DEF IInv, DestinationsOwned, StoreAgain
  <1>2. Grown
    BY <1>1 DEF Grown, IInv, IdsTyped
  <1>3. id \in 1 .. lastId'.subscription /\ id \in 1 .. MaxId
    BY <1>1 DEF IInv, IdsTyped
  <1>4. n \in 1 .. lastId'.destination /\ g \in Nat
    BY <1>1 DEF IInv, IdsTyped, RecordTyped, NextGeneration
  <1>5. \A other \in DOMAIN subscriptions \ {id} :
          subscriptions[other].to # d /\ subscriptions[other].destination # n
    BY <1>1 DEF IInv, DestinationsOwned
  <1>6. IsSequence(r.rules)
    BY RequestsHoldRules
  <1> HIDE DEF id, n, g
  <1>7. IdsTyped' /\ DestinationsOwned' /\ CompiledCurrent'
    BY <1>1, <1>2, <1>3, <1>4, <1>5, <1>6, StoreKeepsRecords DEF IInv
  <1>8. PostedExactly'
    BY <1>1, <1>3, <1>6, StoreKeepsPostings DEF IInv
  <1> QED BY <1>2, <1>7, <1>8 DEF IInv

-----------------------------------------------------------------------------
(* Steps that leave the store alone *)

(* Ids that are burnt, deletions that are read and everything a match does   *)
(* leave the store as it is.                                                *)
LEMMA StoreUntouched ==
  ASSUME IInv, Grown, UNCHANGED store, deleting' \subseteq DOMAIN subscriptions
  PROVE  IInv'
  <1>0. /\ subscriptions' = subscriptions /\ byDestination' = byDestination
        /\ compiled' = compiled /\ postings' = postings
    BY DEF store
  <1>1. IdsTyped'
    <2>1. ASSUME NEW id \in DOMAIN subscriptions' PROVE RecordTyped(subscriptions[id])'
      <3> DEFINE t == subscriptions'[id]
      <3>1. t = subscriptions[id] /\ id \in DOMAIN subscriptions
        BY <1>0
      <3> HIDE DEF t
      <3>2. /\ t = [to |-> t.to, destination |-> t.destination, generation |-> t.generation,
                    active |-> t.active, content |-> t.content]
            /\ t.destination \in 1 .. lastId'.destination
            /\ t.generation \in Nat /\ t.active \in BOOLEAN
        BY <3>1, TypedWhenGrown DEF IInv
      <3> QED BY <3>2, Zenon DEF RecordTyped, t
    <2>2. DOMAIN subscriptions' \subseteq 1 .. lastId'.subscription
      BY <1>0 DEF IInv, IdsTyped, Grown
    <2>3. lastId'.subscription \in 0 .. MaxId
      BY DEF IInv, IdsTyped, Grown
    <2> QED BY <1>0, <2>1, <2>2, <2>3 DEF IdsTyped, Grown
  <1>2. DestinationsOwned'
    BY <1>0 DEF IInv, DestinationsOwned
  <1>3. CompiledCurrent'
    BY <1>0 DEF IInv, CompiledCurrent, ActiveIds
  <1>4. PostedExactly'
    BY <1>0 DEF IInv, PostedExactly, PostedKeys, ReadKeys
  <1> QED BY <1>1, <1>2, <1>3, <1>4 DEF IInv

(* A store that fails burns one id or both, an import that is refused those  *)
(* of the records before the one refused.                                   *)
LEMMA BurntIdsKeep ==
  ASSUME IInv,
         \/ \E d \in Destinations : StoreFails(d)
         \/ \E b \in Batches : ImportFails(b)
  PROVE  IInv' /\ Grown
  <1>1. /\ lastId = [subscription |-> lastId.subscription, destination |-> lastId.destination]
        /\ lastId.subscription \in 0 .. MaxId /\ lastId.destination \in Nat
    BY DEF IInv, IdsTyped
  <1>2. Grown
    <2>1. CASE \E d \in Destinations : StoreFails(d)
      BY <1>1, <2>1 DEF StoreFails, Grown
    <2>2. CASE \E b \in Batches : ImportFails(b)
      <3>1. PICK b \in Batches : ImportFails(b)
        BY <2>2
      <3>2. PICK i \in DOMAIN b : /\ lastId.subscription + i - 1 <= MaxId
                                  /\ lastId' = [c \in DOMAIN lastId |-> lastId[c] + i - 1]
        BY <3>1 DEF ImportFails
      <3>3. i \in Nat \ {0}
        BY ContentAssumption DEF IsSequence
      <3>4. DOMAIN lastId = {"subscription", "destination"}
        BY <1>1
      <3>5. /\ lastId'.subscription = lastId.subscription + i - 1
            /\ lastId'.destination = lastId.destination + i - 1
        BY <3>2, <3>4
      <3>6. lastId' = [subscription |-> lastId'.subscription, destination |-> lastId'.destination]
        BY <3>2, <3>4
      <3> QED BY <1>1, <3>2, <3>3, <3>5, <3>6 DEF Grown
    <2> QED BY <2>1, <2>2
  <1>3. UNCHANGED <<store, deleting>>
    BY DEF StoreFails, ImportFails
  <1> QED BY <1>2, <1>3, StoreUntouched DEF IInv, IdsTyped

(* Reading a record before it is deleted, and the steps of a match.         *)
LEMMA ReadingKeeps ==
  ASSUME IInv,
         \/ \E d \in Destinations : ReadForDelete(d)
         \/ \E e \in Events : BeginMatch(e)
         \/ ScanPostings \/ LoadCompiled \/ MatchBlocks \/ UNCHANGED vars
  PROVE  IInv' /\ Grown
  <1>1. UNCHANGED <<store, lastId>>
    BY DEF ReadForDelete, BeginMatch, ScanPostings, LoadCompiled, MatchBlocks, vars
  <1>2. Grown
    BY <1>1 DEF Grown, IInv, IdsTyped
  <1>3. deleting' \subseteq DOMAIN subscriptions
    BY DEF ReadForDelete, BeginMatch, ScanPostings, LoadCompiled, MatchBlocks, vars,
           IInv, IdsTyped, DestinationsOwned
  <1> QED BY <1>1, <1>2, <1>3, StoreUntouched

-----------------------------------------------------------------------------
(* A deactivation *)

(* A record of these fields, and what a deactivation writes of a record.    *)
RecordOf(to, destination, generation, active, content) ==
  [to |-> to, destination |-> destination, generation |-> generation,
   active |-> active, content |-> content]

IsRecord(s) == s = RecordOf(s.to, s.destination, s.generation, s.active, s.content)

Deactivated(s, g, c) == [s EXCEPT !.active = FALSE, !.generation = g, !.content = c]

(* A deactivation writes three fields and leaves the two others.            *)
LEMMA DeactivatedFields ==
  ASSUME NEW s, NEW g, NEW c, IsRecord(s)
  PROVE  Deactivated(s, g, c) = RecordOf(s.to, s.destination, g, FALSE, c)
  <1> DEFINE f == FALSE
             Fields == {"to", "destination", "generation", "active", "content"}
             Field(x) == IF x = "content" THEN c
                         ELSE IF x = "generation" THEN g ELSE IF x = "active" THEN f ELSE s[x]
  <1>1. DOMAIN s = Fields
    BY DEF IsRecord, RecordOf
  <1>2. Deactivated(s, g, c) = [x \in DOMAIN s |-> Field(x)]
    BY Zenon DEF Deactivated
  <1>3. RecordOf(s.to, s.destination, g, f, c) = [x \in Fields |-> Field(x)]
    <2> HIDE DEF f
    <2> QED BY DEF RecordOf
  <1> HIDE DEF Fields, Field
  <1> QED BY <1>1, <1>2, <1>3

(* The record that is left: deactivated, at the next generation, in place.  *)
LEMMA DeactivatedRecord ==
  ASSUME IInv, NEW id, Deactivate(id)
  PROVE  /\ id \in DOMAIN subscriptions /\ DOMAIN subscriptions' = DOMAIN subscriptions
         /\ \A other \in DOMAIN subscriptions \ {id} : subscriptions'[other] = subscriptions[other]
         /\ subscriptions'[id] = RecordOf(subscriptions[id].to, subscriptions[id].destination,
              NextGeneration(id), FALSE, Unretired(subscriptions[id].content))
  <1> DEFINE s == subscriptions[id]
             t == Deactivated(s, NextGeneration(id), Unretired(s.content))
  <1>1. id \in DOMAIN subscriptions
    BY DEF IInv, IdsTyped, Deactivate
  <1>2. subscriptions' = [subscriptions EXCEPT ![id] = t]
    <2>1. subscriptions' = [subscriptions EXCEPT ![id].active = FALSE,
                             ![id].generation = NextGeneration(id), ![id].content = Unretired(@)]
      BY Zenon DEF Deactivate
    <2> QED BY <2>1 DEF Deactivated
  <1>3. IsRecord(s)
    BY <1>1, Zenon DEF IInv, IdsTyped, RecordTyped, IsRecord, RecordOf
  <1>4. t = RecordOf(s.to, s.destination, NextGeneration(id), FALSE, Unretired(s.content))
    BY <1>3, DeactivatedFields
  <1> HIDE DEF t
  <1>5. /\ DOMAIN subscriptions' = DOMAIN subscriptions /\ subscriptions'[id] = t
        /\ \A other \in DOMAIN subscriptions \ {id} : subscriptions'[other] = subscriptions[other]
    BY <1>1, <1>2
  <1> QED BY <1>1, <1>4, <1>5

(* A deactivation keeps the invariant.                                      *)
LEMMA DeactivateKeeps ==
  ASSUME IInv, NEW id, Deactivate(id)
  PROVE  IInv' /\ Grown
  <1> DEFINE rec == RecordOf(subscriptions[id].to, subscriptions[id].destination,
                             NextGeneration(id), FALSE, Unretired(subscriptions[id].content))
             bitmaps == [key \in ReadKeys(id) |-> Repost(ReadKeys(id), {}, Offset(id), key)]
  <1>1. /\ lastId' = lastId /\ byDestination' = byDestination
        /\ deleting' = deleting \ {id} /\ id \in deleting
        /\ compiled' = Without(compiled, id) /\ WritePostings(bitmaps)
    BY DEF Deactivate
  <1>2. /\ id \in DOMAIN subscriptions /\ DOMAIN subscriptions' = DOMAIN subscriptions
        /\ subscriptions'[id] = rec
        /\ \A other \in DOMAIN subscriptions \ {id} : subscriptions'[other] = subscriptions[other]
    BY DeactivatedRecord
  <1>3. Grown
    BY <1>1 DEF Grown, IInv, IdsTyped
  <1>4. id \in 1 .. MaxId
    BY <1>2 DEF IInv, IdsTyped
  <1>5. /\ rec.to = subscriptions[id].to /\ rec.destination = subscriptions[id].destination
        /\ rec.generation = NextGeneration(id)
    BY DEF RecordOf
  <1>6. IdsTyped'
    <2>1. ASSUME NEW other \in DOMAIN subscriptions' PROVE RecordTyped(subscriptions[other])'
      <3> DEFINE t == subscriptions'[other]
      <3>1. CASE other = id
        <4>1. t = rec
          BY <1>2, <3>1
        <4>2. /\ rec = [to |-> rec.to, destination |-> rec.destination,
                        generation |-> rec.generation, active |-> rec.active, content |-> rec.content]
              /\ rec.active \in BOOLEAN
          BY Zenon DEF RecordOf
        <4>3. rec.destination \in 1 .. lastId.destination /\ rec.generation \in Nat
          <5> HIDE DEF rec
          <5>1. RecordTyped(subscriptions[id])
            BY <1>2 DEF IInv, IdsTyped
          <5>2. /\ subscriptions[id].destination \in 1 .. lastId.destination
                /\ subscriptions[id].generation \in Nat
            BY <5>1 DEF RecordTyped
          <5> QED BY <1>5, <5>2 DEF NextGeneration
        <4> HIDE DEF t, rec
        <4> QED BY <1>1, <4>1, <4>2, <4>3, Zenon DEF RecordTyped, t
      <3>2. CASE other # id
        <4>1. t = subscriptions[other] /\ other \in DOMAIN subscriptions
          BY <1>2, <3>2
        <4> HIDE DEF t
        <4>2. /\ t = [to |-> t.to, destination |-> t.destination, generation |-> t.generation,
                      active |-> t.active, content |-> t.content]
              /\ t.destination \in 1 .. lastId'.destination
              /\ t.generation \in Nat /\ t.active \in BOOLEAN
          BY <1>3, <4>1, TypedWhenGrown DEF IInv
        <4> QED BY <4>2, Zenon DEF RecordTyped, t
      <3> QED BY <3>1, <3>2
    <2>2. DOMAIN subscriptions' \subseteq 1 .. lastId'.subscription
      BY <1>1, <1>2 DEF IInv, IdsTyped
    <2>3. deleting' \subseteq DOMAIN subscriptions'
      BY <1>1, <1>2 DEF IInv, IdsTyped
    <2>4. /\ lastId' = [subscription |-> lastId'.subscription, destination |-> lastId'.destination]
          /\ lastId'.subscription \in 0 .. MaxId /\ lastId'.destination \in Nat
      BY <1>1 DEF IInv, IdsTyped
    <2> QED BY <2>1, <2>2, <2>3, <2>4 DEF IdsTyped
  <1> HIDE DEF rec
  <1>7. DestinationsOwned'
    <2>1. \A other \in DOMAIN subscriptions :
            /\ subscriptions'[other].to = subscriptions[other].to
            /\ subscriptions'[other].destination = subscriptions[other].destination
      BY <1>2, <1>5
    <2> QED BY <1>1, <1>2, <2>1 DEF IInv, DestinationsOwned
  <1>8. /\ DOMAIN compiled' = DOMAIN compiled \ {id}
        /\ \A other \in DOMAIN compiled \ {id} : compiled'[other] = compiled[other]
    BY <1>1 DEF Without
  <1>9. CompiledCurrent'
    <2>1. ~subscriptions'[id].active
      BY <1>2 DEF rec, RecordOf
    <2>2. ActiveIds' = ActiveIds \ {id}
      BY <1>2, <2>1 DEF ActiveIds
    <2>3. ASSUME NEW other \in DOMAIN compiled'
          PROVE  /\ compiled'[other] = Compile(other, subscriptions'[other].destination,
                        subscriptions'[other].generation, subscriptions'[other].content)
                 /\ IsSequence(subscriptions'[other].content.rules)
      <3>1. other \in DOMAIN compiled \ {id} /\ other \in DOMAIN subscriptions
        BY <1>8, <2>3 DEF IInv, CompiledCurrent, ActiveIds
      <3>2. compiled'[other] = compiled[other] /\ subscriptions'[other] = subscriptions[other]
        BY <1>2, <1>8, <3>1
      <3> QED BY <3>1, <3>2 DEF IInv, CompiledCurrent
    <2> QED BY <1>8, <2>2, <2>3 DEF IInv, CompiledCurrent
  <1>10. PostedExactly'
    <2>1. \A key : Posting(key)' = IF key \in ReadKeys(id) THEN Posting(key) \ {Offset(id)}
                                 ELSE Posting(key)
      <3> HIDE DEF bitmaps
      <3>1. \A key : Posting(key)' = IF key \in DOMAIN bitmaps THEN bitmaps[key] ELSE Posting(key)
        BY <1>1, WriteEffect
      <3> QED BY <3>1 DEF bitmaps, Repost
    <2>2. ASSUME NEW other \in 1 .. MaxId
          PROVE  ReadKeys(other)' = IF other = id THEN {} ELSE ReadKeys(other)
      BY <1>8 DEF ReadKeys
    <2>3. ASSUME NEW other \in 1 .. MaxId, NEW key,
                 key.category \notin Retired, key.block = Block(other)
          PROVE  Offset(other) \in Posting(key)' <=> key \in ReadKeys(other)'
      <3>1. Offset(other) \in Posting(key) <=> key \in ReadKeys(other)
        BY <2>3, PostedInBitmap DEF IInv
      <3>2. key \in ReadKeys(id) /\ other # id => Offset(other) # Offset(id)
        BY <1>4, <2>3, ReadKeysOfBlock, OffsetsTellIdsApart DEF IInv
      <3> QED BY <2>1, <2>2, <3>1, <3>2
    <2>4. ASSUME NEW other \in 1 .. MaxId, NEW key \in ReadKeys(other)'
          PROVE  key.category \notin Retired /\ key.block = Block(other)
      BY <2>2, <2>4, ReadKeysOfBlock DEF IInv
    <2> QED BY <2>3, <2>4 DEF PostedExactly, PostedKeys, Posting
  <1> QED BY <1>3, <1>6, <1>7, <1>9, <1>10 DEF IInv

-----------------------------------------------------------------------------
(* An import *)

(* What an import writes: fresh ids, one for each record, at destinations    *)
(* that had none.                                                           *)
FreshIds(batch) == lastId.subscription + 1 .. lastId.subscription + Len(batch)
Imported(batch, id) == batch[id - lastId.subscription]
NumericId(id) == lastId.destination + id - lastId.subscription
ImportedRecord(batch, id) ==
  RecordOf(Imported(batch, id).to, NumericId(id), 1, TRUE, Imported(batch, id).content)
ImportedCompiled(batch, id) == Compile(id, NumericId(id), 1, Imported(batch, id).content)
ImportedKeys(batch) == UNION {KeysOf(ImportedCompiled(batch, id)) : id \in FreshIds(batch)}

(* The ids of an import are fresh, and its destinations each their own.     *)
LEMMA ImportIsFresh ==
  ASSUME IInv, NEW batch \in Batches, Import(batch)
  PROVE  /\ Grown
         /\ FreshIds(batch) \subseteq 1 .. lastId'.subscription
         /\ FreshIds(batch) \subseteq 1 .. MaxId
         /\ FreshIds(batch) \cap DOMAIN subscriptions = {}
         /\ \A id \in FreshIds(batch) :
              /\ IsSequence(Imported(batch, id).content.rules)
              /\ Imported(batch, id).to \notin DOMAIN byDestination
              /\ NumericId(id) \in lastId.destination + 1 .. lastId'.destination
         /\ \A i, j \in FreshIds(batch) :
              /\ Imported(batch, i).to = Imported(batch, j).to => i = j
              /\ NumericId(i) = NumericId(j) => i = j
  <1> DEFINE L == lastId.subscription
             M == lastId.destination
             n == Len(batch)
  <1>1. n \in Nat /\ DOMAIN batch = 1 .. n
    BY ContentAssumption DEF IsSequence
  <1>2. /\ L \in 0 .. MaxId /\ M \in Nat /\ DOMAIN lastId = {"subscription", "destination"}
        /\ DOMAIN subscriptions \subseteq 1 .. L
    BY DEF IInv, IdsTyped
  <1>3. L + n <= MaxId /\ lastId' = [c \in DOMAIN lastId |-> lastId[c] + n]
    BY DEF Import
  <1>4. /\ lastId'.subscription = L + n /\ lastId'.destination = M + n
        /\ lastId' = [subscription |-> lastId'.subscription, destination |-> lastId'.destination]
    BY <1>2, <1>3
  <1>5. Grown
    BY <1>1, <1>2, <1>3, <1>4 DEF Grown
  <1>6. \A id \in FreshIds(batch) : id \in Int /\ id - L \in 1 .. n /\ id \in 1 .. L + n /\ id \notin 1 .. L
    BY <1>1, <1>2 DEF FreshIds
  <1>7. \A id \in FreshIds(batch) : NumericId(id) \in M + 1 .. lastId'.destination
    BY <1>1, <1>2, <1>4 DEF FreshIds, NumericId
  <1>8. /\ \A i \in DOMAIN batch : batch[i].to \notin DOMAIN byDestination
        /\ \A i \in DOMAIN batch : \A j \in 1 .. i - 1 : batch[j].to # batch[i].to
    BY DEF Import, Importable
  <1>9. \A i, j \in DOMAIN batch : batch[i].to = batch[j].to => i = j
    BY <1>1, <1>8
  <1>10. \A id \in FreshIds(batch) :
           /\ IsSequence(Imported(batch, id).content.rules)
           /\ Imported(batch, id).to \notin DOMAIN byDestination
    BY <1>1, <1>6, <1>8, ContentAssumption DEF Imported
  <1>11. \A i, j \in FreshIds(batch) : Imported(batch, i).to = Imported(batch, j).to => i = j
    <2> SUFFICES ASSUME NEW i \in FreshIds(batch), NEW j \in FreshIds(batch),
                        Imported(batch, i).to = Imported(batch, j).to
                 PROVE  i = j
      OBVIOUS
    <2>1. i - L \in DOMAIN batch /\ j - L \in DOMAIN batch /\ i \in Int /\ j \in Int
      BY <1>1, <1>6
    <2>2. i - L = j - L
      BY <1>9, <2>1 DEF Imported
    <2> QED BY <1>2, <2>1, <2>2
  <1>12. \A i, j \in FreshIds(batch) : NumericId(i) = NumericId(j) => i = j
    BY <1>2, <1>6 DEF NumericId
  <1> QED BY <1>2, <1>3, <1>4, <1>5, <1>6, <1>7, <1>10, <1>11, <1>12

(* What the keyspaces hold after an import.                                 *)
LEMMA ImportWrites ==
  ASSUME IInv, NEW batch \in Batches, Import(batch)
  PROVE  /\ DOMAIN subscriptions' = DOMAIN subscriptions \cup FreshIds(batch)
         /\ \A id \in DOMAIN subscriptions : subscriptions'[id] = subscriptions[id]
         /\ \A id \in FreshIds(batch) : subscriptions'[id] = ImportedRecord(batch, id)
         /\ DOMAIN compiled' = DOMAIN compiled \cup FreshIds(batch)
         /\ \A id \in DOMAIN compiled \ FreshIds(batch) : compiled'[id] = compiled[id]
         /\ \A id \in FreshIds(batch) : compiled'[id] = ImportedCompiled(batch, id)
         /\ DOMAIN byDestination'
              = DOMAIN byDestination \cup {Imported(batch, id).to : id \in FreshIds(batch)}
         /\ \A d \in DOMAIN byDestination : byDestination'[d] = byDestination[d]
         /\ \A id \in FreshIds(batch) : byDestination'[Imported(batch, id).to] = id
         /\ WritePostings([key \in ImportedKeys(batch) |->
              Posting(key) \cup {Offset(id) : id \in {i \in FreshIds(batch) :
                                   key \in KeysOf(ImportedCompiled(batch, i))}}])
  <1> DEFINE L == lastId.subscription
             n == Len(batch)
             ids == {lastId.subscription + i : i \in DOMAIN batch}
             At(id) == batch[id - lastId.subscription]
             new == [id \in ids |->
                      Compile(id, lastId.destination + id - lastId.subscription, 1, At(id).content)]
             Gained(key) == {Offset(id) : id \in {i \in ids : key \in KeysOf(new[i])}}
             records == [id \in ids |->
               [to |-> At(id).to, destination |-> new[id].destination, generation |-> 1,
                active |-> TRUE, content |-> At(id).content]]
             homes == [d \in {batch[i].to : i \in DOMAIN batch} |-> CHOOSE id \in ids : At(id).to = d]
             bitmaps == [key \in UNION {KeysOf(new[id]) : id \in ids} |->
                          Posting(key) \cup Gained(key)]
  <1>1. n \in Nat /\ DOMAIN batch = 1 .. n /\ L \in Nat
    BY ContentAssumption DEF IsSequence, IInv, IdsTyped
  <1>2. ids = FreshIds(batch)
    <2>1. \A id \in FreshIds(batch) : id - L \in DOMAIN batch /\ id = L + (id - L)
      BY <1>1 DEF FreshIds
    <2>2. \A i \in DOMAIN batch : L + i \in FreshIds(batch)
      BY <1>1 DEF FreshIds
    <2> QED BY <2>1, <2>2
  <1>3. /\ subscriptions' = Over(records, subscriptions)
        /\ byDestination' = Over(homes, byDestination)
        /\ compiled' = Over(new, compiled)
        /\ WritePostings(bitmaps)
    BY Zenon DEF Import
  <1>4. ASSUME NEW id \in ids
        PROVE  /\ At(id) = Imported(batch, id) /\ new[id] = ImportedCompiled(batch, id)
               /\ records[id] = ImportedRecord(batch, id)
    <2>1. At(id) = Imported(batch, id)
      BY DEF Imported
    <2>2. new[id] = ImportedCompiled(batch, id)
      BY Zenon DEF Imported, ImportedCompiled, NumericId
    <2>3. new[id].destination = NumericId(id)
      BY <2>2 DEF ImportedCompiled, Compile
    <2>4. records[id] = [to |-> At(id).to, destination |-> new[id].destination, generation |-> 1,
                         active |-> TRUE, content |-> At(id).content]
      BY Zenon
    <2> HIDE DEF records, At, new
    <2> QED BY <2>1, <2>2, <2>3, <2>4, Zenon DEF ImportedRecord, RecordOf
  <1>5. DOMAIN homes = {At(id).to : id \in ids}
    <2>1. \A i \in DOMAIN batch : L + i \in ids /\ At(L + i) = batch[i]
      BY <1>1
    <2>2. \A id \in ids : id - L \in DOMAIN batch /\ At(id) = batch[id - L]
      BY <1>1
    <2>3. \A d : (\E i \in DOMAIN batch : batch[i].to = d) <=> (\E id \in ids : At(id).to = d)
      <3> HIDE DEF ids, At
      <3> QED BY <2>1, <2>2
    <2> QED BY <2>3
  <1>6. \A id \in ids : homes[At(id).to] = id
    <2> SUFFICES ASSUME NEW id \in ids PROVE homes[At(id).to] = id
      OBVIOUS
    <2>1. homes[At(id).to] = CHOOSE other \in ids : At(other).to = At(id).to
      <3>1. At(id).to \in DOMAIN homes
        <4> HIDE DEF homes, ids, At
        <4> QED BY <1>5
      <3> QED BY <3>1, Zenon
    <2>2. \A other \in ids : At(other).to = At(id).to => other = id
      <3>1. \A i, j \in FreshIds(batch) : Imported(batch, i).to = Imported(batch, j).to => i = j
        BY ImportIsFresh
      <3>2. \A other \in ids : At(other) = Imported(batch, other)
        BY <1>4
      <3> HIDE DEF ids, At
      <3> QED BY <1>2, <3>1, <3>2
    <2> HIDE DEF homes, ids, At
    <2> QED BY <2>1, <2>2
  <1>7. DOMAIN records = ids /\ DOMAIN new = ids
    OBVIOUS
  <1>8. \A id \in ids : id \notin DOMAIN subscriptions /\ At(id).to \notin DOMAIN byDestination
    BY <1>2, <1>4, ImportIsFresh
  <1>9. WritePostings([key \in ImportedKeys(batch) |->
              Posting(key) \cup {Offset(id) : id \in {i \in FreshIds(batch) :
                                   key \in KeysOf(ImportedCompiled(batch, i))}}])
    <2>1. UNION {KeysOf(new[id]) : id \in ids} = ImportedKeys(batch)
      <3> HIDE DEF ids, new
      <3> QED BY <1>2, <1>4 DEF ImportedKeys
    <2>2. \A key : Gained(key) = {Offset(id) : id \in {i \in FreshIds(batch) :
                                   key \in KeysOf(ImportedCompiled(batch, i))}}
      <3> HIDE DEF ids, new
      <3> QED BY <1>2, <1>4
    <2> HIDE DEF ids, new, Gained
    <2> QED BY <1>3, <2>1, <2>2, Zenon
  <1> HIDE DEF records, homes, new, ids, At, bitmaps
  <1>10. /\ DOMAIN subscriptions' = DOMAIN subscriptions \cup ids
         /\ \A id \in DOMAIN subscriptions : subscriptions'[id] = subscriptions[id]
         /\ \A id \in ids : subscriptions'[id] = records[id]
    BY <1>3, <1>7, <1>8 DEF Over
  <1>11. /\ DOMAIN compiled' = DOMAIN compiled \cup ids
         /\ \A id \in DOMAIN compiled \ ids : compiled'[id] = compiled[id]
         /\ \A id \in ids : compiled'[id] = new[id]
    BY <1>3, <1>7 DEF Over
  <1>12. /\ DOMAIN byDestination' = DOMAIN byDestination \cup DOMAIN homes
         /\ \A d \in DOMAIN byDestination : byDestination'[d] = byDestination[d]
         /\ \A id \in ids : byDestination'[At(id).to] = id
    BY <1>3, <1>5, <1>6, <1>8 DEF Over
  <1>13. DOMAIN homes = {Imported(batch, id).to : id \in FreshIds(batch)}
    BY <1>2, <1>4, <1>5
  <1> QED BY <1>2, <1>4, <1>9, <1>10, <1>11, <1>12, <1>13

(* An import keeps the invariant.                                           *)
LEMMA ImportKeeps ==
  ASSUME IInv, NEW batch \in Batches, Import(batch)
  PROVE  IInv' /\ Grown
  <1> DEFINE ids == FreshIds(batch)
  <1>1. /\ Grown /\ ids \subseteq 1 .. lastId'.subscription /\ ids \subseteq 1 .. MaxId
        /\ ids \cap DOMAIN subscriptions = {}
        /\ \A id \in ids :
              /\ IsSequence(Imported(batch, id).content.rules)
              /\ Imported(batch, id).to \notin DOMAIN byDestination
              /\ NumericId(id) \in lastId.destination + 1 .. lastId'.destination
        /\ \A i, j \in ids :
              /\ Imported(batch, i).to = Imported(batch, j).to => i = j
              /\ NumericId(i) = NumericId(j) => i = j
    BY ImportIsFresh
  <1>2. /\ DOMAIN subscriptions' = DOMAIN subscriptions \cup ids
        /\ \A id \in DOMAIN subscriptions : subscriptions'[id] = subscriptions[id]
        /\ \A id \in ids : subscriptions'[id] = ImportedRecord(batch, id)
    BY ImportWrites
  <1>3. /\ DOMAIN compiled' = DOMAIN compiled \cup ids
        /\ \A id \in DOMAIN compiled \ ids : compiled'[id] = compiled[id]
        /\ \A id \in ids : compiled'[id] = ImportedCompiled(batch, id)
    BY ImportWrites
  <1>4. /\ DOMAIN byDestination' = DOMAIN byDestination \cup {Imported(batch, id).to : id \in ids}
        /\ \A d \in DOMAIN byDestination : byDestination'[d] = byDestination[d]
        /\ \A id \in ids : byDestination'[Imported(batch, id).to] = id
    BY ImportWrites
  <1>5. deleting' = deleting
    BY DEF Import
  <1>6. \A id \in ids : LET t == ImportedRecord(batch, id) IN
          /\ t.to = Imported(batch, id).to /\ t.destination = NumericId(id) /\ t.generation = 1
          /\ t.active = TRUE /\ t.content = Imported(batch, id).content
    BY DEF ImportedRecord, RecordOf
  <1>7. \A id \in DOMAIN subscriptions : id \notin ids
    BY <1>1
  <1> HIDE DEF ids
  <1>8. IdsTyped'
    <2>1. ASSUME NEW id \in DOMAIN subscriptions' PROVE RecordTyped(subscriptions[id])'
      <3> DEFINE t == subscriptions'[id]
      <3>1. /\ t = [to |-> t.to, destination |-> t.destination, generation |-> t.generation,
                    active |-> t.active, content |-> t.content]
            /\ t.destination \in 1 .. lastId'.destination
            /\ t.generation \in Nat /\ t.active \in BOOLEAN
        <4>1. CASE id \in ids
          <5>1. t = ImportedRecord(batch, id)
            BY <1>2, <4>1
          <5> DEFINE u == ImportedRecord(batch, id)
          <5>2. /\ u = [to |-> u.to, destination |-> u.destination, generation |-> u.generation,
                        active |-> u.active, content |-> u.content]
                /\ u.active \in BOOLEAN
            BY Zenon DEF ImportedRecord, RecordOf
          <5>3. u.destination \in 1 .. lastId'.destination /\ u.generation \in Nat
            BY <1>1, <1>6, <4>1 DEF IInv, IdsTyped, Grown
          <5> HIDE DEF t, u
          <5> QED BY <5>1, <5>2, <5>3, Zenon DEF u
        <4>2. CASE id \in DOMAIN subscriptions
          <5>1. t = subscriptions[id]
            BY <1>2, <4>2
          <5> HIDE DEF t
          <5> QED BY <1>1, <4>2, <5>1, TypedWhenGrown DEF IInv
        <4> QED BY <1>2, <4>1, <4>2
      <3> QED BY <3>1, Zenon DEF RecordTyped
    <2>2. DOMAIN subscriptions' \subseteq 1 .. lastId'.subscription
      BY <1>1, <1>2 DEF IInv, IdsTyped, Grown
    <2>3. deleting' \subseteq DOMAIN subscriptions'
      BY <1>2, <1>5 DEF IInv, IdsTyped
    <2>4. lastId'.subscription \in 0 .. MaxId
      BY <1>1 DEF IInv, IdsTyped, Grown
    <2> QED BY <1>1, <2>1, <2>2, <2>3, <2>4 DEF IdsTyped, Grown
  <1>9. DestinationsOwned'
    <2>1. \A id \in DOMAIN subscriptions :
            subscriptions[id].destination \in 1 .. lastId.destination /\ lastId.destination \in Nat
      BY DEF IInv, IdsTyped, RecordTyped
    <2>2. \A e \in DOMAIN byDestination' :
            /\ byDestination'[e] \in DOMAIN subscriptions'
            /\ subscriptions'[byDestination'[e]].to = e
      BY <1>1, <1>2, <1>4, <1>6 DEF IInv, DestinationsOwned
    <2>3. \A id \in DOMAIN subscriptions' :
            /\ subscriptions'[id].to \in DOMAIN byDestination'
            /\ byDestination'[subscriptions'[id].to] = id
      <3> SUFFICES ASSUME NEW id \in DOMAIN subscriptions'
                   PROVE  /\ subscriptions'[id].to \in DOMAIN byDestination'
                          /\ byDestination'[subscriptions'[id].to] = id
        OBVIOUS
      <3>1. CASE id \in ids
        <4>1. subscriptions'[id].to = Imported(batch, id).to
          BY <1>2, <1>6, <3>1
        <4> QED BY <1>4, <3>1, <4>1
      <3>2. CASE id \in DOMAIN subscriptions
        BY <1>2, <1>4, <3>2 DEF IInv, DestinationsOwned
      <3> QED BY <1>2, <3>1, <3>2
    <2>4. \A i, j \in DOMAIN subscriptions' :
            subscriptions'[i].destination = subscriptions'[j].destination => i = j
      <3> SUFFICES ASSUME NEW i \in DOMAIN subscriptions', NEW j \in DOMAIN subscriptions',
                          subscriptions'[i].destination = subscriptions'[j].destination
                   PROVE  i = j
        OBVIOUS
      <3>1. \A id \in ids : /\ subscriptions'[id].destination = NumericId(id)
                            /\ NumericId(id) \in Int /\ NumericId(id) > lastId.destination
        BY <1>1, <1>2, <1>6 DEF Grown, IInv, IdsTyped
      <3>2. \A id \in DOMAIN subscriptions :
              /\ subscriptions'[id].destination = subscriptions[id].destination
              /\ subscriptions[id].destination \in Int
              /\ subscriptions[id].destination <= lastId.destination
        BY <1>2, <2>1
      <3>3. CASE i \in ids /\ j \in ids
        <4>1. NumericId(i) = NumericId(j)
          BY <3>1, <3>3
        <4> QED BY <1>1, <3>3, <4>1
      <3>4. CASE i \in DOMAIN subscriptions /\ j \in DOMAIN subscriptions
        BY <3>2, <3>4 DEF IInv, DestinationsOwned
      <3>5. CASE \/ i \in ids /\ j \in DOMAIN subscriptions
                 \/ j \in ids /\ i \in DOMAIN subscriptions
        BY <2>1, <3>1, <3>2, <3>5
      <3> QED BY <1>2, <3>3, <3>4, <3>5
    <2> QED BY <2>2, <2>3, <2>4 DEF DestinationsOwned
  <1>10. CompiledCurrent'
    <2>1. ActiveIds' = ActiveIds \cup ids
      BY <1>2, <1>6, <1>7 DEF ActiveIds
    <2>2. ASSUME NEW id \in DOMAIN compiled'
          PROVE  /\ compiled'[id] = Compile(id, subscriptions'[id].destination,
                        subscriptions'[id].generation, subscriptions'[id].content)
                 /\ IsSequence(subscriptions'[id].content.rules)
      <3>1. CASE id \in ids
        <4>1. /\ subscriptions'[id].destination = NumericId(id)
              /\ subscriptions'[id].generation = 1
              /\ subscriptions'[id].content = Imported(batch, id).content
          BY <1>2, <1>6, <3>1
        <4>2. compiled'[id] = ImportedCompiled(batch, id)
          BY <1>3, <3>1
        <4>3. IsSequence(Imported(batch, id).content.rules)
          BY <1>1, <3>1
        <4> QED BY <4>1, <4>2, <4>3 DEF ImportedCompiled
      <3>2. CASE id \in DOMAIN compiled \ ids
        <4>1. id \in DOMAIN subscriptions
          BY <3>2 DEF IInv, CompiledCurrent, ActiveIds
        <4>2. compiled'[id] = compiled[id] /\ subscriptions'[id] = subscriptions[id]
          BY <1>2, <1>3, <3>2, <4>1
        <4> QED BY <3>2, <4>2 DEF IInv, CompiledCurrent
      <3> QED BY <1>3, <2>2, <3>1, <3>2
    <2> QED BY <1>3, <2>1, <2>2 DEF IInv, CompiledCurrent
  <1>11. PostedExactly'
    <2> DEFINE Gained(key) == {Offset(id) : id \in {i \in ids : key \in KeysOf(ImportedCompiled(batch, i))}}
               bitmaps == [key \in ImportedKeys(batch) |-> Posting(key) \cup Gained(key)]
    <2>1. \A id \in ids :
            /\ KeysOf(Unretired(ImportedCompiled(batch, id)))
                  = {key \in KeysOf(ImportedCompiled(batch, id)) : key.category \notin Retired}
            /\ \A key \in KeysOf(ImportedCompiled(batch, id)) : key.block = Block(id)
      BY <1>1, UnretiredKeys DEF ImportedCompiled
    <2>2. \A key : Posting(key)' = Posting(key) \cup Gained(key)
      <3>1. WritePostings(bitmaps)
        BY ImportWrites, Zenon DEF ids
      <3> HIDE DEF bitmaps
      <3>2. \A key : Posting(key)' = IF key \in DOMAIN bitmaps THEN bitmaps[key] ELSE Posting(key)
        BY <3>1, WriteEffect
      <3>3. \A key : key \notin ImportedKeys(batch) => Gained(key) = {}
        BY DEF ImportedKeys, ids
      <3> HIDE DEF Gained
      <3> QED BY <3>2, <3>3 DEF bitmaps
    <2>3. ASSUME NEW id \in 1 .. MaxId
          PROVE  ReadKeys(id)' = IF id \in ids THEN KeysOf(Unretired(ImportedCompiled(batch, id)))
                                 ELSE ReadKeys(id)
      BY <1>3 DEF ReadKeys
    <2>4. \A id \in ids : ReadKeys(id) = {}
      BY <1>7 DEF ReadKeys, IInv, CompiledCurrent, ActiveIds
    <2>5. ASSUME NEW id \in 1 .. MaxId, NEW key,
                 key.category \notin Retired, key.block = Block(id)
          PROVE  Offset(id) \in Posting(key)' <=> key \in ReadKeys(id)'
      <3>1. Offset(id) \in Posting(key) <=> key \in ReadKeys(id)
        BY <2>5, PostedInBitmap DEF IInv
      <3>2. \A other \in ids : Block(other) = Block(id) /\ Offset(other) = Offset(id) => other = id
        BY <1>1, OffsetsTellIdsApart
      <3>3. Offset(id) \in Gained(key) <=> id \in ids /\ key \in KeysOf(ImportedCompiled(batch, id))
        BY <2>1, <2>5, <3>2
      <3> HIDE DEF Gained
      <3> QED BY <2>1, <2>2, <2>3, <2>4, <2>5, <3>1, <3>3
    <2>6. ASSUME NEW id \in 1 .. MaxId, NEW key \in ReadKeys(id)'
          PROVE  key.category \notin Retired /\ key.block = Block(id)
      BY <2>1, <2>3, <2>6, ReadKeysOfBlock DEF IInv
    <2> QED BY <2>5, <2>6 DEF PostedExactly, PostedKeys, Posting
  <1> QED BY <1>1, <1>8, <1>9, <1>10, <1>11 DEF IInv

-----------------------------------------------------------------------------
(* The initial states *)

(* Whatever an older release left satisfies the invariant.                  *)
LEMMA InitEstablishes ==
  ASSUME Init
  PROVE  IInv
  <1>1. PICK legacy \in Legacies : \E order \in Orders(DOMAIN legacy) :
          LET ids == DOMAIN order
              Compiled(id) == Compile(id, id, 1, legacy[order[id]])
              keys == UNION {KeysOf(Compiled(id)) : id \in ids}
          IN
          /\ subscriptions = [id \in ids |-> [to |-> order[id], destination |-> id,
                                generation |-> 1, active |-> TRUE, content |-> legacy[order[id]]]]
          /\ byDestination = [d \in DOMAIN legacy |-> CHOOSE id \in ids : order[id] = d]
          /\ compiled = [id \in ids |-> Compiled(id)]
          /\ postings = [key \in keys |->
                           {Offset(id) : id \in {i \in ids : key \in KeysOf(Compiled(i))}}]
          /\ lastId = [subscription |-> Cardinality(ids), destination |-> Cardinality(ids)]
          /\ deleting = {}
    BY Zenon DEF Init
  <1>2. PICK order \in Orders(DOMAIN legacy) :
          LET ids == DOMAIN order
              Compiled(id) == Compile(id, id, 1, legacy[order[id]])
              keys == UNION {KeysOf(Compiled(id)) : id \in ids}
          IN
          /\ subscriptions = [id \in ids |-> [to |-> order[id], destination |-> id,
                                generation |-> 1, active |-> TRUE, content |-> legacy[order[id]]]]
          /\ byDestination = [d \in DOMAIN legacy |-> CHOOSE id \in ids : order[id] = d]
          /\ compiled = [id \in ids |-> Compiled(id)]
          /\ postings = [key \in keys |->
                           {Offset(id) : id \in {i \in ids : key \in KeysOf(Compiled(i))}}]
          /\ lastId = [subscription |-> Cardinality(ids), destination |-> Cardinality(ids)]
          /\ deleting = {}
    BY <1>1, Zenon
  <1> DEFINE ids == DOMAIN order
             n == Cardinality(DOMAIN legacy)
             Left(id) == legacy[order[id]]
             Compiled(id) == Compile(id, id, 1, Left(id))
             Record(id) == RecordOf(order[id], id, 1, TRUE, Left(id))
             Bitmap(key) == {Offset(id) : id \in {i \in ids : key \in KeysOf(Compiled(i))}}
  <1>3. n \in 0 .. MaxId /\ \A d \in DOMAIN legacy : IsSequence(legacy[d].rules)
    <2>1. /\ IsFiniteSet(DOMAIN legacy) /\ n <= MaxId
          /\ \A d \in DOMAIN legacy : IsSequence(legacy[d].rules)
      BY ContentAssumption
    <2> QED BY <2>1, FS_CardinalityType
  <1>4. /\ ids = 1 .. n /\ \A id \in ids : order[id] \in DOMAIN legacy
        /\ \A d \in DOMAIN legacy : \E id \in ids : order[id] = d
        /\ \A i, j \in ids : order[i] = order[j] => i = j
    BY DEF Orders
  <1>5. Cardinality(ids) = n
    BY <1>3, <1>4, FS_Interval
  <1>6. DOMAIN subscriptions = ids /\ \A id \in ids : subscriptions[id] = Record(id)
    <2>1. subscriptions = [id \in ids |-> Record(id)]
      BY <1>2, Zenon DEF RecordOf
    <2> HIDE DEF ids, Record
    <2> QED BY <2>1
  <1>7. DOMAIN compiled = ids /\ \A id \in ids : compiled[id] = Compiled(id)
    <2>1. compiled = [id \in ids |-> Compiled(id)]
      BY <1>2, Zenon
    <2> HIDE DEF ids, Compiled
    <2> QED BY <2>1
  <1>8. \A key : Posting(key) = Bitmap(key)
    <2>1. postings = [key \in UNION {KeysOf(Compiled(id)) : id \in ids} |-> Bitmap(key)]
      BY <1>2, Zenon
    <2>2. \A key : key \notin UNION {KeysOf(Compiled(id)) : id \in ids} => Bitmap(key) = {}
      <3> HIDE DEF ids, Compiled
      <3> QED OBVIOUS
    <2> HIDE DEF Bitmap, Compiled, ids
    <2> QED BY <2>1, <2>2 DEF Posting
  <1>9. byDestination = [d \in DOMAIN legacy |-> CHOOSE id \in ids : order[id] = d]
    BY <1>2, Zenon
  <1>10. \A d \in DOMAIN legacy : byDestination[d] \in ids /\ order[byDestination[d]] = d
    BY <1>4, <1>9
  <1>11. DOMAIN byDestination = DOMAIN legacy
    BY <1>9
  <1>12. /\ lastId = [subscription |-> n, destination |-> n] /\ deleting = {}
    BY <1>2, <1>5, Zenon
  <1>13. \A id : LET t == Record(id) IN
           /\ t.to = order[id] /\ t.destination = id /\ t.generation = 1
           /\ t.active = TRUE /\ t.content = Left(id)
    BY DEF RecordOf
  <1>14. \A id \in ids : IsSequence(Left(id).rules)
    BY <1>3, <1>4
  <1> HIDE DEF Left, Compiled, Bitmap, ids, n
  <1>15. IdsTyped
    <2>1. ASSUME NEW id \in DOMAIN subscriptions PROVE RecordTyped(subscriptions[id])
      <3> DEFINE u == Record(id)
      <3>1. u = [to |-> u.to, destination |-> u.destination, generation |-> u.generation,
                 active |-> u.active, content |-> u.content] /\ u.active \in BOOLEAN
        BY Zenon DEF RecordOf
      <3>2. u.destination = id /\ u.generation = 1
        BY <1>13
      <3>3. u = subscriptions[id]
        BY <1>6
      <3> HIDE DEF u
      <3>4. u.destination \in 1 .. lastId.destination /\ u.generation \in Nat
        BY <1>3, <1>4, <1>6, <1>12, <3>2
      <3> QED BY <3>1, <3>3, <3>4, Zenon DEF RecordTyped
    <2> QED BY <1>3, <1>4, <1>6, <1>12, <2>1 DEF IdsTyped
  <1> HIDE DEF Record
  <1>16. DestinationsOwned
    <2>1. \A id \in ids : subscriptions[id].to = order[id] /\ subscriptions[id].destination = id
      BY <1>6, <1>13
    <2>2. ASSUME NEW id \in ids PROVE order[id] \in DOMAIN legacy /\ byDestination[order[id]] = id
      <3> DEFINE d == order[id]
      <3>1. d \in DOMAIN legacy
        BY <1>4
      <3>2. byDestination[d] \in ids /\ order[byDestination[d]] = order[id]
        BY <1>10, <3>1
      <3>3. \A i, j \in ids : order[i] = order[j] => i = j
        BY <1>4
      <3> HIDE DEF d
      <3>4. byDestination[d] = id
        BY <3>2, <3>3
      <3> QED BY <3>1, <3>4 DEF d
    <2> QED BY <1>6, <1>10, <1>11, <2>1, <2>2 DEF DestinationsOwned
  <1>17. CompiledCurrent
    <2>1. ActiveIds = ids
      BY <1>6, <1>13 DEF ActiveIds
    <2> QED BY <1>6, <1>7, <1>13, <1>14, <2>1 DEF CompiledCurrent, Compiled
  <1>18. PostedExactly
    <2>1. \A id \in ids :
            /\ KeysOf(Unretired(Compiled(id))) = {key \in KeysOf(Compiled(id)) : key.category \notin Retired}
            /\ \A key \in KeysOf(Compiled(id)) : key.block = Block(id)
      BY <1>14, UnretiredKeys DEF Compiled
    <2>2. ASSUME NEW id \in 1 .. MaxId
          PROVE  ReadKeys(id) = IF id \in ids THEN KeysOf(Unretired(Compiled(id))) ELSE {}
      BY <1>7 DEF ReadKeys
    <2>3. ASSUME NEW id \in 1 .. MaxId, NEW key,
                 key.category \notin Retired, key.block = Block(id)
          PROVE  Offset(id) \in Posting(key) <=> key \in ReadKeys(id)
      <3>1. \A other \in ids : Block(other) = Block(id) /\ Offset(other) = Offset(id) => other = id
        BY <1>3, <1>4, OffsetsTellIdsApart
      <3>2. Offset(id) \in Posting(key) <=> id \in ids /\ key \in KeysOf(Compiled(id))
        BY <1>8, <2>1, <2>3, <3>1 DEF Bitmap
      <3> QED BY <2>1, <2>2, <2>3, <3>2
    <2>4. ASSUME NEW id \in 1 .. MaxId, NEW key \in ReadKeys(id)
          PROVE  key.category \notin Retired /\ key.block = Block(id)
      BY <2>1, <2>2, <2>4
    <2> QED BY <2>3, <2>4 DEF PostedExactly, PostedKeys, Posting
  <1> QED BY <1>15, <1>16, <1>17, <1>18 DEF IInv

-----------------------------------------------------------------------------
(* The theorems *)

(* Every step keeps the invariant, and the counters only grow.              *)
LEMMA NextKeeps ==
  ASSUME IInv, [Next]_vars
  PROVE  IInv' /\ Grown
  <1>1. ASSUME NEW d \in Destinations, NEW r \in Requests, StoreNew(d, r) \/ StoreAgain(d, r)
        PROVE  IInv' /\ Grown
    BY <1>1, StoreNewKeeps, StoreAgainKeeps
  <1>2. ASSUME NEW id \in deleting, Deactivate(id) PROVE IInv' /\ Grown
    BY <1>2, DeactivateKeeps
  <1>3. ASSUME NEW b \in Batches, Import(b) PROVE IInv' /\ Grown
    BY <1>3, ImportKeeps
  <1>4. ASSUME \/ \E d \in Destinations : StoreFails(d)
               \/ \E b \in Batches : ImportFails(b)
        PROVE  IInv' /\ Grown
    BY <1>4, BurntIdsKeep
  <1>5. ASSUME \/ \E d \in Destinations : ReadForDelete(d)
               \/ \E e \in Events : BeginMatch(e)
               \/ ScanPostings \/ LoadCompiled \/ MatchBlocks \/ UNCHANGED vars
        PROVE  IInv' /\ Grown
    BY <1>5, ReadingKeeps
  <1> QED BY <1>1, <1>2, <1>3, <1>4, <1>5 DEF Next

(* Every reachable state satisfies the invariant.                           *)
THEOREM InvariantHolds == Spec => []IInv
  <1>1. Init => IInv
    BY InitEstablishes
  <1>2. IInv /\ [Next]_vars => IInv'
    BY NextKeeps
  <1> QED BY <1>1, <1>2, PTL DEF Spec

(* The posting index is exact for every id: the one read-modify-write of a   *)
(* batch that stages several changes of one key loses none (WritePostings,   *)
(* commit_subscription_change).                                             *)
THEOREM IndexIsExact == Spec => []PostingsExact
  <1>1. IInv => PostingsExact
    <2> SUFFICES ASSUME IInv PROVE PostingsExact
      OBVIOUS
    <2>1. DOMAIN subscriptions \subseteq 1 .. MaxId
      BY DEF IInv, IdsTyped
    <2> QED BY <2>1 DEF IInv, PostedExactly, PostedKeys, PostingsExact
  <1> QED BY <1>1, InvariantHolds, PTL

(* The four keyspaces tell one story after any sequence of stores, failures, *)
(* deletions and imports.                                                   *)
THEOREM StoreIsConsistent == Spec => []StoreConsistent
  <1>1. IInv => StoreConsistent
    <2> SUFFICES ASSUME IInv PROVE StoreConsistent
      OBVIOUS
    <2>1. DOMAIN compiled = ActiveIds
      BY DEF IInv, CompiledCurrent
    <2>2. ASSUME NEW d \in DOMAIN byDestination
          PROVE  ActiveAt(d) = {id \in DOMAIN compiled : byDestination[d] = id}
      BY <2>1 DEF ActiveAt, ActiveIds, IInv, DestinationsOwned
    <2>3. \A id \in ActiveIds :
            compiled[id] = Compile(id, subscriptions[id].destination,
                             subscriptions[id].generation, subscriptions[id].content)
      BY DEF IInv, CompiledCurrent
    <2>4. \A id \in DOMAIN subscriptions :
            /\ subscriptions[id].to \in DOMAIN byDestination
            /\ byDestination[subscriptions[id].to] = id
            /\ \A other \in DOMAIN subscriptions :
                 subscriptions[other].destination = subscriptions[id].destination => other = id
      BY DEF IInv, DestinationsOwned
    <2> QED BY <2>1, <2>2, <2>3, <2>4 DEF StoreConsistent
  <1> QED BY <1>1, InvariantHolds, PTL

(* What a step does to the records.                                         *)
RecordsAreRaised ==
  /\ \A id \in DOMAIN subscriptions :
       /\ id \in DOMAIN subscriptions'
       /\ \/ subscriptions'[id] = subscriptions[id]
          \/ /\ subscriptions'[id].generation > subscriptions[id].generation
             /\ subscriptions'[id].to = subscriptions[id].to
             /\ subscriptions'[id].destination = subscriptions[id].destination
  /\ \A id \in DOMAIN subscriptions' \ DOMAIN subscriptions :
       /\ id > lastId.subscription
       /\ subscriptions'[id].destination > lastId.destination

(* A store raises the one record it writes, or adds one at fresh ids.       *)
LEMMA StoreRaises ==
  ASSUME IInv, NEW id, NEW destination, NEW generation, NEW d, NEW content,
         Store(id, destination, generation, d, content),
         id \in DOMAIN subscriptions =>
           /\ generation > subscriptions[id].generation /\ d = subscriptions[id].to
           /\ destination = subscriptions[id].destination,
         id \notin DOMAIN subscriptions => id > lastId.subscription /\ destination > lastId.destination
  PROVE  RecordsAreRaised
  <1> DEFINE rec == RecordOf(d, destination, generation, TRUE, content)
  <1>1. subscriptions' = With(subscriptions, id, rec)
    BY Zenon DEF Store, RecordOf
  <1>2. rec.to = d /\ rec.destination = destination /\ rec.generation = generation
    BY DEF RecordOf
  <1> HIDE DEF rec
  <1>3. /\ DOMAIN subscriptions' = DOMAIN subscriptions \cup {id} /\ subscriptions'[id] = rec
        /\ \A other \in DOMAIN subscriptions \ {id} : subscriptions'[other] = subscriptions[other]
    BY <1>1 DEF With
  <1> QED BY <1>2, <1>3 DEF RecordsAreRaised

(* An id and a generation name one content for ever.                        *)
THEOREM GenerationsNameContent == Spec => GenerationNamesContent
  <1>1. ASSUME IInv, [Next]_vars PROVE RecordsAreRaised \/ UNCHANGED vars
    <2>1. ASSUME NEW d \in Destinations, NEW r \in Requests, StoreNew(d, r) PROVE RecordsAreRaised
      <3> DEFINE id == lastId.subscription + 1
                 n == lastId.destination + 1
      <3>1. /\ id > lastId.subscription /\ n > lastId.destination /\ id \notin DOMAIN subscriptions
        BY <1>1 DEF IInv, IdsTyped
      <3>2. Store(id, n, 1, d, r)
        BY <2>1 DEF StoreNew
      <3> HIDE DEF id, n
      <3> QED BY <1>1, <3>1, <3>2, StoreRaises
    <2>2. ASSUME NEW d \in Destinations, NEW r \in Requests, StoreAgain(d, r) PROVE RecordsAreRaised
      <3> DEFINE id == byDestination[d]
                 n == subscriptions[id].destination
                 g == NextGeneration(id)
      <3>1. /\ id \in DOMAIN subscriptions /\ d = subscriptions[id].to /\ Store(id, n, g, d, r)
        BY <1>1, <2>2 DEF IInv, DestinationsOwned, StoreAgain
      <3>2. g > subscriptions[id].generation
        BY <1>1, <3>1 DEF IInv, IdsTyped, RecordTyped, NextGeneration
      <3>3. n = subscriptions[id].destination
        OBVIOUS
      <3> HIDE DEF id, n, g
      <3> QED BY <1>1, <3>1, <3>2, <3>3, StoreRaises
    <2>3. ASSUME NEW id \in deleting, Deactivate(id) PROVE RecordsAreRaised
      <3> DEFINE rec == RecordOf(subscriptions[id].to, subscriptions[id].destination,
                                 NextGeneration(id), FALSE, Unretired(subscriptions[id].content))
      <3>1. /\ id \in DOMAIN subscriptions /\ DOMAIN subscriptions' = DOMAIN subscriptions
            /\ \A other \in DOMAIN subscriptions \ {id} : subscriptions'[other] = subscriptions[other]
            /\ subscriptions'[id] = rec
        BY <1>1, <2>3, DeactivatedRecord
      <3>2. /\ rec.to = subscriptions[id].to /\ rec.destination = subscriptions[id].destination
            /\ rec.generation = NextGeneration(id)
        BY DEF RecordOf
      <3> HIDE DEF rec
      <3>3. NextGeneration(id) > subscriptions[id].generation
        BY <1>1, <3>1 DEF IInv, IdsTyped, RecordTyped, NextGeneration
      <3> QED BY <3>1, <3>2, <3>3 DEF RecordsAreRaised
    <2>4. ASSUME NEW b \in Batches, Import(b) PROVE RecordsAreRaised
      <3>1. \A id \in FreshIds(b) :
              /\ id > lastId.subscription /\ NumericId(id) > lastId.destination
              /\ subscriptions'[id].destination = NumericId(id)
        <4>1. \A id \in FreshIds(b) : id > lastId.subscription
          BY <1>1 DEF FreshIds, IInv, IdsTyped
        <4>2. \A id \in FreshIds(b) : NumericId(id) > lastId.destination
          BY <1>1, <2>4, ImportIsFresh DEF IInv, IdsTyped
        <4>3. \A id \in FreshIds(b) : subscriptions'[id] = ImportedRecord(b, id)
          BY <1>1, <2>4, ImportWrites
        <4>4. \A id \in FreshIds(b) : ImportedRecord(b, id).destination = NumericId(id)
          BY DEF ImportedRecord, RecordOf
        <4> QED BY <4>1, <4>2, <4>3, <4>4
      <3>2. /\ DOMAIN subscriptions' = DOMAIN subscriptions \cup FreshIds(b)
            /\ \A id \in DOMAIN subscriptions : subscriptions'[id] = subscriptions[id]
        BY <1>1, <2>4, ImportWrites
      <3> QED BY <3>1, <3>2 DEF RecordsAreRaised
    <2>5. ASSUME subscriptions' = subscriptions PROVE RecordsAreRaised
      BY <2>5 DEF RecordsAreRaised
    <2>6. ASSUME \/ \E d \in Destinations : StoreFails(d) \/ ReadForDelete(d)
                 \/ \E b \in Batches : ImportFails(b)
                 \/ \E e \in Events : BeginMatch(e)
                 \/ ScanPostings \/ LoadCompiled \/ MatchBlocks
          PROVE  subscriptions' = subscriptions
      BY <2>6 DEF StoreFails, ReadForDelete, ImportFails, BeginMatch, ScanPostings, LoadCompiled,
                  MatchBlocks, store
    <2> QED BY <1>1, <2>1, <2>2, <2>3, <2>4, <2>5, <2>6 DEF Next
  <1>2. IInv /\ [Next]_vars => [RecordsAreRaised]_vars
    BY <1>1
  <1>3. [][RecordsAreRaised]_vars => GenerationNamesContent
    BY DEF GenerationNamesContent, RecordsAreRaised
  <1> QED BY <1>2, <1>3, InvariantHolds, PTL DEF Spec
=============================================================================
