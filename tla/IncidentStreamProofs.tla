------------------------- MODULE IncidentStreamProofs -------------------------
(***************************************************************************)
(* Proofs about IncidentStream: what a watermark lets pass, for any reports *)
(* with natural numbers and levels and any bound on the updates it keeps.   *)
(***************************************************************************)
EXTENDS IncidentStream, FiniteSetTheorems, TLAPS

USE UpdatesAssumption, ReportsAssumption

-----------------------------------------------------------------------------
(* The inductive invariant *)

(* The watermark sums up the reports that were applied.                    *)
MarkExact ==
  /\ \A i \in DOMAIN log : log[i].num <= mark.num
  /\ mark.cancel <=> \E i \in DOMAIN log : log[i].cancel
  /\ mark.final <=> \E i \in DOMAIN log : log[i].final
  /\ log[Len(log)].num = mark.num => log[Len(log)].level = mark.level

(* The first final report came after the i-th report applied.              *)
FinalSince(i) ==
  \E k \in DOMAIN log : i < k /\ log[k].final /\ \A h \in 1 .. k - 1 : ~log[h].final

(* Why a report of the current number is not applied again: it is in the    *)
(* list, or there was a transition since, which emptied the list.          *)
Remembered(i) ==
  \/ log[i] \in mark.seen
  \/ log[i].level < mark.level
  \/ FinalSince(i)
  \/ mark.cancel /\ ~log[i].cancel

SeenExact ==
  /\ IsFiniteSet(mark.seen)
  /\ \A x \in mark.seen : x.num = mark.num => x.level = mark.level
  /\ \A i \in DOMAIN log : log[i].num = mark.num => Remembered(i)

IInv ==
  /\ TypeOK /\ log # <<>> /\ MarkExact /\ SeenExact
  /\ TerminalHolds /\ LateOnlyWhenTerminal /\ LevelRises /\ RepeatedOnlyByFinal

-----------------------------------------------------------------------------
(* What a typed watermark and its log are made of.                         *)
LEMMA Typed ==
  ASSUME TypeOK
  PROVE  /\ mark.num \in Nat /\ mark.level \in Nat
         /\ mark.final \in BOOLEAN /\ mark.cancel \in BOOLEAN
         /\ DOMAIN log = 1 .. Len(log) /\ Len(log) \in Nat
         /\ \A i \in DOMAIN log :
              /\ log[i] \in Reports
              /\ log[i].num \in Nat /\ log[i].level \in Nat
              /\ log[i].final \in BOOLEAN /\ log[i].cancel \in BOOLEAN
  BY DEF TypeOK

(* A report that is applied takes nothing back; an older one is a terminal  *)
(* one, and one of the same number a transition, or new to a list that has  *)
(* room.                                                                    *)
LEMMA AppliedMeans ==
  ASSUME TypeOK, NEW r \in Reports, Outcome(mark, r) = "applied"
  PROVE  /\ ~IsRegression(mark, r)
         /\ r.num < mark.num => IsTerminal(mark, r)
         /\ r.num = mark.num =>
              \/ IsSafetyTransition(mark, r)
              \/ r.level = mark.level /\ r \notin mark.seen /\ HasRoom(mark.seen)
  <1>1. mark.num \in Nat /\ mark.level \in Nat /\ r.num \in Nat /\ r.level \in Nat
    BY Typed
  <1>2. ~IsRegression(mark, r)
    BY DEF Outcome
  <1>3. CASE r.num > mark.num
    BY <1>1, <1>2, <1>3
  <1>4. CASE r.num < mark.num
    <2>1. OutcomeOfOlder(mark, r) = "applied"
      BY <1>1, <1>2, <1>4 DEF Outcome
    <2>2. IsTerminal(mark, r)
      BY <2>1 DEF OutcomeOfOlder
    <2> QED BY <1>1, <1>2, <1>4, <2>2
  <1>5. CASE r.num = mark.num
    <2>1. OutcomeOfSame(mark, r) = "applied"
      BY <1>1, <1>2, <1>5 DEF Outcome
    <2>2. \/ IsSafetyTransition(mark, r)
          \/ ~(r.level < mark.level) /\ r \notin mark.seen /\ HasRoom(mark.seen)
      BY <2>1 DEF OutcomeOfSame
    <2>3. ~IsSafetyTransition(mark, r) => ~(r.level > mark.level)
      BY DEF IsSafetyTransition
    <2> QED BY <1>1, <1>2, <1>5, <2>2, <2>3
  <1> QED BY <1>1, <1>3, <1>4, <1>5

(* The step of a report that is applied, field by field.                    *)
LEMMA ApplyStep ==
  ASSUME TypeOK, NEW r \in Reports, ApplyReport(r)
  PROVE  /\ mark'.num = LatestNumber(mark, r)
         /\ mark'.level = IF r.num >= mark.num THEN r.level ELSE mark.level
         /\ mark'.final = (mark.final \/ r.final)
         /\ mark'.cancel = (mark.cancel \/ r.cancel)
         /\ mark'.seen = IF HasRoom(UpdatesKept(mark, r))
                         THEN UpdatesKept(mark, r) \cup {r} ELSE UpdatesKept(mark, r)
         /\ DOMAIN log' = 1 .. Len(log) + 1 /\ Len(log') = Len(log) + 1
         /\ \A i \in 1 .. Len(log) : log'[i] = log[i]
         /\ log'[Len(log) + 1] = r
  <1>1. mark' = Committed(mark, r) /\ log' = Append(log, r) /\ log \in Seq(Reports)
    BY DEF ApplyReport, TypeOK
  <1>2. /\ DOMAIN log' = 1 .. Len(log) + 1 /\ Len(log') = Len(log) + 1
        /\ \A i \in 1 .. Len(log) : log'[i] = log[i]
        /\ log'[Len(log) + 1] = r
    BY <1>1
  <1>3. /\ mark'.num = LatestNumber(mark, r)
        /\ mark'.level = IF r.num >= mark.num THEN r.level ELSE mark.level
        /\ mark'.final = (mark.final \/ r.final)
        /\ mark'.cancel = (mark.cancel \/ r.cancel)
        /\ mark'.seen = IF HasRoom(UpdatesKept(mark, r))
                        THEN UpdatesKept(mark, r) \cup {r} ELSE UpdatesKept(mark, r)
    BY <1>1 DEF Committed, StaysCancelled
  <1> QED BY <1>2, <1>3

-----------------------------------------------------------------------------
(* The initial states.                                                     *)
LEMMA SingletonSeen ==
  ASSUME NEW r
  PROVE  IsFiniteSet({r}) /\ Cardinality({r}) = 1
  <1>1. IsFiniteSet({}) /\ Cardinality({}) = 0
    BY FS_EmptySet
  <1>2. IsFiniteSet({} \cup {r}) /\ Cardinality({} \cup {r}) = 0 + 1
    BY <1>1, FS_AddElement
  <1> QED BY <1>2

(* The first report opens a watermark that says what it says.              *)
LEMMA InitInvariant == Init => IInv
  <1> SUFFICES ASSUME NEW r \in Reports, mark = FirstMark(r), log = <<r>>
               PROVE  IInv
    BY DEF Init
  <1>1. /\ mark.num = r.num /\ mark.level = r.level /\ mark.final = r.final
        /\ mark.cancel = r.cancel /\ mark.seen = {r}
    BY DEF FirstMark
  <1>2. DOMAIN log = {1} /\ Len(log) = 1 /\ log[1] = r /\ log \in Seq(Reports) /\ log # <<>>
    OBVIOUS
  <1>3. IsFiniteSet({r}) /\ Cardinality({r}) = 1
    BY SingletonSeen
  <1>4. TypeOK
    BY <1>1, <1>2, <1>3 DEF TypeOK
  <1>5. MarkExact
    BY <1>1, <1>2 DEF MarkExact
  <1>6. SeenExact
    BY <1>1, <1>2, <1>3 DEF SeenExact, Remembered
  <1>7. TerminalHolds /\ RepeatedOnlyByFinal
    BY <1>2 DEF TerminalHolds, RepeatedOnlyByFinal
  <1>8. LateOnlyWhenTerminal
    BY <1>2 DEF LateOnlyWhenTerminal, Earlier
  <1>9. LevelRises
    BY <1>2 DEF LevelRises
  <1> QED BY <1>2, <1>4, <1>5, <1>6, <1>7, <1>8, <1>9 DEF IInv

-----------------------------------------------------------------------------
(* A report that is applied keeps each part.                                *)

(* What is kept of the updates is part of what was, or nothing.             *)
LEMMA KeptMeans ==
  ASSUME SeenExact, TypeOK, NEW r \in Reports
  PROVE  LET kept == UpdatesKept(mark, r) IN
         /\ kept \subseteq mark.seen /\ kept \subseteq Reports
         /\ IsFiniteSet(kept) /\ Cardinality(kept) \in Nat /\ Cardinality(kept) <= MaxUpdates
         /\ kept = {} => HasRoom(kept)
  <1>1. mark.seen \subseteq Reports /\ IsFiniteSet(mark.seen) /\ Cardinality(mark.seen) <= MaxUpdates
    BY DEF SeenExact, TypeOK
  <1>2. Cardinality(mark.seen) \in Nat
    BY <1>1, FS_CardinalityType
  <1>3. IsFiniteSet({}) /\ Cardinality({}) = 0
    BY FS_EmptySet
  <1>4. UpdatesKept(mark, r) \in {{}, mark.seen}
    BY DEF UpdatesKept
  <1> QED BY <1>1, <1>2, <1>3, <1>4 DEF HasRoom

(* The list of updates stays within its bound.                             *)
LEMMA TypeStep ==
  ASSUME IInv, NEW r \in Reports, ApplyReport(r)
  PROVE  TypeOK' /\ IsFiniteSet(mark'.seen) /\ log' # <<>>
  <1> USE DEF IInv
  <1> DEFINE kept == UpdatesKept(mark, r)
  <1>1. /\ kept \subseteq Reports /\ IsFiniteSet(kept) /\ Cardinality(kept) \in Nat
        /\ Cardinality(kept) <= MaxUpdates
    BY KeptMeans
  <1>2. /\ IsFiniteSet(kept \cup {r})
        /\ Cardinality(kept \cup {r}) = IF r \in kept THEN Cardinality(kept) ELSE Cardinality(kept) + 1
    BY <1>1, FS_AddElement
  <1>3. mark'.seen = IF HasRoom(kept) THEN kept \cup {r} ELSE kept
    BY ApplyStep
  <1>4. mark'.seen \in SUBSET Reports /\ Cardinality(mark'.seen) <= MaxUpdates /\ IsFiniteSet(mark'.seen)
    <2> HIDE DEF kept
    <2> QED BY <1>1, <1>2, <1>3 DEF HasRoom
  <1>5. log' \in Seq(Reports) /\ log' # <<>>
    BY DEF ApplyReport, TypeOK
  <1>6. /\ mark'.num \in {q.num : q \in Reports} /\ mark'.level \in {q.level : q \in Reports}
    BY ApplyStep DEF TypeOK, LatestNumber
  <1>7. mark'.final \in BOOLEAN /\ mark'.cancel \in BOOLEAN
    BY ApplyStep, Typed
  <1> QED BY <1>4, <1>5, <1>6, <1>7 DEF TypeOK

(* The watermark takes the report into its sum.                            *)
LEMMA MarkStep ==
  ASSUME IInv, NEW r \in Reports, ApplyReport(r)
  PROVE  MarkExact'
  <1> USE DEF IInv
  <1> DEFINE n == Len(log)
  <1>1. /\ n \in Nat /\ DOMAIN log = 1 .. n
        /\ \A i \in 1 .. n : log[i].num \in Nat /\ log[i].num <= mark.num
        /\ mark.num \in Nat /\ r.num \in Nat /\ r.level \in Nat
    BY Typed DEF MarkExact
  <1>2. /\ DOMAIN log' = 1 .. n + 1 /\ Len(log') = n + 1 /\ log'[n + 1] = r
        /\ \A i \in 1 .. n : log'[i] = log[i]
    BY ApplyStep
  <1> HIDE DEF n
  <1>3. mark'.num = (IF r.num >= mark.num THEN r.num ELSE mark.num)
    BY ApplyStep DEF LatestNumber
  <1>4. \A i \in DOMAIN log' : log'[i].num <= mark'.num
    BY <1>1, <1>2, <1>3
  <1>5. mark'.cancel <=> \E i \in DOMAIN log' : log'[i].cancel
    <2>1. mark'.cancel <=> mark.cancel \/ r.cancel
      BY ApplyStep
    <2>2. mark.cancel <=> \E i \in 1 .. n : log[i].cancel
      BY <1>1 DEF MarkExact
    <2>3. ASSUME NEW i \in 1 .. n, log[i].cancel PROVE \E j \in 1 .. n + 1 : log'[j].cancel
      <3>1. i \in 1 .. n + 1
        BY <1>1
      <3> QED BY <1>2, <2>3, <3>1
    <2>4. r.cancel => \E j \in 1 .. n + 1 : log'[j].cancel
      <3>1. n + 1 \in 1 .. n + 1
        BY <1>1
      <3> QED BY <1>2, <3>1
    <2>5. ASSUME NEW j \in 1 .. n + 1, log'[j].cancel PROVE r.cancel \/ \E i \in 1 .. n : log[i].cancel
      <3>1. j = n + 1 \/ j \in 1 .. n
        BY <1>1
      <3> QED BY <1>2, <2>5, <3>1
    <2> QED BY <1>2, <2>1, <2>2, <2>3, <2>4, <2>5
  <1>6. mark'.final <=> \E i \in DOMAIN log' : log'[i].final
    <2>1. mark'.final <=> mark.final \/ r.final
      BY ApplyStep
    <2>2. mark.final <=> \E i \in 1 .. n : log[i].final
      BY <1>1 DEF MarkExact
    <2>3. ASSUME NEW i \in 1 .. n, log[i].final PROVE \E j \in 1 .. n + 1 : log'[j].final
      <3>1. i \in 1 .. n + 1
        BY <1>1
      <3> QED BY <1>2, <2>3, <3>1
    <2>4. r.final => \E j \in 1 .. n + 1 : log'[j].final
      <3>1. n + 1 \in 1 .. n + 1
        BY <1>1
      <3> QED BY <1>2, <3>1
    <2>5. ASSUME NEW j \in 1 .. n + 1, log'[j].final PROVE r.final \/ \E i \in 1 .. n : log[i].final
      <3>1. j = n + 1 \/ j \in 1 .. n
        BY <1>1
      <3> QED BY <1>2, <2>5, <3>1
    <2> QED BY <1>2, <2>1, <2>2, <2>3, <2>4, <2>5
  <1>7. log'[Len(log')].num = mark'.num => log'[Len(log')].level = mark'.level
    <2>1. log'[Len(log')] = r
      BY <1>2
    <2>2. mark'.level = IF r.num >= mark.num THEN r.level ELSE mark.level
      BY ApplyStep
    <2> QED BY <1>1, <1>3, <2>1, <2>2
  <1> QED BY <1>4, <1>5, <1>6, <1>7 DEF MarkExact

(* What would take a terminal report back is a regression.                 *)
LEMMA TerminalStep ==
  ASSUME IInv, NEW r \in Reports, ApplyReport(r)
  PROVE  TerminalHolds'
  <1> USE DEF IInv
  <1> DEFINE n == Len(log)
  <1>1. n \in Nat /\ DOMAIN log = 1 .. n
    BY Typed
  <1>2. DOMAIN log' = 1 .. n + 1 /\ log'[n + 1] = r /\ \A i \in 1 .. n : log'[i] = log[i]
    BY ApplyStep
  <1>3. ~IsRegression(mark, r)
    BY AppliedMeans DEF ApplyReport
  <1>4. \A i \in 1 .. n : (log[i].cancel => mark.cancel) /\ (log[i].final => mark.final)
    BY <1>1 DEF MarkExact
  <1>5. \A i \in 1 .. n : /\ log[i].cancel => r.cancel
                          /\ log[i].final => r.final \/ r.cancel
    BY <1>3, <1>4 DEF IsRegression
  <1> SUFFICES ASSUME NEW i \in 1 .. n + 1, NEW j \in 1 .. n + 1, i < j
               PROVE  /\ log'[i].cancel => log'[j].cancel
                      /\ log'[i].final => log'[j].final \/ log'[j].cancel
    BY <1>2 DEF TerminalHolds
  <1> HIDE DEF n
  <1>6. CASE j = n + 1
    <2>1. i \in 1 .. n
      BY <1>1, <1>6
    <2>2. log'[i] = log[i] /\ log'[j] = r
      BY <1>2, <1>6, <2>1
    <2>3. (log[i].cancel => r.cancel) /\ (log[i].final => r.final \/ r.cancel)
      BY ONLY <1>5, <2>1, Zenon
    <2> QED BY ONLY <2>2, <2>3, Zenon
  <1>7. CASE j \in 1 .. n
    BY <1>1, <1>2, <1>7 DEF TerminalHolds
  <1> QED BY <1>1, <1>6, <1>7

(* An older report is applied as a terminal one only.                      *)
LEMMA LateStep ==
  ASSUME IInv, NEW r \in Reports, ApplyReport(r)
  PROVE  LateOnlyWhenTerminal'
  <1> USE DEF IInv
  <1> DEFINE n == Len(log)
  <1>1. n \in Nat /\ DOMAIN log = 1 .. n
    BY Typed
  <1>2. DOMAIN log' = 1 .. n + 1 /\ log'[n + 1] = r /\ \A i \in 1 .. n : log'[i] = log[i]
    BY ApplyStep
  <1>3. \A i \in 1 .. n : log[i].num \in Nat /\ log[i].num <= mark.num
    BY <1>1, Typed DEF MarkExact
  <1>4. r.num < mark.num => IsTerminal(mark, r)
    BY AppliedMeans DEF ApplyReport
  <1>5. \A i \in 1 .. n : (log[i].cancel => mark.cancel) /\ (log[i].final => mark.final)
    BY <1>1 DEF MarkExact
  <1>6. mark.num \in Nat /\ r.num \in Nat
    BY Typed
  <1> HIDE DEF n
  <1>7. (\E k \in 1 .. n : r.num < log[k].num) =>
          \/ r.cancel /\ \A k \in 1 .. n : ~log[k].cancel
          \/ r.final /\ \A k \in 1 .. n : ~log[k].final
    BY <1>3, <1>4, <1>5, <1>6 DEF IsTerminal
  <1> SUFFICES ASSUME NEW j \in 1 .. n + 1, \E k \in 1 .. j - 1 : log'[j].num < log'[k].num
               PROVE  \/ log'[j].cancel /\ \A k \in 1 .. j - 1 : ~log'[k].cancel
                      \/ log'[j].final /\ \A k \in 1 .. j - 1 : ~log'[k].final
    BY <1>2 DEF LateOnlyWhenTerminal, Earlier
  <1>8. CASE j = n + 1
    BY <1>1, <1>2, <1>7, <1>8
  <1>9. CASE j \in 1 .. n
    <2>1. (\E k \in 1 .. j - 1 : log[j].num < log[k].num) =>
            \/ log[j].cancel /\ \A k \in 1 .. j - 1 : ~log[k].cancel
            \/ log[j].final /\ \A k \in 1 .. j - 1 : ~log[k].final
      BY <1>1, <1>9 DEF LateOnlyWhenTerminal, Earlier
    <2>2. \A k \in 1 .. j - 1 : k \in 1 .. n /\ log'[k] = log[k]
      BY <1>1, <1>2, <1>9
    <2> QED BY <1>2, <1>9, <2>1, <2>2
  <1> QED BY <1>1, <1>8, <1>9

(* The last report of the current number has the watermark's level.        *)
LEMMA LevelStep ==
  ASSUME IInv, NEW r \in Reports, ApplyReport(r)
  PROVE  LevelRises'
  <1> USE DEF IInv
  <1> DEFINE n == Len(log)
             last == log[n]
  <1>1. n \in Nat \ {0} /\ DOMAIN log = 1 .. n
    BY Typed DEF TypeOK
  <1>2. DOMAIN log' = 1 .. n + 1 /\ Len(log') = n + 1 /\ log'[n + 1] = r /\ \A i \in 1 .. n : log'[i] = log[i]
    BY ApplyStep
  <1>3. /\ last.num \in Nat /\ last.level \in Nat /\ last.num <= mark.num
        /\ last.num = mark.num => last.level = mark.level
        /\ last.cancel => mark.cancel
        /\ last.final => mark.final
        /\ mark.num \in Nat /\ mark.level \in Nat /\ r.num \in Nat /\ r.level \in Nat
    BY <1>1, Typed DEF MarkExact
  <1>4. /\ r.num < mark.num => IsTerminal(mark, r)
        /\ r.num = mark.num =>
             IsTerminal(mark, r) \/ r.level > mark.level \/ r.level = mark.level
    BY AppliedMeans DEF ApplyReport, IsSafetyTransition
  <1>5. IsTerminal(mark, r) => ~(last.cancel = r.cancel /\ last.final = r.final)
    BY <1>3 DEF IsTerminal
  <1>6. last.num = r.num /\ last.cancel = r.cancel /\ last.final = r.final => last.level <= r.level
    <2> HIDE DEF last
    <2> QED BY <1>3, <1>4, <1>5
  <1> HIDE DEF n
  <1> SUFFICES ASSUME NEW i \in 1 .. n,
                      log'[i].num = log'[i + 1].num, log'[i].cancel = log'[i + 1].cancel,
                      log'[i].final = log'[i + 1].final
               PROVE  log'[i].level <= log'[i + 1].level
    BY <1>1, <1>2 DEF LevelRises
  <1>7. CASE i = n
    BY <1>1, <1>2, <1>6, <1>7
  <1>8. CASE i \in 1 .. n - 1
    <2>1. i \in 1 .. n /\ i + 1 \in 1 .. n /\ log'[i] = log[i] /\ log'[i + 1] = log[i + 1]
      BY <1>1, <1>2, <1>8
    <2> QED BY <1>1, <1>8, <2>1 DEF LevelRises, n
  <1> QED BY <1>1, <1>7, <1>8

(* A level that falls within a number does so at a terminal report, which   *)
(* empties the list; one that rises empties it as well.                     *)
LEMMA SeenStep ==
  ASSUME IInv, NEW r \in Reports, ApplyReport(r)
  PROVE  SeenExact'
  <1> USE DEF IInv
  <1> DEFINE n == Len(log)
             kept == UpdatesKept(mark, r)
  <1>1. /\ n \in Nat \ {0} /\ DOMAIN log = 1 .. n
        /\ mark.num \in Nat /\ mark.level \in Nat /\ r.num \in Nat /\ r.level \in Nat
    BY Typed DEF TypeOK
  <1>2. DOMAIN log' = 1 .. n + 1 /\ log'[n + 1] = r /\ \A i \in 1 .. n : log'[i] = log[i]
    BY ApplyStep
  <1>3. /\ mark'.num = (IF r.num >= mark.num THEN r.num ELSE mark.num)
        /\ mark'.level = (IF r.num >= mark.num THEN r.level ELSE mark.level)
        /\ mark'.cancel = (mark.cancel \/ r.cancel)
        /\ mark'.seen = IF HasRoom(kept) THEN kept \cup {r} ELSE kept
    BY ApplyStep DEF LatestNumber
  <1>4. kept \subseteq mark.seen /\ (kept = {} => HasRoom(kept))
    BY KeptMeans
  <1>5. /\ r.num < mark.num => IsTerminal(mark, r)
        /\ r.num = mark.num =>
             \/ IsSafetyTransition(mark, r)
             \/ r.level = mark.level /\ r \notin mark.seen /\ HasRoom(mark.seen)
    BY AppliedMeans DEF ApplyReport
  <1>6. kept = IF r.num > mark.num \/ (r.num = mark.num /\ IsSafetyTransition(mark, r))
               THEN {} ELSE mark.seen
    BY DEF UpdatesKept
  <1>7. \A i \in 1 .. n : /\ log[i] \in Reports /\ log[i].num \in Nat /\ log[i].level \in Nat
                          /\ log[i].num <= mark.num
    BY <1>1, Typed DEF MarkExact
  <1>8. \A x \in mark.seen : x.num \in Nat /\ x.level \in Nat
    BY DEF TypeOK
  <1> HIDE DEF n, kept
  <1>9. r.num >= mark.num => HasRoom(kept) /\ r \in mark'.seen
    BY <1>1, <1>3, <1>4, <1>5, <1>6
  <1>10. \A x \in mark'.seen : x.num = mark'.num => x.level = mark'.level
    <2>1. \A x \in mark.seen : x.num = mark.num => x.level = mark.level
      BY DEF SeenExact
    <2> SUFFICES ASSUME NEW x \in mark'.seen, x.num = mark'.num PROVE x.level = mark'.level
      OBVIOUS
    <2>2. x = r \/ x \in kept
      BY <1>3
    <2>3. CASE x = r
      BY <1>1, <1>3, <2>3
    <2>4. CASE x \in kept
      <3>1. x \in mark.seen /\ kept = mark.seen /\ x.num \in Nat
        BY <1>4, <1>6, <1>8, <2>4
      <3>2. ~(r.num > mark.num) /\ ~(r.num = mark.num /\ IsSafetyTransition(mark, r))
        BY <1>6, <2>4
      <3>3. r.num = mark.num => r.level = mark.level
        BY <1>5, <3>2
      <3>4. mark'.num = mark.num /\ mark'.level = mark.level
        BY <1>1, <1>3, <3>2, <3>3
      <3> QED BY <2>1, <3>1, <3>4
    <2> QED BY <2>2, <2>3, <2>4
  <1>11. ASSUME NEW i \in DOMAIN log', log'[i].num = mark'.num
         PROVE  Remembered(i)'
    <2>1. CASE i = n + 1
      <3>1. r.num = mark'.num /\ r.num >= mark.num
        BY <1>1, <1>2, <1>3, <1>11, <2>1
      <3>2. log'[i] \in mark'.seen
        BY <1>2, <1>9, <2>1, <3>1
      <3> QED BY <3>2 DEF Remembered
    <2>2. CASE i \in 1 .. n
      <3>1. log'[i] = log[i] /\ log[i].num <= mark.num
        BY <1>2, <1>7, <2>2
      <3>2. /\ mark'.num = mark.num /\ log[i].num = mark.num /\ r.num <= mark.num
            /\ log[i].num \in Nat /\ log[i].level \in Nat
        BY <1>1, <1>3, <1>7, <1>11, <2>2, <3>1
      <3>3. ASSUME FinalSince(i) PROVE FinalSince(i)'
        <4>1. PICK k \in 1 .. n : i < k /\ log[k].final /\ \A h \in 1 .. k - 1 : ~log[h].final
          BY <1>1, <3>3 DEF FinalSince
        <4>2. k \in DOMAIN log' /\ log'[k].final
          BY <1>1, <1>2, <4>1
        <4>3. \A h \in 1 .. k - 1 : log'[h] = log[h]
          BY <1>1, <1>2, <4>1
        <4>4. \A h \in 1 .. k - 1 : ~log'[h].final
          BY <4>1, <4>3
        <4> QED BY <4>1, <4>2, <4>4 DEF FinalSince
      <3>4. CASE r.final /\ ~mark.final
        <4>1. \A h \in 1 .. n : ~log[h].final
          BY <1>1, <3>4 DEF MarkExact
        <4>2. \A h \in 1 .. n : ~log'[h].final
          BY <1>2, <4>1
        <4>3. n + 1 \in DOMAIN log' /\ i < n + 1 /\ (n + 1) - 1 = n /\ log'[n + 1].final
          BY <1>1, <1>2, <2>2, <3>4
        <4>4. FinalSince(i)'
          BY <4>2, <4>3 DEF FinalSince
        <4> QED BY <4>4 DEF Remembered
      <3>5. CASE r.cancel /\ ~mark.cancel
        <4>1. ~log[i].cancel
          BY <1>1, <2>2, <3>5 DEF MarkExact
        <4>2. mark'.cancel
          BY <1>3, <3>5
        <4> QED BY <3>1, <4>1, <4>2 DEF Remembered
      <3>6. CASE ~IsTerminal(mark, r)
        <4>1. r.num = mark.num
          BY <1>1, <1>5, <3>2, <3>6
        <4>2. mark'.level = r.level /\ (mark.cancel => mark'.cancel)
          <5>1. mark'.level = r.level
            BY <1>1, <1>3, <4>1
          <5>2. mark.cancel => mark'.cancel
            BY ONLY <1>3, Zenon
          <5> QED BY <5>1, <5>2
        <4>3. Remembered(i)
          BY <1>1, <2>2, <3>2 DEF SeenExact
        <4>4. CASE r.level > mark.level
          <5>1. log[i] \in mark.seen => log[i].level = mark.level
            BY <3>2 DEF SeenExact
          <5>2. CASE log[i] \in mark.seen \/ log[i].level < mark.level
            <6>1. log'[i].level < mark'.level
              BY <1>1, <3>1, <3>2, <4>2, <4>4, <5>1, <5>2
            <6> QED BY <6>1 DEF Remembered
          <5>3. CASE FinalSince(i)
            BY <3>3, <5>3 DEF Remembered
          <5>4. CASE mark.cancel /\ ~log[i].cancel
            BY <3>1, <4>2, <5>4 DEF Remembered
          <5> QED BY <4>3, <5>2, <5>3, <5>4 DEF Remembered
        <4>5. CASE ~(r.level > mark.level)
          <5>1. ~IsSafetyTransition(mark, r)
            BY <3>6, <4>5 DEF IsSafetyTransition
          <5>2. r.level = mark.level /\ kept = mark.seen
            BY <1>1, <1>5, <1>6, <4>1, <5>1
          <5>3. mark.seen \subseteq mark'.seen
            BY <1>3, <5>2
          <5>4. CASE log[i] \in mark.seen
            BY <3>1, <5>3, <5>4 DEF Remembered
          <5>5. CASE log[i].level < mark.level
            <6>1. log'[i].level < mark'.level
              BY <3>1, <4>2, <5>2, <5>5
            <6> QED BY <6>1 DEF Remembered
          <5>6. CASE FinalSince(i)
            BY <3>3, <5>6 DEF Remembered
          <5>7. CASE mark.cancel /\ ~log[i].cancel
            BY <3>1, <4>2, <5>7 DEF Remembered
          <5> QED BY <4>3, <5>4, <5>5, <5>6, <5>7 DEF Remembered
        <4> QED BY <4>4, <4>5
      <3> QED BY <3>4, <3>5, <3>6 DEF IsTerminal
    <2> QED BY <1>1, <1>2, <2>1, <2>2
  <1>12. IsFiniteSet(mark'.seen)
    BY TypeStep
  <1> QED BY <1>10, <1>11, <1>12 DEF SeenExact

(* A report that comes again met its own trace, except for a cancellation  *)
(* after which the stream became final.                                    *)
LEMMA RepeatStep ==
  ASSUME IInv, NEW r \in Reports, ApplyReport(r)
  PROVE  RepeatedOnlyByFinal'
  <1> USE DEF IInv
  <1> DEFINE n == Len(log)
             First(f, k) == f[k].final /\ \A h \in 1 .. k - 1 : ~f[h].final
  <1>1. /\ n \in Nat /\ DOMAIN log = 1 .. n
        /\ mark.num \in Nat /\ mark.level \in Nat /\ r.num \in Nat /\ r.level \in Nat
    BY Typed
  <1>2. DOMAIN log' = 1 .. n + 1 /\ log'[n + 1] = r /\ \A i \in 1 .. n : log'[i] = log[i]
    BY ApplyStep
  <1>3. /\ ~IsRegression(mark, r)
        /\ r.num < mark.num => IsTerminal(mark, r)
        /\ r.num = mark.num =>
             \/ IsSafetyTransition(mark, r)
             \/ r.level = mark.level /\ r \notin mark.seen
    BY AppliedMeans DEF ApplyReport
  <1>4. \A i \in 1 .. n : /\ log[i].num <= mark.num
                          /\ log[i].cancel => mark.cancel
                          /\ log[i].final => mark.final
    BY <1>1 DEF MarkExact
  <1>5. ASSUME NEW i \in 1 .. n, log[i] = r
        PROVE  r.cancel /\ \E k \in i + 1 .. n : First(log, k)
    <2>1. ~IsTerminal(mark, r)
      <3>1. (r.cancel => mark.cancel) /\ (r.final => mark.final)
        BY ONLY <1>4, <1>5, Zenon
      <3> QED BY <3>1 DEF IsTerminal
    <2>2. r.num = mark.num
      <3>1. r.num <= mark.num
        BY ONLY <1>4, <1>5, Zenon
      <3> QED BY <1>1, <1>3, <2>1, <3>1
    <2>3. Remembered(i)
      BY <1>1, <1>5, <2>2 DEF SeenExact
    <2>4. r \in mark.seen => r.level = mark.level
      BY <2>2 DEF SeenExact
    <2>5. r \notin mark.seen /\ ~(r.level < mark.level)
      BY <1>1, <1>3, <2>1, <2>2, <2>4 DEF IsSafetyTransition
    <2>6. ~(mark.cancel /\ ~r.cancel)
      BY <1>3 DEF IsRegression
    <2>7. FinalSince(i)
      BY <1>5, <2>3, <2>5, <2>6 DEF Remembered
    <2>8. PICK k \in 1 .. n : i < k /\ First(log, k)
      BY <1>1, <2>7 DEF FinalSince
    <2>9. k \in i + 1 .. n
      BY <1>1, <2>8
    <2>10. ~r.final
      <3>1. i \in 1 .. k - 1
        BY <1>1, <2>8
      <3>2. ~log[i].final
        BY <2>8, <3>1
      <3> QED BY ONLY <1>5, <3>2, Zenon
    <2>11. mark.final
      BY ONLY <1>4, <2>8, Zenon
    <2> QED BY <1>3, <2>8, <2>9, <2>10, <2>11 DEF IsRegression
  <1>6. ASSUME NEW k \in 1 .. n, First(log, k) PROVE First(log', k)
    <2>1. log'[k] = log[k] /\ \A h \in 1 .. k - 1 : log'[h] = log[h]
      BY <1>1, <1>2
    <2> QED BY <1>6, <2>1
  <1>7. ASSUME NEW i \in 1 .. n + 1, NEW j \in 1 .. n + 1, i < j, log'[i] = log'[j]
        PROVE  log'[i].cancel /\ \E k \in i + 1 .. j - 1 : First(log', k)
    <2>1. i \in 1 .. n /\ log'[i] = log[i]
      BY <1>1, <1>2, <1>7
    <2>2. CASE j = n + 1
      <3>1. log[i] = r /\ j - 1 = n
        <4>1. j - 1 = n
          BY <1>1, <2>2
        <4>2. log[i] = r
          BY ONLY <1>2, <1>7, <2>1, <2>2, Zenon
        <4> QED BY <4>1, <4>2
      <3>2. r.cancel /\ \E k \in i + 1 .. n : First(log, k)
        BY <1>5, <2>1, <3>1
      <3>3. PICK k \in i + 1 .. n : First(log, k)
        BY <3>2
      <3>4. k \in 1 .. n
        BY <1>1, <2>1
      <3>5. First(log', k)
        BY <1>6, <3>3, <3>4
      <3> HIDE DEF First
      <3> QED BY <2>1, <3>1, <3>2, <3>5
    <2>3. CASE j \in 1 .. n
      <3>1. log'[j] = log[j] /\ log[i] = log[j]
        BY <1>2, <1>7, <2>1, <2>3
      <3>2. log[i].cancel /\ \E k \in i + 1 .. j - 1 : log[k].final /\ \A e \in Earlier(k) : ~e.final
        BY <1>1, <1>7, <2>1, <2>3, <3>1 DEF RepeatedOnlyByFinal
      <3>3. PICK k \in i + 1 .. j - 1 : log[k].final /\ \A e \in Earlier(k) : ~e.final
        BY <3>2
      <3>4. k \in 1 .. n /\ First(log, k)
        BY <1>1, <2>1, <2>3, <3>3 DEF Earlier
      <3>5. First(log', k)
        BY <1>6, <3>4
      <3> HIDE DEF First
      <3> QED BY <2>1, <3>2, <3>5
    <2> QED BY <1>1, <2>2, <2>3
  <1>8. \A k \in 1 .. n + 1 : First(log', k) =>
          log'[k].final /\ \A e \in Earlier(k)' : ~e.final
    BY DEF Earlier
  <1>9. \A i, j \in 1 .. n + 1 : i < j =>
          \A k \in i + 1 .. j - 1 : k \in 1 .. n + 1
    BY <1>1
  <1> HIDE DEF First
  <1>10. ASSUME NEW i \in 1 .. n + 1, NEW j \in 1 .. n + 1, i < j, log'[i] = log'[j]
         PROVE  /\ log'[i].cancel
                /\ \E k \in i + 1 .. j - 1 : log'[k].final /\ \A e \in Earlier(k)' : ~e.final
    BY <1>7, <1>8, <1>9, <1>10
  <1> QED BY <1>2, <1>10 DEF RepeatedOnlyByFinal

-----------------------------------------------------------------------------
(* Every step keeps the invariant.                                         *)
LEMMA NextInvariant == IInv /\ [Next]_vars => IInv'
  <1> SUFFICES ASSUME IInv, [Next]_vars PROVE IInv'
    OBVIOUS
  <1>1. ASSUME NEW r \in Reports, ApplyReport(r) PROVE IInv'
    <2>1. TypeOK' /\ (log # <<>>)'
      BY <1>1, TypeStep
    <2>2. MarkExact' /\ SeenExact'
      BY <1>1, MarkStep, SeenStep
    <2>3. TerminalHolds' /\ LateOnlyWhenTerminal' /\ LevelRises' /\ RepeatedOnlyByFinal'
      BY <1>1, TerminalStep, LateStep, LevelStep, RepeatStep
    <2> QED BY <2>1, <2>2, <2>3 DEF IInv
  <1>2. ASSUME UNCHANGED vars PROVE IInv'
    BY <1>2 DEF vars, IInv, TypeOK, MarkExact, SeenExact, Remembered, FinalSince, TerminalHolds,
                LateOnlyWhenTerminal, LevelRises, RepeatedOnlyByFinal, Earlier
  <1>3. Next => UNCHANGED vars \/ \E r \in Reports : ApplyReport(r)
    BY DEF Next, RefuseReport
  <1> QED BY <1>1, <1>2, <1>3

(* IInv holds in every state a stream reaches.                             *)
THEOREM Invariant == Spec => []IInv
  BY InitInvariant, NextInvariant, PTL DEF Spec

(* The watermark and its bounded list stay typed.                          *)
THEOREM TypeCorrect == Spec => []TypeOK
  <1>1. IInv => TypeOK
    BY DEF IInv
  <1> QED BY <1>1, Invariant, PTL

(* A cancellation or a final report that was applied is not taken back     *)
(* (IncidentStreamWatermark::outcome).                                     *)
THEOREM TerminalCorrect == Spec => []TerminalHolds
  <1>1. IInv => TerminalHolds
    BY DEF IInv
  <1> QED BY <1>1, Invariant, PTL

(* A report is applied again only as a cancellation of a stream that       *)
(* became final in between, however small the list of updates is.          *)
THEOREM RepeatCorrect == Spec => []RepeatedOnlyByFinal
  <1>1. IInv => RepeatedOnlyByFinal
    BY DEF IInv
  <1> QED BY <1>1, Invariant, PTL

(* No report is applied over a newer or stronger one, unless it calls off, *)
(* and the watermark does not go back.                                     *)
THEOREM OrderCorrect == Spec => OrderKept
  <1> DEFINE Forward == /\ mark'.num >= mark.num
                        /\ mark.cancel => mark'.cancel
                        /\ mark.final => mark'.final
  <1>1. IInv => LateOnlyWhenTerminal /\ LevelRises
    BY DEF IInv
  <1>2. IInv /\ [Next]_vars => [Forward]_vars
    <2> SUFFICES ASSUME IInv, [Next]_vars PROVE Forward \/ UNCHANGED vars
      OBVIOUS
    <2>1. ASSUME NEW r \in Reports, ApplyReport(r) PROVE Forward
      <3>1. mark.num \in Nat /\ r.num \in Nat
        BY Typed DEF IInv
      <3>2. mark'.num = (IF r.num >= mark.num THEN r.num ELSE mark.num)
        BY <2>1, ApplyStep DEF IInv, LatestNumber
      <3>3. mark'.final = (mark.final \/ r.final) /\ mark'.cancel = (mark.cancel \/ r.cancel)
        BY <2>1, ApplyStep DEF IInv
      <3>4. mark'.num >= mark.num
        BY <3>1, <3>2
      <3> QED BY <3>3, <3>4, Zenon
    <2>2. Next => UNCHANGED vars \/ \E r \in Reports : ApplyReport(r)
      BY DEF Next, RefuseReport
    <2> QED BY <2>1, <2>2
  <1> QED BY <1>1, <1>2, Invariant, PTL DEF Spec, OrderKept, NeverGoesBack
=============================================================================
