--------------------------- MODULE IncidentsProofs ---------------------------
(***************************************************************************)
(* Proofs about Incidents: the records, the indexes and the counters that   *)
(* the coordinator, the match engine and the prune write agree, for any     *)
(* reports, any streams and any number of them.                             *)
(***************************************************************************)
EXTENDS Incidents, FiniteSetTheorems, SequenceTheorems, TLAPS

USE PolicyAssumption, BoundsAssumption, UpdatesAssumption

-----------------------------------------------------------------------------
(* The inductive invariant *)

(* The fields of a stored record; an incident owns the stream it is named   *)
(* after, which its first report came on.                                   *)
RecordTyped(i, rec) ==
  /\ rec = [category |-> rec.category, latest |-> rec.latest, marks |-> rec.marks,
            matched |-> rec.matched, jobs |-> rec.jobs]
  /\ DOMAIN rec.marks \subseteq Streams /\ i \in DOMAIN rec.marks
  /\ IsFiniteSet(DOMAIN rec.marks) /\ Cardinality(DOMAIN rec.marks) <= MaxMarks
  /\ rec.latest \in Seq(DOMAIN rec.marks) /\ Len(rec.latest) <= MaxLatest
  /\ rec.jobs \in Nat /\ rec.matched \in BOOLEAN

RecordsTyped ==
  /\ Stored \subseteq Streams
  /\ \A i \in Stored : RecordTyped(i, incidents[i])

(* The inbox and the match jobs made are reports that were ingested.        *)
WorkTyped ==
  /\ inbox \in Seq(Reports) /\ rejected \subseteq Reports
  /\ made \in Seq([incident : Streams, report : Reports])
  /\ ingested \in Nat /\ Len(made) + Len(inbox) <= ingested /\ ingested <= MaxIngested
  /\ jobs \subseteq 1 .. Len(made) /\ snapshots \subseteq 1 .. Len(made)
  /\ batches \subseteq 1 .. Len(made)
  /\ matching \in 0 .. Len(made) /\ found \in BOOLEAN

(* A job is done with before its batch is there, and what was delivered was *)
(* matched.                                                                 *)
MatchedBeforeDelivered ==
  /\ jobs \cap batches = {}
  /\ \A e \in ledger : e[1] \in Stored /\ incidents[e[1]].matched

(* A report of the catalogue is still an alias of a report's incident.      *)
ListedByReport ==
  \A c \in catalogued : c[2] = "report" =>
    c[1] \in DOMAIN aliases /\ incidents[aliases[c[1]]].category = "report"

IInv ==
  /\ RecordsTyped /\ WorkTyped /\ ReferencesResolve /\ JobsCounted /\ WorkIsBacked
  /\ StoredForAReason /\ MatchedIsKnown /\ MatchedBeforeDelivered /\ ListedByReport

(* What the coordinator knows of the report it takes: it resolves to the    *)
(* incident that owns the stream, or to a new one named after the stream.   *)
LEMMA ResolvedIncident ==
  ASSUME IInv, NEW r \in Reports, NEW i \in Resolved(r)
  PROVE  /\ i \in Streams /\ r.stream \in Streams
         /\ r.stream \in DOMAIN aliases => i = aliases[r.stream]
         /\ i \notin Stored => i = r.stream /\ r.stream \notin DOMAIN aliases
         /\ i \in Stored /\ r.stream \notin KeysOf(i) => r.stream \notin DOMAIN aliases
  <1> USE DEF IInv, ReferencesResolve, RecordsTyped, RecordTyped
  <1>1. r.stream \in Streams
    OBVIOUS
  <1>2. CASE r.stream \in DOMAIN aliases
    BY <1>1, <1>2 DEF Resolved, KeysOf
  <1>3. CASE r.stream \notin DOMAIN aliases /\ i \in Correlated(r)
    <2>1. i \in Stored
      BY <1>3 DEF Correlated
    <2> QED BY <1>1, <1>3, <2>1
  <1>4. CASE r.stream \notin DOMAIN aliases /\ i \notin Correlated(r)
    BY <1>1, <1>4 DEF Resolved, KeysOf
  <1> QED BY <1>2, <1>3, <1>4

(* The streams of an incident once a report is merged.                      *)
KeysWith(i, r) == (IF i \in Stored THEN KeysOf(i) ELSE {}) \cup {r.stream}

(* Merging a report keeps the record's fields in their types and bounds.    *)
LEMMA ReducedTyped ==
  ASSUME IInv, NEW r \in Reports, NEW i \in Resolved(r), IsNews(i, r)
  PROVE  /\ RecordTyped(i, Reduced(i, r))
         /\ DOMAIN Reduced(i, r).marks = KeysWith(i, r)
         /\ i \in Stored =>
              /\ Reduced(i, r).category = incidents[i].category
              /\ Reduced(i, r).matched = incidents[i].matched
              /\ Reduced(i, r).jobs = incidents[i].jobs
         /\ i \notin Stored =>
              /\ Reduced(i, r).category = Category[r.stream]
              /\ Reduced(i, r).matched = FALSE /\ Reduced(i, r).jobs = 0
  <1> DEFINE rec == Reduced(i, r)
  <1>1. CASE i \notin Stored
    <2>1. rec = [category |-> Category[r.stream], latest |-> <<r.stream>>,
                 marks |-> [s \in {r.stream} |-> FirstMark(r)], matched |-> FALSE, jobs |-> 0]
      BY <1>1 DEF Reduced
    <2>2. DOMAIN rec.marks = {r.stream} /\ i = r.stream /\ r.stream \in Streams
      BY <1>1, <2>1, ResolvedIncident
    <2>3. IsFiniteSet({r.stream}) /\ Cardinality({r.stream}) = 1
      BY FS_Singleton
    <2>4. rec.latest \in Seq(DOMAIN rec.marks) /\ Len(rec.latest) = 1
      BY <2>1, <2>2
    <2>5. rec.category = Category[r.stream] /\ rec.jobs = 0
      BY <2>1
    <2>6. rec.matched = FALSE
      <3> HIDE DEF rec
      <3> QED BY ONLY <2>1, Zenon
    <2>7. rec = [category |-> rec.category, latest |-> rec.latest, marks |-> rec.marks,
                 matched |-> rec.matched, jobs |-> rec.jobs]
      <3> HIDE DEF rec
      <3> QED BY ONLY <2>1, Zenon
    <2>8. Cardinality(DOMAIN rec.marks) <= MaxMarks /\ IsFiniteSet(DOMAIN rec.marks)
      BY <2>2, <2>3
    <2>9. RecordTyped(i, rec)
      <3> HIDE DEF rec
      <3>1. rec.matched \in BOOLEAN
        BY ONLY <2>6, Zenon
      <3>2. Len(rec.latest) <= MaxLatest /\ rec.jobs \in Nat
        BY <2>4, <2>5
      <3> QED BY <2>2, <2>4, <2>7, <2>8, <3>1, <3>2, Zenon DEF RecordTyped
    <2> QED BY <1>1, <2>2, <2>5, <2>6, <2>9 DEF KeysWith
  <1>2. CASE i \in Stored
    <2> DEFINE old == incidents[i]
               marks == With(old.marks, r.stream, IF r.stream \in DOMAIN old.marks
                               THEN Committed(old.marks[r.stream], r) ELSE FirstMark(r))
               latest == LatestWith(old.latest, r.stream)
    <2>1. RecordTyped(i, old)
      BY <1>2 DEF IInv, RecordsTyped
    <2>2. rec = [category |-> old.category, latest |-> latest, marks |-> marks,
                 matched |-> old.matched, jobs |-> old.jobs]
      <3>1. rec = [old EXCEPT !.latest = latest, !.marks = marks]
        BY <1>2 DEF Reduced
      <3>2. old = [category |-> old.category, latest |-> old.latest, marks |-> old.marks,
                   matched |-> old.matched, jobs |-> old.jobs]
        BY ONLY <2>1, Zenon DEF RecordTyped
      <3> HIDE DEF rec, latest, marks, old
      <3> QED BY ONLY <3>1, <3>2
    <2>3. DOMAIN marks = DOMAIN old.marks \cup {r.stream}
      BY DEF With
    <2>4. latest \in Seq(DOMAIN marks) /\ Len(latest) <= MaxLatest
      <3>1. old.latest \in Seq(DOMAIN old.marks) /\ Len(old.latest) <= MaxLatest
        BY <2>1 DEF RecordTyped
      <3>2. old.latest \in Seq(DOMAIN marks)
        BY <3>1, <2>3
      <3>3. MaxLatest \in Nat \ {0} /\ r.stream \in DOMAIN marks
        BY <2>3
      <3> HIDE DEF marks
      <3>4. CASE latest = old.latest
        BY <3>1, <3>2, <3>4
      <3>5. CASE Len(old.latest) >= MaxLatest /\ latest = Append(Tail(old.latest), r.stream)
        <4>1. Tail(old.latest) \in Seq(DOMAIN marks)
              /\ Len(Tail(old.latest)) = Len(old.latest) - 1
          <5>1. old.latest # <<>>
            BY <3>1, <3>3, <3>5
          <5> HIDE DEF old
          <5> QED BY <3>2, <5>1, HeadTailProperties
        <4> QED BY <3>1, <3>3, <3>5, <4>1
      <3>6. CASE ~(Len(old.latest) >= MaxLatest) /\ latest = Append(old.latest, r.stream)
        BY <3>1, <3>2, <3>3, <3>6
      <3> QED BY <3>4, <3>5, <3>6 DEF LatestWith
    <2>5. IsFiniteSet(DOMAIN marks) /\ Cardinality(DOMAIN marks) <= MaxMarks
      <3>1. IsFiniteSet(DOMAIN old.marks) /\ Cardinality(DOMAIN old.marks) <= MaxMarks
        BY <2>1 DEF RecordTyped
      <3>2. Cardinality(DOMAIN old.marks) \in Nat
        BY <3>1, FS_CardinalityType
      <3>3. CASE r.stream \in DOMAIN old.marks
        <4>1. DOMAIN marks = DOMAIN old.marks
          BY <2>3, <3>3
        <4> QED BY <3>1, <4>1
      <3>4. CASE r.stream \notin DOMAIN old.marks
        <4>1. Cardinality(DOMAIN old.marks) < MaxMarks
          BY <1>2, <3>2, <3>4 DEF IsNews, OutcomeIn, KeysOf
        <4>2. IsFiniteSet(DOMAIN marks)
              /\ Cardinality(DOMAIN marks) = Cardinality(DOMAIN old.marks) + 1
          <5> HIDE DEF marks, old
          <5> QED BY <2>3, <3>1, <3>4, FS_AddElement
        <4> QED BY <3>2, <4>1, <4>2
      <3> QED BY <3>3, <3>4
    <2>6. r.stream \in Streams
      BY ResolvedIncident
    <2>7. rec.category = old.category /\ rec.latest = latest /\ rec.marks = marks
          /\ rec.jobs = old.jobs
      <3> HIDE DEF rec, latest, marks, old
      <3> QED BY <2>2
    <2>8. rec.matched = old.matched
      <3> HIDE DEF rec, latest, marks, old
      <3> QED BY ONLY <2>2, Zenon
    <2>9. rec = [category |-> rec.category, latest |-> rec.latest, marks |-> rec.marks,
                 matched |-> rec.matched, jobs |-> rec.jobs]
      <3> HIDE DEF rec, latest, marks, old
      <3> QED BY ONLY <2>2, Zenon
    <2>10. RecordTyped(i, rec)
      <3> HIDE DEF rec, latest, marks, old
      <3>1. DOMAIN rec.marks \subseteq Streams /\ i \in DOMAIN rec.marks
        BY <2>1, <2>3, <2>6, <2>7 DEF RecordTyped
      <3> QED BY <2>1, <2>4, <2>5, <2>7, <2>8, <2>9, <3>1 DEF RecordTyped
    <2> QED BY <1>2, <2>3, <2>7, <2>8, <2>10 DEF KeysWith, KeysOf
  <1> QED BY <1>1, <1>2

-----------------------------------------------------------------------------
(* The two ways the records and their indexes are written *)

(* What StoreIncident leaves, for a record that owns the report's stream.    *)
LEMMA StoringWrites ==
  ASSUME IInv, NEW r \in Reports, NEW i \in Resolved(r), NEW rec,
         RecordTyped(i, rec), DOMAIN rec.marks = KeysWith(i, r), StoreIncident(i, rec, r)
  PROVE  /\ Stored' = Stored \cup {i} /\ incidents'[i] = rec
         /\ \A j \in Stored \ {i} : incidents'[j] = incidents[j]
         /\ RecordsTyped' /\ ReferencesResolve'
         /\ DOMAIN aliases' = DOMAIN aliases \cup KeysWith(i, r)
         /\ \A s \in DOMAIN aliases : aliases'[s] = aliases[s]
         /\ aliases'[r.stream] = i
  <1>1. Stored' = Stored \cup {i} /\ incidents'[i] = rec
        /\ \A j \in Stored \ {i} : incidents'[j] = incidents[j]
    BY DEF StoreIncident, With, Stored
  <1>2. i \in Streams /\ r.stream \in Streams
        /\ (r.stream \in DOMAIN aliases => i = aliases[r.stream])
        /\ (i \notin Stored => i = r.stream /\ r.stream \notin DOMAIN aliases)
    BY ResolvedIncident
  <1>3. RecordsTyped'
    <2>1. \A j \in Stored' : j \in Streams /\ RecordTyped(j, incidents'[j])
      BY <1>1, <1>2 DEF IInv, RecordsTyped
    <2>2. \A j \in Stored' : RecordTyped(j, incidents[j])'
      BY <2>1 DEF RecordTyped
    <2> QED BY <2>1, <2>2 DEF RecordsTyped
  <1>4. DOMAIN aliases' = DOMAIN aliases \cup KeysWith(i, r)
        /\ \A s \in DOMAIN aliases' :
             aliases'[s] = IF s \in KeysWith(i, r) THEN i ELSE aliases[s]
    BY DEF StoreIncident
  <1>5. \A s \in KeysWith(i, r) : s \in DOMAIN aliases => aliases[s] = i
    BY <1>2 DEF IInv, ReferencesResolve, KeysWith
  <1>6. \A s \in DOMAIN aliases : aliases'[s] = aliases[s]
    BY <1>4, <1>5
  <1>7. r.stream \in KeysWith(i, r) /\ aliases'[r.stream] = i
    BY <1>4 DEF KeysWith
  <1>8. KeysOf(i)' = KeysWith(i, r) /\ \A j \in Stored \ {i} : KeysOf(j)' = KeysOf(j)
    BY <1>1 DEF KeysOf
  <1>9. ReferencesResolve'
    <2>1. \A s \in DOMAIN aliases' :
            aliases'[s] \in Stored' /\ s \in DOMAIN incidents'[aliases'[s]].marks
      <3> SUFFICES ASSUME NEW s \in DOMAIN aliases'
                   PROVE  aliases'[s] \in Stored' /\ s \in DOMAIN incidents'[aliases'[s]].marks
        OBVIOUS
      <3>1. CASE s \in KeysWith(i, r)
        BY <3>1, <1>1, <1>4
      <3>2. CASE s \notin KeysWith(i, r)
        <4>1. s \in DOMAIN aliases /\ aliases'[s] = aliases[s]
          BY <3>2, <1>4
        <4>2. aliases[s] \in Stored /\ s \in KeysOf(aliases[s])
          BY <4>1 DEF IInv, ReferencesResolve
        <4>3. aliases[s] # i
          BY <3>2, <4>2 DEF KeysWith
        <4> QED BY <1>1, <4>1, <4>2, <4>3 DEF KeysOf
      <3> QED BY <3>1, <3>2
    <2>2. \A j \in Stored' : \A s \in DOMAIN incidents'[j].marks :
            s \in DOMAIN aliases' /\ aliases'[s] = j
      <3> SUFFICES ASSUME NEW j \in Stored', NEW s \in DOMAIN incidents'[j].marks
                   PROVE  s \in DOMAIN aliases' /\ aliases'[s] = j
        OBVIOUS
      <3>1. CASE j = i
        BY <3>1, <1>1, <1>4
      <3>2. CASE j # i
        <4>1. j \in Stored /\ s \in KeysOf(j)
          BY <3>2, <1>1 DEF KeysOf
        <4>2. s \in DOMAIN aliases /\ aliases[s] = j
          BY <4>1 DEF IInv, ReferencesResolve
        <4> QED BY <4>2, <1>4, <1>6
      <3> QED BY <3>1, <3>2
    <2>3. \A e \in correlation' : e[1] \in Stored' /\ e[2] \in DOMAIN incidents'[e[1]].marks
      <3> SUFFICES ASSUME NEW e \in correlation'
                   PROVE  e[1] \in Stored' /\ e[2] \in DOMAIN incidents'[e[1]].marks
        OBVIOUS
      <3>1. CASE e \in correlation
        <4>1. e[1] \in Stored /\ e[2] \in KeysOf(e[1])
          BY <3>1 DEF IInv, ReferencesResolve
        <4> QED BY <4>1, <1>1 DEF KeysOf, KeysWith
      <3>2. CASE e = <<i, r.stream>>
        BY <3>2, <1>1, <1>7
      <3> QED BY <3>1, <3>2 DEF StoreIncident
    <2> QED BY <2>1, <2>2, <2>3 DEF ReferencesResolve, KeysOf
  <1> QED BY <1>1, <1>3, <1>4, <1>6, <1>7, <1>9

(* What RemoveIncidents leaves: the other incidents with their aliases.      *)
LEMMA RemovingWrites ==
  ASSUME IInv, NEW gone, RemoveIncidents(gone)
  PROVE  /\ Stored' = Stored \ gone
         /\ \A j \in Stored' : incidents'[j] = incidents[j]
         /\ RecordsTyped' /\ ReferencesResolve'
         /\ DOMAIN aliases' = {s \in DOMAIN aliases : aliases[s] \notin gone}
         /\ \A s \in DOMAIN aliases' : aliases'[s] = aliases[s]
  <1>1. Stored' = Stored \ gone /\ \A j \in Stored' : incidents'[j] = incidents[j]
    BY DEF RemoveIncidents, Without, Stored
  <1>2. DOMAIN aliases' = {s \in DOMAIN aliases : aliases[s] \notin gone}
        /\ \A s \in DOMAIN aliases' : aliases'[s] = aliases[s]
    BY DEF RemoveIncidents, AliasesWithout, Without
  <1>3. RecordsTyped'
    <2>1. \A j \in Stored' : j \in Streams /\ RecordTyped(j, incidents'[j])
      BY <1>1 DEF IInv, RecordsTyped
    <2>2. \A j \in Stored' : RecordTyped(j, incidents[j])'
      BY <2>1 DEF RecordTyped
    <2> QED BY <2>1, <2>2 DEF RecordsTyped
  <1>4. \A j \in Stored' : KeysOf(j)' = KeysOf(j)
    BY <1>1 DEF KeysOf
  <1>5. \A s \in DOMAIN aliases' :
          aliases'[s] \in Stored' /\ s \in DOMAIN incidents'[aliases'[s]].marks
    BY <1>1, <1>2 DEF IInv, ReferencesResolve, KeysOf
  <1>6. \A j \in Stored' : \A s \in DOMAIN incidents'[j].marks :
          s \in DOMAIN aliases' /\ aliases'[s] = j
    BY <1>1, <1>2 DEF IInv, ReferencesResolve, KeysOf
  <1>7. \A e \in correlation' : e[1] \in Stored' /\ e[2] \in DOMAIN incidents'[e[1]].marks
    BY <1>1 DEF IInv, ReferencesResolve, KeysOf, RemoveIncidents, CorrelationWithout
  <1>8. ReferencesResolve'
    BY <1>5, <1>6, <1>7 DEF ReferencesResolve, KeysOf
  <1> QED BY <1>1, <1>2, <1>3, <1>8

-----------------------------------------------------------------------------
(* Counting the jobs of an incident *)

JobsOf(i) == {n \in jobs : made[n].incident = i}

(* There are finitely many, and none of an incident that is not stored.     *)
LEMMA JobsFinite ==
  ASSUME IInv, NEW i
  PROVE  /\ IsFiniteSet(jobs) /\ IsFiniteSet(JobsOf(i)) /\ Cardinality(JobsOf(i)) \in Nat
         /\ i \notin Stored => JobsOf(i) = {}
         /\ i \in Stored => incidents[i].jobs = Cardinality(JobsOf(i))
  <1>1. Len(made) \in Nat
    BY DEF IInv, WorkTyped
  <1>2. IsFiniteSet(1 .. Len(made))
    BY <1>1, FS_Interval
  <1>3. jobs \in SUBSET (1 .. Len(made))
    BY DEF IInv, WorkTyped
  <1>4. JobsOf(i) \in SUBSET (1 .. Len(made))
    BY <1>3 DEF JobsOf
  <1>5. IsFiniteSet(JobsOf(i)) /\ IsFiniteSet(jobs)
    BY <1>2, <1>3, <1>4, FS_Subset
  <1> QED BY <1>5, FS_CardinalityType DEF IInv, JobsCounted, JobsOf

(* An incident without pending jobs has none.                               *)
LEMMA NoJobs ==
  ASSUME IInv, NEW i \in Stored, incidents[i].jobs = 0
  PROVE  JobsOf(i) = {}
  <1>1. IsFiniteSet(JobsOf(i)) /\ Cardinality(JobsOf(i)) = 0
    BY JobsFinite
  <1> QED BY <1>1, FS_EmptySet

(* The report that a step takes is one of the reports, and taking it keeps  *)
(* the rest.                                                                *)
LEMMA TakenReport ==
  ASSUME IInv, inbox # <<>>
  PROVE  /\ Head(inbox) \in Reports /\ Tail(inbox) \in Seq(Reports)
         /\ Len(Tail(inbox)) = Len(inbox) - 1 /\ Len(inbox) \in Nat /\ Len(made) \in Nat
  BY HeadTailProperties DEF IInv, WorkTyped

-----------------------------------------------------------------------------
(* The steps *)

(* Nothing is stored yet.                                                   *)
LEMMA InitInvariant == Init => IInv
  <1> SUFFICES ASSUME Init PROVE IInv
    OBVIOUS
  <1>1. Stored = {} /\ DOMAIN aliases = {}
    BY DEF Init, Stored
  <1>2. WorkTyped
    <2>1. inbox = <<>> /\ made = <<>> /\ matching = 0 /\ ingested = 0 /\ rejected = {}
          /\ jobs = {} /\ snapshots = {} /\ batches = {}
      BY DEF Init
    <2>2. found \in BOOLEAN
      BY DEF Init
    <2> QED BY <2>1, <2>2 DEF WorkTyped
  <1>3. RecordsTyped /\ ReferencesResolve
    BY <1>1 DEF Init, RecordsTyped, ReferencesResolve
  <1>4. JobsCounted /\ WorkIsBacked /\ StoredForAReason /\ MatchedIsKnown
        /\ MatchedBeforeDelivered /\ ListedByReport
    BY <1>1 DEF Init, JobsCounted, WorkIsBacked, StoredForAReason, MatchedIsKnown,
                MatchedBeforeDelivered, ListedByReport
  <1> QED BY <1>2, <1>3, <1>4 DEF IInv

(* A step that writes no record, index or job keeps all but the types.      *)
LEMMA QuietStep ==
  ASSUME IInv, UNCHANGED <<incidents, aliases, correlation, made, jobs, snapshots, batches,
                           ledger, catalogued>>,
         WorkTyped'
  PROVE  IInv'
  <1>1. RecordsTyped' /\ ReferencesResolve'
    BY DEF IInv, RecordsTyped, RecordTyped, ReferencesResolve, Stored, KeysOf
  <1>2. JobsCounted' /\ WorkIsBacked' /\ StoredForAReason' /\ MatchedIsKnown'
    BY DEF IInv, JobsCounted, WorkIsBacked, StoredForAReason, MatchedIsKnown, Stored, InLedger
  <1>3. MatchedBeforeDelivered' /\ ListedByReport'
    BY DEF IInv, MatchedBeforeDelivered, ListedByReport, Stored
  <1> QED BY <1>1, <1>2, <1>3 DEF IInv

(* The steps that only take a report in or out of the inbox.                *)
LEMMA InboxSteps ==
  ASSUME IInv, (\E r \in Reports : Ingest(r)) \/ CompleteReport \/ QuarantineReport
  PROVE  IInv'
  <1>1. CASE \E r \in Reports : Ingest(r)
    <2> PICK r \in Reports : Ingest(r)
      BY <1>1
    <2>1. inbox \in Seq(Reports) /\ inbox' = Append(inbox, r) /\ ingested' = ingested + 1
          /\ ingested < MaxIngested
          /\ UNCHANGED <<rejected, made, jobs, snapshots, batches, matching, found>>
      BY DEF Ingest, IInv, WorkTyped
    <2>2. inbox' \in Seq(Reports) /\ Len(inbox') = Len(inbox) + 1 /\ Len(inbox) \in Nat
      BY <2>1
    <2>3. WorkTyped'
      BY <2>1, <2>2 DEF IInv, WorkTyped
    <2> QED BY <2>3, QuietStep DEF Ingest
  <1>2. CASE CompleteReport
    <2>1. WorkTyped'
      BY <1>2, TakenReport DEF CompleteReport, observed, IInv, WorkTyped
    <2> QED BY <1>2, <2>1, QuietStep DEF CompleteReport, observed
  <1>3. CASE QuarantineReport
    <2>1. WorkTyped'
      BY <1>3, TakenReport DEF QuarantineReport, observed, IInv, WorkTyped
    <2> QED BY <1>3, <2>1, QuietStep DEF QuarantineReport, observed
  <1> QED BY <1>1, <1>2, <1>3

(* A report that is merged is in the catalogue under its incident's kind.    *)
LEMMA StoringCatalogues ==
  ASSUME IInv, NEW r \in Reports, NEW i \in Resolved(r), IsNews(i, r), NEW rec,
         RecordTyped(i, rec), DOMAIN rec.marks = KeysWith(i, r), StoreIncident(i, rec, r),
         rec.category = Reduced(i, r).category, Catalogue(Reduced(i, r), r)
  PROVE  ListedByReport'
  <1> DEFINE category == Reduced(i, r).category
  <1>1. catalogued' \subseteq catalogued \cup {<<r.stream, category>>}
    BY DEF Catalogue
  <1>2. i \in Stored => category = incidents[i].category
    BY ReducedTyped
  <1>3. incidents'[i] = rec /\ (\A j \in Stored \ {i} : incidents'[j] = incidents[j])
        /\ r.stream \in DOMAIN aliases' /\ aliases'[r.stream] = i
        /\ DOMAIN aliases \subseteq DOMAIN aliases'
        /\ \A s \in DOMAIN aliases : aliases'[s] = aliases[s]
    <2>1. DOMAIN aliases' = DOMAIN aliases \cup KeysWith(i, r)
      BY StoringWrites
    <2>2. r.stream \in KeysWith(i, r)
      BY DEF KeysWith
    <2> QED BY <2>1, <2>2, StoringWrites
  <1> HIDE DEF category
  <1>4. ASSUME NEW c \in catalogued', c[2] = "report"
        PROVE  c[1] \in DOMAIN aliases' /\ incidents'[aliases'[c[1]]].category = "report"
    <2>1. CASE c \in catalogued
      <3>1. c[1] \in DOMAIN aliases /\ incidents[aliases[c[1]]].category = "report"
            /\ aliases[c[1]] \in Stored
        BY <1>4, <2>1 DEF IInv, ListedByReport, ReferencesResolve
      <3>2. CASE aliases[c[1]] = i
        BY <3>1, <3>2, <1>2, <1>3 DEF category
      <3>3. CASE aliases[c[1]] # i
        BY <3>1, <3>3, <1>3
      <3> QED BY <3>2, <3>3
    <2>2. CASE c = <<r.stream, category>>
      BY <2>2, <1>3, <1>4 DEF category
    <2> QED BY <1>1, <2>1, <2>2
  <1> QED BY <1>4 DEF ListedByReport

(* An incident that a report is merged into keeps the reasons of the others. *)
LEMMA StoreReportStep ==
  ASSUME IInv, StoreReport
  PROVE  IInv'
  <1> DEFINE r == Head(inbox)
  <1> PICK i \in Resolved(r), stale \in StaleChoices(r) :
             /\ IsNews(i, r) /\ ~ShouldMatch(i, r, stale)
             /\ KeepsUnmatched(i, Reduced(i, r), r)
             /\ StoreIncident(i, Reduced(i, r), r)
             /\ Catalogue(Reduced(i, r), r)
    BY DEF StoreReport
  <1>1. r \in Reports /\ WorkTyped'
    BY TakenReport DEF StoreReport, IInv, WorkTyped
  <1> HIDE DEF r
  <1> DEFINE merged == Reduced(i, r)
  <1>2. RecordTyped(i, merged) /\ DOMAIN merged.marks = KeysWith(i, r)
        /\ (i \in Stored => merged.matched = incidents[i].matched
                            /\ merged.jobs = incidents[i].jobs)
        /\ (i \notin Stored => merged.jobs = 0)
    BY <1>1, ReducedTyped
  <1>3. RecordsTyped' /\ ReferencesResolve' /\ Stored' = Stored \cup {i}
        /\ incidents'[i] = merged /\ \A j \in Stored \ {i} : incidents'[j] = incidents[j]
    <2>1. StoreIncident(i, merged, r)
      OBVIOUS
    <2> HIDE DEF merged
    <2>2. incidents'[i] = merged
      BY <2>1 DEF StoreIncident, With
    <2> QED BY <1>1, <1>2, <2>1, <2>2, StoringWrites
  <1>4. ListedByReport'
    BY <1>1, <1>2, StoringCatalogues
  <1>5. UNCHANGED <<made, jobs, snapshots, batches, ledger>>
    BY DEF StoreReport
  <1>6. JobsCounted'
    <2>1. ASSUME NEW j \in Stored'
          PROVE  incidents'[j].jobs = Cardinality(JobsOf(j))
      <3>1. j \in Stored => incidents[j].jobs = Cardinality(JobsOf(j))
        BY JobsFinite
      <3>2. CASE j # i
        BY <3>1, <3>2, <1>3
      <3>3. CASE j = i /\ i \in Stored
        BY <3>1, <3>3, <1>2, <1>3
      <3>4. CASE j = i /\ i \notin Stored
        <4>1. JobsOf(i) = {}
          BY <3>4, JobsFinite
        <4> QED BY <3>4, <4>1, <1>2, <1>3, FS_EmptySet
      <3> QED BY <3>2, <3>3, <3>4
    <2> QED BY <2>1, <1>3, <1>5 DEF JobsCounted, JobsOf, IInv
  <1>7. WorkIsBacked'
    BY <1>3, <1>5 DEF IInv, WorkIsBacked
  <1>8. StoredForAReason'
    <2>1. i \in Stored' =>
            merged.jobs > 0 \/ merged.matched \/ InLedger(i) \/ merged.category = "report"
      BY DEF KeepsUnmatched
    <2> QED BY <2>1, <1>3, <1>5 DEF IInv, StoredForAReason, InLedger
  <1>9. MatchedIsKnown' /\ MatchedBeforeDelivered'
    <2>1. \A j \in Stored : incidents[j].matched => incidents'[j].matched
      BY <1>2, <1>3
    <2> QED BY <2>1, <1>3, <1>5 DEF IInv, MatchedIsKnown, MatchedBeforeDelivered
  <1> QED BY <1>1, <1>3, <1>4, <1>6, <1>7, <1>8, <1>9 DEF IInv

(* The count of an incident grows with the job that is made for it.         *)
LEMMA MatchReportStep ==
  ASSUME IInv, MatchReport
  PROVE  IInv'
  <1> DEFINE r == Head(inbox)
             n == Len(made) + 1
  <1> PICK i \in Resolved(r), stale \in StaleChoices(r) :
             /\ IsNews(i, r)
             /\ StoreIncident(i, [Reduced(i, r) EXCEPT !.jobs = @ + 1], r)
             /\ Catalogue(Reduced(i, r), r)
             /\ made' = Append(made, [incident |-> i, report |-> r])
             /\ jobs' = jobs \cup {n} /\ snapshots' = snapshots \cup {n}
    BY DEF MatchReport
  <1>1. r \in Reports /\ Tail(inbox) \in Seq(Reports) /\ Len(Tail(inbox)) = Len(inbox) - 1
        /\ Len(inbox) \in Nat /\ Len(made) \in Nat
    BY TakenReport DEF MatchReport
  <1>2. n = Len(made) + 1
    OBVIOUS
  <1> HIDE DEF r, n
  <1>3. i \in Streams
    BY <1>1, ResolvedIncident
  <1>4. UNCHANGED <<rejected, batches, ledger, matching, found, ingested>>
        /\ inbox' = Tail(inbox)
    BY DEF MatchReport
  <1> DEFINE merged == Reduced(i, r)
             counted == [merged EXCEPT !.jobs = @ + 1]
  <1>5. RecordTyped(i, merged) /\ DOMAIN merged.marks = KeysWith(i, r)
        /\ (i \in Stored => merged.matched = incidents[i].matched
                            /\ merged.jobs = incidents[i].jobs)
        /\ (i \notin Stored => merged.jobs = 0)
    BY <1>1, ReducedTyped
  <1>6. counted = [category |-> merged.category, latest |-> merged.latest,
                   marks |-> merged.marks, matched |-> merged.matched,
                   jobs |-> merged.jobs + 1]
    <2>1. merged = [category |-> merged.category, latest |-> merged.latest,
                    marks |-> merged.marks, matched |-> merged.matched, jobs |-> merged.jobs]
      BY ONLY <1>5, Zenon DEF RecordTyped
    <2> HIDE DEF merged
    <2> QED BY ONLY <2>1
  <1>7. counted.category = merged.category /\ counted.latest = merged.latest
        /\ counted.marks = merged.marks /\ counted.jobs = merged.jobs + 1
    <2> HIDE DEF merged, counted
    <2> QED BY ONLY <1>6
  <1>8. counted.matched = merged.matched
        /\ counted = [category |-> counted.category, latest |-> counted.latest,
                      marks |-> counted.marks, matched |-> counted.matched,
                      jobs |-> counted.jobs]
    <2> HIDE DEF merged, counted
    <2> QED BY ONLY <1>6, Zenon
  <1>9. StoreIncident(i, counted, r) /\ Catalogue(Reduced(i, r), r)
        /\ counted.category = Reduced(i, r).category
    BY <1>7
  <1> HIDE DEF merged, counted
  <1>10. RecordTyped(i, counted) /\ DOMAIN counted.marks = KeysWith(i, r)
    <2>1. counted.jobs \in Nat
      BY <1>5, <1>7 DEF RecordTyped
    <2>2. counted.matched \in BOOLEAN
      BY ONLY <1>5, <1>8, Zenon DEF RecordTyped
    <2> QED BY <1>5, <1>7, <1>8, <2>1, <2>2, Zenon DEF RecordTyped
  <1>11. incidents'[i] = counted
    BY <1>9 DEF StoreIncident, With
  <1>12. RecordsTyped' /\ ReferencesResolve' /\ Stored' = Stored \cup {i}
         /\ \A j \in Stored \ {i} : incidents'[j] = incidents[j]
    BY <1>1, <1>9, <1>10, StoringWrites
  <1>13. ListedByReport'
    BY <1>1, <1>9, <1>10, StoringCatalogues
  <1>14. made \in Seq([incident : Streams, report : Reports])
         /\ made' \in Seq([incident : Streams, report : Reports]) /\ Len(made') = n
         /\ made'[n].incident = i /\ \A m \in 1 .. Len(made) : made'[m] = made[m]
    <2>1. [incident |-> i, report |-> r] \in [incident : Streams, report : Reports]
      BY <1>1, <1>3
    <2>2. made \in Seq([incident : Streams, report : Reports])
      BY DEF IInv, WorkTyped
    <2>3. [incident |-> i, report |-> r].incident = i
      OBVIOUS
    <2> QED BY <1>2, <2>1, <2>2, <2>3, AppendProperties
  <1>15. WorkTyped'
    <2>1. n \in 1 .. n /\ \A m \in 1 .. Len(made) : m \in 1 .. n
      BY <1>1, <1>2
    <2>2. Len(made') + Len(inbox') <= ingested'
      BY <1>1, <1>2, <1>4, <1>14 DEF IInv, WorkTyped
    <2>3. matching' \in 0 .. Len(made')
      BY <1>1, <1>2, <1>4, <1>14 DEF IInv, WorkTyped
    <2>4. jobs' \subseteq 1 .. Len(made') /\ snapshots' \subseteq 1 .. Len(made')
          /\ batches' \subseteq 1 .. Len(made')
      BY <1>4, <1>14, <2>1 DEF IInv, WorkTyped
    <2> QED BY <1>1, <1>4, <1>14, <2>2, <2>3, <2>4 DEF IInv, WorkTyped
  <1>16. n \notin jobs /\ n \notin batches
         /\ \A m \in jobs \cup batches : m \in 1 .. Len(made)
    BY <1>1, <1>2 DEF IInv, WorkTyped
  <1>17. JobsCounted'
    <2>1. {m \in jobs' : made'[m].incident = i} = JobsOf(i) \cup {n}
      BY <1>14, <1>16 DEF JobsOf
    <2>2. \A j : j # i => {m \in jobs' : made'[m].incident = j} = JobsOf(j)
      BY <1>14, <1>16 DEF JobsOf
    <2>3. IsFiniteSet(JobsOf(i)) /\ n \notin JobsOf(i) /\ merged.jobs = Cardinality(JobsOf(i))
      <3>1. i \notin Stored => JobsOf(i) = {}
        BY JobsFinite
      <3> QED BY <1>5, <1>16, <3>1, JobsFinite, FS_EmptySet DEF JobsOf
    <2>4. Cardinality(JobsOf(i) \cup {n}) = Cardinality(JobsOf(i)) + 1
      BY <2>3, FS_AddElement
    <2>5. incidents'[i].jobs = Cardinality({m \in jobs' : made'[m].incident = i})
      BY <1>7, <1>11, <2>1, <2>3, <2>4
    <2>6. \A j \in Stored' :
            incidents'[j].jobs = Cardinality({m \in jobs' : made'[m].incident = j})
      <3> SUFFICES ASSUME NEW j \in Stored', j # i
                   PROVE  incidents'[j].jobs = Cardinality({m \in jobs' : made'[m].incident = j})
        BY <2>5
      <3>1. incidents[j].jobs = Cardinality(JobsOf(j)) /\ incidents'[j] = incidents[j]
        BY <1>12, JobsFinite
      <3> QED BY <2>2, <3>1
    <2>7. \A m \in jobs' : made'[m].incident \in Stored'
      BY <1>12, <1>14, <1>16 DEF IInv, JobsCounted
    <2> QED BY <2>6, <2>7 DEF JobsCounted
  <1>18. WorkIsBacked'
    <2>1. \A m \in jobs' \cup batches' : m \in snapshots' /\ made'[m].incident \in Stored'
      BY <1>4, <1>12, <1>14, <1>16 DEF IInv, WorkIsBacked
    <2> QED BY <1>4, <1>12, <2>1 DEF IInv, WorkIsBacked
  <1>19. StoredForAReason'
    <2>1. incidents'[i].jobs > 0
      BY <1>5, <1>7, <1>11 DEF RecordTyped
    <2>2. ASSUME NEW j \in Stored \ {i}
          PROVE  incidents'[j].jobs > 0 \/ incidents'[j].matched \/ InLedger(j)'
                 \/ incidents'[j].category = "report"
      BY <1>4, <1>12 DEF IInv, StoredForAReason, InLedger
    <2> QED BY <1>12, <2>1, <2>2 DEF StoredForAReason
  <1>20. MatchedIsKnown' /\ MatchedBeforeDelivered'
    <2>1. \A j \in Stored : incidents[j].matched => incidents'[j].matched
      BY <1>5, <1>8, <1>11, <1>12
    <2>2. MatchedIsKnown'
      BY <2>1, <1>4, <1>12, <1>14, <1>16 DEF IInv, MatchedIsKnown
    <2>3. MatchedBeforeDelivered'
      BY <2>1, <1>4, <1>12, <1>16 DEF IInv, MatchedBeforeDelivered
    <2> QED BY <2>2, <2>3
  <1> QED BY <1>12, <1>13, <1>15, <1>17, <1>18, <1>19, <1>20 DEF IInv

(* What has no job, no match and no delivery is in nobody's way.            *)
LEMMA RemovingUnused ==
  ASSUME IInv, NEW gone, RemoveIncidents(gone), UNCHANGED made,
         jobs' \subseteq jobs, batches' = batches,
         \A n \in jobs' \cup batches' : n \in snapshots',
         \A n \in jobs' \cup batches' : made[n].incident \notin gone,
         \A j \in Stored \ gone :
           {n \in jobs' : made[n].incident = j} = JobsOf(j),
         \A e \in ledger' : e \in ledger /\ e[1] \notin gone
  PROVE  JobsCounted' /\ WorkIsBacked' /\ StoredForAReason' /\ MatchedIsKnown'
         /\ MatchedBeforeDelivered'
  <1>1. Stored' = Stored \ gone /\ \A j \in Stored' : incidents'[j] = incidents[j]
    BY RemovingWrites
  <1>2. \A n \in jobs' \cup batches' : made'[n].incident \in Stored'
    BY <1>1 DEF IInv, WorkIsBacked
  <1>3. JobsCounted'
    <2>1. \A j \in Stored' :
            incidents'[j].jobs = Cardinality({n \in jobs' : made'[n].incident = j})
      BY <1>1, JobsFinite
    <2> QED BY <1>2, <2>1 DEF JobsCounted
  <1>4. WorkIsBacked'
    BY <1>1, <1>2 DEF IInv, WorkIsBacked
  <1>5. \A j \in Stored : InLedger(j) => incidents[j].matched
    BY DEF IInv, MatchedBeforeDelivered, InLedger
  <1>6. StoredForAReason'
    BY <1>1, <1>5 DEF IInv, StoredForAReason
  <1>7. MatchedIsKnown'
    BY <1>1, <1>2 DEF IInv, MatchedIsKnown
  <1>8. MatchedBeforeDelivered'
    BY <1>1 DEF IInv, MatchedBeforeDelivered
  <1> QED BY <1>3, <1>4, <1>6, <1>7, <1>8

(* The aliases that lead to a report's incident stay when others go.        *)
LEMMA RemovingListed ==
  ASSUME IInv, NEW gone, RemoveIncidents(gone),
         \A c \in catalogued' : c[2] = "report" =>
           c \in catalogued /\ aliases[c[1]] \notin gone
  PROVE  ListedByReport'
  <1> SUFFICES ASSUME NEW c \in catalogued', c[2] = "report"
               PROVE  c[1] \in DOMAIN aliases' /\ incidents'[aliases'[c[1]]].category = "report"
    BY DEF ListedByReport
  <1>1. c \in catalogued /\ aliases[c[1]] \notin gone
    OBVIOUS
  <1>2. c[1] \in DOMAIN aliases /\ incidents[aliases[c[1]]].category = "report"
        /\ aliases[c[1]] \in Stored
    BY <1>1 DEF IInv, ListedByReport, ReferencesResolve
  <1>3. c[1] \in DOMAIN aliases' /\ aliases'[c[1]] = aliases[c[1]]
    <2>1. DOMAIN aliases' = {s \in DOMAIN aliases : aliases[s] \notin gone}
          /\ \A s \in DOMAIN aliases' : aliases'[s] = aliases[s]
      BY RemovingWrites
    <2> QED BY <1>1, <1>2, <2>1
  <1>4. incidents'[aliases[c[1]]] = incidents[aliases[c[1]]]
    BY <1>1, <1>2, RemovingWrites
  <1> QED BY <1>2, <1>3, <1>4

(* A discarded incident had neither a job nor a delivery.                   *)
LEMMA DiscardReportStep ==
  ASSUME IInv, DiscardReport
  PROVE  IInv'
  <1> DEFINE r == Head(inbox)
  <1> PICK i \in Resolved(r), stale \in StaleChoices(r) :
             /\ IsNews(i, r) /\ ~KeepsUnmatched(i, Reduced(i, r), r)
             /\ RemoveIncidents({i}) /\ Catalogue(Reduced(i, r), r)
    BY DEF DiscardReport
  <1>1. r \in Reports /\ WorkTyped'
    BY TakenReport DEF DiscardReport, IInv, WorkTyped
  <1>2. UNCHANGED <<made, jobs, snapshots, batches, ledger>>
    BY DEF DiscardReport
  <1> HIDE DEF r
  <1>3. (i \in Stored => Reduced(i, r).category = incidents[i].category
                       /\ Reduced(i, r).matched = incidents[i].matched
                       /\ Reduced(i, r).jobs = incidents[i].jobs)
        /\ (i \notin Stored => Reduced(i, r).category = Category[r.stream])
    BY <1>1, ReducedTyped
  <1>4. ASSUME i \in Stored
        PROVE  incidents[i].jobs = 0 /\ ~incidents[i].matched /\ ~InLedger(i)
               /\ incidents[i].category # "report"
    <2>1. incidents[i].jobs \in Nat
      BY <1>4 DEF IInv, RecordsTyped, RecordTyped
    <2> QED BY <1>3, <1>4, <2>1 DEF KeepsUnmatched
  <1>5. RecordsTyped' /\ ReferencesResolve'
    BY RemovingWrites
  <1>6. \A n \in jobs \cup batches : made[n].incident # i
    <2>1. ASSUME NEW n \in jobs PROVE made[n].incident # i
      BY <1>4, NoJobs DEF IInv, JobsCounted, JobsOf
    <2>2. ASSUME NEW n \in batches PROVE made[n].incident # i
      BY <1>4 DEF IInv, MatchedIsKnown
    <2> QED BY <2>1, <2>2
  <1>7. \A e \in ledger : e[1] # i
    BY <1>4 DEF IInv, MatchedBeforeDelivered, InLedger
  <1>8. JobsCounted' /\ WorkIsBacked' /\ StoredForAReason' /\ MatchedIsKnown'
        /\ MatchedBeforeDelivered'
    <2>1. \A n \in jobs' \cup batches' : n \in snapshots' /\ made[n].incident \notin {i}
      BY <1>2, <1>6 DEF IInv, WorkIsBacked
    <2>2. \A j \in Stored \ {i} : {n \in jobs' : made[n].incident = j} = JobsOf(j)
      BY <1>2 DEF JobsOf
    <2>3. \A e \in ledger' : e \in ledger /\ e[1] \notin {i}
      BY <1>2, <1>7
    <2> QED BY <1>2, <2>1, <2>2, <2>3, RemovingUnused
  <1>9. ListedByReport'
    <2>1. ASSUME NEW c \in catalogued', c[2] = "report"
          PROVE  c \in catalogued /\ aliases[c[1]] \notin {i}
      <3>1. c \in catalogued
        <4>1. ASSUME c \notin catalogued PROVE FALSE
          <5>1. c = <<r.stream, Reduced(i, r).category>> /\ Category[r.stream] = "report"
                /\ ~r.training /\ ~r.cancel
            BY <4>1 DEF Catalogue
          <5>2. Reduced(i, r).category = "report"
            BY <2>1, <5>1
          <5> QED BY <5>1, <5>2 DEF KeepsUnmatched
        <4> QED BY <4>1
      <3>2. aliases[c[1]] \in Stored /\ incidents[aliases[c[1]]].category = "report"
        BY <2>1, <3>1 DEF IInv, ListedByReport, ReferencesResolve
      <3> QED BY <1>4, <3>1, <3>2
    <2> QED BY <2>1, RemovingListed
  <1> QED BY <1>1, <1>5, <1>8, <1>9 DEF IInv

(* A record of the five fields with other values for two of them.           *)
LEMMA RecordWith ==
  ASSUME NEW rec, NEW wNew, NEW jNew,
         rec = [category |-> rec.category, latest |-> rec.latest, marks |-> rec.marks,
                matched |-> rec.matched, jobs |-> rec.jobs]
  PROVE  [rec EXCEPT !.jobs = jNew, !.matched = wNew]
           = [category |-> rec.category, latest |-> rec.latest, marks |-> rec.marks,
              matched |-> wNew, jobs |-> jNew]
  <1> DEFINE Fields == {"category", "latest", "marks", "matched", "jobs"}
             written == [x \in Fields |-> IF x = "matched" THEN wNew
                                          ELSE IF x = "jobs" THEN jNew ELSE rec[x]]
  <1>1. DOMAIN rec = Fields
    OBVIOUS
  <1>2. [rec EXCEPT !.jobs = jNew, !.matched = wNew]
          = [x \in DOMAIN rec |-> IF x = "matched" THEN wNew
                                  ELSE IF x = "jobs" THEN jNew ELSE rec[x]]
    BY Zenon
  <1>3. [rec EXCEPT !.jobs = jNew, !.matched = wNew] = written
    BY <1>1, <1>2
  <1>4. written = [category |-> rec.category, latest |-> rec.latest, marks |-> rec.marks,
              matched |-> wNew, jobs |-> jNew]
    OBVIOUS
  <1> QED BY <1>3, <1>4, Zenon

(* What the commit of a match writes of its incident: one job less, and     *)
(* matched if a row was found.                                              *)
LEMMA CommitMatchStep ==
  ASSUME IInv, CommitMatch
  PROVE  IInv'
  <1> DEFINE n == matching
             i == made[n].incident
             old == incidents[i]
             record == [old EXCEPT !.jobs = @ - 1, !.matched = MatchedAfter(old)]
  <1>1. n \in jobs /\ jobs' = jobs \ {n} /\ UNCHANGED <<inbox, rejected, made, ledger, ingested, catalogued>>
        /\ batches' = (IF found THEN batches \cup {n} ELSE batches)
        /\ snapshots' = (IF found THEN snapshots ELSE snapshots \ {n})
        /\ matching' = 0 /\ found' = FALSE
    BY DEF CommitMatch
  <1>2. i \in Stored /\ n \in snapshots /\ n \notin batches /\ n \in 1 .. Len(made)
    BY <1>1 DEF IInv, JobsCounted, WorkIsBacked, MatchedBeforeDelivered, WorkTyped
  <1>3. old.jobs > 0
        /\ \/ /\ found \/ KeepsAfterEmptyMatch(i, record)
              /\ incidents' = [incidents EXCEPT ![i] = record]
              /\ UNCHANGED <<aliases, correlation>>
           \/ ~found /\ ~KeepsAfterEmptyMatch(i, record) /\ RemoveIncidents({i})
    BY <1>2 DEF CommitMatch
  <1>4. RecordTyped(i, old)
    BY <1>2 DEF IInv, RecordsTyped
  <1>5. record = [category |-> old.category, latest |-> old.latest, marks |-> old.marks,
                  matched |-> MatchedAfter(old), jobs |-> old.jobs - 1]
    <2>1. old = [category |-> old.category, latest |-> old.latest, marks |-> old.marks,
                 matched |-> old.matched, jobs |-> old.jobs]
      BY ONLY <1>4, Zenon DEF RecordTyped
    <2> HIDE DEF old
    <2>2. [old EXCEPT !.jobs = old.jobs - 1, !.matched = MatchedAfter(old)]
            = [category |-> old.category, latest |-> old.latest, marks |-> old.marks,
               matched |-> MatchedAfter(old), jobs |-> old.jobs - 1]
      BY ONLY <2>1, RecordWith, Zenon
    <2> QED BY ONLY <2>2, Zenon DEF record
  <1>6. record.category = old.category /\ record.latest = old.latest
        /\ record.marks = old.marks /\ record.jobs = old.jobs - 1
    <2> HIDE DEF old, record
    <2> QED BY ONLY <1>5
  <1>7. (record.matched <=> old.matched \/ found)
        /\ record.matched \in BOOLEAN
        /\ record = [category |-> record.category, latest |-> record.latest,
                     marks |-> record.marks, matched |-> record.matched, jobs |-> record.jobs]
    <2>1. record.matched = (old.matched \/ found)
      <3> HIDE DEF old, record
      <3> QED BY ONLY <1>5, Zenon DEF MatchedAfter
    <2>2. record = [category |-> record.category, latest |-> record.latest,
                    marks |-> record.marks, matched |-> record.matched, jobs |-> record.jobs]
      <3> HIDE DEF old, record
      <3> QED BY ONLY <1>5, Zenon
    <2> HIDE DEF old, record
    <2>3. (old.matched \/ found) \in BOOLEAN
      OBVIOUS
    <2>4. record.matched \in BOOLEAN
      BY ONLY <2>1, <2>3, Zenon
    <2>5. record.matched <=> old.matched \/ found
      BY ONLY <2>1, Zenon
    <2> QED BY ONLY <2>2, <2>4, <2>5, Zenon
  <1>8. WorkTyped'
    <2>1. Len(made) \in Nat /\ matching' \in 0 .. Len(made)
      BY <1>1 DEF IInv, WorkTyped
    <2>2. found' \in BOOLEAN
      BY <1>1, Zenon
    <2> QED BY <1>1, <1>2, <2>1, <2>2 DEF IInv, WorkTyped
  <1>9. JobsOf(i) \ {n} = {m \in jobs' : made[m].incident = i}
        /\ (\A j \in Stored \ {i} : JobsOf(j) = {m \in jobs' : made[m].incident = j})
        /\ Cardinality(JobsOf(i) \ {n}) = old.jobs - 1
        /\ IsFiniteSet(JobsOf(i) \ {n})
    <2>1. JobsOf(i) \ {n} = {m \in jobs' : made[m].incident = i}
          /\ (\A j \in Stored \ {i} : JobsOf(j) = {m \in jobs' : made[m].incident = j})
      BY <1>1 DEF JobsOf
    <2>2. n \in JobsOf(i)
      BY <1>1 DEF JobsOf
    <2>3. IsFiniteSet(JobsOf(i)) /\ old.jobs = Cardinality(JobsOf(i))
      BY <1>2, JobsFinite
    <2> HIDE DEF old, n, i
    <2> QED BY <2>1, <2>2, <2>3, FS_RemoveElement
  <1>10. \A m \in jobs' \cup batches' : m \in snapshots'
    BY <1>1, <1>2 DEF IInv, WorkIsBacked
  <1>11. CASE /\ found \/ KeepsAfterEmptyMatch(i, record)
              /\ incidents' = [incidents EXCEPT ![i] = record]
              /\ UNCHANGED <<aliases, correlation>>
    <2> HIDE DEF record, old, i, n
    <2>1. Stored' = Stored /\ incidents'[i] = record
          /\ \A j \in Stored \ {i} : incidents'[j] = incidents[j]
      BY <1>2, <1>11 DEF Stored
    <2>2. RecordTyped(i, record)
      <3>1. record.jobs \in Nat
        BY <1>3, <1>4, <1>6 DEF RecordTyped
      <3> QED BY <1>4, <1>6, <1>7, <3>1, Zenon DEF RecordTyped
    <2>3. RecordsTyped'
      <3>1. \A j \in Stored' : j \in Streams /\ RecordTyped(j, incidents'[j])
        BY <2>1, <2>2 DEF IInv, RecordsTyped
      <3>2. \A j \in Stored' : RecordTyped(j, incidents[j])'
        BY <3>1 DEF RecordTyped
      <3> QED BY <3>1, <3>2 DEF RecordsTyped
    <2>4. ReferencesResolve'
      <3>1. \A j \in Stored : incidents'[j].marks = incidents[j].marks
        BY <1>6, <2>1 DEF old
      <3> QED BY <2>1, <3>1, <1>11 DEF IInv, ReferencesResolve, KeysOf
    <2>5. JobsCounted'
      <3>1. \A m \in jobs' : made'[m].incident \in Stored'
        BY <1>1, <2>1 DEF IInv, JobsCounted
      <3>2. \A j \in Stored \ {i} : incidents'[j].jobs = Cardinality(JobsOf(j))
        BY <2>1, JobsFinite
      <3>3. \A j \in Stored' :
              incidents'[j].jobs = Cardinality({m \in jobs' : made'[m].incident = j})
        <4>1. incidents'[i].jobs = Cardinality({m \in jobs' : made'[m].incident = i})
          BY <1>1, <1>6, <1>9, <2>1
        <4>2. \A j \in Stored \ {i} :
                incidents'[j].jobs = Cardinality({m \in jobs' : made'[m].incident = j})
          BY <1>1, <1>9, <3>2
        <4> QED BY <2>1, <4>1, <4>2
      <3> QED BY <3>1, <3>3 DEF JobsCounted
    <2>6. \A j \in Stored : incidents[j].matched => incidents'[j].matched
      BY <1>7, <2>1 DEF old
    <2>7. WorkIsBacked' /\ MatchedIsKnown' /\ MatchedBeforeDelivered'
      <3>1. found => incidents'[i].matched
        BY <1>7, <2>1
      <3>2. WorkIsBacked'
        BY <1>1, <1>2, <1>10, <2>1 DEF IInv, WorkIsBacked, i
      <3>3. MatchedIsKnown'
        BY <1>1, <1>2, <2>1, <2>6, <3>1 DEF IInv, MatchedIsKnown, i
      <3>4. MatchedBeforeDelivered'
        BY <1>1, <2>1, <2>6 DEF IInv, MatchedBeforeDelivered
      <3> QED BY <3>2, <3>3, <3>4
    <2>8. StoredForAReason'
      <3>1. incidents'[i].jobs > 0 \/ incidents'[i].matched \/ InLedger(i)
            \/ incidents'[i].category = "report"
        BY <1>7, <1>11, <2>1 DEF KeepsAfterEmptyMatch
      <3>2. \A j : InLedger(j) <=> InLedger(j)'
        BY <1>1 DEF InLedger
      <3> QED BY <2>1, <3>1, <3>2 DEF IInv, StoredForAReason
    <2>9. ListedByReport'
      <3>1. \A j \in Stored : incidents'[j].category = incidents[j].category
        BY <1>6, <2>1 DEF old
      <3> QED BY <1>1, <1>11, <3>1 DEF IInv, ListedByReport, ReferencesResolve
    <2> QED BY <1>8, <2>3, <2>4, <2>5, <2>7, <2>8, <2>9 DEF IInv
  <1>12. CASE ~found /\ ~KeepsAfterEmptyMatch(i, record) /\ RemoveIncidents({i})
    <2> HIDE DEF record, old, i, n
    <2>1. old.jobs = 1 /\ ~old.matched /\ ~InLedger(i) /\ old.category # "report"
      BY <1>3, <1>4, <1>6, <1>7, <1>12 DEF KeepsAfterEmptyMatch, RecordTyped
    <2>2. {m \in jobs' : made[m].incident = i} = {}
      BY <1>9, <2>1, FS_EmptySet
    <2>3. \A m \in jobs' \cup batches' : made[m].incident \notin {i}
      BY <1>1, <1>12, <2>1, <2>2 DEF IInv, MatchedIsKnown, old
    <2>4. \A e \in ledger' : e \in ledger /\ e[1] \notin {i}
      BY <1>1, <2>1 DEF InLedger
    <2>5. UNCHANGED made /\ jobs' \subseteq jobs /\ batches' = batches
      BY <1>1, <1>12
    <2>6. JobsCounted' /\ WorkIsBacked' /\ StoredForAReason' /\ MatchedIsKnown'
          /\ MatchedBeforeDelivered'
      BY <1>9, <1>10, <1>12, <2>3, <2>4, <2>5, RemovingUnused
    <2>7. ListedByReport'
      <3>1. \A c \in catalogued' : c[2] = "report" =>
              c \in catalogued /\ aliases[c[1]] \notin {i}
        BY <1>1, <2>1 DEF IInv, ListedByReport, old
      <3> QED BY <1>12, <3>1, RemovingListed
    <2> QED BY <1>8, <1>12, <2>6, <2>7, RemovingWrites DEF IInv
  <1> QED BY <1>3, <1>11, <1>12

(* The match of a job and the delivery of what it found write no record.    *)
LEMMA MatchingAndDeliverySteps ==
  ASSUME IInv,
         (\E n \in jobs : BeginMatch(n)) \/ (\E n \in batches : RecordDelivery(n) \/ FinishBatch(n))
  PROVE  IInv'
  <1>1. ASSUME NEW n \in jobs, BeginMatch(n)
        PROVE  IInv'
    <2>1. UNCHANGED durable /\ UNCHANGED observed /\ matching' = n
      BY <1>1 DEF BeginMatch
    <2>2. found' \in BOOLEAN
      <3>1. CASE made[n].report.cancel
        <4>1. found' = (LedgerKey(n) \in ledger)
          BY <1>1, <3>1 DEF BeginMatch
        <4>2. (LedgerKey(n) \in ledger) \in BOOLEAN
          OBVIOUS
        <4> QED BY ONLY <4>1, <4>2, Zenon
      <3>2. CASE ~made[n].report.cancel
        BY <1>1, <3>2 DEF BeginMatch
      <3> QED BY <3>1, <3>2
    <2>3. n \in 0 .. Len(made)
      BY DEF IInv, WorkTyped
    <2>4. WorkTyped'
      BY <2>1, <2>2, <2>3 DEF IInv, WorkTyped, durable, observed
    <2> QED BY <2>1, <2>4, QuietStep DEF durable, observed
  <1>2. ASSUME NEW n \in batches, RecordDelivery(n)
        PROVE  IInv'
    <2>1. UNCHANGED <<inbox, rejected, incidents, aliases, correlation, made, jobs, snapshots,
                      batches, matching, found, observed>>
          /\ ledger' = ledger \cup {LedgerKey(n)}
      BY <1>2 DEF RecordDelivery
    <2>2. WorkTyped' /\ RecordsTyped' /\ ReferencesResolve' /\ JobsCounted' /\ MatchedIsKnown'
          /\ ListedByReport'
      <3>1. WorkTyped'
        BY <2>1 DEF IInv, WorkTyped, observed
      <3>2. RecordsTyped'
        BY <2>1 DEF IInv, RecordsTyped, RecordTyped, Stored
      <3>3. ReferencesResolve'
        BY <2>1 DEF IInv, ReferencesResolve, Stored, KeysOf
      <3>4. JobsCounted' /\ MatchedIsKnown' /\ ListedByReport'
        BY <2>1 DEF IInv, JobsCounted, MatchedIsKnown, ListedByReport, Stored, observed
      <3> QED BY <3>1, <3>2, <3>3, <3>4
    <2>3. LedgerKey(n)[1] \in Stored /\ incidents[LedgerKey(n)[1]].matched
      BY DEF IInv, MatchedIsKnown, LedgerKey
    <2>4. WorkIsBacked' /\ MatchedBeforeDelivered'
      BY <2>1, <2>3 DEF IInv, WorkIsBacked, MatchedBeforeDelivered, Stored
    <2>5. StoredForAReason'
      BY <2>1 DEF IInv, StoredForAReason, Stored, InLedger
    <2> QED BY <2>2, <2>4, <2>5 DEF IInv
  <1>3. ASSUME NEW n \in batches, FinishBatch(n)
        PROVE  IInv'
    <2>1. UNCHANGED <<inbox, rejected, incidents, aliases, correlation, made, jobs, snapshots,
                      ledger, matching, found, observed>>
          /\ batches' = batches \ {n}
      BY <1>3 DEF FinishBatch
    <2>2. WorkTyped' /\ RecordsTyped' /\ ReferencesResolve' /\ JobsCounted' /\ ListedByReport'
      <3>1. WorkTyped'
        BY <2>1 DEF IInv, WorkTyped, observed
      <3>2. RecordsTyped'
        BY <2>1 DEF IInv, RecordsTyped, RecordTyped, Stored
      <3>3. ReferencesResolve'
        BY <2>1 DEF IInv, ReferencesResolve, Stored, KeysOf
      <3>4. JobsCounted' /\ ListedByReport'
        BY <2>1 DEF IInv, JobsCounted, ListedByReport, Stored, observed
      <3> QED BY <3>1, <3>2, <3>3, <3>4
    <2>3. WorkIsBacked' /\ MatchedIsKnown' /\ MatchedBeforeDelivered' /\ StoredForAReason'
      BY <2>1 DEF IInv, WorkIsBacked, MatchedIsKnown, MatchedBeforeDelivered,
                  StoredForAReason, Stored, InLedger
    <2> QED BY <2>2, <2>3 DEF IInv
  <1> QED BY <1>1, <1>2, <1>3

(* The prune takes no incident, snapshot or delivery in use.                *)
LEMMA RestartStep ==
  ASSUME IInv, Restart
  PROVE  IInv'
  <1> PICK oldIncidents \in SUBSET Stored :
        /\ RemoveIncidents(Unreferenced(oldIncidents))
        /\ catalogued' = {c \in catalogued : c[1] \notin DOMAIN aliases
                              \/ aliases[c[1]] \notin Unreferenced(oldIncidents)}
    BY DEF Restart
  <1> PICK oldSnapshots \in SUBSET snapshots :
        snapshots' = snapshots \ UnreferencedRevisions(oldSnapshots)
    BY DEF Restart
  <1> DEFINE gone == Unreferenced(oldIncidents)
  <1>1. UNCHANGED <<inbox, rejected, made, jobs, batches, ingested>> /\ ledger' \subseteq ledger
        /\ matching' = 0 /\ found' = FALSE
    BY DEF Restart
  <1>2. (\A n \in jobs \cup batches : made[n].incident \notin gone)
        /\ \A e \in ledger : e[1] \notin gone
    BY DEF Unreferenced, InLedger
  <1>3. \A n \in jobs \cup batches : n \in snapshots'
    BY DEF UnreferencedRevisions, IInv, WorkIsBacked
  <1>4. WorkTyped'
    <2>1. Len(made) \in Nat /\ matching' \in 0 .. Len(made)
      BY <1>1 DEF IInv, WorkTyped
    <2>2. found' \in BOOLEAN
      BY <1>1, Zenon
    <2> QED BY <1>1, <2>1, <2>2 DEF IInv, WorkTyped
  <1>5. \A j \in Stored \ gone : {n \in jobs' : made[n].incident = j} = JobsOf(j)
    BY <1>1 DEF JobsOf
  <1>6. RemoveIncidents(gone)
    OBVIOUS
  <1>7. \A c \in catalogued' : c[2] = "report" => c \in catalogued /\ aliases[c[1]] \notin gone
    BY DEF IInv, ListedByReport
  <1> HIDE DEF gone
  <1>8. JobsCounted' /\ WorkIsBacked' /\ StoredForAReason' /\ MatchedIsKnown'
        /\ MatchedBeforeDelivered'
    BY <1>1, <1>2, <1>3, <1>5, <1>6, RemovingUnused
  <1>9. ListedByReport'
    BY <1>6, <1>7, RemovingListed
  <1> QED BY <1>4, <1>6, <1>8, <1>9, RemovingWrites DEF IInv

(* Every step of the coordinator, the match engine, the delivery and the    *)
(* prune keeps the records, the indexes and the counters in agreement.      *)
LEMMA StepInvariant == IInv /\ [Next]_vars => IInv'
  <1> SUFFICES ASSUME IInv, [Next]_vars PROVE IInv'
    OBVIOUS
  <1>1. CASE UNCHANGED vars
    <2>1. WorkTyped'
      BY <1>1 DEF vars, durable, observed, IInv, WorkTyped
    <2> QED BY <1>1, <2>1, QuietStep DEF vars, durable, observed
  <1>2. CASE \E r \in Reports : Ingest(r)
    BY <1>2, InboxSteps
  <1>3. CASE ProcessReport
    BY <1>3, InboxSteps, MatchReportStep, StoreReportStep, DiscardReportStep DEF ProcessReport
  <1>4. CASE CommitMatch
    BY <1>4, CommitMatchStep
  <1>5. CASE (\E n \in jobs : BeginMatch(n))
             \/ (\E n \in batches : RecordDelivery(n) \/ FinishBatch(n))
    BY <1>5, MatchingAndDeliverySteps
  <1>6. CASE Restart
    BY <1>6, RestartStep
  <1> QED BY <1>1, <1>2, <1>3, <1>4, <1>5, <1>6 DEF Next

(* Every reachable state of the incident store satisfies the invariant.      *)
THEOREM InvariantHolds == Spec => []IInv
  BY InitInvariant, StepInvariant, PTL DEF Spec

-----------------------------------------------------------------------------
(* The properties *)

(* The records, the indexes, the counters and the prune agree: every alias  *)
(* leads to the incident that owns the stream, the pending jobs are exactly *)
(* those counted, work in progress has its snapshot and its incident, and   *)
(* an incident is stored for one of the reasons of the retention table.     *)
THEOREM RecordsAreConsistent == Spec => []RecordsConsistent
  <1>1. IInv => RecordsConsistent
    <2> SUFFICES ASSUME IInv PROVE RecordsConsistent
      OBVIOUS
    <2>1. ASSUME NEW i \in Stored
          PROVE  Cardinality(KeysOf(i)) \in 1 .. MaxMarks
      <3>1. IsFiniteSet(KeysOf(i)) /\ i \in KeysOf(i) /\ Cardinality(KeysOf(i)) <= MaxMarks
        BY DEF IInv, RecordsTyped, RecordTyped, KeysOf
      <3>2. Cardinality(KeysOf(i)) \in Nat /\ Cardinality(KeysOf(i)) # 0
        BY <3>1, FS_CardinalityType, FS_EmptySet
      <3> QED BY <3>1, <3>2
    <2>2. \A i \in Stored :
            /\ KeysOf(i) \subseteq Streams /\ Cardinality(KeysOf(i)) \in 1 .. MaxMarks
            /\ incidents[i].latest \in Seq(KeysOf(i)) /\ Len(incidents[i].latest) <= MaxLatest
            /\ incidents[i].jobs \in Nat /\ incidents[i].matched \in BOOLEAN
      BY <2>1 DEF IInv, RecordsTyped, RecordTyped, KeysOf
    <2>3. matching \in Revisions \cup {0}
      <3>1. Len(made) \in Nat /\ Len(inbox) \in Nat
        BY DEF IInv, WorkTyped
      <3> QED BY <3>1 DEF IInv, WorkTyped, Revisions
    <2>4. TypeOK
      BY <2>2, <2>3 DEF IInv, TypeOK, RecordsTyped, WorkTyped
    <2> QED BY <2>4 DEF IInv, RecordsConsistent
  <1> QED BY <1>1, InvariantHolds, PTL

(* A report of the catalogue stays listed until it is pruned, whatever is   *)
(* merged into its incident and whatever the matching of it finds.          *)
THEOREM CatalogueIsKept == Spec => []ReportsStayListed
  <1>1. IInv => ReportsStayListed
    BY DEF IInv, ListedByReport, ReportsStayListed
  <1> QED BY <1>1, InvariantHolds, PTL
=============================================================================
