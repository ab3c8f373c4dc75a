----------------------------- MODULE Incidents -----------------------------
(***************************************************************************)
(* From the inbox to the match output: the event coordinator merges        *)
(* reports into incidents and decides which to match, the match engine     *)
(* commits what the matching of a job found, and the startup prunes        *)
(* (src/events, src/models/incident.rs, src/storage/fjall.rs).             *)
(*                                                                         *)
(* The id of an incident is derived from the stream of its first report,   *)
(* so that ids are streams here.  All reports are within each other's      *)
(* correlation window, and all are earthquakes, the only categories left   *)
(* with a source.                                                          *)
(***************************************************************************)
EXTENDS Watermark, Sequences

LOCAL INSTANCE SequencesExt

CONSTANTS
  Streams,         (* (category, source, event_id) of the reports          *)
  Source,          (* Source[s]: the source of a stream                    *)
  Category,        (* Category[s]: "warning" or "report"                   *)
  Similar,         (* pairs of streams near in place and magnitude         *)
  Reports,         (* the reports that may arrive, any number of times     *)
  MaxMarks,        (* MAX_STREAM_WATERMARKS and MAX_SOURCE_EVENT_KEYS      *)
  MaxLatest,       (* MAX_LATEST_SOURCES                                   *)
  MaxCandidates,   (* MAX_CORRELATION_CANDIDATES                           *)
  PushUpdates,     (* PUSH_UPDATES                                         *)
  MinGap,          (* UPDATE_MIN_REPORT_GAP                                *)
  IgnoreTraining,  (* IGNORE_TRAINING                                      *)
  IgnoreCancel,    (* IGNORE_CANCEL                                        *)
  CheckStale,      (* STALE_ORIGIN_SECONDS > 0                             *)
  MaxIngested,     (* bound on the reports ever ingested                   *)
  MaxRestarts      (* bound on the restarts                                *)

ASSUME PolicyAssumption ==
  /\ MinGap \in Nat /\ MaxMarks \in Nat \ {0} /\ MaxLatest \in Nat \ {0}
  /\ {PushUpdates, IgnoreTraining, IgnoreCancel, CheckStale} \subseteq BOOLEAN
  /\ \A r \in Reports : r.stream \in Streams /\ r.num \in Nat

ASSUME BoundsAssumption == MaxIngested \in Nat /\ MaxRestarts \in Nat

VARIABLES
  inbox,           (* inbox, by id                                         *)
  rejected,        (* rejected_inbox                                       *)
  incidents,       (* incidents: a function on the ids stored              *)
  aliases,         (* incident_aliases and its reverse: stream to id       *)
  correlation,     (* incident_correlation and its reverse: <<id, stream>> *)
  made,            (* made[n]: incident and report of the n-th match job   *)
  jobs,            (* match_jobs                                           *)
  snapshots,       (* events: the revisions stored                         *)
  batches,         (* delivery_batches: the revisions with rows to deliver *)
  ledger,          (* ledger: <<incident, category>> with a delivery       *)
  matching,        (* the job in process_match_job, 0 if none              *)
  found,           (* whether its matching found a row                     *)
  ingested,        (* observation: reports ingested                        *)
  restarts,        (* observation: restarts                                *)
  catalogued       (* observation: <<stream, incident's category>> of the  *)
                   (* real reports merged since their incident was created *)

durable == <<inbox, rejected, incidents, aliases, correlation, made, jobs, snapshots,
             batches, ledger>>
observed == <<ingested, restarts, catalogued>>
vars == <<durable, matching, found, observed>>

-----------------------------------------------------------------------------
Revisions == 1 .. MaxIngested
Stored == DOMAIN incidents
KeysOf(i) == DOMAIN incidents[i].marks     (* source_event_keys            *)
InLedger(i) == \E e \in ledger : e[1] = i

With(f, x, v) == [y \in DOMAIN f \cup {x} |-> IF y = x THEN v ELSE f[y]]
Without(f, S) == [y \in DOMAIN f \ S |-> f[y]]

(* Every variable keeps its type.                                          *)
TypeOK ==
  /\ inbox \in Seq(Reports)
  /\ rejected \in SUBSET Reports
  /\ Stored \subseteq Streams
  /\ \A i \in Stored :
       /\ KeysOf(i) \subseteq Streams /\ Cardinality(KeysOf(i)) \in 1 .. MaxMarks
       /\ incidents[i].latest \in Seq(KeysOf(i)) /\ Len(incidents[i].latest) <= MaxLatest
       /\ incidents[i].jobs \in Nat /\ incidents[i].matched \in BOOLEAN
  /\ jobs \cup snapshots \cup batches \subseteq 1 .. Len(made)
  /\ matching \in Revisions \cup {0}

-----------------------------------------------------------------------------
(* find_correlated_incident: an incident without a report of this source,  *)
(* one of whose latest reports is similar; the best score is any of them.  *)
Correlated(r) ==
  {i \in {e[1] : e \in correlation} :
     LET latest == ToSet(incidents[i].latest) IN
     /\ \A t \in latest : Source[t] # Source[r.stream]
     /\ \E t \in latest : <<t, r.stream>> \in Similar}

TooManyCandidates(r) ==
  r.stream \notin DOMAIN aliases /\ r.timed /\ Cardinality(correlation) > MaxCandidates

(* resolve_incident.                                                       *)
Resolved(r) ==
  IF r.stream \in DOMAIN aliases THEN {aliases[r.stream]}
  ELSE IF r.timed /\ Correlated(r) # {} THEN Correlated(r)
  ELSE {r.stream}

(* IncidentRecord::apply_outcome.                                          *)
OutcomeIn(i, r) ==
  IF i \notin Stored THEN "applied"
  ELSE IF r.stream \in KeysOf(i) THEN Outcome(incidents[i].marks[r.stream], r)
  ELSE IF Cardinality(KeysOf(i)) >= MaxMarks THEN "capacity"
  ELSE "applied"

LatestWith(latest, s) ==
  IF s \in ToSet(latest) THEN latest
  ELSE Append(IF Len(latest) >= MaxLatest THEN Tail(latest) ELSE latest, s)

(* reduce_incident_at, for an outcome "applied".                           *)
Reduced(i, r) ==
  IF i \notin Stored
  THEN [category |-> Category[r.stream], latest |-> <<r.stream>>,
        marks |-> [s \in {r.stream} |-> FirstMark(r)], matched |-> FALSE, jobs |-> 0]
  ELSE [incidents[i] EXCEPT
          !.latest = LatestWith(@, r.stream),
          !.marks = With(@, r.stream, IF r.stream \in DOMAIN @
                                      THEN Committed(@[r.stream], r) ELSE FirstMark(r))]

PreviousNumber(i, r) ==
  IF i \in Stored /\ r.stream \in KeysOf(i) THEN incidents[i].marks[r.stream].num ELSE 0

ReportGap == IF MinGap = 0 THEN 1 ELSE MinGap

(* EventCoordinator::should_match.                                         *)
ShouldMatch(i, r, stale) ==
  /\ ~(r.training /\ IgnoreTraining)
  /\ ~(r.cancel /\ IgnoreCancel)
  /\ ~stale
  /\ \/ r.cancel
     \/ i \notin Stored
     \/ /\ PushUpdates
        /\ r.num >= PreviousNumber(i, r) + ReportGap \/ r.final

(* stale_origin: the origin is too long ago, or unknown.                   *)
StaleChoices(r) == IF ~CheckStale THEN {FALSE} ELSE IF r.timed THEN BOOLEAN ELSE {TRUE}

NoCatalogue(i, record, r) ==           (* mutant: reports are not listed   *)
  record.matched \/ record.jobs > 0 \/ InLedger(i)

(* keep_unmatched_incident.                                                *)
KeepsUnmatched(i, record, r) ==
  \/ record.matched \/ record.jobs > 0 \/ InLedger(i)
  \/ record.category = "report" /\ (i \in Stored \/ (~r.training /\ ~r.cancel))

ForgetsJobs(i, record) ==              (* mutant: other jobs are forgotten *)
  record.matched \/ InLedger(i) \/ record.category = "report"

(* keep_incident_after_empty_match.                                        *)
KeepsAfterEmptyMatch(i, record) ==
  record.matched \/ record.jobs > 0 \/ InLedger(i) \/ record.category = "report"

(* remove_incident_indexes.                                                *)
AliasesWithout(gone) == Without(aliases, {s \in DOMAIN aliases : aliases[s] \in gone})

CorrelationWithout(gone) == {e \in correlation : e[1] \notin gone}

RemoveIncidents(gone) ==
  /\ incidents' = Without(incidents, gone)
  /\ aliases' = AliasesWithout(gone)
  /\ correlation' = CorrelationWithout(gone)

-----------------------------------------------------------------------------
Init ==
  /\ inbox = <<>> /\ rejected = {}
  /\ incidents = <<>> /\ aliases = <<>> /\ correlation = {}
  /\ made = <<>> /\ jobs = {} /\ snapshots = {} /\ batches = {} /\ ledger = {}
  /\ matching = 0 /\ found = FALSE
  /\ ingested = 0 /\ restarts = 0 /\ catalogued = {}

(* ingest_with_cursor: a report becomes durable before it is acknowledged. *)
Ingest(r) ==
  /\ ingested < MaxIngested
  /\ inbox' = Append(inbox, r)
  /\ ingested' = ingested + 1
  /\ UNCHANGED <<rejected, incidents, aliases, correlation, made, jobs, snapshots,
                 batches, ledger, matching, found, restarts, catalogued>>

(* EventCoordinator::process holds match_lock, as does the commit of a     *)
(* match: each is one step.  It takes the first of the inbox.              *)

IsNews(i, r) == OutcomeIn(i, r) = "applied"

(* complete_inbox: a replay or a rejected report.                          *)
CompleteReport ==
  /\ inbox # <<>>
  /\ LET r == Head(inbox) IN
       /\ ~TooManyCandidates(r)
       /\ \E i \in Resolved(r) : OutcomeIn(i, r) \in {"replay", "rejected"}
  /\ inbox' = Tail(inbox)
  /\ UNCHANGED <<rejected, incidents, aliases, correlation, made, jobs, snapshots,
                 batches, ledger, matching, found, observed>>

OnlyTooManyCandidates(r) == TooManyCandidates(r)
                                       (* mutant: a full incident stops the inbox *)

IsOverCapacity(r) ==
  TooManyCandidates(r) \/ \E i \in Resolved(r) : OutcomeIn(i, r) = "capacity"

(* reject_capacity: the report is quarantined.                             *)
QuarantineReport ==
  /\ inbox # <<>>
  /\ IsOverCapacity(Head(inbox))
  /\ rejected' = rejected \cup {Head(inbox)}
  /\ inbox' = Tail(inbox)
  /\ UNCHANGED <<incidents, aliases, correlation, made, jobs, snapshots, batches, ledger,
                 matching, found, observed>>

StoreIncident(i, record, r) ==
  /\ incidents' = With(incidents, i, record)
  /\ aliases' = [s \in DOMAIN aliases \cup DOMAIN record.marks |->
                   IF s \in DOMAIN record.marks THEN i ELSE aliases[s]]
  /\ correlation' = IF r.timed THEN correlation \cup {<<i, r.stream>>} ELSE correlation

(* Observation: a real report was merged into an incident.                 *)
Catalogue(record, r) ==
  catalogued' = IF Category[r.stream] = "report" /\ ~r.training /\ ~r.cancel
                THEN catalogued \cup {<<r.stream, record.category>>} ELSE catalogued

(* commit_incident_match_job.                                              *)
MatchReport ==
  /\ inbox # <<>>
  /\ LET r == Head(inbox)
         n == Len(made) + 1
     IN
     /\ ~TooManyCandidates(r)
     /\ \E i \in Resolved(r), stale \in StaleChoices(r) :
          /\ IsNews(i, r) /\ ShouldMatch(i, r, stale)
          /\ StoreIncident(i, [Reduced(i, r) EXCEPT !.jobs = @ + 1], r)
          /\ Catalogue(Reduced(i, r), r)
          /\ made' = Append(made, [incident |-> i, report |-> r])
          /\ jobs' = jobs \cup {n}
          /\ snapshots' = snapshots \cup {n}
  /\ inbox' = Tail(inbox)
  /\ UNCHANGED <<rejected, batches, ledger, matching, found, ingested, restarts>>

(* commit_incident_without_match, for an incident that is kept ...         *)
StoreReport ==
  /\ inbox # <<>>
  /\ LET r == Head(inbox) IN
     /\ ~TooManyCandidates(r)
     /\ \E i \in Resolved(r), stale \in StaleChoices(r) :
          /\ IsNews(i, r) /\ ~ShouldMatch(i, r, stale)
          /\ KeepsUnmatched(i, Reduced(i, r), r)
          /\ StoreIncident(i, Reduced(i, r), r)
          /\ Catalogue(Reduced(i, r), r)
  /\ inbox' = Tail(inbox)
  /\ UNCHANGED <<rejected, made, jobs, snapshots, batches, ledger, matching, found,
                 ingested, restarts>>

(* ... and for one that is not, which goes with its indexes.               *)
DiscardReport ==
  /\ inbox # <<>>
  /\ LET r == Head(inbox) IN
     /\ ~TooManyCandidates(r)
     /\ \E i \in Resolved(r), stale \in StaleChoices(r) :
          /\ IsNews(i, r) /\ ~ShouldMatch(i, r, stale)
          /\ ~KeepsUnmatched(i, Reduced(i, r), r)
          /\ RemoveIncidents({i})
          /\ Catalogue(Reduced(i, r), r)
  /\ inbox' = Tail(inbox)
  /\ UNCHANGED <<rejected, made, jobs, snapshots, batches, ledger, matching, found,
                 ingested, restarts>>

-----------------------------------------------------------------------------
LedgerKey(n) == <<made[n].incident, Category[made[n].report.stream]>>

(* process_match_job reads the job's event and matches it: a cancellation  *)
(* goes to the rows delivered for its category, any other report to the    *)
(* subscriptions that match it.                                            *)
BeginMatch(n) ==
  LET r == made[n].report IN
  /\ matching = 0
  /\ n \in jobs \cap snapshots
  /\ matching' = n
  /\ IF r.cancel THEN found' = (LedgerKey(n) \in ledger) ELSE found' \in BOOLEAN
  /\ UNCHANGED <<durable, observed>>

MatchedAfter(record) == record.matched \/ found

(* commit_match_batches.                                                   *)
CommitMatch ==
  LET n == matching
      i == made[n].incident
      record == [incidents[i] EXCEPT !.jobs = @ - 1, !.matched = MatchedAfter(incidents[i])]
  IN
  /\ matching # 0 /\ matching \in jobs
  /\ jobs' = jobs \ {n}
  /\ batches' = IF found THEN batches \cup {n} ELSE batches
  /\ snapshots' = IF found THEN snapshots ELSE snapshots \ {n}
  /\ IF i \in Stored
     THEN /\ incidents[i].jobs > 0
          /\ IF found \/ KeepsAfterEmptyMatch(i, record)
             THEN /\ incidents' = [incidents EXCEPT ![i] = record]
                  /\ UNCHANGED <<aliases, correlation>>
             ELSE RemoveIncidents({i})
     ELSE UNCHANGED <<incidents, aliases, correlation>>
  /\ matching' = 0 /\ found' = FALSE
  /\ UNCHANGED <<inbox, rejected, made, ledger, ingested, restarts, catalogued>>

(* Delivery, in a word: rows of a batch are delivered or not, then it ends *)
(* (see Delivery).                                                         *)
RecordDelivery(n) ==
  /\ n \in batches /\ n \in snapshots
  /\ ledger' = ledger \cup {LedgerKey(n)}
  /\ UNCHANGED <<inbox, rejected, incidents, aliases, correlation, made, jobs, snapshots,
                 batches, matching, found, observed>>

FinishBatch(n) ==
  /\ n \in batches
  /\ batches' = batches \ {n}
  /\ UNCHANGED <<inbox, rejected, incidents, aliases, correlation, made, jobs, snapshots,
                 ledger, matching, found, observed>>

(* The old incidents that nothing in progress and no delivery refers to.   *)
Unreferenced(S) ==
  {i \in S : ~InLedger(i) /\ \A n \in jobs \cup batches : made[n].incident # i}

UnreferencedRevisions(S) == S \ (jobs \cup batches)

(* A crash or a stop, and a start: the match in progress is lost, and what *)
(* is older than its retention is pruned before the engines run.           *)
Restart ==
  /\ restarts < MaxRestarts
  /\ restarts' = restarts + 1
  /\ matching' = 0 /\ found' = FALSE
  /\ \E old \in SUBSET ledger : ledger' = ledger \ old
  /\ \E old \in SUBSET snapshots : snapshots' = snapshots \ UnreferencedRevisions(old)
  /\ \E old \in SUBSET Stored :
       LET gone == Unreferenced(old) IN
       /\ RemoveIncidents(gone)
       /\ catalogued' = {c \in catalogued :
                           c[1] \notin DOMAIN aliases \/ aliases[c[1]] \notin gone}
  /\ UNCHANGED <<inbox, rejected, made, jobs, batches, ingested>>

-----------------------------------------------------------------------------
ProcessReport ==
  CompleteReport \/ QuarantineReport \/ MatchReport \/ StoreReport \/ DiscardReport

Next ==
  \/ \E r \in Reports : Ingest(r)
  \/ ProcessReport
  \/ \E n \in jobs : BeginMatch(n)
  \/ CommitMatch
  \/ \E n \in batches : RecordDelivery(n) \/ FinishBatch(n)
  \/ Restart

Spec == Init /\ [][Next]_vars

(* The coordinator and the match engine are tokio tasks that loop as long  *)
(* as the process runs; no one obliges a source or a restart.              *)
FairSpec ==
  /\ Spec
  /\ WF_vars(ProcessReport)
  /\ WF_vars(\E n \in jobs : BeginMatch(n))
  /\ WF_vars(CommitMatch)

-----------------------------------------------------------------------------
(* Properties *)

(* The lookups the coordinator insists on: an alias leads to the stored    *)
(* incident that owns the stream and to no other, and a correlation entry  *)
(* to a stored incident.  One broken reference stops the runtime at the    *)
(* same report after every restart.                                        *)
ReferencesResolve ==
  /\ \A s \in DOMAIN aliases : aliases[s] \in Stored /\ s \in KeysOf(aliases[s])
  /\ \A i \in Stored : \A s \in KeysOf(i) : s \in DOMAIN aliases /\ aliases[s] = i
  /\ \A e \in correlation : e[1] \in Stored /\ e[2] \in KeysOf(e[1])

(* pending_match_jobs counts the incident's match jobs: the commit of a    *)
(* job never finds a count of zero ("Incident has a MatchJob without a     *)
(* pending-job count"), and no incident is held by a job that is gone.     *)
JobsCounted ==
  /\ \A n \in jobs : made[n].incident \in Stored
  /\ \A i \in Stored :
       incidents[i].jobs = Cardinality({n \in jobs : made[n].incident = i})

(* What is still to be matched or delivered has its event snapshot and its *)
(* incident, and a delivery its incident, also after a prune.              *)
WorkIsBacked ==
  /\ \A n \in jobs \cup batches : n \in snapshots /\ made[n].incident \in Stored
  /\ \A e \in ledger : e[1] \in Stored

(* The retention table: a stored incident has a job to come, notified      *)
(* someone or is a catalogued report; a warning nobody subscribed to is    *)
(* not kept.                                                               *)
StoredForAReason ==
  \A i \in Stored :
    \/ incidents[i].jobs > 0 \/ incidents[i].matched \/ InLedger(i)
    \/ incidents[i].category = "report"

(* An incident is listed as matched exactly when one of its jobs found a   *)
(* row, whatever was merged into it since.                                 *)
MatchedIsKnown ==
  \A n \in batches :
    made[n].incident \in Stored /\ incidents[made[n].incident].matched

(* What the commits of three actors and the prune have to agree on.         *)
RecordsConsistent ==
  TypeOK /\ ReferencesResolve /\ JobsCounted /\ WorkIsBacked /\ StoredForAReason /\ MatchedIsKnown

(* A real report that opened an incident, or was merged into another       *)
(* report's, stays in the catalogue until it is pruned.                    *)
ReportsStayListed ==
  \A c \in catalogued : c[2] = "report" => c[1] \in DOMAIN aliases

(* Once the sources are silent and restarts are over, every report is      *)
(* settled and every job matched.                                          *)
EverythingSettles == <>[](inbox = <<>> /\ jobs = {})

(* docs/storage.md: an earthquake report that was received leaves an       *)
(* incident, whether or not a subscription matched.                        *)
EveryReportListed == \A c \in catalogued : c[1] \in DOMAIN aliases
=============================================================================
