---------------------------- MODULE PitekaIngest ----------------------------
(***************************************************************************)
(* ingest_piteka: passes over Piteka's signed evidence-export feeds that   *)
(* write observations.  An ingester is a process started for one source,   *)
(* with --watch (pass after pass) or re-run by an operator; several may    *)
(* share the database, for the same source or for different ones.  The     *)
(* store is the observation plane at the granularity of whole calls, which *)
(* AppendTransaction justifies.                                            *)
(*                                                                         *)
(* A feed is immutable, so it is a constant sequence per source of which   *)
(* ever more is published.  What the connector makes of an export depends  *)
(* on its kind only:                                                       *)
(*   "complete"    authenticates and normalizes;                           *)
(*   "incomplete"  is rejected by authenticate_and_normalize (signature,   *)
(*                 identity, manifest) and skipped;                        *)
(*   "unbounded"   breaks a bound that RawSourceEvent::validate checks for *)
(*                 the batch (emitted_at = 0, oversized bytes).            *)
(***************************************************************************)
EXTENDS ObservationTables, Sequences

CONSTANTS
  Ingester,       \* processes running ingest-piteka
  SourceOf,       \* the source each ingester is configured with
  Feed,           \* Feed[s][k]: the export at sequence k of source s
  Run,            \* collection run ids a pass may be given
  Class,          \* the retention class of the configuration
  NoExport,       \* no supersedes_export_id
  DiscoveryLimit, \* DISCOVERY_LIMIT
  MaxFaults,      \* bound on transient failures and crashes
  MaxTime         \* bound on emitted_at

ExportFields == {"export", "revision", "supersedes", "emitted_at", "kind", "digest"}

Kinds == {"complete", "incomplete", "unbounded"}

ASSUME IngestAssumption ==
  /\ SourceOf \in [Ingester -> Source]
  /\ DiscoveryLimit \in Nat \ {0}
  /\ MaxFaults \in Nat
  /\ MaxTime \in Nat
  /\ DOMAIN Feed = Source
  /\ Run # {}

ASSUME FeedAssumption ==
  \A s \in Source :
    /\ Len(Feed[s]) \in Nat
    /\ \A k \in 1..Len(Feed[s]) :
         /\ DOMAIN Feed[s][k] = ExportFields
         /\ Feed[s][k].emitted_at \in 0..MaxTime
         /\ Feed[s][k].kind \in Kinds
         /\ Feed[s][k].kind = "complete" => Feed[s][k].emitted_at > 0
         /\ <<Feed[s][k].export, Feed[s][k].revision>> # NoObservation

VARIABLES
  db,         \* the committed tables
  published,  \* how much of each feed the endpoint serves
  pc,         \* the step an ingester takes next
  run,        \* collection_run_id of its current pass
  after,      \* the pass's in-memory checkpoint: last sequence drained
  upto,       \* last sequence of the batch in hand
  pos,        \* sequence of the export in hand
  reported,   \* IngestSummary.observation_ids
  faults      \* transient failures and crashes so far

vars == <<db, published, pc, run, after, upto, pos, reported, faults>>

local == <<run, after, upto, pos, reported>>

-----------------------------------------------------------------------------
(* What normalize makes of an export.  Ids are built from the export alone, *)
(* without its source; event ids likewise.                                 *)

ObservationId(x) == <<x.export, x.revision>>

PriorObservationId(x) ==
  IF x.supersedes = NoExport THEN NoObservation ELSE <<x.supersedes, 1>>

\* The digest of the exact bytes, which carry the tenant and the sequence.
RawDigest(s, k) == <<s, k>>

Observation(s, k, r) ==
  LET x == Feed[s][k] IN
  [ id           |-> ObservationId(x),
    source       |-> s,
    source_event |-> ObservationId(x),
    digest       |-> x.digest,
    observed_at  |-> x.emitted_at,
    run          |-> r,
    supersedes   |-> PriorObservationId(x),
    visibility   |-> s,
    subjects     |-> {x.export},
    raw          |-> RawDigest(s, k) ]

Candidates ==
  UNION { { Observation(s, k, r) : k \in 1..Len(Feed[s]), r \in Run } : s \in Source }

Complete(s, k) == Feed[s][k].kind = "complete"

-----------------------------------------------------------------------------
(* Piteka publishes the next export of a source.                           *)
Publish(s) ==
  /\ published[s] < Len(Feed[s])
  /\ published' = [published EXCEPT ![s] = @ + 1]
  /\ UNCHANGED <<db, pc, local, faults>>

Goto(i, from, to) == pc[i] = from /\ pc' = [pc EXCEPT ![i] = to]

(* A pass begins with no cursor (after = 0), whatever sync_cursors says.    *)
(* Its run id is a fixed one or the current second, so another ingester's  *)
(* pass may be given the same.                                             *)
StartPass(i, r) ==
  /\ Goto(i, "idle", "class")
  /\ run' = [run EXCEPT ![i] = r]
  /\ UNCHANGED <<db, published, after, upto, pos, reported, faults>>

\* Mutant of IgnoreConflict: INSERT OR REPLACE.
IgnoreConstraint(allowed, tables) == db' = tables

\* ignore_conflict: a constraint failure leaves the tables and is a success.
IgnoreConflict(allowed, tables) == db' = IF allowed THEN tables ELSE db

InsertRetentionClass(i) ==
  /\ Goto(i, "class", "source")
  /\ IgnoreConflict(Class \notin db.classes,
                    [db EXCEPT !.classes = @ \cup {Class}])
  /\ UNCHANGED <<published, local, faults>>

InsertSource(i) ==
  /\ Goto(i, "source", "run")
  /\ IgnoreConflict(SourceAllowed(db, SourceOf[i], Class),
                    WithSource(db, SourceOf[i], Class))
  /\ UNCHANGED <<published, local, faults>>

InsertCollectionRun(i) ==
  /\ Goto(i, "run", "discover")
  /\ IgnoreConflict(RunAllowed(db, run[i], SourceOf[i]),
                    WithRun(db, run[i], SourceOf[i]))
  /\ UNCHANGED <<published, local, faults>>

-----------------------------------------------------------------------------
\* The last sequence of the page after the checkpoint.
PageEnd(i) ==
  IF published[SourceOf[i]] - after[i] > DiscoveryLimit
  THEN after[i] + DiscoveryLimit
  ELSE published[SourceOf[i]]

\* RawSourceBatch::validate: every event within bounds, no event id twice.
ValidPage(s, first, last) ==
  /\ \A k \in first..last : Feed[s][k].kind # "unbounded"
  /\ \A j, k \in first..last :
       ObservationId(Feed[s][j]) = ObservationId(Feed[s][k]) => j = k

(* discover returned a non-empty batch.                                    *)
DiscoverBatch(i) ==
  /\ Goto(i, "discover", "event")
  /\ after[i] < PageEnd(i)
  /\ ValidPage(SourceOf[i], after[i] + 1, PageEnd(i))
  /\ upto' = [upto EXCEPT ![i] = PageEnd(i)]
  /\ pos' = [pos EXCEPT ![i] = after[i] + 1]
  /\ UNCHANGED <<db, published, run, after, reported, faults>>

(* discover returned an empty batch: the pass is over.                     *)
DiscoverEmpty(i) ==
  /\ Goto(i, "discover", "done")
  /\ after[i] = PageEnd(i)
  /\ UNCHANGED <<db, published, local, faults>>

(* The batch does not validate: the pass fails.                            *)
DiscoverInvalid(i) ==
  /\ Goto(i, "discover", "failed")
  /\ ~ValidPage(SourceOf[i], after[i] + 1, PageEnd(i))
  /\ UNCHANGED <<db, published, local, faults>>

\* The loop over the batch, and the checkpoint after its last export.
NextExport(i) ==
  IF pos[i] < upto[i]
  THEN /\ pos' = [pos EXCEPT ![i] = @ + 1]
       /\ pc' = [pc EXCEPT ![i] = "event"]
       /\ UNCHANGED <<run, after, upto>>
  ELSE /\ after' = [after EXCEPT ![i] = upto[i]]
       /\ pc' = [pc EXCEPT ![i] = "discover"]
       /\ UNCHANGED <<run, upto, pos>>

(* Mutant of SkipExport: an incomplete export fails the pass.              *)
FailOnIncomplete(i) ==
  /\ Goto(i, "event", "failed")
  /\ ~Complete(SourceOf[i], pos[i])
  /\ UNCHANGED <<db, published, local, faults>>

SkipExport(i) ==
  /\ pc[i] = "event"
  /\ ~Complete(SourceOf[i], pos[i])
  /\ NextExport(i)
  /\ UNCHANGED <<db, published, reported, faults>>

InsertRawPayload(i) ==
  /\ Goto(i, "event", "append")
  /\ Complete(SourceOf[i], pos[i])
  /\ LET d == RawDigest(SourceOf[i], pos[i])
     IN IgnoreConflict(PayloadAllowed(db, d, Class), WithPayload(db, d, Class))
  /\ UNCHANGED <<published, local, faults>>

-----------------------------------------------------------------------------
InHand(i) == Observation(SourceOf[i], pos[i], run[i])

\* Mutant of CursorInHand: the cursor is the batch's last.
CursorOfBatch(i) ==
  [source |-> SourceOf[i], observed_at |-> Feed[SourceOf[i]][upto[i]].emitted_at]

CursorInHand(i) ==
  [source |-> SourceOf[i], observed_at |-> InHand(i).observed_at]

Report(i) ==
  reported' = [reported EXCEPT ![i] = @ \cup {InHand(i).id}]

AppendObservation(i) ==
  /\ pc[i] = "append"
  /\ AppendAllowed(db, InHand(i), CursorInHand(i))
  /\ db' = Appended(db, InHand(i), CursorInHand(i))
  /\ Report(i)
  /\ NextExport(i)
  /\ UNCHANGED <<published, faults>>

AppendRejected(i) ==
  /\ Goto(i, "append", "lookup")
  /\ ~AppendAllowed(db, InHand(i), CursorInHand(i))
  /\ UNCHANGED <<db, published, local, faults>>

(* Mutant of CountDuplicate: a duplicate is counted but not reported.      *)
ForgetDuplicate(i) ==
  /\ pc[i] = "lookup"
  /\ InHand(i).id \in StoredIds(db)
  /\ NextExport(i)
  /\ UNCHANGED <<db, published, reported, faults>>

(* The append failed but the observation's id is stored: a duplicate.      *)
CountDuplicate(i) ==
  /\ pc[i] = "lookup"
  /\ InHand(i).id \in StoredIds(db)
  /\ Report(i)
  /\ NextExport(i)
  /\ UNCHANGED <<db, published, faults>>

(* Mutant of PersistFailed: the pass goes on past what it could not store. *)
SkipUnstored(i) ==
  /\ pc[i] = "lookup"
  /\ InHand(i).id \notin StoredIds(db)
  /\ NextExport(i)
  /\ UNCHANGED <<db, published, reported, faults>>

(* The append failed and it is not: the pass fails.                        *)
PersistFailed(i) ==
  /\ Goto(i, "lookup", "failed")
  /\ InHand(i).id \notin StoredIds(db)
  /\ UNCHANGED <<db, published, local, faults>>

\* Nothing in memory outlives a pass: the next one has no cursor.
Forget(i) ==
  /\ pc' = [pc EXCEPT ![i] = "idle"]
  /\ after' = [after EXCEPT ![i] = 0]
  /\ upto' = [upto EXCEPT ![i] = 0]
  /\ pos' = [pos EXCEPT ![i] = 0]
  /\ reported' = [reported EXCEPT ![i] = {}]
  /\ UNCHANGED run

(* --watch sleeps and goes on whatever the pass returned; without it the   *)
(* operator may run the command again.                                     *)
EndPass(i) ==
  /\ pc[i] \in {"done", "failed"}
  /\ Forget(i)
  /\ UNCHANGED <<db, published, faults>>

-----------------------------------------------------------------------------
(* Mutant of TransientFailure: ignore_conflict ignores every failure.      *)
IgnoreFailure(i) ==
  /\ faults < MaxFaults
  /\ faults' = faults + 1
  /\ Goto(i, "event", "append")
  /\ Complete(SourceOf[i], pos[i])
  /\ UNCHANGED <<db, published, local>>

(* A call fails without a constraint error: the feed endpoint or a busy or *)
(* failing database.  Every such error ends the pass, except the append's, *)
(* which is looked up first.                                               *)
TransientFailure(i) ==
  /\ faults < MaxFaults
  /\ faults' = faults + 1
  /\ \/ /\ pc[i] \in {"class", "source", "run", "discover", "event", "lookup"}
        /\ pc[i] = "event" => Complete(SourceOf[i], pos[i])
        /\ pc' = [pc EXCEPT ![i] = "failed"]
     \/ Goto(i, "append", "lookup")
  /\ UNCHANGED <<db, published, local>>

(* The process dies and is started again.                                  *)
Crash(i) ==
  /\ faults < MaxFaults
  /\ faults' = faults + 1
  /\ pc[i] # "idle"
  /\ Forget(i)
  /\ UNCHANGED <<db, published>>

-----------------------------------------------------------------------------
Init ==
  /\ db = EmptyTables
  /\ published = [s \in Source |-> 0]
  /\ pc = [i \in Ingester |-> "idle"]
  /\ run = [i \in Ingester |-> CHOOSE r \in Run : TRUE]
  /\ after = [i \in Ingester |-> 0]
  /\ upto = [i \in Ingester |-> 0]
  /\ pos = [i \in Ingester |-> 0]
  /\ reported = [i \in Ingester |-> {}]
  /\ faults = 0

\* The steps of a pass that depend on no failure.
Progress(i) ==
  \/ \E r \in Run : StartPass(i, r)
  \/ InsertRetentionClass(i)
  \/ InsertSource(i)
  \/ InsertCollectionRun(i)
  \/ DiscoverBatch(i)
  \/ DiscoverEmpty(i)
  \/ DiscoverInvalid(i)
  \/ SkipExport(i)
  \/ InsertRawPayload(i)
  \/ AppendObservation(i)
  \/ AppendRejected(i)
  \/ CountDuplicate(i)
  \/ PersistFailed(i)
  \/ EndPass(i)

Next ==
  \/ \E s \in Source : Publish(s)
  \/ \E i \in Ingester : Progress(i) \/ TransientFailure(i) \/ Crash(i)

Spec == Init /\ [][Next]_vars

\* Every ingester watches: it keeps taking its next step.
FairSpec == Spec /\ \A i \in Ingester : WF_vars(Progress(i))

-----------------------------------------------------------------------------
\* The observation plane as its repository presents it.
Digests == UNION { { RawDigest(s, k) : k \in 1..Len(Feed[s]) } : s \in Source }

Store == INSTANCE ObservationStore
  WITH RetentionClass <- {Class}, Digest <- Digests, Candidate <- Candidates,
       Reorg <- {}, Detector <- {}

Steps == {"idle", "class", "source", "run", "discover", "event", "append",
          "lookup", "done", "failed"}

(* Type invariant; a pass never holds an export that is not published.     *)
TypeOK ==
  /\ Store!TypeOK
  /\ published \in [Source -> Nat]
  /\ \A s \in Source : published[s] <= Len(Feed[s])
  /\ pc \in [Ingester -> Steps]
  /\ run \in [Ingester -> Run]
  /\ after \in [Ingester -> Nat]
  /\ upto \in [Ingester -> Nat]
  /\ pos \in [Ingester -> Nat]
  /\ \A i \in Ingester : after[i] <= published[SourceOf[i]]
  /\ \A i \in Ingester : pc[i] \in {"event", "append", "lookup"} =>
       after[i] < pos[i] /\ pos[i] <= upto[i] /\ upto[i] <= published[SourceOf[i]]
  /\ faults \in 0..MaxFaults

\* The store has the export at k of s as an observation of that source.
Ingested(s, k) ==
  \E o \in db.observations : o.source = s /\ o.id = ObservationId(Feed[s][k])

\* Another source's feed has an export of that id, too.
SharedId(s, k) ==
  \E t \in Source \ {s} : \E j \in 1..Len(Feed[t]) :
    ObservationId(Feed[t][j]) = ObservationId(Feed[s][k])

\* The export at k of s can no longer be missed.
Covered(s, k) == Complete(s, k) /\ ~SharedId(s, k) => Ingested(s, k)

(* However many passes of however many ingesters interleave, fail or die,  *)
(* an observation is stored only after every complete export before it in  *)
(* its feed is stored, for the same source: the store shows no gap.  Left  *)
(* out are exports whose id a feed of another source has too: append's     *)
(* failure is looked up by id alone (ingest.rs:176), so the pass of one    *)
(* source takes the observation of the other for a duplicate of its own,   *)
(* and goes on.                                                            *)
NoGapInStore ==
  \A o \in db.observations : \E k \in 1..published[o.source] :
    /\ o = Observation(o.source, k, o.run)
    /\ \A j \in 1..(k - 1) : Covered(o.source, j)

(* A pass that returns Ok has drained what it saw: the ids it prints are   *)
(* those of all the complete exports up to its checkpoint, and each is of  *)
(* a stored observation: of its own source's, unless a feed of another     *)
(* source has the id too.                                                  *)
DrainedPassReportsAll ==
  \A i \in Ingester :
    /\ reported[i] \subseteq StoredIds(db)
    /\ pc[i] = "done" =>
         /\ reported[i] = { ObservationId(Feed[SourceOf[i]][k]) :
                              k \in { j \in 1..after[i] : Complete(SourceOf[i], j) } }
         /\ \A k \in 1..after[i] : Covered(SourceOf[i], k)

(* Whenever an observation is visible, the descriptor of the raw payload   *)
(* its raw_payload_digest names is too, although the two are written by    *)
(* separate statements with no transaction around them.                    *)
EvidenceBeforeObservation ==
  \A o \in db.observations : \E row \in db.payloads : row.digest = o.raw

(* The persisted cursor is the time of the newest observation of its       *)
(* source: neither ahead of the evidence nor behind it.                    *)
CursorIsNewestObservation ==
  \A s \in Source :
    /\ \A o \in db.observations : o.source = s => o.observed_at <= db.cursors[s]
    /\ db.cursors[s] > 0 =>
         \E o \in db.observations : o.source = s /\ o.observed_at = db.cursors[s]

(* Ingestion uses the observation plane only as ObservationRepository      *)
(* allows.                                                                 *)
ImplementsStore == Store!Spec

(* Every complete export the endpoint serves is eventually stored, in the  *)
(* feed of its source: "one malformed export never halts the pipeline".    *)
FeedKeepsFlowing ==
  \A i \in Ingester : \A k \in 1..Len(Feed[SourceOf[i]]) :
    LET s == SourceOf[i] IN
    (k <= published[s] /\ Complete(s, k)) ~> Ingested(s, k)

=============================================================================
