------------------------- MODULE PitekaIngestProofs -------------------------
(***************************************************************************)
(* Proofs about PitekaIngest, for any feeds, any number of ingesters and   *)
(* any interleaving of their passes, failures and crashes.                 *)
(***************************************************************************)
EXTENDS PitekaIngest, TLAPS

InBatch == {"event", "append", "lookup"}

\* The bounds between what a pass has drained, has in hand and may have.
PassBounds ==
  \A i \in Ingester :
    /\ after[i] <= published[SourceOf[i]]
    /\ pc[i] \in InBatch =>
         /\ after[i] < pos[i]
         /\ pos[i] <= upto[i]
         /\ upto[i] <= published[SourceOf[i]]

-----------------------------------------------------------------------------
(* Facts about the feeds and what normalize makes of them.                 *)
LEMMA ExportFacts ==
  ASSUME NEW s \in Source, NEW k \in 1..Len(Feed[s]), NEW r \in Run
  PROVE  /\ Observation(s, k, r) \in Candidates
         /\ Observation(s, k, r).source = s
         /\ Observation(s, k, r).run = r
         /\ Observation(s, k, r).raw = RawDigest(s, k)
         /\ Observation(s, k, r).id = ObservationId(Feed[s][k])
         /\ Observation(s, k, r).observed_at = Feed[s][k].emitted_at
         /\ Observation(s, k, r).observed_at \in 0..MaxTime
         /\ Complete(s, k) => Observation(s, k, r).observed_at \in 1..MaxTime
         /\ ObservationId(Feed[s][k]) # NoObservation
         /\ RawDigest(s, k) \in Digests
<1>1. /\ Feed[s][k].emitted_at \in 0..MaxTime
      /\ Feed[s][k].kind = "complete" => Feed[s][k].emitted_at > 0
      /\ <<Feed[s][k].export, Feed[s][k].revision>> # NoObservation
      /\ MaxTime \in Nat
  BY FeedAssumption, IngestAssumption
<1>2. Observation(s, k, r) \in Candidates
  BY DEF Candidates
<1>3. RawDigest(s, k) \in Digests
  BY DEF Digests
<1>4. QED
  BY <1>1, <1>2, <1>3 DEF Observation, ObservationId, Complete

LEMMA FeedLengths == ASSUME NEW s \in Source PROVE Len(Feed[s]) \in Nat
  BY FeedAssumption

-----------------------------------------------------------------------------
(* The type invariant.                                                     *)
LEMMA InitTypeOK == Init => TypeOK
<1> SUFFICES ASSUME Init PROVE TypeOK
  OBVIOUS
<1>1. Store!TypeOK
  BY DEF Init, EmptyTables, Store!TypeOK
<1>2. run \in [Ingester -> Run]
  BY IngestAssumption DEF Init
<1>3. QED
  BY <1>1, <1>2, IngestAssumption, FeedLengths DEF Init, TypeOK, Steps

(* What a step of ingester i may do to its own pass, and how the tables    *)
(* stay well-typed.                                                        *)
LEMMA PageEndBounds ==
  ASSUME TypeOK, NEW i \in Ingester
  PROVE  /\ PageEnd(i) \in Nat
         /\ after[i] <= PageEnd(i)
         /\ PageEnd(i) <= published[SourceOf[i]]
<1>1. /\ after[i] \in Nat /\ published[SourceOf[i]] \in Nat
      /\ after[i] <= published[SourceOf[i]]
      /\ DiscoveryLimit \in Nat \ {0}
  BY IngestAssumption DEF TypeOK
<1>2. QED
  BY <1>1 DEF PageEnd

LEMMA NextExportTypes ==
  ASSUME TypeOK, NEW i \in Ingester, pc[i] \in InBatch, NextExport(i),
         published' = published
  PROVE  /\ pc' \in [Ingester -> Steps]
         /\ run' \in [Ingester -> Run]
         /\ after' \in [Ingester -> Nat]
         /\ upto' \in [Ingester -> Nat]
         /\ pos' \in [Ingester -> Nat]
         /\ PassBounds'
<1>1. /\ after[i] \in Nat /\ pos[i] \in Nat /\ upto[i] \in Nat
      /\ after[i] < pos[i] /\ pos[i] <= upto[i]
      /\ upto[i] <= published[SourceOf[i]]
      /\ PassBounds
  BY DEF TypeOK, InBatch, PassBounds
<1>2. CASE pos[i] < upto[i]
  <2>1. /\ pos' = [pos EXCEPT ![i] = pos[i] + 1]
        /\ pc' = [pc EXCEPT ![i] = "event"]
        /\ run' = run /\ after' = after /\ upto' = upto
    BY <1>2 DEF NextExport
  <2>2. PassBounds'
    BY <1>1, <1>2, <2>1 DEF PassBounds, TypeOK, InBatch
  <2>3. QED
    BY <1>1, <2>1, <2>2 DEF TypeOK, Steps
<1>3. CASE ~(pos[i] < upto[i])
  <2>1. /\ after' = [after EXCEPT ![i] = upto[i]]
        /\ pc' = [pc EXCEPT ![i] = "discover"]
        /\ run' = run /\ pos' = pos /\ upto' = upto
    BY <1>3 DEF NextExport
  <2>2. PassBounds'
    BY <1>1, <1>3, <2>1 DEF PassBounds, TypeOK, InBatch
  <2>3. QED
    BY <1>1, <2>1, <2>2 DEF TypeOK, Steps
<1>4. QED
  BY <1>2, <1>3

LEMMA InHandFacts ==
  ASSUME TypeOK, NEW i \in Ingester, pc[i] \in InBatch
  PROVE  /\ SourceOf[i] \in Source
         /\ pos[i] \in 1..Len(Feed[SourceOf[i]])
         /\ pos[i] \in 1..published[SourceOf[i]]
         /\ run[i] \in Run
<1>1. SourceOf[i] \in Source /\ run[i] \in Run
  BY IngestAssumption DEF TypeOK
<1>2. /\ after[i] \in Nat /\ pos[i] \in Nat /\ upto[i] \in Nat
      /\ published[SourceOf[i]] \in Nat
      /\ published[SourceOf[i]] <= Len(Feed[SourceOf[i]])
      /\ after[i] < pos[i] /\ pos[i] <= upto[i]
      /\ upto[i] <= published[SourceOf[i]]
  BY <1>1 DEF TypeOK, InBatch
<1>3. QED
  BY <1>1, <1>2, FeedLengths

-----------------------------------------------------------------------------
(* Ingestion writes only what the store allows.  The theorems about the    *)
(* store are therefore theorems about ingestion, whose constants satisfy   *)
(* the store's assumption.                                                 *)
StoreProofs == INSTANCE ObservationStoreProofs
  WITH RetentionClass <- {Class}, Digest <- Digests, Candidate <- Candidates,
       Reorg <- {}, Detector <- {}

LEMMA StoreAssumed == StoreProofs!StoreAssumption
<1>1. MaxTime \in Nat
  BY IngestAssumption
<1>2. \A o \in Candidates : \E s \in Source : \E k \in 1..Len(Feed[s]), r \in Run :
        o = Observation(s, k, r)
  BY DEF Candidates
<1>3. ASSUME NEW o \in Candidates
      PROVE  /\ DOMAIN o = StoreProofs!ObservationFields
             /\ o.source \in Source
             /\ o.run \in Run
             /\ o.observed_at \in Nat
             /\ o.id # NoObservation
  <2>1. PICK s \in Source : \E k \in 1..Len(Feed[s]), r \in Run :
          o = Observation(s, k, r)
    BY <1>2
  <2>2. PICK k \in 1..Len(Feed[s]), r \in Run : o = Observation(s, k, r)
    BY <2>1
  <2>3. DOMAIN o = StoreProofs!ObservationFields
    BY <2>2 DEF Observation, StoreProofs!ObservationFields
  <2>4. QED
    BY <1>1, <2>2, <2>3, ExportFacts
<1>4. QED
  BY <1>1, <1>3 DEF StoreProofs!StoreAssumption

LEMMA SameStore ==
  /\ Store!TypeOK <=> StoreProofs!TypeOK
  /\ Store!Init <=> StoreProofs!Init
  /\ [Store!Next]_db <=> [StoreProofs!Next]_db
<1>1. Store!TypeOK <=> StoreProofs!TypeOK
  BY DEF Store!TypeOK, StoreProofs!TypeOK, Store!CandidateIds, Store!Subjects,
         StoreProofs!CandidateIds, StoreProofs!Subjects
<1>2. Store!Init <=> StoreProofs!Init
  BY DEF Store!Init, StoreProofs!Init, EmptyTables, Store!EmptyTables,
         StoreProofs!EmptyTables
<1>3. [Store!Next]_db <=> [StoreProofs!Next]_db
  <2>1. \A c : Store!InsertRetentionClass(c) <=> StoreProofs!InsertRetentionClass(c)
    BY DEF Store!InsertRetentionClass, StoreProofs!InsertRetentionClass
  <2>2. \A s, c : Store!InsertSource(s, c) <=> StoreProofs!InsertSource(s, c)
    BY DEF Store!InsertSource, StoreProofs!InsertSource, Store!SourceAllowed,
         StoreProofs!SourceAllowed, Store!HasSource, StoreProofs!HasSource,
         Store!WithSource, StoreProofs!WithSource
  <2>3. \A r, s : Store!InsertCollectionRun(r, s) <=> StoreProofs!InsertCollectionRun(r, s)
    BY DEF Store!InsertCollectionRun, StoreProofs!InsertCollectionRun,
         Store!RunAllowed, StoreProofs!RunAllowed, Store!HasRun,
         StoreProofs!HasRun, Store!HasSource, StoreProofs!HasSource,
         Store!WithRun, StoreProofs!WithRun
  <2>4. \A d, c : Store!InsertRawPayloadDescriptor(d, c)
          <=> StoreProofs!InsertRawPayloadDescriptor(d, c)
    BY DEF Store!InsertRawPayloadDescriptor,
         StoreProofs!InsertRawPayloadDescriptor, Store!PayloadAllowed,
         StoreProofs!PayloadAllowed, Store!WithPayload,
         StoreProofs!WithPayload
  <2>5. \A o, c : Store!AppendAllowed(db, o, c) <=> StoreProofs!AppendAllowed(db, o, c)
    BY DEF Store!AppendAllowed, StoreProofs!AppendAllowed, Store!ValidCursor,
         StoreProofs!ValidCursor, Store!ObservationAllowed,
         StoreProofs!ObservationAllowed, Store!SameEvent,
         StoreProofs!SameEvent, Store!HasSource, StoreProofs!HasSource,
         Store!HasRun, StoreProofs!HasRun, Store!RequiresLineage,
         StoreProofs!RequiresLineage, Store!ValidLineage,
         StoreProofs!ValidLineage, Store!CursorAllowed,
         StoreProofs!CursorAllowed
  <2>6. \A o, c : Store!Appended(db, o, c) = StoreProofs!Appended(db, o, c)
    BY DEF Store!Appended, StoreProofs!Appended, Store!WithCursor,
         StoreProofs!WithCursor, Store!WithSupersession,
         StoreProofs!WithSupersession, Store!WithSubjects,
         StoreProofs!WithSubjects, Store!WithObservation,
         StoreProofs!WithObservation
  <2>7. \A g, s : Store!AppendReorg(g, s) <=> StoreProofs!AppendReorg(g, s)
    BY DEF Store!AppendReorg, StoreProofs!AppendReorg, Store!ReorgAllowed,
         StoreProofs!ReorgAllowed, Store!HasSource, StoreProofs!HasSource,
         Store!WithReorg, StoreProofs!WithReorg
  <2>8. \A h : Store!AppendContradictionHint(h)
          <=> StoreProofs!AppendContradictionHint(h)
    BY DEF Store!AppendContradictionHint, StoreProofs!AppendContradictionHint,
         Store!HintAllowed, StoreProofs!HintAllowed, Store!SharesSubject,
         StoreProofs!SharesSubject, Store!WithHint, StoreProofs!WithHint
  <2>9. \A o, c : Store!AppendObservation(o, c) <=> StoreProofs!AppendObservation(o, c)
    BY <2>5, <2>6 DEF Store!AppendObservation, StoreProofs!AppendObservation
  <2>10. Store!CandidateIds = StoreProofs!CandidateIds
    BY DEF Store!CandidateIds, StoreProofs!CandidateIds
  <2>11. QED
    BY <2>1, <2>2, <2>3, <2>4, <2>7, <2>8, <2>9, <2>10
       DEF Store!Next, StoreProofs!Next
<1>4. QED
  BY <1>1, <1>2, <1>3

LEMMA StoreStepTyped ==
  ASSUME Store!TypeOK, [Store!Next]_db
  PROVE  Store!TypeOK'
<1>1. StoreProofs!TypeOK /\ [StoreProofs!Next]_db
  BY SameStore
<1>2. StoreProofs!TypeOK'
  BY <1>1, StoreAssumed, StoreProofs!NextTypeOK
<1>3. StoreProofs!TypeOK' <=> Store!TypeOK'
  BY DEF Store!TypeOK, StoreProofs!TypeOK, Store!CandidateIds, Store!Subjects,
         StoreProofs!CandidateIds, StoreProofs!Subjects
<1>4. QED
  BY <1>2, <1>3

\* The only steps of ingestion that write.
Writes(i) ==
  \/ InsertRetentionClass(i)
  \/ InsertSource(i)
  \/ InsertCollectionRun(i)
  \/ InsertRawPayload(i)
  \/ AppendObservation(i)

LEMMA WritesIsStoreStep ==
  ASSUME TypeOK, NEW i \in Ingester, Writes(i)
  PROVE  [Store!Next]_db
<1>1. SourceOf[i] \in Source /\ run[i] \in Run
  BY IngestAssumption DEF TypeOK
<1>2. CASE InsertRetentionClass(i)
  BY <1>2 DEF InsertRetentionClass, IgnoreConflict, Store!Next,
              Store!InsertRetentionClass
<1>3. CASE InsertSource(i)
  BY <1>1, <1>3
     DEF InsertSource, IgnoreConflict, SourceAllowed, HasSource, WithSource,
         Store!Next, Store!InsertSource, Store!SourceAllowed, Store!HasSource,
         Store!WithSource
<1>4. CASE InsertCollectionRun(i)
  BY <1>1, <1>4
     DEF InsertCollectionRun, IgnoreConflict, RunAllowed, HasRun, HasSource,
         WithRun, Store!Next, Store!InsertCollectionRun, Store!RunAllowed,
         Store!HasRun, Store!HasSource, Store!WithRun
<1>5. CASE InsertRawPayload(i)
  <2>1. pc[i] \in InBatch
    BY <1>5 DEF InsertRawPayload, Goto, InBatch
  <2>2. RawDigest(SourceOf[i], pos[i]) \in Digests
    BY <1>1, <2>1, InHandFacts, ExportFacts
  <2>3. QED
    BY <1>5, <2>2
       DEF InsertRawPayload, IgnoreConflict, PayloadAllowed, WithPayload,
           Store!Next, Store!InsertRawPayloadDescriptor, Store!PayloadAllowed,
           Store!WithPayload
<1>6. CASE AppendObservation(i)
  <2>1. pc[i] \in InBatch
    BY <1>6 DEF AppendObservation, InBatch
  <2>2. /\ InHand(i) \in Candidates
        /\ InHand(i).observed_at \in 0..MaxTime
    BY <1>1, <2>1, InHandFacts, ExportFacts DEF InHand
  <2>3. /\ AppendAllowed(db, InHand(i), CursorInHand(i))
        /\ db' = Appended(db, InHand(i), CursorInHand(i))
    BY <1>6 DEF AppendObservation
  <2>4. InHand(i).observed_at \in 1..MaxTime
    <3>1. InHand(i).observed_at > 0
      BY <2>3 DEF AppendAllowed, ObservationAllowed
    <3>2. QED
      BY <2>2, <3>1, IngestAssumption
  <2>5. Store!AppendAllowed(db, InHand(i), CursorInHand(i))
    BY <2>3
       DEF AppendAllowed, ValidCursor, ObservationAllowed, SameEvent, HasSource,
           HasRun, RequiresLineage, ValidLineage, CursorAllowed,
           Store!AppendAllowed, Store!ValidCursor, Store!ObservationAllowed,
           Store!SameEvent, Store!HasSource, Store!HasRun,
           Store!RequiresLineage, Store!ValidLineage, Store!CursorAllowed
  <2>6. db' = Store!Appended(db, InHand(i), CursorInHand(i))
    BY <2>3
       DEF Appended, WithCursor, WithSupersession, WithSubjects,
           WithObservation, Store!Appended, Store!WithCursor,
           Store!WithSupersession, Store!WithSubjects, Store!WithObservation
  <2>7. Store!AppendObservation(InHand(i),
          [source |-> SourceOf[i], observed_at |-> InHand(i).observed_at])
    BY <2>5, <2>6 DEF Store!AppendObservation, CursorInHand
  <2>8. QED
    BY <1>1, <2>2, <2>4, <2>7 DEF Store!Next
<1>7. QED
  BY <1>2, <1>3, <1>4, <1>5, <1>6 DEF Writes

\* Steps that leave the tables alone.
Reads(i) ==
  \/ \E r \in Run : StartPass(i, r)
  \/ DiscoverBatch(i)
  \/ DiscoverEmpty(i)
  \/ DiscoverInvalid(i)
  \/ SkipExport(i)
  \/ AppendRejected(i)
  \/ CountDuplicate(i)
  \/ PersistFailed(i)
  \/ EndPass(i)
  \/ TransientFailure(i)
  \/ Crash(i)

LEMMA ReadsKeepsTables ==
  ASSUME NEW i \in Ingester, Reads(i)
  PROVE  db' = db
  BY DEF Reads, StartPass, DiscoverBatch, DiscoverEmpty, DiscoverInvalid,
         SkipExport, AppendRejected, CountDuplicate, PersistFailed, EndPass,
         TransientFailure, Crash

LEMMA StepKinds ==
  ASSUME [Next]_vars
  PROVE  \/ UNCHANGED vars
         \/ \E s \in Source : Publish(s)
         \/ \E i \in Ingester : Writes(i) \/ Reads(i)
  BY DEF Next, Progress, Writes, Reads

LEMMA StepImplementsStore ==
  ASSUME TypeOK, [Next]_vars
  PROVE  [Store!Next]_db
<1>1. ASSUME NEW s \in Source, Publish(s) PROVE db' = db
  BY <1>1 DEF Publish
<1>2. CASE UNCHANGED vars
  BY <1>2 DEF vars
<1>3. QED
  BY <1>1, <1>2, StepKinds, WritesIsStoreStep, ReadsKeepsTables

-----------------------------------------------------------------------------
\* TypeOK without the tables.
PassTypeOK ==
  /\ published \in [Source -> Nat]
  /\ \A s \in Source : published[s] <= Len(Feed[s])
  /\ pc \in [Ingester -> Steps]
  /\ run \in [Ingester -> Run]
  /\ after \in [Ingester -> Nat]
  /\ upto \in [Ingester -> Nat]
  /\ pos \in [Ingester -> Nat]
  /\ PassBounds
  /\ faults \in 0..MaxFaults

LEMMA TypeOKParts == TypeOK <=> Store!TypeOK /\ PassTypeOK
  BY DEF TypeOK, PassTypeOK, PassBounds, InBatch

LEMMA PublishTypes ==
  ASSUME PassTypeOK, NEW s \in Source, Publish(s)
  PROVE  PassTypeOK'
<1>1. /\ published' = [published EXCEPT ![s] = @ + 1]
      /\ UNCHANGED <<pc, run, after, upto, pos, faults>>
      /\ published[s] < Len(Feed[s])
  BY DEF Publish, local
<1>2. /\ published' \in [Source -> Nat]
      /\ \A t \in Source : published'[t] <= Len(Feed[t])
      /\ \A t \in Source : published[t] <= published'[t]
  BY <1>1, FeedLengths DEF PassTypeOK
<1>3. PassBounds'
  <2> SUFFICES ASSUME NEW i \in Ingester
               PROVE  /\ after[i] <= published'[SourceOf[i]]
                      /\ pc[i] \in InBatch =>
                           /\ after[i] < pos[i]
                           /\ pos[i] <= upto[i]
                           /\ upto[i] <= published'[SourceOf[i]]
    BY <1>1 DEF PassBounds
  <2>1. /\ SourceOf[i] \in Source
        /\ published[SourceOf[i]] \in Nat /\ published'[SourceOf[i]] \in Nat
        /\ after[i] \in Nat /\ upto[i] \in Nat
        /\ published[SourceOf[i]] <= published'[SourceOf[i]]
    BY <1>2, IngestAssumption DEF PassTypeOK
  <2>2. QED
    BY <2>1 DEF PassTypeOK, PassBounds
<1>4. QED
  BY <1>1, <1>2, <1>3 DEF PassTypeOK

LEMMA ForgetTypes ==
  ASSUME PassTypeOK, NEW i \in Ingester, Forget(i), published' = published
  PROVE  /\ pc' \in [Ingester -> Steps]
         /\ run' \in [Ingester -> Run]
         /\ after' \in [Ingester -> Nat]
         /\ upto' \in [Ingester -> Nat]
         /\ pos' \in [Ingester -> Nat]
         /\ PassBounds'
<1>1. published[SourceOf[i]] \in Nat
  BY IngestAssumption DEF PassTypeOK
<1>2. QED
  BY <1>1 DEF Forget, PassTypeOK, PassBounds, Steps, InBatch

LEMMA PassStepTypes ==
  ASSUME TypeOK, NEW i \in Ingester, Writes(i) \/ Reads(i)
  PROVE  PassTypeOK'
<1>1. PassTypeOK
  BY TypeOKParts
<1>2. ASSUME published' = published, UNCHANGED local, faults' \in 0..MaxFaults,
             NEW t \in Steps, pc' = [pc EXCEPT ![i] = t],
             t \in InBatch => pc[i] \in InBatch
      PROVE  PassTypeOK'
  BY <1>1, <1>2 DEF PassTypeOK, PassBounds, local
<1>3. CASE InsertRetentionClass(i) \/ InsertSource(i) \/ InsertCollectionRun(i)
           \/ DiscoverEmpty(i) \/ DiscoverInvalid(i)
  <2>1. PICK t \in Steps \ InBatch :
          /\ pc' = [pc EXCEPT ![i] = t]
          /\ published' = published /\ UNCHANGED local /\ faults' = faults
    BY <1>3 DEF InsertRetentionClass, InsertSource, InsertCollectionRun,
                DiscoverEmpty, DiscoverInvalid, Goto, Steps, InBatch
  <2>2. QED
    BY <1>1, <1>2, <2>1 DEF PassTypeOK
<1>4. CASE InsertRawPayload(i) \/ AppendRejected(i) \/ PersistFailed(i)
  <2>1. PICK t \in Steps :
          /\ pc' = [pc EXCEPT ![i] = t]
          /\ published' = published /\ UNCHANGED local /\ faults' = faults
          /\ pc[i] \in InBatch
    BY <1>4 DEF InsertRawPayload, AppendRejected, PersistFailed, Goto, Steps,
                InBatch
  <2>2. QED
    BY <1>1, <1>2, <2>1 DEF PassTypeOK
<1>5. CASE TransientFailure(i)
  <2>1. faults' \in 0..MaxFaults
    BY <1>1, <1>5, IngestAssumption DEF TransientFailure, PassTypeOK
  <2>2. PICK t \in {"failed", "lookup"} :
          /\ pc' = [pc EXCEPT ![i] = t]
          /\ published' = published /\ UNCHANGED local
          /\ t = "lookup" => pc[i] = "append"
    BY <1>5 DEF TransientFailure, Goto
  <2>3. t \in Steps /\ (t \in InBatch => pc[i] \in InBatch)
    BY <2>2 DEF Steps, InBatch
  <2>4. QED
    BY <1>2, <2>1, <2>2, <2>3
<1>6. ASSUME NEW r \in Run, StartPass(i, r) PROVE PassTypeOK'
  BY <1>1, <1>6 DEF StartPass, Goto, PassTypeOK, PassBounds, Steps, InBatch
<1>7. CASE DiscoverBatch(i)
  <2>1. /\ PageEnd(i) \in Nat /\ after[i] < PageEnd(i)
        /\ PageEnd(i) <= published[SourceOf[i]]
        /\ after[i] \in Nat
    BY <1>1, <1>7, PageEndBounds DEF DiscoverBatch, PassTypeOK
  <2>2. /\ pc' = [pc EXCEPT ![i] = "event"]
        /\ upto' = [upto EXCEPT ![i] = PageEnd(i)]
        /\ pos' = [pos EXCEPT ![i] = after[i] + 1]
        /\ UNCHANGED <<published, run, after, faults>>
    BY <1>7 DEF DiscoverBatch, Goto
  <2>3. PassBounds'
    BY <1>1, <2>1, <2>2 DEF PassBounds, PassTypeOK, InBatch
  <2>4. QED
    BY <1>1, <2>1, <2>2, <2>3 DEF PassTypeOK, Steps
<1>8. CASE SkipExport(i) \/ AppendObservation(i) \/ CountDuplicate(i)
  <2>1. /\ pc[i] \in InBatch /\ NextExport(i)
        /\ published' = published /\ faults' = faults
    BY <1>8 DEF SkipExport, AppendObservation, CountDuplicate, InBatch
  <2>2. QED
    BY <1>1, <2>1, NextExportTypes DEF PassTypeOK
<1>9. CASE EndPass(i)
  BY <1>1, <1>9, ForgetTypes DEF EndPass, PassTypeOK
<1>10. CASE Crash(i)
  BY <1>1, <1>10, ForgetTypes, IngestAssumption DEF Crash, PassTypeOK
<1>11. QED
  BY <1>3, <1>4, <1>5, <1>6, <1>7, <1>8, <1>9, <1>10 DEF Writes, Reads

LEMMA NextTypeOK == TypeOK /\ [Next]_vars => TypeOK'
<1> SUFFICES ASSUME TypeOK, [Next]_vars PROVE TypeOK'
  OBVIOUS
<1>1. Store!TypeOK /\ PassTypeOK
  BY TypeOKParts
<1>2. Store!TypeOK'
  BY <1>1, StepImplementsStore, StoreStepTyped
<1>3. PassTypeOK'
  <2>1. CASE UNCHANGED vars
    BY <1>1, <2>1 DEF vars, local, PassTypeOK, PassBounds
  <2>2. QED
    BY <1>1, <2>1, StepKinds, PublishTypes, PassStepTypes
<1>4. QED
  BY <1>2, <1>3, TypeOKParts DEF TypeOK, PassTypeOK, PassBounds, InBatch

(* Every reachable state of ingestion is well-typed, and no pass holds an  *)
(* export that is not published.                                           *)
THEOREM IngestTypeCorrect == Spec => []TypeOK
<1>1. Init => TypeOK
  BY InitTypeOK
<1>2. TypeOK /\ [Next]_vars => TypeOK'
  BY NextTypeOK
<1>3. QED
  BY <1>1, <1>2, PTL DEF Spec

(* Ingestion writes the observation plane only as its repository allows.   *)
THEOREM IngestImplementsStore == Spec => ImplementsStore
<1>1. Init => Store!Init
  BY DEF Init, Store!Init, EmptyTables, Store!EmptyTables
<1>2. TypeOK /\ [Next]_vars => [Store!Next]_db
  BY StepImplementsStore
<1>3. QED
  BY <1>1, <1>2, IngestTypeCorrect, PTL DEF Spec, ImplementsStore, Store!Spec

-----------------------------------------------------------------------------
(* What a pass knows of the exports it has gone past: they cannot be       *)
(* missed any more, and unless it failed it has reported the evidence of   *)
(* them.  From its first INSERT on the retention class is stored, so the   *)
(* payload of the export that it is appending is stored too, whoever       *)
(* stored it.                                                              *)

\* The last export a pass is done with.
Drained(i) == IF pc[i] \in InBatch THEN pos[i] - 1 ELSE after[i]

CompleteIds(s, n) ==
  { ObservationId(Feed[s][k]) : k \in { j \in 1..n : Complete(s, j) } }

PayloadStored(s, k) == \E row \in db.payloads : row.digest = RawDigest(s, k)

PassOK(i) ==
  /\ \A k \in 1..Drained(i) : Covered(SourceOf[i], k)
  /\ reported[i] \subseteq StoredIds(db)
  /\ pc[i] # "failed" => reported[i] = CompleteIds(SourceOf[i], Drained(i))
  /\ pc[i] \in InBatch \cup {"source", "run", "discover"} => Class \in db.classes
  /\ pc[i] \in {"append", "lookup"} =>
       Complete(SourceOf[i], pos[i]) /\ PayloadStored(SourceOf[i], pos[i])

IInv ==
  /\ TypeOK
  /\ DOMAIN reported = Ingester
  /\ \A i \in Ingester : PassOK(i)
  /\ NoGapInStore
  /\ EvidenceBeforeObservation
  /\ CursorIsNewestObservation

LEMMA InitIInv == Init => IInv
<1> SUFFICES ASSUME Init PROVE IInv
  OBVIOUS
<1>1. /\ db.observations = {} /\ db.payloads = {}
      /\ db.cursors = [s \in Source |-> 0]
  BY DEF Init, EmptyTables
<1>2. NoGapInStore /\ EvidenceBeforeObservation /\ CursorIsNewestObservation
  BY <1>1 DEF NoGapInStore, EvidenceBeforeObservation, CursorIsNewestObservation
<1>3. ASSUME NEW i \in Ingester PROVE PassOK(i)
  <2>1. pc[i] = "idle" /\ after[i] = 0 /\ reported[i] = {}
    BY DEF Init
  <2>2. Drained(i) = 0
    BY <2>1 DEF Drained, InBatch
  <2>3. 1..0 = {}
    OBVIOUS
  <2>4. QED
    BY <2>1, <2>2, <2>3 DEF PassOK, CompleteIds, InBatch
<1>4. QED
  BY <1>2, <1>3, InitTypeOK DEF IInv, Init

-----------------------------------------------------------------------------
(* What a step does to the tables.                                         *)

LEMMA AppendEffect ==
  ASSUME TypeOK, NEW i \in Ingester, AppendObservation(i)
  PROVE  /\ db'.observations = db.observations \cup {InHand(i)}
         /\ db'.payloads = db.payloads
         /\ db'.classes = db.classes
         /\ db'.cursors = [db.cursors EXCEPT ![SourceOf[i]] = InHand(i).observed_at]
         /\ db.cursors[SourceOf[i]] < InHand(i).observed_at
<1> DEFINE o == InHand(i)
           c == CursorInHand(i)
           t1 == WithObservation(db, o)
           t2 == WithSubjects(t1, o, o.subjects)
           t3 == WithSupersession(t2, o)
<1>1. AppendAllowed(db, o, c) /\ db' = WithCursor(t3, c)
  BY DEF AppendObservation, Appended
<1>2. c.source = SourceOf[i] /\ c.observed_at = o.observed_at
  BY DEF CursorInHand
<1> HIDE DEF o, c
<1>3. /\ t1.observations = db.observations \cup {o}
      /\ t1.payloads = db.payloads /\ t1.classes = db.classes
      /\ t1.cursors = db.cursors
      /\ DOMAIN t1 = DOMAIN db
  BY DEF TypeOK, Store!TypeOK, WithObservation
<1> HIDE DEF t1
<1>4. /\ t2.observations = t1.observations /\ t2.payloads = t1.payloads
      /\ t2.classes = t1.classes /\ t2.cursors = t1.cursors
      /\ DOMAIN t2 = DOMAIN db
  BY <1>3 DEF TypeOK, Store!TypeOK, WithSubjects
<1> HIDE DEF t2
<1>5. /\ t3.observations = t2.observations /\ t3.payloads = t2.payloads
      /\ t3.classes = t2.classes /\ t3.cursors = t2.cursors
      /\ DOMAIN t3 = DOMAIN db
  BY <1>4 DEF TypeOK, Store!TypeOK, WithSupersession
<1> HIDE DEF t3
<1>6. /\ db'.observations = t3.observations /\ db'.payloads = t3.payloads
      /\ db'.classes = t3.classes
      /\ db'.cursors = [t3.cursors EXCEPT ![c.source] = c.observed_at]
  BY <1>1, <1>5 DEF TypeOK, Store!TypeOK, WithCursor
<1>7. db.cursors[c.source] < c.observed_at
  BY <1>1, <1>2, IngestAssumption DEF AppendAllowed, CursorAllowed, TypeOK, Store!TypeOK
<1>8. QED
  BY <1>2, <1>3, <1>4, <1>5, <1>6, <1>7 DEF o

\* Tables whose rows passes rely on.
TablesGrow ==
  /\ db.observations \subseteq db'.observations
  /\ db.payloads \subseteq db'.payloads
  /\ db.classes \subseteq db'.classes

LEMMA InsertEffects ==
  ASSUME TypeOK, NEW i \in Ingester,
         \/ InsertRetentionClass(i)
         \/ InsertSource(i)
         \/ InsertCollectionRun(i)
         \/ InsertRawPayload(i)
  PROVE  /\ db'.observations = db.observations
         /\ db'.cursors = db.cursors
         /\ TablesGrow
         /\ InsertRetentionClass(i) => Class \in db'.classes
         /\ InsertRawPayload(i) /\ Class \in db.classes =>
              PayloadStored(SourceOf[i], pos[i])'
<1>1. CASE InsertRetentionClass(i)
  BY <1>1 DEF InsertRetentionClass, InsertRawPayload, Goto, IgnoreConflict, TypeOK,
              Store!TypeOK, TablesGrow
<1>2. CASE InsertSource(i)
  BY <1>2 DEF InsertSource, InsertRetentionClass, InsertRawPayload, Goto,
              IgnoreConflict, WithSource, TypeOK, Store!TypeOK, TablesGrow
<1>3. CASE InsertCollectionRun(i)
  BY <1>3 DEF InsertCollectionRun, InsertRetentionClass, InsertRawPayload, Goto,
              IgnoreConflict, WithRun, TypeOK, Store!TypeOK, TablesGrow
<1>4. CASE InsertRawPayload(i)
  <2> DEFINE d == RawDigest(SourceOf[i], pos[i])
  <2>1. /\ db' = IF PayloadAllowed(db, d, Class) THEN WithPayload(db, d, Class) ELSE db
        /\ pos' = pos
        /\ ~InsertRetentionClass(i)
    BY <1>4 DEF InsertRawPayload, IgnoreConflict, local, InsertRetentionClass, Goto
  <2> HIDE DEF d
  <2>2. /\ db'.observations = db.observations /\ db'.cursors = db.cursors
        /\ TablesGrow
    BY <2>1 DEF WithPayload, TypeOK, Store!TypeOK, TablesGrow
  <2>3. ASSUME Class \in db.classes
        PROVE  \E row \in db'.payloads : row.digest = d
    <3>1. CASE PayloadAllowed(db, d, Class)
      <4>1. [digest |-> d, class |-> Class] \in db'.payloads
        BY <2>1, <3>1 DEF WithPayload, TypeOK, Store!TypeOK
      <4>2. QED
        BY <4>1
    <3>2. CASE ~PayloadAllowed(db, d, Class)
      BY <2>1, <2>3, <3>2 DEF PayloadAllowed
    <3>3. QED
      BY <3>1, <3>2
  <2>4. QED
    BY <2>1, <2>2, <2>3 DEF PayloadStored, d, RawDigest
<1>5. QED
  BY <1>1, <1>2, <1>3, <1>4

LEMMA StepGrows ==
  ASSUME TypeOK, [Next]_vars
  PROVE  /\ TablesGrow
         /\ StoredIds(db) \subseteq StoredIds(db')
         /\ \A s \in Source : published[s] <= published'[s]
<1>1. TablesGrow
  <2>1. ASSUME NEW i \in Ingester, Writes(i) PROVE TablesGrow
    BY <2>1, InsertEffects, AppendEffect DEF Writes, TablesGrow
  <2>2. CASE db' = db
    BY <2>2 DEF TablesGrow
  <2>3. QED
    BY <2>1, <2>2, StepKinds, ReadsKeepsTables DEF Publish, vars
<1>2. \A s \in Source : published[s] <= published'[s]
  <2>1. published \in [Source -> Nat]
    BY DEF TypeOK
  <2>2. ASSUME NEW s \in Source, Publish(s)
        PROVE  \A t \in Source : published[t] <= published'[t]
    BY <2>1, <2>2 DEF Publish
  <2>3. ASSUME NEW i \in Ingester, Writes(i) \/ Reads(i)
        PROVE  published' = published
    BY <2>3 DEF Writes, Reads, StartPass, InsertRetentionClass, InsertSource,
                InsertCollectionRun, DiscoverBatch, DiscoverEmpty, DiscoverInvalid,
                SkipExport, InsertRawPayload, AppendObservation, AppendRejected,
                CountDuplicate, PersistFailed, EndPass, TransientFailure, Crash
  <2>4. QED
    BY <2>1, <2>2, <2>3, StepKinds DEF vars
<1>3. QED
  BY <1>1, <1>2 DEF TablesGrow, StoredIds

-----------------------------------------------------------------------------
(* The pass of an ingester over a step of its own, and of another.         *)

LEMMA CoveredStays ==
  ASSUME NEW s, NEW k, Covered(s, k), TablesGrow
  PROVE  Covered(s, k)'
  BY DEF Covered, Complete, SharedId, Ingested, TablesGrow

LEMMA PassFrame ==
  ASSUME TablesGrow, StoredIds(db) \subseteq StoredIds(db'),
         NEW j \in Ingester, PassOK(j),
         pc'[j] = pc[j], after'[j] = after[j], pos'[j] = pos[j],
         reported'[j] = reported[j]
  PROVE  PassOK(j)'
<1>1. Drained(j)' = Drained(j)
  BY DEF Drained
<1>2. \A k \in 1..Drained(j) : Covered(SourceOf[j], k)'
  BY CoveredStays DEF PassOK
<1>3. PayloadStored(SourceOf[j], pos[j]) => PayloadStored(SourceOf[j], pos[j])'
  BY DEF PayloadStored, TablesGrow, RawDigest
<1>4. QED
  BY <1>1, <1>2, <1>3 DEF PassOK, TablesGrow, CompleteIds, Complete

LEMMA DrainedTyped ==
  ASSUME TypeOK, NEW i \in Ingester
  PROVE  /\ Drained(i) \in Nat
         /\ pc[i] \in InBatch => pos[i] \in Nat \ {0} /\ after[i] <= pos[i] - 1
         /\ after[i] \in Nat
<1>1. after[i] \in Nat /\ pos[i] \in Nat
  BY DEF TypeOK
<1>2. pc[i] \in InBatch => after[i] < pos[i]
  BY DEF TypeOK, InBatch
<1>3. QED
  BY <1>1, <1>2 DEF Drained

LEMMA NextExportDrains ==
  ASSUME TypeOK, NEW i \in Ingester, pc[i] \in InBatch, NextExport(i)
  PROVE  /\ Drained(i)' = pos[i]
         /\ pc'[i] \in {"event", "discover"}
<1>1. /\ pos[i] \in Nat /\ upto[i] \in Nat /\ pos[i] <= upto[i]
      /\ pos \in [Ingester -> Nat] /\ after \in [Ingester -> Nat]
      /\ pc \in [Ingester -> Steps]
  BY DEF TypeOK, InBatch
<1>2. QED
  BY <1>1 DEF NextExport, Drained, InBatch

LEMMA CompleteIdsStep ==
  ASSUME NEW s, NEW n \in Nat \ {0}
  PROVE  CompleteIds(s, n) =
           CompleteIds(s, n - 1) \cup
             (IF Complete(s, n) THEN {ObservationId(Feed[s][n])} ELSE {})
<1>1. 1..n = 1..(n - 1) \cup {n}
  OBVIOUS
<1>2. QED
  BY <1>1 DEF CompleteIds

\* What the store has of an id that no other source's feed has is of its source.
LEMMA StoredIsIngested ==
  ASSUME IInv, NEW s \in Source, NEW k,
         ObservationId(Feed[s][k]) \in StoredIds(db), ~SharedId(s, k)
  PROVE  Ingested(s, k)
<1>1. PICK o \in db.observations : o.id = ObservationId(Feed[s][k])
  BY DEF StoredIds
<1>2. o.source \in Source
  BY StoreAssumed DEF IInv, TypeOK, Store!TypeOK, StoreProofs!StoreAssumption
<1>3. PICK j \in 1..published[o.source] : o = Observation(o.source, j, o.run)
  BY DEF IInv, NoGapInStore
<1>4. j \in 1..Len(Feed[o.source])
  BY <1>2, FeedLengths DEF IInv, TypeOK
<1>5. ObservationId(Feed[o.source][j]) = ObservationId(Feed[s][k])
  BY <1>1, <1>3 DEF Observation
<1>6. QED
  BY <1>1, <1>2, <1>4, <1>5 DEF SharedId, Ingested

\* Going past the export in hand, which is not evidence or is stored.
LEMMA PassAdvances ==
  ASSUME IInv, NEW i \in Ingester, pc[i] \in InBatch, NextExport(i),
         pc[i] # "failed", TablesGrow, StoredIds(db) \subseteq StoredIds(db'),
         NEW n, n = pos[i], Covered(SourceOf[i], n)',
         Complete(SourceOf[i], pos[i]) =>
           ObservationId(Feed[SourceOf[i]][pos[i]]) \in StoredIds(db'),
         reported'[i] = reported[i] \cup
           (IF Complete(SourceOf[i], pos[i])
            THEN {ObservationId(Feed[SourceOf[i]][pos[i]])} ELSE {})
  PROVE  PassOK(i)'
<1> DEFINE s == SourceOf[i]
<1>1. /\ pos[i] \in Nat \ {0} /\ Drained(i) = pos[i] - 1
      /\ Drained(i)' = pos[i] /\ pc'[i] \in {"event", "discover"}
  BY DrainedTyped, NextExportDrains DEF IInv, Drained
<1>2. ASSUME NEW k \in 1..n PROVE Covered(s, k)'
  <2>1. CASE k = n
    BY <2>1
  <2>2. CASE k # n
    <3>1. k \in 1..Drained(i)
      BY <1>1, <2>2
    <3>2. QED
      BY <3>1, CoveredStays DEF IInv, PassOK
  <2>3. QED
    BY <2>1, <2>2
<1>3. reported'[i] = CompleteIds(s, pos[i])
  BY <1>1, CompleteIdsStep DEF IInv, PassOK
<1>4. reported'[i] \subseteq StoredIds(db')
  BY DEF IInv, PassOK
<1>5. Class \in db'.classes
  BY DEF IInv, PassOK, TablesGrow
<1>6. QED
  BY <1>1, <1>2, <1>3, <1>4, <1>5 DEF PassOK, CompleteIds, Complete

\* Staying at the same export, or failing.
LEMMA PassStays ==
  ASSUME IInv, NEW i \in Ingester, TablesGrow,
         StoredIds(db) \subseteq StoredIds(db'),
         after'[i] = after[i], pos'[i] = pos[i], reported'[i] = reported[i],
         \/ pc'[i] = "failed"
         \/ /\ pc[i] # "failed"
            /\ pc'[i] \in InBatch <=> pc[i] \in InBatch,
         pc'[i] \in {"source", "run", "discover"} => Class \in db'.classes,
         pc'[i] \in {"append", "lookup"} =>
           Complete(SourceOf[i], pos[i]) /\ PayloadStored(SourceOf[i], pos[i])'
  PROVE  PassOK(i)'
<1> DEFINE s == SourceOf[i]
<1>1. /\ Drained(i)' <= Drained(i) /\ Drained(i)' \in Nat /\ Drained(i) \in Nat
      /\ pc'[i] # "failed" => Drained(i)' = Drained(i)
  BY DrainedTyped DEF IInv, Drained, InBatch
<1>2. \A k \in 1..Drained(i)' : Covered(s, k)'
  BY <1>1, CoveredStays DEF IInv, PassOK
<1>3. reported'[i] \subseteq StoredIds(db')
  BY DEF IInv, PassOK
<1>4. pc'[i] # "failed" => reported'[i] = CompleteIds(s, Drained(i)')
  BY <1>1 DEF IInv, PassOK
<1>5. pc'[i] \in InBatch => Class \in db'.classes
  BY DEF IInv, PassOK, InBatch, TablesGrow
<1>6. QED
  BY <1>2, <1>3, <1>4, <1>5 DEF PassOK, CompleteIds, Complete

LEMMA OwnStep ==
  ASSUME IInv, NEW i \in Ingester, Writes(i) \/ Reads(i), TablesGrow,
         StoredIds(db) \subseteq StoredIds(db')
  PROVE  PassOK(i)'
<1> DEFINE s == SourceOf[i]
<1>0. /\ TypeOK /\ PassOK(i) /\ pc \in [Ingester -> Steps]
      /\ DOMAIN reported = Ingester
  BY DEF IInv, TypeOK
<1>1. ASSUME NEW r \in Run, StartPass(i, r) PROVE PassOK(i)'
  <2>1. /\ pc[i] = "idle" /\ pc'[i] = "class"
        /\ UNCHANGED <<after, pos, reported>>
    BY <1>0, <1>1 DEF StartPass, Goto
  <2>2. QED
    BY <2>1, PassStays DEF InBatch
<1>2. CASE InsertRetentionClass(i)
  <2>1. /\ pc[i] = "class" /\ pc'[i] = "source" /\ UNCHANGED <<after, pos, reported>>
        /\ Class \in db'.classes
    BY <1>0, <1>2, InsertEffects DEF InsertRetentionClass, Goto, local
  <2>2. QED
    BY <2>1, PassStays DEF InBatch
<1>3. CASE InsertSource(i) \/ InsertCollectionRun(i)
  <2>1. /\ pc[i] \in {"source", "run"} /\ pc'[i] \in {"run", "discover"}
        /\ UNCHANGED <<after, pos, reported>>
    BY <1>0, <1>3 DEF InsertSource, InsertCollectionRun, Goto, local
  <2>2. Class \in db'.classes
    BY <1>0, <2>1 DEF PassOK, TablesGrow
  <2>3. QED
    BY <2>1, <2>2, PassStays DEF InBatch
<1>4. CASE DiscoverEmpty(i) \/ DiscoverInvalid(i)
  <2>1. /\ pc[i] = "discover" /\ pc'[i] \in {"done", "failed"}
        /\ UNCHANGED <<after, pos, reported>>
    BY <1>0, <1>4 DEF DiscoverEmpty, DiscoverInvalid, Goto, local
  <2>2. QED
    BY <2>1, PassStays DEF InBatch
<1>5. CASE DiscoverBatch(i)
  <2>1. /\ pc[i] = "discover" /\ pc'[i] = "event"
        /\ after[i] \in Nat /\ pos'[i] = after[i] + 1
        /\ UNCHANGED <<db, after, reported>>
    BY <1>0, <1>5 DEF DiscoverBatch, Goto, TypeOK
  <2>2. Drained(i)' = after[i] /\ Drained(i) = after[i]
    BY <2>1 DEF Drained, InBatch
  <2>3. \A k \in 1..after[i] : Covered(s, k)'
    BY <1>0, <2>2, CoveredStays DEF PassOK
  <2>4. QED
    BY <1>0, <2>1, <2>2, <2>3 DEF PassOK, CompleteIds, Complete
<1>6. CASE InsertRawPayload(i)
  <2>1. /\ pc[i] = "event" /\ pc'[i] = "append" /\ UNCHANGED <<after, pos, reported>>
        /\ Complete(s, pos[i])
    BY <1>0, <1>6 DEF InsertRawPayload, Goto, local
  <2>2. PayloadStored(s, pos[i])'
    BY <1>0, <1>6, <2>1, InsertEffects DEF PassOK, InBatch
  <2>3. QED
    BY <2>1, <2>2, PassStays DEF InBatch
<1>7. ASSUME pc[i] \in {"append", "lookup"}, pc'[i] \in {"lookup", "failed"},
             UNCHANGED <<db, after, pos, reported>>
      PROVE  PassOK(i)'
  <2>1. Complete(s, pos[i]) /\ PayloadStored(s, pos[i])'
    BY <1>0, <1>7 DEF PassOK, PayloadStored, RawDigest
  <2>2. QED
    BY <1>7, <2>1, PassStays DEF InBatch
<1>8. CASE AppendRejected(i) \/ PersistFailed(i)
  BY <1>0, <1>7, <1>8 DEF AppendRejected, PersistFailed, Goto, local
<1>9. CASE TransientFailure(i)
  <2>1. CASE pc'[i] = "failed"
    BY <1>9, <2>1, PassStays DEF TransientFailure, local
  <2>2. CASE Goto(i, "append", "lookup")
    BY <1>0, <1>7, <1>9, <2>2 DEF TransientFailure, Goto, local
  <2>3. QED
    BY <1>0, <1>9, <2>1, <2>2 DEF TransientFailure
<1>10. CASE SkipExport(i)
  <2>1. /\ pc[i] = "event" /\ ~Complete(s, pos[i]) /\ NextExport(i)
        /\ reported' = reported
    BY <1>10 DEF SkipExport
  <2>2. ASSUME NEW n, n = pos[i] PROVE Covered(s, n)'
    BY <2>1, <2>2 DEF Covered, Complete
  <2>3. QED
    BY <2>1, <2>2, PassAdvances DEF InBatch
<1>11. CASE AppendObservation(i) \/ CountDuplicate(i)
  <2>1. /\ pc[i] \in {"append", "lookup"} /\ Report(i) /\ NextExport(i)
        /\ Complete(s, pos[i])
    BY <1>0, <1>11 DEF AppendObservation, CountDuplicate, PassOK
  <2>2. InHand(i).id = ObservationId(Feed[s][pos[i]])
    BY DEF InHand, Observation
  <2>3. InHand(i).id \in StoredIds(db')
    <3>1. CASE AppendObservation(i)
      BY <1>0, <3>1, AppendEffect DEF StoredIds
    <3>2. CASE CountDuplicate(i)
      BY <3>2 DEF CountDuplicate
    <3>3. QED
      BY <1>11, <3>1, <3>2
  <2>4. ASSUME NEW n, n = pos[i] PROVE Covered(s, n)'
    <3>1. CASE AppendObservation(i)
      <4>1. /\ InHand(i) \in db'.observations
            /\ InHand(i).source = s /\ InHand(i).id = ObservationId(Feed[s][n])
        BY <1>0, <2>2, <2>4, <3>1, AppendEffect DEF InHand, Observation
      <4>2. QED
        BY <4>1 DEF Covered, Ingested
    <3>2. CASE CountDuplicate(i)
      <4>1. Covered(s, n)
        BY <2>2, <2>4, <3>2, StoredIsIngested, IngestAssumption
           DEF CountDuplicate, Covered
      <4>2. QED
        BY <4>1, CoveredStays
    <3>3. QED
      BY <1>11, <3>1, <3>2
  <2>5. reported'[i] = reported[i] \cup {ObservationId(Feed[s][pos[i]])}
    BY <1>0, <2>1, <2>2 DEF Report
  <2>6. QED
    BY <2>1, <2>2, <2>3, <2>4, <2>5, PassAdvances DEF InBatch
<1>12. ASSUME Forget(i) PROVE PassOK(i)'
  <2>1. pc'[i] = "idle" /\ after'[i] = 0 /\ reported'[i] = {}
    BY <1>0, <1>12 DEF Forget, TypeOK
  <2>2. Drained(i)' = 0 /\ 1..0 = {}
    BY <2>1 DEF Drained, InBatch
  <2>3. QED
    BY <2>1, <2>2 DEF PassOK, CompleteIds, InBatch
<1>13. CASE EndPass(i) \/ Crash(i)
  BY <1>12, <1>13 DEF EndPass, Crash
<1>14. QED
  BY <1>1, <1>2, <1>3, <1>4, <1>5, <1>6, <1>8, <1>9, <1>10, <1>11, <1>13
     DEF Writes, Reads

-----------------------------------------------------------------------------
(* Who else is touched by a step of i: nobody.                             *)

LEMMA OthersKeep ==
  ASSUME TypeOK, NEW i \in Ingester, Writes(i) \/ Reads(i), DOMAIN reported = Ingester
  PROVE  /\ DOMAIN reported' = Ingester
         /\ \A j \in Ingester \ {i} :
              /\ pc'[j] = pc[j] /\ after'[j] = after[j]
              /\ pos'[j] = pos[j] /\ reported'[j] = reported[j]
<1> USE DEF TypeOK
<1>1. ASSUME NEW r \in Run, StartPass(i, r)
      PROVE  /\ \E t \in Steps : pc' = [pc EXCEPT ![i] = t]
             /\ UNCHANGED <<after, pos, reported>>
  BY <1>1 DEF StartPass, Goto, Steps
<1>2. ASSUME \/ InsertRetentionClass(i) \/ InsertSource(i) \/ InsertCollectionRun(i)
             \/ DiscoverEmpty(i) \/ DiscoverInvalid(i) \/ InsertRawPayload(i)
             \/ AppendRejected(i) \/ PersistFailed(i) \/ TransientFailure(i)
      PROVE  /\ \E t \in Steps : pc' = [pc EXCEPT ![i] = t]
             /\ UNCHANGED <<after, pos, reported>>
  BY <1>2 DEF InsertRetentionClass, InsertSource, InsertCollectionRun, DiscoverEmpty,
              DiscoverInvalid, InsertRawPayload, AppendRejected, PersistFailed,
              TransientFailure, Goto, local, Steps
<1>3. CASE DiscoverBatch(i)
  BY <1>3 DEF DiscoverBatch, Goto
<1>4. CASE SkipExport(i) \/ AppendObservation(i) \/ CountDuplicate(i)
  BY <1>4 DEF SkipExport, AppendObservation, CountDuplicate, NextExport, Report
<1>5. CASE EndPass(i) \/ Crash(i)
  BY <1>5 DEF EndPass, Crash, Forget
<1>6. QED
  BY <1>1, <1>2, <1>3, <1>4, <1>5 DEF Writes, Reads

\* What is stored after a step that is none of i's appends was stored before.
LEMMA GapFrame ==
  ASSUME NoGapInStore, TypeOK, TablesGrow,
         \A s \in Source : published[s] <= published'[s],
         published' \in [Source -> Nat],
         NEW o \in db.observations
  PROVE  \E k \in 1..published'[o.source] :
           /\ o = Observation(o.source, k, o.run)
           /\ \A j \in 1..(k - 1) : Covered(o.source, j)'
<1>1. PICK k \in 1..published[o.source] :
        /\ o = Observation(o.source, k, o.run)
        /\ \A j \in 1..(k - 1) : Covered(o.source, j)
  BY DEF NoGapInStore
<1>2. o.source \in Source
  BY StoreAssumed DEF TypeOK, Store!TypeOK, StoreProofs!StoreAssumption
<1>3. k \in 1..published'[o.source]
  BY <1>2 DEF TypeOK
<1>4. \A j \in 1..(k - 1) : Covered(o.source, j)'
  BY <1>1, CoveredStays
<1>5. QED
  BY <1>1, <1>3, <1>4

LEMMA AppendKeepsOrder ==
  ASSUME IInv, NEW i \in Ingester, AppendObservation(i), TypeOK',
         StoredIds(db) \subseteq StoredIds(db'), TablesGrow,
         \A s \in Source : published[s] <= published'[s]
  PROVE  NoGapInStore' /\ EvidenceBeforeObservation' /\ CursorIsNewestObservation'
<1> DEFINE s == SourceOf[i]
<1>0. PICK o : o = InHand(i)
  OBVIOUS
<1>1. /\ TypeOK /\ PassOK(i) /\ pc[i] = "append"
      /\ NoGapInStore /\ EvidenceBeforeObservation /\ CursorIsNewestObservation
  BY DEF IInv, AppendObservation
<1>2. /\ s \in Source /\ pos[i] \in 1..published[s] /\ run[i] \in Run
      /\ pos[i] \in 1..Len(Feed[s])
  BY <1>1, InHandFacts DEF InBatch
<1>3. /\ o = Observation(s, pos[i], run[i]) /\ o.source = s /\ o.run = run[i]
      /\ o.raw = RawDigest(s, pos[i]) /\ o.observed_at \in Nat
  BY <1>0, <1>2, ExportFacts, IngestAssumption DEF InHand
<1>4. /\ db'.observations = db.observations \cup {o}
      /\ db'.payloads = db.payloads
      /\ db'.cursors = [db.cursors EXCEPT ![s] = o.observed_at]
      /\ db.cursors[s] < o.observed_at
      /\ db.cursors \in [Source -> Nat]
  BY <1>0, <1>1, AppendEffect DEF TypeOK, Store!TypeOK
<1> HIDE DEF s
<1>5. NoGapInStore'
  <2>1. published \in [Source -> Nat] /\ published' \in [Source -> Nat]
    BY <1>1 DEF TypeOK
  <2>2. pos[i] \in 1..published'[s]
    BY <1>2, <2>1
  <2>3. \A j \in 1..(pos[i] - 1) : Covered(s, j)'
    BY <1>1, CoveredStays DEF PassOK, Drained, InBatch, s
  <2>4. \E k \in 1..published'[o.source] :
          /\ o = Observation(o.source, k, o.run)
          /\ \A j \in 1..(k - 1) : Covered(o.source, j)'
    BY <1>3, <2>2, <2>3
  <2>5. ASSUME NEW p \in db'.observations
        PROVE  \E k \in 1..published'[p.source] :
                 /\ p = Observation(p.source, k, p.run)
                 /\ \A j \in 1..(k - 1) : Covered(p.source, j)'
    <3>1. CASE p = o
      BY <2>4, <3>1
    <3>2. CASE p \in db.observations
      BY <1>1, <2>1, <3>2, GapFrame
    <3>3. QED
      BY <1>4, <3>1, <3>2
  <2>6. QED
    BY <2>5 DEF NoGapInStore
<1>6. EvidenceBeforeObservation'
  BY <1>1, <1>3, <1>4 DEF EvidenceBeforeObservation, PassOK, PayloadStored, s
<1>7. CursorIsNewestObservation'
  <2> SUFFICES ASSUME NEW t \in Source
               PROVE  /\ \A p \in db'.observations :
                           p.source = t => p.observed_at <= db'.cursors[t]
                      /\ db'.cursors[t] > 0 =>
                           \E p \in db'.observations :
                             p.source = t /\ p.observed_at = db'.cursors[t]
    BY DEF CursorIsNewestObservation
  <2>1. CASE t = s
    <3>1. db'.cursors[t] = o.observed_at
      BY <1>4, <2>1
    <3>2. \A p \in db.observations : p.source = t => p.observed_at <= db.cursors[t]
      BY <1>1 DEF CursorIsNewestObservation
    <3>3. ASSUME NEW p \in db.observations, p.source = t
          PROVE  p.observed_at \in Nat /\ p.observed_at <= o.observed_at
      <4>1. p.observed_at \in Nat
        BY <1>1, StoreAssumed DEF TypeOK, Store!TypeOK, StoreProofs!StoreAssumption
      <4>2. QED
        BY <1>3, <1>4, <2>1, <3>2, <3>3, <4>1
    <3>4. QED
      BY <1>3, <1>4, <2>1, <3>1, <3>3
  <2>2. CASE t # s
    BY <1>1, <1>3, <1>4, <2>2 DEF CursorIsNewestObservation
  <2>3. QED
    BY <2>1, <2>2
<1>8. QED
  BY <1>5, <1>6, <1>7

LEMMA NextIInv == IInv /\ [Next]_vars => IInv'
<1> SUFFICES ASSUME IInv, [Next]_vars PROVE IInv'
  OBVIOUS
<1>1. TypeOK /\ TypeOK' /\ DOMAIN reported = Ingester
  BY NextTypeOK DEF IInv
<1>2. /\ TablesGrow /\ StoredIds(db) \subseteq StoredIds(db')
      /\ \A s \in Source : published[s] <= published'[s]
  BY <1>1, StepGrows
<1>3. DOMAIN reported' = Ingester /\ \A j \in Ingester : PassOK(j)'
  <2>1. ASSUME NEW i \in Ingester, Writes(i) \/ Reads(i)
        PROVE  DOMAIN reported' = Ingester /\ \A j \in Ingester : PassOK(j)'
    <3>1. PassOK(i)'
      BY <1>2, <2>1, OwnStep
    <3>2. ASSUME NEW j \in Ingester \ {i} PROVE PassOK(j)'
      BY <1>1, <1>2, <2>1, OthersKeep, PassFrame DEF IInv
    <3>3. QED
      BY <1>1, <2>1, <3>1, <3>2, OthersKeep
  <2>2. CASE UNCHANGED <<pc, after, pos, reported>>
    BY <1>1, <1>2, <2>2, PassFrame DEF IInv
  <2>3. QED
    BY <2>1, <2>2, StepKinds DEF Publish, vars, local
<1>4. NoGapInStore' /\ EvidenceBeforeObservation' /\ CursorIsNewestObservation'
  <2>1. CASE \E i \in Ingester : AppendObservation(i)
    BY <1>1, <1>2, <2>1, AppendKeepsOrder
  <2>2. CASE db'.observations = db.observations /\ db'.cursors = db.cursors
    <3>1. published' \in [Source -> Nat]
      BY <1>1 DEF TypeOK
    <3>2. NoGapInStore'
      <4>1. ASSUME NEW o \in db.observations
            PROVE  \E k \in 1..published'[o.source] :
                     /\ o = Observation(o.source, k, o.run)
                     /\ \A j \in 1..(k - 1) : Covered(o.source, j)'
        BY <1>1, <1>2, <3>1, GapFrame DEF IInv
      <4>2. QED
        BY <2>2, <4>1 DEF NoGapInStore
    <3>3. EvidenceBeforeObservation'
      BY <1>2, <2>2 DEF IInv, EvidenceBeforeObservation, TablesGrow
    <3>4. CursorIsNewestObservation'
      BY <2>2 DEF IInv, CursorIsNewestObservation
    <3>5. QED
      BY <3>2, <3>3, <3>4
  <2>3. ASSUME NEW i \in Ingester, Writes(i), ~AppendObservation(i)
        PROVE  db'.observations = db.observations /\ db'.cursors = db.cursors
    BY <1>1, <2>3, InsertEffects DEF Writes
  <2>4. QED
    BY <2>1, <2>2, <2>3, StepKinds, ReadsKeepsTables DEF Publish, vars
<1>5. QED
  BY <1>1, <1>3, <1>4 DEF IInv

LEMMA IngestInvariant == Spec => []IInv
  BY InitIInv, NextIInv, PTL DEF Spec

(* The store never shows a gap: an observation is stored only after every  *)
(* complete export before it in its feed is stored for the same source,    *)
(* whichever passes of whichever ingesters stored them, failed or died;    *)
(* exports whose id the feed of another source has too are left out.       *)
THEOREM IngestLeavesNoGap == Spec => []NoGapInStore
<1>1. IInv => NoGapInStore
  BY DEF IInv
<1>2. QED
  BY <1>1, IngestInvariant, PTL

(* A pass that returns Ok reports the ids of exactly the complete exports  *)
(* up to its checkpoint, all of them stored, each for its own source       *)
(* unless the feed of another source has its id too.                       *)
THEOREM IngestReportsAll == Spec => []DrainedPassReportsAll
<1>1. IInv => DrainedPassReportsAll
  <2>1. ASSUME IInv, NEW i \in Ingester
        PROVE  /\ reported[i] \subseteq StoredIds(db)
               /\ pc[i] = "done" =>
                    /\ reported[i] = CompleteIds(SourceOf[i], after[i])
                    /\ \A k \in 1..after[i] : Covered(SourceOf[i], k)
    BY <2>1 DEF IInv, PassOK, Drained, InBatch
  <2>2. QED
    BY <2>1 DEF DrainedPassReportsAll, CompleteIds
<1>2. QED
  BY <1>1, IngestInvariant, PTL

(* No observation is visible before the descriptor of its raw payload.     *)
THEOREM IngestEvidenceFirst == Spec => []EvidenceBeforeObservation
<1>1. IInv => EvidenceBeforeObservation
  BY DEF IInv
<1>2. QED
  BY <1>1, IngestInvariant, PTL

(* The persisted cursor is the time of the newest observation of its       *)
(* source, however many ingesters share the source.                        *)
THEOREM IngestCursorIsNewest == Spec => []CursorIsNewestObservation
<1>1. IInv => CursorIsNewestObservation
  BY DEF IInv
<1>2. QED
  BY <1>1, IngestInvariant, PTL
=============================================================================
