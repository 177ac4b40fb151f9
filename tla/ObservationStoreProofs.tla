----------------------- MODULE ObservationStoreProofs -----------------------
(***************************************************************************)
(* Proofs about ObservationStore, for every set of candidate observations, *)
(* sources and times: the type invariant, the lineage invariants and that  *)
(* the cursor of a source never trails its observations.                   *)
(***************************************************************************)
EXTENDS ObservationStore, TLAPS

(* What an append leaves in each table.                                    *)
LEMMA AppendedTables ==
  ASSUME TypeOK, NEW o \in Candidate, NEW c, c.source \in Source
  PROVE  /\ Appended(db, o, c).classes = db.classes
         /\ Appended(db, o, c).sources = db.sources
         /\ Appended(db, o, c).runs = db.runs
         /\ Appended(db, o, c).payloads = db.payloads
         /\ Appended(db, o, c).reorgs = db.reorgs
         /\ Appended(db, o, c).hints = db.hints
         /\ Appended(db, o, c).observations = db.observations \cup {o}
         /\ Appended(db, o, c).subjects =
              db.subjects \cup [id : {o.id}, subject : o.subjects]
         /\ Appended(db, o, c).supersessions =
              db.supersessions \cup
                (IF o.supersedes = NoObservation THEN {}
                 ELSE {[superseding |-> o.id, superseded |-> o.supersedes]})
         /\ Appended(db, o, c).cursors =
              [db.cursors EXCEPT ![c.source] = c.observed_at]
  BY DEF TypeOK, Appended, WithObservation, WithSubjects, WithSupersession,
         WithCursor

(* A step of the store is an append or leaves the observations, their      *)
(* supersessions and the cursors alone.                                    *)
Quiet ==
  /\ db'.observations = db.observations
  /\ db'.supersessions = db.supersessions
  /\ db'.cursors = db.cursors

LEMMA StepIsAppendOrQuiet ==
  ASSUME TypeOK, [Next]_db
  PROVE  \/ Quiet
         \/ \E o \in Candidate, s \in Source, t \in 1..MaxTime :
              AppendObservation(o, [source |-> s, observed_at |-> t])
<1>1. CASE \E c \in RetentionClass : InsertRetentionClass(c)
  BY <1>1 DEF InsertRetentionClass, TypeOK, Quiet
<1>2. CASE \E s \in Source, c \in RetentionClass : InsertSource(s, c)
  BY <1>2 DEF InsertSource, WithSource, TypeOK, Quiet
<1>3. CASE \E r \in Run, s \in Source : InsertCollectionRun(r, s)
  BY <1>3 DEF InsertCollectionRun, WithRun, TypeOK, Quiet
<1>4. CASE \E d \in Digest, c \in RetentionClass : InsertRawPayloadDescriptor(d, c)
  BY <1>4 DEF InsertRawPayloadDescriptor, WithPayload, TypeOK, Quiet
<1>5. CASE \E g \in Reorg, s \in Source : AppendReorg(g, s)
  BY <1>5 DEF AppendReorg, WithReorg, TypeOK, Quiet
<1>6. CASE \E l, r \in CandidateIds, d \in Detector :
        AppendContradictionHint([left |-> l, right |-> r, detector |-> d])
  BY <1>6 DEF AppendContradictionHint, WithHint, TypeOK, Quiet
<1>7. CASE UNCHANGED db
  BY <1>7 DEF Quiet
<1>8. QED
  BY <1>1, <1>2, <1>3, <1>4, <1>5, <1>6, <1>7 DEF Next

-----------------------------------------------------------------------------
LEMMA InitTypeOK == Init => TypeOK
  BY DEF Init, EmptyTables, TypeOK

LEMMA AppendTypeOK ==
  ASSUME TypeOK, NEW o \in Candidate, NEW s \in Source, NEW t \in 1..MaxTime,
         AppendObservation(o, [source |-> s, observed_at |-> t])
  PROVE  TypeOK'
<1> DEFINE c == [source |-> s, observed_at |-> t]
<1>1. /\ ValidLineage(db, o)
      /\ db' = Appended(db, o, c)
  BY DEF AppendObservation, AppendAllowed, ObservationAllowed
<1>2. o.supersedes # NoObservation => o.supersedes \in CandidateIds
  BY <1>1 DEF ValidLineage, TypeOK, CandidateIds
<1>3. o.id \in CandidateIds /\ o.subjects \subseteq Subjects
  BY DEF CandidateIds, Subjects
<1>4. t \in Nat
  BY StoreAssumption
<1>5. /\ db.observations \cup {o} \subseteq Candidate
      /\ db.subjects \cup [id : {o.id}, subject : o.subjects]
           \subseteq [id : CandidateIds, subject : Subjects]
      /\ [db.cursors EXCEPT ![s] = t] \in [Source -> Nat]
  BY <1>3, <1>4 DEF TypeOK
<1>6. db.supersessions \cup
        (IF o.supersedes = NoObservation THEN {}
         ELSE {[superseding |-> o.id, superseded |-> o.supersedes]})
        \subseteq [superseding : CandidateIds, superseded : CandidateIds]
  BY <1>2, <1>3 DEF TypeOK
<1>7. QED
  BY <1>1, <1>5, <1>6
     DEF TypeOK, Appended, WithObservation, WithSubjects, WithSupersession,
         WithCursor

LEMMA NextTypeOK == TypeOK /\ [Next]_db => TypeOK'
<1> SUFFICES ASSUME TypeOK, [Next]_db PROVE TypeOK'
  OBVIOUS
<1>1. CASE \E c \in RetentionClass : InsertRetentionClass(c)
  BY <1>1 DEF InsertRetentionClass, TypeOK
<1>2. CASE \E s \in Source, c \in RetentionClass : InsertSource(s, c)
  BY <1>2 DEF InsertSource, WithSource, TypeOK
<1>3. CASE \E r \in Run, s \in Source : InsertCollectionRun(r, s)
  BY <1>3 DEF InsertCollectionRun, WithRun, TypeOK
<1>4. CASE \E d \in Digest, c \in RetentionClass : InsertRawPayloadDescriptor(d, c)
  BY <1>4 DEF InsertRawPayloadDescriptor, WithPayload, TypeOK
<1>5. CASE \E g \in Reorg, s \in Source : AppendReorg(g, s)
  BY <1>5 DEF AppendReorg, WithReorg, TypeOK
<1>6. CASE \E l, r \in CandidateIds, d \in Detector :
        AppendContradictionHint([left |-> l, right |-> r, detector |-> d])
  BY <1>6 DEF AppendContradictionHint, WithHint, TypeOK
<1>7. CASE \E o \in Candidate, s \in Source, t \in 1..MaxTime :
             AppendObservation(o, [source |-> s, observed_at |-> t])
  BY <1>7, AppendTypeOK
<1>8. CASE UNCHANGED db
  BY <1>8 DEF TypeOK
<1>9. QED
  BY <1>1, <1>2, <1>3, <1>4, <1>5, <1>6, <1>7, <1>8 DEF Next

(* Every reachable store is well-typed.                                    *)
THEOREM StoreTypeCorrect == Spec => []TypeOK
<1>1. Init => TypeOK
  BY InitTypeOK
<1>2. TypeOK /\ [Next]_db => TypeOK'
  BY NextTypeOK
<1>3. QED
  BY <1>1, <1>2, PTL DEF Spec

-----------------------------------------------------------------------------
(* The invariants of the runs are inductive together.  Their proofs share  *)
(* one fact about an append: the new row's id and the row it corrects.     *)
IInv ==
  /\ TypeOK
  /\ UniqueIds
  /\ LineageSound
  /\ LineageTerminates
  /\ OneOriginalPerEvent
  /\ CursorCoversObservations

LEMMA AppendEffect ==
  ASSUME TypeOK, NEW o \in Candidate, NEW s \in Source, NEW t \in 1..MaxTime,
         AppendObservation(o, [source |-> s, observed_at |-> t])
  PROVE  /\ db'.observations = db.observations \cup {o}
         /\ db'.supersessions =
              db.supersessions \cup
                (IF o.supersedes = NoObservation THEN {}
                 ELSE {[superseding |-> o.id, superseded |-> o.supersedes]})
         /\ db'.cursors = [db.cursors EXCEPT ![o.source] = t]
         /\ s = o.source /\ t \in Nat /\ o.observed_at <= t
         /\ db.cursors[o.source] < t
         /\ \A p \in db.observations : p.id # o.id
         /\ o.supersedes # o.id
         /\ o.supersedes = NoObservation =>
              \A p \in db.observations : ~SameEvent(p, o)
         /\ o.supersedes # NoObservation =>
              \E p \in db.observations : p.id = o.supersedes /\ SameEvent(p, o)
<1> DEFINE c == [source |-> s, observed_at |-> t]
<1>1. AppendAllowed(db, o, c) /\ db' = Appended(db, o, c)
  BY DEF AppendObservation
<1>2. t \in Nat /\ s = o.source /\ o.observed_at <= t
  BY <1>1, StoreAssumption DEF AppendAllowed, ValidCursor
<1>3. db.cursors[o.source] < t
  BY <1>1, <1>2 DEF AppendAllowed, CursorAllowed, TypeOK
<1>4. c.source = s /\ c.observed_at = t
  OBVIOUS
<1>5. QED
  BY <1>1, <1>2, <1>3, <1>4, AppendedTables
     DEF AppendAllowed, ObservationAllowed, RequiresLineage, ValidLineage

LEMMA AppendPreserves ==
  ASSUME IInv, NEW o \in Candidate, NEW s \in Source, NEW t \in 1..MaxTime,
         AppendObservation(o, [source |-> s, observed_at |-> t])
  PROVE  IInv'
<1> USE DEF IInv
<1>1. TypeOK'
  BY AppendTypeOK
<1>2. /\ db'.observations = db.observations \cup {o}
      /\ db'.supersessions =
           db.supersessions \cup
             (IF o.supersedes = NoObservation THEN {}
              ELSE {[superseding |-> o.id, superseded |-> o.supersedes]})
      /\ \A p \in db.observations : p.id # o.id
      /\ o.supersedes # o.id
  BY AppendEffect
<1>3. UniqueIds'
  BY <1>2 DEF UniqueIds
<1>4. LineageSound'
  <2>1. ASSUME NEW p \in db'.observations, p.supersedes # NoObservation
        PROVE  \E q \in db'.observations : q.id = p.supersedes /\ SameEvent(q, p)
    <3>1. CASE p = o
      <4>1. \E q \in db.observations : q.id = o.supersedes /\ SameEvent(q, o)
        BY <2>1, <3>1, AppendEffect
      <4>2. QED
        BY <4>1, <3>1, <1>2
    <3>2. CASE p \in db.observations
      <4>1. \E q \in db.observations : q.id = p.supersedes /\ SameEvent(q, p)
        BY <2>1, <3>2 DEF LineageSound
      <4>2. QED
        BY <4>1, <1>2
    <3>3. QED
      BY <3>1, <3>2, <1>2
  <2>2. \A x \in db'.supersessions : \E p \in db'.observations :
          x.superseding = p.id /\ x.superseded = p.supersedes
    BY <1>2 DEF LineageSound
  <2>3. ASSUME NEW p \in db'.observations, p.supersedes # NoObservation
        PROVE  \E x \in db'.supersessions :
                 x.superseding = p.id /\ x.superseded = p.supersedes
    <3>1. CASE p = o
      <4>1. [superseding |-> o.id, superseded |-> o.supersedes]
              \in db'.supersessions
        BY <2>3, <3>1, <1>2
      <4>2. QED
        BY <4>1, <3>1
    <3>2. CASE p \in db.observations
      <4>1. \E x \in db.supersessions :
              x.superseding = p.id /\ x.superseded = p.supersedes
        BY <2>3, <3>2 DEF LineageSound
      <4>2. db.supersessions \subseteq db'.supersessions
        BY <1>2
      <4>3. QED
        BY <4>1, <4>2
    <3>3. QED
      BY <3>1, <3>2, <1>2
  <2>4. QED
    BY <2>1, <2>2, <2>3 DEF LineageSound
<1>5. LineageTerminates'
  <2> SUFFICES ASSUME NEW S \in SUBSET db'.observations, S # {}
               PROVE  \E m \in S : m.supersedes \notin { p.id : p \in S }
    BY DEF LineageTerminates
  <2> DEFINE T == S \ {o}
  <2>1. T \in SUBSET db.observations
    BY <1>2
  <2>2. CASE T = {}
    BY <2>2, <1>2
  <2>3. CASE T # {}
    <3>1. PICK m \in T : m.supersedes \notin { p.id : p \in T }
      BY <2>1, <2>3 DEF LineageTerminates
    <3>2. m.supersedes # o.id
      <4>1. CASE m.supersedes = NoObservation
        BY <4>1, StoreAssumption
      <4>2. CASE m.supersedes # NoObservation
        BY <4>2, <2>1, <1>2 DEF LineageSound
      <4>3. QED
        BY <4>1, <4>2
    <3>3. QED
      BY <3>1, <3>2
  <2>4. QED
    BY <2>2, <2>3
<1>6. OneOriginalPerEvent'
  <2>1. o.supersedes = NoObservation =>
          \A p \in db.observations : ~SameEvent(p, o) /\ ~SameEvent(o, p)
    BY AppendEffect DEF SameEvent
  <2>2. QED
    BY <1>2, <2>1 DEF OneOriginalPerEvent
<1>7. CursorCoversObservations'
  <2>1. /\ db'.cursors = [db.cursors EXCEPT ![o.source] = t]
        /\ t \in Nat /\ o.observed_at <= t /\ db.cursors[o.source] < t
    BY AppendEffect
  <2>2. \A p \in db'.observations : p.source \in Source /\ p.observed_at \in Nat
    BY <1>1, StoreAssumption DEF TypeOK
  <2>3. QED
    BY <1>2, <2>1, <2>2 DEF CursorCoversObservations, TypeOK
<1>8. QED
  BY <1>1, <1>3, <1>4, <1>5, <1>6, <1>7

LEMMA NextIInv == IInv /\ [Next]_db => IInv'
<1> SUFFICES ASSUME IInv, [Next]_db PROVE IInv'
  OBVIOUS
<1>1. TypeOK /\ TypeOK'
  BY NextTypeOK DEF IInv
<1>2. CASE Quiet
  BY <1>1, <1>2
     DEF IInv, Quiet, UniqueIds, LineageSound, LineageTerminates,
         OneOriginalPerEvent, CursorCoversObservations
<1>3. CASE \E o \in Candidate, s \in Source, t \in 1..MaxTime :
             AppendObservation(o, [source |-> s, observed_at |-> t])
  BY <1>3, AppendPreserves
<1>4. QED
  BY <1>1, <1>2, <1>3, StepIsAppendOrQuiet

LEMMA InitIInv == Init => IInv
  BY InitTypeOK
     DEF Init, EmptyTables, IInv, UniqueIds, LineageSound, LineageTerminates,
         OneOriginalPerEvent, CursorCoversObservations

LEMMA StoreInvariant == Spec => []IInv
<1>1. Init => IInv
  BY InitIInv
<1>2. IInv /\ [Next]_db => IInv'
  BY NextIInv
<1>3. QED
  BY <1>1, <1>2, PTL DEF Spec

(* The supersessions table and the supersedes column always agree, and a   *)
(* correction always names a stored observation of the same source event.  *)
THEOREM StoreLineageSound == Spec => []LineageSound
<1>1. IInv => LineageSound
  BY DEF IInv
<1>2. QED
  BY <1>1, StoreInvariant, PTL

(* The ancestry of an observation never runs in a cycle, so the recursive  *)
(* queries of lineage() and visible_lineage() end.                         *)
THEOREM StoreLineageTerminates == Spec => []LineageTerminates
<1>1. IInv => LineageTerminates
  BY DEF IInv
<1>2. QED
  BY <1>1, StoreInvariant, PTL

(* A source event has at most one original observation.                    *)
THEOREM StoreOneOriginalPerEvent == Spec => []OneOriginalPerEvent
<1>1. IInv => OneOriginalPerEvent
  BY DEF IInv
<1>2. QED
  BY <1>1, StoreInvariant, PTL

(* A source's cursor is never behind an observation of the source.         *)
THEOREM StoreCursorCovers == Spec => []CursorCoversObservations
<1>1. IInv => CursorCoversObservations
  BY DEF IInv
<1>2. QED
  BY <1>1, StoreInvariant, PTL

-----------------------------------------------------------------------------
(* Steps: what each table keeps, and when a cursor moves.                  *)

LEMMA StepGrows ==
  ASSUME TypeOK, [Next]_db
  PROVE  /\ db.observations \subseteq db'.observations
         /\ db.payloads \subseteq db'.payloads
         /\ db.supersessions \subseteq db'.supersessions
         /\ db.reorgs \subseteq db'.reorgs
         /\ db.hints \subseteq db'.hints
<1>1. CASE \E c \in RetentionClass : InsertRetentionClass(c)
  BY <1>1 DEF InsertRetentionClass, TypeOK
<1>2. CASE \E s \in Source, c \in RetentionClass : InsertSource(s, c)
  BY <1>2 DEF InsertSource, WithSource, TypeOK
<1>3. CASE \E r \in Run, s \in Source : InsertCollectionRun(r, s)
  BY <1>3 DEF InsertCollectionRun, WithRun, TypeOK
<1>4. CASE \E d \in Digest, c \in RetentionClass : InsertRawPayloadDescriptor(d, c)
  BY <1>4 DEF InsertRawPayloadDescriptor, WithPayload, TypeOK
<1>5. ASSUME NEW o \in Candidate, NEW s \in Source, NEW t \in 1..MaxTime,
             AppendObservation(o, [source |-> s, observed_at |-> t])
      PROVE  /\ db.observations \subseteq db'.observations
             /\ db.payloads \subseteq db'.payloads
             /\ db.supersessions \subseteq db'.supersessions
             /\ db.reorgs \subseteq db'.reorgs
             /\ db.hints \subseteq db'.hints
  <2> DEFINE c == [source |-> s, observed_at |-> t]
  <2>1. db' = Appended(db, o, c)
    BY <1>5 DEF AppendObservation
  <2>2. c.source \in Source
    OBVIOUS
  <2> HIDE DEF c
  <2>3. /\ db'.observations = db.observations \cup {o}
        /\ db'.payloads = db.payloads
        /\ db'.supersessions =
             db.supersessions \cup
               (IF o.supersedes = NoObservation THEN {}
                ELSE {[superseding |-> o.id, superseded |-> o.supersedes]})
        /\ db'.reorgs = db.reorgs
        /\ db'.hints = db.hints
    BY <2>1, <2>2, AppendedTables
  <2>4. QED
    BY <2>3
<1>6. CASE \E g \in Reorg, s \in Source : AppendReorg(g, s)
  BY <1>6 DEF AppendReorg, WithReorg, TypeOK
<1>7. CASE \E l, r \in CandidateIds, d \in Detector :
        AppendContradictionHint([left |-> l, right |-> r, detector |-> d])
  BY <1>7 DEF AppendContradictionHint, WithHint, TypeOK
<1>8. CASE UNCHANGED db
  BY <1>8
<1>9. QED
  BY <1>1, <1>2, <1>3, <1>4, <1>5, <1>6, <1>7, <1>8 DEF Next

(* Whatever is called, evidence is only ever added to.                     *)
THEOREM StoreAppendOnly == Spec => EvidenceAppendOnly
<1>1. TypeOK /\ [Next]_db =>
        [ /\ db.observations \subseteq db'.observations
          /\ db.payloads \subseteq db'.payloads
          /\ db.supersessions \subseteq db'.supersessions
          /\ db.reorgs \subseteq db'.reorgs
          /\ db.hints \subseteq db'.hints ]_db
  BY StepGrows
<1>2. QED
  BY <1>1, StoreTypeCorrect, PTL DEF Spec, EvidenceAppendOnly

StoredOf(t, s) == { o \in t.observations : o.source = s }

LEMMA StepMovesCursor ==
  ASSUME TypeOK, [Next]_db, NEW s \in Source
  PROVE  /\ StoredOf(db, s) # StoredOf(db', s) => db.cursors[s] < db'.cursors[s]
         /\ StoredOf(db, s) = StoredOf(db', s) => db.cursors[s] = db'.cursors[s]
<1>1. CASE Quiet
  BY <1>1 DEF Quiet, StoredOf
<1>2. ASSUME NEW o \in Candidate, NEW r \in Source, NEW t \in 1..MaxTime,
             AppendObservation(o, [source |-> r, observed_at |-> t])
      PROVE  /\ StoredOf(db, s) # StoredOf(db', s) => db.cursors[s] < db'.cursors[s]
             /\ StoredOf(db, s) = StoredOf(db', s) => db.cursors[s] = db'.cursors[s]
  <2>1. /\ db'.observations = db.observations \cup {o}
        /\ db'.cursors = [db.cursors EXCEPT ![o.source] = t]
        /\ db.cursors[o.source] < t
        /\ o \notin db.observations
    BY <1>2, AppendEffect
  <2>2. db.cursors \in [Source -> Nat]
    BY DEF TypeOK
  <2>3. CASE o.source = s
    <3>1. o \in StoredOf(db', s) /\ o \notin StoredOf(db, s)
      BY <2>1, <2>3 DEF StoredOf
    <3>2. db'.cursors[s] = t
      BY <2>1, <2>2, <2>3
    <3>3. QED
      BY <2>1, <2>3, <3>1, <3>2
  <2>4. CASE o.source # s
    <3>1. StoredOf(db', s) = StoredOf(db, s)
      BY <2>1, <2>4 DEF StoredOf
    <3>2. db'.cursors[s] = db.cursors[s]
      BY <2>1, <2>2, <2>4
    <3>3. QED
      BY <3>1, <3>2
  <2>5. QED
    BY <2>3, <2>4
<1>3. QED
  BY <1>1, <1>2, StepIsAppendOrQuiet

(* A source's cursor and its observations move together or not at all.     *)
THEOREM StoreCursorMoves == Spec => CursorMovesWithEvidence
<1>1. TypeOK /\ [Next]_db =>
        [ \A s \in Source :
            LET stored(t) == { o \in t.observations : o.source = s } IN
            /\ stored(db) # stored(db') => db.cursors[s] < db'.cursors[s]
            /\ stored(db) = stored(db') => db.cursors[s] = db'.cursors[s] ]_db
  BY StepMovesCursor DEF StoredOf
<1>2. QED
  BY <1>1, StoreTypeCorrect, PTL DEF Spec, CursorMovesWithEvidence

-----------------------------------------------------------------------------
(* Hints.  The trigger compares subjects in the table of subjects; each of *)
(* its rows is a subject of the observation it names.                      *)
SubjectsSound ==
  \A x \in db.subjects : \E o \in db.observations :
    o.id = x.id /\ x.subject \in o.subjects

HintInv == IInv /\ SubjectsSound /\ HintsWithinBoundary

LEMMA NextHintInv == HintInv /\ [Next]_db => HintInv'
<1> SUFFICES ASSUME HintInv, [Next]_db PROVE HintInv'
  OBVIOUS
<1>0. TypeOK /\ UniqueIds /\ SubjectsSound /\ HintsWithinBoundary
  BY DEF HintInv, IInv
<1>1. IInv'
  BY NextIInv DEF HintInv
<1>2. db.observations \subseteq db'.observations
  BY <1>0, StepGrows
<1>3. CASE db'.subjects = db.subjects /\ db'.hints = db.hints
  BY <1>0, <1>1, <1>2, <1>3 DEF HintInv, SubjectsSound, HintsWithinBoundary
<1>4. ASSUME NEW o \in Candidate, NEW s \in Source, NEW t \in 1..MaxTime,
             AppendObservation(o, [source |-> s, observed_at |-> t])
      PROVE  HintInv'
  <2>1. /\ db'.observations = db.observations \cup {o}
        /\ db'.subjects = db.subjects \cup [id : {o.id}, subject : o.subjects]
        /\ db'.hints = db.hints
    BY <1>0, <1>4, AppendedTables DEF AppendObservation
  <2>2. SubjectsSound'
    BY <1>0, <2>1 DEF SubjectsSound
  <2>3. HintsWithinBoundary'
    BY <1>0, <2>1 DEF HintsWithinBoundary
  <2>4. QED
    BY <1>1, <2>2, <2>3 DEF HintInv
<1>5. ASSUME NEW h, AppendContradictionHint(h)
      PROVE  HintInv'
  <2>1. HintAllowed(db, h)
    BY <1>5 DEF AppendContradictionHint
  <2>2. /\ db'.observations = db.observations
        /\ db'.subjects = db.subjects
        /\ db'.hints = db.hints \cup {h}
    BY <1>0, <1>5 DEF AppendContradictionHint, WithHint, TypeOK
  <2>3. PICK l, r \in db.observations :
          /\ l.id = h.left /\ r.id = h.right
          /\ l.source # r.source
          /\ l.visibility = r.visibility
          /\ SharesSubject(db, l.id, r.id)
    BY <2>1 DEF HintAllowed
  <2>4. PICK a, b \in db.subjects : a.id = l.id /\ b.id = r.id /\ a.subject = b.subject
    BY <2>3 DEF SharesSubject
  <2>5. a.subject \in l.subjects /\ b.subject \in r.subjects
    BY <1>0, <2>4 DEF SubjectsSound, UniqueIds
  <2>6. l.subjects \cap r.subjects # {}
    BY <2>4, <2>5
  <2>7. QED
    BY <1>0, <1>1, <2>2, <2>3, <2>6 DEF HintInv, SubjectsSound, HintsWithinBoundary
<1>6. QED
  <2>1. CASE \E c \in RetentionClass : InsertRetentionClass(c)
    BY <1>0, <1>3, <2>1 DEF InsertRetentionClass, TypeOK
  <2>2. CASE \E s \in Source, c \in RetentionClass : InsertSource(s, c)
    BY <1>0, <1>3, <2>2 DEF InsertSource, WithSource, TypeOK
  <2>3. CASE \E r \in Run, s \in Source : InsertCollectionRun(r, s)
    BY <1>0, <1>3, <2>3 DEF InsertCollectionRun, WithRun, TypeOK
  <2>4. CASE \E d \in Digest, c \in RetentionClass : InsertRawPayloadDescriptor(d, c)
    BY <1>0, <1>3, <2>4 DEF InsertRawPayloadDescriptor, WithPayload, TypeOK
  <2>5. CASE \E g \in Reorg, s \in Source : AppendReorg(g, s)
    BY <1>0, <1>3, <2>5 DEF AppendReorg, WithReorg, TypeOK
  <2>6. CASE UNCHANGED db
    BY <1>3, <2>6
  <2>7. QED
    BY <1>4, <1>5, <2>1, <2>2, <2>3, <2>4, <2>5, <2>6 DEF Next

(* A stored disagreement is between observations of one disclosure         *)
(* boundary that have a subject in common, for any detectors and callers.  *)
THEOREM StoreHintsWithin == Spec => []HintsWithinBoundary
<1>1. Init => HintInv
  <2>1. Init => SubjectsSound /\ HintsWithinBoundary
    BY DEF Init, EmptyTables, SubjectsSound, HintsWithinBoundary
  <2>2. QED
    BY <2>1, InitIInv DEF HintInv
<1>2. HintInv /\ [Next]_db => HintInv'
  BY NextHintInv
<1>3. HintInv => HintsWithinBoundary
  BY DEF HintInv
<1>4. QED
  BY <1>1, <1>2, <1>3, PTL DEF Spec
=============================================================================
