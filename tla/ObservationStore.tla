-------------------------- MODULE ObservationStore --------------------------
(***************************************************************************)
(* What ObservationRepository promises its callers: each call takes effect *)
(* in one step, or has no effect and returns an error (a stuttering step   *)
(* here).  AppendTransaction shows that the statements of                  *)
(* append_observation implement the one step; PitekaIngest is a caller.    *)
(***************************************************************************)
EXTENDS ObservationTables

CONSTANTS
  RetentionClass, \* retention_classes.retention_class_id
  Run,            \* collection_runs.collection_run_id
  Digest,         \* digests of raw payloads
  Candidate,      \* the observation records callers may try to append
  Reorg,          \* source_reorgs.reorg_id
  Detector,       \* contradiction_hints.detector_id
  MaxTime         \* bound on cursor times

VARIABLE db

ObservationFields ==
  {"id", "source", "source_event", "digest", "observed_at", "run",
   "supersedes", "visibility", "subjects", "raw"}

ASSUME StoreAssumption ==
  /\ MaxTime \in Nat
  /\ NoObservation \notin { o.id : o \in Candidate }
  /\ \A o \in Candidate :
       /\ DOMAIN o = ObservationFields
       /\ o.source \in Source
       /\ o.run \in Run
       /\ o.observed_at \in Nat

CandidateIds == { o.id : o \in Candidate }

Subjects == UNION { o.subjects : o \in Candidate }

-----------------------------------------------------------------------------
InsertRetentionClass(c) ==
  /\ c \notin db.classes
  /\ db' = [db EXCEPT !.classes = @ \cup {c}]

InsertSource(s, c) == SourceAllowed(db, s, c) /\ db' = WithSource(db, s, c)

InsertCollectionRun(r, s) == RunAllowed(db, r, s) /\ db' = WithRun(db, r, s)

InsertRawPayloadDescriptor(d, c) ==
  PayloadAllowed(db, d, c) /\ db' = WithPayload(db, d, c)

AppendObservation(o, c) == AppendAllowed(db, o, c) /\ db' = Appended(db, o, c)

AppendReorg(g, s) == ReorgAllowed(db, g, s) /\ db' = WithReorg(db, g, s)

AppendContradictionHint(h) == HintAllowed(db, h) /\ db' = WithHint(db, h)

-----------------------------------------------------------------------------
Init == db = EmptyTables

Next ==
  \/ \E c \in RetentionClass : InsertRetentionClass(c)
  \/ \E s \in Source, c \in RetentionClass : InsertSource(s, c)
  \/ \E r \in Run, s \in Source : InsertCollectionRun(r, s)
  \/ \E d \in Digest, c \in RetentionClass : InsertRawPayloadDescriptor(d, c)
  \/ \E o \in Candidate, s \in Source, t \in 1..MaxTime :
       AppendObservation(o, [source |-> s, observed_at |-> t])
  \/ \E g \in Reorg, s \in Source : AppendReorg(g, s)
  \/ \E l, r \in CandidateIds, d \in Detector :
       AppendContradictionHint([left |-> l, right |-> r, detector |-> d])

Spec == Init /\ [][Next]_db

-----------------------------------------------------------------------------
(* Type invariant: every table holds rows of its own columns.              *)
TypeOK ==
  db \in [ classes       : SUBSET RetentionClass,
           sources       : SUBSET [source : Source, class : RetentionClass],
           runs          : SUBSET [run : Run, source : Source],
           payloads      : SUBSET [digest : Digest, class : RetentionClass],
           observations  : SUBSET Candidate,
           subjects      : SUBSET [id : CandidateIds, subject : Subjects],
           supersessions : SUBSET [superseding : CandidateIds,
                                   superseded : CandidateIds],
           cursors       : [Source -> Nat],
           reorgs        : SUBSET [reorg : Reorg, source : Source],
           hints         : SUBSET [left : CandidateIds, right : CandidateIds,
                                   detector : Detector] ]

(* Lookup by observation_id is unambiguous: get_observation fetches one row *)
(* by its key.                                                             *)
UniqueIds ==
  \A p, q \in db.observations : p.id = q.id => p = q

(* A correction names a stored observation of the same source event, and   *)
(* the supersessions table says the same as the observations' own column   *)
(* (lineage() reads the table, get_observation the column).                *)
LineageSound ==
  /\ \A o \in db.observations : o.supersedes # NoObservation =>
       \E p \in db.observations : p.id = o.supersedes /\ SameEvent(p, o)
  /\ \A x \in db.supersessions : \E o \in db.observations :
       x.superseding = o.id /\ x.superseded = o.supersedes
  /\ \A o \in db.observations : o.supersedes # NoObservation =>
       \E x \in db.supersessions :
         x.superseding = o.id /\ x.superseded = o.supersedes

(* No set of observations supersedes itself round in a cycle.  lineage()   *)
(* and visible_lineage() walk the ancestry with UNION ALL, which would     *)
(* never end on a cycle.                                                   *)
LineageTerminates ==
  \A S \in SUBSET db.observations : S # {} =>
    \E o \in S : o.supersedes \notin { p.id : p \in S }

(* All the observations of one source event descend from one original: two *)
(* independent accounts of the same event never stand side by side.        *)
OneOriginalPerEvent ==
  \A p, q \in db.observations :
    /\ SameEvent(p, q)
    /\ p.supersedes = NoObservation
    /\ q.supersedes = NoObservation
    => p = q

(* The cursor of a source is never behind anything stored for the source,  *)
(* whatever cursors its callers sent (source_health reports it as how far  *)
(* the source has been observed).                                          *)
CursorCoversObservations ==
  \A o \in db.observations : o.observed_at <= db.cursors[o.source]

(* A stored disagreement stays inside one disclosure boundary, across two  *)
(* sources and about a subject both observations name.                     *)
HintsWithinBoundary ==
  \A h \in db.hints : \E l, r \in db.observations :
    /\ l.id = h.left /\ r.id = h.right
    /\ l.source # r.source
    /\ l.visibility = r.visibility
    /\ l.subjects \cap r.subjects # {}

(* Evidence is corrected by adding rows, never by changing or removing one *)
(* (migrations 0003 and 0004, the no_update and no_delete triggers).       *)
EvidenceAppendOnly ==
  [][ /\ db.observations \subseteq db'.observations
      /\ db.payloads \subseteq db'.payloads
      /\ db.supersessions \subseteq db'.supersessions
      /\ db.reorgs \subseteq db'.reorgs
      /\ db.hints \subseteq db'.hints ]_db

(* A source's cursor moves exactly when an observation of that source is   *)
(* appended, and then only forward: a failed append leaves both alone, and *)
(* nothing else moves a cursor.                                            *)
CursorMovesWithEvidence ==
  [][ \A s \in Source :
        LET stored(t) == { o \in t.observations : o.source = s } IN
        /\ stored(db) # stored(db') => db.cursors[s] < db'.cursors[s]
        /\ stored(db) = stored(db') => db.cursors[s] = db'.cursors[s] ]_db
=============================================================================
