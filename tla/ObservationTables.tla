------------------------- MODULE ObservationTables -------------------------
(***************************************************************************)
(* The SQLite tables of the observation plane and what one statement of    *)
(* storage/src/repositories/observations.rs does to them.  A value db is   *)
(* the content of the tables; an operator named for a statement says when  *)
(* its constraints and triggers let it through (...Allowed) and what the   *)
(* tables are after it (With...).  Column constraints on single values     *)
(* (non-empty text, schema_version = 1, digest length) are abstracted: the *)
(* values of the model satisfy them.                                       *)
(***************************************************************************)
EXTENDS Naturals

CONSTANTS
  Source,        \* observation_sources.source_id
  NoObservation  \* SQL NULL in observations.supersedes_observation_id

\* Every table empty.  cursors[s] = 0 when s has no row in sync_cursors, whose
\* observed_at is positive by its CHECK.
EmptyTables ==
  [ classes       |-> {},   \* retention_classes
    sources       |-> {},   \* observation_sources: [source, class]
    runs          |-> {},   \* collection_runs: [run, source]
    payloads      |-> {},   \* raw_payload_descriptors: [digest, class]
    observations  |-> {},   \* observations, one record per row
    subjects      |-> {},   \* observation_subjects: [id, subject]
    supersessions |-> {},   \* supersessions: [superseding, superseded]
    cursors       |-> [s \in Source |-> 0],  \* sync_cursors.observed_at
    reorgs        |-> {},   \* source_reorgs: [reorg, source]
    hints         |-> {} ]  \* contradiction_hints: [left, right, detector]

StoredIds(db) == { o.id : o \in db.observations }

HasSource(db, s) == \E row \in db.sources : row.source = s

HasRun(db, r) == \E row \in db.runs : row.run = r

-----------------------------------------------------------------------------
(* Prerequisite rows.                                                      *)

SourceAllowed(db, s, c) == ~HasSource(db, s) /\ c \in db.classes

WithSource(db, s, c) ==
  [db EXCEPT !.sources = @ \cup {[source |-> s, class |-> c]}]

RunAllowed(db, r, s) == ~HasRun(db, r) /\ HasSource(db, s)

WithRun(db, r, s) == [db EXCEPT !.runs = @ \cup {[run |-> r, source |-> s]}]

PayloadAllowed(db, d, c) ==
  /\ \A row \in db.payloads : row.digest # d
  /\ c \in db.classes

WithPayload(db, d, c) ==
  [db EXCEPT !.payloads = @ \cup {[digest |-> d, class |-> c]}]

-----------------------------------------------------------------------------
(* The statements of append_observation.                                   *)

SameEvent(p, o) == p.source = o.source /\ p.source_event = o.source_event

\* Mutant of RequiresLineage: only a prior account with the same bytes counts.
LineageOfSameBytes(db, o) ==
  o.supersedes = NoObservation =>
    \A prior \in db.observations : ~(SameEvent(prior, o) /\ prior.digest = o.digest)

\* Trigger observations_require_correction_lineage.
RequiresLineage(db, o) ==
  o.supersedes = NoObservation =>
    \A prior \in db.observations : ~SameEvent(prior, o)

\* Mutants of ValidLineage: the prior is any observation; the trigger is gone.
LineageOfAnyEvent(db, o) ==
  o.supersedes # NoObservation => o.supersedes \in StoredIds(db)

LineageUnchecked(db, o) == TRUE

\* Trigger observations_validate_correction_lineage.
ValidLineage(db, o) ==
  o.supersedes # NoObservation =>
    \E prior \in db.observations : prior.id = o.supersedes /\ SameEvent(prior, o)

\* ObservationRecord::validate, the keys and references of the table, and the
\* two triggers.
ObservationAllowed(db, o) ==
  /\ o.observed_at > 0
  /\ o.supersedes # o.id
  /\ \A p \in db.observations : p.id # o.id
  /\ \A p \in db.observations : SameEvent(p, o) => p.digest # o.digest
  /\ HasSource(db, o.source)
  /\ HasRun(db, o.run)
  /\ RequiresLineage(db, o)
  /\ ValidLineage(db, o)

\* Mutant of WithObservation: a correction takes its prior's place.
ReplacedObservation(db, o) ==
  [db EXCEPT !.observations = { p \in @ : p.id # o.supersedes } \cup {o}]

WithObservation(db, o) == [db EXCEPT !.observations = @ \cup {o}]

WithSubjects(db, o, refs) ==
  [db EXCEPT !.subjects = @ \cup [id : {o.id}, subject : refs]]

WithSupersession(db, o) ==
  IF o.supersedes = NoObservation THEN db
  ELSE [db EXCEPT !.supersessions =
          @ \cup {[superseding |-> o.id, superseded |-> o.supersedes]}]

\* Mutant of ValidCursor: the times are not compared.
CursorOfSource(o, c) == c.source = o.source

\* validate_cursor: the cursor is of the observation's source and not before it.
ValidCursor(o, c) == c.source = o.source /\ c.observed_at >= o.observed_at

\* Mutant of CursorAllowed: >= in the WHERE clause.
CursorNotBehind(db, c) == c.observed_at >= db.cursors[c.source]

\* upsert_cursor: the UPDATE's WHERE clause; no row changed is an error.
CursorAllowed(db, c) == c.observed_at > db.cursors[c.source]

WithCursor(db, c) == [db EXCEPT !.cursors[c.source] = c.observed_at]

\* The whole transaction, as its commit makes it visible.
AppendAllowed(db, o, c) ==
  ValidCursor(o, c) /\ ObservationAllowed(db, o) /\ CursorAllowed(db, c)

Appended(db, o, c) ==
  WithCursor(WithSupersession(WithSubjects(WithObservation(db, o),
                                           o, o.subjects), o), c)

-----------------------------------------------------------------------------
(* Reconciliation history.                                                 *)

ReorgAllowed(db, g, s) ==
  /\ \A row \in db.reorgs : row.reorg # g
  /\ HasSource(db, s)

WithReorg(db, g, s) == [db EXCEPT !.reorgs = @ \cup {[reorg |-> g, source |-> s]}]

SharesSubject(db, l, r) ==
  \E a, b \in db.subjects : a.id = l /\ b.id = r /\ a.subject = b.subject

\* Mutant of HintAllowed: the disclosure boundaries are not compared.
HintAcrossBoundaries(db, h) ==
  /\ h \notin db.hints
  /\ \E l, r \in db.observations :
       /\ l.id = h.left /\ r.id = h.right
       /\ l.source # r.source
       /\ SharesSubject(db, l.id, r.id)

\* Trigger contradiction_hints_validate and UNIQUE (left, right, detector).
HintAllowed(db, h) ==
  /\ h.left # h.right
  /\ h \notin db.hints
  /\ \E l, r \in db.observations :
       /\ l.id = h.left
       /\ r.id = h.right
       /\ l.source # r.source
       /\ l.visibility = r.visibility
       /\ SharesSubject(db, l.id, r.id)

WithHint(db, h) == [db EXCEPT !.hints = @ \cup {h}]
=============================================================================
