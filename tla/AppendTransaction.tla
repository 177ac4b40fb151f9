------------------------- MODULE AppendTransaction -------------------------
(***************************************************************************)
(* append_observation statement by statement: several callers share the    *)
(* pool, each inside its own SQLite transaction.  The transaction begins   *)
(* deferred, so the first INSERT takes the database's one write lock and   *)
(* sees the last committed state; every later statement works on the       *)
(* transaction's own copy until the commit.  Whatever ends the future      *)
(* early (a constraint, an I/O error, a dropped future, a crash of the     *)
(* process and the WAL recovery after it) discards the copy.               *)
(***************************************************************************)
EXTENDS ObservationTables

CONSTANTS
  RetentionClass, Run, Digest, Candidate, Reorg, Detector, MaxTime,
  Writer,    \* concurrent calls of append_observation
  NoWriter   \* nobody holds the write lock

ASSUME WriterAssumption == NoWriter \notin Writer

VARIABLES
  disk,      \* the committed tables
  lock,      \* the writer whose transaction holds the write lock
  copy,      \* the tables as that transaction sees them
  pc,        \* the statement a writer runs next
  call       \* the arguments of a writer's call

vars == <<disk, lock, copy, pc, call>>

NoCall == [observation |-> NoObservation, cursor |-> NoObservation]

\* The observation and the cursor of w's call.
Obs(w) == call[w].observation

Cur(w) == call[w].cursor

Goto(w, from, to) == pc[w] = from /\ pc' = [pc EXCEPT ![w] = to]

InTransaction(w) == lock = w

-----------------------------------------------------------------------------
(* The typed checks, before any SQL: the observation and the cursor.       *)
BeginAppend(w, o, c) ==
  /\ Goto(w, "idle", "observation")
  /\ ValidCursor(o, c)
  /\ call' = [call EXCEPT ![w] = [observation |-> o, cursor |-> c]]
  /\ UNCHANGED <<disk, lock, copy>>

(* Mutant of InsertObservationRow: it runs on the pool, autocommitted.     *)
InsertObservationOutside(w) ==
  /\ lock = NoWriter
  /\ Goto(w, "observation", "subjects")
  /\ ObservationAllowed(disk, Obs(w))
  /\ lock' = w
  /\ disk' = WithObservation(disk, Obs(w))
  /\ copy' = WithObservation(disk, Obs(w))
  /\ UNCHANGED call

(* INSERT INTO observations: takes the write lock, runs the triggers.      *)
InsertObservationRow(w) ==
  /\ lock = NoWriter
  /\ Goto(w, "observation", "subjects")
  /\ ObservationAllowed(disk, Obs(w))
  /\ lock' = w
  /\ copy' = WithObservation(disk, Obs(w))
  /\ UNCHANGED <<disk, call>>

(* One row of observation_subjects (observation_authenticity_refs is       *)
(* filled the same way).                                                   *)
InsertSubjectRow(w, ref) ==
  /\ pc[w] = "subjects" /\ InTransaction(w)
  /\ ref \in Obs(w).subjects
  /\ [id |-> Obs(w).id, subject |-> ref] \notin copy.subjects
  /\ copy' = WithSubjects(copy, Obs(w), {ref})
  /\ UNCHANGED <<disk, lock, pc, call>>

(* Mutant of InsertSupersessionRow: the commit comes before the cursor.    *)
InsertSupersessionLast(w) ==
  /\ Goto(w, "subjects", "commit")
  /\ InTransaction(w)
  /\ [id : {Obs(w).id}, subject : Obs(w).subjects] \subseteq copy.subjects
  /\ copy' = WithSupersession(copy, Obs(w))
  /\ UNCHANGED <<disk, lock, call>>

(* INSERT INTO supersessions, when the observation corrects another.       *)
InsertSupersessionRow(w) ==
  /\ Goto(w, "subjects", "cursor")
  /\ InTransaction(w)
  /\ [id : {Obs(w).id}, subject : Obs(w).subjects] \subseteq copy.subjects
  /\ copy' = WithSupersession(copy, Obs(w))
  /\ UNCHANGED <<disk, lock, call>>

(* upsert_cursor: no row changed is an error.                              *)
UpsertCursor(w) ==
  /\ Goto(w, "cursor", "commit")
  /\ InTransaction(w)
  /\ CursorAllowed(copy, Cur(w))
  /\ copy' = WithCursor(copy, Cur(w))
  /\ UNCHANGED <<disk, lock, call>>

Finish(w) ==
  /\ pc' = [pc EXCEPT ![w] = "idle"]
  /\ call' = [call EXCEPT ![w] = NoCall]
  /\ lock' = IF InTransaction(w) THEN NoWriter ELSE lock
  /\ copy' = IF InTransaction(w) THEN EmptyTables ELSE copy

Commit(w) ==
  /\ pc[w] = "commit" /\ InTransaction(w)
  /\ disk' = copy
  /\ Finish(w)

(* An error return drops the Transaction, which rolls back; so does the    *)
(* end of the process.                                                     *)
Rollback(w) ==
  /\ pc[w] # "idle"
  /\ Finish(w)
  /\ UNCHANGED disk

-----------------------------------------------------------------------------
(* Every other write of the repository is one autocommitted statement.     *)
Statement(allowed, tables) ==
  /\ lock = NoWriter
  /\ allowed
  /\ disk' = tables
  /\ UNCHANGED <<lock, copy, pc, call>>

InsertPrerequisites ==
  \/ \E c \in RetentionClass :
       Statement(c \notin disk.classes, [disk EXCEPT !.classes = @ \cup {c}])
  \/ \E s \in Source, c \in RetentionClass :
       Statement(SourceAllowed(disk, s, c), WithSource(disk, s, c))
  \/ \E r \in Run, s \in Source :
       Statement(RunAllowed(disk, r, s), WithRun(disk, r, s))

-----------------------------------------------------------------------------
Init ==
  /\ disk = EmptyTables
  /\ lock = NoWriter
  /\ copy = EmptyTables
  /\ pc = [w \in Writer |-> "idle"]
  /\ call = [w \in Writer |-> NoCall]

Next ==
  \/ InsertPrerequisites
  \/ \E w \in Writer :
       \/ \E o \in Candidate, s \in Source, t \in 1..MaxTime :
            BeginAppend(w, o, [source |-> s, observed_at |-> t])
       \/ InsertObservationRow(w)
       \/ \E ref \in UNION { o.subjects : o \in Candidate } :
            InsertSubjectRow(w, ref)
       \/ InsertSupersessionRow(w)
       \/ UpsertCursor(w)
       \/ Commit(w)
       \/ Rollback(w)

Spec == Init /\ [][Next]_vars

-----------------------------------------------------------------------------
Store == INSTANCE ObservationStore WITH db <- disk

(* The transaction implements the repository's promise: each commit is one *)
(* legal append of one observation with its subjects, its supersession and *)
(* its cursor, and no other statement changes committed evidence.          *)
ImplementsStore == Store!Spec
=============================================================================
