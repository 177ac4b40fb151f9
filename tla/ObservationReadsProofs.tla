----------------------- MODULE ObservationReadsProofs -----------------------
(***************************************************************************)
(* Appending and reading, for every set of writers, sources, candidate     *)
(* observations, tenants and requests.                                     *)
(*                                                                         *)
(* Appending: AppendTransaction implements ObservationStore.  The writer   *)
(* that holds the lock is the only one past its first INSERT, and the      *)
(* database under it does not change; so what it checked then still holds  *)
(* when it commits, and its copy is the one append applied to that         *)
(* database.  What is proved of the store therefore holds of the disk.     *)
(*                                                                         *)
(* Reading: what the first SELECT of a read found, those it has fetched    *)
(* and those it has not, never changes; the rows stay, and their ids are   *)
(* unique, so that each is found again.  A lineage is found because a walk *)
(* from an observation to what it corrects never returns, so one is the    *)
(* longest; a list, because each of its rows has a place of its own and    *)
(* there are as many places as rows.                                       *)
(***************************************************************************)
EXTENDS ObservationReads, FiniteSetTheorems, SequenceTheorems, TLAPS

\* The record of the ten tables.
IsTables(t) ==
  t = [ classes |-> t.classes, sources |-> t.sources, runs |-> t.runs,
        payloads |-> t.payloads, observations |-> t.observations,
        subjects |-> t.subjects, supersessions |-> t.supersessions,
        cursors |-> t.cursors, reorgs |-> t.reorgs, hints |-> t.hints ]

Locked == {"subjects", "cursor", "commit"}

CallsTyped ==
  /\ pc \in [Writer -> {"idle", "observation"} \cup Locked]
  /\ call \in [Writer -> [observation : Candidate \cup {NoObservation},
                          cursor : [source : Source, observed_at : 1..MaxTime]
                                     \cup {NoObservation}]]
  /\ \A w \in Writer : pc[w] # "idle" =>
       /\ Obs(w) \in Candidate
       /\ Cur(w) \in [source : Source, observed_at : 1..MaxTime]
       /\ ValidCursor(Obs(w), Cur(w))

LockHeld == \A w \in Writer : lock = w <=> pc[w] \in Locked

Rows(o, refs) == [id : {o.id}, subject : refs]

\* u is t with the observation's row, and some subjects.
Started(u, t, o) == u = [WithObservation(t, o) EXCEPT !.subjects = u.subjects]

\* What the transaction of w has done so far to the database d.

CopyOf(w, d) ==
  /\ pc[w] \in Locked => ObservationAllowed(d, Obs(w))
  /\ pc[w] = "subjects" =>
       /\ Started(copy, d, Obs(w))
       /\ d.subjects \subseteq copy.subjects
       /\ copy.subjects \subseteq d.subjects \cup Rows(Obs(w), Obs(w).subjects)
  /\ pc[w] = "cursor" =>
       copy = WithSupersession(WithSubjects(WithObservation(d, Obs(w)),
                                            Obs(w), Obs(w).subjects), Obs(w))
  /\ pc[w] = "commit" =>
       /\ CursorAllowed(d, Cur(w))
       /\ copy = Appended(d, Obs(w), Cur(w))

IInv ==
  /\ IsTables(disk)
  /\ CallsTyped
  /\ LockHeld
  /\ \A w \in Writer : CopyOf(w, disk)

-----------------------------------------------------------------------------
LEMMA InitIInv == Init => IInv
<1> SUFFICES ASSUME Init PROVE IInv
  OBVIOUS
<1>1. IsTables(disk)
  BY DEF Init, EmptyTables, IsTables
<1>2. CallsTyped
  BY DEF Init, CallsTyped, NoCall, Locked
<1>3. LockHeld
  BY WriterAssumption DEF Init, LockHeld, Locked
<1>4. \A w \in Writer : CopyOf(w, disk)
  BY DEF Init, CopyOf, Locked
<1>5. QED
  BY <1>1, <1>2, <1>3, <1>4 DEF IInv

-----------------------------------------------------------------------------
(* Building the copy: what the statements do, one after the other, is what *)
(* the one append does.                                                    *)

LEMMA ObservationOnly ==
  ASSUME NEW t, IsTables(t), NEW o
  PROVE  /\ Started(WithObservation(t, o), t, o)
         /\ WithObservation(t, o).subjects = t.subjects
  BY DEF IsTables, WithObservation, Started

LEMMA SubjectAdded ==
  ASSUME NEW t, IsTables(t), NEW u, NEW o, NEW refs, Started(u, t, o)
  PROVE  /\ Started(WithSubjects(u, o, refs), t, o)
         /\ WithSubjects(u, o, refs).subjects = u.subjects \cup Rows(o, refs)
  BY DEF IsTables, WithObservation, WithSubjects, Rows, Started

LEMMA AllSubjects ==
  ASSUME NEW t, IsTables(t), NEW u, NEW o, Started(u, t, o),
         u.subjects = t.subjects \cup Rows(o, o.subjects)
  PROVE  u = WithSubjects(WithObservation(t, o), o, o.subjects)
  BY DEF IsTables, WithObservation, WithSubjects, Rows, Started

LEMMA AppendLeaves ==
  ASSUME NEW t, IsTables(t), NEW o, NEW c
  PROVE  /\ WithSupersession(WithSubjects(WithObservation(t, o), o, o.subjects), o).cursors
              = t.cursors
         /\ IsTables(Appended(t, o, c))
<1> DEFINE a == WithSubjects(WithObservation(t, o), o, o.subjects)
           b == WithSupersession(a, o)
<1>1. IsTables(WithObservation(t, o)) /\ WithObservation(t, o).cursors = t.cursors
  BY DEF IsTables, WithObservation
<1>2. IsTables(a) /\ a.cursors = t.cursors
  BY <1>1 DEF IsTables, WithSubjects
<1> HIDE DEF a
<1>3. IsTables(b) /\ b.cursors = t.cursors
  <2>1. CASE o.supersedes = NoObservation
    BY <1>2, <2>1 DEF WithSupersession
  <2>2. CASE o.supersedes # NoObservation
    BY <1>2, <2>2 DEF IsTables, WithSupersession
  <2>3. QED
    BY <2>1, <2>2
<1> HIDE DEF b
<1>4. IsTables(WithCursor(b, c))
  BY <1>3 DEF IsTables, WithCursor
<1>5. Appended(t, o, c) = WithCursor(b, c)
  BY DEF Appended, a, b
<1>6. QED
  BY <1>3, <1>4, <1>5 DEF a, b

-----------------------------------------------------------------------------
(* Only the holder of the lock changes the copy, and a statement on the    *)
(* pool waits for the lock.                                                *)

LEMMA NextIInv == IInv /\ [Next]_vars => IInv'
<1> SUFFICES ASSUME IInv, [Next]_vars PROVE IInv'
  OBVIOUS
<1> USE DEF Locked
<1>0. /\ IsTables(disk) /\ CallsTyped /\ LockHeld
      /\ \A w \in Writer : CopyOf(w, disk)
  BY DEF IInv
<1>1. CASE InsertPrerequisites
  <2>1. lock = NoWriter /\ UNCHANGED <<lock, copy, pc, call>>
    BY <1>1 DEF InsertPrerequisites, Statement
  <2>2. IsTables(disk')
    BY <1>0, <1>1 DEF InsertPrerequisites, Statement, IsTables, WithSource, WithRun
  <2>3. CallsTyped' /\ LockHeld'
    BY <1>0, <2>1 DEF CallsTyped, LockHeld, Obs, Cur
  <2>4. \A w \in Writer : CopyOf(w, disk)'
    BY <1>0, <2>1, WriterAssumption DEF LockHeld, CopyOf
  <2>5. QED
    BY <2>2, <2>3, <2>4 DEF IInv
<1>2. ASSUME NEW w \in Writer, NEW o \in Candidate, NEW s \in Source,
             NEW t \in 1..MaxTime, BeginAppend(w, o, [source |-> s, observed_at |-> t])
      PROVE  IInv'
  <2>1. /\ pc[w] = "idle" /\ pc' = [pc EXCEPT ![w] = "observation"]
        /\ call' = [call EXCEPT ![w] = [observation |-> o,
                      cursor |-> [source |-> s, observed_at |-> t]]]
        /\ ValidCursor(o, [source |-> s, observed_at |-> t])
        /\ UNCHANGED <<disk, lock, copy>>
    BY <1>2 DEF BeginAppend, Goto
  <2>2. CallsTyped'
    BY <1>0, <2>1 DEF CallsTyped, Obs, Cur
  <2>3. LockHeld'
    BY <1>0, <2>1 DEF LockHeld, CallsTyped
  <2>4. ASSUME NEW v \in Writer PROVE CopyOf(v, disk)'
    <3>1. CASE v = w
      BY <1>0, <2>1, <3>1 DEF CopyOf, CallsTyped
    <3>2. CASE v # w
      BY <1>0, <2>1, <3>2 DEF CopyOf, CallsTyped, Obs, Cur
    <3>3. QED
      BY <3>1, <3>2
  <2>5. QED
    BY <1>0, <2>1, <2>2, <2>3, <2>4 DEF IInv, IsTables
<1>3. ASSUME NEW w \in Writer, InsertObservationRow(w)
      PROVE  IInv'
  <2>1. /\ pc[w] = "observation" /\ pc' = [pc EXCEPT ![w] = "subjects"]
        /\ lock = NoWriter /\ lock' = w
        /\ ObservationAllowed(disk, Obs(w))
        /\ copy' = WithObservation(disk, Obs(w))
        /\ UNCHANGED <<disk, call>>
    BY <1>3 DEF InsertObservationRow, Goto
  <2>2. CallsTyped'
    BY <1>0, <2>1 DEF CallsTyped, Obs, Cur
  <2>3. LockHeld'
    BY <1>0, <2>1, WriterAssumption DEF LockHeld, CallsTyped
  <2>4. ASSUME NEW v \in Writer PROVE CopyOf(v, disk)'
    <3>1. CASE v = w
      <4>1. /\ Started(copy', disk, Obs(w))
            /\ copy'.subjects = disk.subjects
        BY <1>0, <2>1, ObservationOnly
      <4>2. pc'[w] = "subjects"
        BY <1>0, <2>1 DEF CallsTyped
      <4>3. QED
        BY <2>1, <3>1, <4>1, <4>2 DEF CopyOf, Obs
    <3>2. CASE v # w
      BY <1>0, <2>1, <3>2, WriterAssumption DEF CopyOf, CallsTyped, LockHeld
    <3>3. QED
      BY <3>1, <3>2
  <2>5. QED
    BY <1>0, <2>1, <2>2, <2>3, <2>4 DEF IInv, IsTables
<1>4. ASSUME NEW w \in Writer, NEW ref, InsertSubjectRow(w, ref)
      PROVE  IInv'
  <2>1. /\ pc[w] = "subjects" /\ lock = w /\ ref \in Obs(w).subjects
        /\ copy' = WithSubjects(copy, Obs(w), {ref})
        /\ UNCHANGED <<disk, lock, pc, call>>
    BY <1>4 DEF InsertSubjectRow, InTransaction
  <2>2. CallsTyped' /\ LockHeld'
    BY <1>0, <2>1 DEF CallsTyped, LockHeld, Obs, Cur
  <2>3. ASSUME NEW v \in Writer PROVE CopyOf(v, disk)'
    <3>1. CASE v = w
      <4>1. /\ Started(copy', disk, Obs(w))
            /\ copy'.subjects = copy.subjects \cup Rows(Obs(w), {ref})
        <5>1. Started(copy, disk, Obs(w))
          BY <1>0, <2>1 DEF CopyOf
        <5>2. /\ Started(WithSubjects(copy, Obs(w), {ref}), disk, Obs(w))
              /\ WithSubjects(copy, Obs(w), {ref}).subjects
                   = copy.subjects \cup Rows(Obs(w), {ref})
          BY <1>0, <5>1, SubjectAdded
        <5>3. QED
          BY <2>1, <5>2
      <4>2. Rows(Obs(w), {ref}) \subseteq Rows(Obs(w), Obs(w).subjects)
        BY <2>1 DEF Rows
      <4>3. QED
        BY <1>0, <2>1, <3>1, <4>1, <4>2 DEF CopyOf, Obs
    <3>2. CASE v # w
      BY <1>0, <2>1, <3>2 DEF CopyOf, LockHeld
    <3>3. QED
      BY <3>1, <3>2
  <2>4. QED
    BY <1>0, <2>1, <2>2, <2>3 DEF IInv, IsTables
<1>5. ASSUME NEW w \in Writer, InsertSupersessionRow(w)
      PROVE  IInv'
  <2>1. /\ pc[w] = "subjects" /\ pc' = [pc EXCEPT ![w] = "cursor"] /\ lock = w
        /\ Rows(Obs(w), Obs(w).subjects) \subseteq copy.subjects
        /\ copy' = WithSupersession(copy, Obs(w))
        /\ UNCHANGED <<disk, lock, call>>
    BY <1>5 DEF InsertSupersessionRow, Goto, InTransaction, Rows
  <2>2. CallsTyped' /\ LockHeld'
    BY <1>0, <2>1 DEF CallsTyped, LockHeld, Obs, Cur
  <2>3. ASSUME NEW v \in Writer PROVE CopyOf(v, disk)'
    <3>1. CASE v = w
      <4>1. copy.subjects = disk.subjects \cup Rows(Obs(w), Obs(w).subjects)
        BY <1>0, <2>1 DEF CopyOf
      <4>2. copy = WithSubjects(WithObservation(disk, Obs(w)), Obs(w), Obs(w).subjects)
        BY <1>0, <2>1, <4>1, AllSubjects DEF CopyOf
      <4>3. pc'[w] = "cursor" /\ ObservationAllowed(disk, Obs(w))
        BY <1>0, <2>1 DEF CallsTyped, CopyOf
      <4>4. QED
        BY <2>1, <3>1, <4>2, <4>3 DEF CopyOf, Obs
    <3>2. CASE v # w
      BY <1>0, <2>1, <3>2 DEF CopyOf, LockHeld, CallsTyped
    <3>3. QED
      BY <3>1, <3>2
  <2>4. QED
    BY <1>0, <2>1, <2>2, <2>3 DEF IInv, IsTables
<1>6. ASSUME NEW w \in Writer, UpsertCursor(w)
      PROVE  IInv'
  <2>1. /\ pc[w] = "cursor" /\ pc' = [pc EXCEPT ![w] = "commit"] /\ lock = w
        /\ CursorAllowed(copy, Cur(w))
        /\ copy' = WithCursor(copy, Cur(w))
        /\ UNCHANGED <<disk, lock, call>>
    BY <1>6 DEF UpsertCursor, Goto, InTransaction
  <2>2. CallsTyped' /\ LockHeld'
    BY <1>0, <2>1 DEF CallsTyped, LockHeld, Obs, Cur
  <2>3. ASSUME NEW v \in Writer PROVE CopyOf(v, disk)'
    <3>1. CASE v = w
      <4>1. copy.cursors = disk.cursors
        <5>1. copy = WithSupersession(WithSubjects(WithObservation(disk, Obs(w)),
                                        Obs(w), Obs(w).subjects), Obs(w))
          BY <1>0, <2>1 DEF CopyOf
        <5>2. QED
          BY <1>0, <5>1, AppendLeaves
      <4>2. CursorAllowed(disk, Cur(w))
        BY <2>1, <4>1 DEF CursorAllowed
      <4>3. copy' = Appended(disk, Obs(w), Cur(w))
        BY <1>0, <2>1 DEF CopyOf, Appended
      <4>4. pc'[w] = "commit" /\ ObservationAllowed(disk, Obs(w))
        BY <1>0, <2>1 DEF CallsTyped, CopyOf
      <4>5. QED
        BY <2>1, <3>1, <4>2, <4>3, <4>4 DEF CopyOf, Obs, Cur
    <3>2. CASE v # w
      BY <1>0, <2>1, <3>2 DEF CopyOf, LockHeld, CallsTyped
    <3>3. QED
      BY <3>1, <3>2
  <2>4. QED
    BY <1>0, <2>1, <2>2, <2>3 DEF IInv, IsTables
<1>7. ASSUME NEW w \in Writer, Finish(w), IsTables(disk'),
             InTransaction(w) \/ UNCHANGED disk
      PROVE  IInv'
  <2>1. /\ pc' = [pc EXCEPT ![w] = "idle"]
        /\ call' = [call EXCEPT ![w] = NoCall]
    BY <1>7 DEF Finish
  <2>2. CallsTyped'
    BY <1>0, <2>1 DEF CallsTyped, Obs, Cur, NoCall
  <2>3. LockHeld'
    BY <1>0, <1>7, <2>1, WriterAssumption
      DEF LockHeld, CallsTyped, Finish, InTransaction
  <2>4. ASSUME NEW v \in Writer PROVE CopyOf(v, disk)'
    <3>1. CASE v = w
      BY <1>0, <2>1, <3>1 DEF CopyOf, CallsTyped
    <3>2. CASE v # w /\ InTransaction(w)
      <4>1. pc'[v] \notin Locked
        BY <1>0, <2>1, <3>2 DEF CallsTyped, LockHeld, InTransaction
      <4>2. QED
        BY <4>1 DEF CopyOf
    <3>3. CASE v # w /\ ~InTransaction(w)
      <4>1. copy' = copy /\ disk' = disk
        BY <1>7, <3>3 DEF Finish
      <4>2. pc'[v] = pc[v] /\ call'[v] = call[v]
        BY <1>0, <2>1, <3>3 DEF CallsTyped
      <4>3. QED
        BY <1>0, <4>1, <4>2 DEF CopyOf, Obs, Cur
    <3>4. QED
      BY <3>1, <3>2, <3>3
  <2>5. QED
    BY <1>7, <2>2, <2>3, <2>4 DEF IInv
<1>8. ASSUME NEW w \in Writer, Commit(w)
      PROVE  IInv'
  <2>1. pc[w] = "commit" /\ InTransaction(w) /\ disk' = copy /\ Finish(w)
    BY <1>8 DEF Commit
  <2>2. IsTables(disk')
    BY <1>0, <2>1, AppendLeaves DEF CopyOf
  <2>3. QED
    BY <1>7, <2>1, <2>2
<1>9. ASSUME NEW w \in Writer, Rollback(w)
      PROVE  IInv'
  <2>1. Finish(w) /\ UNCHANGED disk
    BY <1>9 DEF Rollback
  <2>2. IsTables(disk')
    BY <1>0, <2>1
  <2>3. QED
    BY <1>7, <2>1, <2>2
<1>10. CASE UNCHANGED vars
  BY <1>0, <1>10 DEF IInv, vars, IsTables, CallsTyped, LockHeld, CopyOf, Obs, Cur
<1>11. QED
  BY <1>1, <1>2, <1>3, <1>4, <1>5, <1>6, <1>8, <1>9, <1>10 DEF Next

LEMMA TransactionInvariant == Spec => []IInv
BY InitIInv, NextIInv, PTL DEF Spec

-----------------------------------------------------------------------------
(* The store's tables and checks are the transaction's own.                *)
LEMMA SameTables ==
  /\ Store!EmptyTables = EmptyTables
  /\ \A t, s, c : Store!SourceAllowed(t, s, c) <=> SourceAllowed(t, s, c)
  /\ \A t, s, c : Store!WithSource(t, s, c) = WithSource(t, s, c)
  /\ \A t, r, s : Store!RunAllowed(t, r, s) <=> RunAllowed(t, r, s)
  /\ \A t, r, s : Store!WithRun(t, r, s) = WithRun(t, r, s)
<1>1. Store!EmptyTables = EmptyTables
  BY DEF EmptyTables, Store!EmptyTables
<1>2. \A t, s, c : Store!SourceAllowed(t, s, c) <=> SourceAllowed(t, s, c)
  BY DEF SourceAllowed, Store!SourceAllowed, HasSource, Store!HasSource
<1>3. \A t, s, c : Store!WithSource(t, s, c) = WithSource(t, s, c)
  BY DEF WithSource, Store!WithSource
<1>4. \A t, r, s : Store!RunAllowed(t, r, s) <=> RunAllowed(t, r, s)
  BY DEF RunAllowed, Store!RunAllowed, HasRun, Store!HasRun, HasSource, Store!HasSource
<1>5. \A t, r, s : Store!WithRun(t, r, s) = WithRun(t, r, s)
  BY DEF WithRun, Store!WithRun
<1>6. QED
  BY <1>1, <1>2, <1>3, <1>4, <1>5

LEMMA SameAppend ==
  ASSUME NEW t, NEW o, NEW c
  PROVE  /\ Store!AppendAllowed(t, o, c) <=> AppendAllowed(t, o, c)
         /\ Store!Appended(t, o, c) = Appended(t, o, c)
<1>1. Store!ObservationAllowed(t, o) <=> ObservationAllowed(t, o)
  BY DEF ObservationAllowed, Store!ObservationAllowed, SameEvent, Store!SameEvent,
         HasSource, Store!HasSource, HasRun, Store!HasRun,
         RequiresLineage, Store!RequiresLineage, ValidLineage, Store!ValidLineage
<1>2. Store!AppendAllowed(t, o, c) <=> AppendAllowed(t, o, c)
  BY <1>1 DEF AppendAllowed, Store!AppendAllowed, ValidCursor, Store!ValidCursor,
              CursorAllowed, Store!CursorAllowed
<1>3. Store!Appended(t, o, c) = Appended(t, o, c)
  BY DEF Appended, Store!Appended, WithObservation, Store!WithObservation,
         WithSubjects, Store!WithSubjects, WithSupersession, Store!WithSupersession,
         WithCursor, Store!WithCursor
<1>4. QED
  BY <1>2, <1>3

(* A step of the transactions is a step of the store or changes nothing    *)
(* that is committed: a commit is one append, allowed on the tables it     *)
(* meets, and no other statement of a transaction is visible.              *)
LEMMA StepRefines == IInv /\ [Next]_vars => [Store!Next]_disk
<1> SUFFICES ASSUME IInv, [Next]_vars PROVE Store!Next \/ UNCHANGED disk
  OBVIOUS
<1>1. CASE InsertPrerequisites
  <2>1. CASE \E c \in RetentionClass :
          Statement(c \notin disk.classes, [disk EXCEPT !.classes = @ \cup {c}])
    BY <2>1 DEF Statement, Store!Next, Store!InsertRetentionClass
  <2>2. CASE \E s \in Source, c \in RetentionClass :
          Statement(SourceAllowed(disk, s, c), WithSource(disk, s, c))
    BY <2>2, SameTables DEF Statement, Store!Next, Store!InsertSource
  <2>3. CASE \E r \in Run, s \in Source :
          Statement(RunAllowed(disk, r, s), WithRun(disk, r, s))
    BY <2>3, SameTables DEF Statement, Store!Next, Store!InsertCollectionRun
  <2>4. QED
    BY <1>1, <2>1, <2>2, <2>3 DEF InsertPrerequisites
<1>2. ASSUME NEW w \in Writer, Commit(w) PROVE Store!Next
  <2>1. pc[w] = "commit" /\ disk' = copy
    BY <1>2 DEF Commit
  <2>2. /\ Obs(w) \in Candidate
        /\ Cur(w) \in [source : Source, observed_at : 1..MaxTime]
        /\ ValidCursor(Obs(w), Cur(w))
    BY <2>1 DEF IInv, CallsTyped
  <2>3. /\ ObservationAllowed(disk, Obs(w)) /\ CursorAllowed(disk, Cur(w))
        /\ disk' = Appended(disk, Obs(w), Cur(w))
    BY <2>1 DEF IInv, CopyOf, Locked
  <2>4. PICK s \in Source, t \in 1..MaxTime : Cur(w) = [source |-> s, observed_at |-> t]
    BY <2>2
  <2>5. Store!AppendObservation(Obs(w), [source |-> s, observed_at |-> t])
    BY <2>2, <2>3, <2>4, SameAppend DEF Store!AppendObservation, AppendAllowed
  <2>6. QED
    BY <2>2, <2>5 DEF Store!Next
<1>3. CASE \E w \in Writer :
             \/ \E o \in Candidate, s \in Source, t \in 1..MaxTime :
                  BeginAppend(w, o, [source |-> s, observed_at |-> t])
             \/ InsertObservationRow(w)
             \/ \E ref \in UNION { o.subjects : o \in Candidate } :
                  InsertSubjectRow(w, ref)
             \/ InsertSupersessionRow(w)
             \/ UpsertCursor(w)
             \/ Rollback(w)
  BY <1>3 DEF BeginAppend, InsertObservationRow, InsertSubjectRow,
              InsertSupersessionRow, UpsertCursor, Rollback
<1>4. CASE UNCHANGED vars
  BY <1>4 DEF vars
<1>5. QED
  BY <1>1, <1>2, <1>3, <1>4 DEF Next

(* append_observation, statement by statement, with rollbacks and other    *)
(* callers in between, implements the store's one atomic append.           *)
THEOREM AppendImplementsStore == Spec => ImplementsStore
<1>1. Init => Store!Init
  BY SameTables DEF Init, Store!Init
<1>2. QED
  BY <1>1, StepRefines, TransactionInvariant, PTL DEF Spec, ImplementsStore, Store!Spec

-----------------------------------------------------------------------------
(* The order of a list: rows in it have distinct places, and there is one  *)
(* in every place.                                                         *)

\* Rows that can be put in order: finitely many, known by their ids.
Listable(rows) ==
  /\ IsFiniteSet(rows)
  /\ \A o \in rows : o.id \in Nat /\ o.observed_at \in Nat
  /\ \A p, o \in rows : p.id = o.id => p = o

LEMMA PlaceBound ==
  ASSUME NEW rows, Listable(rows), NEW o \in rows
  PROVE  /\ Cardinality(rows) \in Nat
         /\ Place(o, rows) \in Nat /\ Place(o, rows) < Cardinality(rows)
<1> DEFINE before == { p \in rows : Newer(p, o) }
<1>1. IsFiniteSet(rows) /\ Cardinality(rows) \in Nat
  BY FS_CardinalityType DEF Listable
<1>2. o \notin before
  BY DEF Newer, Listable
<1>3. before \in SUBSET (rows \ {o})
  BY <1>2
<1>4. /\ IsFiniteSet(rows \ {o})
      /\ Cardinality(rows \ {o}) = Cardinality(rows) - 1
  BY <1>1, FS_RemoveElement
<1> HIDE DEF before
<1>5. IsFiniteSet(before) /\ Cardinality(before) <= Cardinality(rows \ {o})
  BY <1>3, <1>4, FS_Subset
<1>6. Cardinality(before) \in Nat
  BY <1>5, FS_CardinalityType
<1>7. QED
  BY <1>1, <1>4, <1>5, <1>6 DEF Place, before

LEMMA NewerComesFirst ==
  ASSUME NEW rows, Listable(rows), NEW p \in rows, NEW o \in rows, Newer(p, o)
  PROVE  Place(p, rows) < Place(o, rows)
<1> DEFINE first == { q \in rows : Newer(q, p) }
           next == { q \in rows : Newer(q, o) }
<1>1. first \in SUBSET (next \ {p}) /\ p \in next /\ next \in SUBSET rows
  BY DEF Newer, Listable
<1> HIDE DEF first, next
<1>2. IsFiniteSet(next) /\ IsFiniteSet(next \ {p})
  BY <1>1, FS_Subset, FS_RemoveElement DEF Listable
<1>3. /\ IsFiniteSet(first)
      /\ Cardinality(first) <= Cardinality(next \ {p})
      /\ Cardinality(next \ {p}) = Cardinality(next) - 1
  BY <1>1, <1>2, FS_Subset, FS_RemoveElement
<1>4. Cardinality(first) \in Nat /\ Cardinality(next) \in Nat
  BY <1>2, <1>3, FS_CardinalityType
<1>5. QED
  BY <1>3, <1>4 DEF Place, first, next

LEMMA PlacesDiffer ==
  ASSUME NEW rows, Listable(rows), NEW p \in rows, NEW o \in rows
  PROVE  /\ p # o => Newer(p, o) \/ Newer(o, p)
         /\ Place(p, rows) = Place(o, rows) => p = o
         /\ Place(p, rows) < Place(o, rows) => Newer(p, o)
<1>1. p # o => Newer(p, o) \/ Newer(o, p)
  BY DEF Newer, Listable
<1>2. Place(p, rows) \in Nat /\ Place(o, rows) \in Nat
  BY PlaceBound
<1>3. QED
  BY <1>1, <1>2, NewerComesFirst

LEMMA EveryPlaceTaken ==
  ASSUME NEW rows, Listable(rows), NEW k \in 1..Cardinality(rows)
  PROVE  \E o \in rows : Place(o, rows) = k - 1
<1> DEFINE n == Cardinality(rows)
           place == [o \in rows |-> Place(o, rows) + 1]
<1>1. IsFiniteSet(rows) /\ n \in Nat
  BY FS_CardinalityType DEF Listable
<1>2. IsFiniteSet(1..n) /\ Cardinality(1..n) = n
  BY <1>1, FS_Interval
<1>3. place \in [rows -> 1..n]
  BY <1>1, PlaceBound
<1>4. \A p, o \in rows : place[p] = place[o] => p = o
  BY PlaceBound, PlacesDiffer
<1>5. place \in Injection(rows, 1..n)
  BY <1>3, <1>4 DEF Injection, IsInjective
<1>6. place \in Surjection(rows, 1..n)
  <2> HIDE DEF n, place
  <2>1. Cardinality(rows) = Cardinality(1..n)
    BY <1>2 DEF n
  <2>2. QED
    BY <1>2, <1>5, <2>1, FS_Injection
<1>7. PICK o \in rows : place[o] = k
  BY <1>6 DEF Surjection
<1>8. Place(o, rows) \in Nat
  BY PlaceBound
<1>9. QED
  BY <1>7, <1>8

\* ids are the ids of the first limit rows, or of all, newest first.
IsNewest(ids, rows, limit) ==
  /\ Len(ids) = IF limit < Cardinality(rows) THEN limit ELSE Cardinality(rows)
  /\ \A k \in 1..Len(ids) : \E o \in rows : o.id = ids[k] /\ Place(o, rows) = k - 1

LEMMA ListIsNewest ==
  ASSUME NEW tenant, NEW limit \in Nat, Listable(VisibleTo(disk, tenant))
  PROVE  /\ NewestVisible(disk, tenant, limit) \in Seq(Nat)
         /\ IsNewest(NewestVisible(disk, tenant, limit), VisibleTo(disk, tenant), limit)
<1> DEFINE rows == VisibleTo(disk, tenant)
           n == IF limit < Cardinality(rows) THEN limit ELSE Cardinality(rows)
           At(k) == CHOOSE o \in rows : Place(o, rows) = k - 1
<1>1. n \in Nat /\ n <= Cardinality(rows) /\ Cardinality(rows) \in Nat
  BY FS_CardinalityType DEF Listable
<1>2. \A k \in 1..n : At(k) \in rows /\ Place(At(k), rows) = k - 1
  BY <1>1, EveryPlaceTaken
<1>3. NewestVisible(disk, tenant, limit) = [k \in 1..n |-> At(k).id]
  BY DEF NewestVisible
<1> HIDE DEF At, n
<1>4. \A k \in 1..n : At(k).id \in Nat
  BY <1>2 DEF Listable
<1>5. [k \in 1..n |-> At(k).id] \in Seq(Nat) /\ Len([k \in 1..n |-> At(k).id]) = n
  BY <1>1, <1>4
<1>6. QED
  BY <1>2, <1>3, <1>5 DEF IsNewest, n

-----------------------------------------------------------------------------
(* The committed tables: what is proved of the store in a module of its    *)
(* own, seen on the disk.                                                  *)

LEMMA LeastNatural ==
  ASSUME NEW S, S \subseteq Nat, S # {}
  PROVE  \E m \in S : \A n \in S : m <= n
<1>. DEFINE Less == { pair \in Nat \X Nat : pair[1] < pair[2] }
<1>1. IsWellFoundedOn(Less, Nat)
  BY NatLessThanWellFounded DEF OpToRel
<1>2. PICK m \in S : \A n \in S : <<n, m>> \notin Less
  <2>. HIDE DEF Less
  <2>. QED
    BY <1>1, WFMin
<1>3. ASSUME NEW n \in S PROVE m <= n
  <2>1. <<n, m>>[1] = n /\ <<n, m>>[2] = m /\ <<n, m>> \in Nat \X Nat
    OBVIOUS
  <2>2. ~(n < m)
    BY <1>2, <2>1
  <2>. QED
    BY <2>2
<1>. QED
  BY <1>3

StoreFacts == INSTANCE ObservationStoreProofs WITH db <- disk

\* The rows of subjects are those of the observations.
SubjectsStored ==
  /\ \A x \in disk.subjects : x.id \in StoredIds(disk)
  /\ \A o \in disk.observations :
       o.subjects = { s.subject : s \in { x \in disk.subjects : x.id = o.id } }

\* What the store promises of the committed tables, which are finite.
DiskInv ==
  /\ StoreFacts!IInv
  /\ IsFiniteSet(disk.observations)
  /\ SubjectsStored

LEMMA StoredRows ==
  ASSUME DiskInv
  PROVE  /\ \A o \in disk.observations :
              /\ o \in Candidate
              /\ o.id \in Nat /\ o.id # NoObservation /\ o.observed_at \in Nat
         /\ \A p, o \in disk.observations : p.id = o.id => p = o
BY ObservationReadsAssumption
   DEF DiskInv, StoreFacts!IInv, StoreFacts!TypeOK, StoreFacts!UniqueIds

LEMMA VisibleIsListable ==
  ASSUME DiskInv, NEW tenant
  PROVE  /\ VisibleTo(disk, tenant) \subseteq disk.observations
         /\ Listable(VisibleTo(disk, tenant))
<1>1. VisibleTo(disk, tenant) \in SUBSET disk.observations
  BY DEF VisibleTo
<1>2. IsFiniteSet(VisibleTo(disk, tenant))
  BY <1>1, FS_Subset DEF DiskInv
<1>3. QED
  BY <1>1, <1>2, StoredRows DEF Listable

-----------------------------------------------------------------------------
(* What an observation corrects is what its row says, if the tenant may    *)
(* see it: the table of supersessions says the same.                       *)
LEMMA PriorIsSuperseded ==
  ASSUME DiskInv, NEW o \in disk.observations, NEW tenant, NEW id
  PROVE  id \in Prior(disk, o.id, tenant)
           <=> /\ id = o.supersedes
               /\ \E p \in VisibleTo(disk, tenant) : p.id = id
<1>0. /\ disk.supersessions \subseteq
           [superseding : StoreFacts!CandidateIds, superseded : StoreFacts!CandidateIds]
      /\ \A x \in disk.supersessions : \E p \in disk.observations :
           x.superseding = p.id /\ x.superseded = p.supersedes
      /\ \A p \in disk.observations : p.supersedes # NoObservation =>
           \E x \in disk.supersessions :
             x.superseding = p.id /\ x.superseded = p.supersedes
  BY DEF DiskInv, StoreFacts!IInv, StoreFacts!TypeOK, StoreFacts!LineageSound
<1>1. VisibleTo(disk, tenant) \subseteq disk.observations
  BY DEF VisibleTo
<1>2. ASSUME NEW p \in disk.observations
      PROVE  [superseding |-> o.id, superseded |-> p.id] \in disk.supersessions
               <=> p.id = o.supersedes
  <2>1. ASSUME [superseding |-> o.id, superseded |-> p.id] \in disk.supersessions
        PROVE  p.id = o.supersedes
    <3>1. PICK q \in disk.observations : o.id = q.id /\ p.id = q.supersedes
      BY <1>0, <2>1
    <3>2. QED
      BY <3>1, StoredRows
  <2>2. ASSUME p.id = o.supersedes
        PROVE  [superseding |-> o.id, superseded |-> p.id] \in disk.supersessions
    <3>1. o.supersedes # NoObservation
      BY <2>2, StoredRows
    <3>2. PICK x \in disk.supersessions : x.superseding = o.id /\ x.superseded = p.id
      BY <1>0, <2>2, <3>1
    <3>3. x = [superseding |-> o.id, superseded |-> p.id]
      BY <1>0, <3>2
    <3>4. QED
      BY <3>3
  <2>3. QED
    BY <2>1, <2>2
<1>3. QED
  BY <1>1, <1>2 DEF Prior

\* A walk of n observations from id to what it corrects, and so on.
Walks(id, tenant, n) ==
  { ids \in [1..n -> StoredIds(disk)] : ids[1] = id /\ Descends(disk, ids, tenant) }

LEMMA WalkStep ==
  ASSUME DiskInv, NEW id, NEW tenant, NEW n \in Nat, NEW ids \in Walks(id, tenant, n),
         NEW k \in 1..n-1, NEW o \in disk.observations, o.id = ids[k]
  PROVE  /\ ids[k + 1] = o.supersedes
         /\ \E p \in VisibleTo(disk, tenant) : p.id = ids[k + 1]
<1>1. Len(ids) = n
  BY DEF Walks
<1>2. ids[k + 1] \in Prior(disk, o.id, tenant)
  BY <1>1 DEF Walks, Descends
<1>3. QED
  BY <1>2, PriorIsSuperseded

(* A walk meets no observation twice: those on the way round would         *)
(* supersede one another in a cycle.                                       *)
LEMMA WalkNeverReturns ==
  ASSUME DiskInv, NEW id, NEW tenant, NEW n \in Nat, NEW ids \in Walks(id, tenant, n),
         NEW i \in 1..n, NEW j \in 1..n, i < j
  PROVE  ids[i] # ids[j]
<1> SUFFICES ASSUME ids[i] = ids[j] PROVE FALSE
  OBVIOUS
<1> DEFINE round == { o \in disk.observations : \E k \in i..j-1 : o.id = ids[k] }
<1>1. \A k \in 1..n : \E o \in disk.observations : o.id = ids[k]
  BY DEF Walks, StoredIds
<1>2. round # {}
  <2>1. PICK o \in disk.observations : o.id = ids[i]
    BY <1>1
  <2>2. o \in round
    BY <2>1
  <2>3. QED
    BY <2>2
<1>3. \A S \in SUBSET disk.observations : S # {} =>
        \E o \in S : o.supersedes \notin { p.id : p \in S }
  BY DEF DiskInv, StoreFacts!IInv, StoreFacts!LineageTerminates
<1>4. PICK o \in round : o.supersedes \notin { p.id : p \in round }
  BY <1>2, <1>3
<1>5. PICK k \in i..j-1 : o.id = ids[k]
  BY <1>4
<1>6. k \in 1..n-1 /\ k + 1 \in 1..n
  OBVIOUS
<1>7. o.supersedes = ids[k + 1]
  BY <1>5, <1>6, WalkStep
<1>8. PICK p \in disk.observations : p.id = ids[k + 1]
  BY <1>1, <1>6
<1>9. p \in round
  <2>1. CASE k + 1 < j
    BY <1>8, <2>1
  <2>2. CASE k + 1 = j
    BY <1>8, <2>2
  <2>3. QED
    BY <2>1, <2>2
<1>10. QED
  BY <1>4, <1>7, <1>8, <1>9

LEMMA WalkIsShort ==
  ASSUME DiskInv, NEW id, NEW tenant, NEW n \in Nat, NEW ids \in Walks(id, tenant, n)
  PROVE  n <= Cardinality(disk.observations)
<1> DEFINE Row(k) == CHOOSE o \in disk.observations : o.id = ids[k]
           row == [k \in 1..n |-> Row(k)]
<1>1. \A k \in 1..n : Row(k) \in disk.observations /\ Row(k).id = ids[k]
  BY DEF Walks, StoredIds
<1> HIDE DEF Row
<1>2. row \in [1..n -> disk.observations]
  BY <1>1
<1>3. \A i, j \in 1..n : row[i] = row[j] => i = j
  <2>1. \A i, j \in 1..n : i < j => ids[i] # ids[j]
    BY WalkNeverReturns
  <2>2. QED
    BY <1>1, <2>1
<1>4. row \in Injection(1..n, disk.observations)
  BY <1>2, <1>3 DEF Injection, IsInjective
<1> HIDE DEF row
<1>5. Cardinality(1..n) = n
  BY FS_Interval
<1>6. QED
  BY <1>4, <1>5, FS_Injection DEF DiskInv

(* From an observation the tenant sees there is a walk that cannot go on:  *)
(* the longest.                                                            *)
LEMMA WalkEnds ==
  ASSUME DiskInv, NEW id, NEW tenant, NEW v \in VisibleTo(disk, tenant), v.id = id
  PROVE  \E n \in 1..Cardinality(disk.observations) :
           \E ids \in Walks(id, tenant, n) : Prior(disk, ids[n], tenant) = {}
<1> DEFINE N == Cardinality(disk.observations)
           left == { m \in 0..N : m < N /\ Walks(id, tenant, N - m) # {} }
<1>1. N \in Nat
  BY FS_CardinalityType DEF DiskInv
<1>2. v \in disk.observations /\ id \in StoredIds(disk)
  BY VisibleIsListable DEF StoredIds
<1>3. [k \in 1..1 |-> id] \in Walks(id, tenant, 1)
  BY <1>2 DEF Walks, Descends
<1>4. 1 <= N
  BY <1>3, WalkIsShort
<1>5. N - 1 \in left
  BY <1>1, <1>3, <1>4
<1>6. PICK m \in left : \A l \in left : m <= l
  <2>1. left \subseteq Nat /\ left # {}
    BY <1>1, <1>5
  <2> HIDE DEF left
  <2>2. QED
    BY <2>1, LeastNatural
<1>7. N - m \in 1..N
  BY <1>1
<1>8. PICK n \in 1..N : n = N - m
  BY <1>7
<1>9. PICK ids \in Walks(id, tenant, n) : TRUE
  BY <1>8
<1>10. ASSUME NEW next \in Prior(disk, ids[n], tenant) PROVE FALSE
  <2> DEFINE on == [k \in 1..n+1 |-> IF k = n + 1 THEN next ELSE ids[k]]
  <2>1. next \in StoredIds(disk)
    BY DEF Prior, StoredIds, VisibleTo
  <2>2. on \in [1..n+1 -> StoredIds(disk)] /\ on[1] = id
    BY <1>1, <1>9, <2>1 DEF Walks
  <2>3. Len(on) = n + 1 /\ Len(ids) = n
    BY <1>1, <1>9 DEF Walks
  <2>4. \A k \in 1..n : on[k + 1] \in Prior(disk, on[k], tenant)
    <3>1. ASSUME NEW k \in 1..n-1 PROVE on[k + 1] \in Prior(disk, on[k], tenant)
      <4>1. on[k + 1] = ids[k + 1] /\ on[k] = ids[k]
        BY <1>1
      <4>2. QED
        BY <1>9, <2>3, <4>1 DEF Walks, Descends
    <3>2. on[n + 1] = next /\ on[n] = ids[n]
      BY <1>1
    <3>3. \A k \in 1..n : k \in 1..n-1 \/ k = n
      BY <1>1
    <3>4. QED
      BY <3>1, <3>2, <3>3
  <2> HIDE DEF on
  <2>5. on \in Walks(id, tenant, n + 1)
    BY <2>2, <2>3, <2>4 DEF Walks, Descends
  <2>6. n + 1 <= N
    BY <1>1, <2>5, WalkIsShort
  <2>7. m - 1 \in left
    <3>1. N - (m - 1) = n + 1 /\ m - 1 \in 0..N /\ m - 1 < N
      BY <1>1, <1>6, <1>8, <2>6
    <3>2. QED
      BY <2>5, <3>1
  <2>8. QED
    BY <1>6, <2>7
<1>11. QED
  BY <1>8, <1>9, <1>10

\* ids lead from id, which is one of rows, to what it corrects and so on, each
\* one of rows, up to one that corrects none of them.
LeadsBack(ids, id, rows) ==
  /\ Len(ids) >= 1 /\ ids[1] = id
  /\ \A k \in 1..Len(ids) : \E o \in rows : o.id = ids[k]
  /\ \A k \in 1..Len(ids)-1 : \A o \in rows : o.id = ids[k] => o.supersedes = ids[k + 1]
  /\ \A o, p \in rows : o.id = ids[Len(ids)] => p.id # o.supersedes

LEMMA LineageLeadsBack ==
  ASSUME DiskInv, NEW id, NEW tenant, NEW v \in VisibleTo(disk, tenant), v.id = id
  PROVE  /\ VisibleLineage(disk, id, tenant) \in Seq(Nat)
         /\ LeadsBack(VisibleLineage(disk, id, tenant), id, VisibleTo(disk, tenant))
<1> DEFINE All == UNION { [1..n -> StoredIds(disk)] : n \in 1..Cardinality(disk.observations) }
           Whole(ids) == /\ ids[1] = id
                         /\ Descends(disk, ids, tenant)
                         /\ Prior(disk, ids[Len(ids)], tenant) = {}
           found == CHOOSE ids \in All : Whole(ids)
<1>1. \E ids \in All : Whole(ids)
  <2>1. PICK n \in 1..Cardinality(disk.observations) :
          \E ids \in Walks(id, tenant, n) : Prior(disk, ids[n], tenant) = {}
    BY WalkEnds
  <2>2. PICK ids \in Walks(id, tenant, n) : Prior(disk, ids[n], tenant) = {}
    BY <2>1
  <2>3. ids \in [1..n -> StoredIds(disk)] /\ Len(ids) = n
    BY <2>2 DEF Walks
  <2>4. ids \in All
    BY <2>3
  <2>5. Whole(ids)
    BY <2>2, <2>3 DEF Walks
  <2>6. QED
    BY <2>4, <2>5
<1>2. found \in All /\ Whole(found)
  <2> HIDE DEF All, Whole
  <2> QED
    BY <1>1
<1>3. VisibleLineage(disk, id, tenant) = found
  BY DEF VisibleLineage
<1> HIDE DEF found
<1>4. PICK n \in 1..Cardinality(disk.observations) : found \in [1..n -> StoredIds(disk)]
  BY <1>2
<1>5. n \in Nat /\ n >= 1 /\ Len(found) = n /\ found \in Walks(id, tenant, n)
  <2>1. Cardinality(disk.observations) \in Nat
    BY FS_CardinalityType DEF DiskInv
  <2>2. n \in Nat /\ n >= 1
    BY <2>1
  <2>3. Len(found) = n
    BY <2>2, <1>4
  <2>4. QED
    BY <1>2, <1>4, <2>2, <2>3 DEF Walks
<1>6. StoredIds(disk) \subseteq Nat
  BY StoredRows DEF StoredIds
<1>7. found \in Seq(Nat)
  BY <1>4, <1>5, <1>6
<1>8. \A k \in 1..n : \E o \in disk.observations : o.id = found[k]
  BY <1>4 DEF StoredIds
<1>9. ASSUME NEW k \in 1..n PROVE \E o \in VisibleTo(disk, tenant) : o.id = found[k]
  <2>1. CASE k = 1
    BY <1>2, <2>1
  <2>2. CASE k # 1
    <3>1. k - 1 \in 1..n-1 /\ k - 1 + 1 = k
      BY <1>5, <2>2
    <3>2. PICK o \in disk.observations : o.id = found[k - 1]
      BY <1>8, <3>1
    <3>3. \E p \in VisibleTo(disk, tenant) : p.id = found[k - 1 + 1]
      BY <1>5, <3>1, <3>2, WalkStep
    <3>4. QED
      BY <3>1, <3>3
  <2>3. QED
    BY <2>1, <2>2
<1>10. ASSUME NEW k \in 1..n-1, NEW o \in VisibleTo(disk, tenant), o.id = found[k]
       PROVE  o.supersedes = found[k + 1]
  <2>1. o \in disk.observations
    BY VisibleIsListable
  <2>2. found[k + 1] = o.supersedes
    BY <1>5, <1>10, <2>1, WalkStep
  <2>3. QED
    BY <2>2
<1>11. ASSUME NEW o \in VisibleTo(disk, tenant), NEW p \in VisibleTo(disk, tenant),
              o.id = found[n]
       PROVE  p.id # o.supersedes
  <2>1. o \in disk.observations
    BY VisibleIsListable
  <2>2. p.id \notin Prior(disk, o.id, tenant)
    BY <1>2, <1>5, <1>11
  <2>3. QED
    BY <2>1, <2>2, PriorIsSuperseded
<1>12. QED
  BY <1>2, <1>3, <1>5, <1>7, <1>9, <1>10, <1>11 DEF LeadsBack

-----------------------------------------------------------------------------
(* What a reader has.                                                      *)

Whole(o) == [row |-> o, subjects |-> o.subjects]

\* The ids that the first SELECT of read r found: those of the records it has,
\* then those it has still to fetch.
Found(r) ==
  [k \in 1..Len(r.got)+Len(r.todo) |->
     IF k <= Len(r.got) THEN r.got[k].row.id ELSE r.todo[k - Len(r.got)]]

\* The record of the fields of a read.
IsRead(r) ==
  r = [ step |-> r.step, asked |-> r.asked, tenant |-> r.tenant, id |-> r.id,
        limit |-> r.limit, todo |-> r.todo, row |-> r.row, got |-> r.got,
        refs |-> r.refs, relationships |-> r.relationships, start |-> r.start ]

Fetches == {"get", "lineage", "list"}

\* How far a read is.
Progress ==
  /\ IsRead(read)
  /\ read.got \in Seq({ Whole(o) : o \in disk.observations })
  /\ read.todo \in Seq(Nat)
  /\ read.asked \in Fetches \cup {"profile", "accountability"} \/ read = NoRead
  /\ read.step = "idle" => read = NoRead
  /\ read.step \in {"row", "subjects"} => read.asked \in Fetches /\ read.todo # << >>
  /\ read.step = "subjects" =>
       read.row \in disk.observations /\ read.row.id = Head(read.todo)
  /\ read.step \in {"refs", "relationships"} => read.asked = "accountability"
  /\ read.step = "done" => read.todo = << >>

\* What is found at the end is what was there when the read began.
GetsOne ==
  read.asked = "get" =>
    /\ read.tenant = Everyone
    /\ read.start \subseteq disk.observations
    /\ Len(read.got) + Len(read.todo) = 1
    /\ read.step \in {"row", "subjects"} => Head(read.todo) = read.id
    /\ read.step = "failed" => \A o \in read.start : o.id # read.id

FollowsLineage ==
  read.asked = "lineage" =>
    /\ read.start \subseteq VisibleTo(disk, read.tenant)
    /\ read.step = "failed" =>
         read.got = << >> /\ \A o \in read.start : o.id # read.id
    /\ read.step # "failed" => LeadsBack(Found(read), read.id, read.start)

ListsNewest ==
  read.asked = "list" =>
    /\ read.start \subseteq VisibleTo(disk, read.tenant)
    /\ Listable(read.start)
    /\ read.limit \in Nat
    /\ read.step # "failed"
    /\ IsNewest(Found(read), read.start, read.limit)

DescribesEntity ==
  /\ read.asked \in {"profile", "accountability"} =>
       /\ read.got = << >> /\ read.todo = << >>
       /\ read.start \subseteq { r \in entities.refs :
                                   r.tenant = read.tenant /\ r.entity = read.id }
  /\ read.asked = "accountability" /\ read.step \in {"relationships", "done"} =>
       read.start \subseteq read.refs
  /\ \A r \in read.refs : r \in entities.refs /\ r.tenant = read.tenant

ReadInv == Progress /\ GetsOne /\ FollowsLineage /\ ListsNewest /\ DescribesEntity

\* What a reference names stays visible to the tenant whose entity it is.
SourcesVisible ==
  /\ entities = [ profiles |-> entities.profiles, refs |-> entities.refs,
                  relationships |-> entities.relationships ]
  /\ \A r \in entities.refs : r.source # Absent =>
       \E o \in VisibleTo(disk, r.tenant) : o.id = r.source

-----------------------------------------------------------------------------
LEMMA MoreRows ==
  ASSUME NEW S, NEW T, S \subseteq T, NEW q \in Seq(S)
  PROVE  q \in Seq(T)
OBVIOUS

LEMMA VisibleGrows ==
  ASSUME disk.observations \subseteq disk'.observations, NEW tenant
  PROVE  VisibleTo(disk, tenant) \subseteq VisibleTo(disk', tenant)
BY DEF VisibleTo

(* What others store while a reader is not running does not concern it.    *)
LEMMA ReadKeeps ==
  ASSUME ReadInv, read' = read,
         disk.observations \subseteq disk'.observations,
         entities.refs \subseteq entities'.refs
  PROVE  ReadInv'
<1>1. \A tenant : VisibleTo(disk, tenant) \subseteq VisibleTo(disk', tenant)
  BY VisibleGrows
<1>2. Progress'
  <2>1. { Whole(o) : o \in disk.observations } \subseteq { Whole(o) : o \in disk'.observations }
    OBVIOUS
  <2>2. read.got \in Seq({ Whole(o) : o \in disk'.observations })
    BY <2>1, MoreRows DEF ReadInv, Progress
  <2>3. QED
    BY <2>2 DEF ReadInv, Progress, IsRead
<1>3. GetsOne'
  BY DEF ReadInv, GetsOne
<1>4. FollowsLineage'
  BY <1>1 DEF ReadInv, FollowsLineage
<1>5. ListsNewest'
  BY <1>1 DEF ReadInv, ListsNewest
<1>6. DescribesEntity'
  BY DEF ReadInv, DescribesEntity
<1>7. QED
  BY <1>2, <1>3, <1>4, <1>5, <1>6 DEF ReadInv

LEMMA FoundAtFirst ==
  ASSUME NEW r, r.got = << >>, r.todo \in Seq(Nat)
  PROVE  Found(r) = r.todo
<1>1. Len(r.got) = 0 /\ Len(r.todo) \in Nat
  BY EmptySeq
<1>2. r.todo = [k \in 1..Len(r.todo) |-> r.todo[k]]
  OBVIOUS
<1>3. QED
  BY <1>1, <1>2 DEF Found

LEMMA BeginGetInv ==
  ASSUME DiskInv, ReadInv, NEW id \in Ids, BeginGet(id)
  PROVE  ReadInv'
<1>1. /\ read' = [NoRead EXCEPT !.step = "row", !.asked = "get", !.id = id,
                                !.todo = <<id>>, !.start = disk.observations]
      /\ UNCHANGED <<vars, entities>>
  BY DEF BeginGet, Reads
<1>2. /\ IsRead(read') /\ read'.step = "row" /\ read'.asked = "get"
      /\ read'.tenant = Everyone /\ read'.id = id /\ read'.todo = <<id>>
      /\ read'.got = << >> /\ read'.refs = {} /\ read'.start = disk.observations
  BY <1>1 DEF NoRead, IsRead
<1>3. id \in Nat /\ <<id>> \in Seq(Nat) /\ <<id>> # << >> /\ Len(<<id>>) = 1
      /\ Head(<<id>>) = id /\ Len(<< >>) = 0
  BY ObservationReadsAssumption DEF Ids
<1>4. disk' = disk /\ entities' = entities
  BY <1>1 DEF vars
<1>5. Progress'
  BY <1>2, <1>3, <1>4 DEF Progress, Fetches
<1>6. GetsOne'
  BY <1>2, <1>3, <1>4 DEF GetsOne
<1>7. QED
  BY <1>2, <1>5, <1>6 DEF ReadInv, FollowsLineage, ListsNewest, DescribesEntity

LEMMA BeginLineageInv ==
  ASSUME DiskInv, ReadInv, NEW request, NEW id \in Ids, BeginLineage(request, id)
  PROVE  ReadInv'
<1> DEFINE ids == VisibleLineage(disk, id, request.tenant)
           rows == VisibleTo(disk, request.tenant)
<1>1. /\ read' = [NoRead EXCEPT !.step = IF ids = << >> THEN "failed" ELSE "row",
                    !.asked = "lineage", !.tenant = request.tenant, !.id = id,
                    !.todo = ids, !.start = rows]
      /\ UNCHANGED <<vars, entities>>
  BY DEF BeginLineage, Reads
<1>2. disk' = disk /\ entities' = entities
  BY <1>1 DEF vars
<1>3. (\A o \in rows : o.id # id) => ids = << >>
  BY DEF VisibleLineage
<1>4. (\E o \in rows : o.id = id) => ids \in Seq(Nat) /\ LeadsBack(ids, id, rows)
  BY LineageLeadsBack
<1> HIDE DEF ids, rows
<1>5. /\ IsRead(read')
      /\ read'.step = IF ids = << >> THEN "failed" ELSE "row"
      /\ read'.asked = "lineage"
      /\ read'.tenant = request.tenant /\ read'.id = id /\ read'.todo = ids
      /\ read'.got = << >> /\ read'.refs = {} /\ read'.start = rows
  BY <1>1 DEF NoRead, IsRead
<1>6. ids = << >> <=> \A o \in rows : o.id # id
  BY <1>3, <1>4 DEF LeadsBack
<1>7. ids \in Seq(Nat)
  BY <1>3, <1>4, EmptySeq
<1>8. Progress'
  BY <1>2, <1>5, <1>7 DEF Progress, Fetches
<1>9. FollowsLineage'
  <2>1. Found(read') = ids
    BY <1>5, <1>7, FoundAtFirst
  <2>2. read'.start \subseteq VisibleTo(disk', read'.tenant)
    BY <1>2, <1>5 DEF rows
  <2>3. QED
    BY <1>4, <1>5, <1>6, <2>1, <2>2 DEF FollowsLineage
<1>10. QED
  BY <1>5, <1>8, <1>9 DEF ReadInv, GetsOne, ListsNewest, DescribesEntity

LEMMA BeginListInv ==
  ASSUME DiskInv, ReadInv, NEW request, NEW limit \in Limits, BeginList(request, limit)
  PROVE  ReadInv'
<1> DEFINE ids == NewestVisible(disk, request.tenant, limit)
           rows == VisibleTo(disk, request.tenant)
<1>1. /\ read' = [NoRead EXCEPT !.step = IF ids = << >> THEN "done" ELSE "row",
                    !.asked = "list", !.tenant = request.tenant, !.limit = limit,
                    !.todo = ids, !.start = rows]
      /\ UNCHANGED <<vars, entities>>
  BY DEF BeginList, Reads
<1>2. disk' = disk /\ entities' = entities
  BY <1>1 DEF vars
<1>3. Listable(rows) /\ limit \in Nat
  BY VisibleIsListable, ObservationReadsAssumption
<1>4. ids \in Seq(Nat) /\ IsNewest(ids, rows, limit)
  BY <1>3, ListIsNewest
<1> HIDE DEF ids, rows
<1>5. /\ IsRead(read')
      /\ read'.step = IF ids = << >> THEN "done" ELSE "row"
      /\ read'.asked = "list" /\ read'.limit = limit
      /\ read'.tenant = request.tenant /\ read'.todo = ids
      /\ read'.got = << >> /\ read'.refs = {} /\ read'.start = rows
  BY <1>1 DEF NoRead, IsRead
<1>6. Progress'
  BY <1>2, <1>4, <1>5 DEF Progress, Fetches
<1>7. ListsNewest'
  <2>1. Found(read') = ids
    BY <1>4, <1>5, FoundAtFirst
  <2>2. read'.start \subseteq VisibleTo(disk', read'.tenant)
    BY <1>2, <1>5 DEF rows
  <2>3. QED
    BY <1>3, <1>4, <1>5, <2>1, <2>2 DEF ListsNewest
<1>8. QED
  BY <1>5, <1>6, <1>7 DEF ReadInv, GetsOne, FollowsLineage, DescribesEntity

LEMMA BeginEntityInv ==
  ASSUME ReadInv, NEW request, NEW entity, BeginEntity(request, entity)
  PROVE  ReadInv'
<1>1. PICK asked \in {"profile", "accountability"} :
        read' = [NoRead EXCEPT !.asked = asked, !.tenant = request.tenant,
                   !.id = entity,
                   !.step = IF ~HasProfile(request.tenant, entity) THEN "failed"
                            ELSE IF asked = "profile" THEN "done" ELSE "refs",
                   !.start = { r \in entities.refs :
                                 r.tenant = request.tenant /\ r.entity = entity }]
  BY DEF BeginEntity
<1>2. disk' = disk /\ entities' = entities
  BY DEF BeginEntity, Reads, vars
<1>3. /\ IsRead(read') /\ read'.asked = asked
      /\ read'.step \in {"failed", "done", "refs"}
      /\ read'.step = "refs" => asked = "accountability"
      /\ read'.step = "done" => asked = "profile"
      /\ read'.tenant = request.tenant /\ read'.id = entity
      /\ read'.todo = << >> /\ read'.got = << >> /\ read'.refs = {}
      /\ read'.start = { r \in entities.refs :
                           r.tenant = request.tenant /\ r.entity = entity }
  BY <1>1 DEF NoRead, IsRead
<1>4. Progress'
  BY <1>2, <1>3 DEF Progress, Fetches
<1>5. DescribesEntity'
  BY <1>2, <1>3 DEF DescribesEntity
<1>6. QED
  BY <1>3, <1>4, <1>5 DEF ReadInv, GetsOne, FollowsLineage, ListsNewest

-----------------------------------------------------------------------------
(* The next record is there, and the tenant may see it: the first SELECT   *)
(* found it among rows that stay.                                          *)
LEMMA NextIsThere ==
  ASSUME DiskInv, ReadInv, read.step \in {"row", "subjects"},
         read.asked \in {"lineage", "list"}
  PROVE  \E o \in VisibleTo(disk, read.tenant) : o.id = Head(read.todo)
<1>1. /\ read.got \in Seq({ Whole(o) : o \in disk.observations })
      /\ read.todo \in Seq(Nat) /\ read.todo # << >>
  BY DEF ReadInv, Progress
<1>2. Len(read.got) \in Nat /\ Len(read.todo) \in Nat \ {0}
  BY <1>1, EmptySeq
<1> DEFINE next == Len(read.got) + 1
<1>3. next \in 1..Len(Found(read)) /\ Found(read)[next] = Head(read.todo)
  <2>1. PICK n \in Nat : n = Len(read.got)
    BY <1>2
  <2>2. PICK m \in Nat \ {0} : m = Len(read.todo)
    BY <1>2
  <2>3. Found(read) = [k \in 1..n+m |-> IF k <= n THEN read.got[k].row.id
                                        ELSE read.todo[k - n]]
    BY <2>1, <2>2 DEF Found
  <2>4. Len(Found(read)) = n + m /\ n + 1 \in 1..n+m
    BY <2>3
  <2>5. Found(read)[n + 1] = read.todo[1]
    BY <2>3, <2>4
  <2>6. Head(read.todo) = read.todo[1]
    BY <1>1
  <2>7. QED
    BY <2>1, <2>4, <2>5, <2>6
<1>5. CASE read.asked = "lineage"
  <2>1. LeadsBack(Found(read), read.id, read.start)
        /\ read.start \subseteq VisibleTo(disk, read.tenant)
    BY <1>5 DEF ReadInv, FollowsLineage
  <2>2. PICK o \in read.start : o.id = Found(read)[next]
    BY <1>3, <2>1 DEF LeadsBack
  <2>3. QED
    BY <1>3, <2>1, <2>2
<1>6. CASE read.asked = "list"
  <2>1. IsNewest(Found(read), read.start, read.limit)
        /\ read.start \subseteq VisibleTo(disk, read.tenant)
    BY <1>6 DEF ReadInv, ListsNewest
  <2>2. PICK o \in read.start : o.id = Found(read)[next]
    BY <1>3, <2>1 DEF IsNewest
  <2>3. QED
    BY <1>3, <2>1, <2>2
<1>7. QED
  BY <1>5, <1>6

LEMMA SelectRowInv ==
  ASSUME DiskInv, ReadInv, SelectRow
  PROVE  ReadInv'
<1> DEFINE rows == { o \in disk.observations : o.id = Head(read.todo) }
<1>1. /\ read.step = "row"
      /\ rows = {} => read' = [read EXCEPT !.step = "failed"]
      /\ rows # {} => read' = [read EXCEPT !.step = "subjects",
                                           !.row = CHOOSE o \in rows : TRUE]
  BY DEF SelectRow
<1>2. disk' = disk /\ entities' = entities
  BY DEF SelectRow, Reads, vars
<1>3. /\ IsRead(read) /\ read.asked \in Fetches /\ read.todo # << >>
      /\ read.got \in Seq({ Whole(o) : o \in disk.observations })
      /\ read.todo \in Seq(Nat)
  BY <1>1 DEF ReadInv, Progress
<1>4. CASE rows = {}
  <2>1. /\ IsRead(read') /\ read'.step = "failed" /\ read'.asked = read.asked
        /\ read'.tenant = read.tenant /\ read'.id = read.id
        /\ read'.todo = read.todo /\ read'.got = read.got
        /\ read'.refs = read.refs /\ read'.start = read.start
    BY <1>1, <1>3, <1>4 DEF IsRead
  <2>2. read.asked = "get"
    <3>1. VisibleTo(disk, read.tenant) \subseteq disk.observations
      BY VisibleIsListable
    <3>2. QED
      BY <1>1, <1>3, <1>4, <3>1, NextIsThere DEF Fetches
  <2>3. Progress'
    BY <1>2, <1>3, <2>1 DEF Progress
  <2>4. GetsOne'
    <3>1. Head(read.todo) = read.id /\ read.start \subseteq disk.observations
      BY <1>1, <2>2 DEF ReadInv, GetsOne
    <3>2. \A o \in read.start : o.id # read.id
      BY <1>4, <3>1
    <3>3. QED
      BY <1>2, <2>1, <2>2, <3>2 DEF ReadInv, GetsOne
  <2>5. QED
    BY <1>2, <2>1, <2>2, <2>3, <2>4 DEF ReadInv, FollowsLineage, ListsNewest, DescribesEntity
<1>5. CASE rows # {}
  <2>1. PICK o \in rows : read' = [read EXCEPT !.step = "subjects", !.row = o]
    BY <1>1, <1>5
  <2>2. /\ IsRead(read') /\ read'.step = "subjects" /\ read'.asked = read.asked
        /\ read'.tenant = read.tenant /\ read'.id = read.id
        /\ read'.limit = read.limit /\ read'.row = o
        /\ read'.todo = read.todo /\ read'.got = read.got
        /\ read'.refs = read.refs /\ read'.start = read.start
    BY <1>3, <2>1 DEF IsRead
  <2>3. o \in disk.observations /\ o.id = Head(read.todo)
    OBVIOUS
  <2>4. Progress'
    BY <1>2, <1>3, <2>2, <2>3 DEF Progress
  <2>5. Found(read') = Found(read)
    BY <2>2 DEF Found
  <2>6. GetsOne'
    BY <1>1, <1>2, <2>2 DEF ReadInv, GetsOne
  <2>7. FollowsLineage' /\ ListsNewest'
    BY <1>1, <1>2, <2>2, <2>5 DEF ReadInv, FollowsLineage, ListsNewest
  <2>8. DescribesEntity'
    BY <1>2, <1>3, <2>2 DEF ReadInv, DescribesEntity, Fetches
  <2>9. QED
    BY <2>4, <2>6, <2>7, <2>8 DEF ReadInv
<1>6. QED
  BY <1>4, <1>5

(* A record more, an id less: what was found is the same.                  *)
LEMMA FoundStays ==
  ASSUME NEW S, NEW r, NEW q, NEW rec \in S,
         r.got \in Seq(S), r.todo \in Seq(Nat), r.todo # << >>,
         rec.row.id = Head(r.todo),
         q.got = Append(r.got, rec), q.todo = Tail(r.todo)
  PROVE  /\ Found(q) = Found(r)
         /\ Len(q.got) + Len(q.todo) = Len(r.got) + Len(r.todo)
<1>1. PICK n \in Nat : n = Len(r.got)
  BY EmptySeq
<1>2. PICK m \in Nat \ {0} : m = Len(r.todo)
  BY EmptySeq
<1>3. /\ Len(q.got) = n + 1
      /\ \A i \in 1..n : q.got[i] = r.got[i]
      /\ q.got[n + 1] = rec
  BY <1>1, AppendProperties
<1>4. /\ Len(q.todo) = m - 1
      /\ \A i \in 1..m-1 : q.todo[i] = r.todo[i + 1]
  BY <1>2, HeadTailProperties
<1>5. Head(r.todo) = r.todo[1]
  OBVIOUS
<1> DEFINE At(k) == IF k <= n THEN r.got[k].row.id ELSE r.todo[k - n]
           Now(k) == IF k <= n + 1 THEN q.got[k].row.id ELSE q.todo[k - (n + 1)]
<1>6. ASSUME NEW k \in 1..n+m PROVE Now(k) = At(k)
  <2>1. CASE k <= n
    BY <1>3, <2>1
  <2>2. CASE k = n + 1
    <3>1. Now(k) = rec.row.id
      BY <1>3, <2>2
    <3>2. At(k) = r.todo[1]
      <4>1. ~(k <= n) /\ k - n = 1
        BY <2>2
      <4>2. QED
        BY <4>1
    <3>3. QED
      BY <1>5, <3>1, <3>2
  <2>3. CASE k > n + 1
    <3>1. PICK i \in 1..m-1 : i = k - (n + 1)
      BY <2>3
    <3>2. k - n = i + 1 /\ ~(k <= n) /\ ~(k <= n + 1)
      BY <2>3, <3>1
    <3>3. Now(k) = q.todo[i] /\ At(k) = r.todo[i + 1]
      BY <3>1, <3>2
    <3>4. QED
      BY <1>4, <3>3
  <2> HIDE DEF At, Now
  <2>4. k <= n \/ k = n + 1 \/ k > n + 1
    OBVIOUS
  <2>5. QED
    BY <2>1, <2>2, <2>3, <2>4
<1> HIDE DEF At, Now
<1>7. Len(q.got) + Len(q.todo) = n + m
  <2>1. (n + 1) + (m - 1) = n + m
    OBVIOUS
  <2>2. QED
    BY <1>3, <1>4, <2>1
<1>8. Found(q) = [k \in 1..n+m |-> Now(k)]
  BY <1>3, <1>7 DEF Found, Now
<1>9. Found(r) = [k \in 1..n+m |-> At(k)]
  BY <1>1, <1>2 DEF Found, At
<1>10. QED
  BY <1>1, <1>2, <1>6, <1>7, <1>8, <1>9

LEMMA SelectSubjectsInv ==
  ASSUME DiskInv, ReadInv, SelectSubjects
  PROVE  ReadInv'
<1> DEFINE record == [row |-> read.row,
                      subjects |-> { s.subject : s \in { t \in disk.subjects :
                                                           t.id = read.row.id } }]
<1>1. /\ read.step = "subjects"
      /\ ~Visible(read.row, read.tenant) => read' = [read EXCEPT !.step = "failed"]
      /\ Visible(read.row, read.tenant) =>
           read' = [read EXCEPT !.got = Append(@, record), !.todo = Tail(@),
                      !.step = IF Tail(read.todo) = << >> THEN "done" ELSE "row"]
  BY DEF SelectSubjects
<1>2. disk' = disk /\ entities' = entities
  BY DEF SelectSubjects, Reads, vars
<1>3. /\ IsRead(read) /\ read.asked \in Fetches /\ read.todo # << >>
      /\ read.got \in Seq({ Whole(o) : o \in disk.observations })
      /\ read.todo \in Seq(Nat)
      /\ read.row \in disk.observations /\ read.row.id = Head(read.todo)
  BY <1>1 DEF ReadInv, Progress
<1>4. record = Whole(read.row)
  BY <1>3 DEF DiskInv, SubjectsStored, Whole
<1>5. Visible(read.row, read.tenant)
  <2>1. CASE read.asked = "get"
    BY <2>1 DEF ReadInv, GetsOne, Visible
  <2>2. CASE read.asked \in {"lineage", "list"}
    <3>1. PICK o \in VisibleTo(disk, read.tenant) : o.id = Head(read.todo)
      BY <1>1, <2>2, NextIsThere
    <3>2. o \in disk.observations /\ Visible(o, read.tenant)
      BY DEF VisibleTo
    <3>3. o = read.row
      BY <1>3, <3>1, <3>2, StoredRows
    <3>4. QED
      BY <3>2, <3>3
  <2>3. QED
    BY <1>3, <2>1, <2>2 DEF Fetches
<1>6. Whole(read.row) \in { Whole(o) : o \in disk.observations }
  BY <1>3
<1>7. Whole(read.row).row = read.row
  BY DEF Whole
<1> DEFINE rec == Whole(read.row)
           All == { Whole(o) : o \in disk.observations }
<1>8. read' = [read EXCEPT !.got = Append(@, rec), !.todo = Tail(@),
                 !.step = IF Tail(read.todo) = << >> THEN "done" ELSE "row"]
  BY <1>1, <1>4, <1>5
<1> HIDE DEF record, rec, All
<1>9. /\ IsRead(read')
      /\ read'.step = IF Tail(read.todo) = << >> THEN "done" ELSE "row"
      /\ read'.asked = read.asked
      /\ read'.tenant = read.tenant /\ read'.id = read.id
      /\ read'.limit = read.limit
      /\ read'.todo = Tail(read.todo) /\ read'.got = Append(read.got, rec)
      /\ read'.refs = read.refs /\ read'.start = read.start
  BY <1>3, <1>8 DEF IsRead
<1>10. /\ read.got \in Seq(All) /\ rec \in All /\ rec.row.id = Head(read.todo)
  BY <1>3, <1>6, <1>7 DEF rec, All
<1>11. /\ Tail(read.todo) \in Seq(Nat)
       /\ Append(read.got, rec) \in Seq(All)
       /\ Len(Append(read.got, rec)) = Len(read.got) + 1
       /\ Len(Tail(read.todo)) = Len(read.todo) - 1
  BY <1>3, <1>10, HeadTailProperties, AppendProperties
<1>12. /\ Found(read') = Found(read)
       /\ Len(read'.got) + Len(read'.todo) = Len(read.got) + Len(read.todo)
  <2>1. /\ read.got \in Seq(All) /\ read.todo \in Seq(Nat) /\ read.todo # << >>
        /\ rec \in All /\ rec.row.id = Head(read.todo)
    BY <1>3, <1>10
  <2>2. read'.got = Append(read.got, rec) /\ read'.todo = Tail(read.todo)
    BY <1>9
  <2>3. ASSUME NEW r, NEW q, r = read, q = read'
        PROVE  /\ Found(q) = Found(r)
               /\ Len(q.got) + Len(q.todo) = Len(r.got) + Len(r.todo)
    <3>1. r.got \in Seq(All)
      BY <2>1, <2>3
    <3>2. r.todo \in Seq(Nat)
      BY <2>1, <2>3
    <3>3. r.todo # << >>
      BY <2>1, <2>3
    <3>4. rec.row.id = Head(r.todo)
      BY <2>1, <2>3
    <3>5. q.got = Append(r.got, rec)
      BY <2>2, <2>3
    <3>6. q.todo = Tail(r.todo)
      BY <2>2, <2>3
    <3>7. rec \in All
      BY <2>1
    <3>8. QED
      BY <3>1, <3>2, <3>3, <3>4, <3>5, <3>6, <3>7, FoundStays, ZenonT(60)
  <2>4. QED
    BY <2>3
<1>13. Progress'
  <2>1. read'.step \in {"row", "done"}
    BY <1>9
  <2>2. read'.got \in Seq({ Whole(o) : o \in disk'.observations })
    BY <1>2, <1>9, <1>11 DEF All
  <2>3. QED
    BY <1>3, <1>9, <1>11, <2>1, <2>2 DEF Progress
<1>14. GetsOne'
  <2>1. CASE read.asked = "get"
    <3>1. Len(read.got) + Len(read.todo) = 1
      BY <2>1 DEF ReadInv, GetsOne
    <3>2. PICK n \in Nat, m \in Nat \ {0} : n = Len(read.got) /\ m = Len(read.todo)
      BY <1>3, EmptySeq
    <3>3. n + m = 1
      BY <3>1, <3>2, Zenon
    <3>4. m = 1
      BY <3>3
    <3>5. Len(Tail(read.todo)) = 0
      BY <1>11, <3>2, <3>4
    <3>6. Tail(read.todo) = << >>
      BY <1>11, <3>5, EmptySeq
    <3>7. read'.step = "done"
      BY <1>9, <3>6
    <3>8. QED
      BY <1>2, <1>9, <1>12, <2>1, <3>1, <3>7 DEF ReadInv, GetsOne
  <2>2. CASE read.asked # "get"
    BY <1>9, <2>2 DEF GetsOne
  <2>3. QED
    BY <2>1, <2>2
<1>15. FollowsLineage' /\ ListsNewest'
  <2>1. read'.step # "failed"
    BY <1>9
  <2>2. QED
    BY <1>1, <1>2, <1>9, <1>12, <2>1 DEF ReadInv, FollowsLineage, ListsNewest
<1>16. DescribesEntity'
  BY <1>2, <1>3, <1>9 DEF ReadInv, DescribesEntity, Fetches
<1>17. QED
  BY <1>13, <1>14, <1>15, <1>16 DEF ReadInv

LEMMA SelectEntityInv ==
  ASSUME ReadInv, SelectReferences \/ SelectRelationships
  PROVE  ReadInv'
<1> DEFINE Of(table) == { r \in table : r.tenant = read.tenant /\ r.entity = read.id }
<1>1. disk' = disk /\ entities' = entities
  BY DEF SelectReferences, SelectRelationships, Reads, vars
<1>2. /\ IsRead(read) /\ read.asked = "accountability"
      /\ read.got \in Seq({ Whole(o) : o \in disk.observations })
      /\ read.todo \in Seq(Nat)
  BY DEF ReadInv, Progress, SelectReferences, SelectRelationships
<1>3. /\ read.got = << >> /\ read.todo = << >>
      /\ read.start \subseteq Of(entities.refs)
  BY <1>2 DEF ReadInv, DescribesEntity
<1>4. CASE SelectReferences
  <2>1. read' = [read EXCEPT !.step = "relationships", !.refs = Of(entities.refs)]
    BY <1>4 DEF SelectReferences
  <2>2. /\ IsRead(read') /\ read'.step = "relationships"
        /\ read'.asked = read.asked /\ read'.tenant = read.tenant
        /\ read'.id = read.id /\ read'.todo = read.todo /\ read'.got = read.got
        /\ read'.refs = Of(entities.refs) /\ read'.start = read.start
    BY <1>2, <2>1 DEF IsRead
  <2>3. Progress'
    BY <1>1, <1>2, <2>2 DEF Progress
  <2>4. DescribesEntity'
    BY <1>1, <1>2, <1>3, <2>2 DEF DescribesEntity
  <2>5. QED
    BY <1>2, <2>2, <2>3, <2>4 DEF ReadInv, GetsOne, FollowsLineage, ListsNewest
<1>5. CASE SelectRelationships
  <2>1. /\ read.step = "relationships"
        /\ read' = [read EXCEPT !.step = "done",
                       !.relationships = Of(entities.relationships)]
    BY <1>5 DEF SelectRelationships
  <2>2. /\ IsRead(read') /\ read'.step = "done"
        /\ read'.asked = read.asked /\ read'.tenant = read.tenant
        /\ read'.id = read.id /\ read'.todo = read.todo /\ read'.got = read.got
        /\ read'.refs = read.refs /\ read'.start = read.start
    BY <1>2, <2>1 DEF IsRead
  <2>3. Progress'
    BY <1>1, <1>2, <1>3, <2>2 DEF Progress
  <2>4. DescribesEntity'
    BY <1>1, <1>2, <1>3, <2>1, <2>2 DEF ReadInv, DescribesEntity
  <2>5. QED
    BY <1>2, <2>2, <2>3, <2>4 DEF ReadInv, GetsOne, FollowsLineage, ListsNewest
<1>6. QED
  BY <1>4, <1>5

LEMMA NothingRead == read' = NoRead => ReadInv'
  BY EmptySeq
     DEF NoRead, ReadInv, Progress, IsRead, Fetches, GetsOne, FollowsLineage, ListsNewest,
         DescribesEntity

-----------------------------------------------------------------------------
(* Reads with the store below them.                                        *)

LEMMA ReadsAreNoAppends == ReadsSpec => Spec
<1>1. ReadsInit => Init
  BY DEF ReadsInit
<1>2. [ReadsNext]_readsVars => [Next]_vars
  BY DEF ReadsNext, readsVars, InsertEntity, InsertReference, InsertRelationship, Reads,
         BeginGet, BeginLineage, BeginList, BeginEntity, SelectRow, SelectSubjects,
         SelectReferences, SelectRelationships, Answer
<1>3. QED
  BY <1>1, <1>2, PTL DEF ReadsSpec, Spec

(* What is proved of the store in its own module holds of the disk.        *)
LEMMA SameStore == ImplementsStore => StoreFacts!Spec
<1>1. Store!Init => StoreFacts!Init
  BY DEF Store!Init, StoreFacts!Init, Store!EmptyTables, StoreFacts!EmptyTables
<1>2. Store!Next => StoreFacts!Next
  <2>1. \A c : Store!InsertRetentionClass(c) <=> StoreFacts!InsertRetentionClass(c)
    BY DEF Store!InsertRetentionClass, StoreFacts!InsertRetentionClass
  <2>2. \A s, c : Store!InsertSource(s, c) <=> StoreFacts!InsertSource(s, c)
    BY DEF Store!InsertSource, StoreFacts!InsertSource,
           Store!SourceAllowed, StoreFacts!SourceAllowed,
           Store!HasSource, StoreFacts!HasSource, Store!WithSource, StoreFacts!WithSource
  <2>3. \A r, s : Store!InsertCollectionRun(r, s) <=> StoreFacts!InsertCollectionRun(r, s)
    BY DEF Store!InsertCollectionRun, StoreFacts!InsertCollectionRun,
           Store!RunAllowed, StoreFacts!RunAllowed, Store!HasRun, StoreFacts!HasRun,
           Store!HasSource, StoreFacts!HasSource, Store!WithRun, StoreFacts!WithRun
  <2>4. \A d, c : Store!InsertRawPayloadDescriptor(d, c)
                    <=> StoreFacts!InsertRawPayloadDescriptor(d, c)
    BY DEF Store!InsertRawPayloadDescriptor, StoreFacts!InsertRawPayloadDescriptor,
           Store!PayloadAllowed, StoreFacts!PayloadAllowed,
           Store!WithPayload, StoreFacts!WithPayload
  <2>5. \A o, c : Store!AppendObservation(o, c) <=> StoreFacts!AppendObservation(o, c)
    <3>1. \A o, c : Store!AppendAllowed(disk, o, c) <=> StoreFacts!AppendAllowed(disk, o, c)
      BY DEF Store!AppendAllowed, StoreFacts!AppendAllowed,
             Store!ValidCursor, StoreFacts!ValidCursor,
             Store!CursorAllowed, StoreFacts!CursorAllowed,
             Store!ObservationAllowed, StoreFacts!ObservationAllowed,
             Store!SameEvent, StoreFacts!SameEvent, Store!HasSource, StoreFacts!HasSource,
             Store!HasRun, StoreFacts!HasRun, Store!RequiresLineage, StoreFacts!RequiresLineage,
             Store!ValidLineage, StoreFacts!ValidLineage
    <3>2. \A o, c : Store!Appended(disk, o, c) = StoreFacts!Appended(disk, o, c)
      BY DEF Store!Appended, StoreFacts!Appended,
             Store!WithObservation, StoreFacts!WithObservation,
             Store!WithSubjects, StoreFacts!WithSubjects,
             Store!WithSupersession, StoreFacts!WithSupersession,
             Store!WithCursor, StoreFacts!WithCursor
    <3>3. QED
      BY <3>1, <3>2 DEF Store!AppendObservation, StoreFacts!AppendObservation
  <2>6. \A g, s : Store!AppendReorg(g, s) <=> StoreFacts!AppendReorg(g, s)
    BY DEF Store!AppendReorg, StoreFacts!AppendReorg,
           Store!ReorgAllowed, StoreFacts!ReorgAllowed, Store!HasSource, StoreFacts!HasSource,
           Store!WithReorg, StoreFacts!WithReorg
  <2>7. \A h : Store!AppendContradictionHint(h) <=> StoreFacts!AppendContradictionHint(h)
    BY DEF Store!AppendContradictionHint, StoreFacts!AppendContradictionHint,
           Store!HintAllowed, StoreFacts!HintAllowed,
           Store!SharesSubject, StoreFacts!SharesSubject, Store!WithHint, StoreFacts!WithHint
  <2>8. Store!CandidateIds = StoreFacts!CandidateIds
    BY DEF Store!CandidateIds, StoreFacts!CandidateIds
  <2>9. QED
    BY <2>1, <2>2, <2>3, <2>4, <2>5, <2>6, <2>7, <2>8 DEF Store!Next, StoreFacts!Next
<1>3. QED
  BY <1>1, <1>2, PTL DEF ImplementsStore, Store!Spec, StoreFacts!Spec

LEMMA StoreKept == ReadsSpec => []StoreFacts!IInv
<1>1. StoreFacts!Spec => []StoreFacts!IInv
  <2>1. /\ MaxTime \in Nat
        /\ NoObservation \notin { o.id : o \in Candidate }
        /\ \A o \in Candidate :
             /\ DOMAIN o = StoreFacts!ObservationFields
             /\ o.source \in Source
             /\ o.run \in Run
             /\ o.observed_at \in Nat
    BY ObservationReadsAssumption DEF Store!ObservationFields, StoreFacts!ObservationFields
  <2>2. QED
    BY <2>1, StoreFacts!StoreInvariant
<1>2. QED
  BY <1>1, ReadsAreNoAppends, AppendImplementsStore, SameStore, PTL

(* What a commit adds.                                                     *)
LEMMA AppendedRows ==
  ASSUME NEW t, IsTables(t), NEW o, NEW c
  PROVE  /\ Appended(t, o, c).observations = t.observations \cup {o}
         /\ Appended(t, o, c).subjects = t.subjects \cup Rows(o, o.subjects)
<1> DEFINE a == WithObservation(t, o)
           b == WithSubjects(a, o, o.subjects)
           d == WithSupersession(b, o)
<1>1. IsTables(a) /\ a.observations = t.observations \cup {o} /\ a.subjects = t.subjects
  BY DEF IsTables, WithObservation
<1> HIDE DEF a
<1>2. /\ IsTables(b) /\ b.observations = a.observations
      /\ b.subjects = t.subjects \cup Rows(o, o.subjects)
  BY <1>1 DEF IsTables, WithSubjects, Rows
<1> HIDE DEF b
<1>3. IsTables(d) /\ d.observations = b.observations /\ d.subjects = b.subjects
  <2>1. CASE o.supersedes = NoObservation
    BY <1>2, <2>1 DEF WithSupersession
  <2>2. CASE o.supersedes # NoObservation
    BY <1>2, <2>2 DEF IsTables, WithSupersession
  <2>3. QED
    BY <2>1, <2>2
<1> HIDE DEF d
<1>4. /\ WithCursor(d, c).observations = d.observations
      /\ WithCursor(d, c).subjects = d.subjects
  BY <1>3 DEF IsTables, WithCursor
<1>5. Appended(t, o, c) = WithCursor(d, c)
  BY DEF Appended, a, b, d
<1>6. QED
  BY <1>1, <1>2, <1>3, <1>4, <1>5

LEMMA DiskStep ==
  ASSUME IInv, DiskInv, StoreFacts!IInv', [Next]_vars
  PROVE  DiskInv' /\ disk.observations \subseteq disk'.observations
<1>1. CASE \E w \in Writer : Commit(w)
  <2>1. PICK w \in Writer : Commit(w)
    BY <1>1
  <2>2. pc[w] = "commit" /\ disk' = copy
    BY <2>1 DEF Commit
  <2>3. /\ ObservationAllowed(disk, Obs(w))
        /\ disk' = Appended(disk, Obs(w), Cur(w))
        /\ IsTables(disk)
    BY <2>2 DEF IInv, CopyOf, Locked
  <2> DEFINE o == Obs(w)
  <2>4. /\ disk'.observations = disk.observations \cup {o}
        /\ disk'.subjects = disk.subjects \cup Rows(o, o.subjects)
    BY <2>3, AppendedRows
  <2>5. \A p \in disk.observations : p.id # o.id
    BY <2>3 DEF ObservationAllowed
  <2> HIDE DEF o
  <2>6. IsFiniteSet(disk'.observations)
    BY <2>4, FS_AddElement DEF DiskInv
  <2>7. \A x \in disk'.subjects : x.id \in StoredIds(disk')
    BY <2>4 DEF DiskInv, SubjectsStored, StoredIds, Rows
  <2>8. ASSUME NEW p \in disk'.observations
        PROVE  p.subjects = { s.subject : s \in { x \in disk'.subjects : x.id = p.id } }
    <3>1. CASE p \in disk.observations
      <4>1. { x \in disk'.subjects : x.id = p.id } = { x \in disk.subjects : x.id = p.id }
        BY <2>4, <2>5, <3>1 DEF Rows
      <4>2. QED
        BY <3>1, <4>1 DEF DiskInv, SubjectsStored
    <3>2. CASE p = o
      <4>1. { x \in disk'.subjects : x.id = o.id } = Rows(o, o.subjects)
        <5>1. \A x \in disk.subjects : x.id # o.id
          BY <2>5 DEF DiskInv, SubjectsStored, StoredIds
        <5>2. \A x \in Rows(o, o.subjects) : x.id = o.id
          BY DEF Rows
        <5>3. QED
          BY <2>4, <5>1, <5>2
      <4>2. { s.subject : s \in Rows(o, o.subjects) } = o.subjects
        <5>1. ASSUME NEW ref \in o.subjects
              PROVE  \E s \in Rows(o, o.subjects) : s.subject = ref
          <6>1. [id |-> o.id, subject |-> ref] \in Rows(o, o.subjects)
            BY DEF Rows
          <6>2. QED
            BY <6>1
        <5>2. \A s \in Rows(o, o.subjects) : s.subject \in o.subjects
          BY DEF Rows
        <5>3. QED
          BY <5>1, <5>2
      <4>3. QED
        BY <3>2, <4>1, <4>2
    <3>3. QED
      BY <2>4, <3>1, <3>2
  <2>9. QED
    BY <2>4, <2>6, <2>7, <2>8 DEF DiskInv, SubjectsStored
<1>2. CASE InsertPrerequisites
  <2>1. disk'.observations = disk.observations /\ disk'.subjects = disk.subjects
    BY <1>2 DEF InsertPrerequisites, Statement, WithSource, WithRun, IInv, IsTables
  <2>2. QED
    BY <2>1 DEF DiskInv, SubjectsStored, StoredIds
<1>3. CASE disk' = disk
  BY <1>3 DEF DiskInv, SubjectsStored
<1>4. QED
  BY <1>1, <1>2, <1>3
     DEF Next, vars, BeginAppend, InsertObservationRow, InsertSubjectRow,
         InsertSupersessionRow, UpsertCursor, Rollback

ReadsInv == DiskInv /\ SourcesVisible /\ ReadInv

LEMMA InitReads == ReadsInit /\ StoreFacts!IInv => ReadsInv
<1> SUFFICES ASSUME ReadsInit, StoreFacts!IInv PROVE ReadsInv
  OBVIOUS
<1>1. DiskInv
  BY FS_EmptySet DEF ReadsInit, Init, EmptyTables, DiskInv, SubjectsStored
<1>2. SourcesVisible
  BY DEF ReadsInit, NoEntities, SourcesVisible
<1>3. read = NoRead
  BY DEF ReadsInit
<1>4. ReadInv
  BY <1>3, EmptySeq
     DEF NoRead, ReadInv, Progress, IsRead, Fetches, GetsOne, FollowsLineage, ListsNewest,
         DescribesEntity
<1>5. QED
  BY <1>1, <1>2, <1>4 DEF ReadsInv

(* Rows of entities and what they refer to only come.                      *)
LEMMA EntityStep ==
  ASSUME DiskInv, SourcesVisible, disk.observations \subseteq disk'.observations,
         \/ entities' = entities
         \/ \E p : InsertEntity(p)
         \/ \E r : InsertReference(r) \/ InsertRelationship(r)
  PROVE  SourcesVisible' /\ entities.refs \subseteq entities'.refs
<1>1. \A tenant : VisibleTo(disk, tenant) \subseteq VisibleTo(disk', tenant)
  BY VisibleGrows
<1>2. CASE entities' = entities
  BY <1>1, <1>2 DEF SourcesVisible
<1>3. CASE \E p : InsertEntity(p)
  BY <1>1, <1>3 DEF SourcesVisible, InsertEntity
<1>4. ASSUME NEW r, InsertReference(r)
      PROVE  SourcesVisible' /\ entities.refs \subseteq entities'.refs
  <2>1. /\ entities' = [entities EXCEPT !.refs = @ \cup {r}]
        /\ r.source # Absent => \E o \in VisibleTo(disk, r.tenant) : o.id = r.source
    BY <1>4 DEF InsertReference, ReferenceAllowed
  <2>2. /\ entities'.refs = entities.refs \cup {r}
        /\ entities' = [ profiles |-> entities'.profiles, refs |-> entities'.refs,
                         relationships |-> entities'.relationships ]
    BY <2>1 DEF SourcesVisible
  <2>3. QED
    BY <1>1, <2>1, <2>2 DEF SourcesVisible
<1>5. CASE \E r : InsertRelationship(r)
  BY <1>1, <1>5 DEF SourcesVisible, InsertRelationship
<1>6. QED
  BY <1>2, <1>3, <1>4, <1>5

LEMMA NextReads ==
  IInv /\ ReadsInv /\ StoreFacts!IInv' /\ [ReadsNext]_readsVars => ReadsInv'
<1> SUFFICES ASSUME IInv, ReadsInv, StoreFacts!IInv', [ReadsNext]_readsVars PROVE ReadsInv'
  OBVIOUS
<1>0. DiskInv /\ SourcesVisible /\ ReadInv
  BY DEF ReadsInv
<1>1. [Next]_vars
  BY DEF ReadsNext, readsVars, InsertEntity, InsertReference, InsertRelationship, Reads,
         BeginGet, BeginLineage, BeginList, BeginEntity, SelectRow, SelectSubjects,
         SelectReferences, SelectRelationships, Answer
<1>2. DiskInv' /\ disk.observations \subseteq disk'.observations
  BY <1>0, <1>1, DiskStep
<1>3. \/ entities' = entities
      \/ \E p : InsertEntity(p)
      \/ \E r : InsertReference(r) \/ InsertRelationship(r)
  BY DEF ReadsNext, readsVars, Reads, BeginGet, BeginLineage, BeginList, BeginEntity,
         SelectRow, SelectSubjects, SelectReferences, SelectRelationships, Answer
<1>4. SourcesVisible' /\ entities.refs \subseteq entities'.refs
  BY <1>0, <1>2, <1>3, EntityStep
<1>5. ReadInv'
  <2>1. CASE read' = read
    BY <1>0, <1>2, <1>4, <2>1, ReadKeeps
  <2>2. ASSUME NEW id \in Ids, BeginGet(id) PROVE ReadInv'
    BY <1>0, <2>2, BeginGetInv
  <2>3. ASSUME NEW request, NEW id \in Ids, BeginLineage(request, id) PROVE ReadInv'
    BY <1>0, <2>3, BeginLineageInv
  <2>4. ASSUME NEW request, NEW limit \in Limits, BeginList(request, limit) PROVE ReadInv'
    BY <1>0, <2>4, BeginListInv
  <2>5. ASSUME NEW request, NEW entity, BeginEntity(request, entity) PROVE ReadInv'
    BY <1>0, <2>5, BeginEntityInv
  <2>6. CASE SelectRow
    BY <1>0, <2>6, SelectRowInv
  <2>7. CASE SelectSubjects
    BY <1>0, <2>7, SelectSubjectsInv
  <2>8. CASE SelectReferences \/ SelectRelationships
    BY <1>0, <2>8, SelectEntityInv
  <2>9. CASE Answer
    BY <2>9, NothingRead DEF Answer
  <2>10. \/ read' = read
         \/ \E id \in Ids : BeginGet(id)
         \/ \E request, id \in Ids : BeginLineage(request, id)
         \/ \E request : \E id \in Ids : BeginLineage(request, id)
         \/ \E request : \E limit \in Limits : BeginList(request, limit)
         \/ \E request, entity : BeginEntity(request, entity)
         \/ SelectRow \/ SelectSubjects
         \/ SelectReferences \/ SelectRelationships
         \/ Answer
    BY DEF ReadsNext, readsVars, InsertEntity, InsertReference, InsertRelationship
  <2>11. QED
    BY <2>1, <2>2, <2>3, <2>4, <2>5, <2>6, <2>7, <2>8, <2>9, <2>10
<1>6. QED
  BY <1>2, <1>4, <1>5 DEF ReadsInv

LEMMA ReadsInvariant == ReadsSpec => []ReadsInv
<1>1. ReadsSpec => []StoreFacts!IInv
  BY StoreKept
<1>2. ReadsSpec => []IInv
  BY ReadsAreNoAppends, TransactionInvariant, PTL
<1>3. ReadsInit /\ StoreFacts!IInv => ReadsInv
  BY InitReads
<1>4. IInv /\ ReadsInv /\ StoreFacts!IInv' /\ [ReadsNext]_readsVars => ReadsInv'
  BY NextReads
<1>5. QED
  BY <1>1, <1>2, <1>3, <1>4, PTL DEF ReadsSpec

-----------------------------------------------------------------------------
(* What a reader puts together is the observation as it was appended.      *)
LEMMA InvWhole == ReadsInv => ReadsWholeObservation
<1> SUFFICES ASSUME ReadsInv, NEW k \in DOMAIN read.got
             PROVE  read.got[k].subjects = read.got[k].row.subjects
  BY DEF ReadsWholeObservation
<1>1. read.got \in Seq({ Whole(o) : o \in disk.observations })
  BY DEF ReadsInv, ReadInv, Progress
<1>2. read.got[k] \in { Whole(o) : o \in disk.observations }
  BY <1>1
<1>3. QED
  BY <1>2 DEF Whole

(* No commit, rollback or crash between the SELECTs of get_observation     *)
(* gives it a part of an observation, for any writers and readers.         *)
THEOREM WholeObservationsRead == ReadsSpec => []ReadsWholeObservation
BY ReadsInvariant, InvWhole, PTL

LEMMA InvFollowed == ReadsInv => ReferencesCanBeFollowed
<1> SUFFICES ASSUME ReadsInv PROVE ReferencesCanBeFollowed
  OBVIOUS
<1>1. DiskInv /\ SourcesVisible /\ DescribesEntity
  BY DEF ReadsInv, ReadInv
<1>2. read.step = "done" /\ read.asked = "accountability" => read.start \subseteq read.refs
  BY <1>1 DEF DescribesEntity
<1>3. ASSUME NEW r \in read.refs
      PROVE  /\ r.tenant = read.tenant
             /\ r.source # Absent => VisibleLineage(disk, r.source, read.tenant) # << >>
  <2>1. r \in entities.refs /\ r.tenant = read.tenant
    BY <1>1 DEF DescribesEntity
  <2>2. ASSUME r.source # Absent
        PROVE  VisibleLineage(disk, r.source, read.tenant) # << >>
    <3>1. PICK o \in VisibleTo(disk, read.tenant) : o.id = r.source
      BY <1>1, <2>1, <2>2 DEF SourcesVisible
    <3>2. Len(VisibleLineage(disk, r.source, read.tenant)) >= 1
      BY <1>1, <3>1, LineageLeadsBack DEF LeadsBack
    <3>3. QED
      BY <3>2
  <2>3. QED
    BY <2>1, <2>2
<1>4. QED
  BY <1>2, <1>3 DEF ReferencesCanBeFollowed

(* Whatever rows of entities and observations are stored, an observation   *)
(* that an accountability refers to has a lineage its tenant may read.     *)
THEOREM SourcesCanBeFollowed == ReadsSpec => []ReferencesCanBeFollowed
BY ReadsInvariant, InvFollowed, PTL

(* At the end everything found has been fetched.                          *)
LEMMA AllFetched ==
  ASSUME ReadsInv, read.step = "done"
  PROVE  \E n \in Nat :
           /\ n = Len(read.got) /\ n = Len(Found(read))
           /\ \A k \in 1..n : /\ read.got[k].row \in disk.observations
                             /\ Found(read)[k] = read.got[k].row.id
<1>1. /\ read.got \in Seq({ Whole(o) : o \in disk.observations })
      /\ read.todo = << >>
  BY DEF ReadsInv, ReadInv, Progress
<1>2. PICK n \in Nat : n = Len(read.got)
  BY <1>1, EmptySeq
<1>3. \A k \in 1..n : read.got[k].row \in disk.observations
  BY <1>1, <1>2 DEF Whole
<1>4. Found(read) = [k \in 1..n |-> read.got[k].row.id]
  <2>1. Len(read.todo) = 0
    BY <1>1, EmptySeq
  <2>2. Found(read) = [k \in 1..n+0 |-> IF k <= n THEN read.got[k].row.id
                                         ELSE read.todo[k - n]]
    BY <1>2, <2>1 DEF Found
  <2>3. n + 0 = n /\ \A k \in 1..n : k <= n
    OBVIOUS
  <2>4. QED
    BY <2>2, <2>3
<1>5. Len(Found(read)) = n /\ \A k \in 1..n : Found(read)[k] = read.got[k].row.id
  BY <1>4
<1>6. QED
  BY <1>2, <1>3, <1>5

(* At the end of a list the rows are in their places.                      *)
LEMMA NewestAnswered ==
  ASSUME ReadsInv, read.asked = "list", read.step = "done"
  PROVE  LET Row(k) == read.got[k].row
             n == Len(read.got)
             Seen == { Row(k) : k \in 1..n }
         IN  /\ Cardinality(read.start) >= read.limit => n = read.limit
             /\ Cardinality(read.start) < read.limit => Seen = read.start
             /\ \A k \in 1..n-1 : Newer(Row(k), Row(k + 1))
             /\ \A o \in read.start \ Seen, k \in 1..n : Newer(Row(k), o)
<1> DEFINE Row(k) == read.got[k].row
           Seen == { Row(k) : k \in 1..Len(read.got) }
<1>1. /\ read.start \subseteq VisibleTo(disk, read.tenant)
      /\ Listable(read.start) /\ read.limit \in Nat
      /\ IsNewest(Found(read), read.start, read.limit)
  BY DEF ReadsInv, ReadInv, ListsNewest
<1>2. PICK n \in Nat :
        /\ n = Len(read.got) /\ n = Len(Found(read))
        /\ \A k \in 1..n : Row(k) \in disk.observations /\ Found(read)[k] = Row(k).id
  BY AllFetched
<1> HIDE DEF Row
<1>3. Cardinality(read.start) \in Nat
  BY <1>1, FS_CardinalityType DEF Listable
<1>4. n = IF read.limit < Cardinality(read.start) THEN read.limit ELSE Cardinality(read.start)
  BY <1>1, <1>2 DEF IsNewest
<1>5. ASSUME NEW k \in 1..n PROVE Row(k) \in read.start /\ Place(Row(k), read.start) = k - 1
  <2>1. PICK o \in read.start : o.id = Row(k).id /\ Place(o, read.start) = k - 1
    BY <1>1, <1>2 DEF IsNewest
  <2>2. o \in disk.observations
    BY <1>1 DEF VisibleTo
  <2>3. o = Row(k)
    BY <1>2, <2>1, <2>2, StoredRows DEF ReadsInv
  <2>4. QED
    BY <2>1, <2>3
<1>6. ASSUME NEW o \in read.start, Place(o, read.start) < n PROVE o \in Seen
  <2>1. PICK p \in Nat : p = Place(o, read.start)
    BY <1>1, PlaceBound
  <2>2. p + 1 \in 1..n /\ p + 1 - 1 = p
    BY <1>6, <2>1
  <2>3. Row(p + 1) \in read.start /\ Place(Row(p + 1), read.start) = Place(o, read.start)
    BY <1>5, <2>1, <2>2
  <2>4. o = Row(p + 1)
    BY <1>1, <2>3, PlacesDiffer
  <2>5. QED
    BY <1>2, <2>2, <2>4
<1>7. Cardinality(read.start) >= read.limit => n = read.limit
  BY <1>1, <1>3, <1>4
<1>8. ASSUME Cardinality(read.start) < read.limit PROVE Seen = read.start
  <2>1. n = Cardinality(read.start)
    BY <1>1, <1>3, <1>4, <1>8
  <2>2. \A o \in read.start : Place(o, read.start) < n
    BY <1>1, <2>1, PlaceBound
  <2>3. QED
    BY <1>2, <1>5, <1>6, <2>2
<1>9. ASSUME NEW k \in 1..n-1 PROVE Newer(Row(k), Row(k + 1))
  <2>1. k \in 1..n /\ k + 1 \in 1..n /\ k - 1 < k + 1 - 1
    BY <1>2
  <2>2. Place(Row(k), read.start) < Place(Row(k + 1), read.start)
    BY <1>5, <2>1
  <2>3. QED
    BY <1>1, <1>5, <2>1, <2>2, PlacesDiffer
<1>10. ASSUME NEW o \in read.start \ Seen, NEW k \in 1..n PROVE Newer(Row(k), o)
  <2>1. PICK p \in Nat : p = Place(o, read.start)
    BY <1>1, PlaceBound
  <2>2. ~(p < n)
    BY <1>6, <2>1
  <2>3. k - 1 < p
    BY <2>2
  <2>4. Place(Row(k), read.start) < Place(o, read.start)
    BY <1>5, <2>1, <2>3
  <2>5. QED
    BY <1>1, <1>5, <2>4, PlacesDiffer
<1>11. QED
  BY <1>2, <1>7, <1>8, <1>9, <1>10 DEF Row

LEMMA LineageAnswered ==
  ASSUME ReadsInv, read.asked = "lineage", read.step = "done"
  PROVE  LET Row(k) == read.got[k].row
             n == Len(read.got)
         IN  /\ Row(1).id = read.id
             /\ \A k \in 1..n-1 : Row(k).supersedes = Row(k + 1).id
             /\ \A o \in read.start : o.id # Row(n).supersedes
<1> DEFINE Row(k) == read.got[k].row
<1>1. /\ read.start \subseteq VisibleTo(disk, read.tenant)
      /\ LeadsBack(Found(read), read.id, read.start)
  BY DEF ReadsInv, ReadInv, FollowsLineage
<1>2. PICK n \in Nat :
        /\ n = Len(read.got) /\ n = Len(Found(read))
        /\ \A k \in 1..n : Row(k) \in disk.observations /\ Found(read)[k] = Row(k).id
  BY AllFetched
<1> HIDE DEF Row
<1>3. n >= 1
  BY <1>1, <1>2 DEF LeadsBack
<1>4. ASSUME NEW k \in 1..n PROVE Row(k) \in read.start
  <2>1. PICK o \in read.start : o.id = Row(k).id
    BY <1>1, <1>2 DEF LeadsBack
  <2>2. o \in disk.observations
    BY <1>1 DEF VisibleTo
  <2>3. QED
    BY <1>2, <2>1, <2>2, StoredRows DEF ReadsInv
<1>5. Row(1).id = read.id
  BY <1>1, <1>2, <1>3 DEF LeadsBack
<1>6. ASSUME NEW k \in 1..n-1 PROVE Row(k).supersedes = Row(k + 1).id
  <2>1. k \in 1..n /\ k + 1 \in 1..n
    BY <1>2
  <2>2. QED
    BY <1>1, <1>2, <1>4, <2>1 DEF LeadsBack
<1>7. ASSUME NEW o \in read.start PROVE o.id # Row(n).supersedes
  BY <1>1, <1>2, <1>3, <1>4 DEF LeadsBack
<1>8. QED
  BY <1>2, <1>5, <1>6, <1>7 DEF Row

LEMMA OnlyVisible ==
  ASSUME ReadsInv, NEW k \in 1..Len(read.got)
  PROVE  Visible(read.got[k].row, read.tenant)
<1>1. /\ read.got \in Seq({ Whole(o) : o \in disk.observations })
      /\ read.todo \in Seq(Nat)
      /\ read.asked \in Fetches \cup {"profile", "accountability"} \/ read = NoRead
  BY DEF ReadsInv, ReadInv, Progress
<1>2. PICK n \in Nat, m \in Nat : n = Len(read.got) /\ m = Len(read.todo)
  BY <1>1, EmptySeq
<1>3. read.got[k].row \in disk.observations
  BY <1>1 DEF Whole
<1>4. k \in 1..n+m /\ k <= n
  <2>1. k \in 1..n
    BY <1>2
  <2>2. QED
    BY <2>1
<1>5. Found(read)[k] = read.got[k].row.id /\ Len(Found(read)) = n + m
  <2>1. Found(read) = [i \in 1..n+m |-> IF i <= n THEN read.got[i].row.id
                                         ELSE read.todo[i - n]]
    BY <1>2 DEF Found
  <2>2. QED
    BY <1>4, <2>1
<1>6. read.got # << >>
  BY <1>1, EmptySeq
<1>7. read.asked \in Fetches
  BY <1>1, <1>6 DEF ReadsInv, ReadInv, DescribesEntity, NoRead
<1>8. CASE read.asked = "get"
  BY <1>8 DEF ReadsInv, ReadInv, GetsOne, Visible
<1>9. ASSUME NEW o \in read.start, read.start \subseteq VisibleTo(disk, read.tenant),
             o.id = Found(read)[k]
      PROVE  Visible(read.got[k].row, read.tenant)
  <2>1. o \in disk.observations /\ Visible(o, read.tenant)
    BY <1>9 DEF VisibleTo
  <2>2. o = read.got[k].row
    BY <1>3, <1>5, <1>9, <2>1, StoredRows DEF ReadsInv
  <2>3. QED
    BY <2>1, <2>2
<1>10. CASE read.asked = "lineage"
  <2>1. /\ read.start \subseteq VisibleTo(disk, read.tenant)
        /\ LeadsBack(Found(read), read.id, read.start)
    BY <1>6, <1>10 DEF ReadsInv, ReadInv, FollowsLineage
  <2>2. QED
    BY <1>4, <1>5, <1>9, <2>1 DEF LeadsBack
<1>11. CASE read.asked = "list"
  <2>1. /\ read.start \subseteq VisibleTo(disk, read.tenant)
        /\ IsNewest(Found(read), read.start, read.limit)
    BY <1>11 DEF ReadsInv, ReadInv, ListsNewest
  <2>2. QED
    BY <1>4, <1>5, <1>9, <2>1 DEF IsNewest
<1>12. QED
  BY <1>7, <1>8, <1>10, <1>11 DEF Fetches

LEMMA InvHistory == ReadsInv => AnswersAreTheHistory
<1> SUFFICES ASSUME ReadsInv PROVE AnswersAreTheHistory
  OBVIOUS
<1>1. \A k \in 1..Len(read.got) : Visible(read.got[k].row, read.tenant)
  BY OnlyVisible
<1>2. ASSUME read.step = "failed"
      PROVE  /\ read.asked # "list"
             /\ read.asked \in {"get", "lineage"} => \A o \in read.start : o.id # read.id
  BY <1>2 DEF ReadsInv, ReadInv, GetsOne, FollowsLineage, ListsNewest
<1>3. QED
  BY <1>1, <1>2, LineageAnswered, NewestAnswered DEF AnswersAreTheHistory

(* Whatever is appended while a tenant's answer is put together, the       *)
(* answer is the history of the moment it asked: the whole lineage, the    *)
(* newest observations in their order, and nothing of another tenant.      *)
THEOREM AnswersOfTheMoment == ReadsSpec => []AnswersAreTheHistory
BY ReadsInvariant, InvHistory, PTL
=============================================================================
