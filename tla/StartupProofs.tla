---------------------------- MODULE StartupProofs ----------------------------
(***************************************************************************)
(* SchemaIsRecorded and UnversionedIsRefused for any number of processes,  *)
(* migrations, deaths and replaced files.  The argument: only a process    *)
(* that holds the write lock is about to commit; its version is not among  *)
(* the tables, and every version below it is, so that a commit adds the    *)
(* next version and nothing else.  A database without a ledger keeps every *)
(* process at its first three statements.  And ChainsAsConfigured for any  *)
(* files: a manifest and a configuration are read together and forgotten   *)
(* together, and the endpoint that is asked is one of the file's, however  *)
(* many it has and whatever their priorities.                              *)
(***************************************************************************)
EXTENDS Startup, TLAPS

Reading == {"off", "ledger", "count", "look"}

AfterOpen == {"open", "admitted", "serving"}

SchemaType ==
  /\ tables \in SUBSET (1..Newest)
  /\ ledger \in (SUBSET (1..Newest)) \cup {NoLedger}
  /\ lock \in Process \cup {Nobody}
  /\ pc \in [Process -> Steps \cup AfterOpen]
  /\ applied \in [Process -> SUBSET (1..Newest)]
  /\ version \in [Process -> Nat]

NoGap(S) == \E v \in 0..Newest : S = 1..v

\* What a process in its loop, or past it, may rely on.
Progress(p) ==
  /\ pc[p] \in {"check", "apply", "commit"} =>
       /\ version[p] \in 1..(Latest + 1)
       /\ 1..(version[p] - 1) \subseteq tables
  /\ pc[p] \in {"apply", "commit"} => version[p] <= Latest
  /\ pc[p] = "commit" => lock = p /\ version[p] \notin tables
  /\ pc[p] \in AfterOpen => 1..Latest \subseteq tables

Versioned ==
  ~Unversioned => tables = Recorded /\ NoGap(tables)

Refusing ==
  Unversioned =>
    /\ 1 \in tables /\ tables = found.tables /\ Recorded = {}
    /\ \A p \in Process : pc[p] \in Reading /\ applied[p] = {}

IInv ==
  /\ SchemaType
  /\ Versioned
  /\ Refusing
  /\ \A p \in Process : Progress(p)

-----------------------------------------------------------------------------
LEMMA InitIInv ==
  ASSUME MigrationsAssumption, Init
  PROVE  IInv
<1>1. PICK v \in 0..Newest : tables = 1..v
  BY DEF Init, MigrationsInit
<1>2. SchemaType
  <2>1. tables \in SUBSET (1..Newest) /\ ledger \in (SUBSET (1..Newest)) \cup {NoLedger}
    <3>1. 1..v \subseteq 1..Newest /\ ledger \in {NoLedger, tables}
      BY DEF Init, MigrationsInit
    <3>2. tables \in SUBSET (1..Newest)
      BY <1>1, <3>1
    <3>. QED
      BY <3>1, <3>2
  <2>2. /\ lock = Nobody /\ pc = [p \in Process |-> "off"]
        /\ applied = [p \in Process |-> {}] /\ version = [p \in Process |-> 0]
    BY DEF Init, MigrationsInit
  <2>. QED
    BY <2>1, <2>2 DEF SchemaType, Steps
<1>3. Versioned
  BY <1>1 DEF Init, MigrationsInit, Versioned, Unversioned, Recorded, NoGap
<1>4. Refusing
  <2>. SUFFICES ASSUME Unversioned PROVE Refusing
    BY DEF Refusing
  <2>1. 1 \in tables /\ tables = found.tables /\ ledger = NoLedger
    BY <1>1 DEF Init, MigrationsInit, MigrationsAssumption, Unversioned
  <2>. QED
    BY <2>1 DEF Init, MigrationsInit, Refusing, Recorded, Reading
<1>5. \A p \in Process : Progress(p)
  BY DEF Init, MigrationsInit, Progress, AfterOpen
<1>. QED
  BY <1>2, <1>3, <1>4, <1>5 DEF IInv

\* A step that leaves the schema alone, moves one process, and keeps what that
\* process relies on.
Moves(p, step) ==
  /\ tables' = tables /\ found' = found /\ Recorded' = Recorded
  /\ ledger' \in (SUBSET (1..Newest)) \cup {NoLedger}
  /\ \/ lock' = lock
     \/ lock = p /\ lock' = Nobody
     \/ lock = Nobody /\ lock' = p
  /\ pc' = [pc EXCEPT ![p] = step]
  /\ applied' \in [Process -> SUBSET (1..Newest)]
  /\ version' \in [Process -> Nat]
  /\ \A q \in Process \ {p} : applied'[q] = applied[q] /\ version'[q] = version[q]
  /\ Unversioned => step \in Reading /\ applied'[p] = {}

LEMMA MoveIInv ==
  ASSUME MigrationsAssumption, IInv, NEW p \in Process,
         NEW step \in Steps \cup AfterOpen, Moves(p, step), Progress(p)'
  PROVE  IInv'
<1>1. SchemaType'
  BY DEF IInv, SchemaType, Moves
<1>2. Versioned'
  BY DEF IInv, Versioned, Unversioned, NoGap, Moves
<1>3. Refusing'
  <2>. SUFFICES ASSUME Unversioned PROVE Refusing'
    BY DEF Refusing, Unversioned, Moves
  <2>1. \A q \in Process : pc'[q] \in Reading /\ applied'[q] = {}
    BY DEF IInv, Refusing, SchemaType, Moves
  <2>. QED
    BY <2>1 DEF IInv, Refusing, Moves
<1>4. ASSUME NEW q \in Process \ {p} PROVE Progress(q)'
  <2>1. pc'[q] = pc[q] /\ version'[q] = version[q] /\ tables' = tables
    BY DEF IInv, SchemaType, Moves
  <2>2. lock = q => lock' = q
    BY DEF MigrationsAssumption, Moves
  <2>. QED
    BY <2>1, <2>2 DEF IInv, Progress
<1>. QED
  BY <1>1, <1>2, <1>3, <1>4 DEF IInv

LEMMA ExitIInv ==
  ASSUME MigrationsAssumption, IInv, NEW p \in Process, Exit(p)
  PROVE  IInv'
<1>1. Progress(p)'
  BY DEF Exit, Goto, IInv, SchemaType, Progress, AfterOpen
<1>2. Moves(p, "off")
  <2>1. Recorded' = Recorded /\ ledger' \in (SUBSET (1..Newest)) \cup {NoLedger}
    BY DEF Exit, Recorded, IInv, SchemaType
  <2>2. /\ applied' \in [Process -> SUBSET (1..Newest)] /\ applied'[p] = {}
        /\ version' \in [Process -> Nat]
        /\ \A q \in Process \ {p} :
             applied'[q] = applied[q] /\ version'[q] = version[q]
    BY DEF Exit, IInv, SchemaType
  <2>. QED
    BY <2>1, <2>2 DEF Exit, Goto, Moves, Reading
<1>. QED
  BY <1>1, <1>2, MoveIInv DEF Steps

\* The first statements, which read and make sure there is a ledger.
LEMMA ReadIInv ==
  ASSUME MigrationsAssumption, IInv, NEW p \in Process,
         InitPool(p) \/ CreateLedger(p) \/ CountApplied(p)
  PROVE  IInv'
<1>. DEFINE step == IF pc[p] = "off" THEN "ledger"
                    ELSE IF pc[p] = "ledger" THEN "count" ELSE "look"
<1>1. /\ step \in Steps /\ step \in Reading
      /\ pc' = [pc EXCEPT ![p] = step]
      /\ tables' = tables /\ found' = found /\ lock' = lock /\ version' = version
  <2>1. CASE InitPool(p)
    BY <2>1 DEF InitPool, Goto, Steps, Reading, database
  <2>2. CASE CreateLedger(p)
    BY <2>2 DEF CreateLedger, Goto, Steps, Reading
  <2>3. CASE CountApplied(p)
    BY <2>3 DEF CountApplied, Goto, Steps, Reading, database
  <2>. QED
    BY <2>1, <2>2, <2>3
<1>2. Recorded \in SUBSET (1..Newest)
  <2>1. CASE ledger = NoLedger
    BY <2>1 DEF Recorded
  <2>2. CASE ledger # NoLedger
    BY <2>2 DEF Recorded, IInv, SchemaType
  <2>. QED
    BY <2>1, <2>2
<1>3. Recorded' = Recorded /\ ledger' \in (SUBSET (1..Newest)) \cup {NoLedger}
  <2>1. CASE CreateLedger(p)
    <3>1. ledger' = Recorded
      BY <2>1 DEF CreateLedger
    <3>2. Recorded' = ledger'
      BY <1>2, <3>1 DEF Recorded, MigrationsAssumption
    <3>. QED
      BY <1>2, <3>1, <3>2
  <2>2. CASE InitPool(p) \/ CountApplied(p)
    BY <2>2 DEF InitPool, CountApplied, database, Recorded, IInv, SchemaType
  <2>. QED
    BY <2>1, <2>2
<1>4. /\ applied' \in [Process -> SUBSET (1..Newest)]
      /\ \A q \in Process \ {p} : applied'[q] = applied[q]
      /\ Unversioned => applied'[p] = {}
  <2>1. CASE InitPool(p) \/ CreateLedger(p)
    BY <2>1 DEF InitPool, CreateLedger, IInv, SchemaType, Refusing
  <2>2. CASE CountApplied(p)
    BY <1>2, <2>2 DEF CountApplied, IInv, SchemaType, Refusing
  <2>. QED
    BY <2>1, <2>2
<1>5. Progress(p)'
  <2>1. pc'[p] = step
    BY <1>1 DEF IInv, SchemaType
  <2>. QED
    BY <2>1 DEF Progress, AfterOpen
<1>6. Moves(p, step)
  BY <1>1, <1>3, <1>4 DEF Moves, IInv, SchemaType
<1>. QED
  BY <1>1, <1>5, <1>6, MoveIInv

LEMMA LookIInv ==
  ASSUME MigrationsAssumption, IInv, NEW p \in Process, LookForTables(p)
  PROVE  IInv'
<1>1. CASE Exit(p)
  BY <1>1, ExitIInv
<1>2. CASE ~Exit(p)
  <2>1. /\ ~(applied[p] = {} /\ 1 \in tables)
        /\ pc' = [pc EXCEPT ![p] = "check"]
        /\ version' = [version EXCEPT ![p] = 1]
        /\ UNCHANGED <<tables, ledger, lock, found, applied>>
    BY <1>2 DEF LookForTables, Goto, database
  <2>2. ~Unversioned
    BY <2>1 DEF IInv, Refusing
  <2>3. pc'[p] = "check" /\ version'[p] = 1
    BY <2>1 DEF IInv, SchemaType
  <2>4. 1 \in 1..(Latest + 1) /\ 1..(1 - 1) \subseteq tables
    BY DEF MigrationsAssumption
  <2>5. Progress(p)'
    BY <2>3, <2>4 DEF Progress, AfterOpen
  <2>6. Recorded' = Recorded /\ "check" \in Steps
    BY <2>1 DEF Recorded, Steps
  <2>7. /\ applied' \in [Process -> SUBSET (1..Newest)] /\ version' \in [Process -> Nat]
        /\ ledger' \in (SUBSET (1..Newest)) \cup {NoLedger}
        /\ \A q \in Process \ {p} : version'[q] = version[q]
    BY <2>1 DEF IInv, SchemaType
  <2>8. Moves(p, "check")
    BY <2>1, <2>2, <2>6, <2>7 DEF Moves
  <2>. QED
    BY <2>5, <2>6, <2>8, MoveIInv
<1>. QED
  BY <1>1, <1>2

LEMMA CheckIInv ==
  ASSUME MigrationsAssumption, IInv, NEW p \in Process, CheckVersion(p)
  PROVE  IInv'
<1>1. /\ pc[p] = "check" /\ ~Unversioned /\ version[p] \in 1..(Latest + 1)
      /\ 1..(version[p] - 1) \subseteq tables /\ tables = Recorded
      /\ Latest \in Nat
  BY DEF CheckVersion, IInv, Refusing, Versioned, Progress, Reading,
         MigrationsAssumption
<1>2. UNCHANGED <<tables, ledger, lock, found, applied>> /\ Recorded' = Recorded
  BY DEF CheckVersion, database, Recorded
<1>3. /\ applied' \in [Process -> SUBSET (1..Newest)]
      /\ ledger' \in (SUBSET (1..Newest)) \cup {NoLedger}
  BY <1>2 DEF IInv, SchemaType
<1>4. CASE version[p] > Latest
  <2>1. pc' = [pc EXCEPT ![p] = "open"] /\ version' = version
    BY <1>1, <1>4 DEF CheckVersion, Goto, IInv, SchemaType
  <2>2. pc'[p] = "open" /\ 1..Latest \subseteq tables
    BY <1>1, <1>4, <2>1 DEF IInv, SchemaType
  <2>3. Progress(p)' /\ "open" \in AfterOpen
    BY <1>2, <2>2 DEF Progress, AfterOpen
  <2>4. version' \in [Process -> Nat]
    BY <2>1 DEF IInv, SchemaType
  <2>5. Moves(p, "open")
    BY <1>1, <1>2, <1>3, <2>1, <2>4 DEF Moves
  <2>. QED
    BY <2>3, <2>5, MoveIInv
<1>5. CASE version[p] <= Latest /\ version[p] \in Recorded
  <2>1. pc' = [pc EXCEPT ![p] = "check"] /\ version' = [version EXCEPT ![p] = @ + 1]
    BY <1>1, <1>5 DEF CheckVersion, IInv, SchemaType
  <2>2. /\ pc'[p] = "check" /\ version'[p] = version[p] + 1
        /\ version' \in [Process -> Nat]
        /\ \A q \in Process \ {p} : version'[q] = version[q]
    BY <2>1 DEF IInv, SchemaType
  <2>3. version'[p] \in 1..(Latest + 1) /\ 1..(version'[p] - 1) \subseteq tables
    BY <1>1, <1>5, <2>2
  <2>4. Progress(p)' /\ "check" \in Steps
    BY <1>2, <2>2, <2>3 DEF Progress, AfterOpen, Steps
  <2>5. Moves(p, "check")
    BY <1>1, <1>2, <1>3, <2>1, <2>2 DEF Moves
  <2>. QED
    BY <2>4, <2>5, MoveIInv
<1>6. CASE version[p] <= Latest /\ version[p] \notin Recorded
  <2>1. pc' = [pc EXCEPT ![p] = "apply"] /\ version' = version
    BY <1>1, <1>6 DEF CheckVersion, Goto
  <2>2. pc'[p] = "apply" /\ version' \in [Process -> Nat]
    BY <2>1 DEF IInv, SchemaType
  <2>3. Progress(p)' /\ "apply" \in Steps
    BY <1>1, <1>2, <1>6, <2>1, <2>2 DEF Progress, AfterOpen, Steps
  <2>4. Moves(p, "apply")
    BY <1>1, <1>2, <1>3, <2>1, <2>2 DEF Moves
  <2>. QED
    BY <2>3, <2>4, MoveIInv
<1>. QED
  BY <1>1, <1>4, <1>5, <1>6

LEMMA ApplyIInv ==
  ASSUME MigrationsAssumption, IInv, NEW p \in Process, ApplyMigration(p)
  PROVE  IInv'
<1>1. CASE Exit(p)
  BY <1>1, ExitIInv
<1>2. CASE ~Exit(p)
  <2>1. /\ pc[p] = "apply" /\ version[p] \notin tables
        /\ lock = Nobody /\ lock' = p
        /\ pc' = [pc EXCEPT ![p] = "commit"]
        /\ UNCHANGED <<tables, ledger, found, applied, version>>
    BY <1>2 DEF ApplyMigration, Goto
  <2>2. ~Unversioned
    BY <2>1 DEF IInv, Refusing, Reading
  <2>3. pc'[p] = "commit" /\ "commit" \in Steps
    BY <2>1 DEF IInv, SchemaType, Steps
  <2>4. Progress(p)'
    BY <2>1, <2>3 DEF IInv, Progress, AfterOpen
  <2>5. /\ applied' \in [Process -> SUBSET (1..Newest)] /\ version' \in [Process -> Nat]
        /\ ledger' \in (SUBSET (1..Newest)) \cup {NoLedger} /\ Recorded' = Recorded
    BY <2>1 DEF IInv, SchemaType, Recorded
  <2>6. Moves(p, "commit")
    BY <2>1, <2>2, <2>5 DEF Moves
  <2>. QED
    BY <2>3, <2>4, <2>6, MoveIInv
<1>. QED
  BY <1>1, <1>2

\* The one step that changes the schema adds the next version.
LEMMA CommitIInv ==
  ASSUME MigrationsAssumption, IInv, NEW p \in Process, CommitMigration(p)
  PROVE  IInv'
<1>1. /\ pc[p] = "commit" /\ lock = p /\ version[p] \notin tables
      /\ version[p] \in 1..(Latest + 1) /\ version[p] <= Latest
      /\ 1..(version[p] - 1) \subseteq tables
  BY DEF CommitMigration, IInv, Progress
<1>2. ~Unversioned /\ ~Unversioned'
  BY <1>1 DEF CommitMigration, IInv, Refusing, Reading, Unversioned
<1>3. tables = 1..(version[p] - 1) /\ Recorded = tables
  <2>1. PICK v \in 0..Newest : tables = 1..v
    BY <1>2 DEF IInv, Versioned, NoGap
  <2>2. v = version[p] - 1
    <3>1. ~(version[p] <= v)
      BY <1>1, <2>1
    <3>2. version[p] - 1 <= v
      <4>1. CASE version[p] = 1
        BY <4>1
      <4>2. CASE version[p] # 1
        <5>1. version[p] - 1 \in 1..(version[p] - 1)
          BY <1>1, <4>2
        <5>. QED
          BY <1>1, <2>1, <5>1
      <4>. QED
        BY <4>1, <4>2
    <3>. QED
      BY <1>1, <3>1, <3>2
  <2>. QED
    BY <1>2, <2>1, <2>2 DEF IInv, Versioned
<1>4. /\ tables' = 1..version[p] /\ ledger' = tables'
      /\ version[p] \in 0..Newest
  BY <1>1, <1>3 DEF CommitMigration, MigrationsAssumption
<1>5. SchemaType'
  <2>1. ledger' \in SUBSET (1..Newest) /\ tables' \in SUBSET (1..Newest)
    BY <1>4
  <2>2. pc' \in [Process -> Steps \cup AfterOpen]
    BY DEF CommitMigration, Goto, IInv, SchemaType, Steps
  <2>3. /\ applied' \in [Process -> SUBSET (1..Newest)] /\ version' \in [Process -> Nat]
        /\ lock' \in Process \cup {Nobody}
    BY DEF CommitMigration, IInv, SchemaType
  <2>. QED
    BY <2>1, <2>2, <2>3 DEF SchemaType
<1>6. Versioned'
  <2>1. Recorded' = tables'
    BY <1>4 DEF Recorded, MigrationsAssumption
  <2>. QED
    BY <1>4, <2>1 DEF Versioned, NoGap
<1>7. Refusing'
  BY <1>2 DEF Refusing
<1>8. ASSUME NEW q \in Process PROVE Progress(q)'
  <2>1. tables \subseteq tables'
    BY DEF CommitMigration
  <2>2. CASE q = p
    <3>1. pc'[p] = "check" /\ version'[p] = version[p] + 1
      BY DEF CommitMigration, Goto, IInv, SchemaType
    <3>2. version'[p] \in 1..(Latest + 1) /\ 1..(version'[p] - 1) \subseteq tables'
      BY <1>1, <1>4, <3>1 DEF MigrationsAssumption
    <3>. QED
      BY <2>2, <3>1, <3>2 DEF Progress, AfterOpen
  <2>3. CASE q # p
    <3>1. pc'[q] = pc[q] /\ version'[q] = version[q] /\ pc[q] # "commit"
      BY <1>1, <2>3 DEF CommitMigration, Goto, IInv, SchemaType, Progress
    <3>. QED
      BY <2>1, <3>1 DEF IInv, Progress
  <2>. QED
    BY <2>2, <2>3
<1>. QED
  BY <1>5, <1>6, <1>7, <1>8 DEF IInv

\* The steps after the database is open.
LEMMA ServeIInv ==
  ASSUME MigrationsAssumption, IInv, NEW p \in Process, Serve(p)
  PROVE  IInv'
<1>1. CASE Exit(p)
  BY <1>1, ExitIInv
<1>2. CASE ~Exit(p)
  <2>1. pc[p] \in AfterOpen
    BY DEF Serve, ServeApi, Ingest, CheckManifest, StartTasks, RunCommand,
           AfterOpen
  <2>2. PICK step \in AfterOpen : Advance(p, step)
    BY <1>2 DEF Serve, ServeApi, Ingest, CheckManifest, StartTasks, RunCommand,
                GiveUp, AfterOpen
  <2>3. /\ pc' = [pc EXCEPT ![p] = step]
        /\ UNCHANGED <<tables, ledger, lock, found, applied, version>>
    BY <2>2 DEF Advance, Goto, database
  <2>4. ~Unversioned
    BY <2>1 DEF IInv, Refusing, Reading, AfterOpen
  <2>5. Progress(p)'
    <3>1. pc'[p] = step
      BY <2>3 DEF IInv, SchemaType
    <3>2. 1..Latest \subseteq tables'
      BY <2>1, <2>3 DEF IInv, Progress
    <3>. QED
      BY <3>1, <3>2 DEF Progress, AfterOpen
  <2>6. /\ applied' \in [Process -> SUBSET (1..Newest)] /\ version' \in [Process -> Nat]
        /\ ledger' \in (SUBSET (1..Newest)) \cup {NoLedger} /\ Recorded' = Recorded
    BY <2>3 DEF IInv, SchemaType, Recorded
  <2>7. Moves(p, step)
    BY <2>3, <2>4, <2>6 DEF Moves
  <2>. QED
    BY <2>5, <2>7, MoveIInv
<1>. QED
  BY <1>1, <1>2

LEMMA NextIInv ==
  ASSUME MigrationsAssumption, IInv, [Next]_vars
  PROVE  IInv'
<1>1. CASE UNCHANGED schemaVars
  BY <1>1 DEF schemaVars, database, IInv, SchemaType, Versioned, Refusing,
              Progress, Recorded, Unversioned, NoGap
<1>2. ASSUME NEW p \in Process, Launch(p) PROVE IInv'
  BY <1>2, ReadIInv DEF Launch
<1>3. ASSUME NEW p \in Process, OpenDatabase(p) PROVE IInv'
  BY <1>3, ReadIInv, LookIInv, CheckIInv, ApplyIInv, CommitIInv
     DEF OpenDatabase, Open
<1>4. ASSUME NEW p \in Process, Serve(p) PROVE IInv'
  BY <1>4, ServeIInv
<1>5. ASSUME NEW p \in Process, Crash(p) PROVE IInv'
  BY <1>5, ExitIInv DEF Crash, Die
<1>6. CASE Edit
  BY <1>1, <1>6 DEF Edit
<1>7. CASE UNCHANGED vars
  BY <1>1, <1>7 DEF vars
<1>. QED
  BY <1>2, <1>3, <1>4, <1>5, <1>6, <1>7 DEF Next

LEMMA Invariance == Spec => []IInv
<1>1. Init => IInv
  BY MigrationsAssumption, InitIInv
<1>2. IInv /\ [Next]_vars => IInv'
  BY MigrationsAssumption, NextIInv
<1>. QED
  BY <1>1, <1>2, PTL DEF Spec

\* The ledger is the schema, for any number of processes and migrations, and a
\* process that has opened the database finds all it needs.
THEOREM RecordedSchema == Spec => []SchemaIsRecorded
<1>1. IInv => SchemaIsRecorded
  <2>. SUFFICES ASSUME IInv PROVE SchemaIsRecorded
    OBVIOUS
  <2>1. ~Unversioned => tables = Recorded /\ \E v \in 0..Newest : tables = 1..v
    BY DEF IInv, Versioned, NoGap
  <2>2. \A p \in Process : HasOpened(p) => 1..Latest \subseteq tables
    BY DEF IInv, SchemaType, Progress, HasOpened
  <2>. QED
    BY <2>1, <2>2 DEF SchemaIsRecorded
<1>. QED
  BY <1>1, Invariance, PTL

\* A database without a ledger is never used and never changed, however often
\* refused processes are started again.
THEOREM RefusedDatabase == Spec => []UnversionedIsRefused
<1>1. IInv => UnversionedIsRefused
  BY DEF IInv, Refusing, UnversionedIsRefused, HasOpened, Reading, Steps
<1>. QED
  BY <1>1, Invariance, PTL

-----------------------------------------------------------------------------
\* A chain that a manifest admits has an indexer, and bitcoin is none.
LEMMA AdmittedIsBuiltIn ==
  ASSUME NEW chains, NEW m, ChainsAdmitted(chains, m), NEW c \in Enabled(chains)
  PROVE  /\ c \in BuiltIn /\ c # "bitcoin"
         /\ m.deployments[c].network = chains[c].network
         /\ m.signature \notin {Absent, ""}
BY DEF ChainsAdmitted, Admitted, HasIdentifier, BuiltIn

-----------------------------------------------------------------------------
\* What a process that has been admitted, or serves, has to go by.
Started(p) ==
  /\ pc[p] # "serving" => tasks[p] = NoTasks
  /\ role[p] = "start" /\ pc[p] \in {"admitted", "serving"} =>
       ChainsAdmitted(settings[p].chains, manifest[p])
  /\ role[p] = "start" /\ pc[p] = "serving" =>
       tasks[p] = Spawned(settings[p].chains)

FilesInv ==
  /\ DOMAIN settings = Process /\ DOMAIN manifest = Process /\ DOMAIN tasks = Process
  /\ \A p \in Process : Started(p)

LEMMA InitFilesInv ==
  ASSUME StartupAssumption, Init
  PROVE  FilesInv
BY DEF Init, MigrationsInit, StartupAssumption, FilesInv, Started

\* A step of one process, after which it is in order.
LEMMA StepFilesInv ==
  ASSUME IInv, FilesInv, NEW p \in Process, NEW step,
         pc' = [pc EXCEPT ![p] = step], UNCHANGED fileVars,
         DOMAIN settings' = Process, DOMAIN manifest' = Process, DOMAIN tasks' = Process,
         \A q \in Process \ {p} :
           settings'[q] = settings[q] /\ manifest'[q] = manifest[q] /\ tasks'[q] = tasks[q],
         Started(p)'
  PROVE  FilesInv'
<1>1. ASSUME NEW q \in Process \ {p} PROVE Started(q)'
  <2>1. pc'[q] = pc[q] /\ role' = role
    BY DEF IInv, SchemaType, fileVars
  <2>. QED
    BY <2>1 DEF FilesInv, Started
<1>. QED
  BY <1>1 DEF FilesInv, fileVars

LEMMA ForgetFilesInv ==
  ASSUME IInv, FilesInv, NEW p \in Process, Goto(p, "off"), Forget(p), UNCHANGED fileVars
  PROVE  FilesInv'
<1>1. pc'[p] = "off" /\ tasks'[p] = NoTasks
  BY DEF Goto, Forget, IInv, SchemaType, FilesInv
<1>2. Started(p)'
  BY <1>1 DEF Started
<1>. QED
  BY <1>2, StepFilesInv DEF Goto, Forget, FilesInv

LEMMA OpenFilesInv ==
  ASSUME IInv, FilesInv, NEW p \in Process, OpenDatabase(p)
  PROVE  FilesInv'
<1>1. PICK step \in {"off", "count", "look", "check", "apply", "commit", "open"} :
        Goto(p, step)
  <2>1. CASE CheckVersion(p)
    <3>1. pc[p] = "check" /\ pc = [pc EXCEPT ![p] = pc[p]]
      BY <2>1 DEF CheckVersion, IInv, SchemaType
    <3>. QED
      BY <2>1, <3>1 DEF CheckVersion, Goto
  <2>2. CASE ~CheckVersion(p)
    BY <2>2 DEF OpenDatabase, Open, CreateLedger, CountApplied, LookForTables,
                ApplyMigration, CommitMigration, Exit, Goto
  <2>. QED
    BY <2>1, <2>2
<1>2. pc'[p] = step /\ pc[p] # "serving"
  BY <1>1 DEF Goto, IInv, SchemaType, OpenDatabase, Open, CreateLedger, CountApplied,
              LookForTables, CheckVersion, ApplyMigration, CommitMigration
<1>3. CASE step = "off"
  BY <1>1, <1>2, <1>3, ForgetFilesInv DEF OpenDatabase, ForgetIfOff
<1>4. CASE step # "off"
  <2>1. UNCHANGED processVars /\ UNCHANGED fileVars
    BY <1>2, <1>4 DEF OpenDatabase, ForgetIfOff
  <2>2. Started(p)'
    BY <1>2, <2>1 DEF Started, FilesInv, processVars
  <2>. QED
    BY <1>1, <2>1, <2>2, StepFilesInv DEF Goto, FilesInv, processVars
<1>. QED
  BY <1>3, <1>4

LEMMA ServeFilesInv ==
  ASSUME IInv, FilesInv, NEW p \in Process, Serve(p)
  PROVE  FilesInv'
<1>1. CASE GiveUp(p)
  BY <1>1, ForgetFilesInv DEF GiveUp, Exit
<1>2. CASE (ServeApi(p) \/ Ingest(p)) /\ ~GiveUp(p)
  <2>1. /\ pc' = [pc EXCEPT ![p] = "serving"]
        /\ UNCHANGED fileVars /\ UNCHANGED processVars
        /\ pc[p] = "open" /\ role[p] # "start"
    BY <1>2 DEF ServeApi, Ingest, Advance, Goto
  <2>2. Started(p)'
    BY <2>1 DEF Started, fileVars, IInv, SchemaType
  <2>. QED
    BY <2>1, <2>2, StepFilesInv DEF FilesInv, processVars
<1>3. CASE CheckManifest(p) /\ ~GiveUp(p)
  <2>1. /\ ChainsAdmitted(settings[p].chains, files.manifest)
        /\ pc[p] = "open"
        /\ pc' = [pc EXCEPT ![p] = "admitted"] /\ UNCHANGED fileVars
        /\ manifest' = [manifest EXCEPT ![p] = files.manifest]
        /\ UNCHANGED <<settings, tasks>>
    BY <1>3 DEF CheckManifest, Advance, Goto
  <2>2. pc'[p] = "admitted" /\ manifest'[p] = files.manifest /\ tasks'[p] = NoTasks
    BY <2>1 DEF FilesInv, Started, IInv, SchemaType
  <2>3. Started(p)'
    BY <2>1, <2>2 DEF Started
  <2>. QED
    BY <2>1, <2>3, StepFilesInv DEF FilesInv
<1>4. CASE StartTasks(p) /\ ~GiveUp(p)
  <2>1. /\ pc[p] = "admitted" /\ role[p] = "start"
        /\ pc' = [pc EXCEPT ![p] = "serving"] /\ UNCHANGED fileVars
        /\ tasks' = [tasks EXCEPT ![p] = Spawned(settings[p].chains)]
        /\ UNCHANGED <<settings, manifest>>
    BY <1>4 DEF StartTasks, Advance, Goto
  <2>2. pc'[p] = "serving" /\ tasks'[p] = Spawned(settings[p].chains)
    BY <2>1 DEF FilesInv, IInv, SchemaType
  <2>3. Started(p)'
    BY <2>1, <2>2 DEF Started, FilesInv
  <2>. QED
    BY <2>1, <2>3, StepFilesInv DEF FilesInv
<1>. QED
  BY <1>1, <1>2, <1>3, <1>4 DEF Serve, RunCommand

LEMMA NextFilesInv ==
  ASSUME IInv, FilesInv, [Next]_vars
  PROVE  FilesInv'
<1>1. CASE Edit
  BY <1>1 DEF Edit, schemaVars, processVars, FilesInv, Started
<1>2. ASSUME NEW p \in Process, Launch(p) PROVE FilesInv'
  <2>1. /\ pc[p] = "off" /\ pc' = [pc EXCEPT ![p] = "ledger"]
        /\ UNCHANGED <<fileVars, manifest, tasks>>
        /\ DOMAIN settings' = DOMAIN settings
        /\ \A q \in Process \ {p} : settings'[q] = settings[q]
    BY <1>2 DEF Launch, InitPool, Goto, FilesInv
  <2>2. Started(p)'
    BY <2>1 DEF Started, FilesInv, IInv, SchemaType
  <2>. QED
    BY <2>1, <2>2, StepFilesInv DEF FilesInv
<1>3. ASSUME NEW p \in Process, Crash(p) PROVE FilesInv'
  BY <1>3, ForgetFilesInv DEF Crash, Die, Exit
<1>4. CASE UNCHANGED vars
  BY <1>4 DEF vars, schemaVars, fileVars, processVars, FilesInv, Started
<1>. QED
  BY <1>1, <1>2, <1>3, <1>4, OpenFilesInv, ServeFilesInv DEF Next

\* The tasks of a daemon are for exactly the chains that are enabled in the
\* configuration it loaded, each on the network that its signed manifest has for
\* it, whatever the files say and whenever they are replaced.
THEOREM StartsAsConfigured == Spec => []ChainsAsConfigured
<1>1. Spec => []FilesInv
  <2>1. Init => FilesInv
    BY StartupAssumption, InitFilesInv
  <2>2. IInv /\ FilesInv /\ [Next]_vars => FilesInv'
    BY NextFilesInv
  <2>. QED
    BY <2>1, <2>2, Invariance, PTL DEF Spec
<1>2. FilesInv => ChainsAsConfigured
  <2>. SUFFICES ASSUME FilesInv, NEW p \in Process, pc[p] = "serving", role[p] = "start"
                PROVE  LET chains == settings[p].chains IN
                       /\ \A c \in DOMAIN chains :
                            chains[c].enabled <=> c \in DOMAIN tasks[p]
                       /\ "bitcoin" \notin DOMAIN tasks[p]
                       /\ \A c \in DOMAIN tasks[p] :
                            /\ tasks[p][c] = chains[c].network
                            /\ manifest[p].deployments[c].network = chains[c].network
                            /\ manifest[p].signature \notin {Absent, ""}
    BY DEF ChainsAsConfigured, FilesInv, Started
  <2>1. PICK chains : chains = settings[p].chains
    OBVIOUS
  <2>2. tasks[p] = Spawned(chains)
    BY <2>1 DEF FilesInv, Started
  <2>3. ChainsAdmitted(chains, manifest[p])
    BY <2>1 DEF FilesInv, Started
  <2>4. \A c \in Enabled(chains) :
          /\ c \in BuiltIn /\ c # "bitcoin"
          /\ manifest[p].deployments[c].network = chains[c].network
          /\ manifest[p].signature \notin {Absent, ""}
    BY <2>3, AdmittedIsBuiltIn
  <2>5. /\ DOMAIN tasks[p] = Enabled(chains)
        /\ \A c \in Enabled(chains) :
             tasks[p][c] = chains[c].network
    <3>1. Enabled(chains) \cap BuiltIn = Enabled(chains)
      BY <2>4
    <3>. QED
      BY <2>2, <3>1 DEF Spawned
  <2>6. \A c \in DOMAIN chains : chains[c].enabled <=> c \in Enabled(chains)
    BY DEF Enabled
  <2>. QED
    BY <2>1, <2>4, <2>5, <2>6
<1>. QED
  BY <1>1, <1>2, PTL
=============================================================================
