------------------------------ MODULE Migrations ------------------------------
(***************************************************************************)
(* init_pool and apply_migrations: every process of Tuppira that opens the *)
(* database brings its schema up to date first, whoever else is doing so.  *)
(* A process reads the ledger statement by statement; each missing         *)
(* migration runs in a transaction of its own, and SQLite lets one process *)
(* write at a time.  A version stands for the tables its SQL creates; that *)
(* SQL is plain CREATE, so it fails on a database that has them.           *)
(***************************************************************************)
EXTENDS Integers

CONSTANTS
  Process,   \* the processes that open the database
  Latest,    \* the last entry of MIGRATIONS
  Newest,    \* the last migration of any build that used this database
  Nobody, NoLedger,
  MaxFaults  \* bound: processes that die

ASSUME MigrationsAssumption ==
  /\ Latest \in Nat \ {0}
  /\ Newest \in Nat /\ Latest <= Newest
  /\ Nobody \notin Process
  /\ \A S \in SUBSET (1..Newest) : S # NoLedger
  /\ MaxFaults \in Nat

VARIABLES
  tables,   \* the versions whose tables exist
  ledger,   \* _tuppira_migrations: the versions recorded, or NoLedger
  found,    \* history: the database before any of these processes ran
  lock,     \* the process whose transaction writes
  pc,       \* the statement a process executes next
  applied,  \* the versions a process counted in the ledger
  version,  \* the migration its loop is at
  faults

database == <<tables, ledger, lock>>

schemaVars == <<database, found, pc, applied, version, faults>>

\* The ledger when it can be read.
Recorded == IF ledger = NoLedger THEN {} ELSE ledger

Unversioned == found.ledger = NoLedger /\ found.tables # {}

\* A fresh database, one of a build's, or one from before there was a ledger.
MigrationsInit ==
  /\ \E v \in 0..Newest : tables = 1..v
  /\ ledger \in {NoLedger, tables}
  /\ found = [tables |-> tables, ledger |-> ledger]
  /\ lock = Nobody
  /\ pc = [p \in Process |-> "off"]
  /\ applied = [p \in Process |-> {}]
  /\ version = [p \in Process |-> 0]
  /\ faults = 0

\* The process goes on; its locals stay.
Goto(p, step) == pc' = [pc EXCEPT ![p] = step]

\* Mutant of Exit: nothing rolls the transaction back.
ExitHoldingLock(p) ==
  /\ Goto(p, "off")
  /\ applied' = [applied EXCEPT ![p] = {}]
  /\ version' = [version EXCEPT ![p] = 0]
  /\ UNCHANGED <<tables, ledger, found, lock>>

\* The process exits: its locals are gone and its transaction is rolled back.
Exit(p) ==
  /\ Goto(p, "off")
  /\ applied' = [applied EXCEPT ![p] = {}]
  /\ version' = [version EXCEPT ![p] = 0]
  /\ lock' = IF lock = p THEN Nobody ELSE lock
  /\ UNCHANGED <<tables, ledger, found>>

-----------------------------------------------------------------------------
(* A process is started and connects, creating the file if missing.        *)
InitPool(p) ==
  /\ pc[p] = "off"
  /\ Goto(p, "ledger")
  /\ UNCHANGED <<database, found, applied, version, faults>>

(* Mutant of CreateLedger: it guesses what was applied from the tables.    *)
GuessLedger(p) ==
  /\ pc[p] = "ledger"
  /\ ledger' = IF ledger = NoLedger THEN tables ELSE ledger
  /\ Goto(p, "count")
  /\ UNCHANGED <<tables, found, lock, applied, version, faults>>

(* CREATE TABLE IF NOT EXISTS _tuppira_migrations.                         *)
CreateLedger(p) ==
  /\ pc[p] = "ledger"
  /\ ledger' = Recorded
  /\ Goto(p, "count")
  /\ UNCHANGED <<tables, found, lock, applied, version, faults>>

CountApplied(p) ==
  /\ pc[p] = "count"
  /\ applied' = [applied EXCEPT ![p] = Recorded]
  /\ Goto(p, "look")
  /\ UNCHANGED <<database, found, version, faults>>

(* The table of sanads, of migration 1, exists but nothing was recorded    *)
(* when the process counted: the database is rejected, the process exits.  *)
LookForTables(p) ==
  /\ pc[p] = "look"
  /\ UNCHANGED faults
  /\ \/ /\ applied[p] = {} /\ 1 \in tables
        /\ Exit(p)
     \/ /\ ~(applied[p] = {} /\ 1 \in tables)
        /\ Goto(p, "check")
        /\ version' = [version EXCEPT ![p] = 1]
        /\ UNCHANGED <<database, found, applied>>

(* The head of the loop: past the last migration, recorded already, or to  *)
(* be applied.                                                             *)
CheckVersion(p) ==
  /\ pc[p] = "check"
  /\ \/ version[p] > Latest /\ Goto(p, "open") /\ UNCHANGED version
     \/ /\ version[p] <= Latest /\ version[p] \in Recorded
        /\ version' = [version EXCEPT ![p] = @ + 1]
        /\ UNCHANGED pc
     \/ /\ version[p] <= Latest /\ version[p] \notin Recorded
        /\ Goto(p, "apply")
        /\ UNCHANGED version
  /\ UNCHANGED <<database, found, applied, faults>>

(* Mutant of ApplyMigration: its statements run outside the transaction.   *)
ApplyAtOnce(p) ==
  /\ pc[p] = "apply" /\ lock = Nobody
  /\ UNCHANGED faults
  /\ \/ version[p] \in tables /\ Exit(p)
     \/ /\ version[p] \notin tables
        /\ tables' = tables \cup {version[p]}
        /\ lock' = p
        /\ Goto(p, "commit")
        /\ UNCHANGED <<ledger, found, applied, version>>

(* The SQL of the migration, first in its transaction: it takes the write  *)
(* lock, and fails if another process created the tables meanwhile.        *)
ApplyMigration(p) ==
  /\ pc[p] = "apply" /\ lock = Nobody
  /\ UNCHANGED faults
  /\ \/ version[p] \in tables /\ Exit(p)
     \/ /\ version[p] \notin tables
        /\ lock' = p
        /\ Goto(p, "commit")
        /\ UNCHANGED <<tables, ledger, found, applied, version>>

(* The version is recorded in the same transaction, which commits; the     *)
(* loop goes on.                                                           *)
CommitMigration(p) ==
  /\ pc[p] = "commit"
  /\ tables' = tables \cup {version[p]}
  /\ ledger' = Recorded \cup {version[p]}
  /\ lock' = Nobody
  /\ version' = [version EXCEPT ![p] = @ + 1]
  /\ Goto(p, "check")
  /\ UNCHANGED <<found, applied, faults>>

(* The process dies, or a statement of its fails (the database is busy     *)
(* longer than it waits, the disk is full): the process exits.             *)
Die(p) ==
  /\ pc[p] # "off"
  /\ faults < MaxFaults
  /\ faults' = faults + 1
  /\ Exit(p)

\* What a process does on its own to have the database open.
Open(p) ==
  \/ CreateLedger(p)
  \/ CountApplied(p)
  \/ LookForTables(p)
  \/ CheckVersion(p)
  \/ ApplyMigration(p)
  \/ CommitMigration(p)

-----------------------------------------------------------------------------
Steps == {"off", "ledger", "count", "look", "check", "apply", "commit"}

\* The process uses the database.
HasOpened(p) == pc[p] \notin Steps

(* A database with a ledger (or none yet, and no tables) has the tables of *)
(* exactly the migrations it records, with no gap, whatever processes die  *)
(* or race in the middle of one; and every process that uses it finds the  *)
(* tables of every migration its build knows.                              *)
SchemaIsRecorded ==
  /\ ~Unversioned =>
       tables = Recorded /\ \E v \in 0..Newest : tables = 1..v
  /\ \A p \in Process : HasOpened(p) => 1..Latest \subseteq tables

(* A database from before there was a ledger keeps its tables as they are, *)
(* nothing is ever recorded of it, and no process uses it: not at once,    *)
(* and not when processes that were refused are started again and find     *)
(* the ledger they created.                                                *)
UnversionedIsRefused ==
  Unversioned =>
    /\ tables = found.tables /\ Recorded = {}
    /\ \A p \in Process : ~HasOpened(p)
=============================================================================
