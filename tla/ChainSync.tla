------------------------------ MODULE ChainSync ------------------------------
(***************************************************************************)
(* The sync coordinator: tasks that walk chains block by block and record  *)
(* how far they got in one row of sync_progress per chain.  The tasks of   *)
(* one daemon never share a chain, but a second daemon, or an operator's   *)
(* sync, reindex or reset beside a daemon, does; nothing keeps them apart. *)
(* What indexing a block does to a chain's own state is external, and no   *)
(* chain event is materialized yet (EXP-004): indexed is a history         *)
(* variable, the blocks whose events were decoded and validated.           *)
(***************************************************************************)
EXTENDS Naturals

CONSTANTS
  Chain,
  Daemon,       \* tasks that daemons spawned, one per enabled chain
  ChainOf,      \* the chain of such a task
  Operator,     \* processes running sync, reindex or reset
  StartBlock,   \* config.start_block of a chain, or 0
  Override,     \* values given as --from-block
  BatchSize,    \* batch_size
  NoProgress,   \* no row of sync_progress
  MaxHeight,    \* bound on the chains' tips
  MaxFailures,  \* bound on failed calls and crashes
  MaxCommands   \* bound on operators' commands

ASSUME SyncAssumption ==
  /\ ChainOf \in [Daemon -> Chain]
  /\ StartBlock \in [Chain -> Nat]
  /\ Override \subseteq Nat
  /\ BatchSize \in Nat
  /\ NoProgress \notin Nat
  /\ MaxHeight \in Nat
  /\ MaxFailures \in Nat
  /\ MaxCommands \in Nat
  /\ Daemon \cap Operator = {}

VARIABLES
  progress,  \* sync_progress.latest_block of a chain
  height,    \* the tip its node reports
  indexed,   \* the blocks indexed so far
  pc,        \* the step a task takes next
  syncing,   \* the chain it syncs
  start,     \* start_block of its effective configuration
  current,   \* from_block, then current
  end,       \* end of its batch
  status,    \* ChainSyncState of a daemon's task
  failures,  \* failures and crashes so far
  commands   \* commands so far

task == <<pc, syncing, start, current, end>>

syncVars == <<progress, height, indexed, task, status, failures, commands>>

Task == Daemon \cup Operator

Stopped == [status |-> "stopped", latest_block |-> 0]

Tips == 0..MaxHeight

-----------------------------------------------------------------------------
(* The chain's node sees another block.                                    *)
NewBlock(c) ==
  /\ height[c] < MaxHeight
  /\ height' = [height EXCEPT ![c] = @ + 1]
  /\ UNCHANGED <<progress, indexed, task, status, failures, commands>>

\* sync_chain is called for c, with start_block b.
BeginSync(t, c, b) ==
  /\ pc[t] = "idle"
  /\ pc' = [pc EXCEPT ![t] = "read"]
  /\ syncing' = [syncing EXCEPT ![t] = c]
  /\ start' = [start EXCEPT ![t] = b]
  /\ UNCHANGED <<current, end>>

(* The interval of a daemon's task ticks.                                  *)
Tick(d) ==
  /\ BeginSync(d, ChainOf[d], StartBlock[ChainOf[d]])
  /\ UNCHANGED <<progress, height, indexed, status, failures, commands>>

Command == commands < MaxCommands /\ commands' = commands + 1

(* tuppira sync [--from-block]: the block takes the configured one's place. *)
Sync(o, c, b) ==
  /\ Command
  /\ BeginSync(o, c, b)
  /\ UNCHANGED <<progress, height, indexed, status, failures>>

(* tuppira reindex --from-block: the row is deleted first.                 *)
Reindex(o, c, b) ==
  /\ Command
  /\ BeginSync(o, c, b)
  /\ progress' = [progress EXCEPT ![c] = NoProgress]
  /\ UNCHANGED <<height, indexed, status, failures>>

(* tuppira reset.  (With a chain, the command prints that it reset it and  *)
(* does nothing.)                                                          *)
ResetAll ==
  /\ Command
  /\ progress' = [c \in Chain |-> NoProgress]
  /\ UNCHANGED <<height, indexed, task, status, failures>>

-----------------------------------------------------------------------------
(* Mutant of ReadProgress: the configuration takes priority.               *)
ReadConfigured(t) ==
  /\ pc[t] = "read"
  /\ pc' = [pc EXCEPT ![t] = "tip"]
  /\ current' = [current EXCEPT ![t] = start[t]]
  /\ UNCHANGED <<progress, height, indexed, syncing, start, end, status,
                 failures, commands>>

(* sync_chain: the database takes priority over the configuration.         *)
ReadProgress(t) ==
  /\ pc[t] = "read"
  /\ pc' = [pc EXCEPT ![t] = "tip"]
  /\ current' = [current EXCEPT ![t] =
       IF progress[syncing[t]] = NoProgress THEN start[t]
       ELSE progress[syncing[t]]]
  /\ UNCHANGED <<progress, height, indexed, syncing, start, end, status,
                 failures, commands>>

\* The locals of a call are gone with it.
Goto(t, step) ==
  /\ pc' = [pc EXCEPT ![t] = step]
  /\ start' = [start EXCEPT ![t] = 0]
  /\ current' = [current EXCEPT ![t] = 0]
  /\ end' = [end EXCEPT ![t] = 0]
  /\ UNCHANGED syncing

\* sync_chain returns: a daemon's task goes on to its state, a command ends.
EndSync(t) == Goto(t, IF t \in Daemon THEN "state" ELSE "idle")

(* Already caught up, or a batch size of zero.                             *)
NothingToSync(t) ==
  /\ pc[t] = "tip"
  /\ current[t] >= height[syncing[t]] \/ BatchSize = 0
  /\ EndSync(t)
  /\ UNCHANGED <<progress, height, indexed, status, failures, commands>>

BatchEnd(from, tip) == IF from + BatchSize < tip THEN from + BatchSize ELSE tip

BeginBatch(t) ==
  /\ pc[t] = "tip"
  /\ current[t] < height[syncing[t]] /\ BatchSize > 0
  /\ pc' = [pc EXCEPT ![t] = "index"]
  /\ current' = [current EXCEPT ![t] = @ + 1]
  /\ end' = [end EXCEPT ![t] = BatchEnd(current[t], height[syncing[t]])]
  /\ UNCHANGED <<progress, height, indexed, syncing, start, status, failures,
                 commands>>

(* index_tuppira_events and the validation of each event.                  *)
IndexBlock(t) ==
  /\ pc[t] = "index"
  /\ pc' = [pc EXCEPT ![t] = "write"]
  /\ indexed' = [indexed EXCEPT ![syncing[t]] = @ \cup {current[t]}]
  /\ UNCHANGED <<progress, height, syncing, start, current, end, status,
                 failures, commands>>

(* Mutant of UpdateProgress: it records the batch before it is indexed.    *)
RecordBatch(t) ==
  /\ pc[t] = "write"
  /\ progress' = [progress EXCEPT ![syncing[t]] = end[t]]
  /\ \/ /\ current[t] < end[t]
        /\ pc' = [pc EXCEPT ![t] = "index"]
        /\ current' = [current EXCEPT ![t] = @ + 1]
        /\ UNCHANGED <<syncing, start, end>>
     \/ current[t] >= end[t] /\ EndSync(t)
  /\ UNCHANGED <<height, indexed, status, failures, commands>>

(* update_progress: an unconditional upsert; then the next block.          *)
UpdateProgress(t) ==
  /\ pc[t] = "write"
  /\ progress' = [progress EXCEPT ![syncing[t]] = current[t]]
  /\ \/ /\ current[t] < end[t]
        /\ pc' = [pc EXCEPT ![t] = "index"]
        /\ current' = [current EXCEPT ![t] = @ + 1]
        /\ UNCHANGED <<syncing, start, end>>
     \/ current[t] >= end[t] /\ EndSync(t)
  /\ UNCHANGED <<height, indexed, status, failures, commands>>

(* After the attempt, whatever came of it, the task asks for the tip and   *)
(* sets its state.                                                         *)
UpdateState(d) ==
  /\ pc[d] = "state"
  /\ pc' = [pc EXCEPT ![d] = "idle"]
  /\ status' = [status EXCEPT ![d] =
       [status |-> "synced", latest_block |-> height[syncing[d]]]]
  /\ UNCHANGED <<progress, height, indexed, syncing, start, current, end,
                 failures, commands>>

-----------------------------------------------------------------------------
Failure == failures < MaxFailures /\ failures' = failures + 1

(* The database, the node or the decoder of the block fails: sync_chain    *)
(* returns the error, which the task only logs.                            *)
SyncFails(t) ==
  /\ Failure
  /\ pc[t] \in {"read", "tip", "index", "write"}
  /\ EndSync(t)
  /\ UNCHANGED <<progress, height, indexed, status, commands>>

(* The tip is not known: the state stays.                                  *)
TipFails(d) ==
  /\ Failure
  /\ pc[d] = "state"
  /\ pc' = [pc EXCEPT ![d] = "idle"]
  /\ UNCHANGED <<progress, height, indexed, syncing, start, current, end,
                 status, commands>>

(* The process of a task dies; a daemon is started again.                  *)
Crash(t) ==
  /\ Failure
  /\ pc[t] # "idle"
  /\ Goto(t, "idle")
  /\ status' = [d \in Daemon |-> IF d = t THEN Stopped ELSE status[d]]
  /\ UNCHANGED <<progress, height, indexed, commands>>

-----------------------------------------------------------------------------
SyncInit ==
  /\ progress = [c \in Chain |-> NoProgress]
  /\ height \in [Chain -> Tips]
  /\ indexed = [c \in Chain |-> {}]
  /\ pc = [t \in Task |-> "idle"]
  /\ syncing \in [Task -> Chain]
  /\ start = [t \in Task |-> 0]
  /\ current = [t \in Task |-> 0]
  /\ end = [t \in Task |-> 0]
  /\ status = [d \in Daemon |-> Stopped]
  /\ failures = 0
  /\ commands = 0

\* The steps of a task that depend on no failure.
Step(t) ==
  \/ ReadProgress(t)
  \/ NothingToSync(t)
  \/ BeginBatch(t)
  \/ IndexBlock(t)
  \/ UpdateProgress(t)

DaemonStep(d) == Tick(d) \/ Step(d) \/ UpdateState(d)

SyncNext ==
  \/ \E c \in Chain : NewBlock(c)
  \/ \E o \in Operator, c \in Chain :
       \/ Sync(o, c, StartBlock[c])
       \/ \E b \in Override : Sync(o, c, b) \/ Reindex(o, c, b)
  \/ ResetAll
  \/ \E o \in Operator : Step(o)
  \/ \E d \in Daemon : DaemonStep(d) \/ TipFails(d)
  \/ \E t \in Task : SyncFails(t) \/ Crash(t)

SyncSpec == SyncInit /\ [][SyncNext]_syncVars

\* Daemons run for ever and their tasks are scheduled; a command that began
\* goes on too.
FairSyncSpec ==
  /\ SyncSpec
  /\ \A d \in Daemon : WF_syncVars(DaemonStep(d))
  /\ \A o \in Operator : WF_syncVars(Step(o))

-----------------------------------------------------------------------------
(* Type invariant.                                                         *)
TypeOK ==
  /\ progress \in [Chain -> Nat \cup {NoProgress}]
  /\ height \in [Chain -> Tips]
  /\ indexed \in [Chain -> SUBSET Nat]
  /\ pc \in [Task -> {"idle", "read", "tip", "index", "write", "state"}]
  /\ \A o \in Operator : pc[o] # "state"
  /\ syncing \in [Task -> Chain]
  /\ start \in [Task -> Nat]
  /\ current \in [Task -> Nat]
  /\ end \in [Task -> Nat]
  /\ status \in [Daemon -> [status : {"stopped", "synced"}, latest_block : Nat]]
  /\ failures \in 0..MaxFailures
  /\ commands \in 0..MaxCommands

(* Resuming from the database skips nothing: whatever daemons, commands,   *)
(* resets and failures interleave, the row of a chain never claims a block *)
(* above the configured start that was not indexed.  (This takes overrides *)
(* no later than the configured start: a later one skips by request.)      *)
NoSkippedBlock ==
  (\A c \in Chain, b \in Override : b <= StartBlock[c]) =>
    \A c \in Chain : progress[c] # NoProgress =>
      (StartBlock[c] + 1)..progress[c] \subseteq indexed[c]

(* A chain whose blocks decode is eventually synced to its tip and stays   *)
(* so, whatever commands and failures (finitely many) came in between and  *)
(* although two tasks of a chain may move its progress back.               *)
CatchesUp ==
  \A d \in Daemon :
    LET c == ChainOf[d] IN
    <>[](progress[c] = height[c] \/ height[c] <= StartBlock[c])

=============================================================================
