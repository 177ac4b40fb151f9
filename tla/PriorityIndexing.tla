--------------------------- MODULE PriorityIndexing ---------------------------
(***************************************************************************)
(* The wallet-indexer bridge: wallets register addresses in                *)
(* priority_addresses, and a loop takes a snapshot of the active ones and  *)
(* asks the adapter of each chain for a batch of each priority level.      *)
(* Several loops run where stop is followed by start.  What an adapter     *)
(* finds for an address is external and not stored; the bridge stores that *)
(* it asked.  No process of the repository starts the bridge: it is a      *)
(* library's service.                                                      *)
(***************************************************************************)
EXTENDS Naturals, FiniteSets

CONSTANTS
  Registration,  \* the keys of priority_addresses wallets register
  Level,         \* the priority levels they register with
  Rank,          \* the order in which a cycle takes the levels
  Adapter,       \* chains that have a ChainIndexer
  MaxBatchSize,  \* config.max_batch_size
  Loop,          \* calls of start that may run
  NoRow,         \* no row of priority_addresses
  NoNetwork,     \* a loop without a batch
  MaxTime,       \* bound on the seconds of CURRENT_TIMESTAMP
  MaxRequests,   \* bound on wallets' calls
  MaxStops,      \* bound on calls of stop
  MaxFaults      \* bound on failed calls and crashes

ASSUME PriorityAssumption ==
  /\ \A k \in Registration :
       DOMAIN k = {"address", "chain", "network", "wallet_id"}
  /\ Rank \in [Level -> Nat]
  /\ \A p, q \in Level : Rank[p] = Rank[q] => p = q
  /\ MaxBatchSize \in Nat
  /\ MaxTime \in Nat
  /\ MaxRequests \in Nat
  /\ MaxStops \in Nat
  /\ MaxFaults \in Nat

VARIABLES
  table,     \* priority_addresses
  log,       \* indexing_activities
  answers,   \* the addresses adapters answered for with Ok so far
  running,   \* the flag start and stop share
  pc,        \* the step a loop takes next
  todo,      \* its snapshot: the rows of each level not yet asked for
  batch,     \* the rows of its batch not yet recorded
  network,   \* the network the batch was asked for
  answer,    \* what the adapter answered
  late,      \* how often a loop asked for a row since it was unregistered
  now,       \* CURRENT_TIMESTAMP
  requests,  \* wallets' calls so far
  stops,     \* calls of stop so far
  faults     \* failures and crashes so far

loop == <<pc, todo, batch, network, answer>>

vars ==
  <<table, log, answers, running, loop, late, now, requests, stops, faults>>

Network == {k.network : k \in Registration}

Row == [priority : Level, registered_at : 0..MaxTime, is_active : BOOLEAN,
        indexed : BOOLEAN]  \* indexed: last_indexed_at IS NOT NULL

Stored == {k \in Registration : table[k] # NoRow}

Active == {k \in Stored : table[k].is_active}

Nothing == [p \in Level |-> {}]

-----------------------------------------------------------------------------
Request == requests < MaxRequests /\ requests' = requests + 1

Fault == faults < MaxFaults /\ faults' = faults + 1

\* Only the order of registrations counts.
TimePasses ==
  /\ now < MaxTime
  /\ \E k \in Stored : table[k].registered_at = now
  /\ now' = now + 1
  /\ UNCHANGED <<table, log, answers, running, loop, late, requests, stops,
                 faults>>

(* register_address: a row registered again keeps its registered_at and    *)
(* last_indexed_at.                                                        *)
Register(k, p) ==
  /\ Request
  /\ table' = [table EXCEPT ![k] =
       IF @ = NoRow
       THEN [priority |-> p, registered_at |-> now, is_active |-> TRUE,
             indexed |-> FALSE]
       ELSE [@ EXCEPT !.priority = p, !.is_active = TRUE]]
  /\ late' = [late EXCEPT ![k] = [l \in Loop |-> 0]]
  /\ UNCHANGED <<log, answers, running, loop, now, stops, faults>>

(* unregister_address: the row stays.                                      *)
Unregister(k) ==
  /\ Request
  /\ k \in Active
  /\ table' = [table EXCEPT ![k].is_active = FALSE]
  /\ UNCHANGED <<log, answers, running, loop, late, now, stops, faults>>

(* start: it returns at once while the flag is set.                        *)
Start(l) ==
  /\ pc[l] = "idle"
  /\ ~running
  /\ running' = TRUE
  /\ pc' = [pc EXCEPT ![l] = "index"]
  /\ UNCHANGED <<table, log, answers, todo, batch, network, answer, late, now,
                 requests, stops, faults>>

(* stop: loops see it at the end of their cycle, if it is still so then.   *)
Stop ==
  /\ stops < MaxStops
  /\ stops' = stops + 1
  /\ running
  /\ running' = FALSE
  /\ UNCHANGED <<table, log, answers, loop, late, now, requests, faults>>

-----------------------------------------------------------------------------
(* The head of the loop, before its first cycle or a second after the last *)
(* one ended.                                                              *)
BeginCycle(l) ==
  /\ pc[l] = "index"
  /\ todo[l] = Nothing
  /\ pc' = [pc EXCEPT ![l] = IF running THEN "read" ELSE "idle"]
  /\ UNCHANGED <<table, log, answers, running, todo, batch, network, answer,
                 late, now, requests, stops, faults>>

\* Mutant of ReadAddresses: it takes the rows that were unregistered too.
ReadAllAddresses(l) ==
  /\ pc[l] = "read"
  /\ pc' = [pc EXCEPT ![l] = "index"]
  /\ todo' = [todo EXCEPT ![l] =
       [p \in Level |-> {k \in Stored : table[k].priority = p}]]
  /\ UNCHANGED <<table, log, answers, running, batch, network, answer, late,
                 now, requests, stops, faults>>

\* Mutant of ReadAddresses: it takes the rows that were never indexed.
ReadNewAddresses(l) ==
  /\ pc[l] = "read"
  /\ pc' = [pc EXCEPT ![l] = "index"]
  /\ todo' = [todo EXCEPT ![l] =
       [p \in Level |->
          {k \in Active : table[k].priority = p /\ ~table[k].indexed}]]
  /\ UNCHANGED <<table, log, answers, running, batch, network, answer, late,
                 now, requests, stops, faults>>

(* get_all_active_addresses, and its rows by level.                        *)
ReadAddresses(l) ==
  /\ pc[l] = "read"
  /\ pc' = [pc EXCEPT ![l] = "index"]
  /\ todo' = [todo EXCEPT ![l] =
       [p \in Level |-> {k \in Active : table[k].priority = p}]]
  /\ UNCHANGED <<table, log, answers, running, batch, network, answer, late,
                 now, requests, stops, faults>>

\* Mutant of ReadFails: the loop ends with the error.
ReadEndsLoop(l) ==
  /\ Fault
  /\ pc[l] = "read"
  /\ pc' = [pc EXCEPT ![l] = "idle"]
  /\ UNCHANGED <<table, log, answers, running, todo, batch, network, answer,
                 late, now, requests, stops>>

(* The list cannot be read: the loop logs it and goes on.                  *)
ReadFails(l) ==
  /\ Fault
  /\ pc[l] = "read"
  /\ pc' = [pc EXCEPT ![l] = "index"]
  /\ UNCHANGED <<table, log, answers, running, todo, batch, network, answer,
                 late, now, requests, stops>>

\* The rows of the first level of the snapshot that has any left.
FirstLevel(l) ==
  UNION {todo[l][p] : p \in {q \in Level :
    \A r \in Level : Rank[r] < Rank[q] => todo[l][r] = {}}}

\* Its chains, which come in the order of a hash map.
Groups(l) ==
  {{k \in FirstLevel(l) : k.chain = c} : c \in {k.chain : k \in FirstLevel(l)}}

Drop(l, S) == todo' = [todo EXCEPT ![l] = [p \in Level |-> @[p] \ S]]

(* There is no adapter for the chain: a warning.                           *)
SkipChain(l, S) ==
  /\ pc[l] = "index"
  /\ \A k \in S : k.chain \notin Adapter
  /\ Drop(l, S)
  /\ UNCHANGED <<table, log, answers, running, pc, batch, network, answer, late,
                 now, requests, stops, faults>>

Before(k, m) == table[k].registered_at <= table[m].registered_at

\* B is what take(max_batch_size) leaves of a group that is ordered by
\* registered_at, rows of one second in any order.
IsBatch(B, S) ==
  /\ B \subseteq S
  /\ IF Cardinality(S) <= MaxBatchSize THEN B = S
     ELSE Cardinality(B) = MaxBatchSize
  /\ \A k \in B, m \in S \ B : Before(k, m)

\* The network of the group's last row is what network_map keeps.
IsNetworkOf(n, B, S) ==
  \E m \in IF B = S THEN S ELSE S \ B :
    n = m.network /\ \A k \in S : Before(k, m)

Asked(B, n, a) ==
  {[address |-> k.address, chain |-> k.chain, network |-> n, answer |-> a] :
     k \in B}

\* The locals of a batch are gone with it.
EndBatch(l) ==
  /\ pc' = [pc EXCEPT ![l] = "index"]
  /\ network' = [network EXCEPT ![l] = NoNetwork]
  /\ answer' = [answer EXCEPT ![l] = "ok"]

\* The adapter is asked for a batch of S and answers a.
Ask(l, S, a) ==
  /\ pc[l] = "index"
  /\ \A k \in S : k.chain \in Adapter
  /\ Drop(l, S)
  /\ \E B \in SUBSET S, n \in Network :
       /\ IsBatch(B, S) /\ IsNetworkOf(n, B, S)
       /\ batch' = [batch EXCEPT ![l] = B]
       /\ answers' = answers \cup IF a = "failed" THEN {} ELSE Asked(B, n, a)
       /\ late' = [k \in Registration |->
            IF k \in B \ Active THEN [late[k] EXCEPT ![l] = @ + 1] ELSE late[k]]
       /\ IF B = {} THEN EndBatch(l)
          ELSE /\ pc' = [pc EXCEPT ![l] = "record"]
               /\ network' = [network EXCEPT ![l] = n]
               /\ answer' = [answer EXCEPT ![l] = a]
  /\ UNCHANGED <<table, log, running, now, requests, stops>>

(* index_addresses_with_priority of an adapter returns Ok; an adapter that *)
(* is plugged in may list errors of some addresses in its result.          *)
AskAdapter(l, S) ==
  /\ \E a \in {"ok", "errors"} : Ask(l, S, a)
  /\ UNCHANGED faults

AdapterFails(l, S) == Fault /\ Ask(l, S, "failed")

-----------------------------------------------------------------------------
\* record_indexing_activity: one row here is the three, of sanads, seals and
\* transfers, that a batch answered with Ok writes.
Activity(l, k) ==
  [address |-> k.address, chain |-> k.chain, network |-> network[l],
   indexed_type |-> IF answer[l] = "failed" THEN "error" ELSE "items",
   success |-> answer[l] = "ok"]

\* Mutant of IsRowOf: the address and chain are enough.
IsRowOfAnyNetwork(m, k, n) == m.address = k.address /\ m.chain = k.chain

\* m is a row that indexing the address of k on network n is recorded in.
IsRowOf(m, k, n) ==
  m.address = k.address /\ m.chain = k.chain /\ m.network = n

\* update_last_indexed_at: the rows of every wallet, active or not.
Mark(k, n) ==
  table' = [m \in Registration |->
    IF m \in Stored /\ IsRowOf(m, k, n)
    THEN [table[m] EXCEPT !.indexed = TRUE] ELSE table[m]]

NextInBatch(l, k) ==
  /\ pc[l] = "record"
  /\ k \in batch[l]
  /\ batch' = [batch EXCEPT ![l] = @ \ {k}]
  /\ IF batch[l] = {k} THEN EndBatch(l) ELSE UNCHANGED <<pc, network, answer>>
  /\ UNCHANGED <<answers, running, todo, late, now, requests, stops>>

(* The activities of an address of the batch and, unless the adapter       *)
(* failed, its last_indexed_at.                                            *)
Record(l, k) ==
  /\ NextInBatch(l, k)
  /\ log' = log \cup {Activity(l, k)}
  /\ IF answer[l] = "failed" THEN UNCHANGED table ELSE Mark(k, network[l])
  /\ UNCHANGED faults

(* Some of these statements fail: the errors are discarded.                *)
RecordFails(l, k) ==
  /\ Fault
  /\ NextInBatch(l, k)
  /\ log' \in {log, log \cup {Activity(l, k)}}
  /\ UNCHANGED table \/ (answer[l] # "failed" /\ Mark(k, network[l]))

(* The process dies with its loops and the flag.                           *)
Crash ==
  /\ Fault
  /\ running' = FALSE
  /\ pc' = [l \in Loop |-> "idle"]
  /\ todo' = [l \in Loop |-> Nothing]
  /\ batch' = [l \in Loop |-> {}]
  /\ network' = [l \in Loop |-> NoNetwork]
  /\ answer' = [l \in Loop |-> "ok"]
  /\ UNCHANGED <<table, log, answers, late, now, requests, stops>>

-----------------------------------------------------------------------------
Init ==
  /\ table = [k \in Registration |-> NoRow]
  /\ log = {}
  /\ answers = {}
  /\ running = FALSE
  /\ pc = [l \in Loop |-> "idle"]
  /\ todo = [l \in Loop |-> Nothing]
  /\ batch = [l \in Loop |-> {}]
  /\ network = [l \in Loop |-> NoNetwork]
  /\ answer = [l \in Loop |-> "ok"]
  /\ late = [k \in Registration |-> [l \in Loop |-> 0]]
  /\ now = 0
  /\ requests = 0
  /\ stops = 0
  /\ faults = 0

\* The steps of a loop that depend on no failure.
Step(l) ==
  \/ BeginCycle(l)
  \/ ReadAddresses(l)
  \/ \E S \in Groups(l) : SkipChain(l, S) \/ AskAdapter(l, S)
  \/ \E k \in Registration : Record(l, k)

Next ==
  \/ TimePasses
  \/ \E k \in Registration : Unregister(k) \/ \E p \in Level : Register(k, p)
  \/ Stop
  \/ \E l \in Loop :
       \/ Start(l)
       \/ Step(l)
       \/ ReadFails(l)
       \/ \E S \in Groups(l) : AdapterFails(l, S)
       \/ \E k \in Registration : RecordFails(l, k)
  \/ Crash

Spec == Init /\ [][Next]_vars

\* A loop that runs is scheduled: every await of it returns.
FairSpec == Spec /\ \A l \in Loop : WF_vars(Step(l))

-----------------------------------------------------------------------------
(* Type invariant.                                                         *)
TypeOK ==
  /\ table \in [Registration -> Row \cup {NoRow}]
  /\ \A e \in log :
       e.indexed_type \in {"items", "error"} /\ e.success \in BOOLEAN
  /\ \A e \in answers : e.answer \in {"ok", "errors"}
  /\ running \in BOOLEAN
  /\ pc \in [Loop -> {"idle", "read", "index", "record"}]
  /\ todo \in [Loop -> [Level -> SUBSET Registration]]
  /\ batch \in [Loop -> SUBSET Registration]
  /\ network \in [Loop -> Network \cup {NoNetwork}]
  /\ answer \in [Loop -> {"ok", "errors", "failed"}]
  /\ late \in [Registration -> [Loop -> Nat]]
  /\ now \in 0..MaxTime
  /\ requests \in 0..MaxRequests
  /\ stops \in 0..MaxStops
  /\ faults \in 0..MaxFaults

(* A row is only marked as indexed, and an activity only recorded as a     *)
(* success, when an adapter answered for that address, chain and network,  *)
(* whatever rows other wallets, networks and loops have of the address.    *)
RecordsAreAnswers ==
  /\ \A k \in Stored : table[k].indexed =>
       \E e \in answers :
         e.address = k.address /\ e.chain = k.chain /\ e.network = k.network
  /\ \A r \in log : r.success =>
       \E e \in answers :
         /\ e.address = r.address /\ e.chain = r.chain /\ e.network = r.network
         /\ e.answer = "ok"

(* The snapshot of a cycle outlives an unregistration, but not by much:    *)
(* each loop asks at most once more for a row that was unregistered.       *)
AskedOnceMore == \A k \in Registration, l \in Loop : late[k][l] <= 1

(* While the flag keeps start from doing anything, some loop is alive.     *)
RunningIsServed == running => \E l \in Loop : pc[l] # "idle"

\* k is active on a chain with an adapter, in a group of its level and chain
\* that fits in one batch and is of one network.
Served(k) ==
  /\ running
  /\ k \in Active
  /\ k.chain \in Adapter
  /\ LET group == {m \in Active : m.chain = k.chain
                                    /\ table[m].priority = table[k].priority} IN
     /\ Cardinality(group) <= MaxBatchSize
     /\ \A m \in group : m.network = k.network

\* A loop marks the row of k.
Marks(k) ==
  \E l \in Loop :
    \E m \in batch[l] :
      /\ Record(l, m)
      /\ answer[l] # "failed"
      /\ IsRowOf(k, m, network[l])

(* An address that stays registered while the bridge runs is indexed again *)
(* and again, of however many levels and chains the others are, provided   *)
(* that the group it is asked for with fits in a batch and has one network.*)
(* Both provisos are needed: the code takes the same head of a larger      *)
(* group in every cycle, and files it under the network of its last row.   *)
IndexedAgainAndAgain ==
  \A k \in Registration : <>[]Served(k) => []<><<Marks(k)>>_vars
=============================================================================
