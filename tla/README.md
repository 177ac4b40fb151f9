# Tuppira in TLA+

Tuppira collects evidence from independent sources (exports of Piteka deployments,
blocks of several chains), keeps it in one SQLite database as append-only, attributed
observations, and serves it to explorers and wallets. This directory holds TLA+ models of
the parts that keep state, TLC configurations that model-check them on small instances,
and theorems about them that TLAPS proves for every instance. `PROJECT.json` lists the
runs, the source lines that each definition stands for, the hazards and the theorems.

Paths below are relative to the repository's root.

## 1. The system

| Component | State | Operations | Talks to |
|---|---|---|---|
| Observation plane `storage/src/repositories/observations.rs`, migrations 0003 and 0004 | tables of sources, runs, payload descriptors, observations, subjects, supersessions, cursors, reorgs, hints | eight inserts, of which `append_observation` is one transaction over five tables; reads filtered by tenant | SQLite; called by ingestion and the API |
| Piteka ingestion `indexer/src/ingest.rs`, `piteka_feed.rs`, `connector.rs` | a pass's in-memory checkpoint and summary | prerequisites, discover, authenticate and normalize, append, look up, checkpoint; again every interval with `--watch` | HTTP feed, observation plane |
| Wallet feed `api/src/feed.rs`, `WalletFeedProjection` in `shared/src/types.rs`, migration 0002 | table `wallet_feed_events`; per API process a projection behind a lock and a broadcast channel of 256 | `from_pool`, `publish`, `since`, `subscribe` | SQLite, REST query, GraphQL subscription, wallets |
| Chain sync `indexer/src/sync.rs`, `storage/src/repositories/sync.rs` | one row of `sync_progress` per chain; per daemon the state shown for a chain | one polling task per chain; `sync`, `reindex`, `reset` commands | chain adapters, SQLite |
| Priority indexing `indexer/src/wallet_bridge.rs`, `priority_addresses.rs` | registered addresses, last indexed time, activity log | register, unregister, a cycle every second | chain adapters, SQLite |
| Start-up `storage/src/db.rs`, `shared/src/config.rs`, `indexer/src/{main,lib,indexer_plugin,manifest,rpc_manager}.rs` | migration ledger; what a process read of its configuration, the deployment manifest and `rpc_config.json` | open the database, check the manifest, build the indexers, choose endpoints; then serve, ingest or spawn a task per chain | SQLite, files operators write, chain nodes |
| Chain adapters `indexer/src/{sui,aptos,solana,bitcoin,ethereum}.rs`, `chain_indexer.rs` | none | for a block or an address: requests to a node, and the records its answers become | nodes |
| Record tables `storage/src/repositories/{sanads,seals,transfers,contracts,advanced_proofs,stats}.rs`, migration 0001 | sanads, transfers, seals, contracts, enhanced proofs | upserts, status updates, filtered pages, counts | API |
| Accountable entities `storage/src/repositories/entities.rs`, migration 0005 | profiles, references, relationships per tenant | profile, aggregate | API |
| API `api/src/rest`, `api/src/graphql`, `api/src/access.rs` | none, except the feed | queries, for observations and entities behind a tenant's key | all of the above |

### Where it is hard

* **Several processes, one database.** Nothing keeps two ingesters, two daemons, an
  operator's command or two API processes apart; SQLite's one writer and the tables'
  constraints are all they share. Every component model therefore has several actors.
* **Memory beside a table.** The feed's hub and the ingester keep a copy of what they
  stored and trust it until they die.
* **Append-only evidence.** Nothing is ever repaired: a wrong row, a correction that names
  the wrong prior, or a cursor ahead of its evidence would stay.
* **Partial failure.** `publish` awaits its INSERT with the projection still old;
  `ingest_piteka` turns every error of an append into a lookup; `sync_chain` returns in the
  middle of a batch.
* **Answers put together from several statements.** No handler reads in a transaction: a
  page and its total, the figures of the statistics, the records of a lineage are each as
  new as their own SELECT.
* **Nodes that fail or change their minds.** Some adapters turn a failed request into an empty
  block, and the requests of one call may meet two branches.
* **Files replaced during a start.** The configuration, the manifest and `rpc_config.json` are read
  at three moments.
* **A receiver that falls behind.** The subscription skips lagged envelopes silently.

The hazards, each at its line, are in `PROJECT.json`; the properties of section 4 are aimed
at them. What makes each component correct:

* observation plane: corrections form a forest per source event; a cursor never lags its
  evidence and moves only with it; nothing changes or disappears; disagreement hints stay
  within one disclosure boundary;
* ingestion: no gap however passes interleave and fail, and an honest summary, as long as sources
  share no export ids; payload descriptors before observations; every complete export eventually
  stored;
* wallet feed: one stored history that always replays; every hub and every wallet holds an
  initial part of it; every stored envelope is delivered;
* chain sync: progress claims no block that was not indexed; every chain catches up;
* priority indexing: an active address is indexed again and again, as far as its group fits
  in a batch; nothing is recorded that no adapter answered; an address given up is soon left
  alone; a bridge that says it runs has a loop;
* start-up: whoever races and dies, the ledger says what the schema is, a database nobody can
  date is refused, and a daemon's tasks are for the chains and networks of files that were
  checked;
* adapters: an answer is the records of one version of the block;
* records: a client that follows the pages misses nothing, what it was shown it can follow,
  and the figures of one answer bound each other;
* observation reads: what is put together is one observation, one lineage, one list, as of the
  moment it was asked for; of what another tenant holds there is in it at most an id, in the
  `supersedes` of a record (section 2).

## 2. Modules

```
ObservationTables            tables and statements, as operators
  ObservationStore           one action per repository call  (abstract specification)
    MCObservationStore, ObservationStoreProofs
  AppendTransaction          statement by statement, refines ObservationStore
    ObservationReads         readers, tenants and entities beside the appends
      MCObservationReads, ObservationReadsProofs
  PitekaIngest               ingesters over the tables, refines ObservationStore
    MCPitekaIngest, PitekaIngestProofs
FeedProjection               WalletFeedProjection, as operators
  FeedLog                    one ordered history             (abstract specification)
  WalletFeed                 hubs, table, channel, wallets; refines FeedLog
    MCWalletFeed, WalletFeedProofs
ChainSync                    daemons and commands over sync_progress
  MCChainSync, ChainIndexingProofs
PriorityIndexing             wallets and loops over priority_addresses
  MCPriorityIndexing, PriorityIndexingProofs
Migrations                   processes that open one database
Deployment                   what the files beside a process mean, as operators
  Startup                    a process from its start to its service (extends both)
    MCStartup, StartupProofs
RecordTables                 tables of chain records and their statements, as operators
  RecordApi                  what REST and GraphQL ask and answer, as operators
    RecordReads              clients of both beside a writer
      MCRecordReads, RecordReadsProofs
  ChainDecoders              what the adapters make of a block, as operators
    BlockProcessing          one call of an adapter, process_block among them
      MCBlockProcessing, ChainIndexingProofs
```

**ObservationTables / ObservationStore.** `db` is a record with a field per table. A
statement `x` is a pair of operators: `xAllowed(db, ...)`, its constraints and triggers, and
`Withx(db, ...)`, the tables after it. A call that fails changes nothing and is a stuttering
step. Callers are not trusted: `Candidate` holds records with wrong lineage, reused ids and
foreign sources, and any cursor of any source may come with them. Constraints on single
values (text not empty, digest length, version 1) are abstracted.

**AppendTransaction.** A writer's `pc` is the statement it runs next. The transaction begins
deferred, as `pool.begin()` does, so the first INSERT takes the write lock; `copy` is the
database as the transaction sees it and becomes `disk` at the commit. `Rollback` stands for
everything that drops the transaction: a constraint, an I/O error, a dropped future, a crash.
`observation_authenticity_refs`, filled and read like the subjects, is left out.

**ObservationReads.** Extends AppendTransaction with one reader, which runs the statements of
`get_observation`, of a tenant's lineage or list, or of an entity's profile and accountability
one by one; one is enough, as readers change nothing. `read.todo` holds the ids that the
first SELECT found, `read.got` the records so far. `start`, what was there when the read began,
is no state of the program. Authentication is part of the first step: a request is a tenant
and a token, and the first configured entry of the tenant that has a token decides. The rows
of entities are inserted by nobody in the repository; they come from outside, within the
keys, checks and the trigger of migration 0005. A lineage ends where the tenant may see no
further, but the `supersedes` column of its last record still names the hidden observation
(`handlers.rs:161`), although the comment at `observations.rs:140` says that an identifier is
never disclosed: it speaks of the walk over the supersessions, and so does the model. The two
queries that find ids are defined by what their rows are and not by how SQLite finds them: the
recursive one is a path of corrections that ends where no visible prior is, the ordered one
has at each place the row that as many others come before.

**PitekaIngest.** Feeds are immutable, so `Feed[s]` is a constant sequence of exports and
`published[s]` says how much of it the endpoint serves. What the connector makes of an
export depends on its `kind`: complete, incomplete (fails authentication or normalization)
or unbounded (fails the validation of its page). `pc` follows `ingest_piteka` call by call:
the three prerequisites, `discover`, per export the payload descriptor, the append and, when
the append failed, the lookup. `TransientFailure` may strike at any call; `Crash` loses
everything in memory. Each repository call is one step, which AppendTransaction justifies.

**FeedProjection / FeedLog / WalletFeed.** A hub's `pc` follows `publish`: `BeginPublish`
(lock, clone, apply), `InsertRow` or `InsertRejected` (the awaited INSERT), `Swap` (swap and
broadcast, no await between them). `DropPublish` is a caller that drops the future at the
await; the INSERT may still run as an orphan. The channel is not a variable: a hub
broadcasts the envelopes of its projection in order, so what a receiver gets next follows
from its `position` and `Capacity`. A wallet is the client that the subscription's comment
describes (`api/src/graphql/schema.rs:592`): subscribe, fetch after the last sequence
applied, apply what arrives, fetch again at a gap. At this commit only tests call
`publish`; the model takes any number of producers.

**ChainSync.** A task's `pc` follows `sync_chain`: read the row, ask for the tip, then index
and record block by block to the end of one batch. Operators' commands run the same code
beside the daemons. `indexed` is a history variable: which blocks were decoded and
validated. At this commit the adapters' canonical decoders all return an error, so against
a real chain `SyncFails` is the only outcome of a block; the model is of the coordinator over
any indexer that keeps to the trait.

**PriorityIndexing.** `table` is `priority_addresses` by key, `running` the flag behind the
bridge's lock, and each call of `start` a loop with a `pc`: head of the loop, read of the
active addresses, batches of the snapshot (`todo`) level by level and chain by chain, record of
each address of the batch. Which group comes next is the choice of a hash map; which rows
of one second come first in it is the choice of SQLite. An adapter answers Ok, Ok with
errors, or fails. `answers` and `late` are history variables: what adapters answered for, and
how often each loop asked for a row since it was unregistered. `log` is a set, and
the three activities of an address are one member, because the properties count neither.

**Migrations / Deployment / Startup.** A process's `pc` follows `init_pool`: create the ledger,
count it, look for tables, and per version look, begin, apply, commit. A version stands for
the tables its SQL creates, and the SQL fails on a database that has them. `found` is the
database that was there at first: fresh, of an older or a newer build, or with tables and
no ledger. Then a process does what its command says: serve the API, ingest, run a
command, or build an indexer, which reads manifest and `rpc_config.json` and spawns a task for every
enabled chain. `files` are replaced by operators at any moment (`Edit`); `settings`,
`manifest` and `tasks` are what a process has read. `Die` is a crash or a signal, since nothing
calls `stop`. Of `rpc_config.json` the model keeps that a
file which does not parse ends the start. The choice of a node, a pure function of that file, is
left out, and `ChainsAsConfigured` claims nothing of it: the code asks the endpoint of
`RpcManager` first, and without a file that is a built-in mainnet node, whatever network the chain
is configured for (`rpc_manager.rs:218`), although `config.rs:92` calls the policy the canonical
endpoint and `:94` says that current indexers use its URL, and the status shows that URL
(`sync.rs:203`).

**RecordTables / RecordApi / RecordReads.** A table is the sequence of its rows in the order of
their rowids. `Page`, `Count` and `ById` are the queries; the API modules give the filters,
defaults and caps of every handler, words an API does not know included. A walk is a client
asking page after page: GraphQL lists and then counts, REST counts and then lists, the
enhanced seals are not counted at all. A report is the statistics, read in the order of
`stats.rs`; a card is the data of an address. Facts of the code the model shows and no
property forbids: the GraphQL and REST lists of sanads give the newest hundred whatever limit
and offset say; `insert_enhanced_sanad` names columns that `init` never creates, so it always
fails, and so do the proof statistics; a record of an enhanced seal is found only if it is the
first row of the table; the data of an address hold everyone's seals.

**ChainDecoders / BlockProcessing.** A transaction is what the decoders look at: its id and its
events, each with the words of its type and its fields; a script is the predicates that are
asked of it. One operator per adapter and kind says which records come of it. `BlockProcessing`
is one call: each `index_*` a request to a node, which may fail (`AnsweredWithFault`: what
then is answered depends on the adapter) or go over to another branch (`Reorg`). `process_block`
only counts, has no caller in the repository, and nothing stores what the `index_*` methods find;
so the model has answers and no tables, and asks of an answer which blocks it is of. A whole
reply of a node is one that parses. The structs for Sui and Aptos events want a JSON key named
literally `type_` (`sui.rs:51`, `aptos.rs:58`), which a node's usual reply does not have: such a
reply is an error, as `AnsweredWithFault` is. The conditions on fields (a value that is no text, a
`seal_id` that hides the `nullifier`) are kept.

Operators whose comment says *Mutant of X* are X with a plausible bug. They are used by no
specification: putting one in X's place must break the property that `PROJECT.json` pairs it
with, which shows that the property can fail.

## 3. Fairness

* `PitekaIngest!FairSpec`: weak fairness of each ingester's next step. It is a process with
  `--watch`, or re-run: a single sequential future whose awaits return. No fairness of
  failures or of Piteka's publishing.
* `WalletFeed!FairSpec`: weak fairness of a hub's start and of a publication that began, of
  reconnecting and of reading the subscription; strong fairness of `Fetch`, because it waits
  for a read lock that is taken again and again and tokio's RwLock is a fair queue. No
  fairness of publishing.
* `ChainSync!FairSyncSpec`: weak fairness of each daemon's task (a timer loop) and of a command
  that began. No fairness of new blocks or of commands.
* `PriorityIndexing!FairSpec`: weak fairness of each loop's next step, a sequential future
  whose awaits return. No fairness of start, stop or registrations.

* `Startup!FairSpec`: weak fairness of every step of a process that its command or the compose
  file's `restart: unless-stopped` keeps running (`Supervised`), a restart included. No fairness of
  edits, deaths or commands.
* `RecordReads`, `BlockProcessing` and `ObservationReads` state safety only.

Failures and crashes are bounded (`MaxFaults`, `MaxFailures`): eventual properties say what happens once
failures stop.

## 4. Runs

| Run | Question | Instance |
|---|---|---|
| `observation_store` | Do the constraints hold up against callers that send anything? | 2 sources, 8 candidates (two accounts, corrections, a would-be cycle, a cross-source correction, another tenant), times to 3 |
| `observation_reads` | Are the statements one atomic append, for other writers and for readers, and do tenants get their history and nothing else? | 2 writers, 1 reader, 4 candidates (a tenant's account, a public correction, its correction, another tenant's event), 2 tenants, 4 requests, 1 entity, rollback anywhere |
| `ingest_safety` | Do passes keep order, report honestly, store evidence first? | 2 ingesters of one feed, 1 of another with a common id, every kind of export (in two feeds: one whose first export has the id of the other's second), 1 failure or crash |
| `ingest_live` | Is every complete export eventually stored? | 2 ingesters, 4 exports, one incomplete, pages of 2, 1 failure or crash |
| `wallet_feed` | Is there one history, of which all see an initial part, and does everything stored reach the wallet? | 2 hubs, 1 wallet, 7 envelopes over 4 sequences (rival accounts, finality, reorg, other network), channel of 1, 1 fault |
| `record_reads` | Do paging clients miss anything, and what do answers read at several moments still promise? | 2 sanads, 3 transfers, 2 seals, 1 contract, 2 enhanced seals, stored and updated by at most 6 statements; pages of 1, lists capped at 2 |
| `startup` | Does everyone who opens a database agree on it, and does a daemon run what was configured and admitted? | a daemon and one more process of any kind, 2 migrations and a later build's third, 4 configurations, 4 manifests, an `rpc_config.json` that is missing, garbled or fine, 1 edit, 1 death |
| `block_processing` | Whatever a node does, are an adapter's answers one version of the block? | 5 adapters, ledgers of 2 or 3 heights with a branch that replaces the end, 2 failed requests |
| `chain_sync` | Is no block skipped, and does the chain catch up? | 2 daemons and 1 operator on 1 chain, tip to 3, batch 2, 1 fault, 1 command |
| `priority_indexing` | Is an address that stays registered served for ever, and is what is recorded true? | 2 loops, 3 registrations (one address of two wallets on two networks, one chain without adapter), 2 levels, batches of 1, 2 wallet calls, 1 stop, 1 fault |

Two runs show a disagreement between the code and what it says of itself; TLC must find the
property violated:

| Run | Said | Done |
|---|---|---|
| `ingest_malformed` | `ingest.rs:48` "one malformed export never halts the pipeline" | one export without an emission time fails its whole page, in every pass |
| `wallet_feed_retry` | `feed.rs:54` "Duplicate reconnect delivery is intentionally ignored" | after a publication dropped at its INSERT, the redelivery fails until restart |

`MCPitekaIngest` has three more feeds, with which `FeedKeepsFlowing` fails as well, by way of
`IngestMalformed.cfg`. `Feed <- CorrectionFeed`: a correction arrives as a new source event, which
the lineage trigger refuses. `Feed <- SameSecondFeed`: two exports of one second would need a
cursor that does not grow. `Feed <- SharedFeeds`, over two sources with an ingester of each
(`SourceOf <- TwoSources`): the lookup after a failed append asks for an id alone
(`ingest.rs:176`), finds the observation of the other source, counts it as `Duplicate (already
ingested)` and goes on, so that an export is never stored for its own source. The passing
liveness run therefore assumes one source, strictly increasing emission times and no corrections;
the safety run has a correction and a shared id, and its properties say of exports with a shared
id at most that their ids are stored.

**Bounds.** Actors: two of a kind are enough for a race, a third (ingester of another source,
operator, writer waiting behind the lock) for interference from outside. Exports and blocks:
more than one page or batch, so the checkpoint between two of them happens. Channel capacity
1: lag happens as soon as two envelopes are published. Faults: one, where a fault ends the
pass, or the publication, and recovery starts from nothing; two for the adapters' requests.
Batches of 1 for priority indexing: any second address of a group is beyond the
batch. `CHECK_DEADLOCK FALSE` everywhere: tables fill up and the bounded instance
stops, as the program may when nothing arrives. Symmetry is used in `ingest_safety`, over the
two ingesters of one source, and in `observation_reads`, over the writers, neither with a
liveness property. Records: a third transfer is beyond the cap of a list. Migrations: two are
enough for one to be missing and one to be there.

## 5. Proofs

All theorems hold for every value of the constants under the ASSUMEs of their modules. The ASSUMEs
only give the constants their types: the columns of rows and candidates, lists that are lists,
numbers that are numbers, and that a null value or an answer that says there is none is not a
value.

* **ObservationStoreProofs**: `StoreTypeCorrect`, `StoreLineageSound`,
  `StoreLineageTerminates`, `StoreOneOriginalPerEvent`, `StoreCursorCovers`,
  `StoreAppendOnly`, `StoreCursorMoves`, `StoreHintsWithin`. Lineage is
  inductive only together with `UniqueIds` (an id names one row), and termination only
  together with lineage: of a set of observations that holds the new row, the rest has a
  member that supersedes none of the rest, and it does not supersede the new row either,
  because what it supersedes was stored already and the new row's id was not. Hints are
  checked against the subjects table, so theirs needs `SubjectsSound`: each row of that table
  is a subject of the observation it names.
* **ObservationReadsProofs**: `AppendImplementsStore`, the refinement of the one append. The
  invariant: whoever is past its first INSERT holds the lock, so the database under it stands
  still, the checks of that INSERT still hold at the commit, and the copy is, statement by
  statement, a growing part of `Appended`. Every other step changes nothing that is committed.
  The store's theorems are instantiated on what is committed (`StoreFacts`, `db <- disk`) and
  so hold through the refinement for every reader. From them, of `ReadsSpec`:
  `WholeObservationsRead` (rows and their subjects come and stay together, so what was found
  when the read began is what each of its SELECTs finds), `SourcesCanBeFollowed` (a reference
  was admitted by the trigger, and what a tenant may see it may always see) and
  `AnswersOfTheMoment`. The last needs that the ids a lineage or a list consists of exist as
  the model defines them: a walk along supersessions never returns to a row, by
  `LineageTerminates`, so there is a longest one and it ends where no visible prior is; and
  the places of a list's rows are distinct and as many as the rows. Rows are never
  changed, so the records fetched later are those of the moment the ids were found.
* **PitekaIngestProofs**: `IngestTypeCorrect` and `IngestImplementsStore`, the refinement:
  each step is one allowed call of `ObservationStore` or leaves `db` alone. It needs that the
  export in hand is one of the feed's, which is why the type invariant bounds `pos` and `upto`
  by what is published. Then what passes leave behind, whatever interleaves, fails or dies:
  `IngestLeavesNoGap`, `IngestReportsAll`, `IngestEvidenceFirst` and `IngestCursorIsNewest`.
  The first two say *stored for its own source* of every complete export whose id no other source's
  feed has; the others may be missing (section 4).
  Their invariant says of a pass in progress that every such export before `pos` is stored (what
  the lookup finds by an id of one feed is an observation of that feed's source:
  `StoredIsIngested`), that those of this pass and no others are in its summary, that the
  descriptor of the export in hand is stored once its append may run, and of the store that its rows of a source
  are exports of that source's feed. An observation is added only behind a pass's `pos`, and
  nothing is ever removed, so other passes can only help.
* **WalletFeedProofs**: `FeedTypeCorrect`, `FeedHistoryReplays`, `FeedServesStoredHistory`,
  `FeedWalletSeesHistory`, `FeedNoWindow`, `FeedImplementsLog`. The inductive invariant
  joins what is said of the table, of hubs, of publications in hand and of wallets:
  the table is gapless and replays; a hub's projection is an initial part of it; what a hub
  is inserting applies to its own projection and, once inserted, is the row after it. An
  INSERT goes through only if its sequence is new, and the writer's projection is an initial
  part of the table, so the row extends the whole table and not just the writer's part.
* **ChainIndexingProofs**, of what reads chains: `SyncTypeCorrect`, `SyncNoSkippedBlock`. The
  strengthening says of every running task that the blocks from the configured start to where
  it stands are indexed; `indexed` only grows, so resets and slower tasks cannot break it.
  `AnswersAreOfOneBlock`: the decoders of all chains have one form, records found in the parts
  of transactions, each in its place, and what is found in fewer transactions is no more. That
  `FlattenSeq` returns exactly the elements of the lists it joins is proved by induction over
  the set of lengths it holds for (`LeastNatural`, `Induction`); the library's induction theorems
  cannot be instantiated. The invariant says of every answer of the call which branch it was read of:
  one that the node showed since the call began. It assumes that what parses is lists
  (`BranchesAssumption`).
* **PriorityIndexingProofs**: `PriorityTypeCorrect`, `PriorityRunningIsServed`,
  `PriorityAskedOnceMore`, `PriorityRecordsAreAnswers`. The strengthening says that a row which
  a loop has asked for since its unregistration is not in that loop's snapshot any more
  (and a new snapshot holds active rows only), and that a batch in hand was answered for,
  on the network it carries, unless the adapter failed.
* **RecordReadsProofs**: `MissesNothing`. Rows are never deleted or moved, and one that matched
  a filter on lasting columns still does; so the rank of a row among the matching ones never
  falls, and the invariant says of a walk that every row of its start has been seen or has a
  rank of at least the offset. The count that ends the walk is taken after the list.
  `QuietWalkMissesNothing` is the same argument for REST, whose count comes before the list,
  and for the enhanced seals, which have none. `SeenCanBeFollowed`: ids are unique, a transfer
  names a stored sanad, and what a row was found by never changes. `StatsAreBracketed`: each
  figure is the number of rows at its own moment, tables only grow, and the classes of a
  breakdown are disjoint and together the rows (`Sum` counts pairs, so this is a bijection).
  `AddressSeesAll`: while the transfers fit the window, the page is all of them.
* **StartupProofs**: `RecordedSchema`, `RefusedDatabase`. The invariant joins the process that
  holds the write lock, whose transaction is one version ahead of the ledger, with what every
  other one has read so far and can only have become too small. `StartsAsConfigured`: what a
  process carries from file to file came out of files that were on the disk and passed the check
  of the step that read them. It says nothing of the nodes that tasks ask.

Only model-checked: the liveness properties (`FeedKeepsFlowing`, `StoredIsDelivered`,
`CatchesUp`, `IndexedAgainAndAgain`, `EveryoneServes`), which are outside the prover's reach. Every
invariant and action property of a passing run is proved. The type theorems (`StoreTypeCorrect` and
its like) are proved and no run repeats them.

## 6. Not modelled, and plan

Not modelled because no state can go wrong there: metrics, error types, formats and DTO
conversions, the texts of links; `api/src/websocket.rs`, which the crate does not compile; the
tables nothing reads or nothing can be put into (proof statistics, enhanced inclusion proofs and
transfers); the average transfer time and the recent-activity queries of `stats.rs`; the
single-statement reads `source_health`, `cursor`, `reorg_history` and `lineage`; `with_registry` and
`with_wallet_bridge`, which nothing calls. Signatures and digests are verdicts and values, not
computations. Hazards without a property have a note in `PROJECT.json` that says why; among
them, a negative GraphQL limit or offset overflows a cast, an address with more transfers than the
window is shown some of them, and the state shown for a chain is not what was synced.

Of the bridge, the reads (addresses of a wallet, activities, status) are left out. So is a `start`
whose future is dropped at an await of its loop, or panics there, while the process lives on
(`wallet_bridge.rs:226-247`): it leaves the flag set and no loop, and `RunningIsServed` would not
hold. Nothing in the repository starts the bridge, so there is no task to take its behaviour from.
Two
behaviours of it are provisos of `IndexedAgainAndAgain` and not findings, because no document
denies them: a cycle takes the same head of a group that exceeds `max_batch_size`, so the
rest of it starves; and a group of two networks is asked for and recorded under that of
its last row.

Plan, in order:

1. The connector's verdicts in place of an export's `kind`.
2. The daemon's `stop` and the reads of the bridge.

## 7. Running

`tlc -workers 2 -config X.cfg M` for a row of `PROJECT.json`'s `runs`; `tlapm XProofs.tla` for
the proofs. The longest run takes about two minutes, the proofs of a module at most a few.
