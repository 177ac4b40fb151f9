----------------------------- MODULE RecordReads -----------------------------
(***************************************************************************)
(* The REST and GraphQL queries over the record tables, statement by       *)
(* statement, while a caller of the repositories stores and updates rows.  *)
(* A handler reads outside any transaction: each of its statements sees    *)
(* the tables as they are then.  One client makes one request at a time;   *)
(* a walk is the client asking for page after page, as the answer's        *)
(* hasNextPage (GraphQL) or total (REST) invites it to.                    *)
(***************************************************************************)
EXTENDS RecordApi

CONSTANTS
  SanadRows, TransferRows, SealRows, ContractRows, EnhancedSealRows,
             \* the rows callers store
  TransferStatuses, SealStatuses,  \* the arguments of update_status
  TransferQuestions, SealQuestions, ContractQuestions,
             \* what clients filter by: columns and words
  Limits,    \* the limits clients ask for
  Addresses, \* the addresses clients ask about
  MaxWrites  \* bound: statements that write

\* The rows of a table.
Sanads == [id : STRING, chain : STRING, owner : STRING, status : STRING, at : Nat]

Transfers ==
  [id : STRING, sanad : STRING, from_chain : STRING, to_chain : STRING,
   from_owner : STRING, to_owner : STRING, status : STRING, at : Nat]

Seals ==
  [id : STRING, chain : STRING, seal_type : STRING, seal_ref : STRING,
   sanad : STRING \cup {NoSanad}, status : STRING, at : Nat]

Contracts ==
  [id : STRING, chain : STRING, contract_type : STRING, status : STRING, at : Nat]

EnhancedSeals ==
  [id : STRING, chain : STRING, seal_type : STRING,
   sanad : STRING \cup {NoSanad}, status : STRING]

\* A transfer as the GraphQL and REST queries show it.
ShownTransfers ==
  [id : STRING, sanad : STRING, from_chain : STRING, to_chain : STRING,
   from_owner : STRING, to_owner : STRING, at : Nat,
   status : {"initiated", "submitting_proof", "completed", "failed"}]

ASSUME RecordReadsAssumption ==
  /\ SanadRows \subseteq Sanads /\ TransferRows \subseteq Transfers
  /\ SealRows \subseteq Seals /\ ContractRows \subseteq Contracts
  /\ EnhancedSealRows \subseteq EnhancedSeals
  /\ TransferStatuses \cup SealStatuses \subseteq STRING
  /\ \A q \in TransferQuestions : DOMAIN q \subseteq TransferColumns
  /\ \A q \in SealQuestions : DOMAIN q \subseteq SealColumns
  /\ \A q \in ContractQuestions : DOMAIN q \subseteq ContractColumns
  /\ Limits \subseteq Nat \ {0}
  /\ MaxWrites \in Nat

\* What an answer says when there is nothing to answer is no row and no page.
ASSUME AnswersAssumption ==
  /\ NotFound \notin Sanads \cup Seals \cup Contracts
  /\ NotFound \notin Transfers \cup ShownTransfers
  /\ Failed # {1}

VARIABLES
  db,      \* the tables
  writes,  \* how many statements have written
  walk,    \* the pages a client has asked for
  report,  \* the statistics being computed, statement by statement
  card     \* the data of an address being collected, table by table

vars == <<db, writes, walk, report, card>>

clients == <<walk, report, card>>

Queries ==
       RestSanads \cup GqlSanads
  \cup RestTransfers(TransferQuestions) \cup GqlTransfers(TransferQuestions)
  \cup RestSeals(SealQuestions) \cup GqlSeals(SealQuestions)
  \cup GqlContracts(ContractQuestions)
  \cup RestEnhancedSanads \cup GqlEnhancedSanads
  \cup RestSanadsByScheme \cup RestSanadsByProofType
  \cup RestEnhancedSeals({NoFilter}) \cup GqlEnhancedSeals
  \cup RestProofStatistics \cup GqlProofStatistics

\* start is what matched when the walk began; it is no state of the program.
NoWalk ==
  [ phase |-> "idle", api |-> "rest", table |-> "sanads", filter |-> NoFilter,
    limit |-> 1, offset |-> 0, page |-> {}, total |-> 0, seen |-> {},
    start |-> {} ]

NoReport == [phase |-> "idle", read |-> [name \in {} |-> 0]]

NoCard ==
  [ phase |-> "idle", address |-> NotFound, sanads |-> {}, seals |-> {},
    transfers |-> {}, start |-> {} ]

Init ==
  /\ db = EmptyRecords
  /\ writes = 0
  /\ walk = NoWalk
  /\ report = NoReport
  /\ card = NoCard

-----------------------------------------------------------------------------
(* The writes of a caller of the repositories.                             *)

Write(new) ==
  /\ writes < MaxWrites
  /\ writes' = writes + 1
  /\ db' = new
  /\ UNCHANGED clients

InsertSanad == \E r \in SanadRows : Write(WithSanad(db, r))

InsertTransfer ==
  \E r \in TransferRows : TransferAllowed(db, r) /\ Write(WithTransfer(db, r))

InsertSeal ==
  \E r \in SealRows : SealAllowed(db, r) /\ Write(WithSeal(db, r))

InsertContract == \E r \in ContractRows : Write(WithContract(db, r))

UpdateTransferStatus ==
  \E id \in Ids(db.transfers), status \in TransferStatuses :
    Write(WithTransferStatus(db, id, status))

UpdateSealStatus ==
  \E id \in Ids(db.seals), status \in SealStatuses :
    Write(WithSealStatus(db, id, status))

InitEnhanced == ~db.enhanced /\ Write(WithEnhancedTables(db))

InsertEnhancedSeal ==
  \E r \in EnhancedSealRows : db.enhanced /\ Write(WithEnhancedSeal(db, r))

Writer ==
  \/ InsertSanad
  \/ InsertTransfer
  \/ InsertSeal
  \/ InsertContract
  \/ UpdateTransferStatus
  \/ UpdateSealStatus
  \/ InitEnhanced
  \/ InsertEnhancedSeal

-----------------------------------------------------------------------------
(* Pages.                                                                  *)

Quiet == walk.phase = "idle" /\ report.phase = "idle" /\ card.phase = "idle"

List(table, f, limit, offset) ==
  CASE table = "sanads" -> ListSanads(db, f, limit, offset)
    [] table = "transfers" -> ListTransfers(db, f, limit, offset)
    [] table = "seals" -> ListSeals(db, f, limit, offset)
    [] table = "contracts" -> ListContracts(db, f, limit, offset)
    [] table = "enhanced_sanads" -> ListEnhancedSanads(db, f, limit, offset)
    [] table = "enhanced_seals" -> ListEnhancedSeals(db, f, limit, offset)
    [] table = "proof_statistics" -> GetProofStatistics(db)

Total(table, f) ==
  CASE table = "sanads" -> CountSanads(db, f)
    [] table = "transfers" -> CountTransfers(db, f)
    [] table = "seals" -> CountSeals(db, f)
    [] table = "contracts" -> CountContracts(db, f)

\* The rows of a table a request is about.
Wanted(table, f) == Matching(db[table], f)

\* GraphQL lists and then counts, REST counts and then lists; a list of
\* enhanced records is not counted.
FirstStatement(api) == IF api = "rest" THEN "count" ELSE "list"

StartWalk ==
  /\ Quiet
  /\ \E q \in Queries, limit \in Limits :
       walk' = [NoWalk EXCEPT !.phase = FirstStatement(q.api), !.api = q.api,
                  !.table = q.table, !.filter = q.filter, !.limit = limit,
                  !.start = Wanted(q.table, q.filter)]
  /\ UNCHANGED <<db, writes, report, card>>

\* The client has the page K, and whether there is more.
Turn(K, more) ==
  walk' = [walk EXCEPT
             !.phase = IF more THEN FirstStatement(walk.api) ELSE "done",
             !.offset = IF more THEN @ + walk.limit ELSE @,
             !.seen = @ \cup K, !.page = {}, !.total = 0]

\* hasNextPage is offset + limit < totalCount.
MorePages(total) == walk.offset + walk.limit < total

ListThenCount ==
  /\ walk.phase = "list" /\ walk.api = "graphql"
  /\ walk' = [walk EXCEPT !.phase = "count",
                !.page = List(walk.table, walk.filter, walk.limit, walk.offset)]
  /\ UNCHANGED <<db, writes, report, card>>

AnswerWithPageInfo ==
  /\ walk.phase = "count" /\ walk.api = "graphql"
  /\ Turn(walk.page, MorePages(Total(walk.table, walk.filter)))
  /\ UNCHANGED <<db, writes, report, card>>

CountThenList ==
  /\ walk.phase = "count" /\ walk.api = "rest"
  /\ walk' = [walk EXCEPT !.phase = "list",
                !.total = Total(walk.table, walk.filter)]
  /\ UNCHANGED <<db, writes, report, card>>

AnswerWithTotal ==
  /\ walk.phase = "list" /\ walk.api = "rest"
  /\ Turn(List(walk.table, walk.filter, walk.limit, walk.offset),
          MorePages(walk.total))
  /\ UNCHANGED <<db, writes, report, card>>

\* The client goes on until a page is short.
AnswerUncounted ==
  /\ walk.phase = "list" /\ walk.api = "uncounted"
  /\ LET K == List(walk.table, walk.filter, walk.limit, walk.offset)
     IN  IF K = Failed THEN walk' = [walk EXCEPT !.phase = "failed"]
         ELSE Turn(K, Cardinality(K) = walk.limit)
  /\ UNCHANGED <<db, writes, report, card>>

EndWalk ==
  /\ walk.phase \in {"done", "failed"}
  /\ walk' = NoWalk
  /\ UNCHANGED <<db, writes, report, card>>

-----------------------------------------------------------------------------
(* Statistics.                                                             *)

ActiveSeals == { k \in DOMAIN db.seals : db.seals[k].status = "available" }

TransfersThatAre(status) ==
  { k \in DOMAIN db.transfers : db.transfers[k].status = status }

\* Mutant of StatsOrder: the breakdowns are read before the totals.
BreakdownsFirst ==
  <<"sanads_by_chain", "transfers_by_pair", "active_seals", "sanads",
    "transfers", "seals", "contracts", "completed", "failed">>

\* The statements of get_stats; the success rate is completed over
\* completed + failed, and 100 when nothing has finished.
StatsOrder ==
  <<"sanads", "transfers", "seals", "contracts", "sanads_by_chain",
    "transfers_by_pair", "active_seals", "completed", "failed">>

Statistic(name) ==
  CASE name = "sanads" -> CountSanads(db, NoFilter)
    [] name = "transfers" -> CountTransfers(db, NoFilter)
    [] name = "seals" -> CountSeals(db, NoFilter)
    [] name = "contracts" -> CountContracts(db, NoFilter)
    [] name = "sanads_by_chain" ->
         GroupCount(db.sanads, DOMAIN db.sanads, LAMBDA r : r.chain)
    [] name = "transfers_by_pair" ->
         GroupCount(db.transfers, DOMAIN db.transfers,
                    LAMBDA r : <<r.from_chain, r.to_chain>>)
    [] name = "active_seals" ->
         GroupCount(db.seals, ActiveSeals, LAMBDA r : r.chain)
    [] name \in {"completed", "failed"} -> Cardinality(TransfersThatAre(name))

StartReport ==
  /\ Quiet
  /\ report' = [NoReport EXCEPT !.phase = "reading"]
  /\ UNCHANGED <<db, writes, walk, card>>

ReadStatistic ==
  /\ report.phase = "reading"
  /\ LET n == Cardinality(DOMAIN report.read) + 1
         name == StatsOrder[n]
     IN  report' =
           [phase |-> IF n = Len(StatsOrder) THEN "done" ELSE "reading",
            read |-> [m \in DOMAIN report.read \cup {name} |->
                        IF m = name THEN Statistic(m) ELSE report.read[m]]]
  /\ UNCHANGED <<db, writes, walk, card>>

EndReport ==
  /\ report.phase = "done"
  /\ report' = NoReport
  /\ UNCHANGED <<db, writes, walk, card>>

-----------------------------------------------------------------------------
(* The data of an address: three reads, none of them by address; the       *)
(* transfers are sifted afterwards.                                        *)

\* The transfers an address sent: from_owner never changes.
SentBy(address) ==
  { k \in DOMAIN db.transfers : db.transfers[k].from_owner = address }

StartCard ==
  /\ Quiet
  /\ \E a \in Addresses :
       card' = [NoCard EXCEPT !.phase = "sanads", !.address = a,
                  !.start = SentBy(a)]
  /\ UNCHANGED <<db, writes, walk, report>>

ReadAddressSanads ==
  /\ card.phase = "sanads"
  /\ card' = [card EXCEPT !.phase = "seals",
                !.sanads = AddressSanads(db, card.address)]
  /\ UNCHANGED <<db, writes, walk, report>>

ReadAddressSeals ==
  /\ card.phase = "seals"
  /\ card' = [card EXCEPT !.phase = "transfers",
                !.seals = AddressSeals(db, card.address)]
  /\ UNCHANGED <<db, writes, walk, report>>

ReadAddressTransfers ==
  /\ card.phase = "transfers"
  /\ card' = [card EXCEPT !.phase = "done",
                !.transfers = AddressTransfers(db, card.address)]
  /\ UNCHANGED <<db, writes, walk, report>>

EndCard ==
  /\ card.phase = "done"
  /\ card' = NoCard
  /\ UNCHANGED <<db, writes, walk, report>>

-----------------------------------------------------------------------------
Client ==
  \/ StartWalk \/ ListThenCount \/ AnswerWithPageInfo
  \/ CountThenList \/ AnswerWithTotal \/ AnswerUncounted \/ EndWalk
  \/ StartReport \/ ReadStatistic \/ EndReport
  \/ StartCard \/ ReadAddressSanads \/ ReadAddressSeals
  \/ ReadAddressTransfers \/ EndCard

Next == Writer \/ Client

Spec == Init /\ [][Next]_vars

-----------------------------------------------------------------------------
(* Properties.                                                             *)

\* No id twice.
HasKey(T) == \A j, k \in DOMAIN T : T[j].id = T[k].id => j = k

\* The tables keep their columns and their primary keys; a request names a
\* query, and rows that are there.
TypeOK ==
  /\ db.sanads \in Seq(Sanads) /\ HasKey(db.sanads)
  /\ db.transfers \in Seq(Transfers) /\ HasKey(db.transfers)
  /\ db.seals \in Seq(Seals) /\ HasKey(db.seals)
  /\ db.contracts \in Seq(Contracts) /\ HasKey(db.contracts)
  /\ db.enhanced_seals \in Seq(EnhancedSeals) /\ HasKey(db.enhanced_seals)
  /\ writes \in 0..MaxWrites
  /\ walk.phase \in {"idle", "list", "count", "done", "failed"}
  /\ walk.offset \in Nat
  /\ [api |-> walk.api, table |-> walk.table, filter |-> walk.filter] \in Queries
  /\ walk.start \cup walk.seen \cup walk.page \subseteq DOMAIN db[walk.table]
  /\ DOMAIN report.read \subseteq { StatsOrder[n] : n \in DOMAIN StatsOrder }
  /\ card.sanads \subseteq DOMAIN db.sanads
  /\ card.seals \subseteq DOMAIN db.seals
  /\ card.transfers \subseteq DOMAIN db.transfers

\* The columns no statement changes once a row is stored.
Lasting(table) ==
  CASE table = "sanads" -> SanadColumns \ SanadUpdates
    [] table = "transfers" -> TransferColumns \ TransferUpdates
    [] table = "seals" -> SealColumns \ SealUpdates
    [] table = "contracts" -> ContractColumns \ ContractUpdates
    [] OTHER -> {}

LastingFilter == DOMAIN walk.filter \subseteq Lasting(walk.table)

\* The list of sanads ends at the newest ListCap.
WithinCap == walk.table = "sanads" => Len(db.sanads) <= ListCap

\* A GraphQL client that follows hasNextPage to the end has been given every
\* row that matched when it began, whatever is stored meanwhile: it lists and
\* only then counts, new rows only push the others to later pages, and no
\* update moves a row or, for a filter on lasting columns, makes it match
\* less.
PagingMissesNothing ==
  walk.phase = "done" /\ walk.api = "graphql" /\ LastingFilter /\ WithinCap
    => walk.start \subseteq walk.seen

\* A REST client, whose total is counted before the page is read, has been
\* given every row that matched unless more matches than when it began; and
\* a client of the enhanced seals, who goes on until a page is short, has
\* been given every row that was there.
QuietPagingMissesNothing ==
  /\ walk.phase = "done" /\ walk.api # "graphql" /\ LastingFilter /\ WithinCap
  /\ (walk.api = "rest" => Wanted(walk.table, walk.filter) = walk.start)
  => walk.start \subseteq walk.seen

\* A row a client has been shown can be followed at any later time, by either
\* API: it is found by its id, the sanad it names is found, and the lists
\* of that sanad show the row.  Of the enhanced seals only the first can be
\* followed.
LinksCanBeFollowed ==
  \A k \in walk.seen :
    LET r == db[walk.table][k] IN
    /\ walk.table = "transfers" =>
         /\ NotFound \notin {RestTransfer(db, r.id), GqlTransfer(db, r.id),
                            RestSanad(db, r.sanad), GqlSanad(db, r.sanad)}
         /\ k \in GqlTransfersBySanad(db, r.sanad)
    /\ walk.table = "seals" =>
         /\ NotFound \notin {RestSeal(db, r.id), GqlSeal(db, r.id),
                            GqlSealByNativeId(db, r.seal_ref)}
         /\ r.sanad # NoSanad =>
              RestSanad(db, r.sanad) # NotFound /\ k \in GqlSealsBySanad(db, r.sanad)
    /\ walk.table = "contracts" => GqlContract(db, r.id) # NotFound
    /\ walk.table = "enhanced_seals" /\ k = 1 => RestEnhancedSeal(db, r.id) = r

\* As many pairs as the values of f add up to.
Sum(f) == Cardinality(UNION { {v} \X (1..f[v]) : v \in DOMAIN f })

\* The statistics of one answer are read at different times and still bound
\* each other: a breakdown has at least the rows of the total read before it,
\* and at most the rows there are now; nothing finished is counted that is
\* not stored.
StatsBracketed ==
  report.phase = "done" =>
    LET read == report.read IN
    /\ read["sanads"] <= Sum(read["sanads_by_chain"])
    /\ Sum(read["sanads_by_chain"]) <= CountSanads(db, NoFilter)
    /\ read["transfers"] <= Sum(read["transfers_by_pair"])
    /\ Sum(read["transfers_by_pair"]) <= CountTransfers(db, NoFilter)
    /\ Sum(read["active_seals"]) <= CountSeals(db, NoFilter)
    /\ read["completed"] <= CountTransfers(db, NoFilter)

\* While the transfers fit the fixed window the data of an address are taken
\* from, they have every transfer the address had sent when it asked, and
\* every sanad those transfers name is stored.
AddressSeesItsTransfers ==
  card.phase = "done" /\ Len(db.transfers) <= ListCap =>
    /\ card.start \subseteq card.transfers
    /\ \A k \in card.transfers : GetSanad(db, db.transfers[k].sanad) # NotFound
=============================================================================
