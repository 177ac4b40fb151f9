-------------------------- MODULE RecordReadsProofs --------------------------
(***************************************************************************)
(* The invariants of RecordReads, for any rows, filters, limits and number *)
(* of writes.                                                              *)
(*                                                                         *)
(* Pages: a write only adds rows and changes columns that are not lasting, *)
(* so the rank of a matching row among the matching rows can only grow;    *)
(* every row that matched at the start and has not been shown yet has a    *)
(* rank of at least the offset of the next page; and a rank is smaller     *)
(* than the count of the matching rows.  A GraphQL client is given that    *)
(* count after the page, so that it cannot be told to stop while a row is  *)
(* left; a REST client is given it before, and is told to stop too early   *)
(* only when more matches by then; a client of the enhanced seals stops    *)
(* at a short page, behind which there is no row.                          *)
(*                                                                         *)
(* Rows: ids stay unique, and what a row refers to stays stored, so that   *)
(* what has been shown can be followed.  The classes of a breakdown add up *)
(* to the rows it was read from, which is how the statistics of different  *)
(* times compare.                                                          *)
(***************************************************************************)
EXTENDS RecordReads, FunctionTheorems, FiniteSetTheorems,
        SequenceTheorems, TLAPS

\* A table: a sequence of rows of these columns, each with its place in lists.
Table(T, columns) ==
  /\ Len(T) \in Nat
  /\ T = [k \in 1..Len(T) |-> T[k]]
  /\ \A k \in 1..Len(T) : DOMAIN T[k] = columns /\ T[k].at \in Nat

\* U is T with rows added and nothing changed in the columns C.
Grows(T, U, C) ==
  /\ Len(T) \in Nat /\ Len(U) \in Nat /\ Len(T) <= Len(U)
  /\ \A k \in 1..Len(T) : \A c \in C : U[k][c] = T[k][c]

-----------------------------------------------------------------------------
(* One table.                                                              *)

LEMMA TableIsSeq ==
  ASSUME NEW T, NEW columns, Table(T, columns)
  PROVE  T \in Seq({ T[k] : k \in 1..Len(T) })
<1>. DEFINE S == { T[k] : k \in 1..Len(T) }
<1>1. T \in [1..Len(T) -> S]
  BY DEF Table
<1>. QED
  BY <1>1 DEF Table

LEMMA GrowsRefl ==
  ASSUME NEW T, NEW C, Len(T) \in Nat
  PROVE  Grows(T, T, C)
BY DEF Grows

\* An upsert keeps a table a table, and the columns it does not name.
LEMMA UpsertTable ==
  ASSUME NEW T, NEW columns, NEW updates, NEW r,
         "at" \in columns, Table(T, columns), DOMAIN r = columns, r.at \in Nat
  PROVE  /\ Table(Upsert(T, r, updates), columns)
         /\ Grows(T, Upsert(T, r, updates), columns \ updates)
<1>. DEFINE S == { T[k] : k \in 1..Len(T) } \cup {r}
<1>1. T \in Seq(S) /\ r \in S
  <2>1. T \in [1..Len(T) -> S]
    BY DEF Table
  <2>. QED
    BY <2>1 DEF Table
<1>2. CASE r.id \in Ids(T)
  <2>. DEFINE V(k) == IF T[k].id = r.id
                      THEN [c \in DOMAIN T[k] |->
                              IF c \in updates THEN r[c] ELSE T[k][c]]
                      ELSE T[k]
              U == [k \in 1..Len(T) |-> V(k)]
  <2>1. Upsert(T, r, updates) = U
    BY <1>2 DEF Upsert
  <2>2. Len(T) \in Nat
    BY DEF Table
  <2>3. U \in Seq({ V(k) : k \in 1..Len(T) })
    <3>1. U \in [1..Len(T) -> { V(k) : k \in 1..Len(T) }]
      OBVIOUS
    <3>. QED
      BY <3>1, <2>2
  <2>4. Len(U) = Len(T) /\ DOMAIN U = 1..Len(T)
    BY <2>2, <2>3
  <2>5. ASSUME NEW k \in 1..Len(T)
        PROVE  /\ U[k] = V(k)
               /\ DOMAIN V(k) = columns
               /\ V(k).at \in Nat
               /\ \A c \in columns \ updates : V(k)[c] = T[k][c]
    <3>1. U[k] = V(k)
      OBVIOUS
    <3>2. DOMAIN T[k] = columns /\ T[k].at \in Nat
      BY DEF Table
    <3>3. DOMAIN V(k) = columns
      BY <3>2
    <3>4. V(k).at \in Nat
      BY <3>2
    <3>. QED
      BY <3>1, <3>2, <3>3, <3>4
  <2>. QED
    BY <2>1, <2>2, <2>4, <2>5 DEF Table, Grows
<1>3. CASE r.id \notin Ids(T)
  <2>1. Upsert(T, r, updates) = Append(T, r)
    BY <1>3 DEF Upsert
  <2>2. /\ Append(T, r) \in Seq(S)
        /\ Len(Append(T, r)) = Len(T) + 1
        /\ \A k \in 1..Len(T) : Append(T, r)[k] = T[k]
        /\ Append(T, r)[Len(T) + 1] = r
    BY <1>1
  <2>3. Len(T) \in Nat
    BY DEF Table
  <2>4. Append(T, r) = [k \in 1..(Len(T) + 1) |-> Append(T, r)[k]]
    <3>. DEFINE A == Append(T, r)
    <3>1. A \in Seq(S) /\ Len(A) = Len(T) + 1
      BY <2>2
    <3>. HIDE DEF A
    <3>2. A \in [1..Len(A) -> S]
      BY <3>1, LenProperties
    <3>3. A = [k \in 1..(Len(T) + 1) |-> A[k]]
      BY <3>1, <3>2
    <3>. QED
      BY <3>3 DEF A
  <2>5. ASSUME NEW k \in 1..(Len(T) + 1)
        PROVE  DOMAIN Append(T, r)[k] = columns /\ Append(T, r)[k].at \in Nat
    <3>1. CASE k \in 1..Len(T)
      BY <3>1, <2>2 DEF Table
    <3>2. CASE k = Len(T) + 1
      BY <3>2, <2>2
    <3>. QED
      BY <3>1, <3>2, <2>3
  <2>6. Table(Append(T, r), columns)
    BY <2>2, <2>3, <2>4, <2>5 DEF Table
  <2>7. Grows(T, Append(T, r), columns \ updates)
    BY <2>2, <2>3 DEF Grows
  <2>. QED
    BY <2>1, <2>6, <2>7
<1>. QED
  BY <1>2, <1>3

\* So does an update of the status.
LEMMA StatusTable ==
  ASSUME NEW T, NEW columns, NEW updates, NEW id, NEW status,
         Table(T, columns), "status" \in updates, "at" \notin updates
  PROVE  /\ Table(WithStatus(T, id, status), columns)
         /\ Grows(T, WithStatus(T, id, status), columns \ updates)
<1>. DEFINE V(k) == IF T[k].id = id THEN [T[k] EXCEPT !.status = status]
                    ELSE T[k]
            U == [k \in 1..Len(T) |-> V(k)]
<1>1. WithStatus(T, id, status) = U
  BY DEF WithStatus
<1>2. Len(T) \in Nat
  BY DEF Table
<1>3. U \in Seq({ V(k) : k \in 1..Len(T) })
  <2>1. U \in [1..Len(T) -> { V(k) : k \in 1..Len(T) }]
    OBVIOUS
  <2>. QED
    BY <2>1, <1>2
<1>4. Len(U) = Len(T) /\ DOMAIN U = 1..Len(T)
  BY <1>2, <1>3
<1>5. ASSUME NEW k \in 1..Len(T)
      PROVE  /\ U[k] = V(k)
             /\ DOMAIN V(k) = columns
             /\ V(k).at \in Nat
             /\ \A c \in columns \ updates : V(k)[c] = T[k][c]
  <2>1. DOMAIN T[k] = columns /\ T[k].at \in Nat
    BY DEF Table
  <2>. QED
    BY <2>1
<1>. QED
  BY <1>1, <1>2, <1>4, <1>5 DEF Table, Grows

LEMMA MatchingFinite ==
  ASSUME NEW T, NEW f, Len(T) \in Nat
  PROVE  /\ IsFiniteSet(Matching(T, f))
         /\ Count(T, f) \in Nat
<1>1. IsFiniteSet(1..Len(T))
  BY FS_Interval
<1>2. Matching(T, f) \in SUBSET (1..Len(T))
  BY DEF Matching
<1>3. IsFiniteSet(Matching(T, f))
  BY <1>1, <1>2, FS_Subset
<1>. QED
  BY <1>3, FS_CardinalityType DEF Count

\* A row that matches ranks below the number of rows that match.
LEMMA RankBelowCount ==
  ASSUME NEW T, NEW columns, NEW f, Table(T, columns), NEW k \in Matching(T, f)
  PROVE  /\ Rank(T, f, k) \in Nat
         /\ Rank(T, f, k) < Count(T, f)
<1>. DEFINE B == { j \in Matching(T, f) : Before(T, j, k) }
<1>1. IsFiniteSet(Matching(T, f)) /\ Count(T, f) \in Nat
  BY MatchingFinite DEF Table
<1>2. B \in SUBSET Matching(T, f)
  OBVIOUS
<1>3. /\ IsFiniteSet(B)
      /\ Cardinality(B) <= Cardinality(Matching(T, f))
      /\ Cardinality(Matching(T, f)) = Cardinality(B) => Matching(T, f) = B
  BY <1>1, <1>2, FS_Subset
<1>4. Cardinality(B) \in Nat
  BY <1>3, FS_CardinalityType
<1>5. k \notin B
  BY DEF Before, Table, Matching
<1>6. Rank(T, f, k) = Cardinality(B)
  BY DEF Rank
<1>. QED
  BY <1>1, <1>3, <1>4, <1>5, <1>6 DEF Count

\* When a table grows, what matched by columns it kept still matches.
LEMMA MatchingGrows ==
  ASSUME NEW T, NEW U, NEW C, NEW f, Grows(T, U, C), DOMAIN f \subseteq C
  PROVE  \A k \in Matching(T, f) : k \in Matching(U, f)
BY DEF Grows, Matching, Matches

\* And its rank can only grow.
LEMMA RankGrows ==
  ASSUME NEW T, NEW U, NEW columns, NEW C, NEW f, NEW k \in Matching(T, f),
         Table(T, columns), Table(U, columns), Grows(T, U, C),
         "at" \in C, DOMAIN f \subseteq C
  PROVE  /\ Rank(T, f, k) \in Nat
         /\ Rank(U, f, k) \in Nat
         /\ Rank(T, f, k) <= Rank(U, f, k)
<1>. DEFINE A == { j \in Matching(T, f) : Before(T, j, k) }
            B == { j \in Matching(U, f) : Before(U, j, k) }
<1>1. k \in Matching(U, f)
  BY MatchingGrows
<1>2. Rank(T, f, k) \in Nat /\ Rank(U, f, k) \in Nat
  BY <1>1, RankBelowCount
<1>3. ASSUME NEW j \in A
      PROVE  j \in B
  <2>1. j \in Matching(U, f)
    BY MatchingGrows
  <2>2. j \in 1..Len(T) /\ k \in 1..Len(T)
    BY DEF Matching
  <2>3. U[j]["at"] = T[j]["at"] /\ U[k]["at"] = T[k]["at"]
    BY <2>2 DEF Grows
  <2>. QED
    BY <2>1, <2>3 DEF Before
<1>4. IsFiniteSet(B)
  <2>1. IsFiniteSet(Matching(U, f))
    BY MatchingFinite DEF Table
  <2>2. B \in SUBSET Matching(U, f)
    OBVIOUS
  <2>. QED
    BY <2>1, <2>2, FS_Subset
<1>5. A \in SUBSET B
  BY <1>3
<1>6. Cardinality(A) <= Cardinality(B)
  BY <1>4, <1>5, FS_Subset
<1>. QED
  BY <1>2, <1>6 DEF Rank

-----------------------------------------------------------------------------
(* The tables.                                                             *)

Tables == {"sanads", "transfers", "seals", "contracts"}

Columns(t) ==
  CASE t = "sanads" -> SanadColumns
    [] t = "transfers" -> TransferColumns
    [] t = "seals" -> SealColumns
    [] t = "contracts" -> ContractColumns

TablesInv ==
  /\ db = [sanads |-> db.sanads, transfers |-> db.transfers,
           seals |-> db.seals, contracts |-> db.contracts,
           enhanced |-> db.enhanced, enhanced_sanads |-> db.enhanced_sanads,
          enhanced_seals |-> db.enhanced_seals,
          proof_statistics |-> db.proof_statistics]
  /\ \A t \in Tables : Table(db[t], Columns(t))

LEMMA LastingColumns ==
  ASSUME NEW t \in Tables
  PROVE  "at" \in Lasting(t)
BY DEF Tables, Lasting, SanadColumns, SanadUpdates, TransferColumns,
       TransferUpdates, SealColumns, SealUpdates, ContractColumns,
       ContractUpdates

\* One table has grown and the others are as they were.
LEMMA OneTable ==
  ASSUME TablesInv, NEW t \in Tables, NEW U,
         db' = [db EXCEPT ![t] = U],
         Table(U, Columns(t)), Grows(db[t], U, Lasting(t))
  PROVE  TablesInv' /\ \A u \in Tables : Grows(db[u], db'[u], Lasting(u))
<1>1. ASSUME NEW u \in Tables
      PROVE  Table(db'[u], Columns(u)) /\ Grows(db[u], db'[u], Lasting(u))
  <2>1. CASE u = t
    BY <2>1 DEF TablesInv, Tables
  <2>2. CASE u # t
    <3>1. db'[u] = db[u]
      BY <2>2 DEF TablesInv, Tables
    <3>2. Table(db[u], Columns(u))
      BY DEF TablesInv
    <3>. QED
      BY <3>1, <3>2, GrowsRefl DEF Table
  <2>. QED
    BY <2>1, <2>2
<1>2. db' = [sanads |-> db'.sanads, transfers |-> db'.transfers,
             seals |-> db'.seals, contracts |-> db'.contracts,
             enhanced |-> db'.enhanced, enhanced_sanads |-> db'.enhanced_sanads,
               enhanced_seals |-> db'.enhanced_seals,
               proof_statistics |-> db'.proof_statistics]
  BY DEF TablesInv, Tables
<1>. QED
  BY <1>1, <1>2 DEF TablesInv

LEMMA WriterGrows ==
  ASSUME RecordReadsAssumption, TablesInv, Writer
  PROVE  /\ TablesInv'
         /\ \A u \in Tables : Grows(db[u], db'[u], Lasting(u))
         /\ walk' = walk
<1>0. walk' = walk
  BY DEF Writer, InsertSanad, InsertTransfer, InsertSeal, InsertContract,
         UpdateTransferStatus, UpdateSealStatus, InitEnhanced,
         InsertEnhancedSeal, Write, clients
<1>. DEFINE G == TablesInv' /\ \A u \in Tables : Grows(db[u], db'[u], Lasting(u))
<1>. HIDE DEF G
<1>1. ASSUME InsertSanad PROVE G
  <2>1. PICK r \in SanadRows :
          db' = [db EXCEPT !.sanads = Upsert(db.sanads, r, SanadUpdates)]
    BY <1>1 DEF InsertSanad, Write, WithSanad
  <2>2. DOMAIN r = SanadColumns /\ r.at \in Nat /\ "at" \in SanadColumns
    BY DEF RecordReadsAssumption, SanadColumns, Sanads
  <2>3. Table(db.sanads, SanadColumns)
    BY DEF TablesInv, Tables, Columns
  <2>4. /\ Table(Upsert(db.sanads, r, SanadUpdates), SanadColumns)
        /\ Grows(db.sanads, Upsert(db.sanads, r, SanadUpdates),
                 SanadColumns \ SanadUpdates)
    BY <2>2, <2>3, UpsertTable
  <2>5. Columns("sanads") = SanadColumns
        /\ Lasting("sanads") = SanadColumns \ SanadUpdates
    BY DEF Columns, Lasting
  <2>. QED
    BY <2>1, <2>4, <2>5, OneTable DEF G, Tables
<1>2. ASSUME InsertTransfer PROVE G
  <2>1. PICK r \in TransferRows :
          db' = [db EXCEPT !.transfers = Upsert(db.transfers, r, TransferUpdates)]
    BY <1>2 DEF InsertTransfer, Write, WithTransfer
  <2>2. DOMAIN r = TransferColumns /\ r.at \in Nat /\ "at" \in TransferColumns
    BY DEF RecordReadsAssumption, TransferColumns, Transfers
  <2>3. Table(db.transfers, TransferColumns)
    BY DEF TablesInv, Tables, Columns
  <2>4. /\ Table(Upsert(db.transfers, r, TransferUpdates), TransferColumns)
        /\ Grows(db.transfers, Upsert(db.transfers, r, TransferUpdates),
                 TransferColumns \ TransferUpdates)
    BY <2>2, <2>3, UpsertTable
  <2>5. Columns("transfers") = TransferColumns
        /\ Lasting("transfers") = TransferColumns \ TransferUpdates
    BY DEF Columns, Lasting
  <2>. QED
    BY <2>1, <2>4, <2>5, OneTable DEF G, Tables
<1>3. ASSUME InsertSeal PROVE G
  <2>1. PICK r \in SealRows :
          db' = [db EXCEPT !.seals = Upsert(db.seals, r, SealUpdates)]
    BY <1>3 DEF InsertSeal, Write, WithSeal
  <2>2. DOMAIN r = SealColumns /\ r.at \in Nat /\ "at" \in SealColumns
    BY DEF RecordReadsAssumption, SealColumns, Seals
  <2>3. Table(db.seals, SealColumns)
    BY DEF TablesInv, Tables, Columns
  <2>4. /\ Table(Upsert(db.seals, r, SealUpdates), SealColumns)
        /\ Grows(db.seals, Upsert(db.seals, r, SealUpdates),
                 SealColumns \ SealUpdates)
    BY <2>2, <2>3, UpsertTable
  <2>5. Columns("seals") = SealColumns
        /\ Lasting("seals") = SealColumns \ SealUpdates
    BY DEF Columns, Lasting
  <2>. QED
    BY <2>1, <2>4, <2>5, OneTable DEF G, Tables
<1>4. ASSUME InsertContract PROVE G
  <2>1. PICK r \in ContractRows :
          db' = [db EXCEPT !.contracts = Upsert(db.contracts, r, ContractUpdates)]
    BY <1>4 DEF InsertContract, Write, WithContract
  <2>2. DOMAIN r = ContractColumns /\ r.at \in Nat /\ "at" \in ContractColumns
    BY DEF RecordReadsAssumption, ContractColumns, Contracts
  <2>3. Table(db.contracts, ContractColumns)
    BY DEF TablesInv, Tables, Columns
  <2>4. /\ Table(Upsert(db.contracts, r, ContractUpdates), ContractColumns)
        /\ Grows(db.contracts, Upsert(db.contracts, r, ContractUpdates),
                 ContractColumns \ ContractUpdates)
    BY <2>2, <2>3, UpsertTable
  <2>5. Columns("contracts") = ContractColumns
        /\ Lasting("contracts") = ContractColumns \ ContractUpdates
    BY DEF Columns, Lasting
  <2>. QED
    BY <2>1, <2>4, <2>5, OneTable DEF G, Tables
<1>5. ASSUME UpdateTransferStatus PROVE G
  <2>1. PICK id, status :
          db' = [db EXCEPT !.transfers = WithStatus(db.transfers, id, status)]
    BY <1>5 DEF UpdateTransferStatus, Write, WithTransferStatus
  <2>2. Table(db.transfers, TransferColumns)
    BY DEF TablesInv, Tables, Columns
  <2>3. "status" \in TransferUpdates /\ "at" \notin TransferUpdates
    BY DEF TransferUpdates
  <2>4. /\ Table(WithStatus(db.transfers, id, status), TransferColumns)
        /\ Grows(db.transfers, WithStatus(db.transfers, id, status),
                 TransferColumns \ TransferUpdates)
    BY <2>2, <2>3, StatusTable
  <2>5. Columns("transfers") = TransferColumns
        /\ Lasting("transfers") = TransferColumns \ TransferUpdates
    BY DEF Columns, Lasting
  <2>. QED
    BY <2>1, <2>4, <2>5, OneTable DEF G, Tables
<1>6. ASSUME UpdateSealStatus PROVE G
  <2>1. PICK id, status :
          db' = [db EXCEPT !.seals = WithStatus(db.seals, id, status)]
    BY <1>6 DEF UpdateSealStatus, Write, WithSealStatus
  <2>2. Table(db.seals, SealColumns)
    BY DEF TablesInv, Tables, Columns
  <2>3. "status" \in SealUpdates /\ "at" \notin SealUpdates
    BY DEF SealUpdates
  <2>4. /\ Table(WithStatus(db.seals, id, status), SealColumns)
        /\ Grows(db.seals, WithStatus(db.seals, id, status),
                 SealColumns \ SealUpdates)
    BY <2>2, <2>3, StatusTable
  <2>5. Columns("seals") = SealColumns
        /\ Lasting("seals") = SealColumns \ SealUpdates
    BY DEF Columns, Lasting
  <2>. QED
    BY <2>1, <2>4, <2>5, OneTable DEF G, Tables
<1>7. ASSUME InitEnhanced \/ InsertEnhancedSeal PROVE G
  <2>1. \/ db' = [db EXCEPT !.enhanced = TRUE]
        \/ \E r : db' = [db EXCEPT !.enhanced_seals =
                                   Upsert(db.enhanced_seals, r, {"status"})]
    BY <1>7 DEF InitEnhanced, InsertEnhancedSeal, Write, WithEnhancedTables,
                WithEnhancedSeal
  <2>2. \A u \in Tables : db'[u] = db[u]
    BY <2>1 DEF TablesInv, Tables
  <2>3. db' = [sanads |-> db'.sanads, transfers |-> db'.transfers,
               seals |-> db'.seals, contracts |-> db'.contracts,
               enhanced |-> db'.enhanced, enhanced_sanads |-> db'.enhanced_sanads,
               enhanced_seals |-> db'.enhanced_seals,
               proof_statistics |-> db'.proof_statistics]
    BY <2>1 DEF TablesInv
  <2>. QED
    BY <2>2, <2>3, GrowsRefl DEF G, TablesInv, Table
<1>. QED
  BY <1>0, <1>1, <1>2, <1>3, <1>4, <1>5, <1>6, <1>7 DEF G, Writer

-----------------------------------------------------------------------------
(* The walk.                                                               *)

WalkShape ==
  walk = [phase |-> walk.phase, api |-> walk.api, table |-> walk.table,
          filter |-> walk.filter, limit |-> walk.limit,
          offset |-> walk.offset, page |-> walk.page, total |-> walk.total,
          seen |-> walk.seen, start |-> walk.start]

\* Row k of the table still comes on the page being read, or on a later one.
ToCome(T, k) ==
  /\ walk.phase # "done"
  /\ k \in Matching(T, walk.filter)
  /\ walk.phase = "list" => walk.offset <= Rank(T, walk.filter, k)
  /\ walk.phase = "count" =>
       \/ k \in walk.page
       \/ walk.offset + walk.limit <= Rank(T, walk.filter, k)

\* What holds of a GraphQL walk over the table T.
WalkInv(T) ==
  /\ walk.phase \in {"list", "count", "done"}
  /\ walk.table \in Tables
  /\ walk.limit \in Nat /\ walk.offset \in Nat
  /\ walk.start \subseteq 1..Len(T)
  /\ walk.table # "sanads" /\ LastingFilter =>
       \A k \in walk.start \ walk.seen : ToCome(T, k)
  /\ walk.table = "sanads" /\ Len(T) <= ListCap =>
       /\ walk.phase = "count" => walk.start \subseteq walk.page
       /\ walk.phase = "done" => walk.start \subseteq walk.seen

Walking == walk.phase # "idle" /\ walk.api = "graphql"

IInv ==
  /\ TablesInv
  /\ WalkShape
  /\ Walking => WalkInv(db[walk.table])

LEMMA InvImpliesMissesNothing ==
  ASSUME IInv
  PROVE  PagingMissesNothing
<1>. SUFFICES ASSUME walk.phase = "done", walk.api = "graphql", LastingFilter,
                     WithinCap
              PROVE  walk.start \subseteq walk.seen
  BY DEF PagingMissesNothing
<1>1. WalkInv(db[walk.table])
  BY DEF IInv, Walking
<1>2. CASE walk.table = "sanads"
  BY <1>1, <1>2 DEF WalkInv, WithinCap
<1>3. CASE walk.table # "sanads"
  BY <1>1, <1>3 DEF WalkInv, ToCome
<1>. QED
  BY <1>2, <1>3

LEMMA InitIInv ==
  ASSUME Init
  PROVE  IInv
<1>1. \A columns : Table(<< >>, columns)
  BY DEF Table
<1>2. TablesInv
  BY <1>1 DEF Init, EmptyRecords, TablesInv, Tables
<1>. QED
  BY <1>2 DEF Init, NoWalk, IInv, WalkShape, Walking

\* While rows are stored, the rows still to come remain to come.
LEMMA WriterStep ==
  ASSUME RecordReadsAssumption, IInv, Writer
  PROVE  IInv'
<1>1. /\ TablesInv /\ TablesInv' /\ walk' = walk
      /\ \A u \in Tables : Grows(db[u], db'[u], Lasting(u))
  BY WriterGrows DEF IInv
<1>. SUFFICES ASSUME Walking
              PROVE  WalkInv(db[walk.table])'
  BY <1>1 DEF IInv, WalkShape, Walking
<1>. DEFINE T == db[walk.table]
            U == db'[walk.table]
<1>2. WalkInv(T)
  BY DEF IInv
<1>3. walk.table \in Tables
  BY <1>2 DEF WalkInv
<1>4. /\ Table(T, Columns(walk.table)) /\ Table(U, Columns(walk.table))
      /\ Grows(T, U, Lasting(walk.table))
      /\ "at" \in Lasting(walk.table)
  BY <1>1, <1>3, LastingColumns DEF TablesInv
<1>5. ASSUME LastingFilter, NEW k, ToCome(T, k),
             walk.offset \in Nat, walk.limit \in Nat
      PROVE  ToCome(U, k)
  <2>1. k \in Matching(T, walk.filter) /\ DOMAIN walk.filter \subseteq Lasting(walk.table)
    BY <1>5 DEF ToCome, LastingFilter
  <2>2. k \in Matching(U, walk.filter)
    BY <2>1, <1>4, MatchingGrows
  <2>3. /\ Rank(T, walk.filter, k) \in Nat
        /\ Rank(U, walk.filter, k) \in Nat
        /\ Rank(T, walk.filter, k) <= Rank(U, walk.filter, k)
    BY <2>1, <1>4, RankGrows
  <2>. QED
    BY <1>5, <2>2, <2>3 DEF ToCome
<1>6. Len(T) \in Nat /\ Len(U) \in Nat /\ Len(T) <= Len(U)
  BY <1>4 DEF Grows
<1>7. walk.start \subseteq 1..Len(U)
  BY <1>2, <1>6 DEF WalkInv
<1>8. WalkInv(U)
  <2>1. walk.table # "sanads" /\ LastingFilter =>
          \A k \in walk.start \ walk.seen : ToCome(U, k)
    BY <1>2, <1>5 DEF WalkInv
  <2>2. ListCap \in Nat
    BY RecordTablesAssumption
  <2>3. Len(U) <= ListCap => Len(T) <= ListCap
    BY <1>6, <2>2
  <2>. QED
    BY <1>2, <1>7, <2>1, <2>3 DEF WalkInv
<1>9. WalkInv(db[walk.table])' <=> WalkInv(U)
  BY <1>1 DEF WalkInv, LastingFilter, ToCome
<1>. QED
  BY <1>8, <1>9

\* The first request: nothing is shown and every row is to come.
LEMMA StartWalkStep ==
  ASSUME RecordReadsAssumption, IInv, StartWalk
  PROVE  IInv'
<1>1. TablesInv' /\ db' = db
  BY DEF IInv, StartWalk, TablesInv
<1>2. PICK q \in Queries, limit \in Limits :
        walk' = [NoWalk EXCEPT !.phase = FirstStatement(q.api), !.api = q.api,
                   !.table = q.table, !.filter = q.filter, !.limit = limit,
                   !.start = Wanted(q.table, q.filter)]
  BY DEF StartWalk
<1>3. WalkShape'
  BY <1>2 DEF WalkShape, NoWalk
<1>. SUFFICES ASSUME Walking'
              PROVE  WalkInv(db[walk.table])'
  BY <1>1, <1>3 DEF IInv
<1>4. /\ q.api = "graphql" /\ walk'.phase = "list" /\ walk'.table = q.table
      /\ walk'.filter = q.filter /\ walk'.limit = limit /\ walk'.offset = 0
      /\ walk'.page = {} /\ walk'.seen = {}
      /\ walk'.start = Wanted(q.table, q.filter)
  BY <1>2 DEF Walking, NoWalk, FirstStatement
<1>5. q.table \in Tables
  <2>1. q \in GqlSanads \cup GqlTransfers(TransferQuestions)
            \cup GqlSeals(SealQuestions) \cup GqlContracts(ContractQuestions)
    BY <1>2, <1>4 DEF Queries, Asked, RestSanads, RestTransfers, RestSeals,
                      RestEnhancedSanads, GqlEnhancedSanads, RestSanadsByScheme,
                      RestSanadsByProofType, RestEnhancedSeals, GqlEnhancedSeals,
                      RestProofStatistics, GqlProofStatistics
  <2>. QED
    BY <2>1 DEF Asked, GqlSanads, GqlTransfers, GqlSeals, GqlContracts, Tables
<1>6. limit \in Nat
  BY DEF RecordReadsAssumption
<1>. DEFINE T == db[q.table]
<1>7. Table(T, Columns(q.table))
  BY <1>5 DEF IInv, TablesInv
<1>8. \A k \in Matching(T, q.filter) : Rank(T, q.filter, k) \in Nat
  BY <1>7, RankBelowCount
<1>9. /\ walk'.start = Matching(T, q.filter)
      /\ walk'.start \subseteq 1..Len(T)
  BY <1>4 DEF Wanted, Matching
<1>10. \A k \in walk'.start : ToCome(db[walk.table], k)'
  BY <1>1, <1>4, <1>8, <1>9 DEF ToCome
<1>. QED
  BY <1>1, <1>4, <1>5, <1>6, <1>9, <1>10 DEF WalkInv

\* A page shows the rows to come that rank within it.
LEMMA ListThenCountStep ==
  ASSUME IInv, ListThenCount
  PROVE  IInv'
<1>. DEFINE T == db[walk.table]
            K == List(walk.table, walk.filter, walk.limit, walk.offset)
<1>1. db' = db /\ TablesInv'
  BY DEF IInv, ListThenCount, TablesInv
<1>2. walk' = [walk EXCEPT !.phase = "count", !.page = K]
  BY DEF ListThenCount
<1>3. /\ walk'.phase = "count" /\ walk'.page = K /\ walk'.api = walk.api
      /\ walk'.table = walk.table /\ walk'.filter = walk.filter
      /\ walk'.limit = walk.limit /\ walk'.offset = walk.offset
      /\ walk'.seen = walk.seen /\ walk'.start = walk.start /\ WalkShape'
  <2>. HIDE DEF K
  <2>. QED
    BY <1>2 DEF IInv, WalkShape
<1>4. WalkInv(T) /\ walk.phase = "list"
  BY DEF IInv, Walking, ListThenCount
<1>5. Table(T, Columns(walk.table))
  BY <1>4 DEF IInv, TablesInv, WalkInv
<1>6. ASSUME walk.table # "sanads", LastingFilter, NEW k \in walk.start \ walk.seen
      PROVE  ToCome(db[walk.table], k)'
  <2>1. k \in Matching(T, walk.filter) /\ walk.offset <= Rank(T, walk.filter, k)
    BY <1>4, <1>6 DEF WalkInv, ToCome
  <2>2. K = Page(T, walk.filter, walk.limit, walk.offset)
    BY <1>4, <1>6 DEF WalkInv, Tables, List, ListTransfers, ListSeals, ListContracts
  <2>3. Rank(T, walk.filter, k) \in Nat
    BY <2>1, <1>5, RankBelowCount
  <2>4. walk.limit \in Nat /\ walk.offset \in Nat
    BY <1>4 DEF WalkInv
  <2>5. k \in K \/ walk.offset + walk.limit <= Rank(T, walk.filter, k)
    BY <2>1, <2>2, <2>3, <2>4 DEF Page
  <2>. HIDE DEF K
  <2>. QED
    BY <1>1, <1>3, <2>1, <2>5 DEF ToCome
<1>7. ASSUME walk.table = "sanads", Len(T) <= ListCap
      PROVE  walk.start \subseteq K
  <2>1. K = Page(T, NoFilter, ListCap, 0)
    BY <1>7 DEF List, ListSanads
  <2>2. Matching(T, NoFilter) = 1..Len(T)
    BY DEF Matching, Matches, NoFilter
  <2>3. Len(T) \in Nat
    BY <1>5 DEF Table
  <2>4. Count(T, NoFilter) = Len(T)
    BY <2>2, <2>3, FS_Interval DEF Count
  <2>5. ASSUME NEW k \in 1..Len(T)
        PROVE  k \in K
    <3>1. Rank(T, NoFilter, k) \in Nat /\ Rank(T, NoFilter, k) < Len(T)
      BY <2>2, <2>4, <1>5, RankBelowCount
    <3>2. ListCap \in Nat
      BY RecordTablesAssumption
    <3>. QED
      BY <3>1, <3>2, <2>1, <2>2, <2>3, <1>7 DEF Page
  <2>. QED
    BY <2>5, <1>4 DEF WalkInv
<1>. HIDE DEF K
<1>8. WalkInv(db[walk.table])'
  BY <1>1, <1>3, <1>4, <1>6, <1>7 DEF WalkInv, LastingFilter
<1>. QED
  BY <1>1, <1>3, <1>8 DEF IInv

\* The client stops only where the ranks of the rows to come end.
LEMMA AnswerStep ==
  ASSUME IInv, AnswerWithPageInfo
  PROVE  IInv'
<1>. DEFINE T == db[walk.table]
            N == Total(walk.table, walk.filter)
            more == MorePages(N)
<1>1. db' = db /\ TablesInv'
  BY DEF IInv, AnswerWithPageInfo, TablesInv
<1>2. /\ Turn(walk.page, more)
      /\ walk.phase = "count" /\ walk.api = "graphql"
  BY DEF AnswerWithPageInfo
<1>3. WalkInv(T)
  BY <1>2 DEF IInv, Walking
<1>. HIDE DEF N
<1>4. /\ walk'.phase = IF more THEN "list" ELSE "done"
      /\ walk'.offset = IF more THEN walk.offset + walk.limit ELSE walk.offset
      /\ walk'.seen = walk.seen \cup walk.page /\ walk'.api = walk.api
      /\ walk'.table = walk.table /\ walk'.filter = walk.filter
      /\ walk'.limit = walk.limit /\ walk'.start = walk.start /\ WalkShape'
  BY <1>2 DEF IInv, WalkShape, Turn, FirstStatement
<1>5. Table(T, Columns(walk.table)) /\ walk.limit \in Nat /\ walk.offset \in Nat
  BY <1>3 DEF IInv, TablesInv, WalkInv
<1>6. ASSUME walk.table # "sanads", LastingFilter,
             NEW k \in walk.start \ (walk.seen \cup walk.page)
      PROVE  ToCome(db[walk.table], k)'
  <2>1. k \in Matching(T, walk.filter)
        /\ walk.offset + walk.limit <= Rank(T, walk.filter, k)
    BY <1>2, <1>3, <1>6 DEF WalkInv, ToCome
  <2>2. N = Count(T, walk.filter)
    BY <1>3, <1>6 DEF N, WalkInv, Tables, Total, CountTransfers, CountSeals,
                      CountContracts
  <2>3. /\ Rank(T, walk.filter, k) \in Nat
        /\ Rank(T, walk.filter, k) < Count(T, walk.filter)
    BY <2>1, <1>5, RankBelowCount
  <2>4. N \in Nat
    BY <2>2, <1>5, MatchingFinite DEF Table
  <2>5. more
    BY <2>1, <2>2, <2>3, <2>4, <1>5 DEF MorePages
  <2>. QED
    BY <1>1, <1>4, <2>1, <2>5 DEF ToCome
<1>7. WalkInv(db[walk.table])'
  <2>. HIDE DEF more
  <2>1. walk'.offset \in Nat
    BY <1>4, <1>5
  <2>. QED
    BY <1>1, <1>2, <1>3, <1>4, <1>6, <2>1 DEF WalkInv, LastingFilter
<1>. QED
  BY <1>1, <1>4, <1>7 DEF IInv

\* The other requests leave a GraphQL walk alone.
LEMMA OtherSteps ==
  ASSUME IInv,
         \/ CountThenList \/ AnswerWithTotal \/ AnswerUncounted \/ EndWalk
         \/ StartReport \/ ReadStatistic \/ EndReport
         \/ StartCard \/ ReadAddressSanads \/ ReadAddressSeals
         \/ ReadAddressTransfers \/ EndCard
         \/ UNCHANGED vars
  PROVE  IInv'
<1>1. db' = db
  BY DEF CountThenList, AnswerWithTotal, AnswerUncounted, EndWalk,
         StartReport, ReadStatistic, EndReport, StartCard, ReadAddressSanads,
         ReadAddressSeals, ReadAddressTransfers, EndCard, vars
<1>2. TablesInv'
  BY <1>1 DEF IInv, TablesInv
<1>3. CASE CountThenList
  BY <1>2, <1>3 DEF CountThenList, IInv, WalkShape, Walking
<1>4. CASE AnswerWithTotal \/ AnswerUncounted
  <2>1. \/ \E K, more : Turn(K, more)
        \/ walk' = [walk EXCEPT !.phase = "failed"]
    BY <1>4 DEF AnswerWithTotal, AnswerUncounted
  <2>2. walk.api # "graphql"
    BY <1>4 DEF AnswerWithTotal, AnswerUncounted
  <2>. QED
    BY <1>2, <2>1, <2>2 DEF Turn, IInv, WalkShape, Walking
<1>5. CASE EndWalk
  BY <1>2, <1>5 DEF EndWalk, NoWalk, IInv, WalkShape, Walking
<1>6. CASE \/ StartReport \/ ReadStatistic \/ EndReport
           \/ StartCard \/ ReadAddressSanads \/ ReadAddressSeals
           \/ ReadAddressTransfers \/ EndCard \/ UNCHANGED vars
  <2>1. walk' = walk
    BY <1>6 DEF StartReport, ReadStatistic, EndReport, StartCard,
                ReadAddressSanads, ReadAddressSeals, ReadAddressTransfers,
                EndCard, vars
  <2>. QED
    BY <1>1, <1>2, <2>1 DEF IInv, WalkShape, Walking, WalkInv, LastingFilter,
                            ToCome
<1>. QED
  BY <1>3, <1>4, <1>5, <1>6

LEMMA NextIInv ==
  ASSUME RecordReadsAssumption, IInv, [Next]_vars
  PROVE  IInv'
BY WriterStep, StartWalkStep, ListThenCountStep, AnswerStep, OtherSteps
   DEF Next, Client

\* Whatever is stored meanwhile, a GraphQL client that follows hasNextPage has
\* been given every row that matched when it began.
THEOREM MissesNothing == Spec => []PagingMissesNothing
<1>1. Init => IInv
  BY InitIInv
<1>2. IInv /\ [Next]_vars => IInv'
  BY NextIInv, RecordReadsAssumption
<1>3. IInv => PagingMissesNothing
  BY InvImpliesMissesNothing
<1>. QED
  BY <1>1, <1>2, <1>3, PTL DEF Spec


-----------------------------------------------------------------------------
(* The rows and their keys.                                                *)

\* A row that a conflicting insert has updated.
Mixed(a, b, updates) ==
  [c \in DOMAIN a |-> IF c \in updates THEN b[c] ELSE a[c]]

\* A row that an update of its status has changed.
Restated(a, status) == [a EXCEPT !.status = status]

Keyed(T, R) == T \in Seq(R) /\ HasKey(T)

LEMMA KeyedRows ==
  ASSUME NEW R, NEW T, Keyed(T, R)
  PROVE  /\ Len(T) \in Nat /\ DOMAIN T = 1..Len(T)
         /\ \A k \in 1..Len(T) : T[k] \in R
         /\ Ids(T) = { T[k].id : k \in 1..Len(T) }
<1>1. Len(T) \in Nat /\ DOMAIN T = 1..Len(T) /\ \A k \in 1..Len(T) : T[k] \in R
  BY LenProperties, ElementOfSeq DEF Keyed
<1>. QED
  BY <1>1 DEF Ids

\* What an upsert does to each row.
LEMMA UpsertRows ==
  ASSUME NEW R, NEW T, Keyed(T, R), NEW r \in R, NEW updates, "id" \notin updates,
         \A a \in R : "id" \in DOMAIN a,
         \A a, b \in R : Mixed(a, b, updates) \in R,
         NEW U, U = Upsert(T, r, updates)
  PROVE  /\ Keyed(U, R)
         /\ \A k \in 1..Len(U) :
              \/ k \in 1..Len(T) /\ U[k] = T[k]
              \/ k \in 1..Len(T) /\ U[k] = Mixed(T[k], r, updates)
              \/ k \notin 1..Len(T) /\ r.id \notin Ids(T) /\ U[k] = r
         /\ Len(T) <= Len(U)
<1>0. /\ Len(T) \in Nat /\ DOMAIN T = 1..Len(T) /\ \A k \in 1..Len(T) : T[k] \in R
      /\ Ids(T) = { T[k].id : k \in 1..Len(T) } /\ T \in Seq(R) /\ HasKey(T)
  BY KeyedRows DEF Keyed
<1>1. CASE r.id \in Ids(T)
  <2>1. U = [k \in 1..Len(T) |-> IF T[k].id = r.id THEN Mixed(T[k], r, updates) ELSE T[k]]
    BY <1>1 DEF Upsert, Mixed
  <2>2. \A k \in 1..Len(T) : U[k] \in R
    BY <1>0, <2>1
  <2>3. U \in [1..Len(T) -> R]
    BY <2>1, <2>2
  <2>4. U \in Seq(R) /\ Len(U) = Len(T) /\ DOMAIN U = 1..Len(T)
    BY <1>0, <2>3, SeqDef
  <2>5. \A k \in 1..Len(T) : U[k].id = T[k].id
    <3>1. \A k \in 1..Len(T) : Mixed(T[k], r, updates).id = T[k].id
      BY <1>0 DEF Mixed
    <3>. QED
      BY <2>1, <3>1
  <2>6. HasKey(U)
    BY <1>0, <2>4, <2>5 DEF HasKey
  <2>. QED
    BY <1>0, <2>1, <2>4, <2>6 DEF Keyed
<1>2. CASE r.id \notin Ids(T)
  <2>1. U = Append(T, r)
    BY <1>2 DEF Upsert
  <2>2. /\ U \in Seq(R) /\ Len(U) = Len(T) + 1
        /\ \A k \in 1..Len(T) : U[k] = T[k]
        /\ U[Len(T) + 1] = r
    BY <1>0, <2>1, AppendProperties
  <2>3. DOMAIN U = 1..(Len(T) + 1)
    BY <2>2
  <2>4. ASSUME NEW j \in DOMAIN U, NEW k \in DOMAIN U, U[j].id = U[k].id PROVE j = k
    <3>1. \A i \in 1..Len(T) : T[i].id # r.id
      BY <1>0, <1>2
    <3>2. (j \in 1..Len(T) \/ j = Len(T) + 1) /\ (k \in 1..Len(T) \/ k = Len(T) + 1)
      BY <1>0, <2>3
    <3>3. CASE j \in 1..Len(T) /\ k \in 1..Len(T)
      BY <1>0, <2>2, <2>4, <3>3 DEF HasKey
    <3>4. CASE j = Len(T) + 1 \/ k = Len(T) + 1
      BY <2>2, <2>4, <3>1, <3>2, <3>4
    <3>. QED
      BY <3>2, <3>3, <3>4
  <2>5. HasKey(U)
    BY <2>4 DEF HasKey
  <2>6. ASSUME NEW k \in 1..Len(U)
        PROVE  k \in 1..Len(T) \/ (k \notin 1..Len(T) /\ k = Len(T) + 1)
    BY <1>0, <2>2
  <2>. QED
    BY <1>0, <1>2, <2>2, <2>5, <2>6 DEF Keyed
<1>. QED
  BY <1>1, <1>2

\* What an update of the status does to each row.
LEMMA StatusRows ==
  ASSUME NEW R, NEW T, Keyed(T, R), NEW id, NEW status,
         \A a \in R : "id" \in DOMAIN a,
         \A a \in R : Restated(a, status) \in R,
         NEW U, U = WithStatus(T, id, status)
  PROVE  /\ Keyed(U, R) /\ Len(U) = Len(T)
         /\ \A k \in 1..Len(T) :
              U[k] = T[k] \/ U[k] = Restated(T[k], status)
<1>0. /\ Len(T) \in Nat /\ DOMAIN T = 1..Len(T) /\ \A k \in 1..Len(T) : T[k] \in R
      /\ HasKey(T)
  BY KeyedRows DEF Keyed
<1>1. U = [k \in 1..Len(T) |->
             IF T[k].id = id THEN Restated(T[k], status) ELSE T[k]]
  BY DEF WithStatus, Restated
<1>2. U \in [1..Len(T) -> R]
  <2>1. \A k \in 1..Len(T) : U[k] \in R
    BY <1>0, <1>1
  <2>. QED
    BY <1>1, <2>1
<1>3. U \in Seq(R) /\ Len(U) = Len(T) /\ DOMAIN U = 1..Len(T)
  BY <1>0, <1>2, SeqDef
<1>4. \A k \in 1..Len(T) : U[k] = T[k] \/ U[k] = Restated(T[k], status)
  BY <1>1
<1>5. \A k \in 1..Len(T) : U[k].id = T[k].id
  BY <1>0, <1>4 DEF Restated
<1>6. HasKey(U)
  BY <1>0, <1>3, <1>5 DEF HasKey
<1>. QED
  BY <1>3, <1>4, <1>6 DEF Keyed

\* The tables, their rows, and the rows these refer to.
RowsInv ==
  /\ Keyed(db.sanads, Sanads) /\ Keyed(db.transfers, Transfers)
  /\ Keyed(db.seals, Seals) /\ Keyed(db.contracts, Contracts)
  /\ Keyed(db.enhanced_seals, EnhancedSeals)
  /\ db.enhanced_sanads = << >> /\ db.proof_statistics = << >>
  /\ db.enhanced_seals # << >> => db.enhanced
  /\ \A k \in 1..Len(db.transfers) : db.transfers[k].sanad \in Ids(db.sanads)
  /\ \A k \in 1..Len(db.seals) : db.seals[k].sanad \in Ids(db.sanads) \cup {NoSanad}

LEMMA MixedRows ==
  /\ \A a, b \in Sanads : Mixed(a, b, SanadUpdates) \in Sanads
  /\ \A a, b \in Transfers :
       /\ Mixed(a, b, TransferUpdates) \in Transfers
       /\ Mixed(a, b, TransferUpdates).sanad = a.sanad
  /\ \A a, b \in Seals :
       /\ Mixed(a, b, SealUpdates) \in Seals
       /\ Mixed(a, b, SealUpdates).sanad = b.sanad
  /\ \A a, b \in Contracts : Mixed(a, b, ContractUpdates) \in Contracts
  /\ \A a, b \in EnhancedSeals : Mixed(a, b, {"status"}) \in EnhancedSeals
<1>1. ASSUME NEW a \in Sanads, NEW b \in Sanads
      PROVE  Mixed(a, b, SanadUpdates) \in Sanads
  BY DEF Mixed, SanadUpdates, Sanads
<1>2. ASSUME NEW a \in Transfers, NEW b \in Transfers
      PROVE  /\ Mixed(a, b, TransferUpdates) \in Transfers
             /\ Mixed(a, b, TransferUpdates).sanad = a.sanad
  BY DEF Mixed, TransferUpdates, Transfers
<1>3. ASSUME NEW a \in Seals, NEW b \in Seals
      PROVE  /\ Mixed(a, b, SealUpdates) \in Seals
             /\ Mixed(a, b, SealUpdates).sanad = b.sanad
  BY DEF Mixed, SealUpdates, Seals
<1>4. ASSUME NEW a \in Contracts, NEW b \in Contracts
      PROVE  Mixed(a, b, ContractUpdates) \in Contracts
  BY DEF Mixed, ContractUpdates, Contracts
<1>5. ASSUME NEW a \in EnhancedSeals, NEW b \in EnhancedSeals
      PROVE  Mixed(a, b, {"status"}) \in EnhancedSeals
  BY DEF Mixed, EnhancedSeals
<1>. QED
  BY <1>1, <1>2, <1>3, <1>4, <1>5

LEMMA RowsHaveIds ==
  /\ \A a \in Sanads : "id" \in DOMAIN a
  /\ \A a \in Transfers : "id" \in DOMAIN a
  /\ \A a \in Seals : "id" \in DOMAIN a
  /\ \A a \in Contracts : "id" \in DOMAIN a
  /\ \A a \in EnhancedSeals : "id" \in DOMAIN a
BY DEF Sanads, Transfers, Seals, Contracts, EnhancedSeals

LEMMA IdsGrow ==
  ASSUME NEW T, NEW U, NEW C, NEW R, NEW S, Grows(T, U, C), "id" \in C,
         Keyed(T, R), Keyed(U, S)
  PROVE  Ids(T) \subseteq Ids(U)
<1>1. ASSUME NEW k \in 1..Len(T)
      PROVE  k \in 1..Len(U) /\ U[k].id = T[k].id
  <2>1. U[k]["id"] = T[k]["id"]
    BY DEF Grows
  <2>. QED
    BY <2>1 DEF Grows
<1>. QED
  BY <1>1, KeyedRows

LEMMA InitRowsInv ==
  ASSUME Init
  PROVE  RowsInv
<1>1. \A R : Keyed(<< >>, R)
  BY DEF Keyed, HasKey
<1>. QED
  BY <1>1 DEF Init, EmptyRecords, RowsInv

\* What another table than the sanads refers to stays there.
LEMMA WriterRows ==
  ASSUME RecordReadsAssumption, TablesInv, RowsInv, Writer
  PROVE  RowsInv' /\ Len(db.enhanced_seals) <= Len(db'.enhanced_seals)
<1>. DEFINE G == RowsInv' /\ Len(db.enhanced_seals) <= Len(db'.enhanced_seals)
<1>0. Len(db.enhanced_seals) \in Nat
  BY KeyedRows DEF RowsInv
<1>. HIDE DEF G
<1>1. ASSUME InsertSanad PROVE G
  <2>1. PICK r, U : r \in SanadRows /\ U = Upsert(db.sanads, r, SanadUpdates) /\ db' = [db EXCEPT !.sanads = U]
    BY <1>1 DEF InsertSanad, Write, WithSanad
  <2>2. r \in Sanads /\ "id" \notin SanadUpdates
    BY <2>1 DEF RecordReadsAssumption, SanadUpdates
  <2>3. Keyed(U, Sanads)
    BY <2>1, <2>2, UpsertRows, MixedRows, RowsHaveIds DEF RowsInv
  <2>4. Grows(db.sanads, U, SanadColumns \ SanadUpdates)
    BY <2>1, <2>2, UpsertTable DEF TablesInv, Tables, Columns, Sanads, SanadColumns
  <2>5. Ids(db.sanads) \subseteq Ids(U)
    BY <2>3, <2>4, IdsGrow DEF RowsInv, SanadColumns, SanadUpdates
  <2>6. /\ db'.sanads = U /\ db'.transfers = db.transfers /\ db'.seals = db.seals
        /\ db'.contracts = db.contracts /\ db'.enhanced_seals = db.enhanced_seals
        /\ db'.enhanced_sanads = db.enhanced_sanads
        /\ db'.proof_statistics = db.proof_statistics /\ db'.enhanced = db.enhanced
    BY <2>1 DEF TablesInv
  <2>. QED
    BY <1>0, <2>3, <2>5, <2>6 DEF G, RowsInv
<1>2. ASSUME InsertTransfer PROVE G
  <2>1. PICK r, U :
          /\ r \in TransferRows
          /\ TransferAllowed(db, r)
          /\ U = Upsert(db.transfers, r, TransferUpdates) /\ db' = [db EXCEPT !.transfers = U]
    BY <1>2 DEF InsertTransfer, Write, WithTransfer
  <2>2. r \in Transfers /\ "id" \notin TransferUpdates
    BY <2>1 DEF RecordReadsAssumption, TransferUpdates
  <2>3. /\ Keyed(U, Transfers)
        /\ \A k \in 1..Len(U) :
              \/ k \in 1..Len(db.transfers) /\ U[k] = db.transfers[k]
              \/ k \in 1..Len(db.transfers) /\ U[k] = Mixed(db.transfers[k], r, TransferUpdates)
              \/ k \notin 1..Len(db.transfers) /\ r.id \notin Ids(db.transfers) /\ U[k] = r
    BY <2>1, <2>2, UpsertRows, MixedRows, RowsHaveIds DEF RowsInv
  <2>4. \A k \in 1..Len(db.transfers) :
          Mixed(db.transfers[k], r, TransferUpdates).sanad = db.transfers[k].sanad
    BY <2>2, MixedRows, KeyedRows DEF RowsInv
  <2>5. \A k \in 1..Len(U) : U[k].sanad \in Ids(db.sanads)
    BY <2>1, <2>3, <2>4 DEF RowsInv, TransferAllowed
  <2>6. /\ db'.sanads = db.sanads /\ db'.transfers = U /\ db'.seals = db.seals
        /\ db'.contracts = db.contracts /\ db'.enhanced_seals = db.enhanced_seals
        /\ db'.enhanced_sanads = db.enhanced_sanads
        /\ db'.proof_statistics = db.proof_statistics /\ db'.enhanced = db.enhanced
    BY <2>1 DEF TablesInv
  <2>. QED
    BY <1>0, <2>3, <2>5, <2>6 DEF G, RowsInv
<1>3. ASSUME InsertSeal PROVE G
  <2>1. PICK r, U :
          /\ r \in SealRows
          /\ SealAllowed(db, r)
          /\ U = Upsert(db.seals, r, SealUpdates) /\ db' = [db EXCEPT !.seals = U]
    BY <1>3 DEF InsertSeal, Write, WithSeal
  <2>2. r \in Seals /\ "id" \notin SealUpdates
    BY <2>1 DEF RecordReadsAssumption, SealUpdates
  <2>3. /\ Keyed(U, Seals)
        /\ \A k \in 1..Len(U) :
              \/ k \in 1..Len(db.seals) /\ U[k] = db.seals[k]
              \/ k \in 1..Len(db.seals) /\ U[k] = Mixed(db.seals[k], r, SealUpdates)
              \/ k \notin 1..Len(db.seals) /\ r.id \notin Ids(db.seals) /\ U[k] = r
    BY <2>1, <2>2, UpsertRows, MixedRows, RowsHaveIds DEF RowsInv
  <2>4. \A k \in 1..Len(db.seals) : Mixed(db.seals[k], r, SealUpdates).sanad = r.sanad
    BY <2>2, MixedRows, KeyedRows DEF RowsInv
  <2>5. \A k \in 1..Len(U) : U[k].sanad \in Ids(db.sanads) \cup {NoSanad}
    BY <2>1, <2>3, <2>4 DEF RowsInv, SealAllowed
  <2>6. /\ db'.sanads = db.sanads /\ db'.transfers = db.transfers /\ db'.seals = U
        /\ db'.contracts = db.contracts /\ db'.enhanced_seals = db.enhanced_seals
        /\ db'.enhanced_sanads = db.enhanced_sanads
        /\ db'.proof_statistics = db.proof_statistics /\ db'.enhanced = db.enhanced
    BY <2>1 DEF TablesInv
  <2>. QED
    BY <1>0, <2>3, <2>5, <2>6 DEF G, RowsInv
<1>4. ASSUME InsertContract PROVE G
  <2>1. PICK r, U :
          r \in ContractRows /\ U = Upsert(db.contracts, r, ContractUpdates) /\ db' = [db EXCEPT !.contracts = U]
    BY <1>4 DEF InsertContract, Write, WithContract
  <2>2. r \in Contracts /\ "id" \notin ContractUpdates
    BY <2>1 DEF RecordReadsAssumption, ContractUpdates
  <2>3. Keyed(U, Contracts)
    BY <2>1, <2>2, UpsertRows, MixedRows, RowsHaveIds DEF RowsInv
  <2>4. /\ db'.sanads = db.sanads /\ db'.transfers = db.transfers /\ db'.seals = db.seals
        /\ db'.contracts = U /\ db'.enhanced_seals = db.enhanced_seals
        /\ db'.enhanced_sanads = db.enhanced_sanads
        /\ db'.proof_statistics = db.proof_statistics /\ db'.enhanced = db.enhanced
    BY <2>1 DEF TablesInv
  <2>. QED
    BY <1>0, <2>3, <2>4 DEF G, RowsInv
<1>5. ASSUME UpdateTransferStatus PROVE G
  <2>1. PICK id, status, U :
          /\ id \in Ids(db.transfers) /\ status \in TransferStatuses
          /\ U = WithStatus(db.transfers, id, status) /\ db' = [db EXCEPT !.transfers = U]
    BY <1>5 DEF UpdateTransferStatus, Write, WithTransferStatus
  <2>2. ASSUME NEW a \in Transfers
        PROVE  Restated(a, status) \in Transfers /\ Restated(a, status).sanad = a.sanad
    BY <2>1 DEF RecordReadsAssumption, Transfers, Restated
  <2>3. /\ Keyed(U, Transfers) /\ Len(U) = Len(db.transfers)
        /\ \A k \in 1..Len(db.transfers) :
             U[k] = db.transfers[k] \/ U[k] = Restated(db.transfers[k], status)
    BY <2>1, <2>2, StatusRows, RowsHaveIds DEF RowsInv
  <2>4. \A k \in 1..Len(U) : U[k].sanad \in Ids(db.sanads)
    <3>1. \A k \in 1..Len(db.transfers) : db.transfers[k] \in Transfers
      BY KeyedRows DEF RowsInv
    <3>2. \A k \in 1..Len(db.transfers) : U[k].sanad = db.transfers[k].sanad
      BY <2>2, <2>3, <3>1
    <3>. QED
      BY <2>3, <3>2 DEF RowsInv
  <2>5. /\ db'.sanads = db.sanads /\ db'.transfers = U /\ db'.seals = db.seals
        /\ db'.contracts = db.contracts /\ db'.enhanced_seals = db.enhanced_seals
        /\ db'.enhanced_sanads = db.enhanced_sanads
        /\ db'.proof_statistics = db.proof_statistics /\ db'.enhanced = db.enhanced
    BY <2>1 DEF TablesInv
  <2>. QED
    BY <1>0, <2>3, <2>4, <2>5 DEF G, RowsInv
<1>6. ASSUME UpdateSealStatus PROVE G
  <2>1. PICK id, status, U :
          /\ id \in Ids(db.seals) /\ status \in SealStatuses
          /\ U = WithStatus(db.seals, id, status) /\ db' = [db EXCEPT !.seals = U]
    BY <1>6 DEF UpdateSealStatus, Write, WithSealStatus
  <2>2. ASSUME NEW a \in Seals
        PROVE  Restated(a, status) \in Seals /\ Restated(a, status).sanad = a.sanad
    BY <2>1 DEF RecordReadsAssumption, Seals, Restated
  <2>3. /\ Keyed(U, Seals) /\ Len(U) = Len(db.seals)
        /\ \A k \in 1..Len(db.seals) :
             U[k] = db.seals[k] \/ U[k] = Restated(db.seals[k], status)
    BY <2>1, <2>2, StatusRows, RowsHaveIds DEF RowsInv
  <2>4. \A k \in 1..Len(U) : U[k].sanad \in Ids(db.sanads) \cup {NoSanad}
    <3>1. \A k \in 1..Len(db.seals) : db.seals[k] \in Seals
      BY KeyedRows DEF RowsInv
    <3>2. \A k \in 1..Len(db.seals) : U[k].sanad = db.seals[k].sanad
      BY <2>2, <2>3, <3>1
    <3>. QED
      BY <2>3, <3>2 DEF RowsInv
  <2>5. /\ db'.sanads = db.sanads /\ db'.transfers = db.transfers /\ db'.seals = U
        /\ db'.contracts = db.contracts /\ db'.enhanced_seals = db.enhanced_seals
        /\ db'.enhanced_sanads = db.enhanced_sanads
        /\ db'.proof_statistics = db.proof_statistics /\ db'.enhanced = db.enhanced
    BY <2>1 DEF TablesInv
  <2>. QED
    BY <1>0, <2>3, <2>4, <2>5 DEF G, RowsInv
<1>7. ASSUME InitEnhanced PROVE G
  <2>1. db' = [db EXCEPT !.enhanced = TRUE]
    BY <1>7 DEF InitEnhanced, Write, WithEnhancedTables
  <2>2. /\ db'.sanads = db.sanads /\ db'.transfers = db.transfers /\ db'.seals = db.seals
        /\ db'.contracts = db.contracts /\ db'.enhanced_seals = db.enhanced_seals
        /\ db'.enhanced_sanads = db.enhanced_sanads
        /\ db'.proof_statistics = db.proof_statistics /\ db'.enhanced = TRUE
    BY <2>1 DEF TablesInv
  <2>. QED
    BY <1>0, <2>2 DEF G, RowsInv
<1>8. ASSUME InsertEnhancedSeal PROVE G
  <2>1. PICK r, U :
          /\ r \in EnhancedSealRows
          /\ db.enhanced
          /\ U = Upsert(db.enhanced_seals, r, {"status"})
          /\ db' = [db EXCEPT !.enhanced_seals = U]
    BY <1>8 DEF InsertEnhancedSeal, Write, WithEnhancedSeal
  <2>2. r \in EnhancedSeals
    BY <2>1 DEF RecordReadsAssumption
  <2>3. Keyed(U, EnhancedSeals) /\ Len(db.enhanced_seals) <= Len(U)
    BY <2>1, <2>2, UpsertRows, MixedRows, RowsHaveIds DEF RowsInv
  <2>4. /\ db'.sanads = db.sanads /\ db'.transfers = db.transfers /\ db'.seals = db.seals
        /\ db'.contracts = db.contracts /\ db'.enhanced_seals = U
        /\ db'.enhanced_sanads = db.enhanced_sanads
        /\ db'.proof_statistics = db.proof_statistics /\ db'.enhanced = db.enhanced
    BY <2>1 DEF TablesInv
  <2>. QED
    BY <2>1, <2>3, <2>4 DEF G, RowsInv
<1>. QED
  BY <1>1, <1>2, <1>3, <1>4, <1>5, <1>6, <1>7, <1>8 DEF G, Writer

-----------------------------------------------------------------------------
(* The walks that REST and the enhanced tables invite to.                  *)

Uncounted == {"enhanced_sanads", "enhanced_seals", "proof_statistics"}

WalkType ==
  /\ \/ walk.api \in {"rest", "graphql"} /\ walk.table \in Tables
     \/ walk.api = "uncounted" /\ walk.table \in Uncounted
  /\ walk.table = "enhanced_seals" => walk.filter = NoFilter
  /\ walk.limit \in Nat \ {0} /\ walk.offset \in Nat
  /\ walk.start \cup walk.seen \cup walk.page \subseteq 1..Len(db[walk.table])

\* What holds of a REST walk over the table T.
RestInv(T) ==
  /\ walk.phase \in {"idle", "count", "list", "done"}
  /\ walk.phase # "idle" /\ LastingFilter =>
       /\ walk.start \subseteq Matching(T, walk.filter)
       /\ walk.phase = "list" =>
            walk.total \in Nat /\ Cardinality(walk.start) <= walk.total
       /\ walk.table # "sanads" /\ walk.phase # "done" =>
            \A k \in walk.start \ walk.seen : walk.offset <= Rank(T, walk.filter, k)
       /\ walk.table # "sanads" /\ walk.phase = "done" =>
            (Matching(T, walk.filter) = walk.start => walk.start \subseteq walk.seen)
  /\ walk.table = "sanads" /\ Len(T) <= ListCap /\ walk.phase = "done" =>
       walk.start \subseteq walk.seen

\* What holds of a walk over the enhanced seals.
UncountedInv ==
  /\ walk.phase \in {"list", "done", "failed"}
  /\ walk.phase = "list" => \A k \in walk.start \ walk.seen : walk.offset < k
  /\ walk.phase = "done" => walk.start \subseteq walk.seen

PagesInv ==
  /\ WalkType
  /\ walk.api = "rest" => RestInv(db[walk.table])
  /\ walk.api = "uncounted" => UncountedInv

LEMMA WriterPages ==
  ASSUME RecordReadsAssumption, TablesInv, RowsInv, PagesInv, Writer
  PROVE  PagesInv'
<1>1. /\ TablesInv /\ TablesInv' /\ walk' = walk
      /\ \A u \in Tables : Grows(db[u], db'[u], Lasting(u))
  BY WriterGrows
<1>2. RowsInv' /\ Len(db.enhanced_seals) <= Len(db'.enhanced_seals)
  BY WriterRows
<1>3. \A u \in Tables \cup Uncounted :
        /\ Len(db[u]) \in Nat /\ Len(db'[u]) \in Nat /\ Len(db[u]) <= Len(db'[u])
  <2>1. \A u \in Tables :
          /\ Len(db[u]) \in Nat /\ Len(db'[u]) \in Nat /\ Len(db[u]) <= Len(db'[u])
    BY <1>1 DEF Grows
  <2>2. Len(db.enhanced_seals) \in Nat /\ Len(db'.enhanced_seals) \in Nat
    BY <1>2, KeyedRows DEF RowsInv
  <2>3. db'["enhanced_sanads"] = db["enhanced_sanads"] /\ Len(db["enhanced_sanads"]) = 0
        /\ db'["proof_statistics"] = db["proof_statistics"] /\ Len(db["proof_statistics"]) = 0
    BY <1>2 DEF RowsInv
  <2>. QED
    BY <1>2, <2>1, <2>2, <2>3 DEF Uncounted
<1>4. WalkType'
  <2>1. walk.table \in Tables \cup Uncounted
    BY DEF PagesInv, WalkType
  <2>2. 1..Len(db[walk.table]) \subseteq 1..Len(db'[walk.table])
    BY <1>3, <2>1
  <2>. QED
    BY <1>1, <2>2 DEF PagesInv, WalkType
<1>5. ASSUME walk.api = "rest" PROVE RestInv(db[walk.table])'
  <2>. DEFINE T == db[walk.table]
              U == db'[walk.table]
  <2>0. RestInv(T) /\ walk.table \in Tables
    BY <1>5 DEF PagesInv, WalkType
  <2>1. /\ Table(T, Columns(walk.table)) /\ Table(U, Columns(walk.table))
        /\ Grows(T, U, Lasting(walk.table)) /\ "at" \in Lasting(walk.table)
    BY <1>1, <2>0, LastingColumns DEF TablesInv
  <2>2. ASSUME LastingFilter, NEW k \in Matching(T, walk.filter)
        PROVE  /\ k \in Matching(U, walk.filter)
               /\ Rank(T, walk.filter, k) \in Nat /\ Rank(U, walk.filter, k) \in Nat
               /\ Rank(T, walk.filter, k) <= Rank(U, walk.filter, k)
    BY <2>1, <2>2, MatchingGrows, RankGrows DEF LastingFilter
  <2>3. walk.offset \in Nat
    BY DEF PagesInv, WalkType
  <2>4. Len(U) <= ListCap => Len(T) <= ListCap
    BY <1>3, <2>0, RecordTablesAssumption
  <2>5. ASSUME walk.phase # "idle", LastingFilter
        PROVE  /\ walk.start \subseteq Matching(U, walk.filter)
               /\ walk.table # "sanads" /\ walk.phase # "done" =>
                    \A k \in walk.start \ walk.seen : walk.offset <= Rank(U, walk.filter, k)
               /\ walk.table # "sanads" /\ walk.phase = "done" =>
                    (Matching(U, walk.filter) = walk.start => walk.start \subseteq walk.seen)
    <3>1. walk.start \subseteq Matching(T, walk.filter)
      BY <2>0, <2>5 DEF RestInv
    <3>2. Matching(T, walk.filter) \subseteq Matching(U, walk.filter)
      BY <2>2, <2>5
    <3>3. walk.table # "sanads" /\ walk.phase # "done" =>
            \A k \in walk.start \ walk.seen : walk.offset <= Rank(U, walk.filter, k)
      BY <2>0, <2>2, <2>3, <2>5, <3>1 DEF RestInv
    <3>. QED
      BY <2>0, <2>5, <3>1, <3>2, <3>3 DEF RestInv
  <2>6. RestInv(U)
    BY <2>0, <2>4, <2>5 DEF RestInv
  <2>7. RestInv(db[walk.table])' <=> RestInv(U)
    BY <1>1 DEF RestInv, LastingFilter
  <2>. QED
    BY <2>6, <2>7
<1>. QED
  BY <1>1, <1>4, <1>5 DEF PagesInv, UncountedInv

LEMMA QueryTypes ==
  ASSUME NEW q \in Queries
  PROVE  /\ \/ q.api \in {"rest", "graphql"} /\ q.table \in Tables
            \/ q.api = "uncounted" /\ q.table \in Uncounted
         /\ q.table = "enhanced_seals" => q.filter = NoFilter
BY DEF Queries, Asked, RestSanads, GqlSanads, RestTransfers, GqlTransfers, RestSeals,
       GqlSeals, GqlContracts, RestEnhancedSanads, GqlEnhancedSanads,
       RestSanadsByScheme, RestSanadsByProofType, RestEnhancedSeals,
       GqlEnhancedSeals, RestProofStatistics, GqlProofStatistics, Tables, Uncounted

LEMMA StartPages ==
  ASSUME RecordReadsAssumption, TablesInv, RowsInv, PagesInv, WalkShape, StartWalk
  PROVE  PagesInv'
<1>1. PICK q \in Queries, limit \in Limits :
        walk' = [NoWalk EXCEPT !.phase = FirstStatement(q.api), !.api = q.api,
                   !.table = q.table, !.filter = q.filter, !.limit = limit,
                   !.start = Wanted(q.table, q.filter)]
  BY DEF StartWalk
<1>2. /\ db' = db /\ walk'.phase = FirstStatement(q.api) /\ walk'.api = q.api
      /\ walk'.table = q.table /\ walk'.filter = q.filter /\ walk'.limit = limit
      /\ walk'.offset = 0 /\ walk'.page = {} /\ walk'.seen = {}
      /\ walk'.start = Wanted(q.table, q.filter)
  BY <1>1 DEF StartWalk, NoWalk
<1>3. limit \in Nat \ {0}
  BY DEF RecordReadsAssumption
<1>. DEFINE T == db[q.table]
<1>4. walk'.start = Matching(T, q.filter) /\ walk'.start \subseteq 1..Len(T)
  BY <1>2 DEF Wanted, Matching
<1>5. WalkType'
  BY <1>2, <1>3, <1>4, QueryTypes DEF WalkType
<1>6. ASSUME q.api = "rest" PROVE RestInv(db[walk.table])'
  <2>1. walk'.phase = "count" /\ q.table \in Tables
    BY <1>2, <1>6, QueryTypes DEF FirstStatement
  <2>2. \A k \in Matching(T, q.filter) : 0 <= Rank(T, q.filter, k)
    BY <2>1, RankBelowCount DEF TablesInv
  <2>. QED
    BY <1>2, <1>4, <2>1, <2>2 DEF RestInv
<1>7. ASSUME q.api = "uncounted" PROVE UncountedInv'
  <2>1. walk'.phase = "list"
    BY <1>2, <1>7 DEF FirstStatement
  <2>2. \A k \in 1..Len(T) : 0 < k
    <3>1. Len(T) \in Nat
      BY <1>7, KeyedRows, QueryTypes DEF RowsInv, Uncounted
    <3>. QED
      BY <3>1
  <2>. QED
    BY <1>2, <1>4, <2>1, <2>2 DEF UncountedInv
<1>. QED
  BY <1>2, <1>5, <1>6, <1>7 DEF PagesInv

\* A page is rows of the table.
LEMMA ListIsRows ==
  ASSUME TablesInv, WalkType, walk.table \in Tables
  PROVE  List(walk.table, walk.filter, walk.limit, walk.offset) \subseteq 1..Len(db[walk.table])
BY DEF List, ListSanads, ListTransfers, ListSeals, ListContracts, Page, Matching, Tables

\* While the sanads are no more than the cap, a list has them all.
LEMMA SanadsPage ==
  ASSUME NEW T, NEW columns, Table(T, columns), Len(T) <= ListCap
  PROVE  Page(T, NoFilter, ListCap, 0) = 1..Len(T)
<1>1. Matching(T, NoFilter) = 1..Len(T)
  BY DEF Matching, Matches, NoFilter
<1>2. Len(T) \in Nat
  BY DEF Table
<1>3. Count(T, NoFilter) = Len(T)
  <2>1. PICK n \in Nat : n = Len(T)
    BY <1>2
  <2>2. Cardinality(1..n) = n
    BY FS_Interval
  <2>. QED
    BY <1>1, <2>1, <2>2 DEF Count
<1>4. ASSUME NEW k \in 1..Len(T)
      PROVE  k \in Page(T, NoFilter, ListCap, 0)
  <2>1. Rank(T, NoFilter, k) \in Nat /\ Rank(T, NoFilter, k) < Len(T)
    BY <1>1, <1>3, RankBelowCount
  <2>. QED
    BY <1>1, <1>2, <2>1, RecordTablesAssumption DEF Page
<1>. QED
  BY <1>1, <1>4 DEF Page

LEMMA UpTo ==
  ASSUME NEW n \in Nat
  PROVE  IsFiniteSet(1..n) /\ Cardinality(1..n) = n
BY FS_Interval

LEMMA TotalCounts ==
  ASSUME TablesInv, NEW t \in Tables, NEW f
  PROVE  /\ t # "sanads" => Total(t, f) = Count(db[t], f)
         /\ t = "sanads" => Total(t, f) = Len(db[t])
         /\ Total(t, f) \in Nat
<1>1. /\ t # "sanads" => Total(t, f) = Count(db[t], f)
      /\ t = "sanads" => Total(t, f) = Len(db[t])
  BY DEF Tables, Total, CountSanads, CountTransfers, CountSeals, CountContracts
<1>2. Len(db[t]) \in Nat
  BY DEF TablesInv, Table
<1>3. Count(db[t], f) \in Nat
  BY <1>2, MatchingFinite
<1>. QED
  BY <1>1, <1>2, <1>3


\* GraphQL walks only have to stay walks.
LEMMA GraphQLPages ==
  ASSUME TablesInv, PagesInv, WalkShape, ListThenCount \/ AnswerWithPageInfo
  PROVE  PagesInv'
<1>1. /\ db' = db /\ walk.api = "graphql"
  BY DEF ListThenCount, AnswerWithPageInfo
<1>2. walk.table \in Tables
  BY <1>1 DEF PagesInv, WalkType
<1>3. CASE ListThenCount
  <2>1. PICK K : /\ K = List(walk.table, walk.filter, walk.limit, walk.offset)
                 /\ walk' = [walk EXCEPT !.phase = "count", !.page = K]
    BY <1>3 DEF ListThenCount
  <2>2. K \subseteq 1..Len(db[walk.table])
    BY <1>2, <2>1, ListIsRows DEF PagesInv
  <2>3. /\ walk'.page = K /\ walk'.api = walk.api
        /\ walk'.table = walk.table /\ walk'.filter = walk.filter
        /\ walk'.limit = walk.limit /\ walk'.offset = walk.offset
        /\ walk'.seen = walk.seen /\ walk'.start = walk.start
    BY <2>1 DEF WalkShape
  <2>. QED
    BY <1>1, <2>2, <2>3 DEF PagesInv, WalkType
<1>4. CASE AnswerWithPageInfo
  <2>1. PICK more : Turn(walk.page, more)
    BY <1>4 DEF AnswerWithPageInfo
  <2>2. /\ walk'.page = {} /\ walk'.api = walk.api
        /\ walk'.table = walk.table /\ walk'.filter = walk.filter
        /\ walk'.limit = walk.limit
        /\ walk'.offset \in {walk.offset, walk.offset + walk.limit}
        /\ walk'.seen = walk.seen \cup walk.page /\ walk'.start = walk.start
    BY <2>1 DEF Turn, WalkShape
  <2>3. walk'.offset \in Nat
    BY <2>2 DEF PagesInv, WalkType
  <2>. QED
    BY <1>1, <2>2, <2>3 DEF PagesInv, WalkType
<1>. QED
  BY <1>3, <1>4

\* The total is counted: it is no smaller than what matched at the start.
LEMMA CountThenListPages ==
  ASSUME TablesInv, PagesInv, WalkShape, CountThenList
  PROVE  PagesInv'
<1>. DEFINE T == db[walk.table]
<1>1. PICK N : /\ N = Total(walk.table, walk.filter)
               /\ walk' = [walk EXCEPT !.phase = "list", !.total = N]
               /\ db' = db /\ walk.phase = "count" /\ walk.api = "rest"
  BY DEF CountThenList
<1>2. /\ walk'.phase = "list" /\ walk'.total = N /\ walk'.api = walk.api
      /\ walk'.table = walk.table /\ walk'.filter = walk.filter
      /\ walk'.limit = walk.limit /\ walk'.offset = walk.offset
      /\ walk'.seen = walk.seen /\ walk'.start = walk.start /\ walk'.page = walk.page
  BY <1>1 DEF WalkShape
<1>3. walk.table \in Tables /\ RestInv(T) /\ walk.start \subseteq 1..Len(T)
  BY <1>1 DEF PagesInv, WalkType
<1>4. Table(T, Columns(walk.table))
  BY <1>3 DEF TablesInv
<1>5. ASSUME LastingFilter PROVE N \in Nat /\ Cardinality(walk.start) <= N
  <2>1. N \in Nat
    BY <1>1, <1>3, TotalCounts
  <2>2. CASE walk.table = "sanads"
    <3>1. N = Len(T) /\ Len(T) \in Nat
      BY <1>1, <1>4, <2>2, TotalCounts DEF Table, Tables
    <3>2. IsFiniteSet(1..Len(T)) /\ Cardinality(1..Len(T)) = Len(T)
      BY <3>1, UpTo
    <3>3. Cardinality(walk.start) <= Cardinality(1..Len(T))
      BY <1>3, <3>2, FS_Subset
    <3>. QED
      BY <2>1, <3>1, <3>2, <3>3
  <2>3. CASE walk.table # "sanads"
    <3>1. N = Count(T, walk.filter)
      BY <1>1, <1>3, <2>3, TotalCounts
    <3>2. walk.start \subseteq Matching(T, walk.filter)
      BY <1>1, <1>3, <1>5 DEF RestInv
    <3>3. IsFiniteSet(Matching(T, walk.filter))
      BY <1>4, MatchingFinite DEF Table
    <3>. QED
      BY <2>1, <3>1, <3>2, <3>3, FS_Subset DEF Count
  <2>. QED
    BY <2>2, <2>3
<1>6. RestInv(db[walk.table])'
  BY <1>1, <1>2, <1>3, <1>5 DEF RestInv, LastingFilter
<1>7. WalkType'
  BY <1>1, <1>2 DEF PagesInv, WalkType
<1>. QED
  BY <1>1, <1>2, <1>6, <1>7 DEF PagesInv

\* A page is shown: the client stops only when the total it was given has
\* been reached, and nothing that matches ranks behind it.
LEMMA AnswerWithTotalPages ==
  ASSUME TablesInv, PagesInv, WalkShape, AnswerWithTotal
  PROVE  PagesInv'
<1>. DEFINE T == db[walk.table]
<1>1. PICK K, more :
        /\ K = List(walk.table, walk.filter, walk.limit, walk.offset)
        /\ more = MorePages(walk.total)
        /\ Turn(K, more)
        /\ db' = db /\ walk.phase = "list" /\ walk.api = "rest"
  BY DEF AnswerWithTotal
<1>2. /\ walk'.phase = IF more THEN "count" ELSE "done"
      /\ walk'.offset = IF more THEN walk.offset + walk.limit ELSE walk.offset
      /\ walk'.seen = walk.seen \cup K /\ walk'.page = {} /\ walk'.api = walk.api
      /\ walk'.table = walk.table /\ walk'.filter = walk.filter
      /\ walk'.limit = walk.limit /\ walk'.start = walk.start
  BY <1>1 DEF Turn, WalkShape, FirstStatement
<1>3. /\ walk.table \in Tables /\ RestInv(T) /\ walk.start \subseteq 1..Len(T)
      /\ walk.limit \in Nat /\ walk.offset \in Nat
  BY <1>1 DEF PagesInv, WalkType
<1>4. Table(T, Columns(walk.table))
  BY <1>3 DEF TablesInv
<1>5. K \subseteq 1..Len(T)
  BY <1>1, <1>3, ListIsRows DEF PagesInv
<1>6. WalkType'
  <2>1. walk'.offset \in Nat
    BY <1>2, <1>3
  <2>. QED
    BY <1>1, <1>2, <1>5, <2>1 DEF PagesInv, WalkType
<1>7. ASSUME walk.table # "sanads", LastingFilter, NEW k \in walk.start \ (walk.seen \cup K)
      PROVE  /\ k \in Matching(T, walk.filter)
             /\ Rank(T, walk.filter, k) \in Nat
             /\ walk.offset + walk.limit <= Rank(T, walk.filter, k)
  <2>1. K = Page(T, walk.filter, walk.limit, walk.offset)
    BY <1>1, <1>3, <1>7 DEF Tables, List, ListTransfers, ListSeals, ListContracts
  <2>2. k \in Matching(T, walk.filter) /\ walk.offset <= Rank(T, walk.filter, k)
    BY <1>1, <1>3, <1>7 DEF RestInv
  <2>3. Rank(T, walk.filter, k) \in Nat
    BY <1>4, <2>2, RankBelowCount
  <2>. QED
    BY <1>3, <1>7, <2>1, <2>2, <2>3 DEF Page
<1>8. ASSUME walk.table # "sanads", LastingFilter, ~more,
             Matching(T, walk.filter) = walk.start,
             NEW k \in walk.start \ (walk.seen \cup K)
      PROVE  FALSE
  <2>1. walk.total \in Nat /\ Cardinality(walk.start) <= walk.total
    BY <1>1, <1>3, <1>8 DEF RestInv
  <2>2. Count(T, walk.filter) <= walk.total /\ Count(T, walk.filter) \in Nat
    BY <1>4, <1>8, <2>1, MatchingFinite DEF Count, Table
  <2>3. /\ k \in Matching(T, walk.filter)
        /\ Rank(T, walk.filter, k) \in Nat
        /\ walk.offset + walk.limit <= Rank(T, walk.filter, k)
    BY <1>7, <1>8
  <2>4. Rank(T, walk.filter, k) < Count(T, walk.filter)
    BY <1>4, <2>3, RankBelowCount
  <2>5. ~(walk.offset + walk.limit < walk.total)
    BY <1>1, <1>8 DEF MorePages
  <2>. QED
    BY <1>3, <2>1, <2>2, <2>3, <2>4, <2>5
<1>9. ASSUME walk.table = "sanads", Len(T) <= ListCap
      PROVE  walk.start \subseteq K
  <2>1. K = Page(T, NoFilter, ListCap, 0)
    BY <1>1, <1>9 DEF List, ListSanads
  <2>. QED
    BY <1>3, <1>4, <1>9, <2>1, SanadsPage
<1>10. RestInv(db[walk.table])'
  <2>1. walk'.phase \in {"count", "done"} /\ (walk'.phase = "done" <=> ~more)
    BY <1>2
  <2>2. LastingFilter' <=> LastingFilter
    BY <1>2 DEF LastingFilter
  <2>3. ASSUME LastingFilter
        PROVE  /\ walk.start \subseteq Matching(T, walk.filter)
               /\ walk.table # "sanads" /\ more =>
                    \A k \in walk.start \ walk'.seen : walk'.offset <= Rank(T, walk.filter, k)
               /\ walk.table # "sanads" /\ ~more =>
                    (Matching(T, walk.filter) = walk.start => walk.start \subseteq walk'.seen)
    <3>1. walk.start \subseteq Matching(T, walk.filter)
      BY <1>1, <1>3, <2>3 DEF RestInv
    <3>. QED
      BY <1>2, <1>7, <1>8, <2>3, <3>1
  <2>4. walk.table = "sanads" /\ Len(T) <= ListCap => walk.start \subseteq walk'.seen
    BY <1>2, <1>9
  <2>. QED
    BY <1>1, <1>2, <2>1, <2>2, <2>3, <2>4 DEF RestInv
<1>. QED
  BY <1>1, <1>2, <1>6, <1>10 DEF PagesInv

\* A list of the enhanced seals is a run of them.
LEMMA SealsPage ==
  ASSUME RowsInv, db.enhanced, NEW limit \in Nat, NEW offset \in Nat
  PROVE  ListEnhancedSeals(db, NoFilter, limit, offset)
           = { k \in 1..Len(db.enhanced_seals) : offset < k /\ k <= offset + limit }
<1>. DEFINE T == db.enhanced_seals
            Scanned(k) == Cardinality({ j \in Matching(T, NoFilter) : j < k })
<1>1. Matching(T, NoFilter) = 1..Len(T)
  BY DEF Matching, Matches, NoFilter
<1>2. Len(T) \in Nat
  BY KeyedRows DEF RowsInv
<1>3. ASSUME NEW k \in 1..Len(T) PROVE Scanned(k) = k - 1
  <2>1. { j \in Matching(T, NoFilter) : j < k } = 1..(k - 1)
    BY <1>1, <1>2
  <2>2. k - 1 \in Nat
    BY <1>2
  <2>. QED
    BY <2>1, <2>2, UpTo
<1>4. ListEnhancedSeals(db, NoFilter, limit, offset)
        = { k \in 1..Len(T) : offset <= Scanned(k) /\ Scanned(k) < offset + limit }
  BY <1>1 DEF ListEnhancedSeals
<1>5. ASSUME NEW k \in 1..Len(T)
      PROVE  offset <= Scanned(k) /\ Scanned(k) < offset + limit
               <=> offset < k /\ k <= offset + limit
  <2>. HIDE DEF Scanned
  <2>. QED
    BY <1>2, <1>3
<1>. HIDE DEF Scanned
<1>. QED
  BY <1>4, <1>5

LEMMA AnswerUncountedPages ==
  ASSUME RowsInv, PagesInv, WalkShape, AnswerUncounted
  PROVE  PagesInv'
<1>. DEFINE T == db[walk.table]
<1>1. PICK K, more :
        /\ K = List(walk.table, walk.filter, walk.limit, walk.offset)
        /\ more = (Cardinality(K) = walk.limit)
        /\ IF K = Failed THEN walk' = [walk EXCEPT !.phase = "failed"] ELSE Turn(K, more)
        /\ db' = db /\ walk.phase = "list" /\ walk.api = "uncounted"
  BY DEF AnswerUncounted
<1>2. /\ walk.table \in Uncounted /\ UncountedInv /\ walk.start \subseteq 1..Len(T)
      /\ walk.limit \in Nat \ {0} /\ walk.offset \in Nat
      /\ walk.table = "enhanced_seals" => walk.filter = NoFilter
  BY <1>1 DEF PagesInv, WalkType
<1>3. CASE K = Failed
  <2>1. /\ walk'.phase = "failed" /\ walk'.offset = walk.offset
        /\ walk'.seen = walk.seen /\ walk'.page = walk.page /\ walk'.api = walk.api
        /\ walk'.table = walk.table /\ walk'.filter = walk.filter
        /\ walk'.limit = walk.limit /\ walk'.start = walk.start
    BY <1>1, <1>3 DEF WalkShape
  <2>. QED
    BY <1>1, <2>1 DEF PagesInv, WalkType, UncountedInv
<1>4. CASE K # Failed
  <2>1. /\ walk'.phase = IF more THEN "list" ELSE "done"
        /\ walk'.offset = IF more THEN walk.offset + walk.limit ELSE walk.offset
        /\ walk'.seen = walk.seen \cup K /\ walk'.page = {} /\ walk'.api = walk.api
        /\ walk'.table = walk.table /\ walk'.filter = walk.filter
        /\ walk'.limit = walk.limit /\ walk'.start = walk.start
    BY <1>1, <1>4 DEF Turn, WalkShape, FirstStatement
  <2>2. /\ K \subseteq 1..Len(T)
        /\ \A k \in walk.start \ (walk.seen \cup K) : more /\ walk.offset + walk.limit < k
    <3>1. CASE walk.table # "enhanced_seals"
      <4>1. Len(T) = 0
        BY <1>2, <3>1 DEF RowsInv, Uncounted
      <4>2. K = {}
        BY <1>1, <1>2, <1>4, <3>1 DEF List, ListEnhancedSanads, GetProofStatistics, Uncounted
      <4>3. walk.start = {}
        BY <1>2, <4>1
      <4>. QED
        BY <4>2, <4>3
    <3>2. CASE walk.table = "enhanced_seals"
      <4>1. K = ListEnhancedSeals(db, NoFilter, walk.limit, walk.offset)
        BY <1>1, <1>2, <3>2 DEF List
      <4>2. db.enhanced
        BY <1>4, <4>1 DEF ListEnhancedSeals
      <4>3. K = { k \in 1..Len(T) : walk.offset < k /\ k <= walk.offset + walk.limit }
        BY <1>2, <3>2, <4>1, <4>2, SealsPage
      <4>4. Len(T) \in Nat
        BY <3>2, KeyedRows DEF RowsInv
      <4>5. ASSUME NEW k \in walk.start \ (walk.seen \cup K)
            PROVE  more /\ walk.offset + walk.limit < k
        <5>1. k \in 1..Len(T) /\ walk.offset < k
          BY <1>1, <1>2 DEF UncountedInv
        <5>2. walk.offset + walk.limit < k
          BY <1>2, <4>3, <4>4, <5>1
        <5>3. K = (walk.offset + 1)..(walk.offset + walk.limit)
          BY <1>2, <4>3, <4>4, <5>1, <5>2
        <5>4. Cardinality(K) = walk.limit
          <6>1. PICK a \in Nat, b \in Nat : a = walk.offset + 1 /\ b = walk.offset + walk.limit
            BY <1>2
          <6>2. K = a..b
            BY <5>3, <6>1
          <6>3. Cardinality(a..b) = IF a > b THEN 0 ELSE b - a + 1
            BY FS_Interval
          <6>. QED
            BY <1>2, <6>1, <6>2, <6>3
        <5>. QED
          BY <1>1, <5>2, <5>4
      <4>. QED
        BY <4>3, <4>5
    <3>. QED
      BY <3>1, <3>2
  <2>3. WalkType'
    <3>1. walk'.offset \in Nat
      BY <1>2, <2>1
    <3>. QED
      BY <1>1, <2>1, <2>2, <3>1 DEF PagesInv, WalkType
  <2>4. UncountedInv'
    <3>1. CASE more
      BY <2>1, <2>2, <3>1 DEF UncountedInv
    <3>2. CASE ~more
      BY <1>2, <2>1, <2>2, <3>2 DEF UncountedInv
    <3>. QED
      BY <3>1, <3>2
  <2>. QED
    BY <1>1, <2>1, <2>3, <2>4 DEF PagesInv
<1>. QED
  BY <1>3, <1>4

LEMMA InitPages ==
  ASSUME NEW u, u = NoWalk
  PROVE  /\ u.phase = "idle" /\ u.api = "rest" /\ u.table = "sanads" /\ u.filter = NoFilter
         /\ u.limit = 1 /\ u.offset = 0 /\ u.page = {} /\ u.seen = {} /\ u.start = {}
BY DEF NoWalk

LEMMA NextPages ==
  ASSUME RecordReadsAssumption, TablesInv, RowsInv, PagesInv, WalkShape, [Next]_vars
  PROVE  PagesInv'
<1>1. CASE Writer
  BY <1>1, WriterPages
<1>2. CASE StartWalk
  BY <1>2, StartPages
<1>3. CASE ListThenCount \/ AnswerWithPageInfo
  BY <1>3, GraphQLPages
<1>4. CASE CountThenList
  BY <1>4, CountThenListPages
<1>5. CASE AnswerWithTotal
  BY <1>5, AnswerWithTotalPages
<1>6. CASE AnswerUncounted
  BY <1>6, AnswerUncountedPages
<1>7. CASE EndWalk
  <2>1. /\ walk'.phase = "idle" /\ walk'.api = "rest" /\ walk'.table = "sanads"
        /\ walk'.filter = NoFilter /\ walk'.limit = 1 /\ walk'.offset = 0
        /\ walk'.page = {} /\ walk'.seen = {} /\ walk'.start = {}
    BY <1>7, InitPages DEF EndWalk
  <2>. QED
    BY <2>1 DEF PagesInv, WalkType, RestInv, Tables
<1>8. CASE \/ StartReport \/ ReadStatistic \/ EndReport
           \/ StartCard \/ ReadAddressSanads \/ ReadAddressSeals
           \/ ReadAddressTransfers \/ EndCard \/ UNCHANGED vars
  <2>1. walk' = walk /\ db' = db
    BY <1>8 DEF StartReport, ReadStatistic, EndReport, StartCard,
                ReadAddressSanads, ReadAddressSeals, ReadAddressTransfers,
                EndCard, vars
  <2>. QED
    BY <2>1 DEF PagesInv, WalkType, RestInv, UncountedInv, LastingFilter
<1>. QED
  BY <1>1, <1>2, <1>3, <1>4, <1>5, <1>6, <1>7, <1>8 DEF Next, Client

LEMMA NextRows ==
  ASSUME RecordReadsAssumption, TablesInv, RowsInv, [Next]_vars
  PROVE  RowsInv'
<1>1. CASE Writer
  BY <1>1, WriterRows
<1>2. CASE ~Writer
  <2>1. db' = db
    BY <1>2 DEF Next, Client, StartWalk, ListThenCount, AnswerWithPageInfo,
         CountThenList, AnswerWithTotal, AnswerUncounted, EndWalk,
         StartReport, ReadStatistic, EndReport, StartCard, ReadAddressSanads,
         ReadAddressSeals, ReadAddressTransfers, EndCard, vars
  <2>. QED
    BY <2>1 DEF RowsInv
<1>. QED
  BY <1>1, <1>2

ReadsInv == IInv /\ RowsInv /\ PagesInv

LEMMA QuietWalks ==
  ASSUME ReadsInv
  PROVE  QuietPagingMissesNothing
<1>. SUFFICES ASSUME walk.phase = "done", walk.api # "graphql", LastingFilter,
                     WithinCap,
                     walk.api = "rest" => Wanted(walk.table, walk.filter) = walk.start
              PROVE  walk.start \subseteq walk.seen
  BY DEF QuietPagingMissesNothing
<1>1. CASE walk.api = "rest"
  <2>1. RestInv(db[walk.table]) /\ Matching(db[walk.table], walk.filter) = walk.start
    BY <1>1 DEF ReadsInv, PagesInv, Wanted
  <2>. QED
    BY <2>1 DEF RestInv, WithinCap
<1>2. CASE walk.api = "uncounted"
  BY <1>2 DEF ReadsInv, PagesInv, UncountedInv
<1>. QED
  BY <1>1, <1>2 DEF ReadsInv, PagesInv, WalkType

LEMMA ReadsInvariant == Spec => []ReadsInv
<1>1. Init => ReadsInv
  <2>1. ASSUME Init PROVE PagesInv
    <3>1. /\ walk.phase = "idle" /\ walk.api = "rest" /\ walk.table = "sanads"
          /\ walk.filter = NoFilter /\ walk.limit = 1 /\ walk.offset = 0
          /\ walk.page = {} /\ walk.seen = {} /\ walk.start = {}
      BY <2>1, InitPages DEF Init
    <3>. QED
      BY <3>1 DEF PagesInv, WalkType, RestInv, Tables
  <2>. QED
    BY <2>1, InitIInv, InitRowsInv DEF ReadsInv
<1>2. ReadsInv /\ [Next]_vars => ReadsInv'
  BY NextIInv, NextRows, NextPages, RecordReadsAssumption DEF ReadsInv, IInv
<1>. QED
  BY <1>1, <1>2, PTL DEF Spec

\* A REST client has been given every row that matched unless more matches
\* than when it began, and a client of the enhanced seals every row there was.
THEOREM QuietWalkMissesNothing == Spec => []QuietPagingMissesNothing
<1>1. ReadsInv => QuietPagingMissesNothing
  BY QuietWalks
<1>. QED
  BY <1>1, ReadsInvariant, PTL

\* The row of an id that some row has.
LEMMA ByIdFinds ==
  ASSUME NEW R, NEW T, Keyed(T, R), NEW id \in Ids(T)
  PROVE  ById(T, id) \in R
<1>1. /\ DOMAIN T = 1..Len(T) /\ \A k \in 1..Len(T) : T[k] \in R
      /\ Ids(T) = { T[k].id : k \in 1..Len(T) }
  BY KeyedRows
<1>2. \E k \in DOMAIN T : T[k].id = id
  BY <1>1
<1>3. PICK k : k = CHOOSE j \in DOMAIN T : T[j].id = id
  OBVIOUS
<1>4. k \in DOMAIN T
  BY <1>2, <1>3
<1>5. ById(T, id) = T[k]
  BY <1>3 DEF ById
<1>. QED
  BY <1>1, <1>4, <1>5

LEMMA ByIdFindsIt ==
  ASSUME NEW R, NEW T, Keyed(T, R), NEW k \in 1..Len(T)
  PROVE  ById(T, T[k].id) = T[k] /\ T[k] \in R /\ T[k].id \in Ids(T)
<1>1. /\ DOMAIN T = 1..Len(T) /\ T[k] \in R
      /\ Ids(T) = { T[j].id : j \in 1..Len(T) }
  BY KeyedRows
<1>2. PICK j : j = CHOOSE i \in DOMAIN T : T[i].id = T[k].id
  OBVIOUS
<1>3. j \in DOMAIN T /\ T[j].id = T[k].id
  BY <1>1, <1>2
<1>4. j = k
  BY <1>1, <1>3 DEF Keyed, HasKey
<1>5. T[k].id \in Ids(T)
  BY <1>1
<1>. QED
  BY <1>1, <1>2, <1>4, <1>5 DEF ById

LEMMA ShownIsShown ==
  ASSUME AnswersAssumption, NEW t \in Transfers
  PROVE  Shown(t) # NotFound
<1>1. t # NotFound
  BY DEF AnswersAssumption
<1>2. Shown(t) = [t EXCEPT !.status = ShownTransferStatus(t.status)]
  BY <1>1 DEF Shown, Transfers
<1>3. ShownTransferStatus(t.status)
        \in {"initiated", "submitting_proof", "completed", "failed"}
  BY DEF ShownTransferStatus
<1>4. Shown(t) \in ShownTransfers
  BY <1>2, <1>3 DEF Transfers, ShownTransfers
<1>. QED
  BY <1>4 DEF AnswersAssumption

LEMMA TransferFollowed ==
  ASSUME AnswersAssumption, RowsInv, NEW k \in 1..Len(db.transfers),
         NEW r, r = db.transfers[k]
  PROVE  /\ RestTransfer(db, r.id) # NotFound /\ GqlTransfer(db, r.id) # NotFound
         /\ RestSanad(db, r.sanad) # NotFound /\ GqlSanad(db, r.sanad) # NotFound
         /\ k \in GqlTransfersBySanad(db, r.sanad)
<1>1. GetTransfer(db, r.id) = r /\ r \in Transfers
  BY ByIdFindsIt DEF RowsInv, GetTransfer
<1>2. RestTransfer(db, r.id) # NotFound /\ GqlTransfer(db, r.id) # NotFound
  BY <1>1, ShownIsShown DEF RestTransfer, GqlTransfer
<1>3. GetSanad(db, r.sanad) \in Sanads
  BY ByIdFinds DEF RowsInv, GetSanad
<1>4. RestSanad(db, r.sanad) # NotFound /\ GqlSanad(db, r.sanad) # NotFound
  BY <1>3 DEF RestSanad, GqlSanad, AnswersAssumption
<1>5. k \in GqlTransfersBySanad(db, r.sanad)
  BY DEF GqlTransfersBySanad, TransfersBySanad, Matching, Matches
<1>. QED
  BY <1>2, <1>4, <1>5

LEMMA LeastNatural ==
  ASSUME NEW S, S \subseteq Nat, S # {}
  PROVE  \E m \in S : \A n \in S : m <= n
<1>. DEFINE Less == { pair \in Nat \X Nat : pair[1] < pair[2] }
<1>1. IsWellFoundedOn(Less, Nat)
  BY NatLessThanWellFounded DEF OpToRel
<1>2. PICK m \in S : \A n \in S : <<n, m>> \notin Less
  <2>. HIDE DEF Less
  <2>. QED
    BY <1>1, WFMin
<1>3. ASSUME NEW n \in S PROVE m <= n
  <2>1. <<n, m>>[1] = n /\ <<n, m>>[2] = m /\ <<n, m>> \in Nat \X Nat
    OBVIOUS
  <2>2. ~(n < m)
    BY <1>2, <2>1
  <2>. QED
    BY <2>2
<1>. QED
  BY <1>3

LEMMA SealFollowed ==
  ASSUME AnswersAssumption, RowsInv, NEW k \in 1..Len(db.seals),
         NEW r, r = db.seals[k]
  PROVE  /\ RestSeal(db, r.id) # NotFound /\ GqlSeal(db, r.id) # NotFound
         /\ GqlSealByNativeId(db, r.seal_ref) # NotFound
         /\ r.sanad # NoSanad =>
              RestSanad(db, r.sanad) # NotFound /\ k \in GqlSealsBySanad(db, r.sanad)
<1>0. /\ DOMAIN db.seals = 1..Len(db.seals) /\ Len(db.seals) \in Nat
      /\ \A j \in 1..Len(db.seals) : db.seals[j] \in Seals
  BY KeyedRows DEF RowsInv
<1>1. GetSeal(db, r.id) = r /\ r \in Seals
  BY ByIdFindsIt DEF RowsInv, GetSeal
<1>2. RestSeal(db, r.id) # NotFound /\ GqlSeal(db, r.id) # NotFound
  BY <1>1 DEF RestSeal, GqlSeal, AnswersAssumption
<1>3. GqlSealByNativeId(db, r.seal_ref) # NotFound
  <2>1. PICK K : K = { j \in DOMAIN db.seals : db.seals[j].seal_ref = r.seal_ref }
    OBVIOUS
  <2>2. K \in SUBSET Nat /\ K # {} /\ K \subseteq 1..Len(db.seals)
    BY <1>0, <2>1
  <2>3. PICK i : i = CHOOSE j \in K : \A l \in K : j <= l
    OBVIOUS
  <2>4. i \in K
    BY <2>2, <2>3, LeastNatural
  <2>5. GqlSealByNativeId(db, r.seal_ref) = db.seals[i]
    BY <2>1, <2>2, <2>3 DEF GqlSealByNativeId, GetSealByNativeId
  <2>6. db.seals[i] \in Seals
    BY <1>0, <2>2, <2>4
  <2>. QED
    BY <2>5, <2>6 DEF AnswersAssumption
<1>4. ASSUME r.sanad # NoSanad
      PROVE  RestSanad(db, r.sanad) # NotFound /\ k \in GqlSealsBySanad(db, r.sanad)
  <2>1. GetSanad(db, r.sanad) \in Sanads
    BY <1>4, ByIdFinds DEF RowsInv, GetSanad
  <2>2. k \in GqlSealsBySanad(db, r.sanad)
    BY DEF GqlSealsBySanad, SealsBySanad, Matching, Matches
  <2>. QED
    BY <2>1, <2>2 DEF RestSanad, AnswersAssumption
<1>. QED
  BY <1>2, <1>3, <1>4

LEMMA FirstEnhancedSealFollowed ==
  ASSUME AnswersAssumption, RowsInv, 1 \in 1..Len(db.enhanced_seals),
         NEW r, r = db.enhanced_seals[1]
  PROVE  RestEnhancedSeal(db, r.id) = r
<1>1. Len(db.enhanced_seals) \in Nat
  BY KeyedRows DEF RowsInv
<1>2. db.enhanced
  <2>1. db.enhanced_seals # << >>
    BY <1>1
  <2>. QED
    BY <2>1 DEF RowsInv
<1>3. ListEnhancedSeals(db, NoFilter, 1, 0) = {1}
  <2>1. ListEnhancedSeals(db, NoFilter, 1, 0)
          = { k \in 1..Len(db.enhanced_seals) : 0 < k /\ k <= 0 + 1 }
    BY <1>2, SealsPage
  <2>. QED
    BY <1>1, <2>1
<1>4. ById(db.enhanced_seals, r.id) = r
  BY ByIdFindsIt DEF RowsInv
<1>. QED
  BY <1>3, <1>4 DEF RestEnhancedSeal, AnswersAssumption

LEMMA SeenFollowed ==
  ASSUME AnswersAssumption, ReadsInv
  PROVE  LinksCanBeFollowed
<1>. SUFFICES ASSUME NEW k \in walk.seen, NEW r, r = db[walk.table][k]
              PROVE
    /\ walk.table = "transfers" =>
         /\ NotFound \notin {RestTransfer(db, r.id), GqlTransfer(db, r.id),
                            RestSanad(db, r.sanad), GqlSanad(db, r.sanad)}
         /\ k \in GqlTransfersBySanad(db, r.sanad)
    /\ walk.table = "seals" =>
         /\ NotFound \notin {RestSeal(db, r.id), GqlSeal(db, r.id),
                            GqlSealByNativeId(db, r.seal_ref)}
         /\ r.sanad # NoSanad =>
              RestSanad(db, r.sanad) # NotFound /\ k \in GqlSealsBySanad(db, r.sanad)
    /\ walk.table = "contracts" => GqlContract(db, r.id) # NotFound
    /\ walk.table = "enhanced_seals" /\ k = 1 => RestEnhancedSeal(db, r.id) = r
  BY DEF LinksCanBeFollowed
<1>1. k \in 1..Len(db[walk.table]) /\ RowsInv
  BY DEF ReadsInv, PagesInv, WalkType
<1>2. walk.table = "contracts" => GqlContract(db, r.id) # NotFound
  BY <1>1, ByIdFindsIt DEF RowsInv, GqlContract, GetContract, AnswersAssumption
<1>3. walk.table = "enhanced_seals" /\ k = 1 => RestEnhancedSeal(db, r.id) = r
  BY <1>1, FirstEnhancedSealFollowed
<1>. QED
  BY <1>1, <1>2, <1>3, TransferFollowed, SealFollowed

\* Whatever a client has been shown it can follow at any later time.
THEOREM SeenCanBeFollowed == Spec => []LinksCanBeFollowed
<1>1. ReadsInv => LinksCanBeFollowed
  BY SeenFollowed, AnswersAssumption
<1>2. Spec => []ReadsInv
  BY ReadsInvariant
<1>. QED
  BY <1>1, <1>2, PTL

-----------------------------------------------------------------------------
(* The data of an address.                                                 *)

CardInv ==
  /\ card = [phase |-> card.phase, address |-> card.address, sanads |-> card.sanads,
             seals |-> card.seals, transfers |-> card.transfers, start |-> card.start]
  /\ card.start \cup card.transfers \subseteq 1..Len(db.transfers)
  /\ \A k \in card.start : db.transfers[k].from_owner = card.address
  /\ card.phase = "done" /\ Len(db.transfers) <= ListCap =>
       card.start \subseteq card.transfers

LEMMA WriterCard ==
  ASSUME RecordReadsAssumption, TablesInv, CardInv, Writer
  PROVE  CardInv'
<1>1. Grows(db.transfers, db'.transfers, Lasting("transfers"))
  BY WriterGrows DEF Tables
<1>2. "from_owner" \in Lasting("transfers")
  BY DEF Lasting, TransferColumns, TransferUpdates
<1>3. card' = card
  BY DEF Writer, InsertSanad, InsertTransfer, InsertSeal, InsertContract,
         UpdateTransferStatus, UpdateSealStatus, InitEnhanced,
         InsertEnhancedSeal, Write, clients
<1>4. /\ Len(db.transfers) \in Nat /\ Len(db'.transfers) \in Nat
      /\ Len(db.transfers) <= Len(db'.transfers)
      /\ \A k \in 1..Len(db.transfers) :
           db'.transfers[k]["from_owner"] = db.transfers[k]["from_owner"]
  BY <1>1, <1>2 DEF Grows
<1>5. card.start \cup card.transfers \subseteq 1..Len(db'.transfers)
  BY <1>4 DEF CardInv
<1>6. \A k \in card.start : db'.transfers[k].from_owner = card.address
  BY <1>4 DEF CardInv
<1>7. Len(db'.transfers) <= ListCap => Len(db.transfers) <= ListCap
  BY <1>4, RecordTablesAssumption
<1>. QED
  BY <1>3, <1>5, <1>6, <1>7 DEF CardInv

LEMMA CardSteps ==
  ASSUME TablesInv, RowsInv, CardInv,
         \/ StartCard \/ ReadAddressSanads \/ ReadAddressSeals
         \/ ReadAddressTransfers \/ EndCard
  PROVE  CardInv'
<1>1. db' = db
  BY DEF StartCard, ReadAddressSanads, ReadAddressSeals, ReadAddressTransfers, EndCard
<1>2. CASE StartCard
  <2>1. PICK a : card' = [NoCard EXCEPT !.phase = "sanads", !.address = a,
                            !.start = SentBy(a)]
    BY <1>2 DEF StartCard
  <2>2. /\ card'.phase = "sanads" /\ card'.address = a /\ card'.start = SentBy(a)
        /\ card'.transfers = {}
        /\ card' = [phase |-> card'.phase, address |-> card'.address,
                    sanads |-> card'.sanads, seals |-> card'.seals,
                    transfers |-> card'.transfers, start |-> card'.start]
    BY <2>1 DEF NoCard
  <2>3. DOMAIN db.transfers = 1..Len(db.transfers)
    BY KeyedRows DEF RowsInv
  <2>. QED
    BY <1>1, <2>2, <2>3 DEF CardInv, SentBy
<1>3. CASE ReadAddressSanads \/ ReadAddressSeals
  <2>1. \/ \E K : card' = [card EXCEPT !.phase = "seals", !.sanads = K]
        \/ \E K : card' = [card EXCEPT !.phase = "transfers", !.seals = K]
    BY <1>3 DEF ReadAddressSanads, ReadAddressSeals
  <2>2. /\ card'.phase # "done" /\ card'.address = card.address
        /\ card'.start = card.start /\ card'.transfers = card.transfers
        /\ card' = [phase |-> card'.phase, address |-> card'.address,
                    sanads |-> card'.sanads, seals |-> card'.seals,
                    transfers |-> card'.transfers, start |-> card'.start]
    BY <2>1 DEF CardInv
  <2>. QED
    BY <1>1, <2>2 DEF CardInv
<1>4. CASE ReadAddressTransfers
  <2>1. PICK K : /\ K = AddressTransfers(db, card.address)
                 /\ card' = [card EXCEPT !.phase = "done", !.transfers = K]
    BY <1>4 DEF ReadAddressTransfers
  <2>2. /\ card'.address = card.address /\ card'.start = card.start /\ card'.transfers = K
        /\ card' = [phase |-> card'.phase, address |-> card'.address,
                    sanads |-> card'.sanads, seals |-> card'.seals,
                    transfers |-> card'.transfers, start |-> card'.start]
    BY <2>1 DEF CardInv
  <2>3. K = Involving(db.transfers, Page(db.transfers, NoFilter, ListCap, 0), card.address)
    BY <2>1 DEF AddressTransfers, ListTransfers
  <2>4. K \subseteq 1..Len(db.transfers)
    BY <2>3 DEF Involving, Page, Matching
  <2>5. ASSUME Len(db.transfers) <= ListCap PROVE card.start \subseteq K
    <3>1. Page(db.transfers, NoFilter, ListCap, 0) = 1..Len(db.transfers)
      BY <2>5, SanadsPage DEF TablesInv, Tables
    <3>. QED
      BY <2>3, <3>1 DEF CardInv, Involving
  <2>. QED
    BY <1>1, <2>2, <2>4, <2>5 DEF CardInv
<1>5. CASE EndCard
  BY <1>1, <1>5 DEF EndCard, NoCard, CardInv
<1>. QED
  BY <1>2, <1>3, <1>4, <1>5

LEMMA NextCard ==
  ASSUME RecordReadsAssumption, TablesInv, RowsInv, CardInv, [Next]_vars
  PROVE  CardInv'
<1>1. CASE Writer
  BY <1>1, WriterCard
<1>2. CASE \/ StartCard \/ ReadAddressSanads \/ ReadAddressSeals
           \/ ReadAddressTransfers \/ EndCard
  BY <1>2, CardSteps
<1>3. CASE \/ StartWalk \/ ListThenCount \/ AnswerWithPageInfo
           \/ CountThenList \/ AnswerWithTotal \/ AnswerUncounted \/ EndWalk
           \/ StartReport \/ ReadStatistic \/ EndReport \/ UNCHANGED vars
  <2>1. card' = card /\ db' = db
    BY <1>3 DEF StartWalk, ListThenCount, AnswerWithPageInfo, CountThenList,
                AnswerWithTotal, AnswerUncounted, EndWalk, StartReport,
                ReadStatistic, EndReport, vars
  <2>. QED
    BY <2>1 DEF CardInv
<1>. QED
  BY <1>1, <1>2, <1>3 DEF Next, Client

\* The data of an address have every transfer it had sent when it asked, while
\* the transfers fit the window, and the sanads these transfers name.
THEOREM AddressSeesAll == Spec => []AddressSeesItsTransfers
<1>1. Init => CardInv
  BY DEF Init, NoCard, CardInv
<1>2. ReadsInv /\ CardInv /\ [Next]_vars => CardInv'
  BY NextCard, RecordReadsAssumption DEF ReadsInv, IInv
<1>3. ReadsInv /\ CardInv => AddressSeesItsTransfers
  <2>. SUFFICES ASSUME ReadsInv, CardInv, card.phase = "done", Len(db.transfers) <= ListCap,
                       NEW k \in card.transfers
                PROVE  GetSanad(db, db.transfers[k].sanad) # NotFound
    BY DEF AddressSeesItsTransfers, CardInv
  <2>1. GetSanad(db, db.transfers[k].sanad) \in Sanads
    BY ByIdFinds DEF ReadsInv, RowsInv, CardInv, GetSanad
  <2>. QED
    BY <2>1, AnswersAssumption DEF AnswersAssumption
<1>. QED
  BY <1>1, <1>2, <1>3, ReadsInvariant, PTL DEF Spec

-----------------------------------------------------------------------------
(* The statistics.                                                         *)

\* The sizes of the classes a set falls into add up to its size: the pairs
\* that Sum counts and the members of the set correspond one to one.
LEMMA ClassesAddUp ==
  ASSUME NEW K, IsFiniteSet(K), NEW g, DOMAIN g = K,
         NEW f, f = [v \in { g[k] : k \in K } |-> Cardinality({ k \in K : g[k] = v })]
  PROVE  Sum(f) = Cardinality(K)
<1>. DEFINE V == { g[k] : k \in K }
            C(v) == { k \in K : g[k] = v }
<1>1. ASSUME NEW v \in V
      PROVE  /\ f[v] = Cardinality(C(v)) /\ f[v] \in Nat
             /\ \E b : b \in Bijection(1..f[v], C(v))
  <2>1. C(v) \in SUBSET K
    OBVIOUS
  <2>2. IsFiniteSet(C(v))
    BY <2>1, FS_Subset
  <2>. HIDE DEF C
  <2>3. Cardinality(C(v)) \in Nat /\ ExistsBijection(1..Cardinality(C(v)), C(v))
    BY <2>2, FS_CardinalityType
  <2>4. f[v] = Cardinality(C(v))
    BY DEF C
  <2>. QED
    BY <2>3, <2>4 DEF ExistsBijection
<1>2. PICK B : B = [v \in V |-> CHOOSE b : b \in Bijection(1..f[v], C(v))]
  OBVIOUS
<1>3. PICK P : P = UNION { {v} \X (1..f[v]) : v \in DOMAIN f }
  OBVIOUS
<1>4. ASSUME NEW v \in V
      PROVE  /\ B[v] \in [1..f[v] -> C(v)]
             /\ \A i, j \in 1..f[v] : B[v][i] = B[v][j] => i = j
             /\ \A k \in C(v) : \E i \in 1..f[v] : B[v][i] = k
  <2>. HIDE DEF C
  <2>1. B[v] \in Bijection(1..f[v], C(v))
    BY <1>1, <1>2
  <2>. QED
    BY <2>1 DEF Bijection, Injection, Surjection, IsInjective
<1>5. ASSUME NEW p \in P
      PROVE  p[1] \in V /\ p[2] \in 1..f[p[1]] /\ p = <<p[1], p[2]>>
  <2>1. DOMAIN f = V
    OBVIOUS
  <2>2. PICK v \in DOMAIN f : p \in {v} \X (1..f[v])
    BY <1>3
  <2>. QED
    BY <2>1, <2>2
<1>6. ASSUME NEW v \in V, NEW i \in 1..f[v]
      PROVE  <<v, i>> \in P
  <2>1. v \in DOMAIN f /\ <<v, i>> \in {v} \X (1..f[v])
    OBVIOUS
  <2>. QED
    BY <1>3, <2>1
<1>7. PICK h : h = [p \in P |-> B[p[1]][p[2]]]
  OBVIOUS
<1>. HIDE DEF V, C
<1>8. \A p \in P : h[p] \in K /\ g[h[p]] = p[1]
  <2>1. ASSUME NEW p \in P
        PROVE  h[p] \in C(p[1])
    <3>1. h[p] = B[p[1]][p[2]]
      BY <1>7
    <3>2. p[1] \in V /\ p[2] \in 1..f[p[1]]
      BY <1>5
    <3>3. B[p[1]] \in [1..f[p[1]] -> C(p[1])]
      BY <1>4, <3>2
    <3>. QED
      BY <3>1, <3>2, <3>3
  <2>. QED
    BY <2>1 DEF C
<1>9. ASSUME NEW p \in P, NEW q \in P, h[p] = h[q] PROVE p = q
  <2>1. p[1] = q[1]
    BY <1>8, <1>9
  <2>2. B[p[1]][p[2]] = B[p[1]][q[2]]
    BY <1>7, <1>9, <2>1
  <2>3. /\ p[1] \in V /\ p[2] \in 1..f[p[1]] /\ p = <<p[1], p[2]>>
        /\ q[2] \in 1..f[p[1]] /\ q = <<p[1], q[2]>>
    BY <1>5, <2>1
  <2>4. \A i, j \in 1..f[p[1]] : B[p[1]][i] = B[p[1]][j] => i = j
    BY <1>4, <2>3
  <2>5. p[2] = q[2]
    BY <2>2, <2>3, <2>4
  <2>. QED
    BY <2>3, <2>5
<1>10. ASSUME NEW k \in K PROVE \E p \in P : h[p] = k
  <2>1. g[k] \in V /\ k \in C(g[k])
    BY DEF V, C
  <2>2. PICK i \in 1..f[g[k]] : B[g[k]][i] = k
    BY <1>4, <2>1
  <2>3. <<g[k], i>> \in P
    BY <1>6, <2>1, <2>2
  <2>. QED
    BY <1>7, <2>2, <2>3
<1>11. ExistsBijection(P, K)
  <2>1. h \in [P -> K]
    BY <1>7, <1>8
  <2>2. h \in Bijection(P, K)
    BY <1>9, <1>10, <2>1 DEF Bijection, Injection, Surjection, IsInjective
  <2>. QED
    BY <2>2 DEF ExistsBijection
<1>12. Cardinality(P) = Cardinality(K)
  BY <1>11, Fun_ExistsBijSymmetric, FS_Bijection
<1>. QED
  BY <1>3, <1>12 DEF Sum

LEMMA BreakdownsAddUp ==
  ASSUME RowsInv
  PROVE  /\ Sum(GroupCount(db.sanads, DOMAIN db.sanads, LAMBDA r : r.chain)) = Len(db.sanads)
         /\ Sum(GroupCount(db.transfers, DOMAIN db.transfers,
                           LAMBDA r : <<r.from_chain, r.to_chain>>)) = Len(db.transfers)
         /\ Sum(GroupCount(db.seals, ActiveSeals, LAMBDA r : r.chain)) \in 0..Len(db.seals)
<1>0. /\ DOMAIN db.sanads = 1..Len(db.sanads) /\ Len(db.sanads) \in Nat
      /\ DOMAIN db.transfers = 1..Len(db.transfers) /\ Len(db.transfers) \in Nat
      /\ DOMAIN db.seals = 1..Len(db.seals) /\ Len(db.seals) \in Nat
  BY KeyedRows DEF RowsInv
<1>1. Sum(GroupCount(db.sanads, DOMAIN db.sanads, LAMBDA r : r.chain)) = Len(db.sanads)
  <2>1. PICK K : K = DOMAIN db.sanads
    OBVIOUS
  <2>2. PICK g : g = [k \in K |-> db.sanads[k].chain]
    OBVIOUS
  <2>3. PICK f : f = [v \in { g[k] : k \in K } |-> Cardinality({ k \in K : g[k] = v })]
    OBVIOUS
  <2>4. GroupCount(db.sanads, DOMAIN db.sanads, LAMBDA r : r.chain) = f
    <3>1. { db.sanads[k].chain : k \in K } = { g[k] : k \in K }
      BY <2>2
    <3>2. \A v : { k \in K : db.sanads[k].chain = v } = { k \in K : g[k] = v }
      BY <2>2
    <3>. QED
      BY <2>1, <2>3, <3>1, <3>2 DEF GroupCount
  <2>5. IsFiniteSet(K) /\ Cardinality(K) = Len(db.sanads)
    BY <1>0, <2>1, UpTo
  <2>. QED
    BY <2>2, <2>3, <2>4, <2>5, ClassesAddUp
<1>2. Sum(GroupCount(db.transfers, DOMAIN db.transfers,
                     LAMBDA r : <<r.from_chain, r.to_chain>>)) = Len(db.transfers)
  <2>1. PICK K : K = DOMAIN db.transfers
    OBVIOUS
  <2>2. PICK g : g = [k \in K |-> <<db.transfers[k].from_chain, db.transfers[k].to_chain>>]
    OBVIOUS
  <2>3. PICK f : f = [v \in { g[k] : k \in K } |-> Cardinality({ k \in K : g[k] = v })]
    OBVIOUS
  <2>4. GroupCount(db.transfers, DOMAIN db.transfers,
                   LAMBDA r : <<r.from_chain, r.to_chain>>) = f
    <3>1. { <<db.transfers[k].from_chain, db.transfers[k].to_chain>> : k \in K }
            = { g[k] : k \in K }
      BY <2>2
    <3>2. \A v : { k \in K : <<db.transfers[k].from_chain, db.transfers[k].to_chain>> = v }
                   = { k \in K : g[k] = v }
      BY <2>2
    <3>. QED
      BY <2>1, <2>3, <3>1, <3>2 DEF GroupCount
  <2>5. IsFiniteSet(K) /\ Cardinality(K) = Len(db.transfers)
    BY <1>0, <2>1, UpTo
  <2>6. DOMAIN g = K
    BY <2>2
  <2>7. Sum(f) = Len(db.transfers)
    BY <2>3, <2>5, <2>6, ClassesAddUp
  <2>. QED
    BY <2>4, <2>7, Zenon
<1>3. Sum(GroupCount(db.seals, ActiveSeals, LAMBDA r : r.chain)) \in 0..Len(db.seals)
  <2>1. PICK K : K = ActiveSeals
    OBVIOUS
  <2>2. PICK g : g = [k \in K |-> db.seals[k].chain]
    OBVIOUS
  <2>3. PICK f : f = [v \in { g[k] : k \in K } |-> Cardinality({ k \in K : g[k] = v })]
    OBVIOUS
  <2>4. GroupCount(db.seals, ActiveSeals, LAMBDA r : r.chain) = f
    <3>1. { db.seals[k].chain : k \in K } = { g[k] : k \in K }
      BY <2>2
    <3>2. \A v : { k \in K : db.seals[k].chain = v } = { k \in K : g[k] = v }
      BY <2>2
    <3>. QED
      BY <2>1, <2>3, <3>1, <3>2 DEF GroupCount
  <2>5. IsFiniteSet(1..Len(db.seals)) /\ Cardinality(1..Len(db.seals)) = Len(db.seals)
    BY <1>0, UpTo
  <2>6. K \in SUBSET (1..Len(db.seals))
    BY <1>0, <2>1 DEF ActiveSeals
  <2>7. IsFiniteSet(K) /\ Cardinality(K) <= Len(db.seals)
    BY <2>5, <2>6, FS_Subset
  <2>8. Cardinality(K) \in Nat
    BY <2>7, FS_CardinalityType
  <2>9. Sum(f) = Cardinality(K)
    BY <2>2, <2>3, <2>7, ClassesAddUp
  <2>. QED
    BY <1>0, <2>4, <2>7, <2>8, <2>9
<1>. QED
  BY <1>1, <1>2, <1>3

\* The statements of a report have names of their own.
LEMMA StatsNames ==
  /\ Len(StatsOrder) = 9
  /\ \A m, n \in 1..9 : StatsOrder[m] = StatsOrder[n] => m = n
<1>1. /\ StatsOrder[1] = "sanads" /\ StatsOrder[2] = "transfers" /\ StatsOrder[3] = "seals"
      /\ StatsOrder[4] = "contracts" /\ StatsOrder[5] = "sanads_by_chain"
      /\ StatsOrder[6] = "transfers_by_pair" /\ StatsOrder[7] = "active_seals"
      /\ StatsOrder[8] = "completed" /\ StatsOrder[9] = "failed"
      /\ Len(StatsOrder) = 9
  BY DEF StatsOrder
<1>2. ASSUME NEW m \in 1..9
      PROVE  m = 1 \/ m = 2 \/ m = 3 \/ m = 4 \/ m = 5 \/ m = 6 \/ m = 7 \/ m = 8 \/ m = 9
  OBVIOUS
<1>. QED
  BY <1>1, <1>2

\* The statements read so far.
ReadSoFar(c) == { StatsOrder[m] : m \in 1..c }

LEMMA ReadSoFarCounts ==
  ASSUME NEW c \in 0..9
  PROVE  Cardinality(ReadSoFar(c)) = c
<1>1. PICK f : f = [m \in 1..c |-> StatsOrder[m]]
  OBVIOUS
<1>2. 1..c \subseteq 1..9
  OBVIOUS
<1>3. f \in Bijection(1..c, ReadSoFar(c))
  BY <1>1, <1>2, StatsNames DEF ReadSoFar, Bijection, Injection, Surjection, IsInjective
<1>4. ExistsBijection(1..c, ReadSoFar(c))
  BY <1>3 DEF ExistsBijection
<1>. QED
  BY <1>4, FS_CountingElements

\* What holds of the statistics read so far; their totals are past lengths.
StatsInv(read) ==
  /\ "sanads" \in DOMAIN read => read["sanads"] \in 0..Len(db.sanads)
  /\ "transfers" \in DOMAIN read => read["transfers"] \in 0..Len(db.transfers)
  /\ "sanads_by_chain" \in DOMAIN read =>
       /\ Sum(read["sanads_by_chain"]) \in 0..Len(db.sanads)
       /\ read["sanads"] <= Sum(read["sanads_by_chain"])
  /\ "transfers_by_pair" \in DOMAIN read =>
       /\ Sum(read["transfers_by_pair"]) \in 0..Len(db.transfers)
       /\ read["transfers"] <= Sum(read["transfers_by_pair"])
  /\ "active_seals" \in DOMAIN read => Sum(read["active_seals"]) \in 0..Len(db.seals)
  /\ "completed" \in DOMAIN read => read["completed"] \in 0..Len(db.transfers)

ReportInv ==
  /\ report = [phase |-> report.phase, read |-> report.read]
  /\ \E c \in 0..9 :
       /\ DOMAIN report.read = ReadSoFar(c)
       /\ report.phase = "reading" => c < 9
       /\ report.phase = "done" => c = 9
  /\ StatsInv(report.read)

LEMMA WriterReport ==
  ASSUME RecordReadsAssumption, TablesInv, ReportInv, Writer
  PROVE  ReportInv'
<1>1. \A u \in Tables : Grows(db[u], db'[u], Lasting(u))
  BY WriterGrows
<1>2. report' = report
  BY DEF Writer, InsertSanad, InsertTransfer, InsertSeal, InsertContract,
         UpdateTransferStatus, UpdateSealStatus, InitEnhanced,
         InsertEnhancedSeal, Write, clients
<1>3. /\ 0..Len(db.sanads) \subseteq 0..Len(db'.sanads)
      /\ 0..Len(db.transfers) \subseteq 0..Len(db'.transfers)
      /\ 0..Len(db.seals) \subseteq 0..Len(db'.seals)
  BY <1>1 DEF Grows, Tables
<1>4. StatsInv(report.read)'
  BY <1>2, <1>3 DEF ReportInv, StatsInv
<1>. QED
  BY <1>2, <1>4 DEF ReportInv

\* What a statement answers.
LEMMA StatisticNow ==
  ASSUME TablesInv, RowsInv
  PROVE  /\ Statistic("sanads") = Len(db.sanads)
         /\ Statistic("transfers") = Len(db.transfers)
         /\ Sum(Statistic("sanads_by_chain")) = Len(db.sanads)
         /\ Sum(Statistic("transfers_by_pair")) = Len(db.transfers)
         /\ Sum(Statistic("active_seals")) \in 0..Len(db.seals)
         /\ Statistic("completed") \in 0..Len(db.transfers)
         /\ Len(db.sanads) \in Nat /\ Len(db.transfers) \in Nat
<1>1. /\ DOMAIN db.transfers = 1..Len(db.transfers) /\ Len(db.transfers) \in Nat
      /\ Len(db.sanads) \in Nat
  BY KeyedRows DEF RowsInv
<1>2. IsFiniteSet(1..Len(db.transfers)) /\ Cardinality(1..Len(db.transfers)) = Len(db.transfers)
  BY <1>1, UpTo
<1>3. Statistic("sanads") = Len(db.sanads)
  BY DEF Statistic, CountSanads
<1>4. Statistic("transfers") = Len(db.transfers)
  <2>1. Matching(db.transfers, NoFilter) = 1..Len(db.transfers)
    BY DEF Matching, Matches, NoFilter
  <2>. QED
    BY <1>2, <2>1 DEF Statistic, CountTransfers, Count
<1>5. Statistic("completed") \in 0..Len(db.transfers)
  <2>1. PICK K : K = TransfersThatAre("completed")
    OBVIOUS
  <2>2. K \in SUBSET (1..Len(db.transfers))
    BY <1>1, <2>1 DEF TransfersThatAre
  <2>3. IsFiniteSet(K) /\ Cardinality(K) <= Len(db.transfers)
    BY <1>2, <2>2, FS_Subset
  <2>4. Cardinality(K) \in Nat
    BY <2>3, FS_CardinalityType
  <2>5. Statistic("completed") = Cardinality(K)
    BY <2>1 DEF Statistic
  <2>. QED
    BY <1>1, <2>3, <2>4, <2>5
<1>6. Statistic("sanads_by_chain")
        = GroupCount(db.sanads, DOMAIN db.sanads, LAMBDA r : r.chain)
  BY DEF Statistic
<1>7. Statistic("transfers_by_pair")
        = GroupCount(db.transfers, DOMAIN db.transfers,
                     LAMBDA r : <<r.from_chain, r.to_chain>>)
  BY DEF Statistic
<1>8. Statistic("active_seals") = GroupCount(db.seals, ActiveSeals, LAMBDA r : r.chain)
  BY DEF Statistic
<1>9. /\ Sum(Statistic("sanads_by_chain")) = Len(db.sanads)
      /\ Sum(Statistic("transfers_by_pair")) = Len(db.transfers)
      /\ Sum(Statistic("active_seals")) \in 0..Len(db.seals)
  BY <1>6, <1>7, <1>8, BreakdownsAddUp, Zenon
<1>. QED
  BY <1>1, <1>3, <1>4, <1>5, <1>9

\* A total is read before the breakdown it is compared with.
LEMMA StatsOrdered ==
  ASSUME NEW c \in 0..8
  PROVE  /\ StatsOrder[c + 1] \notin ReadSoFar(c)
         /\ ReadSoFar(c + 1) = ReadSoFar(c) \cup {StatsOrder[c + 1]}
         /\ StatsOrder[c + 1] = "sanads_by_chain" => "sanads" \in ReadSoFar(c)
         /\ StatsOrder[c + 1] = "transfers_by_pair" => "transfers" \in ReadSoFar(c)
<1>1. StatsOrder[c + 1] \notin ReadSoFar(c)
  <2>1. c + 1 \in 1..9 /\ 1..c \subseteq 1..9 /\ c + 1 \notin 1..c
    OBVIOUS
  <2>. QED
    BY <2>1, StatsNames DEF ReadSoFar
<1>2. ReadSoFar(c + 1) = ReadSoFar(c) \cup {StatsOrder[c + 1]}
  <2>1. 1..(c + 1) = (1..c) \cup {c + 1}
    OBVIOUS
  <2>. QED
    BY <2>1 DEF ReadSoFar
<1>3. StatsOrder[1] = "sanads" /\ StatsOrder[2] = "transfers"
      /\ StatsOrder[5] = "sanads_by_chain" /\ StatsOrder[6] = "transfers_by_pair"
  BY DEF StatsOrder
<1>4. ASSUME StatsOrder[c + 1] = "sanads_by_chain" PROVE "sanads" \in ReadSoFar(c)
  <2>1. c + 1 = 5
    BY <1>3, <1>4, StatsNames
  <2>2. 1 \in 1..c
    BY <2>1
  <2>. QED
    BY <1>3, <2>2 DEF ReadSoFar
<1>5. ASSUME StatsOrder[c + 1] = "transfers_by_pair" PROVE "transfers" \in ReadSoFar(c)
  <2>1. c + 1 = 6
    BY <1>3, <1>5, StatsNames
  <2>2. 2 \in 1..c
    BY <2>1
  <2>. QED
    BY <1>3, <2>2 DEF ReadSoFar
<1>. QED
  BY <1>1, <1>2, <1>4, <1>5

LEMMA ReadStatisticReport ==
  ASSUME TablesInv, RowsInv, ReportInv, ReadStatistic
  PROVE  ReportInv'
<1>1. PICK c \in 0..9 :
        /\ DOMAIN report.read = ReadSoFar(c)
        /\ report.phase = "reading" => c < 9
  BY DEF ReportInv
<1>2. c \in 0..8 /\ c + 1 \in 0..9
  BY <1>1 DEF ReadStatistic
<1>3. PICK name : name = StatsOrder[c + 1]
  OBVIOUS
<1>4. Cardinality(DOMAIN report.read) + 1 = c + 1
  BY <1>1, ReadSoFarCounts
<1>5. PICK D : D = DOMAIN report.read \cup {name}
  OBVIOUS
<1>6. /\ report' = [phase |-> IF c + 1 = 9 THEN "done" ELSE "reading",
                    read |-> [m \in D |-> IF m = name THEN Statistic(m) ELSE report.read[m]]]
      /\ db' = db
  BY <1>3, <1>4, <1>5, StatsNames DEF ReadStatistic
<1>7. PICK read : read = [m \in D |-> IF m = name THEN Statistic(m) ELSE report.read[m]]
  OBVIOUS
<1>8. /\ report'.phase = IF c + 1 = 9 THEN "done" ELSE "reading"
      /\ report'.read = read
      /\ report' = [phase |-> report'.phase, read |-> report'.read]
  BY <1>6, <1>7
<1>9. DOMAIN read = ReadSoFar(c + 1)
  BY <1>1, <1>2, <1>3, <1>5, <1>7, StatsOrdered
<1>10. /\ \A m \in DOMAIN report.read : read[m] = report.read[m] /\ m # name
       /\ name \in DOMAIN read /\ read[name] = Statistic(name)
       /\ DOMAIN read = DOMAIN report.read \cup {name}
       /\ name = "sanads_by_chain" => "sanads" \in DOMAIN report.read
       /\ name = "transfers_by_pair" => "transfers" \in DOMAIN report.read
  BY <1>1, <1>2, <1>3, <1>5, <1>7, StatsOrdered
<1>11. StatsInv(read)
  <2>. DEFINE old == report.read
  <2>0. StatsInv(old)
    BY DEF ReportInv
  <2>1. "sanads" \in DOMAIN read => read["sanads"] \in 0..Len(db.sanads)
    <3>1. CASE "sanads" \in DOMAIN old
      BY <1>10, <2>0, <3>1 DEF StatsInv
    <3>2. CASE name = "sanads"
      BY <1>10, <3>2, StatisticNow
    <3>. QED
      BY <1>10, <3>1, <3>2
  <2>2. "transfers" \in DOMAIN read => read["transfers"] \in 0..Len(db.transfers)
    <3>1. CASE "transfers" \in DOMAIN old
      BY <1>10, <2>0, <3>1 DEF StatsInv
    <3>2. CASE name = "transfers"
      BY <1>10, <3>2, StatisticNow
    <3>. QED
      BY <1>10, <3>1, <3>2
  <2>3. "sanads_by_chain" \in DOMAIN read =>
          /\ Sum(read["sanads_by_chain"]) \in 0..Len(db.sanads)
          /\ read["sanads"] <= Sum(read["sanads_by_chain"])
    <3>1. CASE "sanads_by_chain" \in DOMAIN old
      <4>1. "sanads" \in DOMAIN old
        <5>1. StatsOrder[1] = "sanads" /\ StatsOrder[5] = "sanads_by_chain"
          BY DEF StatsOrder
        <5>2. PICK m \in 1..c : StatsOrder[m] = "sanads_by_chain"
          BY <1>1, <3>1 DEF ReadSoFar
        <5>3. 1 \in 1..c
          BY <1>2
        <5>. QED
          BY <1>1, <5>1, <5>3 DEF ReadSoFar
      <4>. QED
        BY <1>10, <2>0, <3>1, <4>1 DEF StatsInv
    <3>2. CASE name = "sanads_by_chain"
      <4>1. read["sanads"] = old["sanads"] /\ old["sanads"] \in 0..Len(db.sanads)
        BY <1>10, <2>0, <3>2 DEF StatsInv
      <4>2. Sum(read["sanads_by_chain"]) = Len(db.sanads)
        BY <1>10, <3>2, StatisticNow
      <4>. QED
        BY <4>1, <4>2, StatisticNow
    <3>. QED
      BY <1>10, <3>1, <3>2
  <2>4. "transfers_by_pair" \in DOMAIN read =>
          /\ Sum(read["transfers_by_pair"]) \in 0..Len(db.transfers)
          /\ read["transfers"] <= Sum(read["transfers_by_pair"])
    <3>1. CASE "transfers_by_pair" \in DOMAIN old
      <4>1. "transfers" \in DOMAIN old
        <5>1. StatsOrder[2] = "transfers" /\ StatsOrder[1] # "transfers_by_pair"
          BY DEF StatsOrder
        <5>2. PICK m \in 1..c : StatsOrder[m] = "transfers_by_pair"
          BY <1>1, <3>1 DEF ReadSoFar
        <5>3. m # 1
          BY <5>1, <5>2
        <5>4. 2 \in 1..c
          BY <1>2, <5>3
        <5>. QED
          BY <1>1, <5>1, <5>4 DEF ReadSoFar
      <4>. QED
        BY <1>10, <2>0, <3>1, <4>1 DEF StatsInv
    <3>2. CASE name = "transfers_by_pair"
      <4>1. read["transfers"] = old["transfers"] /\ old["transfers"] \in 0..Len(db.transfers)
        BY <1>10, <2>0, <3>2 DEF StatsInv
      <4>2. Sum(read["transfers_by_pair"]) = Len(db.transfers)
        BY <1>10, <3>2, StatisticNow
      <4>. QED
        BY <4>1, <4>2, StatisticNow
    <3>. QED
      BY <1>10, <3>1, <3>2
  <2>5. "active_seals" \in DOMAIN read => Sum(read["active_seals"]) \in 0..Len(db.seals)
    <3>1. CASE "active_seals" \in DOMAIN old
      BY <1>10, <2>0, <3>1 DEF StatsInv
    <3>2. CASE name = "active_seals"
      BY <1>10, <3>2, StatisticNow
    <3>. QED
      BY <1>10, <3>1, <3>2
  <2>6. "completed" \in DOMAIN read => read["completed"] \in 0..Len(db.transfers)
    <3>1. CASE "completed" \in DOMAIN old
      BY <1>10, <2>0, <3>1 DEF StatsInv
    <3>2. CASE name = "completed"
      BY <1>10, <3>2, StatisticNow
    <3>. QED
      BY <1>10, <3>1, <3>2
  <2>. QED
    BY <2>1, <2>2, <2>3, <2>4, <2>5, <2>6 DEF StatsInv
<1>12. StatsInv(report.read)'
  <2>1. StatsInv(report.read)' <=> StatsInv(read)
    BY <1>6, <1>8 DEF StatsInv
  <2>. QED
    BY <1>11, <2>1
<1>13. report'.phase = "reading" => c + 1 < 9
  BY <1>2, <1>8
<1>14. report'.phase = "done" => c + 1 = 9
  BY <1>8
<1>. QED
  BY <1>2, <1>8, <1>9, <1>12, <1>13, <1>14 DEF ReportInv

\* A report about which nothing is known yet.
LEMMA EmptyReport ==
  ASSUME NEW phase, phase \in {"idle", "reading"},
         report' = [phase |-> phase, read |-> [name \in {} |-> 0]]
  PROVE  ReportInv'
<1>1. DOMAIN report'.read = {} /\ report'.phase = phase
      /\ report' = [phase |-> report'.phase, read |-> report'.read]
  OBVIOUS
<1>2. ReadSoFar(0) = {}
  BY DEF ReadSoFar
<1>3. \E c \in 0..9 : /\ DOMAIN report'.read = ReadSoFar(c)
                      /\ report'.phase = "reading" => c < 9
                      /\ report'.phase = "done" => c = 9
  <2>1. DOMAIN report'.read = ReadSoFar(0)
    BY <1>1, <1>2
  <2>2. report'.phase # "done"
    BY <1>1
  <2>. QED
    BY <2>1, <2>2
<1>. QED
  BY <1>1, <1>3 DEF ReportInv, StatsInv

LEMMA NextReport ==
  ASSUME RecordReadsAssumption, TablesInv, RowsInv, ReportInv, [Next]_vars
  PROVE  ReportInv'
<1>1. CASE Writer
  BY <1>1, WriterReport
<1>2. CASE ReadStatistic
  BY <1>2, ReadStatisticReport
<1>3. CASE StartReport
  <2>1. report' = [phase |-> "reading", read |-> [name \in {} |-> 0]]
    BY <1>3 DEF StartReport, NoReport
  <2>. QED
    BY <2>1, EmptyReport
<1>4. CASE EndReport
  <2>1. report' = [phase |-> "idle", read |-> [name \in {} |-> 0]]
    BY <1>4 DEF EndReport, NoReport
  <2>. QED
    BY <2>1, EmptyReport
<1>5. CASE \/ StartWalk \/ ListThenCount \/ AnswerWithPageInfo
           \/ CountThenList \/ AnswerWithTotal \/ AnswerUncounted \/ EndWalk
           \/ StartCard \/ ReadAddressSanads \/ ReadAddressSeals
           \/ ReadAddressTransfers \/ EndCard \/ UNCHANGED vars
  <2>1. report' = report /\ db' = db
    BY <1>5 DEF StartWalk, ListThenCount, AnswerWithPageInfo, CountThenList,
                AnswerWithTotal, AnswerUncounted, EndWalk, StartCard,
                ReadAddressSanads, ReadAddressSeals, ReadAddressTransfers,
                EndCard, vars
  <2>. QED
    BY <2>1 DEF ReportInv, StatsInv
<1>. QED
  BY <1>1, <1>2, <1>3, <1>4, <1>5 DEF Next, Client

LEMMA InitReport ==
  ASSUME Init
  PROVE  ReportInv
<1>1. DOMAIN report.read = {} /\ report.phase = "idle"
      /\ report = [phase |-> report.phase, read |-> report.read]
  BY DEF Init, NoReport
<1>2. ReadSoFar(0) = {} /\ 0 \in 0..9
  BY DEF ReadSoFar
<1>. QED
  BY <1>1, <1>2 DEF ReportInv, StatsInv

LEMMA ReportBracketed ==
  ASSUME ReadsInv, ReportInv
  PROVE  StatsBracketed
<1>. SUFFICES ASSUME report.phase = "done"
              PROVE
    /\ report.read["sanads"] <= Sum(report.read["sanads_by_chain"])
    /\ Sum(report.read["sanads_by_chain"]) <= CountSanads(db, NoFilter)
    /\ report.read["transfers"] <= Sum(report.read["transfers_by_pair"])
    /\ Sum(report.read["transfers_by_pair"]) <= CountTransfers(db, NoFilter)
    /\ Sum(report.read["active_seals"]) <= CountSeals(db, NoFilter)
    /\ report.read["completed"] <= CountTransfers(db, NoFilter)
  BY DEF StatsBracketed
<1>1. DOMAIN report.read = ReadSoFar(9)
  BY DEF ReportInv
<1>2. {"sanads_by_chain", "transfers_by_pair", "active_seals", "completed"}
        \subseteq DOMAIN report.read
  <2>1. StatsOrder[5] = "sanads_by_chain" /\ StatsOrder[6] = "transfers_by_pair"
        /\ StatsOrder[7] = "active_seals" /\ StatsOrder[8] = "completed"
    BY DEF StatsOrder
  <2>. QED
    BY <1>1, <2>1 DEF ReadSoFar
<1>3. /\ CountSanads(db, NoFilter) = Len(db.sanads)
      /\ CountTransfers(db, NoFilter) = Len(db.transfers)
      /\ CountSeals(db, NoFilter) = Len(db.seals)
  <2>1. Len(db.transfers) \in Nat /\ Len(db.seals) \in Nat
    BY KeyedRows DEF ReadsInv, RowsInv
  <2>2. /\ Matching(db.transfers, NoFilter) = 1..Len(db.transfers)
        /\ Matching(db.seals, NoFilter) = 1..Len(db.seals)
    BY DEF Matching, Matches, NoFilter
  <2>. QED
    BY <2>1, <2>2, UpTo DEF CountSanads, CountTransfers, CountSeals, Count
<1>. QED
  BY <1>2, <1>3 DEF ReportInv, StatsInv

\* The statistics of one answer bound each other and what is stored, although
\* they are read at different times.
THEOREM StatsAreBracketed == Spec => []StatsBracketed
<1>1. Init => ReportInv
  BY InitReport
<1>2. ReadsInv /\ ReportInv /\ [Next]_vars => ReportInv'
  BY NextReport, RecordReadsAssumption DEF ReadsInv, IInv
<1>3. ReadsInv /\ ReportInv => StatsBracketed
  BY ReportBracketed
<1>. QED
  BY <1>1, <1>2, <1>3, ReadsInvariant, PTL DEF Spec

=============================================================================
