---------------------------- MODULE RecordTables ----------------------------
(***************************************************************************)
(* The read model of chain records: the tables sanads, transfers, seals    *)
(* and contracts of migration 0001, the table enhanced_seals of            *)
(* advanced_proofs.rs, and what one statement of their repositories reads  *)
(* or writes.  A table is the sequence of its rows in the order of their   *)
(* rowids: rows are inserted and updated and never deleted.  The column at *)
(* is the one a table's lists are ordered by (created_at, block_height,    *)
(* deployed_at).  Columns nothing is asked about are left out, and so are  *)
(* the tables nothing reads (enhanced_inclusion_proofs,                    *)
(* enhanced_transfers, proof_statistics).                                  *)
(***************************************************************************)
EXTENDS Naturals, Sequences, FiniteSets

CONSTANTS
  NoSanad,   \* SQL NULL in seals.sanad_id
  NotFound,  \* the answer for an id no row has
  Failed,    \* the answer of a statement SQLite refuses
  ListCap    \* the LIMIT 100 of sanads.rs and of the reads of an address

ASSUME RecordTablesAssumption == ListCap \in Nat \ {0}

SanadColumns == {"id", "chain", "owner", "status", "at"}

TransferColumns == {"id", "sanad", "from_chain", "to_chain", "from_owner",
                    "to_owner", "status", "at"}

SealColumns == {"id", "chain", "seal_type", "seal_ref", "sanad", "status", "at"}

ContractColumns == {"id", "chain", "contract_type", "status", "at"}

EnhancedSealColumns == {"id", "chain", "seal_type", "sanad", "status"}

\* enhanced: AdvancedProofRepository::init has run, which no process does.
EmptyRecords ==
  [ sanads |-> << >>, transfers |-> << >>, seals |-> << >>,
    contracts |-> << >>, enhanced |-> FALSE, enhanced_sanads |-> << >>,
    enhanced_seals |-> << >>, proof_statistics |-> << >> ]

Ids(T) == { T[k].id : k \in DOMAIN T }

\* INSERT ... ON CONFLICT(id) DO UPDATE SET columns.
Upsert(T, r, columns) ==
  IF r.id \in Ids(T)
  THEN [k \in 1..Len(T) |->
          IF T[k].id = r.id
          THEN [c \in DOMAIN T[k] |-> IF c \in columns THEN r[c] ELSE T[k][c]]
          ELSE T[k]]
  ELSE Append(T, r)

-----------------------------------------------------------------------------
(* The writes.                                                             *)

SanadUpdates == {"status", "owner"}

WithSanad(db, r) == [db EXCEPT !.sanads = Upsert(@, r, SanadUpdates)]

\* Mutant of TransferAllowed and of SealAllowed: foreign_keys is off.
AnyRow(db, r) == TRUE

\* transfers.sanad_id REFERENCES sanads(id); the update leaves it alone.
TransferAllowed(db, r) == r.id \in Ids(db.transfers) \/ r.sanad \in Ids(db.sanads)

\* Mutant of TransferUpdates: an update makes the transfer a new one.
TransferRenewed == {"status", "to_owner", "at"}

TransferUpdates == {"status", "to_owner"}

WithTransfer(db, r) == [db EXCEPT !.transfers = Upsert(@, r, TransferUpdates)]

\* seals.sanad_id REFERENCES sanads(id).
SealAllowed(db, r) == r.sanad = NoSanad \/ r.sanad \in Ids(db.sanads)

SealUpdates == {"status", "sanad"}

WithSeal(db, r) == [db EXCEPT !.seals = Upsert(@, r, SealUpdates)]

ContractUpdates == {"status"}

WithContract(db, r) == [db EXCEPT !.contracts = Upsert(@, r, ContractUpdates)]

\* UPDATE ... SET status WHERE id: no row is no error.
WithStatus(T, id, status) ==
  [k \in 1..Len(T) |->
     IF T[k].id = id THEN [T[k] EXCEPT !.status = status] ELSE T[k]]

WithTransferStatus(db, id, status) ==
  [db EXCEPT !.transfers = WithStatus(@, id, status)]

WithSealStatus(db, id, status) ==
  [db EXCEPT !.seals = WithStatus(@, id, status)]

WithEnhancedTables(db) == [db EXCEPT !.enhanced = TRUE]

WithEnhancedSeal(db, r) ==
  [db EXCEPT !.enhanced_seals = Upsert(@, r, {"status"})]

-----------------------------------------------------------------------------
(* The reads.  A filter is a function from some columns to the values      *)
(* asked for; a row is named by its rowid.                                 *)

NoFilter == [c \in {} |-> {}]

Matches(f, r) == \A c \in DOMAIN f : r[c] = f[c]

Matching(T, f) == { k \in 1..Len(T) : Matches(f, T[k]) }

\* ORDER BY at DESC: the sorter keeps rows that tie in the order of the scan.
Before(T, j, k) == T[j].at > T[k].at \/ (T[j].at = T[k].at /\ j < k)

Rank(T, f, k) == Cardinality({ j \in Matching(T, f) : Before(T, j, k) })

\* LIMIT limit OFFSET offset.
Page(T, f, limit, offset) ==
  { k \in Matching(T, f) :
      offset <= Rank(T, f, k) /\ Rank(T, f, k) < offset + limit }

Count(T, f) == Cardinality(Matching(T, f))

\* The row of an id, which is the primary key.
ById(T, id) ==
  IF id \in Ids(T) THEN T[CHOOSE k \in DOMAIN T : T[k].id = id] ELSE NotFound

GetSanad(db, id) == ById(db.sanads, id)

GetTransfer(db, id) == ById(db.transfers, id)

GetSeal(db, id) == ById(db.seals, id)

GetContract(db, id) == ById(db.contracts, id)

\* WHERE seal_ref = ?, the first row the index on seal_ref meets.
GetSealByNativeId(db, ref) ==
  LET K == { k \in DOMAIN db.seals : db.seals[k].seal_ref = ref }
  IN  IF K = {} THEN NotFound
      ELSE db.seals[CHOOSE k \in K : \A j \in K : k <= j]

\* The filter, the limit and the offset are ignored.
ListSanads(db, f, limit, offset) == Page(db.sanads, NoFilter, ListCap, 0)

CountSanads(db, f) == Len(db.sanads)

ListTransfers(db, f, limit, offset) == Page(db.transfers, f, limit, offset)

CountTransfers(db, f) == Count(db.transfers, f)

TransfersBySanad(db, id) == Matching(db.transfers, [sanad |-> id])

ListSeals(db, f, limit, offset) == Page(db.seals, f, limit, offset)

CountSeals(db, f) == Count(db.seals, f)

SealsBySanad(db, id) == Matching(db.seals, [sanad |-> id])

ListContracts(db, f, limit, offset) == Page(db.contracts, f, limit, offset)

CountContracts(db, f) == Count(db.contracts, f)

\* No such table before init; LIMIT limit OFFSET offset with no ORDER BY:
\* the rows come as they are scanned.
ListEnhancedSeals(db, f, limit, offset) ==
  LET T == db.enhanced_seals
      Scanned(k) == Cardinality({ j \in Matching(T, f) : j < k })
  IN  IF ~db.enhanced THEN Failed
      ELSE { k \in Matching(T, f) :
               offset <= Scanned(k) /\ Scanned(k) < offset + limit }

\* init creates no column inclusion_proof_type to filter by, and
\* insert_enhanced_sanad, which names it, fails: there is never a row.
ListEnhancedSanads(db, f, limit, offset) ==
  IF ~db.enhanced \/ "inclusion_proof_type" \in DOMAIN f THEN Failed ELSE {}

\* Grouped by inclusion_proof_type, before and after init.
GetProofStatistics(db) == Failed

\* GROUP BY column: how many of the rows K have each value.
GroupCount(T, K, column(_)) ==
  [v \in { column(T[k]) : k \in K } |->
     Cardinality({ k \in K : column(T[k]) = v })]
=============================================================================
