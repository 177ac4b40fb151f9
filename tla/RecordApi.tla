------------------------------ MODULE RecordApi ------------------------------
(***************************************************************************)
(* The REST handlers and GraphQL resolvers over the record tables: what    *)
(* each of them asks the repositories for, and what it answers.  A         *)
(* question is what a client gives: a function from some columns to words. *)
(* Both APIs read the words alike, and a word they do not know is read as  *)
(* the first of its kind.                                                  *)
(***************************************************************************)
EXTENDS RecordTables

-----------------------------------------------------------------------------
(* Questions.                                                              *)

\* The status a transfer is listed by, from the word of the request.
AskedTransferStatus(word) ==
  CASE word = "in_progress" -> "submitting_proof"
    [] word \in {"completed", "failed"} -> word
    [] OTHER -> "initiated"

TransferFilter(question) ==
  [c \in DOMAIN question |->
     IF c = "status" THEN AskedTransferStatus(question[c]) ELSE question[c]]

AskedSealType(word) ==
  IF word \in {"object", "resource", "nullifier", "account"} THEN word ELSE "utxo"

AskedSealStatus(word) ==
  IF word = "consumed" THEN "consumed" ELSE "available"

SealFilter(question) ==
  [c \in DOMAIN question |->
     CASE c = "seal_type" -> AskedSealType(question[c])
       [] c = "status" -> AskedSealStatus(question[c])
       [] OTHER -> question[c]]

AskedContractType(word) ==
  IF word \in {"nullifier_registry", "state_commitment", "sanad_registry", "bridge"}
  THEN word ELSE "other"

AskedContractStatus(word) ==
  IF word \in {"deprecated", "error"} THEN word ELSE "active"

ContractFilter(question) ==
  [c \in DOMAIN question |->
     CASE c = "contract_type" -> AskedContractType(question[c])
       [] c = "status" -> AskedContractStatus(question[c])
       [] OTHER -> question[c]]

-----------------------------------------------------------------------------
(* Lists.  A query names the API, the table and the filter; rest counts    *)
(* before it lists, graphql after, and uncounted does not count.           *)

Asked(api, table, filters) == [api : {api}, table : {table}, filter : filters]

\* The filter is built and then ignored: it is left out.
RestSanads == Asked("rest", "sanads", {NoFilter})

GqlSanads == Asked("graphql", "sanads", {NoFilter})

RestTransfers(questions) ==
  Asked("rest", "transfers", { TransferFilter(q) : q \in questions })

GqlTransfers(questions) ==
  Asked("graphql", "transfers", { TransferFilter(q) : q \in questions })

RestSeals(questions) ==
  Asked("rest", "seals", { SealFilter(q) : q \in questions })

GqlSeals(questions) ==
  Asked("graphql", "seals", { SealFilter(q) : q \in questions })

GqlContracts(questions) ==
  Asked("graphql", "contracts", { ContractFilter(q) : q \in questions })

\* A proof type that is not one is not asked for; here every one is.
RestEnhancedSanads ==
  Asked("uncounted", "enhanced_sanads",
        { NoFilter, [inclusion_proof_type |-> "merkle"] })

GqlEnhancedSanads ==
  Asked("uncounted", "enhanced_sanads",
        { NoFilter, [inclusion_proof_type |-> "merkle"] })

RestSanadsByScheme ==
  Asked("uncounted", "enhanced_sanads", {[commitment_scheme |-> "hash_based"]})

RestSanadsByProofType ==
  Asked("uncounted", "enhanced_sanads", {[inclusion_proof_type |-> "merkle"]})

RestProofStatistics == Asked("uncounted", "proof_statistics", {NoFilter})

GqlProofStatistics == Asked("uncounted", "proof_statistics", {NoFilter})

RestEnhancedSeals(questions) == Asked("uncounted", "enhanced_seals", questions)

GqlEnhancedSeals == Asked("uncounted", "enhanced_seals", {NoFilter})

-----------------------------------------------------------------------------
(* One record.                                                             *)

\* The status a transfer is shown with, from the word that is stored.
ShownTransferStatus(word) ==
  CASE word \in {"in_progress", "locking", "submitting_proof", "verifying",
                 "minting"} -> "submitting_proof"
    [] word \in {"completed", "failed"} -> word
    [] OTHER -> "initiated"

Shown(t) ==
  IF t = NotFound THEN NotFound
  ELSE [t EXCEPT !.status = ShownTransferStatus(@)]

RestSanad(db, id) == GetSanad(db, id)

GqlSanad(db, id) == GetSanad(db, id)

\* The links REST adds, to explorers of the transfer's chains, are text and
\* left out.
RestTransfer(db, id) == Shown(GetTransfer(db, id))

GqlTransfer(db, id) == Shown(GetTransfer(db, id))

RestSeal(db, id) == GetSeal(db, id)

GqlSeal(db, id) == GetSeal(db, id)

GqlSealByNativeId(db, ref) == GetSealByNativeId(db, ref)

GqlContract(db, id) == GetContract(db, id)

GqlTransfersBySanad(db, id) == TransfersBySanad(db, id)

GqlSealsBySanad(db, id) == SealsBySanad(db, id)

\* One row is asked for, any row, and its id is compared afterwards.
RestEnhancedSeal(db, id) ==
  LET first == ListEnhancedSeals(db, NoFilter, 1, 0)
  IN  IF first = Failed THEN Failed
      ELSE IF \E k \in first : db.enhanced_seals[k].id = id
           THEN ById(db.enhanced_seals, id)
           ELSE NotFound

RestEnhancedSanad(db, id) ==
  IF ListEnhancedSanads(db, NoFilter, 1, 0) = Failed THEN Failed ELSE NotFound

-----------------------------------------------------------------------------
(* The records of an address.  The repository ignores the owner asked for, *)
(* and seals have none.                                                    *)

AddressSanads(db, address) ==
  ListSanads(db, [owner |-> address], ListCap, 0)

AddressSeals(db, address) == ListSeals(db, NoFilter, ListCap, 0)

\* Mutant of Involving: what the address sent is left out.
OnlyReceived(T, K, address) == { k \in K : T[k].to_owner = address }

\* The transfers of a page that an address takes part in.
Involving(T, K, address) ==
  { k \in K : T[k].from_owner = address \/ T[k].to_owner = address }

AddressTransfers(db, address) ==
  Involving(db.transfers, ListTransfers(db, NoFilter, ListCap, 0), address)

GqlSanadsByOwner(db, address) == AddressSanads(db, address)
=============================================================================
