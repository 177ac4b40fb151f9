---------------------------- MODULE ChainDecoders ----------------------------
(***************************************************************************)
(* What the five chain adapters (sui.rs, aptos.rs, solana.rs, bitcoin.rs,  *)
(* ethereum.rs) read in a node's reply to a request for one block.  A      *)
(* block is a sequence of transactions [id, events]; what an event holds   *)
(* differs by chain:                                                       *)
(*   sui, aptos  [type, fields]: the words its type contains, and the      *)
(*               fields of its JSON (sui: also package and sender);        *)
(*   solana      the words a log message contains; the transaction has an  *)
(*               account, its first account key;                           *)
(*   bitcoin     an output [op_return, magic, length, source, commitment,  *)
(*               address], of which commitment is the first 16 digits; the *)
(*               transaction has inputs [prev, vout, address];             *)
(*   ethereum    a log [topics, contract], the topics in order.            *)
(* An id made from a text pattern is the tuple of the pattern and of what  *)
(* fills it; the created_at of a record, the moment it is decoded, is the  *)
(* height of the block.  Columns of no table of RecordTables are left out. *)
(***************************************************************************)
EXTENDS RecordTables, SequencesExt

CONSTANTS
  NotText,     \* a value of a field of an event that is no text
  Absent,      \* a field, an address or a signature the reply does not have
  Relevant,    \* the addresses a BitcoinIndexer was given
  AptosLimit   \* the limit=100 of Aptos' requests

ASSUME ChainDecodersAssumption == AptosLimit \in Nat \ {0}

Chains == {"sui", "aptos", "solana", "bitcoin", "ethereum"}

IsList(s) == s \in Seq(Range(s))

\* What the JSON of a block parses as: lists, of lists.
IsBlock(chain, txs) ==
  /\ IsList(txs)
  /\ \A tx \in Range(txs) :
       /\ IsList(tx.events)
       /\ chain = "bitcoin" => IsList(tx.inputs)

\* Records(x) for every x of s, in order.
Each(s, Records(_)) == FlattenSeq([k \in DOMAIN s |-> Records(s[k])])

EachEvent(txs, Records(_, _)) ==
  Each(txs, LAMBDA tx : Each(tx.events, LAMBDA e : Records(tx, e)))

When(condition, record) == IF condition THEN << record >> ELSE << >>

SanadRow(id, chain, owner, block) ==
  [id |-> id, chain |-> chain, owner |-> owner, status |-> "active", at |-> block]

SealRow(id, chain, seal_type, ref, status, block) ==
  [id |-> id, chain |-> chain, seal_type |-> seal_type, seal_ref |-> ref,
   sanad |-> NoSanad, status |-> status, at |-> block]

TransferRow(id, sanad, from, to, from_owner, to_owner, block) ==
  [id |-> id, sanad |-> sanad, from_chain |-> from, to_chain |-> to,
   from_owner |-> from_owner, to_owner |-> to_owner, status |-> "initiated",
   at |-> block]

ContractRow(id, chain, contract_type, block) ==
  [id |-> id, chain |-> chain, contract_type |-> contract_type,
   status |-> "active", at |-> block]

\* The records of s with the kind of proof their chain gives.
WithProof(s, proof) ==
  [k \in DOMAIN s |->
     [c \in DOMAIN s[k] \cup {"proof"} |-> IF c = "proof" THEN proof ELSE s[k][c]]]

-----------------------------------------------------------------------------
(* A reply is the whole block; or a part of it, the rest unreadable; or    *)
(* the request is not answered (unreachable), the body breaks off (broken) *)
(* or is no JSON (garbled), or the node answers an error (refused).        *)

Fault(kind) == [kind |-> kind, txs |-> << >>]

Faults == { Fault(k) : k \in {"unreachable", "broken", "garbled", "refused"} }

Whole(txs) == [kind |-> "whole", txs |-> txs]

Part(txs) == [kind |-> "part", txs |-> txs]

\* Mutant of FetchCheckpoint and FetchBlockTransactions: as Solana's.
AnyReply(reply) == reply.txs

FetchCheckpoint(reply) == IF reply.kind = "whole" THEN reply.txs ELSE Failed

FetchBlockTransactions(reply) ==
  IF reply.kind = "whole" THEN reply.txs ELSE Failed

\* A slot without a block is no error, and neither is no answer; a
\* transaction that cannot be read is left out.
GetTransactionsForSlot(reply) ==
  IF reply.kind \in {"broken", "garbled"} THEN Failed ELSE reply.txs

\* Three requests: the height's hash, the hash's transaction ids and every
\* transaction.  Only a hash whose body breaks off is an error.
FetchBlock(reply) == IF reply.kind = "broken" THEN Failed ELSE reply.txs

\* A JSON-RPC error is no error; one log that cannot be read is.
FetchLogs(reply) ==
  IF reply.kind \in {"whole", "refused"} THEN reply.txs ELSE Failed

-----------------------------------------------------------------------------
(* Sui.                                                                    *)

\* The fields are there, each with a text.
HasFields(e, names) ==
  \A name \in names : name \in DOMAIN e.fields /\ e.fields[name] # NotText

SuiParseSanad(tx, e, block) ==
  When( /\ {"csv_seal", "AnchorEvent"} \subseteq e.type
        /\ HasFields(e, {"sanad_id", "owner", "commitment"}),
       SanadRow(e.fields.sanad_id, "sui", e.fields.owner, block))

SuiSanads(txs, block) ==
  EachEvent(txs, LAMBDA tx, e : SuiParseSanad(tx, e, block))

SuiSealStatus(e) == IF "Consumed" \in e.type THEN "consumed" ELSE "available"

SuiParseSeal(tx, e, block) ==
  When( /\ e.type \cap {"csv_seal", "Seal"} # {}
        /\ HasFields(e, {"seal_id"}),
       SealRow(e.fields.seal_id, "sui", "object", e.package,
               SuiSealStatus(e), block))

SuiSeals(txs, block) ==
  EachEvent(txs, LAMBDA tx, e : SuiParseSeal(tx, e, block))

SuiParseTransfer(tx, e, block) ==
  When( /\ e.type \cap {"CrossChain", "bridge"} # {}
        /\ HasFields(e, {"sanad_id", "from_chain", "to_chain"}),
       TransferRow(<<"sui-xfer", tx.id>>, e.fields.sanad_id,
                   e.fields.from_chain, e.fields.to_chain,
                   e.sender, "pending", block))

SuiTransfers(txs, block) ==
  EachEvent(txs, LAMBDA tx, e : SuiParseTransfer(tx, e, block))

SuiContracts(block) ==
  << ContractRow("sui-csv-package", "sui", "sanad_registry", block) >>

SuiEnhancedSanads(txs, block) ==
  WithProof(SuiSanads(txs, block), "object_proof")

SuiEnhancedSeals(txs, block) == WithProof(SuiSeals(txs, block), "object_proof")

SuiEnhancedTransfers(txs, block) ==
  WithProof(SuiTransfers(txs, block), "object_proof")

-----------------------------------------------------------------------------
(* Aptos.  A request for a block reads AptosLimit transactions from the    *)
(* version of that number on, so the requests of two heights overlap.      *)

AptosWindow(versions, v) ==
  SubSeq(versions, v, IF v + AptosLimit - 1 < Len(versions)
                      THEN v + AptosLimit - 1 ELSE Len(versions))

AptosParseSanad(tx, e, block) ==
  When( /\ {"csv_seal", "AnchorEvent"} \subseteq e.type
        /\ HasFields(e, {"sanad_id", "owner", "commitment"}),
       SanadRow(e.fields.sanad_id, "aptos", e.fields.owner, block))

AptosSanads(txs, block) ==
  EachEvent(txs, LAMBDA tx, e : AptosParseSanad(tx, e, block))

AptosSealStatus(e) ==
  IF e.type \cap {"Consumed", "spent"} # {} THEN "consumed" ELSE "available"

\* The field that names a seal: a seal_id that is no text is not passed over.
AptosSealField(e) == IF "seal_id" \in DOMAIN e.fields THEN "seal_id" ELSE "nullifier"

AptosParseSeal(tx, e, block) ==
  LET seal_id == e.fields[AptosSealField(e)]
  IN  When( /\ e.type \cap {"csv_seal", "Seal"} # {}
            /\ HasFields(e, {AptosSealField(e)}),
           SealRow(seal_id, "aptos", "resource", seal_id,
                   AptosSealStatus(e), block))

AptosSeals(txs, block) ==
  EachEvent(txs, LAMBDA tx, e : AptosParseSeal(tx, e, block))

AptosParseTransfer(tx, e, block) ==
  When( /\ e.type \cap {"CrossChain", "bridge_transfer"} # {}
        /\ HasFields(e, {"sanad_id", "from_chain", "to_chain"}),
       TransferRow(<<"aptos-xfer", tx.id>>, e.fields.sanad_id,
                   e.fields.from_chain, e.fields.to_chain,
                   "aptos-sender", "pending", block))

AptosTransfers(txs, block) ==
  EachEvent(txs, LAMBDA tx, e : AptosParseTransfer(tx, e, block))

AptosContracts(block) ==
  << ContractRow("aptos-csv-module", "aptos", "nullifier_registry", block) >>

AptosEnhancedSanads(txs, block) ==
  WithProof(AptosSanads(txs, block), "accumulator")

AptosEnhancedSeals(txs, block) ==
  WithProof(AptosSeals(txs, block), "accumulator")

AptosEnhancedTransfers(txs, block) ==
  WithProof(AptosTransfers(txs, block), "accumulator")

-----------------------------------------------------------------------------
(* Solana.  A record is named by its transaction alone.                    *)

TxSignature(tx) == IF tx.id = Absent THEN "unknown" ELSE tx.id

FirstAccount(tx) == IF tx.account = Absent THEN "unknown" ELSE tx.account

SolanaParseSanad(tx, e, block) ==
  When( e.words \cap {"csv_sanad_created", "SanadCreated"} # {},
       SanadRow(<<"sol-sanad", TxSignature(tx)>>, "solana", "unknown", block))

SolanaSanads(txs, block) ==
  EachEvent(txs, LAMBDA tx, e : SolanaParseSanad(tx, e, block))

SolanaParseSeal(tx, e, block) ==
  When( e.words \cap {"csv_seal", "SealConsumed"} # {},
       SealRow(<<"sol-seal", TxSignature(tx)>>, "solana", "account",
               FirstAccount(tx), "consumed", block))

SolanaSeals(txs, block) ==
  EachEvent(txs, LAMBDA tx, e : SolanaParseSeal(tx, e, block))

SolanaParseTransfer(tx, e, block) ==
  When( e.words \cap {"csv_transfer", "CrossChainTransfer"} # {},
       TransferRow(<<"sol-xfer", TxSignature(tx)>>,
                   <<"sol-sanad", TxSignature(tx)>>,
                   "solana", "unknown", "unknown", "unknown", block))

SolanaTransfers(txs, block) ==
  EachEvent(txs, LAMBDA tx, e : SolanaParseTransfer(tx, e, block))

SolanaContracts(block) ==
  << ContractRow("sol-csv-program", "solana", "sanad_registry", block) >>

SolanaEnhancedSanads(txs, block) ==
  WithProof(SolanaSanads(txs, block), "account_state")

SolanaEnhancedSeals(txs, block) ==
  WithProof(SolanaSeals(txs, block), "account_proof")

SolanaEnhancedTransfers(txs, block) ==
  WithProof(SolanaTransfers(txs, block), "account_proof")

-----------------------------------------------------------------------------
(* Bitcoin.  An output's length is that of what follows the OP_RETURN and  *)
(* an agreeing length byte; magic: it begins with CSV-.                    *)

BitcoinParseSanad(tx, e, block) ==
  When( e.op_return /\ e.magic /\ e.length \in {64, 65},
       SanadRow(<<"btc", tx.id, e.commitment>>, "bitcoin",
                IF tx.inputs # << >> /\ tx.inputs[1].prev # Absent
                THEN <<"btc", tx.inputs[1].prev>> ELSE <<"unknown">>,
                block))

BitcoinSanads(txs, block) ==
  EachEvent(txs, LAMBDA tx, e : BitcoinParseSanad(tx, e, block))

\* Every input that spends an output of a relevant address; which also says
\* that the transaction has one.
BitcoinSeals(txs, block) ==
  Each(txs, LAMBDA tx :
    Each(tx.inputs, LAMBDA i :
      When( /\ i.prev # Absent
            /\ i.vout # Absent
            /\ i.address \in Relevant,
           SealRow(<<"btc-seal", i.prev, i.vout, tx.id>>, "bitcoin", "utxo",
                   <<i.prev, i.vout>>, "consumed", block))))

SourceChain(e) ==
  CASE e.source = 0 -> "bitcoin"
    [] e.source = 1 -> "ethereum"
    [] e.source = 2 -> "solana"
    [] OTHER -> "unknown"

\* A payload that is a sanad's is long enough to be a transfer's.
BitcoinParseTransfer(tx, e, block) ==
  When( e.op_return /\ e.magic /\ e.length >= 36,
       TransferRow(<<"btc-transfer", tx.id, block>>, <<"btc-sanad", tx.id>>,
                   SourceChain(e), "ethereum",
                   IF tx.inputs # << >> /\ tx.inputs[1].address # Absent
                   THEN tx.inputs[1].address ELSE "unknown",
                   "csv-lock-contract", block))

BitcoinTransfers(txs, block) ==
  EachEvent(txs, LAMBDA tx, e : BitcoinParseTransfer(tx, e, block))

BitcoinContracts(block) == << >>

BitcoinEnhancedSanads(txs, block) ==
  WithProof(BitcoinSanads(txs, block), "merkle")

BitcoinEnhancedSeals(txs, block) == WithProof(BitcoinSeals(txs, block), "merkle")

BitcoinEnhancedTransfers == << >>

-----------------------------------------------------------------------------
(* Ethereum.  The logs asked for are those whose first topic is one of the *)
(* signatures, which is looked at again here.                              *)

Signed(e, signatures) == e.topics # << >> /\ e.topics[1] \in signatures

\* The indexed owner, else the topic before it, else the contract.
EthereumOwner(e) ==
  CASE Len(e.topics) >= 4 -> e.topics[4]
    [] Len(e.topics) = 3 -> e.topics[3]
    [] OTHER -> e.contract

EthereumParseSanad(tx, e, block) ==
  When( Signed(e, {"SealUsed", "SanadCreated"}) /\ Len(e.topics) >= 2,
       SanadRow(<<"eth", tx.id, e.topics[2]>>, "ethereum",
                EthereumOwner(e), block))

EthereumSanads(txs, block) ==
  EachEvent(txs, LAMBDA tx, e : EthereumParseSanad(tx, e, block))

EthereumParseSeal(tx, e, block) ==
  LET seal_id == IF Len(e.topics) >= 2 THEN e.topics[2] ELSE ""
  IN  When( Signed(e, {"SealUsed"}),
           SealRow(<<"eth-seal", seal_id>>, "ethereum", "nullifier",
                   <<seal_id>>, "consumed", block))

EthereumSeals(txs, block) ==
  EachEvent(txs, LAMBDA tx, e : EthereumParseSeal(tx, e, block))

EthereumParseTransfer(tx, e, block) ==
  When( Signed(e, {"CrossChainLock", "SanadMinted"}) /\ Len(e.topics) >= 4,
       TransferRow(<<"eth-xfer", tx.id>>, <<e.topics[2]>>,
                   "ethereum", "unknown", e.topics[4], "unknown", block))

EthereumTransfers(txs, block) ==
  EachEvent(txs, LAMBDA tx, e : EthereumParseTransfer(tx, e, block))

EthereumContracts(block) ==
  << ContractRow("eth-0", "ethereum", "nullifier_registry", block),
     ContractRow("eth-1", "ethereum", "sanad_registry", block),
     ContractRow("eth-2", "ethereum", "bridge", block) >>

EthereumEnhancedSanads(txs, block) ==
  WithProof(EthereumSanads(txs, block), "merkle_patricia")

EthereumEnhancedSeals(txs, block) ==
  WithProof(EthereumSeals(txs, block), "merkle_patricia")

EthereumEnhancedTransfers(txs, block) ==
  WithProof(EthereumTransfers(txs, block), "merkle_patricia")
=============================================================================
