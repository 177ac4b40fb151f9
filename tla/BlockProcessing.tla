--------------------------- MODULE BlockProcessing ---------------------------
(***************************************************************************)
(* The caller of a chain adapter.  ChainIndexer::process_block asks the    *)
(* adapter four times about one block and answers how many records of each *)
(* kind it found; the index_* methods answer the records.  Every question  *)
(* is a request of its own to the node, which may fail, and between two of *)
(* them the node may have gone over to another branch.  Nothing of the     *)
(* repository calls process_block or stores what the index_* methods       *)
(* answer: who calls them, and when, is external.                          *)
(***************************************************************************)
EXTENDS ChainDecoders

CONSTANTS
  Branches,   \* chain -> the branches its node shows, one after the other
  Adapters,   \* the chains of this instance
  MaxFaults   \* bound on the requests that fail

ASSUME BlockProcessingAssumption ==
  /\ Adapters \subseteq Chains \cap DOMAIN Branches
  /\ MaxFaults \in Nat

VARIABLES
  chain,    \* the adapter's chain
  branch,   \* the branch the node shows
  faults,   \* how many requests have failed
  call      \* what is being asked

vars == <<chain, branch, faults, call>>

-----------------------------------------------------------------------------
Heights(c) == 1..Len(Branches[c][1])

\* What a request for height h reads of branch b.
BlockOf(c, b, h) ==
  IF c = "aptos" THEN AptosWindow(Branches[c][b], h) ELSE Branches[c][b][h]

\* The node has a block for every height it is asked for, on each branch.
ASSUME BranchesAssumption ==
  \A c \in Adapters :
    /\ IsList(Branches[c]) /\ Branches[c] # << >>
    /\ IsList(Branches[c][1])
    /\ \A b \in DOMAIN Branches[c], h \in Heights(c) : IsBlock(c, BlockOf(c, b, h))

\* The questions of process_block.
ProcessOrder == <<"sanads", "seals", "transfers", "contracts">>

EnhancedKinds == {"enhanced_sanads", "enhanced_seals", "enhanced_transfers"}

Fetched(c, reply) ==
  CASE c = "sui" -> FetchCheckpoint(reply)
    [] c = "aptos" -> FetchBlockTransactions(reply)
    [] c = "solana" -> GetTransactionsForSlot(reply)
    [] c = "bitcoin" -> FetchBlock(reply)
    [] c = "ethereum" -> FetchLogs(reply)

IndexSanads(c, txs, h) ==
  CASE c = "sui" -> SuiSanads(txs, h)
    [] c = "aptos" -> AptosSanads(txs, h)
    [] c = "solana" -> SolanaSanads(txs, h)
    [] c = "bitcoin" -> BitcoinSanads(txs, h)
    [] c = "ethereum" -> EthereumSanads(txs, h)

IndexSeals(c, txs, h) ==
  CASE c = "sui" -> SuiSeals(txs, h)
    [] c = "aptos" -> AptosSeals(txs, h)
    [] c = "solana" -> SolanaSeals(txs, h)
    [] c = "bitcoin" -> BitcoinSeals(txs, h)
    [] c = "ethereum" -> EthereumSeals(txs, h)

IndexTransfers(c, txs, h) ==
  CASE c = "sui" -> SuiTransfers(txs, h)
    [] c = "aptos" -> AptosTransfers(txs, h)
    [] c = "solana" -> SolanaTransfers(txs, h)
    [] c = "bitcoin" -> BitcoinTransfers(txs, h)
    [] c = "ethereum" -> EthereumTransfers(txs, h)

IndexContracts(c, h) ==
  CASE c = "sui" -> SuiContracts(h)
    [] c = "aptos" -> AptosContracts(h)
    [] c = "solana" -> SolanaContracts(h)
    [] c = "bitcoin" -> BitcoinContracts(h)
    [] c = "ethereum" -> EthereumContracts(h)

IndexEnhancedSanads(c, txs, h) ==
  CASE c = "sui" -> SuiEnhancedSanads(txs, h)
    [] c = "aptos" -> AptosEnhancedSanads(txs, h)
    [] c = "solana" -> SolanaEnhancedSanads(txs, h)
    [] c = "bitcoin" -> BitcoinEnhancedSanads(txs, h)
    [] c = "ethereum" -> EthereumEnhancedSanads(txs, h)

IndexEnhancedSeals(c, txs, h) ==
  CASE c = "sui" -> SuiEnhancedSeals(txs, h)
    [] c = "aptos" -> AptosEnhancedSeals(txs, h)
    [] c = "solana" -> SolanaEnhancedSeals(txs, h)
    [] c = "bitcoin" -> BitcoinEnhancedSeals(txs, h)
    [] c = "ethereum" -> EthereumEnhancedSeals(txs, h)

IndexEnhancedTransfers(c, txs, h) ==
  CASE c = "sui" -> SuiEnhancedTransfers(txs, h)
    [] c = "aptos" -> AptosEnhancedTransfers(txs, h)
    [] c = "solana" -> SolanaEnhancedTransfers(txs, h)
    [] c = "bitcoin" -> BitcoinEnhancedTransfers
    [] c = "ethereum" -> EthereumEnhancedTransfers(txs, h)

Decoded(c, kind, txs, h) ==
  CASE kind = "sanads" -> IndexSanads(c, txs, h)
    [] kind = "seals" -> IndexSeals(c, txs, h)
    [] kind = "transfers" -> IndexTransfers(c, txs, h)
    [] kind = "contracts" -> IndexContracts(c, h)
    [] kind = "enhanced_sanads" -> IndexEnhancedSanads(c, txs, h)
    [] kind = "enhanced_seals" -> IndexEnhancedSeals(c, txs, h)
    [] kind = "enhanced_transfers" -> IndexEnhancedTransfers(c, txs, h)

\* A method that asks the node nothing cannot fail.
AsksNode(c, kind) ==
  kind # "contracts" /\ ~(c = "bitcoin" /\ kind = "enhanced_transfers")

Index(c, kind, reply, h) ==
  IF AsksNode(c, kind) /\ Fetched(c, reply) = Failed THEN Failed
  ELSE Decoded(c, kind, Fetched(c, reply), h)

-----------------------------------------------------------------------------
Idle == [on |-> FALSE]

Begin(h, kinds) ==
  /\ ~call.on
  /\ call' = [on |-> TRUE, at |-> h, todo |-> kinds, got |-> << >>,
              since |-> branch, faulty |-> FALSE]
  /\ UNCHANGED <<chain, branch, faults>>

Init ==
  /\ chain \in Adapters
  /\ branch = 1
  /\ faults = 0
  /\ call = Idle

ProcessBlock == \E h \in Heights(chain) : Begin(h, ProcessOrder)

AskEnhanced ==
  \E h \in Heights(chain), k \in EnhancedKinds : Begin(h, <<k>>)

\* The adapter's method for the next kind returns.  An error ends the call.
Return(reply) ==
  LET kind == Head(call.todo)
      list == Index(chain, kind, reply, call.at)
  IN  /\ call.on
      /\ call.todo # << >>
      /\ call' = IF list = Failed THEN Idle
                 ELSE [call EXCEPT !.todo = Tail(@),
                                   !.got = Append(@, [kind |-> kind, list |-> list]),
                                   !.faulty = @ \/ reply.kind # "whole"]
      /\ UNCHANGED <<chain, branch>>

Answered ==
  /\ call.on
  /\ Return(Whole(BlockOf(chain, branch, call.at)))
  /\ UNCHANGED faults

\* The node fails, or one of the block's transactions cannot be read.
AnsweredWithFault ==
  /\ faults < MaxFaults
  /\ call.on
  /\ call.todo # << >>
  /\ AsksNode(chain, Head(call.todo))
  /\ LET txs == BlockOf(chain, branch, call.at)
     IN  \E reply \in Faults \cup { Part(RemoveAt(txs, k)) : k \in DOMAIN txs } :
           Return(reply)
  /\ faults' = faults + 1

\* The four questions are answered: the caller has its counts.
End ==
  /\ call.on
  /\ call.todo = << >>
  /\ call' = Idle
  /\ UNCHANGED <<chain, branch, faults>>

\* External: the node goes over to the next branch.
Reorg ==
  /\ branch < Len(Branches[chain])
  /\ branch' = branch + 1
  /\ UNCHANGED <<chain, faults, call>>

Next ==
  \/ ProcessBlock \/ AskEnhanced
  \/ Answered \/ AnsweredWithFault \/ End
  \/ Reorg

Spec == Init /\ [][Next]_vars

-----------------------------------------------------------------------------
IdsIn(list) == { list[k].id : k \in DOMAIN list }

\* The chains whose adapters answer every failed request with an error.
StrictChains == {"sui", "aptos"}

PlainKind(kind) ==
  CASE kind = "enhanced_sanads" -> "sanads"
    [] kind = "enhanced_seals" -> "seals"
    [] kind = "enhanced_transfers" -> "transfers"
    [] OTHER -> kind

\* What the node showed for the block, read without a fault.
OnBranch(b, kind, h) ==
  IdsIn(Decoded(chain, kind, BlockOf(chain, b, h), h))

\* Whatever fails and whenever the node changes its mind, an answer of an
\* adapter lists the records of one version of the block the node had while
\* the call was on: all of them, on Sui and Aptos after any fault and on the
\* other chains as long as no request of the call failed, and none that is
\* not in it otherwise (the swallowed errors of fetch_block, fetch_logs and
\* get_transactions_for_slot).  The enhanced records are those of the plain
\* methods, but for Bitcoin's transfers, of which there are none.
AnswersListTheBlock ==
  call.on =>
    \A k \in DOMAIN call.got :
      LET kind == call.got[k].kind
          ids == IdsIn(call.got[k].list)
          whole == chain \in StrictChains \/ ~call.faulty
      IN  \E b \in call.since..branch :
            LET shown == OnBranch(b, PlainKind(kind), call.at)
            IN  \/ whole /\ ids = shown
                \/ ~whole /\ ids \subseteq shown
                \/ chain = "bitcoin" /\ kind = "enhanced_transfers" /\ ids = {}
=============================================================================
