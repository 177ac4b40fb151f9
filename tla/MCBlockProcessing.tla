-------------------------- MODULE MCBlockProcessing --------------------------
(* One ledger of two heights for each chain, and a branch that replaces    *)
(* its end.                                                                *)
EXTENDS BlockProcessing

Event(words, fields) ==
  [type |-> words, fields |-> fields, package |-> "0x2", sender |-> "ann"]

Anchor(id) ==
  Event({"csv_seal", "AnchorEvent"},
        [sanad_id |-> id, owner |-> "ann", commitment |-> "c"])

SealMade(id) == Event({"csv_seal"}, [seal_id |-> id])

SealSpent(id) == Event({"Seal", "Consumed"}, [seal_id |-> id])

Nullified(id) == Event({"csv_seal", "spent"}, [nullifier |-> id])

Bridged(id) ==
  Event({"CrossChain", "bridge", "bridge_transfer"},
        [sanad_id |-> id, from_chain |-> "sui", to_chain |-> "aptos"])

\* An object or a number where a text is looked for.
Malformed(id) ==
  Event({"csv_seal", "spent"}, [seal_id |-> NotText, nullifier |-> id])

Unreadable == Event({"csv_seal", "AnchorEvent"}, [owner |-> "ann"])

Tx(id, events) == [id |-> id, events |-> events]

SuiBlocks ==
  << << Tx("d1", <<SealMade("x1"), Anchor("s1")>>) >>,
     << Tx("d2", <<Bridged("s1"), SealSpent("x1")>>),
        Tx("d3", <<SealMade("x2"), Unreadable, Anchor("s2"), Bridged("s2")>>) >> >>

SuiFork == << SuiBlocks[1], << Tx("d4", <<SealSpent("x1"), Anchor("s3")>>) >> >>

AptosVersions ==
  << Tx("h1", <<SealMade("x1"), Anchor("s1")>>),
     Tx("h2", <<Bridged("s1"), Nullified("x1")>>),
     Tx("h3", <<SealMade("x2"), Malformed("x1"), Unreadable>>) >>

AptosFork == << AptosVersions[1], Tx("h4", <<Anchor("s2"), Bridged("s2")>>),
                AptosVersions[3] >>

Logs(id, account, events) == [id |-> id, account |-> account, events |-> events]

Words(w) == [words |-> w]

SolanaBlocks ==
  << << Logs("sig1", "acc", <<Words({"csv_sanad_created"}), Words({"csv_transfer"})>>),
        Logs(Absent, Absent, <<Words({"SealConsumed"})>>) >>,
     << >> >>

SolanaFork == << SolanaBlocks[1], << Logs("sig2", "acc", <<Words({"SanadCreated"})>>) >> >>

Spend(id, inputs, events) == [id |-> id, inputs |-> inputs, events |-> events]

Input(prev, vout, address) == [prev |-> prev, vout |-> vout, address |-> address]

OpReturn(length, commitment) ==
  [op_return |-> TRUE, magic |-> TRUE, length |-> length, source |-> 1,
   commitment |-> commitment]

Pays == [op_return |-> FALSE, magic |-> FALSE, length |-> 0, source |-> 0,
         commitment |-> ""]

BitcoinBlocks ==
  << << Spend("t1", <<Input(Absent, Absent, Absent)>>, <<Pays>>),
        Spend("t2", <<Input("t0", 0, "ann"), Input("t0", 1, "bob")>>,
              <<OpReturn(64, "c1"), OpReturn(36, "c2")>>) >>,
     << Spend("t3", <<Input("t2", 0, "ann")>>, <<OpReturn(65, "c3")>>) >> >>

BitcoinFork ==
  << BitcoinBlocks[1], << Spend("t4", << >>, <<OpReturn(64, "c1")>>) >> >>

Log(topics) == [topics |-> topics, contract |-> "0xc"]

EthereumBlocks ==
  << << Tx("e1", <<Log(<<"SealUsed", "q1">>), Log(<<"SanadCreated", "q2", "c", "ann">>)>>),
        Tx("e2", <<Log(<<"CrossChainLock", "q2", "c", "ann">>), Log(<< >>)>>) >>,
     << Tx("e3", <<Log(<<"SanadMinted", "q2">>), Log(<<"SealUsed">>),
                   Log(<<"SanadCreated", "q3", "c">>)>>) >> >>

EthereumFork ==
  << EthereumBlocks[1], << Tx("e3", <<Log(<<"SealUsed", "q3">>)>>) >> >>

MCBranches ==
  [ sui |-> <<SuiBlocks, SuiFork>>,
    aptos |-> <<AptosVersions, AptosFork>>,
    solana |-> <<SolanaBlocks, SolanaFork>>,
    bitcoin |-> <<BitcoinBlocks, BitcoinFork>>,
    ethereum |-> <<EthereumBlocks, EthereumFork>> ]
=============================================================================
