---------------------------- MODULE MCWalletFeed ----------------------------
(* Envelopes for WalletFeed: two producers' accounts of sequence 2, one of *)
(* which finalizes the event that sequence 3 observes again, with and      *)
(* without a reorg; and a fourth on another network of the same chain.     *)
EXTENDS WalletFeed

CONSTANTS mainnet, testnet, t1, t2

MCEnvelope(id, sequence, network, event, height, finality, reorg) ==
  [ id |-> id, sequence |-> sequence, chain |-> "c", network |-> network,
    event |-> event, height |-> height, finality |-> finality, reorg |-> reorg ]

Observed == MCEnvelope("a", 1, mainnet, t1, 5, 0, NoReorg)
Finalized == MCEnvelope("b", 2, mainnet, t1, 5, 2, NoReorg)
Other == MCEnvelope("c", 2, mainnet, t2, 6, 1, NoReorg)
Again == MCEnvelope("d", 3, mainnet, t1, 5, 0, NoReorg)
Replaced == MCEnvelope("e", 3, mainnet, t1, 6, 0,
                       [replaced |-> "a", ancestor |-> 4])
OtherNetwork == MCEnvelope("f", 4, testnet, t1, 3, 1, NoReorg)
WrongNetwork == MCEnvelope("g", 4, testnet, t2, 5, 1,
                           [replaced |-> "a", ancestor |-> 3])

AllEnvelopes ==
  {Observed, Finalized, Other, Again, Replaced, OtherNetwork, WrongNetwork}

ShortFeed == {Observed, Finalized, Other, Again, Replaced}
=============================================================================
