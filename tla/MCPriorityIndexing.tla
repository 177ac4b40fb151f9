------------------------- MODULE MCPriorityIndexing -------------------------
(* Registrations and levels for PriorityIndexing.                          *)
EXTENDS PriorityIndexing

CONSTANTS a1, a2, bitcoin, solana, mainnet, testnet, w1, w2

Key(a, c, n, w) == [address |-> a, chain |-> c, network |-> n, wallet_id |-> w]

\* One address of two wallets, on two networks, and one of a chain without an
\* adapter.
MCRegistration ==
  {Key(a1, bitcoin, mainnet, w1), Key(a1, bitcoin, testnet, w2),
   Key(a2, solana, mainnet, w1)}

MCRank == [p \in Level |-> IF p = "high" THEN 1 ELSE IF p = "normal" THEN 2 ELSE 3]
=============================================================================
