----------------------------- MODULE MCChainSync -----------------------------
(* Tasks and chains for ChainSync.                                         *)
EXTENDS ChainSync

CONSTANTS c1, d1, d2

\* Two daemons sync the same chain.
MCChainOf == [d \in Daemon |-> c1]

\* Configured to start after block 1.
MCStartBlock == [c \in Chain |-> 1]
=============================================================================
