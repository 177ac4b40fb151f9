--------------------------- MODULE FeedProjection ---------------------------
(***************************************************************************)
(* WalletFeedProjection of shared/src/types.rs: the ordered, idempotent    *)
(* read model that the API's hub keeps and that a wallet keeps of its own. *)
(* observation_sequences and the finality map are read off the envelopes.  *)
(* The checks of validate on single values (schema and protocol versions,  *)
(* non-empty text, agreement of the envelope with its event) are           *)
(* abstracted: the envelopes of the model pass them.                       *)
(***************************************************************************)
EXTENDS Naturals

CONSTANT NoReorg  \* an envelope without reorg_replacement

EnvelopeFields ==
  {"id", "sequence", "chain", "network", "event", "height", "finality", "reorg"}

EmptyProjection == [last |-> 0, envelopes |-> {}]

\* The key of the finality map: the chain and the event, not the network.
EventKey(e) == <<e.chain, e.event>>

\* WalletFeedEnvelope::validate: a reorg replaces another observation, with a
\* block (the observed one) above the common ancestor.
ValidEnvelope(e) ==
  e.reorg # NoReorg => e.reorg.replaced # e.id /\ e.reorg.ancestor < e.height

\* x is the last envelope that set the finality of its event.
IsNewest(p, x) ==
  \A y \in p.envelopes : EventKey(y) = EventKey(x) => y.sequence <= x.sequence

ReplacesKnown(p, e) ==
  e.reorg # NoReorg =>
    \E x \in p.envelopes :
      /\ x.id = e.reorg.replaced
      /\ x.chain = e.chain
      /\ x.network = e.network
      /\ e.reorg.ancestor < x.height

KeepsFinality(p, e) ==
  e.reorg = NoReorg =>
    \A x \in p.envelopes :
      EventKey(x) = EventKey(e) /\ IsNewest(p, x) => x.finality <= e.finality

\* apply returns Ok(true) and the projection becomes Applied(p, e) ...
Applies(p, e) ==
  /\ ValidEnvelope(e)
  /\ \A x \in p.envelopes : x.id # e.id
  /\ e.sequence = p.last + 1
  /\ ReplacesKnown(p, e)
  /\ KeepsFinality(p, e)

Applied(p, e) == [last |-> e.sequence, envelopes |-> p.envelopes \cup {e}]

\* ... or Ok(false), and it stays as it was; in every other case Err.
Redelivered(p, e) ==
  /\ ValidEnvelope(e)
  /\ \E x \in p.envelopes : x.id = e.id /\ x.sequence = e.sequence

\* Mutant of Since: off by one.
SinceNext(p, n) == { x \in p.envelopes : x.sequence > n + 1 }

Since(p, n) == { x \in p.envelopes : x.sequence > n }

-----------------------------------------------------------------------------
(* Stored rows.                                                            *)

Sequences(S) == { x.sequence : x \in S }

\* The projection after the rows of S up to sequence n.
ProjectionAt(S, n) ==
  [last |-> n, envelopes |-> { x \in S : x.sequence <= n }]

\* The n rows S all apply, in the order of their sequences.
Replays(S, n) ==
  /\ Sequences(S) = 1..n
  /\ \A e \in S : Applies(ProjectionAt(S, e.sequence - 1), e)

\* p is what the first rows of S make of an empty projection.
IsInitialPart(p, S) ==
  p = ProjectionAt(S, p.last) /\ 1..p.last \subseteq Sequences(S)
=============================================================================
