------------------------------- MODULE FeedLog -------------------------------
(***************************************************************************)
(* What the wallet feed promises: one durable, ordered, legal history, of  *)
(* which every wallet has applied an initial part, and only ever applies   *)
(* more of the same.                                                       *)
(***************************************************************************)
EXTENDS FeedProjection

CONSTANTS
  Envelope,  \* the envelopes a producer may publish
  Wallet

VARIABLES
  log,   \* the history
  seen   \* the projection of each wallet

Append(e) ==
  /\ Sequences(log) = 1..(e.sequence - 1)
  /\ Applies(ProjectionAt(log, e.sequence - 1), e)
  /\ log' = log \cup {e}
  /\ UNCHANGED seen

Deliver(w, n) ==
  /\ seen[w].last < n
  /\ seen' = [seen EXCEPT ![w] = ProjectionAt(log, n)]
  /\ UNCHANGED log

Init == log = {} /\ seen = [w \in Wallet |-> EmptyProjection]

Next ==
  \/ \E e \in Envelope : Append(e)
  \/ \E w \in Wallet, n \in Sequences(log) : Deliver(w, n)

Spec == Init /\ [][Next]_<<log, seen>>
=============================================================================
