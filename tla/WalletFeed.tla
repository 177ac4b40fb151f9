----------------------------- MODULE WalletFeed -----------------------------
(***************************************************************************)
(* The wallet feed: API processes (hubs) that publish envelopes into one   *)
(* table, wallet_feed_events, and to the wallets subscribed to them.       *)
(*                                                                         *)
(* publish holds the projection's write lock from its check to its end, so *)
(* a hub has at most one publication in hand and since() waits for it; but *)
(* the lock is this process's own, and the INSERT is awaited inside it:    *)
(* the caller may drop the future there, while SQLite still runs the       *)
(* statement.  A wallet is the client that the subscription's comment      *)
(* describes: subscribe, fetch what came after the last sequence applied,  *)
(* then apply what arrives, and fetch again when it does not fit.          *)
(***************************************************************************)
EXTENDS FeedProjection

CONSTANTS
  Envelope,   \* the envelopes a producer may publish
  Hub,        \* API processes over one database
  Wallet,
  NoHub,      \* a wallet without a subscription
  NoEnvelope, \* a hub without a publication in hand
  Capacity,   \* broadcast::channel(256)
  MayDrop,    \* whether callers of publish may drop its future
  MaxFaults   \* bound on crashes, failed statements and dropped futures

ASSUME FeedAssumption ==
  /\ Capacity \in Nat \ {0}
  /\ MaxFaults \in Nat
  /\ MayDrop \in BOOLEAN
  /\ NoHub \notin Hub
  /\ NoEnvelope \notin Envelope
  /\ \A e \in Envelope :
       /\ DOMAIN e = EnvelopeFields
       /\ e.sequence \in Nat \ {0}
       /\ e.height \in Nat
       /\ e.finality \in 0..2

VARIABLES
  disk,        \* the rows of wallet_feed_events
  pc,          \* a hub: "down", "idle", "inserting" or "inserted"
  projection,  \* a hub's WalletFeedProjection
  pending,     \* the envelope a hub is publishing
  orphans,     \* INSERTs that still run although their future was dropped
  conn,        \* the hub a wallet is subscribed to
  position,    \* the sequence its receiver reads next
  phase,       \* a wallet: "offline", "catchup" or "live"
  view,        \* what a wallet has applied
  faults       \* faults so far

vars == <<disk, pc, projection, pending, orphans, conn, position, phase, view,
          faults>>

server == <<disk, pc, projection, pending, orphans>>

client == <<conn, position, phase, view>>

\* Mutant of InsertAllowed: the sequence is not a key of the table.
NewObservation(e) == \A row \in disk : row.id # e.id

InsertAllowed(e) == \A row \in disk : row.sequence # e.sequence /\ row.id # e.id

-----------------------------------------------------------------------------
(* from_pool: the process starts only if the stored rows replay.           *)
Start(h) ==
  /\ pc[h] = "down"
  /\ pc' = [pc EXCEPT ![h] = "idle"]
  /\ \E n \in Sequences(disk) \cup {0} :
       /\ Replays(disk, n)
       /\ projection' = [projection EXCEPT ![h] = ProjectionAt(disk, n)]
  /\ UNCHANGED <<disk, pending, orphans, client, faults>>

(* Mutant of BeginPublish: the projection is swapped before the INSERT.    *)
SwapBeforeInsert(h, e) ==
  /\ pc[h] = "idle"
  /\ Applies(projection[h], e)
  /\ pc' = [pc EXCEPT ![h] = "inserting"]
  /\ projection' = [projection EXCEPT ![h] = Applied(@, e)]
  /\ pending' = [pending EXCEPT ![h] = e]
  /\ UNCHANGED <<disk, orphans, client, faults>>

(* publish: the envelope applies to a clone of the projection.  One that   *)
(* is redelivered or does not apply changes nothing.                       *)
BeginPublish(h, e) ==
  /\ pc[h] = "idle"
  /\ Applies(projection[h], e)
  /\ pc' = [pc EXCEPT ![h] = "inserting"]
  /\ pending' = [pending EXCEPT ![h] = e]
  /\ UNCHANGED <<disk, projection, orphans, client, faults>>

(* Mutant of InsertRow: INSERT OR REPLACE.                                 *)
ReplaceRow(h) ==
  /\ pc[h] = "inserting"
  /\ disk' = { x \in disk : x.sequence # pending[h].sequence } \cup {pending[h]}
  /\ pc' = [pc EXCEPT ![h] = "inserted"]
  /\ UNCHANGED <<projection, pending, orphans, client, faults>>

InsertRow(h) ==
  /\ pc[h] = "inserting"
  /\ InsertAllowed(pending[h])
  /\ disk' = disk \cup {pending[h]}
  /\ pc' = [pc EXCEPT ![h] = "inserted"]
  /\ UNCHANGED <<projection, pending, orphans, client, faults>>

\* publish returns, with or without having swapped the projection.
Release(h) ==
  /\ pc' = [pc EXCEPT ![h] = "idle"]
  /\ pending' = [pending EXCEPT ![h] = NoEnvelope]

(* A key of the table is taken: publish fails.                             *)
InsertRejected(h) ==
  /\ pc[h] = "inserting"
  /\ ~InsertAllowed(pending[h])
  /\ Release(h)
  /\ UNCHANGED <<disk, projection, orphans, client, faults>>

(* Swap and broadcast, with no await between them.                         *)
Swap(h) ==
  /\ pc[h] = "inserted"
  /\ projection' = [projection EXCEPT ![h] = Applied(@, pending[h])]
  /\ Release(h)
  /\ UNCHANGED <<disk, orphans, client, faults>>

-----------------------------------------------------------------------------
Fault == faults < MaxFaults /\ faults' = faults + 1

(* The statement fails (busy, I/O): nothing is stored, publish fails.      *)
InsertFails(h) ==
  /\ Fault
  /\ pc[h] = "inserting"
  /\ Release(h)
  /\ UNCHANGED <<disk, projection, orphans, client>>

(* The caller drops the future at the await: the lock is released and the  *)
(* projection is not swapped, whatever becomes of the INSERT.              *)
DropPublish(h) ==
  /\ MayDrop /\ Fault
  /\ pc[h] \in {"inserting", "inserted"}
  /\ orphans' = IF pc[h] = "inserting" THEN orphans \cup {<<h, pending[h]>>}
                                       ELSE orphans
  /\ Release(h)
  /\ UNCHANGED <<disk, projection, client>>

(* SQLite gets to the INSERT of a dropped future.                          *)
OrphanInsert(h, e) ==
  /\ <<h, e>> \in orphans
  /\ orphans' = orphans \ {<<h, e>>}
  /\ disk' = IF InsertAllowed(e) THEN disk \cup {e} ELSE disk
  /\ UNCHANGED <<pc, projection, pending, client, faults>>

(* The process dies: memory is lost and its subscriptions close.           *)
Crash(h) ==
  /\ Fault
  /\ pc[h] # "down"
  /\ pc' = [pc EXCEPT ![h] = "down"]
  /\ projection' = [projection EXCEPT ![h] = EmptyProjection]
  /\ pending' = [pending EXCEPT ![h] = NoEnvelope]
  /\ orphans' = { x \in orphans : x[1] # h }
  /\ phase' = [w \in Wallet |-> IF conn[w] = h THEN "offline" ELSE phase[w]]
  /\ conn' = [w \in Wallet |-> IF conn[w] = h THEN NoHub ELSE conn[w]]
  /\ UNCHANGED <<disk, position, view>>

-----------------------------------------------------------------------------
\* What a wallet's receiver is subscribed to.
Served(w) == projection[conn[w]]

(* A new receiver gets what is sent from now on.                           *)
Subscribe(w, h) ==
  /\ phase[w] = "offline"
  /\ pc[h] # "down"
  /\ conn' = [conn EXCEPT ![w] = h]
  /\ position' = [position EXCEPT ![w] = projection[h].last + 1]
  /\ phase' = [phase EXCEPT ![w] = "catchup"]
  /\ UNCHANGED <<server, view, faults>>

(* GET /wallet/feed?after_sequence: since() of the hub, which waits for    *)
(* the write lock; the wallet applies all it is given.                     *)
Fetch(w) ==
  /\ phase[w] = "catchup"
  /\ pc[conn[w]] = "idle"
  /\ LET more == Since(Served(w), view[w].last) IN
     view' = [view EXCEPT ![w] =
                IF more = {} THEN @
                ELSE [last |-> Served(w).last, envelopes |-> @.envelopes \cup more]]
  /\ phase' = [phase EXCEPT ![w] = "live"]
  /\ UNCHANGED <<server, conn, position, faults>>

\* The channel keeps the last Capacity envelopes; a receiver behind them is
\* moved to the oldest one kept, and the subscription does not say so.
Arriving(w) ==
  IF Served(w).last >= position[w] + Capacity
  THEN Served(w).last + 1 - Capacity
  ELSE position[w]

(* Mutant of Receive: the wallet does not notice a gap.                    *)
ReceiveUnchecked(w) ==
  /\ phase[w] = "live"
  /\ position[w] <= Served(w).last
  /\ position' = [position EXCEPT ![w] = Arriving(w) + 1]
  /\ view' = [view EXCEPT ![w] =
                IF Arriving(w) # @.last + 1 THEN @
                ELSE [last |-> Arriving(w),
                      envelopes |-> @.envelopes \cup
                        { x \in Served(w).envelopes : x.sequence = Arriving(w) }]]
  /\ UNCHANGED <<server, conn, phase, faults>>

(* The subscription yields its next envelope: the wallet applies it, has   *)
(* it already, or sees the gap and catches up.                             *)
Receive(w) ==
  /\ phase[w] = "live"
  /\ position[w] <= Served(w).last
  /\ position' = [position EXCEPT ![w] = Arriving(w) + 1]
  /\ view' = [view EXCEPT ![w] =
                IF Arriving(w) # @.last + 1 THEN @
                ELSE [last |-> Arriving(w),
                      envelopes |-> @.envelopes \cup
                        { x \in Served(w).envelopes : x.sequence = Arriving(w) }]]
  /\ phase' = [phase EXCEPT ![w] =
                 IF Arriving(w) <= view[w].last + 1 THEN "live" ELSE "catchup"]
  /\ UNCHANGED <<server, conn, faults>>

-----------------------------------------------------------------------------
Init ==
  /\ disk = {}
  /\ pc = [h \in Hub |-> "down"]
  /\ projection = [h \in Hub |-> EmptyProjection]
  /\ pending = [h \in Hub |-> NoEnvelope]
  /\ orphans = {}
  /\ conn = [w \in Wallet |-> NoHub]
  /\ position = [w \in Wallet |-> 1]
  /\ phase = [w \in Wallet |-> "offline"]
  /\ view = [w \in Wallet |-> EmptyProjection]
  /\ faults = 0

\* The steps of a hub that is up, or being started, without a fault.
HubStep(h) == Start(h) \/ InsertRow(h) \/ InsertRejected(h) \/ Swap(h)

Next ==
  \/ \E h \in Hub :
       \/ HubStep(h)
       \/ \E e \in Envelope : BeginPublish(h, e) \/ OrphanInsert(h, e)
       \/ InsertFails(h)
       \/ DropPublish(h)
       \/ Crash(h)
  \/ \E w \in Wallet :
       \/ \E h \in Hub : Subscribe(w, h)
       \/ Fetch(w)
       \/ Receive(w)

Spec == Init /\ [][Next]_vars

(* A supervisor restarts the API, a publication that began goes on, a      *)
(* wallet reconnects and reads its subscription.  Fetch waits for a lock   *)
(* that is held again and again, but queues for it fairly.                 *)
FairSpec ==
  /\ Spec
  /\ \A h \in Hub : WF_vars(HubStep(h))
  /\ \A w \in Wallet :
       /\ WF_vars(\E h \in Hub : Subscribe(w, h))
       /\ SF_vars(Fetch(w))
       /\ WF_vars(Receive(w))

-----------------------------------------------------------------------------
(* Type invariant.                                                         *)
TypeOK ==
  /\ disk \subseteq Envelope
  /\ pc \in [Hub -> {"down", "idle", "inserting", "inserted"}]
  /\ projection \in [Hub -> [last : Nat, envelopes : SUBSET Envelope]]
  /\ pending \in [Hub -> Envelope \cup {NoEnvelope}]
  /\ \A h \in Hub : pc[h] \in {"inserting", "inserted"} => pending[h] \in Envelope
  /\ orphans \subseteq Hub \X Envelope
  /\ conn \in [Wallet -> Hub \cup {NoHub}]
  /\ position \in [Wallet -> Nat \ {0}]
  /\ phase \in [Wallet -> {"offline", "catchup", "live"}]
  /\ \A w \in Wallet : phase[w] # "offline" => conn[w] \in Hub
  /\ view \in [Wallet -> [last : Nat, envelopes : SUBSET Envelope]]
  /\ faults \in 0..MaxFaults

(* Whatever the hubs wrote, interleaved, failing, dropped or dying, a new  *)
(* process can rebuild from it: from_pool's "stored wallet feed violates   *)
(* ordering" is never the hubs' own doing.                                 *)
HistoryReplays == \E n \in Sequences(disk) \cup {0} : Replays(disk, n)

(* What a hub serves and broadcasts is an initial part of the stored       *)
(* history, even when another process has written since: "persists an      *)
(* observation before it is published".                                    *)
ServesStoredHistory ==
  \A h \in Hub : IsInitialPart(projection[h], disk)

(* What a wallet has applied, over all its subscriptions to all the hubs,  *)
(* is an initial part of the stored history: no gap, nothing retracted by  *)
(* a crash, no other envelope under a sequence.                            *)
WalletSeesHistory ==
  \A w \in Wallet : IsInitialPart(view[w], disk)

(* A wallet that has caught up misses nothing its hub already broadcast:   *)
(* subscribing before fetching leaves no window.                           *)
NoWindow ==
  \A w \in Wallet : phase[w] = "live" => position[w] <= view[w].last + 1

(* The feed is the ordered history that FeedLog promises.                  *)
Log == INSTANCE FeedLog WITH log <- disk, seen <- view

ImplementsLog == Log!Spec

(* An envelope that every process serves, because one hub published it     *)
(* while the others were down or they have started since, reaches every    *)
(* wallet, whichever hubs it connects to, however far it lags and whatever *)
(* dies.  (A hub that stays up never learns what another process or a      *)
(* cancelled publication stored, and its wallets wait for its end.)        *)
ServedByAll(e) ==
  /\ e \in disk
  /\ \A h \in Hub : pc[h] = "down" \/ e \in projection[h].envelopes

StoredIsDelivered ==
  \A e \in Envelope, w \in Wallet : ServedByAll(e) ~> e \in view[w].envelopes

(* "Duplicate reconnect delivery is intentionally ignored": an idle hub    *)
(* answers the redelivery of anything stored with Ok, as a duplicate.      *)
RedeliveryIgnored ==
  \A h \in Hub : pc[h] = "idle" => \A e \in disk : Redelivered(projection[h], e)
=============================================================================
