-------------------------- MODULE WalletFeedProofs --------------------------
(***************************************************************************)
(* Proofs about WalletFeed, for any number of hubs, wallets and envelopes: *)
(* the stored history always replays, and what hubs serve and wallets have *)
(* applied are initial parts of it.                                        *)
(*                                                                         *)
(* The argument is about publications.  An envelope that a hub is about to *)
(* insert was checked against that hub's projection, which may be stale by *)
(* now; but it was checked at a sequence, and if the row at that sequence  *)
(* is still free then nothing was stored since.                            *)
(***************************************************************************)
EXTENDS WalletFeed, TLAPS

Projections == [last : Nat, envelopes : SUBSET Envelope]

(* e was checked against the rows of S before its sequence, all there.     *)
Checked(S, e) ==
  /\ e \in Envelope
  /\ Applies(ProjectionAt(S, e.sequence - 1), e)
  /\ 1..(e.sequence - 1) \subseteq Sequences(S)

(* S is a history: rows 1, 2, 3, ... each checked against those before it. *)
History(S) ==
  /\ \E n \in Nat : Sequences(S) = 1..n
  /\ \A x, y \in S : x.sequence = y.sequence => x = y
  /\ \A x \in S : Checked(S, x)

(* Whatever may still be inserted was checked.                             *)
PublicationsChecked ==
  /\ \A h \in Hub : pc[h] = "inserting" => Checked(disk, pending[h])
  /\ \A x \in orphans : Checked(disk, x[2])

PublicationsFollow ==
  \A h \in Hub :
    /\ pc[h] \in {"inserting", "inserted"} =>
         pending[h].sequence = projection[h].last + 1
    /\ pc[h] = "inserted" => pending[h] \in disk

(* A receiver is attached to a running hub and not beyond what it sent.    *)
ReceiversAttached ==
  \A w \in Wallet : phase[w] # "offline" =>
    pc[conn[w]] # "down" /\ position[w] <= projection[conn[w]].last + 1

IInv ==
  /\ TypeOK
  /\ History(disk)
  /\ PublicationsChecked
  /\ PublicationsFollow
  /\ ReceiversAttached
  /\ ServesStoredHistory
  /\ WalletSeesHistory
  /\ NoWindow

-----------------------------------------------------------------------------
(* The type invariant.                                                     *)
LEMMA InitTypeOK == Init => TypeOK
  BY FeedAssumption DEF Init, TypeOK, Projections, EmptyProjection

LEMMA AppliedType ==
  ASSUME NEW p \in Projections, NEW e \in Envelope
  PROVE  Applied(p, e) \in Projections
  BY FeedAssumption DEF Applied, Projections

LEMMA ProjectionAtType ==
  ASSUME NEW S \in SUBSET Envelope, NEW n \in Nat
  PROVE  ProjectionAt(S, n) \in Projections
  BY DEF ProjectionAt, Projections

LEMMA SequencesType ==
  ASSUME NEW S \in SUBSET Envelope
  PROVE  Sequences(S) \subseteq Nat \ {0}
  BY FeedAssumption DEF Sequences

LEMMA HubTypeOK ==
  ASSUME TypeOK, NEW h \in Hub,
         \/ HubStep(h)
         \/ \E e \in Envelope : BeginPublish(h, e) \/ OrphanInsert(h, e)
         \/ InsertFails(h)
         \/ DropPublish(h)
         \/ Crash(h)
  PROVE  TypeOK'
<1>1. CASE Start(h)
  <2>1. PICK n \in Sequences(disk) \cup {0} :
          projection' = [projection EXCEPT ![h] = ProjectionAt(disk, n)]
    BY <1>1 DEF Start
  <2>2. ProjectionAt(disk, n) \in Projections
    BY ProjectionAtType, SequencesType DEF TypeOK, Projections
  <2>3. QED
    BY <1>1, <2>1, <2>2 DEF Start, TypeOK, Projections, client
<1>2. CASE InsertRow(h)
  BY <1>2 DEF InsertRow, TypeOK, Projections, client
<1>3. CASE InsertRejected(h)
  BY <1>3 DEF InsertRejected, Release, TypeOK, Projections, client
<1>4. CASE Swap(h)
  <2>1. Applied(projection[h], pending[h])
          \in Projections
    BY <1>4, AppliedType DEF Swap, TypeOK, Projections
  <2>2. QED
    BY <1>4, <2>1 DEF Swap, Release, TypeOK, Projections, client
<1>5. ASSUME NEW e \in Envelope, BeginPublish(h, e) PROVE TypeOK'
  BY <1>5 DEF BeginPublish, TypeOK, Projections, client
<1>6. ASSUME NEW e \in Envelope, OrphanInsert(h, e) PROVE TypeOK'
  BY <1>6 DEF OrphanInsert, TypeOK, Projections, client
<1>7. CASE InsertFails(h)
  BY <1>7, FeedAssumption DEF InsertFails, Fault, Release, TypeOK, Projections, client
<1>8. CASE DropPublish(h)
  BY <1>8, FeedAssumption DEF DropPublish, Fault, Release, TypeOK, Projections, client
<1>9. CASE Crash(h)
  BY <1>9, FeedAssumption DEF Crash, Fault, TypeOK, Projections, EmptyProjection
<1>10. QED
  BY <1>1, <1>2, <1>3, <1>4, <1>5, <1>6, <1>7, <1>8, <1>9 DEF HubStep

LEMMA WalletTypeOK ==
  ASSUME TypeOK, NEW w \in Wallet,
         (\E h \in Hub : Subscribe(w, h)) \/ Fetch(w) \/ Receive(w)
  PROVE  TypeOK'
<1>1. ASSUME NEW h \in Hub, Subscribe(w, h) PROVE TypeOK'
  BY <1>1 DEF Subscribe, TypeOK, Projections, server
<1>2. CASE Fetch(w)
  <2>1. Served(w) \in Projections
    BY <1>2 DEF Fetch, Served, TypeOK, Projections
  <2>2. view' \in [Wallet -> Projections]
    BY <1>2, <2>1 DEF Fetch, Since, TypeOK, Projections
  <2>3. QED
    BY <1>2, <2>2 DEF Fetch, TypeOK, Projections, server
<1>3. CASE Receive(w)
  <2>1. Served(w) \in Projections
    BY <1>3 DEF Receive, Served, TypeOK, Projections
  <2>2. Arriving(w) \in Nat \ {0}
    BY <2>1, FeedAssumption DEF Arriving, TypeOK, Projections
  <2>3. view' \in [Wallet -> Projections]
    BY <1>3, <2>1, <2>2 DEF Receive, TypeOK, Projections
  <2>4. QED
    BY <1>3, <2>2, <2>3 DEF Receive, TypeOK, Projections, server
<1>4. QED
  BY <1>1, <1>2, <1>3

LEMMA NextTypeOK == TypeOK /\ [Next]_vars => TypeOK'
<1>1. CASE UNCHANGED vars
  BY <1>1 DEF vars, TypeOK, Projections
<1>2. QED
  BY <1>1, HubTypeOK, WalletTypeOK DEF Next

(* Every reachable state of the feed is well-typed.                        *)
THEOREM FeedTypeCorrect == Spec => []TypeOK
<1>1. Init => TypeOK
  BY InitTypeOK
<1>2. TypeOK /\ [Next]_vars => TypeOK'
  BY NextTypeOK
<1>3. QED
  BY <1>1, <1>2, PTL DEF Spec

-----------------------------------------------------------------------------
(* A free row can only be the next one.                                    *)
LEMMA FreeIsNext ==
  ASSUME NEW S \in SUBSET Envelope, History(S),
         NEW e, Checked(S, e), e.sequence \notin Sequences(S)
  PROVE  Sequences(S) = 1..(e.sequence - 1)
<1>1. PICK n \in Nat : Sequences(S) = 1..n
  BY DEF History
<1>2. e.sequence \in Nat \ {0}
  BY FeedAssumption DEF Checked
<1>3. n < e.sequence
  BY <1>1, <1>2
<1>4. e.sequence - 1 <= n
  <2>1. CASE e.sequence = 1
    BY <2>1
  <2>2. CASE e.sequence > 1
    <3>1. e.sequence - 1 \in 1..n
      BY <2>2, <1>1, <1>2 DEF Checked
    <3>2. QED
      BY <3>1, <1>2
  <2>3. QED
    BY <2>1, <2>2, <1>2
<1>5. QED
  BY <1>1, <1>2, <1>3, <1>4

(* Storing it leaves every earlier check and every initial part as it was. *)
LEMMA EarlierKept ==
  ASSUME NEW S \in SUBSET Envelope, History(S),
         NEW e, Checked(S, e), e.sequence \notin Sequences(S)
  PROVE  /\ \A n \in Nat : n < e.sequence =>
              ProjectionAt(S \cup {e}, n) = ProjectionAt(S, n)
         /\ Sequences(S \cup {e}) = 1..e.sequence
         /\ \A x : Checked(S, x) => Checked(S \cup {e}, x)
         /\ \A p \in Projections :
              IsInitialPart(p, S) => IsInitialPart(p, S \cup {e})
<1>1. Sequences(S) = 1..(e.sequence - 1)
  BY FreeIsNext
<1>2. e.sequence \in Nat \ {0} /\ e \in Envelope
  BY FeedAssumption DEF Checked
<1>3. \A n \in Nat : n < e.sequence =>
        ProjectionAt(S \cup {e}, n) = ProjectionAt(S, n)
  BY <1>2 DEF ProjectionAt
<1>4. Sequences(S \cup {e}) = Sequences(S) \cup {e.sequence}
  BY DEF Sequences
<1>5. Sequences(S \cup {e}) = 1..e.sequence
  <2>1. \A k \in Nat \ {0} : 1..(k - 1) \cup {k} = 1..k
    OBVIOUS
  <2>2. QED
    BY <2>1, <1>1, <1>2, <1>4
<1>6. ASSUME NEW x, Checked(S, x) PROVE Checked(S \cup {e}, x)
  <2>1. x \in Envelope /\ x.sequence \in Nat \ {0}
    BY <1>6, FeedAssumption DEF Checked
  <2>2. 1..(x.sequence - 1) \subseteq 1..(e.sequence - 1)
    BY <1>1, <1>6 DEF Checked
  <2>3. x.sequence - 1 < e.sequence
    <3>1. CASE x.sequence = 1
      BY <3>1, <1>2
    <3>2. CASE x.sequence > 1
      <4>1. x.sequence - 1 \in 1..(e.sequence - 1)
        BY <2>1, <2>2, <3>2
      <4>2. QED
        BY <4>1, <1>2, <2>1
    <3>3. QED
      BY <3>1, <3>2, <2>1
  <2>4. ProjectionAt(S \cup {e}, x.sequence - 1) = ProjectionAt(S, x.sequence - 1)
    BY <1>3, <2>1, <2>3
  <2>5. QED
    BY <1>6, <1>4, <2>4 DEF Checked
<1>7. ASSUME NEW p \in Projections, IsInitialPart(p, S)
      PROVE  IsInitialPart(p, S \cup {e})
  <2>1. p.last \in Nat
    BY DEF Projections
  <2>2. 1..p.last \subseteq 1..(e.sequence - 1)
    BY <1>1, <1>7 DEF IsInitialPart
  <2>3. p.last < e.sequence
    <3>1. CASE p.last = 0
      BY <3>1, <1>2
    <3>2. CASE p.last > 0
      <4>1. p.last \in 1..(e.sequence - 1)
        BY <2>1, <2>2, <3>2
      <4>2. QED
        BY <4>1, <1>2, <2>1
    <3>3. QED
      BY <3>1, <3>2, <2>1
  <2>4. QED
    BY <1>3, <1>4, <1>7, <2>1, <2>3 DEF IsInitialPart
<1>8. QED
  BY <1>3, <1>5, <1>6, <1>7

LEMMA HistoryGrows ==
  ASSUME NEW S \in SUBSET Envelope, History(S),
         NEW e, Checked(S, e), e.sequence \notin Sequences(S)
  PROVE  History(S \cup {e})
<1>1. e.sequence \in Nat
  BY FeedAssumption DEF Checked
<1>2. \E n \in Nat : Sequences(S \cup {e}) = 1..n
  BY <1>1, EarlierKept
<1>3. \A x, y \in S \cup {e} : x.sequence = y.sequence => x = y
  BY DEF History, Sequences
<1>4. \A x \in S \cup {e} : Checked(S \cup {e}, x)
  <2>1. \A x : Checked(S, x) => Checked(S \cup {e}, x)
    BY EarlierKept
  <2>2. \A x \in S : Checked(S, x)
    BY DEF History
  <2>3. QED
    BY <2>1, <2>2
<1>5. QED
  BY <1>2, <1>3, <1>4 DEF History

(* What a hub would publish next was checked, if its projection is an      *)
(* initial part of the history.                                            *)
LEMMA AppliesIsChecked ==
  ASSUME NEW S \in SUBSET Envelope, NEW p \in Projections,
         IsInitialPart(p, S), NEW e \in Envelope, Applies(p, e)
  PROVE  Checked(S, e)
<1>1. p.last \in Nat /\ e.sequence - 1 = p.last
  BY FeedAssumption DEF Applies, Projections
<1>2. QED
  BY <1>1 DEF Checked, IsInitialPart

(* A history's parts end anywhere.                                         *)
LEMMA PartAt ==
  ASSUME NEW S \in SUBSET Envelope, History(S), NEW n \in Sequences(S)
  PROVE  IsInitialPart(ProjectionAt(S, n), S)
<1>1. PICK m \in Nat : Sequences(S) = 1..m
  BY DEF History
<1>2. 1..n \subseteq Sequences(S)
  BY <1>1
<1>3. QED
  BY <1>2 DEF IsInitialPart, ProjectionAt

-----------------------------------------------------------------------------
(* A step either leaves the rows alone or stores one more of the history.  *)
Stores(e) ==
  /\ Checked(disk, e)
  /\ e.sequence \notin Sequences(disk)
  /\ disk' = disk \cup {e}

LEMMA AllowedIsFree ==
  ASSUME NEW e, InsertAllowed(e)
  PROVE  e.sequence \notin Sequences(disk)
  BY DEF InsertAllowed, Sequences

LEMMA StoresKeeps ==
  ASSUME TypeOK, History(disk), disk' = disk \/ \E e : Stores(e)
  PROVE  /\ History(disk')
         /\ \A x : Checked(disk, x) => Checked(disk', x)
         /\ \A p \in Projections :
              IsInitialPart(p, disk) => IsInitialPart(p, disk')
         /\ disk \subseteq disk'
<1>1. disk \in SUBSET Envelope
  BY DEF TypeOK
<1>2. CASE disk' = disk
  BY <1>2
<1>3. ASSUME NEW e, Stores(e)
      PROVE  /\ History(disk \cup {e})
             /\ \A x : Checked(disk, x) => Checked(disk \cup {e}, x)
             /\ \A p \in Projections :
                  IsInitialPart(p, disk) => IsInitialPart(p, disk \cup {e})
  <2>1. Checked(disk, e) /\ e.sequence \notin Sequences(disk)
    BY <1>3 DEF Stores
  <2>2. QED
    BY <1>1, <2>1, EarlierKept, HistoryGrows
<1>4. QED
  BY <1>2, <1>3 DEF Stores

(* A step of a hub that is no crash leaves the wallets alone.              *)
LEMMA HubKeepsWallets ==
  ASSUME IInv, disk' = disk \/ \E e : Stores(e),
         NEW h \in Hub, UNCHANGED client,
         \A g \in Hub : pc[g] # "down" =>
           pc'[g] # "down" /\ projection[g].last <= projection'[g].last,
         TypeOK'
  PROVE  ReceiversAttached' /\ WalletSeesHistory' /\ NoWindow'
<1>1. ReceiversAttached'
  <2> SUFFICES ASSUME NEW w \in Wallet, phase'[w] # "offline"
               PROVE  /\ pc'[conn'[w]] # "down"
                      /\ position'[w] <= projection'[conn'[w]].last + 1
    BY DEF ReceiversAttached
  <2>1. /\ conn'[w] \in Hub /\ conn'[w] = conn[w]
        /\ pc[conn[w]] # "down"
        /\ position'[w] = position[w]
        /\ position[w] <= projection[conn[w]].last + 1
    BY DEF IInv, TypeOK, client, ReceiversAttached
  <2>2. /\ projection[conn[w]].last \in Nat
        /\ projection'[conn[w]].last \in Nat
        /\ position[w] \in Nat
    BY <2>1 DEF IInv, TypeOK, Projections
  <2>3. QED
    BY <2>1, <2>2
<1>2. WalletSeesHistory'
  <2>1. \A w \in Wallet : view[w] \in Projections
    BY DEF IInv, TypeOK, Projections
  <2>2. QED
    BY <2>1, StoresKeeps DEF IInv, WalletSeesHistory, client
<1>3. NoWindow'
  BY DEF IInv, NoWindow, client
<1>4. QED
  BY <1>1, <1>2, <1>3

LEMMA HubStepIInv ==
  ASSUME IInv, NEW h \in Hub,
         \/ HubStep(h)
         \/ \E e \in Envelope : BeginPublish(h, e) \/ OrphanInsert(h, e)
         \/ InsertFails(h)
         \/ DropPublish(h)
  PROVE  IInv'
<1>1. TypeOK /\ TypeOK' /\ History(disk)
  BY HubTypeOK DEF IInv
<1>2. \A g \in Hub : projection[g] \in Projections /\ projection[g].last \in Nat
  BY <1>1 DEF TypeOK, Projections
<1>3. CASE Start(h)
  <2>1. PICK n \in Sequences(disk) \cup {0} :
          /\ Replays(disk, n)
          /\ projection' = [projection EXCEPT ![h] = ProjectionAt(disk, n)]
    BY <1>3 DEF Start
  <2>2. IsInitialPart(ProjectionAt(disk, n), disk)
    BY <2>1 DEF IsInitialPart, ProjectionAt, Replays
  <2>3. ServesStoredHistory'
    BY <1>1, <1>3, <2>1, <2>2 DEF Start, IInv, ServesStoredHistory, TypeOK
  <2>4. PublicationsChecked' /\ PublicationsFollow'
    BY <1>1, <1>3, <2>1
       DEF Start, IInv, PublicationsChecked, PublicationsFollow, TypeOK
  <2>5. \A g \in Hub : pc[g] # "down" =>
          pc'[g] # "down" /\ projection[g].last <= projection'[g].last
    BY <1>1, <1>2, <1>3, <2>1 DEF Start, TypeOK
  <2>6. disk' = disk /\ UNCHANGED client
    BY <1>3 DEF Start
  <2>7. QED
    BY <1>1, <2>3, <2>4, <2>5, <2>6, HubKeepsWallets DEF IInv
<1>4. ASSUME NEW e \in Envelope, BeginPublish(h, e) PROVE IInv'
  <2>1. Checked(disk, e) /\ e.sequence = projection[h].last + 1
    <3>1. IsInitialPart(projection[h], disk)
      BY DEF IInv, ServesStoredHistory
    <3>2. Applies(projection[h], e) /\ disk \in SUBSET Envelope
      BY <1>1, <1>4 DEF BeginPublish, TypeOK
    <3>3. QED
      BY <1>2, <3>1, <3>2, AppliesIsChecked DEF Applies
  <2>2. PublicationsChecked' /\ PublicationsFollow'
    BY <1>1, <1>4, <2>1
       DEF BeginPublish, IInv, PublicationsChecked, PublicationsFollow, TypeOK
  <2>3. \A g \in Hub : pc[g] # "down" =>
          pc'[g] # "down" /\ projection[g].last <= projection'[g].last
    BY <1>1, <1>2, <1>4 DEF BeginPublish, TypeOK
  <2>4. disk' = disk /\ projection' = projection /\ UNCHANGED client
    BY <1>4 DEF BeginPublish
  <2>5. ServesStoredHistory'
    BY <2>4 DEF IInv, ServesStoredHistory
  <2>6. QED
    BY <1>1, <2>2, <2>3, <2>4, <2>5, HubKeepsWallets DEF IInv
<1>5. CASE InsertRow(h)
  <2>1. Stores(pending[h])
    BY <1>5, AllowedIsFree DEF InsertRow, Stores, IInv, PublicationsChecked
  <2>2. PublicationsChecked'
    BY <1>1, <1>5, <2>1, StoresKeeps
       DEF InsertRow, IInv, PublicationsChecked, TypeOK
  <2>3. PublicationsFollow'
    BY <1>1, <1>5, <2>1, StoresKeeps
       DEF InsertRow, IInv, PublicationsFollow, TypeOK, Stores
  <2>4. \A g \in Hub : pc[g] # "down" =>
          pc'[g] # "down" /\ projection[g].last <= projection'[g].last
    BY <1>1, <1>2, <1>5 DEF InsertRow, TypeOK
  <2>5. projection' = projection /\ UNCHANGED client
    BY <1>5 DEF InsertRow
  <2>6. ServesStoredHistory'
    BY <1>1, <1>2, <2>1, <2>5, StoresKeeps DEF IInv, ServesStoredHistory
  <2>7. History(disk')
    BY <1>1, <2>1, StoresKeeps
  <2>8. QED
    BY <1>1, <2>1, <2>2, <2>3, <2>4, <2>5, <2>6, <2>7, HubKeepsWallets DEF IInv
<1>6. CASE InsertRejected(h) \/ InsertFails(h)
  <2>1. /\ disk' = disk /\ projection' = projection /\ orphans' = orphans
        /\ pc' = [pc EXCEPT ![h] = "idle"]
        /\ pending' = [pending EXCEPT ![h] = NoEnvelope]
        /\ UNCHANGED client
    BY <1>6 DEF InsertRejected, InsertFails, Release
  <2>2. PublicationsChecked'
    BY <1>1, <2>1 DEF IInv, PublicationsChecked, TypeOK
  <2>3. PublicationsFollow'
    BY <1>1, <2>1 DEF IInv, PublicationsFollow, TypeOK
  <2>4. \A g \in Hub : pc[g] # "down" =>
          pc'[g] # "down" /\ projection[g].last <= projection'[g].last
    BY <1>1, <1>2, <2>1 DEF TypeOK
  <2>5. ServesStoredHistory'
    BY <2>1 DEF IInv, ServesStoredHistory
  <2>6. QED
    BY <1>1, <2>1, <2>2, <2>3, <2>4, <2>5, HubKeepsWallets DEF IInv
<1>7. CASE Swap(h)
  <2>1. /\ pending[h] \in disk
        /\ pending[h].sequence = projection[h].last + 1
        /\ IsInitialPart(projection[h], disk)
    BY <1>7 DEF Swap, IInv, PublicationsFollow, ServesStoredHistory
  <2>2. IsInitialPart(Applied(projection[h], pending[h]), disk)
    <3>1. /\ Applied(projection[h], pending[h]).last = projection[h].last + 1
          /\ Applied(projection[h], pending[h]).envelopes =
               projection[h].envelopes \cup {pending[h]}
      BY <2>1 DEF Applied
    <3>2. /\ projection[h].envelopes = { x \in disk : x.sequence <= projection[h].last }
          /\ 1..projection[h].last \subseteq Sequences(disk)
      BY <2>1 DEF IsInitialPart, ProjectionAt
    <3>3. \A x \in disk : x.sequence \in Nat
      BY <1>1, FeedAssumption DEF TypeOK
    <3>4. \A x \in disk : x.sequence <= projection[h].last + 1
            <=> x.sequence <= projection[h].last \/ x = pending[h]
      BY <1>1, <1>2, <2>1, <3>3 DEF History
    <3>5. projection[h].envelopes \cup {pending[h]} =
            { x \in disk : x.sequence <= projection[h].last + 1 }
      BY <2>1, <3>2, <3>4
    <3>6. projection[h].last + 1 \in Sequences(disk)
      BY <2>1 DEF Sequences
    <3>7. 1..(projection[h].last + 1) \subseteq Sequences(disk)
      BY <1>2, <3>2, <3>6
    <3>8. Applied(projection[h], pending[h]) =
            ProjectionAt(disk, projection[h].last + 1)
      BY <2>1, <3>5 DEF Applied, ProjectionAt
    <3>9. QED
      BY <3>1, <3>7, <3>8 DEF IsInitialPart
  <2>3. ServesStoredHistory'
    BY <1>1, <1>7, <2>2 DEF Swap, IInv, ServesStoredHistory, TypeOK
  <2>4. PublicationsChecked' /\ PublicationsFollow'
    BY <1>1, <1>7
       DEF Swap, Release, IInv, PublicationsChecked, PublicationsFollow, TypeOK
  <2>5. \A g \in Hub : pc[g] # "down" =>
          pc'[g] # "down" /\ projection[g].last <= projection'[g].last
    BY <1>1, <1>2, <1>7, <2>1 DEF Swap, Release, TypeOK, Applied
  <2>6. disk' = disk /\ UNCHANGED client
    BY <1>7 DEF Swap
  <2>7. QED
    BY <1>1, <2>3, <2>4, <2>5, <2>6, HubKeepsWallets DEF IInv
<1>8. CASE DropPublish(h)
  <2>1. PublicationsChecked'
    BY <1>1, <1>8 DEF DropPublish, Release, IInv, PublicationsChecked, TypeOK
  <2>2. PublicationsFollow'
    BY <1>1, <1>8 DEF DropPublish, Release, IInv, PublicationsFollow, TypeOK
  <2>3. \A g \in Hub : pc[g] # "down" =>
          pc'[g] # "down" /\ projection[g].last <= projection'[g].last
    BY <1>1, <1>2, <1>8 DEF DropPublish, Release, TypeOK
  <2>4. disk' = disk /\ projection' = projection /\ UNCHANGED client
    BY <1>8 DEF DropPublish
  <2>5. ServesStoredHistory'
    BY <2>4 DEF IInv, ServesStoredHistory
  <2>6. QED
    BY <1>1, <2>1, <2>2, <2>3, <2>4, <2>5, HubKeepsWallets DEF IInv
<1>9. ASSUME NEW e \in Envelope, OrphanInsert(h, e) PROVE IInv'
  <2>1. Checked(disk, e)
    BY <1>9 DEF OrphanInsert, IInv, PublicationsChecked
  <2>2. disk' = disk \/ Stores(e)
    BY <1>9, <2>1, AllowedIsFree DEF OrphanInsert, Stores
  <2>3. disk' = disk \/ \E x : Stores(x)
    BY <2>2
  <2>4. PublicationsChecked'
    BY <1>1, <1>9, <2>3, StoresKeeps DEF OrphanInsert, IInv, PublicationsChecked
  <2>5. PublicationsFollow'
    BY <1>1, <1>9, <2>3, StoresKeeps DEF OrphanInsert, IInv, PublicationsFollow
  <2>6. \A g \in Hub : pc[g] # "down" =>
          pc'[g] # "down" /\ projection[g].last <= projection'[g].last
    BY <1>2, <1>9 DEF OrphanInsert
  <2>7. projection' = projection /\ UNCHANGED client
    BY <1>9 DEF OrphanInsert
  <2>8. ServesStoredHistory'
    BY <1>1, <1>2, <2>3, <2>7, StoresKeeps DEF IInv, ServesStoredHistory
  <2>9. History(disk')
    BY <1>1, <2>3, StoresKeeps
  <2>10. QED
    BY <1>1, <2>3, <2>4, <2>5, <2>6, <2>7, <2>8, <2>9, HubKeepsWallets DEF IInv
<1>10. QED
  BY <1>3, <1>4, <1>5, <1>6, <1>7, <1>8, <1>9 DEF HubStep

LEMMA CrashIInv ==
  ASSUME IInv, NEW h \in Hub, Crash(h)
  PROVE  IInv'
<1>1. TypeOK /\ TypeOK' /\ History(disk)
  BY HubTypeOK DEF IInv
<1>2. /\ disk' = disk /\ view' = view /\ position' = position
      /\ pc' = [pc EXCEPT ![h] = "down"]
      /\ projection' = [projection EXCEPT ![h] = EmptyProjection]
      /\ pending' = [pending EXCEPT ![h] = NoEnvelope]
      /\ orphans' \subseteq orphans
      /\ phase' = [w \in Wallet |-> IF conn[w] = h THEN "offline" ELSE phase[w]]
      /\ conn' = [w \in Wallet |-> IF conn[w] = h THEN NoHub ELSE conn[w]]
  BY DEF Crash
<1>3. PublicationsChecked'
  BY <1>1, <1>2 DEF IInv, PublicationsChecked, TypeOK
<1>4. PublicationsFollow'
  BY <1>1, <1>2 DEF IInv, PublicationsFollow, TypeOK
<1>5. IsInitialPart(EmptyProjection, disk)
  <2>1. \A x \in disk : x.sequence \in Nat \ {0}
    BY <1>1, FeedAssumption DEF TypeOK
  <2>2. { x \in disk : x.sequence <= 0 } = {} /\ 1..0 = {}
    BY <2>1
  <2>3. QED
    BY <2>2 DEF IsInitialPart, EmptyProjection, ProjectionAt
<1>6. ServesStoredHistory'
  BY <1>1, <1>2, <1>5 DEF IInv, ServesStoredHistory, TypeOK
<1>7. WalletSeesHistory'
  BY <1>2 DEF IInv, WalletSeesHistory
<1>8. ReceiversAttached'
  <2> SUFFICES ASSUME NEW w \in Wallet, phase'[w] # "offline"
               PROVE  /\ pc'[conn'[w]] # "down"
                      /\ position'[w] <= projection'[conn'[w]].last + 1
    BY DEF ReceiversAttached
  <2>1. conn[w] # h /\ conn'[w] = conn[w] /\ phase[w] # "offline"
    BY <1>2
  <2>2. conn[w] \in Hub
    BY <1>1, <2>1 DEF TypeOK
  <2>3. QED
    BY <1>1, <1>2, <2>1, <2>2 DEF IInv, ReceiversAttached, TypeOK
<1>9. NoWindow'
  BY <1>2 DEF IInv, NoWindow
<1>10. QED
  BY <1>1, <1>2, <1>3, <1>4, <1>6, <1>7, <1>8, <1>9 DEF IInv

-----------------------------------------------------------------------------
(* A wallet's step makes its projection a longer part of the history, or   *)
(* leaves it alone.                                                        *)
Advances(w) ==
  \E n \in Sequences(disk) :
    view[w].last < n /\ view' = [view EXCEPT ![w] = ProjectionAt(disk, n)]

LEMMA FetchAdvances ==
  ASSUME IInv, NEW w \in Wallet, Fetch(w)
  PROVE  /\ view' = view \/ Advances(w)
         /\ position[w] <= view'[w].last + 1
<1>1. TypeOK /\ History(disk) /\ conn[w] \in Hub
  BY DEF IInv, Fetch, TypeOK
<1>2. /\ Served(w) = ProjectionAt(disk, Served(w).last)
      /\ 1..Served(w).last \subseteq Sequences(disk)
      /\ view[w] = ProjectionAt(disk, view[w].last)
      /\ 1..view[w].last \subseteq Sequences(disk)
  BY <1>1 DEF IInv, ServesStoredHistory, WalletSeesHistory, IsInitialPart, Served
<1>3. /\ Served(w).last \in Nat /\ view[w].last \in Nat
      /\ position[w] \in Nat /\ position[w] <= Served(w).last + 1
      /\ \A x \in disk : x.sequence \in Nat
  BY <1>1, FeedAssumption
     DEF IInv, TypeOK, Projections, Served, ReceiversAttached, Fetch
<1> DEFINE more == Since(Served(w), view[w].last)
<1>4. more = { x \in disk : x.sequence <= Served(w).last
                             /\ x.sequence > view[w].last }
  <2>1. Served(w).envelopes = { x \in disk : x.sequence <= Served(w).last }
    BY <1>2 DEF ProjectionAt
  <2>2. QED
    BY <2>1 DEF Since
<1>5. CASE more = {}
  <2>1. view' = view
    BY <1>1, <1>5 DEF Fetch, TypeOK
  <2>2. Served(w).last <= view[w].last
    <3> SUFFICES ASSUME view[w].last < Served(w).last PROVE FALSE
      BY <1>3
    <3>1. Served(w).last \in Sequences(disk)
      BY <1>2, <1>3
    <3>2. QED
      BY <1>3, <1>4, <1>5, <3>1 DEF Sequences
  <2>3. QED
    BY <1>3, <2>1, <2>2
<1>6. CASE more # {}
  <2>1. view' = [view EXCEPT ![w] = [last |-> Served(w).last,
                    envelopes |-> view[w].envelopes \cup more]]
    BY <1>6 DEF Fetch
  <2>2. view[w].last < Served(w).last
    BY <1>3, <1>4, <1>6
  <2>3. view[w].envelopes = { x \in disk : x.sequence <= view[w].last }
    BY <1>2 DEF ProjectionAt
  <2>4. view[w].envelopes \cup more = { x \in disk : x.sequence <= Served(w).last }
    BY <1>3, <1>4, <2>2, <2>3
  <2>5. view' = [view EXCEPT ![w] = ProjectionAt(disk, Served(w).last)]
    BY <2>1, <2>4 DEF ProjectionAt
  <2>6. Served(w).last \in Sequences(disk)
    BY <1>2, <1>3, <2>2
  <2>7. view'[w].last = Served(w).last
    BY <1>1, <2>1 DEF TypeOK
  <2>8. QED
    BY <1>3, <2>2, <2>5, <2>6, <2>7 DEF Advances
<1>7. QED
  BY <1>5, <1>6

LEMMA ReceiveAdvances ==
  ASSUME IInv, NEW w \in Wallet, Receive(w)
  PROVE  /\ view' = view \/ Advances(w)
         /\ phase'[w] = "live" => position'[w] <= view'[w].last + 1
         /\ position'[w] <= Served(w).last + 1
<1>1. TypeOK /\ History(disk) /\ conn[w] \in Hub
  BY DEF IInv, Receive, TypeOK
<1>2. /\ Served(w) = ProjectionAt(disk, Served(w).last)
      /\ 1..Served(w).last \subseteq Sequences(disk)
      /\ view[w] = ProjectionAt(disk, view[w].last)
  BY <1>1 DEF IInv, ServesStoredHistory, WalletSeesHistory, IsInitialPart, Served
<1>3. /\ Served(w).last \in Nat /\ view[w].last \in Nat
      /\ position[w] \in Nat \ {0} /\ position[w] <= Served(w).last
      /\ \A x \in disk : x.sequence \in Nat
  BY <1>1, FeedAssumption DEF TypeOK, Projections, Served, Receive
<1>4. Arriving(w) \in Nat \ {0} /\ Arriving(w) <= Served(w).last
  BY <1>3, FeedAssumption DEF Arriving
<1>5. /\ position'[w] = Arriving(w) + 1
      /\ phase'[w] = IF Arriving(w) <= view[w].last + 1 THEN "live" ELSE "catchup"
  BY <1>1 DEF Receive, TypeOK
<1>6. CASE Arriving(w) # view[w].last + 1
  <2>1. view' = view
    BY <1>1, <1>6 DEF Receive, TypeOK
  <2>2. QED
    BY <1>3, <1>4, <1>5, <1>6, <2>1
<1>7. CASE Arriving(w) = view[w].last + 1
  <2> DEFINE arriving == { x \in Served(w).envelopes : x.sequence = Arriving(w) }
  <2>1. view' = [view EXCEPT ![w] = [last |-> Arriving(w),
                    envelopes |-> view[w].envelopes \cup arriving]]
    BY <1>7 DEF Receive
  <2>2. /\ view[w].envelopes = { x \in disk : x.sequence <= view[w].last }
        /\ Served(w).envelopes = { x \in disk : x.sequence <= Served(w).last }
    BY <1>2 DEF ProjectionAt
  <2>3. view[w].envelopes \cup arriving = { x \in disk : x.sequence <= Arriving(w) }
    BY <1>3, <1>4, <1>7, <2>2
  <2>4. view' = [view EXCEPT ![w] = ProjectionAt(disk, Arriving(w))]
    BY <2>1, <2>3 DEF ProjectionAt
  <2>5. Arriving(w) \in Sequences(disk)
    BY <1>2, <1>3, <1>4
  <2>6. view'[w].last = Arriving(w)
    BY <1>1, <2>1 DEF TypeOK
  <2>7. QED
    <3>1. view[w].last < Arriving(w)
      BY <1>3, <1>7
    <3>2. Advances(w)
      BY <2>4, <2>5, <3>1 DEF Advances
    <3>3. position'[w] <= view'[w].last + 1 /\ position'[w] <= Served(w).last + 1
      BY <1>3, <1>4, <1>5, <2>6
    <3>4. QED
      BY <3>2, <3>3
<1>8. QED
  BY <1>6, <1>7

LEMMA AdvancesKeepsPart ==
  ASSUME IInv, NEW w \in Wallet, view' = view \/ Advances(w), disk' = disk
  PROVE  WalletSeesHistory'
<1>1. CASE view' = view
  BY <1>1 DEF IInv, WalletSeesHistory
<1>2. CASE Advances(w)
  <2>1. PICK n \in Sequences(disk) :
          view' = [view EXCEPT ![w] = ProjectionAt(disk, n)]
    BY <1>2 DEF Advances
  <2>2. IsInitialPart(ProjectionAt(disk, n), disk)
    BY PartAt DEF IInv, TypeOK
  <2>3. QED
    BY <2>1, <2>2 DEF IInv, WalletSeesHistory, TypeOK
<1>3. QED
  BY <1>1, <1>2

LEMMA WalletStepIInv ==
  ASSUME IInv, NEW w \in Wallet,
         (\E h \in Hub : Subscribe(w, h)) \/ Fetch(w) \/ Receive(w)
  PROVE  IInv'
<1>1. TypeOK /\ TypeOK' /\ History(disk)
  BY WalletTypeOK DEF IInv
<1>2. UNCHANGED server
  BY DEF Subscribe, Fetch, Receive
<1>3. PublicationsChecked' /\ PublicationsFollow' /\ ServesStoredHistory'
  BY <1>2 DEF IInv, PublicationsChecked, PublicationsFollow,
              ServesStoredHistory, server
<1>4. ASSUME NEW h \in Hub, Subscribe(w, h)
      PROVE  ReceiversAttached' /\ WalletSeesHistory' /\ NoWindow'
  <2>1. projection[h].last \in Nat
    BY <1>1 DEF TypeOK, Projections
  <2>2. ReceiversAttached'
    BY <1>1, <1>2, <1>4, <2>1
       DEF Subscribe, IInv, ReceiversAttached, TypeOK, server
  <2>3. WalletSeesHistory' /\ NoWindow'
    BY <1>1, <1>2, <1>4
       DEF Subscribe, IInv, WalletSeesHistory, NoWindow, TypeOK, server
  <2>4. QED
    BY <2>2, <2>3
<1>5. ASSUME Fetch(w)
      PROVE  ReceiversAttached' /\ WalletSeesHistory' /\ NoWindow'
  <2>1. /\ conn' = conn /\ position' = position
        /\ phase' = [phase EXCEPT ![w] = "live"]
        /\ phase[w] = "catchup"
    BY <1>5 DEF Fetch
  <2>2. ReceiversAttached'
    BY <1>1, <1>2, <2>1 DEF IInv, ReceiversAttached, TypeOK, server
  <2>3. /\ view' = view \/ Advances(w)
        /\ position[w] <= view'[w].last + 1
    BY <1>5, FetchAdvances
  <2>4. WalletSeesHistory'
    BY <1>2, <2>3, AdvancesKeepsPart DEF server
  <2>5. NoWindow'
    BY <1>1, <2>1, <2>3 DEF IInv, NoWindow, TypeOK, Advances
  <2>6. QED
    BY <2>2, <2>4, <2>5
<1>6. ASSUME Receive(w)
      PROVE  ReceiversAttached' /\ WalletSeesHistory' /\ NoWindow'
  <2>1. /\ conn' = conn
        /\ position' = [position EXCEPT ![w] = Arriving(w) + 1]
        /\ phase' = [phase EXCEPT ![w] =
               IF Arriving(w) <= view[w].last + 1 THEN "live" ELSE "catchup"]
        /\ phase[w] = "live"
    BY <1>6 DEF Receive
  <2>2. /\ view' = view \/ Advances(w)
        /\ phase'[w] = "live" => position'[w] <= view'[w].last + 1
        /\ position'[w] <= Served(w).last + 1
    BY <1>6, ReceiveAdvances
  <2>3. ReceiversAttached'
    BY <1>1, <1>2, <2>1, <2>2 DEF IInv, ReceiversAttached, TypeOK, server, Served
  <2>4. WalletSeesHistory'
    BY <1>2, <2>2, AdvancesKeepsPart DEF server
  <2>5. NoWindow'
    BY <1>1, <2>1, <2>2 DEF IInv, NoWindow, TypeOK, Advances
  <2>6. QED
    BY <2>3, <2>4, <2>5
<1>7. QED
  BY <1>1, <1>2, <1>3, <1>4, <1>5, <1>6 DEF IInv, server

-----------------------------------------------------------------------------
LEMMA InitIInv == Init => IInv
<1> SUFFICES ASSUME Init PROVE IInv
  OBVIOUS
<1>1. TypeOK
  BY InitTypeOK
<1>2. History(disk)
  <2>1. Sequences(disk) = 1..0 /\ disk = {}
    BY DEF Init, Sequences
  <2>2. QED
    BY <2>1 DEF History
<1>3. IsInitialPart(EmptyProjection, disk)
  BY DEF Init, IsInitialPart, EmptyProjection, ProjectionAt, Sequences
<1>4. QED
  BY <1>1, <1>2, <1>3
     DEF Init, IInv, PublicationsChecked, PublicationsFollow,
         ReceiversAttached, ServesStoredHistory, WalletSeesHistory, NoWindow

LEMMA NextIInv == IInv /\ [Next]_vars => IInv'
<1> SUFFICES ASSUME IInv, [Next]_vars PROVE IInv'
  OBVIOUS
<1>1. CASE UNCHANGED vars
  BY <1>1, NextTypeOK
     DEF vars, IInv, PublicationsChecked, PublicationsFollow,
         ReceiversAttached, ServesStoredHistory, WalletSeesHistory, NoWindow
<1>2. CASE Next
  BY <1>2, HubStepIInv, CrashIInv, WalletStepIInv DEF Next
<1>3. QED
  BY <1>1, <1>2

LEMMA FeedInvariant == Spec => []IInv
<1>1. Init => IInv
  BY InitIInv
<1>2. IInv /\ [Next]_vars => IInv'
  BY NextIInv
<1>3. QED
  BY <1>1, <1>2, PTL DEF Spec

(* A process can always be started: the rows that the hubs stored replay,  *)
(* one after the other, from the first to the last.                        *)
THEOREM FeedHistoryReplays == Spec => []HistoryReplays
<1>1. IInv => HistoryReplays
  <2> SUFFICES ASSUME IInv PROVE HistoryReplays
    OBVIOUS
  <2>1. PICK n \in Nat : Sequences(disk) = 1..n
    BY DEF IInv, History
  <2>2. n \in Sequences(disk) \cup {0}
    BY <2>1
  <2>3. Replays(disk, n)
    BY <2>1 DEF IInv, History, Replays, Checked
  <2>4. QED
    BY <2>2, <2>3 DEF HistoryReplays
<1>2. QED
  BY <1>1, FeedInvariant, PTL

(* No hub ever serves or broadcasts what is not stored, or another         *)
(* envelope under a stored sequence, however many processes share the      *)
(* database and however their publications end.                            *)
THEOREM FeedServesStoredHistory == Spec => []ServesStoredHistory
<1>1. IInv => ServesStoredHistory
  BY DEF IInv
<1>2. QED
  BY <1>1, FeedInvariant, PTL

(* No wallet ever holds a gap, or anything a crash took back.              *)
THEOREM FeedWalletSeesHistory == Spec => []WalletSeesHistory
<1>1. IInv => WalletSeesHistory
  BY DEF IInv
<1>2. QED
  BY <1>1, FeedInvariant, PTL

(* Subscribing before fetching leaves no window.                           *)
THEOREM FeedNoWindow == Spec => []NoWindow
<1>1. IInv => NoWindow
  BY DEF IInv
<1>2. QED
  BY <1>1, FeedInvariant, PTL

-----------------------------------------------------------------------------
(* The refinement: a stored row appends to the log, a wallet's step        *)
(* delivers more of it, and every other step leaves both alone.            *)
LEMMA StoresAppends ==
  ASSUME IInv, NEW e, Stores(e), view' = view
  PROVE  Log!Append(e)
<1>1. Sequences(disk) = 1..(e.sequence - 1)
  BY FreeIsNext DEF Stores, IInv, TypeOK
<1>2. Applies(ProjectionAt(disk, e.sequence - 1), e) /\ disk' = disk \cup {e}
  BY DEF Stores, Checked
<1>3. QED
  BY <1>1, <1>2
     DEF Log!Append, Log!Sequences, Sequences, Log!Applies, Applies,
         Log!ProjectionAt, ProjectionAt, Log!ValidEnvelope, ValidEnvelope,
         Log!ReplacesKnown, ReplacesKnown, Log!KeepsFinality, KeepsFinality,
         Log!IsNewest, IsNewest, Log!EventKey, EventKey

LEMMA StepImplementsLog ==
  ASSUME IInv, [Next]_vars
  PROVE  [Log!Next]_<<disk, view>>
<1>1. ASSUME NEW h \in Hub, InsertRow(h) PROVE Log!Next
  <2>1. Stores(pending[h]) /\ view' = view /\ pending[h] \in Envelope
    BY <1>1, AllowedIsFree
       DEF InsertRow, Stores, IInv, PublicationsChecked, Checked, client
  <2>2. QED
    BY <2>1, StoresAppends DEF Log!Next
<1>2. ASSUME NEW h \in Hub, NEW e \in Envelope, OrphanInsert(h, e)
      PROVE  Log!Next \/ UNCHANGED <<disk, view>>
  <2>1. view' = view /\ (disk' = disk \/ Stores(e))
    BY <1>2, AllowedIsFree
       DEF OrphanInsert, Stores, IInv, PublicationsChecked, client
  <2>2. QED
    BY <2>1, StoresAppends DEF Log!Next
<1>3. ASSUME NEW w \in Wallet, Fetch(w) \/ Receive(w)
      PROVE  Log!Next \/ UNCHANGED <<disk, view>>
  <2>1. disk' = disk /\ (view' = view \/ Advances(w))
    BY <1>3, FetchAdvances, ReceiveAdvances DEF Fetch, Receive, server
  <2>2. QED
    BY <2>1 DEF Advances, Log!Next, Log!Deliver, Log!ProjectionAt, ProjectionAt,
                Log!Sequences, Sequences
<1>4. ASSUME NEW h \in Hub,
             \/ Start(h) \/ InsertRejected(h) \/ Swap(h) \/ InsertFails(h)
             \/ DropPublish(h) \/ Crash(h)
             \/ \E e \in Envelope : BeginPublish(h, e)
             \/ \E w \in Wallet : Subscribe(w, h)
      PROVE  UNCHANGED <<disk, view>>
  BY <1>4 DEF Start, InsertRejected, Swap, InsertFails, DropPublish, Crash,
              BeginPublish, Subscribe, client, server
<1>5. CASE UNCHANGED vars
  BY <1>5 DEF vars
<1>6. QED
  BY <1>1, <1>2, <1>3, <1>4, <1>5 DEF Next, HubStep

(* The hubs, their table and the wallets implement one ordered log.        *)
THEOREM FeedImplementsLog == Spec => ImplementsLog
<1>1. Init => Log!Init
  BY DEF Init, Log!Init, EmptyProjection, Log!EmptyProjection
<1>2. IInv /\ [Next]_vars => [Log!Next]_<<disk, view>>
  BY StepImplementsLog
<1>3. QED
  BY <1>1, <1>2, FeedInvariant, PTL DEF Spec, ImplementsLog, Log!Spec
=============================================================================
