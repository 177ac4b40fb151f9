------------------------ MODULE PriorityIndexingProofs ------------------------
(***************************************************************************)
(* Type correctness and safety of PriorityIndexing, for any number of      *)
(* registrations, levels and loops.                                        *)
(***************************************************************************)
EXTENDS PriorityIndexing, TLAPS

\* A loop that asked for a row since it was unregistered has no row of it left.
LateIsGone(k, l) ==
  late[k][l] # 0 =>
    late[k][l] = 1 /\ k \notin Active /\ \A p \in Level : k \notin todo[l][p]

Answered(a, c, n, r) ==
  [address |-> a, chain |-> c, network |-> n, answer |-> r] \in answers

AnsweredOk(k) ==
  \E r : Answered(k.address, k.chain, k.network, r)

IndexedAnswered(k) == k \in Stored /\ table[k].indexed => AnsweredOk(k)

LoggedAnswered(e) ==
  e.success => Answered(e.address, e.chain, e.network, "ok")

BatchAnswered(l) ==
  pc[l] = "record" /\ answer[l] # "failed" =>
    \A k \in batch[l] : Answered(k.address, k.chain, network[l], answer[l])

AnswersInv ==
  /\ \A k \in Registration : IndexedAnswered(k)
  /\ \A e \in log : LoggedAnswered(e)
  /\ \A l \in Loop : BatchAnswered(l)

IInv ==
  /\ TypeOK
  /\ RunningIsServed
  /\ \A k \in Registration, l \in Loop : LateIsGone(k, l)
  /\ AnswersInv

-----------------------------------------------------------------------------
LEMMA InitIInv ==
  ASSUME PriorityAssumption, Init
  PROVE  IInv
<1>1. TypeOK
  <2>1. running \in BOOLEAN
    BY DEF Init
  <2>2. /\ todo \in [Loop -> [Level -> SUBSET Registration]]
        /\ batch \in [Loop -> SUBSET Registration]
    BY DEF Init, Nothing
  <2>3. /\ table \in [Registration -> Row \cup {NoRow}]
        /\ late \in [Registration -> [Loop -> Nat]]
    BY DEF Init
  <2>. QED
    BY <2>1, <2>2, <2>3 DEF PriorityAssumption, Init, TypeOK
<1>2. RunningIsServed
  BY DEF Init, RunningIsServed
<1>3. \A k \in Registration, l \in Loop : LateIsGone(k, l)
  BY DEF Init, LateIsGone
<1>4. AnswersInv
  BY DEF Init, AnswersInv, IndexedAnswered, LoggedAnswered, BatchAnswered,
         Stored
<1>. QED
  BY <1>1, <1>2, <1>3, <1>4 DEF IInv

-----------------------------------------------------------------------------
\* What asking for a group does to the snapshot it is taken from.
LEMMA GroupFacts ==
  ASSUME TypeOK, NEW l \in Loop, NEW S \in Groups(l)
  PROVE  /\ S \subseteq Registration
         /\ \A k \in S : \E p \in Level : k \in todo[l][p]
<1>1. \A k \in FirstLevel(l) : \E p \in Level : k \in todo[l][p]
  BY DEF FirstLevel
<1>2. FirstLevel(l) \subseteq Registration
  BY <1>1 DEF TypeOK
<1>3. S \subseteq FirstLevel(l)
  BY DEF Groups
<1>. QED
  BY <1>1, <1>2, <1>3

LEMMA DropFacts ==
  ASSUME TypeOK, NEW l \in Loop, NEW S, Drop(l, S)
  PROVE  /\ todo' \in [Loop -> [Level -> SUBSET Registration]]
         /\ \A m \in Loop, p \in Level : todo'[m][p] \subseteq todo[m][p]
         /\ \A p \in Level : todo'[l][p] = todo[l][p] \ S
<1>1. todo' = [todo EXCEPT ![l] = [p \in Level |-> todo[l][p] \ S]]
  BY DEF Drop, TypeOK
<1>. QED
  BY <1>1 DEF TypeOK

\* The changes of a row are rows.
LEMMA RowTypes ==
  ASSUME NEW p \in Level
  PROVE  /\ \A t \in 0..MaxTime :
              [priority |-> p, registered_at |-> t, is_active |-> TRUE,
               indexed |-> FALSE] \in Row
         /\ \A r \in Row :
              /\ [r EXCEPT !.priority = p, !.is_active = TRUE] \in Row
              /\ [r EXCEPT !.is_active = FALSE] \in Row
              /\ [r EXCEPT !.indexed = TRUE] \in Row
  BY DEF Row

\* What marking the rows of an address does to the table.
LEMMA MarkFacts ==
  ASSUME TypeOK, NEW k, NEW n, Mark(k, n)
  PROVE  /\ table' \in [Registration -> Row \cup {NoRow}]
         /\ \A m \in Registration :
              table'[m] # table[m] =>
                /\ m \in Stored /\ IsRowOf(m, k, n)
                /\ table'[m] = [table[m] EXCEPT !.indexed = TRUE]
<1>1. \A m \in Stored : table[m] \in Row
  BY DEF TypeOK, Stored
<1>2. \A m \in Stored : [table[m] EXCEPT !.indexed = TRUE] \in Row
  BY <1>1 DEF Row
<1>. QED
  BY <1>2 DEF TypeOK, Mark

\* A batch's end and its next address keep the types of a loop's locals.
LEMMA NextInBatchTypes ==
  ASSUME TypeOK, NEW l \in Loop, NEW k \in Registration, NextInBatch(l, k)
  PROVE  /\ pc' \in [Loop -> {"idle", "read", "index", "record"}]
         /\ batch' \in [Loop -> SUBSET Registration]
         /\ network' \in [Loop -> Network \cup {NoNetwork}]
         /\ answer' \in [Loop -> {"ok", "errors", "failed"}]
  BY DEF NextInBatch, EndBatch, TypeOK

LEMMA ActivityTypes ==
  ASSUME NEW l, NEW k
  PROVE  /\ Activity(l, k).indexed_type \in {"items", "error"}
         /\ Activity(l, k).success \in BOOLEAN
  BY DEF Activity

LEMMA AskTypes ==
  ASSUME TypeOK, NEW l \in Loop, NEW S \in Groups(l),
         NEW a \in {"ok", "errors", "failed"}, Ask(l, S, a)
  PROVE  /\ \A e \in answers' : e.answer \in {"ok", "errors"}
         /\ pc' \in [Loop -> {"idle", "read", "index", "record"}]
         /\ todo' \in [Loop -> [Level -> SUBSET Registration]]
         /\ batch' \in [Loop -> SUBSET Registration]
         /\ network' \in [Loop -> Network \cup {NoNetwork}]
         /\ answer' \in [Loop -> {"ok", "errors", "failed"}]
         /\ late' \in [Registration -> [Loop -> Nat]]
<1>1. PICK B \in SUBSET S, n \in Network :
        /\ batch' = [batch EXCEPT ![l] = B]
        /\ answers' = answers \cup IF a = "failed" THEN {} ELSE Asked(B, n, a)
        /\ late' = [k \in Registration |->
             IF k \in B \ Active THEN [late[k] EXCEPT ![l] = @ + 1] ELSE late[k]]
        /\ IF B = {} THEN EndBatch(l)
           ELSE /\ pc' = [pc EXCEPT ![l] = "record"]
                /\ network' = [network EXCEPT ![l] = n]
                /\ answer' = [answer EXCEPT ![l] = a]
  BY DEF Ask
<1>2. B \subseteq Registration
  BY GroupFacts
<1>3. \A e \in answers' : e.answer \in {"ok", "errors"}
  BY <1>1 DEF TypeOK, Asked
<1>4. /\ pc' \in [Loop -> {"idle", "read", "index", "record"}]
      /\ network' \in [Loop -> Network \cup {NoNetwork}]
      /\ answer' \in [Loop -> {"ok", "errors", "failed"}]
  BY <1>1 DEF TypeOK, EndBatch
<1>5. late' \in [Registration -> [Loop -> Nat]]
  BY <1>1 DEF TypeOK
<1>6. todo' \in [Loop -> [Level -> SUBSET Registration]]
  BY DropFacts DEF Ask
<1>. QED
  BY <1>1, <1>2, <1>3, <1>4, <1>5, <1>6 DEF TypeOK

LEMMA NextTypeOK ==
  ASSUME PriorityAssumption, TypeOK, [Next]_vars
  PROVE  TypeOK'
<1>1. ASSUME TimePasses PROVE TypeOK'
  BY <1>1 DEF TimePasses, TypeOK, PriorityAssumption, loop
<1>2. ASSUME NEW k \in Registration, NEW p \in Level, Register(k, p)
      PROVE  TypeOK'
  <2>1. table[k] # NoRow =>
          [table[k] EXCEPT !.priority = p, !.is_active = TRUE] \in Row
    BY RowTypes DEF TypeOK
  <2>2. [priority |-> p, registered_at |-> now, is_active |-> TRUE,
         indexed |-> FALSE] \in Row
    BY RowTypes DEF TypeOK
  <2>3. table' \in [Registration -> Row \cup {NoRow}]
    BY <1>2, <2>1, <2>2 DEF Register, TypeOK
  <2>4. late' \in [Registration -> [Loop -> Nat]]
    BY <1>2 DEF Register, TypeOK
  <2>. QED
    BY <1>2, <2>3, <2>4 DEF Register, Request, TypeOK, PriorityAssumption, loop
<1>3. ASSUME NEW k \in Registration, Unregister(k) PROVE TypeOK'
  <2>1. table[k] \in Row
    <3>1. k \in Stored
      BY <1>3 DEF Unregister, Active
    <3>. QED
      BY <3>1 DEF Stored, TypeOK
  <2>2. PICK p \in Level : TRUE
    BY <2>1 DEF Row
  <2>3. [table[k] EXCEPT !.is_active = FALSE] \in Row
    BY <2>1, <2>2, RowTypes
  <2>4. table' = [table EXCEPT ![k] = [table[k] EXCEPT !.is_active = FALSE]]
    BY <1>3 DEF Unregister
  <2>5. table' \in [Registration -> Row \cup {NoRow}]
    BY <2>3, <2>4 DEF TypeOK
  <2>. QED
    BY <1>3, <2>5 DEF Unregister, Request, TypeOK, PriorityAssumption, loop
<1>4. ASSUME Stop PROVE TypeOK'
  <2>1. running' \in BOOLEAN
    BY <1>4 DEF Stop
  <2>. QED
    BY <1>4, <2>1 DEF Stop, TypeOK, PriorityAssumption, loop
<1>5. ASSUME NEW l \in Loop, Start(l) PROVE TypeOK'
  BY <1>5 DEF Start, TypeOK
<1>6. ASSUME NEW l \in Loop, BeginCycle(l) PROVE TypeOK'
  BY <1>6 DEF BeginCycle, TypeOK
<1>7. ASSUME NEW l \in Loop, ReadAddresses(l) PROVE TypeOK'
  BY <1>7 DEF ReadAddresses, TypeOK, Active, Stored
<1>8. ASSUME NEW l \in Loop, ReadFails(l) PROVE TypeOK'
  BY <1>8 DEF ReadFails, Fault, TypeOK, PriorityAssumption
<1>9. ASSUME NEW l \in Loop, NEW S \in Groups(l), SkipChain(l, S) PROVE TypeOK'
  BY <1>9, DropFacts DEF SkipChain, TypeOK
<1>10. ASSUME NEW l \in Loop, NEW S \in Groups(l), AskAdapter(l, S)
       PROVE  TypeOK'
  <2>1. PICK a \in {"ok", "errors"} : Ask(l, S, a)
    BY <1>10 DEF AskAdapter
  <2>. QED
    <3>1. UNCHANGED <<table, log, running, now, requests, stops, faults>>
      BY <1>10, <2>1 DEF AskAdapter, Ask
    <3>. QED
      BY <2>1, <3>1, AskTypes DEF TypeOK
<1>11. ASSUME NEW l \in Loop, NEW S \in Groups(l), AdapterFails(l, S)
       PROVE  TypeOK'
  <2>1. faults' \in 0..MaxFaults
    BY <1>11 DEF AdapterFails, Fault, TypeOK, PriorityAssumption
  <2>2. Ask(l, S, "failed")
    BY <1>11 DEF AdapterFails
  <2>3. UNCHANGED <<table, log, running, now, requests, stops>>
    BY <2>2 DEF Ask
  <2>. QED
    BY <2>1, <2>2, <2>3, AskTypes DEF TypeOK
<1>12. ASSUME NEW l \in Loop, NEW k \in Registration, Record(l, k)
       PROVE  TypeOK'
  <2>1. table' \in [Registration -> Row \cup {NoRow}]
    BY <1>12, MarkFacts DEF Record, TypeOK
  <2>2. NextInBatch(l, k) /\ log' = log \cup {Activity(l, k)}
    BY <1>12 DEF Record
  <2>3. \A e \in log' :
          e.indexed_type \in {"items", "error"} /\ e.success \in BOOLEAN
    BY <2>2, ActivityTypes DEF TypeOK
  <2>. QED
    BY <1>12, <2>1, <2>2, <2>3, NextInBatchTypes DEF Record, NextInBatch, TypeOK
<1>13. ASSUME NEW l \in Loop, NEW k \in Registration, RecordFails(l, k)
       PROVE  TypeOK'
  <2>1. table' \in [Registration -> Row \cup {NoRow}]
    BY <1>13, MarkFacts DEF RecordFails, TypeOK
  <2>2. NextInBatch(l, k) /\ log' \subseteq log \cup {Activity(l, k)}
    BY <1>13 DEF RecordFails
  <2>3. faults' \in 0..MaxFaults
    BY <1>13 DEF RecordFails, Fault, TypeOK, PriorityAssumption
  <2>4. \A e \in log' :
          e.indexed_type \in {"items", "error"} /\ e.success \in BOOLEAN
    BY <2>2, ActivityTypes DEF TypeOK
  <2>. QED
    BY <2>1, <2>2, <2>3, <2>4, NextInBatchTypes DEF NextInBatch, TypeOK
<1>14. ASSUME Crash PROVE TypeOK'
  <2>1. running' \in BOOLEAN
    BY <1>14 DEF Crash
  <2>2. /\ todo' \in [Loop -> [Level -> SUBSET Registration]]
        /\ batch' \in [Loop -> SUBSET Registration]
        /\ network' \in [Loop -> Network \cup {NoNetwork}]
    BY <1>14 DEF Crash, Nothing
  <2>. QED
    BY <1>14, <2>1, <2>2 DEF Crash, Fault, TypeOK, PriorityAssumption
<1>15. CASE UNCHANGED vars
  BY <1>15 DEF vars, loop, TypeOK
<1>. QED
  BY <1>1, <1>2, <1>3, <1>4, <1>5, <1>6, <1>7, <1>8, <1>9, <1>10, <1>11, <1>12,
     <1>13, <1>14, <1>15 DEF Next, Step

-----------------------------------------------------------------------------
\* The flag is only set with a loop, and a loop only ends without the flag.
LEMMA NextRunningIsServed ==
  ASSUME TypeOK, RunningIsServed, [Next]_vars
  PROVE  RunningIsServed'
<1>1. ASSUME NEW l \in Loop, pc'[l] # "idle" PROVE RunningIsServed'
  BY <1>1 DEF RunningIsServed
<1>2. ASSUME UNCHANGED pc, running' = running PROVE RunningIsServed'
  BY <1>2 DEF RunningIsServed
<1>3. ASSUME running' = FALSE PROVE RunningIsServed'
  BY <1>3 DEF RunningIsServed
<1>4. CASE \/ TimePasses
           \/ \E k \in Registration :
                Unregister(k) \/ \E p \in Level : Register(k, p)
  BY <1>4, <1>2 DEF TimePasses, Register, Unregister, loop
<1>5. CASE Stop \/ Crash
  BY <1>5, <1>3 DEF Stop, Crash
<1>6. ASSUME NEW l \in Loop, Start(l) PROVE RunningIsServed'
  BY <1>6, <1>1 DEF Start, TypeOK
<1>7. ASSUME NEW l \in Loop, BeginCycle(l) PROVE RunningIsServed'
  BY <1>7 DEF BeginCycle, TypeOK, RunningIsServed
<1>8. ASSUME NEW l \in Loop, ReadAddresses(l) \/ ReadFails(l)
      PROVE  RunningIsServed'
  BY <1>8, <1>1 DEF ReadAddresses, ReadFails, TypeOK
<1>9. ASSUME NEW l \in Loop, NEW S \in Groups(l), SkipChain(l, S)
      PROVE  RunningIsServed'
  BY <1>9, <1>2 DEF SkipChain
<1>10. ASSUME NEW l \in Loop, NEW S \in Groups(l), NEW a, Ask(l, S, a)
       PROVE  RunningIsServed'
  BY <1>10, <1>1 DEF Ask, EndBatch, TypeOK
<1>11. ASSUME NEW l \in Loop, NEW k \in Registration, NextInBatch(l, k)
       PROVE  RunningIsServed'
  BY <1>11, <1>1, <1>2 DEF NextInBatch, EndBatch, TypeOK
<1>12. CASE UNCHANGED vars
  BY <1>12, <1>2 DEF vars, loop
<1>. QED
  BY <1>4, <1>5, <1>6, <1>7, <1>8, <1>9, <1>10, <1>11, <1>12
  DEF Next, Step, AskAdapter, AdapterFails, Record, RecordFails

-----------------------------------------------------------------------------
\* A step that neither counts, activates nor adds to a snapshot keeps the
\* count of a row and a loop.
LEMMA LateKept ==
  ASSUME NEW k \in Registration, NEW l \in Loop, LateIsGone(k, l),
         late'[k][l] = late[k][l], k \in Active' => k \in Active,
         \A p \in Level : k \in todo'[l][p] => k \in todo[l][p]
  PROVE  LateIsGone(k, l)'
  BY DEF LateIsGone

LEMMA ActiveUnchanged ==
  ASSUME table' = table
  PROVE  Active' = Active
  BY DEF Active, Stored

LEMMA ActiveMarked ==
  ASSUME TypeOK, NEW k, NEW n, Mark(k, n)
  PROVE  Active' \subseteq Active
<1>. SUFFICES ASSUME NEW m \in Active' PROVE m \in Active
  OBVIOUS
<1>1. m \in Registration /\ table'[m] # NoRow /\ table'[m].is_active
  BY DEF Active, Stored
<1>2. CASE table'[m] = table[m]
  BY <1>1, <1>2 DEF Active, Stored
<1>3. CASE table'[m] # table[m]
  <2>1. m \in Stored /\ table'[m] = [table[m] EXCEPT !.indexed = TRUE]
    BY <1>1, <1>3, MarkFacts
  <2>2. table[m] \in Row
    BY <2>1 DEF Stored, TypeOK
  <2>. QED
    BY <1>1, <2>1, <2>2 DEF Active, Row
<1>. QED
  BY <1>2, <1>3

LEMMA NextLate ==
  ASSUME TypeOK, [Next]_vars, NEW k \in Registration, NEW l \in Loop,
         LateIsGone(k, l)
  PROVE  LateIsGone(k, l)'
<1>1. CASE TimePasses \/ Stop \/ UNCHANGED vars
  BY <1>1, ActiveUnchanged, LateKept DEF TimePasses, Stop, vars, loop
<1>2. ASSUME NEW m \in Registration, NEW p \in Level, Register(m, p)
      PROVE  LateIsGone(k, l)'
  <2>1. CASE m = k
    BY <1>2, <2>1 DEF Register, LateIsGone, TypeOK
  <2>2. CASE m # k
    <3>1. table'[k] = table[k] /\ late'[k] = late[k]
      BY <1>2, <2>2 DEF Register, TypeOK
    <3>2. k \in Active' => k \in Active
      BY <3>1 DEF Active, Stored
    <3>. QED
      BY <1>2, <3>1, <3>2, LateKept DEF Register, loop
  <2>. QED
    BY <2>1, <2>2
<1>3. ASSUME NEW m \in Registration, Unregister(m) PROVE LateIsGone(k, l)'
  <2>1. k \in Active' => k \in Active
    <3>1. m \in Active
      BY <1>3 DEF Unregister
    <3>2. k # m => table'[k] = table[k]
      BY <1>3 DEF Unregister, TypeOK
    <3>. QED
      BY <3>1, <3>2 DEF Active, Stored
  <2>. QED
    BY <1>3, <2>1, LateKept DEF Unregister, loop
<1>4. ASSUME NEW m \in Loop, Start(m) \/ BeginCycle(m) \/ ReadFails(m)
      PROVE  LateIsGone(k, l)'
  BY <1>4, ActiveUnchanged, LateKept DEF Start, BeginCycle, ReadFails
<1>5. ASSUME NEW m \in Loop, ReadAddresses(m) PROVE LateIsGone(k, l)'
  <2>1. CASE m = l
    <3>1. \A p \in Level : todo'[l][p] \subseteq Active
      BY <1>5, <2>1 DEF ReadAddresses, TypeOK
    <3>2. Active' = Active /\ late' = late
      BY <1>5, ActiveUnchanged DEF ReadAddresses
    <3>. QED
      BY <3>1, <3>2 DEF LateIsGone
  <2>2. CASE m # l
    BY <1>5, <2>2, ActiveUnchanged, LateKept DEF ReadAddresses, TypeOK
  <2>. QED
    BY <2>1, <2>2
<1>6. ASSUME NEW m \in Loop, NEW S \in Groups(m), SkipChain(m, S)
      PROVE  LateIsGone(k, l)'
  BY <1>6, ActiveUnchanged, DropFacts, LateKept DEF SkipChain
<1>7. ASSUME NEW m \in Loop, NEW S \in Groups(m), NEW a, Ask(m, S, a)
      PROVE  LateIsGone(k, l)'
  <2>1. PICK B \in SUBSET S :
          late' = [j \in Registration |->
            IF j \in B \ Active THEN [late[j] EXCEPT ![m] = @ + 1] ELSE late[j]]
    BY <1>7 DEF Ask
  <2>2. Active' = Active
    BY <1>7, ActiveUnchanged DEF Ask
  <2>3. \A j \in Loop, p \in Level : todo'[j][p] \subseteq todo[j][p]
    BY <1>7, DropFacts DEF Ask
  <2>4. CASE m = l /\ k \in B \ Active
    <3>1. \E p \in Level : k \in todo[l][p]
      BY <2>4, GroupFacts
    <3>2. late[k][l] = 0
      BY <3>1 DEF LateIsGone
    <3>3. late'[k][l] = 1
      BY <2>1, <2>4, <3>2 DEF TypeOK
    <3>4. \A p \in Level : k \notin todo'[l][p]
      BY <1>7, <2>4, DropFacts DEF Ask
    <3>. QED
      BY <2>2, <2>4, <3>3, <3>4 DEF LateIsGone
  <2>5. CASE ~(m = l /\ k \in B \ Active)
    <3>1. late'[k][l] = late[k][l]
      BY <2>1, <2>5 DEF TypeOK
    <3>. QED
      BY <2>2, <2>3, <3>1, LateKept
  <2>. QED
    BY <2>4, <2>5
<1>8. ASSUME NEW m \in Loop, NEW j \in Registration,
             Record(m, j) \/ RecordFails(m, j)
      PROVE  LateIsGone(k, l)'
  <2>1. UNCHANGED <<late, todo>>
    BY <1>8 DEF Record, RecordFails, NextInBatch
  <2>2. Active' \subseteq Active
    BY <1>8, ActiveUnchanged, ActiveMarked DEF Record, RecordFails
  <2>. QED
    BY <2>1, <2>2, LateKept
<1>9. CASE Crash
  <2>1. \A p \in Level : todo'[l][p] = {}
    BY <1>9 DEF Crash, Nothing
  <2>. QED
    BY <1>9, <2>1, ActiveUnchanged DEF Crash, LateIsGone
<1>. QED
  BY <1>1, <1>2, <1>3, <1>4, <1>5, <1>6, <1>7, <1>8, <1>9
  DEF Next, Step, AskAdapter, AdapterFails

-----------------------------------------------------------------------------
\* Answers are only ever added.
LEMMA AnswersGrow ==
  ASSUME [Next]_vars
  PROVE  answers \subseteq answers'
<1>1. \A l \in Loop : \A S \in Groups(l), a \in {"ok", "errors", "failed"} :
        Ask(l, S, a) => answers \subseteq answers'
  BY DEF Ask
<1>2. CASE \E l \in Loop : \E S \in Groups(l) :
             AskAdapter(l, S) \/ AdapterFails(l, S)
  BY <1>1, <1>2 DEF AskAdapter, AdapterFails
<1>3. CASE \A l \in Loop : \A S \in Groups(l) :
             ~AskAdapter(l, S) /\ ~AdapterFails(l, S)
  BY <1>3
  DEF Next, Step, TimePasses, Register, Unregister, Start, Stop, BeginCycle,
      ReadAddresses, ReadFails, SkipChain, Record, RecordFails, NextInBatch,
      Crash, vars
<1>. QED
  BY <1>2, <1>3

LEMMA IndexedKept ==
  ASSUME NEW k \in Registration, IndexedAnswered(k), answers \subseteq answers',
         k \in Stored' /\ table'[k].indexed => k \in Stored /\ table[k].indexed
  PROVE  IndexedAnswered(k)'
  BY DEF IndexedAnswered, AnsweredOk, Answered

LEMMA BatchKept ==
  ASSUME NEW l \in Loop, BatchAnswered(l), answers \subseteq answers',
         \/ pc'[l] # "record"
         \/ /\ pc'[l] = pc[l] /\ answer'[l] = answer[l]
            /\ network'[l] = network[l] /\ batch'[l] \subseteq batch[l]
  PROVE  BatchAnswered(l)'
  BY DEF BatchAnswered, Answered

\* A row is marked for an answer that its batch has.
LEMMA MarkAnswered ==
  ASSUME TypeOK, AnswersInv, answers \subseteq answers',
         NEW l \in Loop, NEW j \in batch[l], pc[l] = "record",
         answer[l] # "failed", Mark(j, network[l]), NEW k \in Registration
  PROVE  IndexedAnswered(k)'
<1>1. CASE table'[k] = table[k]
  BY <1>1, IndexedKept DEF AnswersInv, Stored
<1>2. CASE table'[k] # table[k]
  <2>1. IsRowOf(k, j, network[l])
    BY <1>2, MarkFacts
  <2>2. Answered(j.address, j.chain, network[l], answer[l])
    BY DEF AnswersInv, BatchAnswered
  <2>3. Answered(k.address, k.chain, k.network, answer[l])
    BY <2>1, <2>2 DEF IsRowOf
  <2>. QED
    BY <2>3 DEF IndexedAnswered, AnsweredOk, Answered
<1>. QED
  BY <1>1, <1>2

LEMMA ActivityAnswered ==
  ASSUME AnswersInv, answers \subseteq answers', NEW l \in Loop,
         NEW j \in batch[l], pc[l] = "record",
         log' \subseteq log \cup {Activity(l, j)}
  PROVE  \A e \in log' : LoggedAnswered(e)'
<1>1. \A e \in log : LoggedAnswered(e)'
  BY DEF AnswersInv, LoggedAnswered, Answered
<1>2. ASSUME NEW e, e = Activity(l, j) PROVE LoggedAnswered(e)'
  <2>1. /\ e.address = j.address /\ e.chain = j.chain
        /\ e.network = network[l] /\ e.success = (answer[l] = "ok")
    BY <1>2 DEF Activity
  <2>2. CASE answer[l] = "ok"
    <3>1. Answered(j.address, j.chain, network[l], "ok")
      BY <2>2 DEF AnswersInv, BatchAnswered
    <3>2. Answered(e.address, e.chain, e.network, "ok")
      BY <2>1, <3>1
    <3>. QED
      BY <3>2 DEF LoggedAnswered, Answered
  <2>3. CASE answer[l] # "ok"
    BY <2>1, <2>3 DEF LoggedAnswered
  <2>. QED
    BY <2>2, <2>3
<1>. QED
  BY <1>1, <1>2

LEMMA NextAnswers ==
  ASSUME TypeOK, AnswersInv, [Next]_vars
  PROVE  AnswersInv'
<1>. USE AnswersGrow
<1>1. ASSUME UNCHANGED <<table, log>>,
             \A l \in Loop :
               \/ pc'[l] # "record"
               \/ /\ pc'[l] = pc[l] /\ answer'[l] = answer[l]
                  /\ network'[l] = network[l] /\ batch'[l] \subseteq batch[l]
      PROVE  AnswersInv'
  <2>1. \A k \in Registration : IndexedAnswered(k)'
    BY <1>1, IndexedKept DEF AnswersInv, Stored
  <2>2. \A e \in log' : LoggedAnswered(e)'
    BY <1>1 DEF AnswersInv, LoggedAnswered, Answered
  <2>3. \A l \in Loop : BatchAnswered(l)'
    BY <1>1, BatchKept DEF AnswersInv
  <2>. QED
    BY <2>1, <2>2, <2>3 DEF AnswersInv
<1>2. CASE TimePasses \/ Stop \/ UNCHANGED vars
  BY <1>2, <1>1 DEF TimePasses, Stop, vars, loop
<1>3. ASSUME UNCHANGED <<log, loop>>,
             \A k \in Registration :
               k \in Stored' /\ table'[k].indexed =>
                 k \in Stored /\ table[k].indexed
      PROVE  AnswersInv'
  <2>1. \A k \in Registration : IndexedAnswered(k)'
    BY <1>3, IndexedKept DEF AnswersInv
  <2>2. \A e \in log' : LoggedAnswered(e)'
    BY <1>3 DEF AnswersInv, LoggedAnswered, Answered
  <2>3. \A l \in Loop : BatchAnswered(l)'
    BY <1>3, BatchKept DEF AnswersInv, loop
  <2>. QED
    BY <2>1, <2>2, <2>3 DEF AnswersInv
<1>4. ASSUME NEW m \in Registration, NEW p \in Level, Register(m, p)
      PROVE  AnswersInv'
  <2>1. \A k \in Registration :
          k # m => table'[k] = table[k]
    BY <1>4 DEF Register, TypeOK
  <2>2. CASE m \in Stored
    <3>1. table'[m] = [table[m] EXCEPT !.priority = p, !.is_active = TRUE]
      BY <1>4, <2>2 DEF Register, Stored, TypeOK
    <3>2. table[m] \in Row
      BY <2>2 DEF Stored, TypeOK
    <3>3. table'[m].indexed = table[m].indexed
      BY <3>1, <3>2 DEF Row
    <3>. QED
      BY <1>3, <1>4, <2>1, <2>2, <3>3 DEF Register, Stored
  <2>3. CASE m \notin Stored
    <3>1. ~table'[m].indexed
      BY <1>4, <2>3 DEF Register, Stored, TypeOK
    <3>. QED
      BY <1>3, <1>4, <2>1, <3>1 DEF Register, Stored
  <2>. QED
    BY <2>2, <2>3
<1>5. ASSUME NEW m \in Registration, Unregister(m) PROVE AnswersInv'
  <2>1. /\ table' = [table EXCEPT ![m] = [table[m] EXCEPT !.is_active = FALSE]]
        /\ UNCHANGED <<log, loop>> /\ m \in Active
    BY <1>5 DEF Unregister
  <2>2. m \in Stored /\ table[m] \in Row
    BY <2>1 DEF Active, Stored, TypeOK
  <2>3. table'[m].indexed = table[m].indexed
    BY <2>1, <2>2 DEF Row, TypeOK
  <2>4. \A k \in Registration : k # m => table'[k] = table[k]
    BY <2>1 DEF TypeOK
  <2>. QED
    BY <1>3, <2>1, <2>2, <2>3, <2>4 DEF Stored
<1>6. ASSUME NEW l \in Loop,
             \/ Start(l) \/ BeginCycle(l) \/ ReadAddresses(l) \/ ReadFails(l)
      PROVE  AnswersInv'
  <2>1. UNCHANGED <<table, log, batch, network, answer>>
    BY <1>6 DEF Start, BeginCycle, ReadAddresses, ReadFails
  <2>2. pc'[l] # "record" /\ \A m \in Loop : m # l => pc'[m] = pc[m]
    BY <1>6 DEF Start, BeginCycle, ReadAddresses, ReadFails, TypeOK
  <2>. QED
    BY <1>1, <2>1, <2>2
<1>7. ASSUME NEW l \in Loop, NEW S \in Groups(l), SkipChain(l, S)
      PROVE  AnswersInv'
  BY <1>7, <1>1 DEF SkipChain
<1>8. ASSUME NEW l \in Loop, NEW S \in Groups(l),
             NEW a \in {"ok", "errors", "failed"}, Ask(l, S, a)
      PROVE  AnswersInv'
  <2>1. PICK B \in SUBSET S, n \in Network :
          /\ batch' = [batch EXCEPT ![l] = B]
          /\ answers' = answers \cup IF a = "failed" THEN {} ELSE Asked(B, n, a)
          /\ IF B = {} THEN EndBatch(l)
             ELSE /\ pc' = [pc EXCEPT ![l] = "record"]
                  /\ network' = [network EXCEPT ![l] = n]
                  /\ answer' = [answer EXCEPT ![l] = a]
    BY <1>8 DEF Ask
  <2>2. UNCHANGED <<table, log>>
    BY <1>8 DEF Ask
  <2>3. CASE B = {}
    <3>1. pc'[l] # "record"
      BY <2>1, <2>3 DEF EndBatch, TypeOK
    <3>2. \A m \in Loop : m # l =>
            /\ pc'[m] = pc[m] /\ answer'[m] = answer[m]
            /\ network'[m] = network[m] /\ batch'[m] = batch[m]
      BY <2>1, <2>3 DEF EndBatch, TypeOK
    <3>. QED
      BY <1>1, <2>2, <3>1, <3>2
  <2>4. CASE B # {}
    <3>1. \A m \in Loop : m # l => BatchAnswered(m)'
      BY <2>1, <2>4, BatchKept DEF AnswersInv, TypeOK
    <3>2. BatchAnswered(l)'
      <4>1. batch'[l] = B /\ network'[l] = n /\ answer'[l] = a
        BY <2>1, <2>4 DEF TypeOK
      <4>2. a # "failed" => \A k \in B : Answered(k.address, k.chain, n, a)'
        BY <2>1 DEF Asked, Answered
      <4>. QED
        BY <4>1, <4>2 DEF BatchAnswered, Answered
    <3>3. \A k \in Registration : IndexedAnswered(k)'
      BY <2>2, IndexedKept DEF AnswersInv, Stored
    <3>4. \A e \in log' : LoggedAnswered(e)'
      BY <2>2 DEF AnswersInv, LoggedAnswered, Answered
    <3>. QED
      BY <3>1, <3>2, <3>3, <3>4 DEF AnswersInv
  <2>. QED
    BY <2>3, <2>4
<1>9. ASSUME NEW l \in Loop, NEW j \in Registration,
             Record(l, j) \/ RecordFails(l, j)
      PROVE  AnswersInv'
  <2>1. /\ NextInBatch(l, j)
        /\ log' \subseteq log \cup {Activity(l, j)}
        /\ \/ UNCHANGED table
           \/ answer[l] # "failed" /\ Mark(j, network[l])
    BY <1>9 DEF Record, RecordFails
  <2>2. j \in batch[l] /\ pc[l] = "record"
    BY <2>1 DEF NextInBatch
  <2>3. \A k \in Registration : IndexedAnswered(k)'
    <3>1. CASE UNCHANGED table
      BY <3>1, IndexedKept DEF AnswersInv, Stored
    <3>2. CASE answer[l] # "failed" /\ Mark(j, network[l])
      BY <2>2, <3>2, MarkAnswered
    <3>. QED
      BY <2>1, <3>1, <3>2
  <2>4. \A e \in log' : LoggedAnswered(e)'
    BY <2>1, <2>2, ActivityAnswered
  <2>5. \A m \in Loop :
          \/ pc'[m] # "record"
          \/ /\ pc'[m] = pc[m] /\ answer'[m] = answer[m]
             /\ network'[m] = network[m] /\ batch'[m] \subseteq batch[m]
    BY <2>1 DEF NextInBatch, EndBatch, TypeOK
  <2>6. \A m \in Loop : BatchAnswered(m)'
    BY <2>5, BatchKept DEF AnswersInv
  <2>. QED
    BY <2>3, <2>4, <2>6 DEF AnswersInv
<1>10. CASE Crash
  BY <1>10, <1>1 DEF Crash
<1>. QED
  BY <1>2, <1>4, <1>5, <1>6, <1>7, <1>8, <1>9, <1>10
  DEF Next, Step, AskAdapter, AdapterFails

-----------------------------------------------------------------------------
LEMMA SpecIInv == Spec => []IInv
<1>1. Init => IInv
  BY InitIInv, PriorityAssumption
<1>2. IInv /\ [Next]_vars => IInv'
  BY NextTypeOK, NextRunningIsServed, NextLate, NextAnswers, PriorityAssumption
  DEF IInv
<1>. QED
  BY <1>1, <1>2, PTL DEF Spec

(* Type correctness: every variable keeps its type, whatever wallets, loops *)
(* and failures interleave.                                                *)
THEOREM PriorityTypeCorrect == Spec => []TypeOK
BY SpecIInv, PTL DEF IInv

(* While the flag keeps start from doing anything, some loop is alive: no  *)
(* error ends a loop, and a loop only ends when it finds the flag cleared. *)
THEOREM PriorityRunningIsServed == Spec => []RunningIsServed
BY SpecIInv, PTL DEF IInv

(* A row that was unregistered is asked for at most once more by each      *)
(* loop, for any number of registrations, levels and loops.                *)
THEOREM PriorityAskedOnceMore == Spec => []AskedOnceMore
<1>1. TypeOK /\ (\A k \in Registration, l \in Loop : LateIsGone(k, l))
        => AskedOnceMore
  BY DEF AskedOnceMore, LateIsGone, TypeOK
<1>. QED
  BY <1>1, SpecIInv, PTL DEF IInv

(* Nothing is recorded as indexed that no adapter answered for, under the  *)
(* very network of the record.                                             *)
THEOREM PriorityRecordsAreAnswers == Spec => []RecordsAreAnswers
<1>1. AnswersInv => RecordsAreAnswers
  <2>1. ASSUME AnswersInv, NEW k \in Stored, table[k].indexed
        PROVE  \E e \in answers :
                 e.address = k.address /\ e.chain = k.chain
                   /\ e.network = k.network
    <3>1. k \in Registration
      BY DEF Stored
    <3>2. PICK r : Answered(k.address, k.chain, k.network, r)
      BY <2>1, <3>1 DEF AnswersInv, IndexedAnswered, AnsweredOk
    <3>. QED
      BY <3>2 DEF Answered
  <2>2. ASSUME AnswersInv, NEW r \in log, r.success
        PROVE  \E e \in answers :
                 /\ e.address = r.address /\ e.chain = r.chain
                 /\ e.network = r.network /\ e.answer = "ok"
    BY <2>2 DEF AnswersInv, LoggedAnswered, Answered
  <2>. QED
    BY <2>1, <2>2 DEF RecordsAreAnswers
<1>. QED
  BY <1>1, SpecIInv, PTL DEF IInv
=============================================================================
