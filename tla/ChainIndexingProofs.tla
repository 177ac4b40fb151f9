-------------------------- MODULE ChainIndexingProofs --------------------------
(***************************************************************************)
(* The two parts of the indexer that read chains: that an adapter's answer *)
(* lists one version of the block (BlockProcessing), whatever requests     *)
(* fail and however the node's branch changes, for all blocks and branches *)
(* of the five chains; and that sync_progress claims no block that was not *)
(* indexed (ChainSync), for any number of daemons, operators and chains.   *)
(* The two share no state.                                                 *)
(***************************************************************************)
EXTENDS BlockProcessing, ChainSync, SequenceTheorems, WellFoundedInduction, TLAPS

-----------------------------------------------------------------------------
(* Induction, and what FlattenSeq returns.                                 *)

LEMMA LeastNatural ==
  ASSUME NEW S, S \subseteq Nat, S # {}
  PROVE  \E m \in S : \A n \in S : m <= n
<1>. DEFINE Less == { pair \in Nat \X Nat : pair[1] < pair[2] }
<1>1. IsWellFoundedOn(Less, Nat)
  BY NatLessThanWellFounded DEF OpToRel
<1>2. PICK m \in S : \A n \in S : <<n, m>> \notin Less
  <2>. HIDE DEF Less
  <2>. QED
    BY <1>1, WFMin
<1>3. ASSUME NEW n \in S PROVE m <= n
  <2>1. <<n, m>>[1] = n /\ <<n, m>>[2] = m /\ <<n, m>> \in Nat \X Nat
    OBVIOUS
  <2>2. ~(n < m)
    BY <1>2, <2>1
  <2>. QED
    BY <2>2
<1>. QED
  BY <1>3

\* A set of numbers that has the first and with each the next has them all.
LEMMA Induction ==
  ASSUME NEW n \in Nat, NEW Good, 1 \in Good,
         \A k \in 1..n : k \in Good /\ k < n => k + 1 \in Good
  PROVE  1..n \subseteq Good
<1>. DEFINE Bad == { k \in 1..n : k \notin Good }
<1>. SUFFICES ASSUME Bad # {} PROVE FALSE
  OBVIOUS
<1>1. Bad \subseteq Nat
  OBVIOUS
<1>2. PICK x \in Bad : \A y \in Bad : x <= y
  <2>. HIDE DEF Bad
  <2>. QED
    BY <1>1, LeastNatural
<1>3. x \in 1..n /\ x # 1 /\ x \notin Good
  BY <1>2
<1>4. x - 1 \in 1..n /\ x - 1 < n /\ (x - 1) + 1 = x
  BY <1>3
<1>5. x - 1 \in Good
  BY <1>2, <1>4
<1>. QED
  BY <1>3, <1>4, <1>5

-----------------------------------------------------------------------------
(* FlattenSeq, whose definition is by recursion over its argument.         *)

\* The sequences of ss one after the other: the first m of them.
Flattens(ss, f, m) ==
  \A i \in 1..m : f[i] = IF i = 1 THEN ss[i] ELSE f[i - 1] \o ss[i]

LEMMA FlattenExists ==
  ASSUME NEW S, NEW n \in Nat, n >= 1, NEW ss \in [1..n -> Seq(S)]
  PROVE  \E f \in [1..n -> Seq(S)] : Flattens(ss, f, n)
<1>. DEFINE Good == { m \in 1..n : \E f \in [1..m -> Seq(S)] : Flattens(ss, f, m) }
<1>1. 1 \in Good
  <2>1. [i \in 1..1 |-> ss[i]] \in [1..1 -> Seq(S)]
    OBVIOUS
  <2>2. Flattens(ss, [i \in 1..1 |-> ss[i]], 1)
    BY DEF Flattens
  <2>. QED
    BY <2>1, <2>2
<1>2. ASSUME NEW m \in 1..n, m \in Good, m < n PROVE m + 1 \in Good
  <2>1. PICK f \in [1..m -> Seq(S)] : Flattens(ss, f, m)
    BY <1>2
  <2>. DEFINE g == [i \in 1..(m + 1) |-> IF i = m + 1 THEN f[m] \o ss[m + 1] ELSE f[i]]
  <2>2. f[m] \in Seq(S) /\ ss[m + 1] \in Seq(S)
    BY <1>2
  <2>3. f[m] \o ss[m + 1] \in Seq(S)
    BY <2>2, ConcatProperties
  <2>4. g \in [1..(m + 1) -> Seq(S)]
    BY <2>3
  <2>5. ASSUME NEW i \in 1..(m + 1)
        PROVE  g[i] = IF i = 1 THEN ss[i] ELSE g[i - 1] \o ss[i]
    <3>1. m \in 1..n /\ m + 1 # 1 /\ (m + 1) - 1 = m /\ m # m + 1 /\ m \in 1..(m + 1)
      BY <1>2
    <3>2. CASE i = m + 1
      BY <3>1, <3>2
    <3>3. CASE i \in 1..m
      <4>1. g[i] = f[i] /\ (i # 1 => g[i - 1] = f[i - 1])
        BY <3>1, <3>3
      <4>. QED
        BY <2>1, <3>3, <4>1 DEF Flattens
    <3>. QED
      BY <3>1, <3>2, <3>3
  <2>6. Flattens(ss, g, m + 1)
    BY <2>5 DEF Flattens
  <2>7. m + 1 \in 1..n
    BY <1>2
  <2>. QED
    BY <2>4, <2>6, <2>7
<1>. HIDE DEF Good
<1>3. 1..n \subseteq Good
  BY <1>1, <1>2, Induction
<1>4. n \in Good
  BY <1>3
<1>. QED
  BY <1>4 DEF Good

LEMMA FlattenElements ==
  ASSUME NEW S, NEW n \in Nat, NEW ss \in [1..n -> Seq(S)]
  PROVE  /\ FlattenSeq(ss) \in Seq(S)
         /\ \A x : x \in Range(FlattenSeq(ss)) <=> \E k \in 1..n : x \in Range(ss[k])
<1>1. ss \in Seq(Seq(S)) /\ Len(ss) = n
  OBVIOUS
<1>2. CASE n = 0
  <2>1. FlattenSeq(ss) = ss
    BY <1>1, <1>2 DEF FlattenSeq
  <2>2. ss = << >>
    BY <1>1, <1>2
  <2>. QED
    BY <1>2, <2>1, <2>2 DEF Range
<1>3. CASE n >= 1
  <2>. DEFINE F == CHOOSE f :
                     f = [i \in 1..Len(ss) |->
                            IF i = 1 THEN ss[i] ELSE f[i - 1] \o ss[i]]
  <2>1. FlattenSeq(ss) = IF Len(ss) = 0 THEN ss ELSE F[Len(ss)]
    BY DEF FlattenSeq
  <2>2. PICK g \in [1..n -> Seq(S)] : Flattens(ss, g, n)
    BY <1>3, FlattenExists
  <2>3. g = [i \in 1..n |-> IF i = 1 THEN ss[i] ELSE g[i - 1] \o ss[i]]
    BY <2>2 DEF Flattens
  <2>4. F = [i \in 1..n |-> IF i = 1 THEN ss[i] ELSE F[i - 1] \o ss[i]]
    BY <1>1, <2>3
  <2>. HIDE DEF F
  <2>5. Flattens(ss, F, n)
    BY <2>4 DEF Flattens
  <2>. DEFINE Good ==
         { m \in 1..n :
             /\ F[m] \in Seq(S)
             /\ \A x : x \in Range(F[m]) <=> \E k \in 1..m : x \in Range(ss[k]) }
  <2>6. 1 \in Good
    BY <1>3, <2>5 DEF Flattens
  <2>7. ASSUME NEW m \in 1..n, m \in Good, m < n PROVE m + 1 \in Good
    <3>0. m + 1 \in 1..n /\ m + 1 # 1 /\ (m + 1) - 1 = m
      BY <2>7
    <3>1. F[m + 1] = F[m] \o ss[m + 1] /\ m + 1 \in 1..n
      BY <2>5, <3>0 DEF Flattens
    <3>2. F[m] \in Seq(S) /\ ss[m + 1] \in Seq(S)
      BY <2>7, <3>1
    <3>3. /\ F[m + 1] \in Seq(S)
          /\ Range(F[m + 1]) = Range(F[m]) \cup Range(ss[m + 1])
      BY <3>1, <3>2, RangeConcatenation
    <3>4. \A x : x \in Range(F[m]) <=> \E k \in 1..m : x \in Range(ss[k])
      BY <2>7
    <3>5. ASSUME NEW x
          PROVE  x \in Range(F[m + 1]) <=> \E k \in 1..(m + 1) : x \in Range(ss[k])
      <4>1. 1..(m + 1) = (1..m) \cup {m + 1}
        OBVIOUS
      <4>. QED
        BY <3>3, <3>4, <4>1
    <3>. QED
      BY <3>1, <3>3, <3>5
  <2>. HIDE DEF Good
  <2>8. 1..n \subseteq Good
    BY <2>6, <2>7, Induction
  <2>9. n \in Good
    BY <1>3, <2>8
  <2>. QED
    BY <1>1, <1>3, <2>1, <2>9 DEF Good
<1>. QED
  BY <1>2, <1>3

-----------------------------------------------------------------------------
(* What decoders find in a list of transactions.                           *)

\* For sequences that are not said to be of a set.
LEMMA FlattenLists ==
  ASSUME NEW n \in Nat, NEW ss, DOMAIN ss = 1..n, ss = [k \in 1..n |-> ss[k]],
         \A k \in 1..n : IsList(ss[k])
  PROVE  /\ IsList(FlattenSeq(ss))
         /\ \A x : x \in Range(FlattenSeq(ss)) <=> \E k \in 1..n : x \in Range(ss[k])
<1>. DEFINE S == UNION { Range(ss[k]) : k \in 1..n }
<1>1. ASSUME NEW k \in 1..n PROVE ss[k] \in Seq(S)
  <2>1. ss[k] \in Seq(Range(ss[k])) /\ Range(ss[k]) \subseteq S
    BY DEF IsList
  <2>. HIDE DEF S
  <2>. QED
    BY <2>1, SeqMonotonic
<1>. HIDE DEF S
<1>2. ss \in [1..n -> Seq(S)]
  BY <1>1
<1>3. FlattenSeq(ss) \in Seq(S)
  BY <1>2, FlattenElements
<1>4. IsList(FlattenSeq(ss))
  BY <1>3, SeqOfRange DEF IsList
<1>. QED
  BY <1>2, <1>4, FlattenElements

LEMMA ListDomain ==
  ASSUME NEW s, IsList(s)
  PROVE  /\ Len(s) \in Nat /\ DOMAIN s = 1..Len(s)
         /\ s = [k \in 1..Len(s) |-> s[k]]
         /\ \A x : x \in Range(s) <=> \E k \in 1..Len(s) : x = s[k]
<1>1. s \in Seq(Range(s))
  BY DEF IsList
<1>. QED
  BY <1>1, LenProperties DEF Range

LEMMA AppendedList ==
  ASSUME NEW s, IsList(s), NEW a
  PROVE  /\ IsList(Append(s, a))
         /\ \A k \in DOMAIN s : k \in DOMAIN Append(s, a) /\ Append(s, a)[k] = s[k]
         /\ \A k \in DOMAIN Append(s, a) :
              Append(s, a)[k] = a \/ (k \in DOMAIN s /\ Append(s, a)[k] = s[k])
         /\ \E k \in DOMAIN Append(s, a) : Append(s, a)[k] = a
<1>1. s \in Seq(Range(s) \cup {a}) /\ a \in Range(s) \cup {a}
  BY SeqMonotonic DEF IsList
<1>2. Append(s, a) \in Seq(Range(s) \cup {a})
  BY <1>1, AppendProperties
<1>3. IsList(Append(s, a))
  BY <1>2, SeqOfRange DEF IsList
<1>4. PICK n \in Nat : n = Len(s) /\ DOMAIN s = 1..n
  BY <1>1, LenProperties
<1>5. DOMAIN Append(s, a) = 1..(n + 1)
  BY <1>1, <1>2, <1>4, AppendProperties, LenProperties
<1>6. /\ \A i \in 1..n : Append(s, a)[i] = s[i]
      /\ Append(s, a)[n + 1] = a
  BY <1>1, <1>4, AppendProperties
<1>7. ASSUME NEW k \in 1..(n + 1) PROVE k \in 1..n \/ k = n + 1
  OBVIOUS
<1>8. n + 1 \in 1..(n + 1) /\ \A k \in 1..n : k \in 1..(n + 1)
  OBVIOUS
<1>. QED
  BY <1>3, <1>4, <1>5, <1>6, <1>7, <1>8

\* A list of records that have an id.
AreRecords(list) == IsList(list) /\ \A x \in Range(list) : "id" \in DOMAIN x

LEMMA OneRecord ==
  ASSUME NEW record, "id" \in DOMAIN record
  PROVE  AreRecords(<< >>) /\ AreRecords(<< record >>)
<1>1. << record >> \in Seq({record}) /\ << >> \in Seq({record})
  OBVIOUS
<1>2. IsList(<< record >>) /\ IsList(<< >>)
  BY <1>1, SeqOfRange DEF IsList
<1>3. Range(<< record >>) \subseteq {record} /\ Range(<< >>) \subseteq {record}
  BY <1>1, RangeOfSeq
<1>. QED
  BY <1>2, <1>3 DEF AreRecords

-----------------------------------------------------------------------------
(* The three kinds of records that are found in a block.                   *)

FoundKinds == {"sanads", "seals", "transfers"}

\* Where a kind of record is looked for in a transaction.
Parts(c, kind, tx) == IF c = "bitcoin" /\ kind = "seals" THEN tx.inputs ELSE tx.events

SpentInput(tx, i, h) ==
  When( /\ i.prev # Absent
        /\ i.vout # Absent
        /\ i.address \in Relevant,
       SealRow(<<"btc-seal", i.prev, i.vout, tx.id>>, "bitcoin", "utxo",
               <<i.prev, i.vout>>, "consumed", h))

\* What is found there.
Parsed(c, kind, tx, part, h) ==
  CASE c = "sui" /\ kind = "sanads" -> SuiParseSanad(tx, part, h)
    [] c = "sui" /\ kind = "seals" -> SuiParseSeal(tx, part, h)
    [] c = "sui" /\ kind = "transfers" -> SuiParseTransfer(tx, part, h)
    [] c = "aptos" /\ kind = "sanads" -> AptosParseSanad(tx, part, h)
    [] c = "aptos" /\ kind = "seals" -> AptosParseSeal(tx, part, h)
    [] c = "aptos" /\ kind = "transfers" -> AptosParseTransfer(tx, part, h)
    [] c = "solana" /\ kind = "sanads" -> SolanaParseSanad(tx, part, h)
    [] c = "solana" /\ kind = "seals" -> SolanaParseSeal(tx, part, h)
    [] c = "solana" /\ kind = "transfers" -> SolanaParseTransfer(tx, part, h)
    [] c = "bitcoin" /\ kind = "sanads" -> BitcoinParseSanad(tx, part, h)
    [] c = "bitcoin" /\ kind = "seals" -> SpentInput(tx, part, h)
    [] c = "bitcoin" /\ kind = "transfers" -> BitcoinParseTransfer(tx, part, h)
    [] c = "ethereum" /\ kind = "sanads" -> EthereumParseSanad(tx, part, h)
    [] c = "ethereum" /\ kind = "seals" -> EthereumParseSeal(tx, part, h)
    [] c = "ethereum" /\ kind = "transfers" -> EthereumParseTransfer(tx, part, h)

Found(c, kind, txs, h) ==
  FlattenSeq([k \in DOMAIN txs |->
    FlattenSeq([j \in DOMAIN Parts(c, kind, txs[k]) |->
      Parsed(c, kind, txs[k], Parts(c, kind, txs[k])[j], h)])])

LEMMA DecodedIsFound ==
  ASSUME NEW c \in Chains, NEW kind \in FoundKinds, NEW txs, NEW h
  PROVE  Decoded(c, kind, txs, h) = Found(c, kind, txs, h)
<1>1. CASE c = "sui" /\ kind = "sanads"
  BY <1>1 DEF Decoded, IndexSanads, SuiSanads, EachEvent, Each, Found, Parts, Parsed
<1>2. CASE c = "sui" /\ kind = "seals"
  BY <1>2 DEF Decoded, IndexSeals, SuiSeals, EachEvent, Each, Found, Parts, Parsed
<1>3. CASE c = "sui" /\ kind = "transfers"
  BY <1>3
     DEF Decoded, IndexTransfers, SuiTransfers, EachEvent, Each, Found, Parts,
         Parsed
<1>4. CASE c = "aptos" /\ kind = "sanads"
  BY <1>4
     DEF Decoded, IndexSanads, AptosSanads, EachEvent, Each, Found, Parts,
         Parsed
<1>5. CASE c = "aptos" /\ kind = "seals"
  BY <1>5 DEF Decoded, IndexSeals, AptosSeals, EachEvent, Each, Found, Parts, Parsed
<1>6. CASE c = "aptos" /\ kind = "transfers"
  BY <1>6
     DEF Decoded, IndexTransfers, AptosTransfers, EachEvent, Each, Found,
         Parts, Parsed
<1>7. CASE c = "solana" /\ kind = "sanads"
  BY <1>7
     DEF Decoded, IndexSanads, SolanaSanads, EachEvent, Each, Found, Parts,
         Parsed
<1>8. CASE c = "solana" /\ kind = "seals"
  BY <1>8
     DEF Decoded, IndexSeals, SolanaSeals, EachEvent, Each, Found, Parts, Parsed
<1>9. CASE c = "solana" /\ kind = "transfers"
  BY <1>9
     DEF Decoded, IndexTransfers, SolanaTransfers, EachEvent, Each, Found,
         Parts, Parsed
<1>10. CASE c = "bitcoin" /\ kind = "sanads"
  BY <1>10
     DEF Decoded, IndexSanads, BitcoinSanads, EachEvent, Each, Found, Parts,
         Parsed
<1>11. CASE c = "bitcoin" /\ kind = "seals"
  BY <1>11
     DEF Decoded, IndexSeals, BitcoinSeals, EachEvent, Each, Found, Parts,
         Parsed, SpentInput
<1>12. CASE c = "bitcoin" /\ kind = "transfers"
  BY <1>12
     DEF Decoded, IndexTransfers, BitcoinTransfers, EachEvent, Each, Found,
         Parts, Parsed
<1>13. CASE c = "ethereum" /\ kind = "sanads"
  BY <1>13
     DEF Decoded, IndexSanads, EthereumSanads, EachEvent, Each, Found, Parts,
         Parsed
<1>14. CASE c = "ethereum" /\ kind = "seals"
  BY <1>14
     DEF Decoded, IndexSeals, EthereumSeals, EachEvent, Each, Found, Parts,
         Parsed
<1>15. CASE c = "ethereum" /\ kind = "transfers"
  BY <1>15
     DEF Decoded, IndexTransfers, EthereumTransfers, EachEvent, Each, Found,
         Parts, Parsed
<1>. QED
  BY <1>1, <1>2, <1>3, <1>4, <1>5, <1>6, <1>7, <1>8, <1>9, <1>10, <1>11, <1>12,
     <1>13, <1>14, <1>15
     DEF Chains, FoundKinds

LEMMA ParsedRecords ==
  ASSUME NEW c \in Chains, NEW kind \in FoundKinds, NEW tx, NEW part, NEW h
  PROVE  AreRecords(Parsed(c, kind, tx, part, h))
<1>a. \A id, from, owner, block :
        LET r == SanadRow(id, from, owner, block) IN AreRecords(<< >>) /\ AreRecords(<< r >>)
  BY OneRecord DEF SanadRow
<1>b. \A id, from, seal_type, ref, state, block :
        LET r == SealRow(id, from, seal_type, ref, state, block)
        IN  AreRecords(<< >>) /\ AreRecords(<< r >>)
  BY OneRecord DEF SealRow
<1>c. \A id, sanad, from, to, from_owner, to_owner, block :
        LET r == TransferRow(id, sanad, from, to, from_owner, to_owner, block)
        IN  AreRecords(<< >>) /\ AreRecords(<< r >>)
  BY OneRecord DEF TransferRow
<1>1. CASE c = "sui" /\ kind = "sanads"
  BY <1>a, <1>1 DEF Parsed, SuiParseSanad, When
<1>2. CASE c = "sui" /\ kind = "seals"
  BY <1>b, <1>2 DEF Parsed, SuiParseSeal, When
<1>3. CASE c = "sui" /\ kind = "transfers"
  BY <1>c, <1>3 DEF Parsed, SuiParseTransfer, When
<1>4. CASE c = "aptos" /\ kind = "sanads"
  BY <1>a, <1>4 DEF Parsed, AptosParseSanad, When
<1>5. CASE c = "aptos" /\ kind = "seals"
  BY <1>b, <1>5 DEF Parsed, AptosParseSeal, When
<1>6. CASE c = "aptos" /\ kind = "transfers"
  BY <1>c, <1>6 DEF Parsed, AptosParseTransfer, When
<1>7. CASE c = "solana" /\ kind = "sanads"
  BY <1>a, <1>7 DEF Parsed, SolanaParseSanad, When
<1>8. CASE c = "solana" /\ kind = "seals"
  BY <1>b, <1>8 DEF Parsed, SolanaParseSeal, When
<1>9. CASE c = "solana" /\ kind = "transfers"
  BY <1>c, <1>9 DEF Parsed, SolanaParseTransfer, When
<1>10. CASE c = "bitcoin" /\ kind = "sanads"
  BY <1>a, <1>10 DEF Parsed, BitcoinParseSanad, When
<1>11. CASE c = "bitcoin" /\ kind = "seals"
  BY <1>b, <1>11 DEF Parsed, SpentInput, When
<1>12. CASE c = "bitcoin" /\ kind = "transfers"
  BY <1>c, <1>12 DEF Parsed, BitcoinParseTransfer, When
<1>13. CASE c = "ethereum" /\ kind = "sanads"
  BY <1>a, <1>13 DEF Parsed, EthereumParseSanad, When
<1>14. CASE c = "ethereum" /\ kind = "seals"
  BY <1>b, <1>14 DEF Parsed, EthereumParseSeal, When
<1>15. CASE c = "ethereum" /\ kind = "transfers"
  BY <1>c, <1>15 DEF Parsed, EthereumParseTransfer, When
<1>. QED
  BY <1>1, <1>2, <1>3, <1>4, <1>5, <1>6, <1>7, <1>8, <1>9, <1>10, <1>11, <1>12,
     <1>13, <1>14, <1>15
     DEF Chains, FoundKinds

LEMMA FoundRecords ==
  ASSUME NEW c \in Chains, NEW kind \in FoundKinds, NEW txs, NEW h, IsBlock(c, txs)
  PROVE  /\ IsList(Found(c, kind, txs, h))
         /\ \A x : x \in Range(Found(c, kind, txs, h)) <=>
              \E tx \in Range(txs) : \E part \in Range(Parts(c, kind, tx)) :
                x \in Range(Parsed(c, kind, tx, part, h))
<1>. DEFINE parts(k) == Parts(c, kind, txs[k])
            inner(k) == [j \in DOMAIN parts(k) |-> Parsed(c, kind, txs[k], parts(k)[j], h)]
            outer == [k \in DOMAIN txs |-> FlattenSeq(inner(k))]
            n == Len(txs)
<1>1. n \in Nat /\ DOMAIN txs = 1..n /\ \A x : x \in Range(txs) <=> \E k \in 1..n : x = txs[k]
  BY ListDomain DEF IsBlock
<1>2. ASSUME NEW k \in 1..n
      PROVE  /\ IsList(outer[k])
             /\ \A x : x \in Range(outer[k]) <=>
                         \E part \in Range(parts(k)) : x \in Range(Parsed(c, kind, txs[k], part, h))
  <2>1. txs[k] \in Range(txs)
    BY <1>1
  <2>2. IsList(parts(k))
    BY <2>1 DEF IsBlock, Parts
  <2>. DEFINE m == Len(parts(k))
  <2>3. /\ m \in Nat /\ DOMAIN parts(k) = 1..m
        /\ \A x : x \in Range(parts(k)) <=> \E j \in 1..m : x = parts(k)[j]
    <3>. HIDE DEF parts
    <3>. QED
      BY <2>2, ListDomain
  <2>4. ASSUME NEW j \in 1..m
        PROVE  /\ inner(k)[j] = Parsed(c, kind, txs[k], parts(k)[j], h)
               /\ IsList(inner(k)[j])
    BY <2>3, ParsedRecords DEF AreRecords
  <2>5. DOMAIN inner(k) = 1..m /\ inner(k) = [j \in 1..m |-> inner(k)[j]]
    BY <2>3
  <2>6. outer[k] = FlattenSeq(inner(k))
    BY <1>1
  <2>. HIDE DEF parts, inner, outer, m
  <2>7. /\ IsList(FlattenSeq(inner(k)))
        /\ \A x : x \in Range(FlattenSeq(inner(k))) <=> \E j \in 1..m : x \in Range(inner(k)[j])
    BY <2>3, <2>4, <2>5, FlattenLists
  <2>8. ASSUME NEW x
        PROVE  (\E j \in 1..m : x \in Range(inner(k)[j])) <=>
                 \E part \in Range(parts(k)) : x \in Range(Parsed(c, kind, txs[k], part, h))
    BY <2>3, <2>4
  <2>. QED
    BY <2>6, <2>7, <2>8
<1>3. /\ DOMAIN outer = 1..n /\ outer = [k \in 1..n |-> outer[k]]
      /\ Found(c, kind, txs, h) = FlattenSeq(outer)
  BY <1>1 DEF Found
<1>. HIDE DEF outer, n
<1>4. /\ IsList(FlattenSeq(outer))
      /\ \A x : x \in Range(FlattenSeq(outer)) <=> \E k \in 1..n : x \in Range(outer[k])
  BY <1>1, <1>2, <1>3, FlattenLists
<1>5. ASSUME NEW x
      PROVE  (\E k \in 1..n : x \in Range(outer[k])) <=>
               \E tx \in Range(txs) : \E part \in Range(Parts(c, kind, tx)) :
                 x \in Range(Parsed(c, kind, tx, part, h))
  BY <1>1, <1>2
<1>. QED
  BY <1>3, <1>4, <1>5

-----------------------------------------------------------------------------
(* The ids of an answer.                                                   *)

LEMMA FoundIds ==
  ASSUME NEW c \in Chains, NEW kind \in FoundKinds, NEW txs, NEW h, IsBlock(c, txs)
  PROVE  \A x \in Range(Decoded(c, kind, txs, h)) : "id" \in DOMAIN x
BY DecodedIsFound, FoundRecords, ParsedRecords DEF AreRecords

LEMMA FewerTransactions ==
  ASSUME NEW c \in Chains, NEW kind \in FoundKinds, NEW txs, NEW part, NEW h,
         IsBlock(c, txs), IsBlock(c, part), Range(part) \subseteq Range(txs)
  PROVE  IdsIn(Decoded(c, kind, part, h)) \subseteq IdsIn(Decoded(c, kind, txs, h))
<1>1. Range(Found(c, kind, part, h)) \subseteq Range(Found(c, kind, txs, h))
  BY FoundRecords
<1>2. Range(Decoded(c, kind, part, h)) \subseteq Range(Decoded(c, kind, txs, h))
  BY <1>1, DecodedIsFound
<1>. QED
  BY <1>2 DEF IdsIn, Range

LEMMA ProofKeepsIds ==
  ASSUME NEW s, NEW proof, \A x \in Range(s) : "id" \in DOMAIN x
  PROVE  IdsIn(WithProof(s, proof)) = IdsIn(s)
<1>1. DOMAIN WithProof(s, proof) = DOMAIN s
  BY DEF WithProof
<1>2. ASSUME NEW k \in DOMAIN s PROVE WithProof(s, proof)[k].id = s[k].id
  BY DEF WithProof, Range
<1>. QED
  BY <1>1, <1>2 DEF IdsIn

LEMMA EnhancedIsPlain ==
  ASSUME NEW c \in Chains, NEW kind \in EnhancedKinds, NEW txs, NEW h,
         ~(c = "bitcoin" /\ kind = "enhanced_transfers")
  PROVE  \E proof : Decoded(c, kind, txs, h) =
                      WithProof(Decoded(c, PlainKind(kind), txs, h), proof)
<1>0. /\ PlainKind("enhanced_sanads") = "sanads" /\ PlainKind("enhanced_seals") = "seals"
      /\ PlainKind("enhanced_transfers") = "transfers"
  BY DEF PlainKind
<1>1. CASE c = "sui" /\ kind = "enhanced_sanads"
  BY <1>0, <1>1 DEF Decoded, IndexEnhancedSanads, IndexSanads, SuiEnhancedSanads
<1>2. CASE c = "sui" /\ kind = "enhanced_seals"
  BY <1>0, <1>2 DEF Decoded, IndexEnhancedSeals, IndexSeals, SuiEnhancedSeals
<1>3. CASE c = "sui" /\ kind = "enhanced_transfers"
  BY <1>0, <1>3
     DEF Decoded, IndexEnhancedTransfers, IndexTransfers, SuiEnhancedTransfers
<1>4. CASE c = "aptos" /\ kind = "enhanced_sanads"
  BY <1>0, <1>4 DEF Decoded, IndexEnhancedSanads, IndexSanads, AptosEnhancedSanads
<1>5. CASE c = "aptos" /\ kind = "enhanced_seals"
  BY <1>0, <1>5 DEF Decoded, IndexEnhancedSeals, IndexSeals, AptosEnhancedSeals
<1>6. CASE c = "aptos" /\ kind = "enhanced_transfers"
  BY <1>0, <1>6
     DEF Decoded, IndexEnhancedTransfers, IndexTransfers, AptosEnhancedTransfers
<1>7. CASE c = "solana" /\ kind = "enhanced_sanads"
  BY <1>0, <1>7 DEF Decoded, IndexEnhancedSanads, IndexSanads, SolanaEnhancedSanads
<1>8. CASE c = "solana" /\ kind = "enhanced_seals"
  BY <1>0, <1>8 DEF Decoded, IndexEnhancedSeals, IndexSeals, SolanaEnhancedSeals
<1>9. CASE c = "solana" /\ kind = "enhanced_transfers"
  BY <1>0, <1>9
     DEF Decoded, IndexEnhancedTransfers, IndexTransfers,
         SolanaEnhancedTransfers
<1>10. CASE c = "bitcoin" /\ kind = "enhanced_sanads"
  BY <1>0, <1>10
     DEF Decoded, IndexEnhancedSanads, IndexSanads, BitcoinEnhancedSanads
<1>11. CASE c = "bitcoin" /\ kind = "enhanced_seals"
  BY <1>0, <1>11 DEF Decoded, IndexEnhancedSeals, IndexSeals, BitcoinEnhancedSeals
<1>12. CASE c = "ethereum" /\ kind = "enhanced_sanads"
  BY <1>0, <1>12
     DEF Decoded, IndexEnhancedSanads, IndexSanads, EthereumEnhancedSanads
<1>13. CASE c = "ethereum" /\ kind = "enhanced_seals"
  BY <1>0, <1>13 DEF Decoded, IndexEnhancedSeals, IndexSeals, EthereumEnhancedSeals
<1>14. CASE c = "ethereum" /\ kind = "enhanced_transfers"
  BY <1>0, <1>14
     DEF Decoded, IndexEnhancedTransfers, IndexTransfers,
         EthereumEnhancedTransfers
<1>. QED
  BY <1>1, <1>2, <1>3, <1>4, <1>5, <1>6, <1>7, <1>8, <1>9, <1>10, <1>11, <1>12,
     <1>13, <1>14
     DEF Chains, EnhancedKinds

LEMMA EnhancedIds ==
  ASSUME NEW c \in Chains, NEW kind \in EnhancedKinds, NEW txs, NEW h, IsBlock(c, txs)
  PROVE  IF c = "bitcoin" /\ kind = "enhanced_transfers"
         THEN IdsIn(Decoded(c, kind, txs, h)) = {}
         ELSE IdsIn(Decoded(c, kind, txs, h)) = IdsIn(Decoded(c, PlainKind(kind), txs, h))
<1>1. CASE c = "bitcoin" /\ kind = "enhanced_transfers"
  BY <1>1 DEF Decoded, IndexEnhancedTransfers, BitcoinEnhancedTransfers, IdsIn
<1>2. CASE ~(c = "bitcoin" /\ kind = "enhanced_transfers")
  <2>1. PlainKind(kind) \in FoundKinds
    BY DEF EnhancedKinds, PlainKind, FoundKinds
  <2>2. PICK proof : Decoded(c, kind, txs, h) =
                       WithProof(Decoded(c, PlainKind(kind), txs, h), proof)
    BY <1>2, EnhancedIsPlain
  <2>3. \A x \in Range(Decoded(c, PlainKind(kind), txs, h)) : "id" \in DOMAIN x
    BY <2>1, FoundIds
  <2>. QED
    BY <1>2, <2>2, <2>3, ProofKeepsIds
<1>. QED
  BY <1>1, <1>2

\* What is left of a block when one of its transactions cannot be read.
LEMMA PartOfBlock ==
  ASSUME NEW c, NEW txs, IsBlock(c, txs), NEW k \in DOMAIN txs
  PROVE  IsBlock(c, RemoveAt(txs, k)) /\ Range(RemoveAt(txs, k)) \subseteq Range(txs)
<1>. DEFINE S == Range(txs)
            before == SubSeq(txs, 1, k - 1)
            after == SubSeq(txs, k + 1, Len(txs))
<1>1. txs \in Seq(S) /\ Len(txs) \in Nat /\ k \in 1..Len(txs)
  BY ListDomain DEF IsBlock, IsList
<1>. HIDE DEF S
<1>2. before \in Seq(S) /\ after \in Seq(S)
  BY <1>1
<1>3. RemoveAt(txs, k) = before \o after
  BY DEF RemoveAt
<1>4. RemoveAt(txs, k) \in Seq(S)
  BY <1>2, <1>3, ConcatProperties
<1>5. IsList(RemoveAt(txs, k)) /\ Range(RemoveAt(txs, k)) \subseteq S
  BY <1>4, SeqOfRange, RangeOfSeq DEF IsList
<1>. QED
  BY <1>5 DEF IsBlock, S

LEMMA EmptyBlock ==
  ASSUME NEW c, NEW txs
  PROVE  IsBlock(c, << >>) /\ Range(<< >>) \subseteq Range(txs)
<1>1. << >> \in Seq({}) /\ Range(<< >>) = {}
  BY DEF Range
<1>. QED
  BY <1>1 DEF IsBlock, IsList

-----------------------------------------------------------------------------
(* One answer of an adapter.                                               *)

Kinds == FoundKinds \cup {"contracts"} \cup EnhancedKinds

LEMMA FetchedReply ==
  ASSUME NEW c \in Chains, NEW txs
  PROVE  /\ Fetched(c, Whole(txs)) = txs
         /\ \A reply \in Faults \cup {Part(txs)} :
              /\ reply.kind # "whole" /\ reply.txs \in {<< >>, txs}
              /\ Fetched(c, reply) \in {Failed, reply.txs}
              /\ c \in StrictChains => Fetched(c, reply) = Failed
<1>1. Fetched(c, Whole(txs)) = txs
  BY DEF Chains, Fetched, Whole, FetchCheckpoint, FetchBlockTransactions,
         GetTransactionsForSlot, FetchBlock, FetchLogs
<1>2. ASSUME NEW reply \in Faults \cup {Part(txs)}
      PROVE  reply.kind # "whole" /\ reply.txs \in {<< >>, txs}
  BY DEF Faults, Fault, Part
<1>3. ASSUME NEW reply \in Faults \cup {Part(txs)}
      PROVE  /\ Fetched(c, reply) \in {Failed, reply.txs}
             /\ c \in StrictChains => Fetched(c, reply) = Failed
  BY <1>2
     DEF Chains, StrictChains, Fetched, FetchCheckpoint, FetchBlockTransactions,
              GetTransactionsForSlot, FetchBlock, FetchLogs
<1>. QED
  BY <1>1, <1>2, <1>3

\* Enhanced records are those of the plain kind, or none.
LEMMA AnswerIds ==
  ASSUME NEW c \in Chains, NEW kind \in Kinds, NEW txs, NEW h, IsBlock(c, txs)
  PROVE  IF c = "bitcoin" /\ kind = "enhanced_transfers"
         THEN IdsIn(Decoded(c, kind, txs, h)) = {}
         ELSE IdsIn(Decoded(c, kind, txs, h)) = IdsIn(Decoded(c, PlainKind(kind), txs, h))
<1>1. CASE kind \in EnhancedKinds
  BY <1>1, EnhancedIds
<1>2. CASE kind \notin EnhancedKinds
  <2>1. PlainKind(kind) = kind /\ kind # "enhanced_transfers"
    BY <1>2 DEF PlainKind, EnhancedKinds
  <2>. QED
    BY <2>1
<1>. QED
  BY <1>1, <1>2

LEMMA FewerIds ==
  ASSUME NEW c \in Chains, NEW kind \in Kinds, NEW txs, NEW part, NEW h,
         IsBlock(c, txs), IsBlock(c, part), Range(part) \subseteq Range(txs)
  PROVE  IdsIn(Decoded(c, PlainKind(kind), part, h))
           \subseteq IdsIn(Decoded(c, PlainKind(kind), txs, h))
<1>1. PlainKind(kind) \in FoundKinds \cup {"contracts"}
  BY DEF Kinds, FoundKinds, EnhancedKinds, PlainKind
<1>2. Decoded(c, "contracts", part, h) = Decoded(c, "contracts", txs, h)
  BY DEF Decoded
<1>. QED
  BY <1>1, <1>2, FewerTransactions

\* What an adapter may answer about the blocks of the branches since .. upto.
Lists(a, since, upto, h, faulty) ==
  \E b \in since..upto :
    LET ids == IdsIn(a.list)
        shown == OnBranch(b, PlainKind(a.kind), h)
        whole == chain \in StrictChains \/ ~faulty
    IN  \/ whole /\ ids = shown
        \/ ~whole /\ ids \subseteq shown
        \/ chain = "bitcoin" /\ a.kind = "enhanced_transfers" /\ ids = {}

AnswersInv ==
  /\ chain \in Adapters
  /\ branch \in 1..Len(Branches[chain])
  /\ call.on \in BOOLEAN
  /\ call.on =>
       /\ call = [on |-> TRUE, at |-> call.at, todo |-> call.todo, got |-> call.got,
                  since |-> call.since, faulty |-> call.faulty]
       /\ call.at \in Heights(chain)
       /\ call.todo \in Seq(Kinds)
       /\ call.since \in 1..branch
       /\ call.faulty \in BOOLEAN
       /\ IsList(call.got)
       /\ \A k \in DOMAIN call.got :
            Lists(call.got[k], call.since, branch, call.at, call.faulty)

LEMMA ShownBlock ==
  ASSUME BlockProcessingAssumption, BranchesAssumption, AnswersInv, call.on
  PROVE  chain \in Chains /\ IsBlock(chain, BlockOf(chain, branch, call.at))
<1>1. IsList(Branches[chain]) /\ branch \in DOMAIN Branches[chain]
  BY ListDomain DEF AnswersInv, BranchesAssumption
<1>. QED
  BY <1>1 DEF AnswersInv, BlockProcessingAssumption, BranchesAssumption

LEMMA WholeAnswer ==
  ASSUME BlockProcessingAssumption, BranchesAssumption, AnswersInv, call.on,
         NEW kind \in Kinds, NEW list, list # Failed,
         list = Index(chain, kind, Whole(BlockOf(chain, branch, call.at)), call.at),
         NEW faulty \in BOOLEAN
  PROVE  Lists([kind |-> kind, list |-> list], call.since, branch, call.at, faulty)
<1>. DEFINE txs == BlockOf(chain, branch, call.at)
            a == [kind |-> kind, list |-> list]
<1>1. chain \in Chains /\ IsBlock(chain, txs)
  BY ShownBlock
<1>. HIDE DEF txs
<1>2. list = Decoded(chain, kind, txs, call.at)
  BY <1>1, FetchedReply DEF Index, txs
<1>3. IF chain = "bitcoin" /\ kind = "enhanced_transfers" THEN IdsIn(list) = {}
      ELSE IdsIn(list) = IdsIn(Decoded(chain, PlainKind(kind), txs, call.at))
  BY <1>1, <1>2, AnswerIds
<1>4. IdsIn(Decoded(chain, PlainKind(kind), txs, call.at))
        = OnBranch(branch, PlainKind(kind), call.at)
  BY DEF OnBranch, txs
<1>5. branch \in call.since..branch
  BY DEF AnswersInv
<1>6. a.kind = kind /\ a.list = list
  OBVIOUS
<1>. HIDE DEF a
<1>. QED
  BY <1>3, <1>4, <1>5, <1>6 DEF Lists, a

LEMMA PartialAnswer ==
  ASSUME BlockProcessingAssumption, BranchesAssumption, AnswersInv, call.on,
         NEW kind \in Kinds, AsksNode(chain, kind),
         NEW txs, txs = BlockOf(chain, branch, call.at),
         NEW reply \in Faults \cup { Part(RemoveAt(txs, k)) : k \in DOMAIN txs },
         NEW list, list # Failed, list = Index(chain, kind, reply, call.at)
  PROVE  /\ reply.kind # "whole"
         /\ Lists([kind |-> kind, list |-> list], call.since, branch, call.at, TRUE)
<1>. DEFINE a == [kind |-> kind, list |-> list]
<1>1. chain \in Chains /\ IsBlock(chain, txs)
  BY ShownBlock
<1>0. PICK part : /\ reply \in Faults \cup {Part(part)}
                  /\ IsBlock(chain, part) /\ Range(part) \subseteq Range(txs)
  BY <1>1, PartOfBlock, EmptyBlock
<1>2. IsBlock(chain, reply.txs) /\ Range(reply.txs) \subseteq Range(txs)
  <2>1. reply.txs \in {<< >>, part}
    BY <1>0, <1>1, FetchedReply
  <2>2. IsBlock(chain, << >>) /\ Range(<< >>) \subseteq Range(txs)
    BY EmptyBlock
  <2>. QED
    BY <1>0, <2>1, <2>2
<1>3. chain \notin StrictChains /\ list = Decoded(chain, kind, reply.txs, call.at)
  BY <1>0, <1>1, FetchedReply DEF Index
<1>4. IdsIn(list) \subseteq IdsIn(Decoded(chain, PlainKind(kind), txs, call.at))
  BY <1>1, <1>2, <1>3, AnswerIds, FewerIds
<1>5. IdsIn(Decoded(chain, PlainKind(kind), txs, call.at))
        = OnBranch(branch, PlainKind(kind), call.at)
  BY DEF OnBranch
<1>6. branch \in call.since..branch
  BY DEF AnswersInv
<1>7. a.kind = kind /\ a.list = list
  OBVIOUS
<1>. HIDE DEF a
<1>8. reply.kind # "whole"
  BY <1>0, <1>1, FetchedReply
<1>. QED
  BY <1>3, <1>4, <1>5, <1>6, <1>7, <1>8 DEF Lists, a

-----------------------------------------------------------------------------
(* Answers list the block.                                                 *)

LEMMA AnswersInit ==
  ASSUME BlockProcessingAssumption, BranchesAssumption, Init
  PROVE  AnswersInv
<1>1. Len(Branches[chain]) \in Nat \ {0}
  BY EmptySeq DEF BranchesAssumption, Init, IsList
<1>. QED
  BY <1>1 DEF Init, Idle, AnswersInv

\* A later branch, or a fault, only makes room.
LEMMA ListsStill ==
  ASSUME NEW a, NEW since \in Nat, NEW upto \in Nat, NEW h, NEW faulty \in BOOLEAN,
         NEW later \in Nat, upto <= later, NEW fault \in BOOLEAN, faulty => fault,
         Lists(a, since, upto, h, faulty)
  PROVE  Lists(a, since, later, h, fault)
<1>1. since..upto \subseteq since..later
  OBVIOUS
<1>. QED
  BY <1>1 DEF Lists

LEMMA BeginAnswers ==
  ASSUME AnswersInv, NEW h \in Heights(chain), NEW kinds \in Seq(Kinds), Begin(h, kinds)
  PROVE  AnswersInv'
<1>1. /\ call' = [on |-> TRUE, at |-> h, todo |-> kinds, got |-> << >>,
                  since |-> branch, faulty |-> FALSE]
      /\ chain' = chain /\ branch' = branch
  BY DEF Begin
<1>2. IsList(<< >>)
  BY DEF IsList
<1>. QED
  BY <1>1, <1>2 DEF AnswersInv, Heights

LEMMA ReturnAnswers ==
  ASSUME BlockProcessingAssumption, BranchesAssumption, AnswersInv, call.on,
         call.todo # << >>, NEW kind \in Kinds, kind = Head(call.todo),
         NEW reply, NEW list, list = Index(chain, kind, reply, call.at), Return(reply),
         NEW faulty \in BOOLEAN, faulty = (call.faulty \/ reply.kind # "whole"),
         list # Failed =>
           Lists([kind |-> kind, list |-> list], call.since, branch, call.at, faulty)
  PROVE  AnswersInv'
<1>1. chain' = chain /\ branch' = branch
  BY DEF Return
<1>2. CASE list = Failed
  <2>1. call' = Idle
    BY <1>2 DEF Return
  <2>2. call'.on = FALSE
    BY <2>1 DEF Idle
  <2>. QED
    BY <1>1, <2>2 DEF AnswersInv
<1>3. CASE list # Failed
  <2>. DEFINE a == [kind |-> kind, list |-> list]
  <2>1. call' = [call EXCEPT !.todo = Tail(@), !.got = Append(@, a), !.faulty = faulty]
    BY <1>3 DEF Return
  <2>2. call' = [on |-> TRUE, at |-> call.at, todo |-> Tail(call.todo),
                 got |-> Append(call.got, a), since |-> call.since,
                 faulty |-> faulty]
    <3>. HIDE DEF a
    <3>. QED
      BY <2>1 DEF AnswersInv
  <2>3. Tail(call.todo) \in Seq(Kinds)
    BY HeadTailProperties DEF AnswersInv
  <2>. DEFINE got == call.got
  <2>4. /\ IsList(Append(got, a))
        /\ \A k \in DOMAIN Append(got, a) :
             Append(got, a)[k] = a \/ (k \in DOMAIN got /\ Append(got, a)[k] = got[k])
    <3>1. IsList(got)
      BY DEF AnswersInv
    <3>. HIDE DEF got, a
    <3>. QED
      BY <3>1, AppendedList
  <2>. HIDE DEF got, a
  <2>5. Lists(a, call.since, branch, call.at, faulty)
    BY <1>3 DEF a
  <2>6. \A k \in DOMAIN got : Lists(got[k], call.since, branch, call.at, faulty)
    <3>1. /\ call.since \in Nat /\ branch \in Nat /\ branch <= branch
          /\ call.faulty \in BOOLEAN /\ (call.faulty => faulty)
      BY DEF AnswersInv
    <3>2. ASSUME NEW k \in DOMAIN got
          PROVE  Lists(got[k], call.since, branch, call.at, call.faulty)
      BY DEF AnswersInv, got
    <3>. QED
      BY <3>1, <3>2, ListsStill
  <2>7. \A k \in DOMAIN Append(got, a) :
          Lists(Append(got, a)[k], call.since, branch, call.at, faulty)
    BY <2>4, <2>5, <2>6
  <2>. DEFINE all == Append(got, a)
  <2>8. PICK answers : answers = all
    OBVIOUS
  <2>9. ASSUME NEW x, Lists(x, call.since, branch, call.at, faulty)
        PROVE  Lists(x, call.since, branch, call.at, call.faulty)'
    BY <1>1, <2>2, <2>9 DEF Lists, OnBranch
  <2>10. \A k \in DOMAIN answers :
           Lists(answers[k], call.since, branch, call.at, call.faulty)'
    BY <2>7, <2>8, <2>9
  <2>11. call'.got = answers /\ IsList(answers)
    BY <2>2, <2>4, <2>8 DEF got
  <2>. QED
    BY <1>1, <2>2, <2>3, <2>10, <2>11 DEF AnswersInv, Heights
<1>. QED
  BY <1>2, <1>3

LEMMA AnswersNext ==
  ASSUME BlockProcessingAssumption, BranchesAssumption, AnswersInv, [Next]_vars
  PROVE  AnswersInv'
<1>0. /\ ProcessOrder \in Seq(Kinds)
      /\ \A k \in EnhancedKinds : <<k>> \in Seq(Kinds)
  BY DEF ProcessOrder, Kinds, FoundKinds
<1>1. CASE ProcessBlock
  BY <1>0, <1>1, BeginAnswers DEF ProcessBlock
<1>2. CASE AskEnhanced
  BY <1>0, <1>2, BeginAnswers DEF AskEnhanced
<1>3. ASSUME call.on, call.todo # << >>
      PROVE  Head(call.todo) \in Kinds
  BY <1>3, HeadTailProperties DEF AnswersInv
<1>4. CASE Answered
  <2>1. call.on /\ call.todo # << >>
    BY <1>4 DEF Answered, Return
  <2>. DEFINE reply == Whole(BlockOf(chain, branch, call.at))
              list == Index(chain, Head(call.todo), reply, call.at)
  <2>2. Return(reply) /\ Head(call.todo) \in Kinds
    BY <1>3, <1>4, <2>1 DEF Answered
  <2>3. PICK faulty \in BOOLEAN : faulty = (call.faulty \/ reply.kind # "whole")
    OBVIOUS
  <2>4. list # Failed =>
          Lists([kind |-> Head(call.todo), list |-> list], call.since, branch, call.at, faulty)
    BY <2>1, <2>2, WholeAnswer
  <2>. HIDE DEF reply, list
  <2>5. list = Index(chain, Head(call.todo), reply, call.at)
    BY DEF list
  <2>. QED
    BY <2>1, <2>2, <2>3, <2>4, <2>5, ReturnAnswers
<1>5. CASE AnsweredWithFault
  <2>. DEFINE txs == BlockOf(chain, branch, call.at)
  <2>1. call.on /\ call.todo # << >> /\ AsksNode(chain, Head(call.todo))
    BY <1>5 DEF AnsweredWithFault
  <2>2. PICK reply \in Faults \cup { Part(RemoveAt(txs, k)) : k \in DOMAIN txs } : Return(reply)
    BY <1>5 DEF AnsweredWithFault
  <2>3. Head(call.todo) \in Kinds
    BY <1>3, <2>1
  <2>. DEFINE list == Index(chain, Head(call.todo), reply, call.at)
  <2>4. list # Failed =>
          /\ reply.kind # "whole"
          /\ Lists([kind |-> Head(call.todo), list |-> list], call.since, branch, call.at, TRUE)
    BY <2>1, <2>2, <2>3, PartialAnswer
  <2>5. PICK faulty \in BOOLEAN : faulty = (call.faulty \/ reply.kind # "whole")
    OBVIOUS
  <2>6. list # Failed =>
          Lists([kind |-> Head(call.todo), list |-> list], call.since, branch, call.at, faulty)
    BY <2>4, <2>5
  <2>. HIDE DEF list
  <2>7. list = Index(chain, Head(call.todo), reply, call.at)
    BY DEF list
  <2>. QED
    BY <2>1, <2>2, <2>3, <2>5, <2>6, <2>7, ReturnAnswers
<1>6. CASE End
  <2>1. call'.on = FALSE /\ chain' = chain /\ branch' = branch
    BY <1>6 DEF End, Idle
  <2>. QED
    BY <2>1 DEF AnswersInv
<1>7. CASE Reorg
  <2>1. chain' = chain /\ call' = call /\ branch' = branch + 1 /\ branch < Len(Branches[chain])
    BY <1>7 DEF Reorg
  <2>2. ASSUME NEW x, Lists(x, call.since, branch, call.at, call.faulty), call.on
        PROVE  Lists(x, call.since, branch + 1, call.at, call.faulty)
    <3>1. /\ call.since \in Nat /\ branch \in Nat /\ branch + 1 \in Nat /\ branch <= branch + 1
          /\ call.faulty \in BOOLEAN
      BY <2>2 DEF AnswersInv
    <3>. QED
      BY <2>2, <3>1, ListsStill
  <2>3. ASSUME NEW x, Lists(x, call.since, branch + 1, call.at, call.faulty)
        PROVE  Lists(x, call.since, branch, call.at, call.faulty)'
    BY <2>1, <2>3 DEF Lists, OnBranch
  <2>4. PICK answers : answers = call.got
    OBVIOUS
  <2>5. call.on =>
          \A k \in DOMAIN answers :
            Lists(answers[k], call.since, branch, call.at, call.faulty)'
    BY <2>2, <2>3, <2>4 DEF AnswersInv
  <2>6. branch' \in 1..Len(Branches[chain]) /\ (call.on => call.since \in 1..branch')
    BY <2>1, ListDomain DEF AnswersInv, BranchesAssumption
  <2>. QED
    BY <2>1, <2>4, <2>5, <2>6 DEF AnswersInv, Heights
<1>8. CASE UNCHANGED vars
  BY <1>8 DEF vars, AnswersInv, Heights, Lists, OnBranch
<1>. QED
  BY <1>1, <1>2, <1>4, <1>5, <1>6, <1>7, <1>8 DEF Next

\* Whatever fails and whenever the node changes its mind, what an adapter of
\* the five answers is the records of one version of the block: all of them,
\* or where a failed request is no error none that is not in it.
THEOREM AnswersAreOfOneBlock == Spec => []AnswersListTheBlock
<1>1. Init => AnswersInv
  BY AnswersInit, BlockProcessingAssumption, BranchesAssumption
<1>2. AnswersInv /\ [Next]_vars => AnswersInv'
  BY AnswersNext, BlockProcessingAssumption, BranchesAssumption
<1>3. AnswersInv => AnswersListTheBlock
  BY DEF AnswersInv, AnswersListTheBlock, Lists
<1>. QED
  BY <1>1, <1>2, <1>3, PTL DEF Spec

-----------------------------------------------------------------------------
(* Progress claims no block that was not indexed.                          *)

\* Every block of c above its configured start, up to n, was indexed.
Covered(c, n) == \A k \in Nat : StartBlock[c] < k /\ k <= n => k \in indexed[c]

\* No override is later than the configured start.
EarlyOverrides == \A c \in Chain, b \in Override : b <= StartBlock[c]

(* What is known of a task at each of its steps: all that it resumes from  *)
(* was indexed before it, whoever indexed it.                              *)
TaskCovered(t) ==
  /\ pc[t] = "read" => start[t] <= StartBlock[syncing[t]]
  /\ pc[t] \in {"tip", "write"} => Covered(syncing[t], current[t])
  /\ pc[t] = "index" => \A k \in Nat : k < current[t] => Covered(syncing[t], k)

ProgressCovered(c) == progress[c] # NoProgress => Covered(c, progress[c])

SyncInv ==
  /\ TypeOK
  /\ EarlyOverrides => /\ \A c \in Chain : ProgressCovered(c)
                       /\ \A t \in Task : TaskCovered(t)

-----------------------------------------------------------------------------
LEMMA InitSyncInv ==
  ASSUME SyncAssumption, SyncInit
  PROVE  SyncInv
<1>1. TypeOK
  BY DEF SyncAssumption, SyncInit, TypeOK, Task, Tips, Stopped
<1>2. \A c \in Chain : ProgressCovered(c)
  BY DEF SyncInit, ProgressCovered
<1>3. \A t \in Task : TaskCovered(t)
  BY DEF SyncInit, TaskCovered
<1>. QED
  BY <1>1, <1>2, <1>3 DEF SyncInv

-----------------------------------------------------------------------------
LEMMA BeginTypes ==
  ASSUME SyncAssumption, TypeOK, NEW t \in Task, NEW c \in Chain, NEW b \in Nat,
         BeginSync(t, c, b)
  PROVE  /\ pc' = [pc EXCEPT ![t] = "read"]
         /\ syncing' \in [Task -> Chain] /\ start' \in [Task -> Nat]
         /\ current' = current /\ end' = end
  BY DEF BeginSync, TypeOK

LEMMA GotoTypes ==
  ASSUME TypeOK, NEW t \in Task, NEW step, Goto(t, step)
  PROVE  /\ pc' = [pc EXCEPT ![t] = step]
         /\ syncing' \in [Task -> Chain] /\ start' \in [Task -> Nat]
         /\ current' \in [Task -> Nat] /\ end' \in [Task -> Nat]
  BY DEF Goto, TypeOK

LEMMA ReturnTypes ==
  ASSUME SyncAssumption, TypeOK, NEW t \in Task, EndSync(t)
  PROVE  /\ pc' \in [Task -> {"idle", "read", "tip", "index", "write", "state"}]
         /\ \A o \in Operator : pc'[o] # "state"
         /\ syncing' \in [Task -> Chain] /\ start' \in [Task -> Nat]
         /\ current' \in [Task -> Nat] /\ end' \in [Task -> Nat]
<1>. DEFINE step == IF t \in Daemon THEN "state" ELSE "idle"
<1>1. /\ pc' = [pc EXCEPT ![t] = step]
      /\ syncing' \in [Task -> Chain] /\ start' \in [Task -> Nat]
      /\ current' \in [Task -> Nat] /\ end' \in [Task -> Nat]
  BY GotoTypes DEF EndSync
<1>2. t \in Operator => step = "idle"
  BY DEF SyncAssumption
<1>. QED
  BY <1>1, <1>2 DEF TypeOK, Task

LEMMA NextSyncTypes ==
  ASSUME SyncAssumption, TypeOK, [SyncNext]_syncVars
  PROVE  TypeOK'
<1>. USE DEF Task
<1>1. ASSUME NEW c \in Chain, NewBlock(c) PROVE TypeOK'
  BY <1>1 DEF NewBlock, TypeOK, SyncAssumption, Tips, task
<1>2. ASSUME NEW o \in Operator, NEW c \in Chain, NEW b \in Nat,
             Sync(o, c, b) \/ Reindex(o, c, b)
      PROVE  TypeOK'
  <2>1. BeginSync(o, c, b)
    BY <1>2 DEF Sync, Reindex
  <2>2. /\ progress' \in [Chain -> Nat \cup {NoProgress}]
        /\ commands' \in 0..MaxCommands
        /\ UNCHANGED <<height, indexed, status, failures>>
    BY <1>2 DEF Sync, Reindex, Command, TypeOK, SyncAssumption
  <2>. QED
    BY <2>1, <2>2, BeginTypes DEF TypeOK
<1>3. ASSUME ResetAll PROVE TypeOK'
  BY <1>3 DEF ResetAll, Command, TypeOK, SyncAssumption, task
<1>4. ASSUME NEW t \in Task, Step(t) PROVE TypeOK'
  <2>1. CASE ReadProgress(t)
    BY <2>1 DEF ReadProgress, TypeOK
  <2>2. CASE NothingToSync(t)
    BY <2>2, ReturnTypes DEF NothingToSync, TypeOK
  <2>3. CASE BeginBatch(t)
    BY <2>3 DEF BeginBatch, BatchEnd, TypeOK, SyncAssumption, Tips
  <2>4. CASE IndexBlock(t)
    BY <2>4 DEF IndexBlock, TypeOK
  <2>5. CASE UpdateProgress(t)
    <3>1. progress' \in [Chain -> Nat \cup {NoProgress}]
      BY <2>5 DEF UpdateProgress, TypeOK
    <3>2. CASE EndSync(t)
      BY <2>5, <3>1, <3>2, ReturnTypes DEF UpdateProgress, TypeOK
    <3>3. CASE current[t] < end[t] /\ ~EndSync(t)
      BY <2>5, <3>1, <3>3 DEF UpdateProgress, TypeOK
    <3>. QED
      BY <2>5, <3>2, <3>3 DEF UpdateProgress
  <2>. QED
    BY <1>4, <2>1, <2>2, <2>3, <2>4, <2>5 DEF Step
<1>5. ASSUME NEW d \in Daemon, Tick(d) PROVE TypeOK'
  <2>1. BeginSync(d, ChainOf[d], StartBlock[ChainOf[d]])
    BY <1>5 DEF Tick
  <2>2. ChainOf[d] \in Chain /\ StartBlock[ChainOf[d]] \in Nat
    BY DEF SyncAssumption
  <2>. QED
    BY <1>5, <2>1, <2>2, BeginTypes DEF Tick, TypeOK
<1>6. ASSUME NEW d \in Daemon, UpdateState(d) PROVE TypeOK'
  <2>1. d \notin Operator /\ height[syncing[d]] \in Nat
    BY DEF SyncAssumption, TypeOK, Tips
  <2>. QED
    BY <1>6, <2>1 DEF UpdateState, TypeOK
<1>7. ASSUME NEW d \in Daemon, TipFails(d) PROVE TypeOK'
  BY <1>7 DEF TipFails, Failure, TypeOK, SyncAssumption
<1>8. ASSUME NEW t \in Task, SyncFails(t) PROVE TypeOK'
  BY <1>8, ReturnTypes DEF SyncFails, Failure, TypeOK, SyncAssumption
<1>9. ASSUME NEW t \in Task, Crash(t) PROVE TypeOK'
  <2>1. /\ pc' = [pc EXCEPT ![t] = "idle"]
        /\ syncing' \in [Task -> Chain] /\ start' \in [Task -> Nat]
        /\ current' \in [Task -> Nat] /\ end' \in [Task -> Nat]
    BY <1>9, GotoTypes DEF Crash
  <2>2. status' \in [Daemon -> [status : {"stopped", "synced"}, latest_block : Nat]]
    BY <1>9 DEF Crash, Stopped, TypeOK
  <2>3. failures' \in 0..MaxFailures
    BY <1>9 DEF Crash, Failure, TypeOK, SyncAssumption
  <2>. QED
    BY <1>9, <2>1, <2>2, <2>3 DEF Crash, TypeOK
<1>10. CASE UNCHANGED syncVars
  BY <1>10 DEF syncVars, task, TypeOK
<1>11. ASSUME NEW o \in Operator, NEW c \in Chain,
              \/ Sync(o, c, StartBlock[c])
              \/ \E b \in Override : Sync(o, c, b) \/ Reindex(o, c, b)
       PROVE  TypeOK'
  <2>1. StartBlock[c] \in Nat /\ \A b \in Override : b \in Nat
    BY DEF SyncAssumption
  <2>. QED
    BY <1>2, <1>11, <2>1
<1>. QED
  BY <1>1, <1>3, <1>4, <1>5, <1>6, <1>7, <1>8, <1>9, <1>10, <1>11
     DEF SyncNext, DaemonStep

-----------------------------------------------------------------------------
\* Blocks stay indexed.
LEMMA IndexedGrows ==
  ASSUME SyncAssumption, TypeOK, [SyncNext]_syncVars, NEW c \in Chain
  PROVE  indexed[c] \subseteq indexed'[c]
<1>1. UNCHANGED indexed \/ \E t \in Task : IndexBlock(t)
  BY DEF SyncNext, NewBlock, Sync, Reindex, ResetAll, Step, DaemonStep, Tick,
         ReadProgress, NothingToSync, BeginBatch, UpdateProgress, UpdateState,
         TipFails, SyncFails, Crash, syncVars, Task
<1>. QED
  BY <1>1 DEF IndexBlock, TypeOK

LEMMA CoveredStays ==
  ASSUME SyncAssumption, TypeOK, [SyncNext]_syncVars, NEW c \in Chain, NEW n, Covered(c, n)
  PROVE  Covered(c, n)'
  BY IndexedGrows DEF Covered

LEMMA NothingCovered ==
  ASSUME NEW c \in Chain, NEW n, StartBlock[c] \in Nat, n \in Nat, n <= StartBlock[c]
  PROVE  Covered(c, n)
  BY DEF Covered

\* The tables and a task that a step leaves alone.
LEMMA TaskStays ==
  ASSUME SyncAssumption, TypeOK, [SyncNext]_syncVars, NEW t \in Task, TaskCovered(t),
         \/ UNCHANGED <<pc[t], syncing[t], start[t], current[t]>>
         \/ pc'[t] \in {"idle", "state"}
  PROVE  TaskCovered(t)'
<1>1. syncing[t] \in Chain
  BY DEF TypeOK
<1>. QED
  BY <1>1, CoveredStays DEF TaskCovered

\* What a step of t leaves of the other tasks.
LEMMA OthersStay ==
  ASSUME TypeOK, NEW t \in Task, NEW u \in Task, u # t,
         \/ Step(t) \/ SyncFails(t) \/ Crash(t)
         \/ TipFails(t) \/ UpdateState(t) \/ Tick(t)
         \/ \E c \in Chain, b \in Nat : Sync(t, c, b) \/ Reindex(t, c, b)
  PROVE  UNCHANGED <<pc[u], syncing[u], start[u], current[u]>>
<1>1. ASSUME NEW v, Goto(t, v)
      PROVE  UNCHANGED <<pc[u], syncing[u], start[u], current[u]>>
  BY <1>1 DEF Goto, TypeOK
<1>2. CASE EndSync(t)
  BY <1>1, <1>2 DEF EndSync
<1>3. ASSUME NEW c, NEW b, BeginSync(t, c, b)
      PROVE  UNCHANGED <<pc[u], syncing[u], start[u], current[u]>>
  BY <1>3 DEF BeginSync, TypeOK
<1>4. CASE Step(t)
  BY <1>2, <1>4 DEF Step, ReadProgress, NothingToSync, BeginBatch, IndexBlock,
                    UpdateProgress, TypeOK
<1>5. CASE SyncFails(t) \/ Crash(t)
  BY <1>1, <1>2, <1>5 DEF SyncFails, Crash
<1>6. CASE TipFails(t) \/ UpdateState(t)
  BY <1>6 DEF TipFails, UpdateState, TypeOK
<1>7. CASE Tick(t) \/ \E c \in Chain, b \in Nat : Sync(t, c, b) \/ Reindex(t, c, b)
  BY <1>3, <1>7 DEF Tick, Sync, Reindex
<1>. QED
  BY <1>4, <1>5, <1>6, <1>7

(* The task that moves keeps what is known of it.                          *)
LEMMA MoverCovered ==
  ASSUME SyncAssumption, SyncInv, EarlyOverrides, NEW t \in Task, Step(t)
  PROVE  TaskCovered(t)'
<1>. USE DEF SyncInv
<1>. syncing[t] \in Chain /\ StartBlock[syncing[t]] \in Nat /\ current[t] \in Nat
     /\ start[t] \in Nat
  BY DEF TypeOK, SyncAssumption
<1>. TaskCovered(t) /\ ProgressCovered(syncing[t])
  OBVIOUS
<1>1. ASSUME EndSync(t) PROVE TaskCovered(t)'
  <2>1. pc'[t] \in {"state", "idle"}
    BY <1>1 DEF EndSync, Goto, TypeOK
  <2>. QED
    BY <2>1 DEF TaskCovered
<1>2. CASE ReadProgress(t)
  <2>1. /\ pc'[t] = "tip" /\ syncing' = syncing /\ indexed' = indexed
        /\ current'[t] = IF progress[syncing[t]] = NoProgress THEN start[t]
                         ELSE progress[syncing[t]]
    BY <1>2 DEF ReadProgress, TypeOK
  <2>2. CASE progress[syncing[t]] = NoProgress
    <3>1. start[t] <= StartBlock[syncing[t]]
      BY <1>2 DEF ReadProgress, TaskCovered
    <3>. QED
      BY <2>1, <2>2, <3>1 DEF TaskCovered, Covered
  <2>3. CASE progress[syncing[t]] # NoProgress
    BY <2>1, <2>3 DEF TaskCovered, ProgressCovered, Covered
  <2>. QED
    BY <2>2, <2>3
<1>3. CASE NothingToSync(t)
  BY <1>1, <1>3 DEF NothingToSync
<1>4. CASE BeginBatch(t)
  <2>1. /\ pc[t] = "tip" /\ pc'[t] = "index" /\ syncing' = syncing
        /\ indexed' = indexed /\ current'[t] = current[t] + 1
    BY <1>4 DEF BeginBatch, TypeOK
  <2>2. \A k \in Nat : k < current[t] + 1 => k <= current[t]
    OBVIOUS
  <2>. QED
    BY <2>1, <2>2 DEF TaskCovered, Covered
<1>5. CASE IndexBlock(t)
  <2>1. /\ pc[t] = "index" /\ pc'[t] = "write" /\ UNCHANGED <<syncing, current>>
        /\ indexed'[syncing[t]] = indexed[syncing[t]] \cup {current[t]}
    BY <1>5 DEF IndexBlock, TypeOK
  <2>2. \A k \in Nat : k <= current[t] => k < current[t] \/ k = current[t]
    OBVIOUS
  <2>. QED
    BY <2>1, <2>2 DEF TaskCovered, Covered
<1>6. CASE UpdateProgress(t)
  <2>1. CASE EndSync(t)
    BY <1>1, <2>1
  <2>2. CASE ~EndSync(t)
    <3>1. /\ pc[t] = "write" /\ pc'[t] = "index" /\ syncing' = syncing
          /\ indexed' = indexed /\ current'[t] = current[t] + 1
      BY <1>6, <2>2 DEF UpdateProgress, TypeOK
    <3>2. \A k \in Nat : k < current[t] + 1 => k <= current[t]
      OBVIOUS
    <3>. QED
      BY <3>1, <3>2 DEF TaskCovered, Covered
  <2>. QED
    BY <2>1, <2>2
<1>. QED
  BY <1>2, <1>3, <1>4, <1>5, <1>6 DEF Step

LEMMA BeginCovered ==
  ASSUME SyncAssumption, TypeOK, NEW t \in Task, NEW c \in Chain, NEW b \in Nat,
         b <= StartBlock[c], BeginSync(t, c, b)
  PROVE  TaskCovered(t)'
<1>1. pc'[t] = "read" /\ syncing'[t] = c /\ start'[t] = b
  BY DEF BeginSync, TypeOK
<1>. QED
  BY <1>1 DEF TaskCovered

LEMMA IdleCovered ==
  ASSUME TypeOK, NEW t \in Task,
         SyncFails(t) \/ Crash(t) \/ TipFails(t) \/ UpdateState(t)
  PROVE  TaskCovered(t)'
<1>1. pc'[t] \in {"state", "idle"}
  BY DEF SyncFails, Crash, TipFails, UpdateState, EndSync, Goto, TypeOK
<1>. QED
  BY <1>1 DEF TaskCovered

LEMMA NextTasksCovered ==
  ASSUME SyncAssumption, SyncInv, EarlyOverrides, [SyncNext]_syncVars, NEW u \in Task
  PROVE  TaskCovered(u)'
<1>. USE DEF SyncInv, Task
<1>. DEFINE Move(t) ==
       \/ Step(t) \/ SyncFails(t) \/ Crash(t)
       \/ TipFails(t) \/ UpdateState(t) \/ Tick(t)
       \/ \E c \in Chain, b \in Nat : Sync(t, c, b) \/ Reindex(t, c, b)
<1>1. CASE UNCHANGED task
  BY <1>1, TaskStays DEF task
<1>2. ASSUME NEW t \in Task, Move(t), t # u PROVE TaskCovered(u)'
  BY <1>2, OthersStay, TaskStays
<1>3. ASSUME Step(u) \/ SyncFails(u) \/ Crash(u) PROVE TaskCovered(u)'
  BY <1>3, MoverCovered, IdleCovered
<1>4. ASSUME NEW d \in Daemon, TipFails(d) \/ UpdateState(d) \/ Tick(d)
      PROVE  TaskCovered(u)'
  <2>1. CASE d # u
    BY <1>2, <1>4, <2>1
  <2>2. CASE d = u /\ Tick(d)
    <3>1. ChainOf[d] \in Chain /\ StartBlock[ChainOf[d]] \in Nat
      BY DEF SyncAssumption
    <3>. QED
      BY <2>2, <3>1, BeginCovered DEF Tick
  <2>3. CASE d = u /\ ~Tick(d)
    BY <1>4, <2>3, IdleCovered
  <2>. QED
    BY <2>1, <2>2, <2>3
<1>5. ASSUME NEW o \in Operator, NEW c \in Chain, NEW b \in Nat, b <= StartBlock[c],
             Sync(o, c, b) \/ Reindex(o, c, b)
      PROVE  TaskCovered(u)'
  <2>1. CASE o # u
    BY <1>2, <1>5, <2>1
  <2>2. CASE o = u
    BY <1>5, <2>2, BeginCovered DEF Sync, Reindex
  <2>. QED
    BY <2>1, <2>2
<1>6. ASSUME NEW o \in Operator, NEW c \in Chain,
             \/ Sync(o, c, StartBlock[c])
             \/ \E b \in Override : Sync(o, c, b) \/ Reindex(o, c, b)
      PROVE  TaskCovered(u)'
  <2>1. /\ StartBlock[c] \in Nat /\ StartBlock[c] <= StartBlock[c]
        /\ \A b \in Override : b \in Nat /\ b <= StartBlock[c]
    BY DEF SyncAssumption, EarlyOverrides
  <2>. QED
    BY <1>5, <1>6, <2>1
<1>7. CASE (\E c \in Chain : NewBlock(c)) \/ ResetAll \/ UNCHANGED syncVars
  BY <1>1, <1>7 DEF NewBlock, ResetAll, syncVars
<1>8. ASSUME NEW t \in Task, Step(t) \/ SyncFails(t) \/ Crash(t)
      PROVE  TaskCovered(u)'
  BY <1>2, <1>3, <1>8
<1>. QED
  BY <1>4, <1>6, <1>7, <1>8 DEF SyncNext, DaemonStep

LEMMA NextProgressCovered ==
  ASSUME SyncAssumption, SyncInv, EarlyOverrides, [SyncNext]_syncVars, NEW c \in Chain
  PROVE  ProgressCovered(c)'
<1>. USE DEF SyncInv
<1>1. \/ UNCHANGED progress
      \/ \E d \in Chain : progress' = [progress EXCEPT ![d] = NoProgress]
      \/ progress' = [d \in Chain |-> NoProgress]
      \/ \E t \in Task : UpdateProgress(t)
  BY DEF SyncNext, NewBlock, Sync, Reindex, ResetAll, Step, DaemonStep, Tick,
         ReadProgress, NothingToSync, BeginBatch, IndexBlock, UpdateState,
         TipFails, SyncFails, Crash, syncVars, Task
<1>2. CASE progress'[c] = progress[c]
  BY <1>2, CoveredStays DEF ProgressCovered
<1>3. CASE progress'[c] = NoProgress
  BY <1>3 DEF ProgressCovered
<1>4. ASSUME NEW t \in Task, UpdateProgress(t) PROVE ProgressCovered(c)'
  <2>1. CASE syncing[t] = c
    <3>1. Covered(c, current[t])
      BY <1>4, <2>1 DEF UpdateProgress, TaskCovered
    <3>2. progress'[c] = current[t]
      BY <1>4, <2>1 DEF UpdateProgress, TypeOK
    <3>. QED
      BY <3>1, <3>2, CoveredStays DEF ProgressCovered
  <2>2. CASE syncing[t] # c
    BY <1>2, <1>4, <2>2 DEF UpdateProgress, TypeOK
  <2>. QED
    BY <2>1, <2>2
<1>. QED
  BY <1>1, <1>2, <1>3, <1>4 DEF TypeOK

LEMMA NextSyncInv ==
  ASSUME SyncAssumption, SyncInv, [SyncNext]_syncVars
  PROVE  SyncInv'
<1>1. TypeOK'
  BY NextSyncTypes DEF SyncInv
<1>2. EarlyOverrides' = EarlyOverrides
  BY DEF EarlyOverrides
<1>. QED
  BY <1>1, <1>2, NextTasksCovered, NextProgressCovered DEF SyncInv

-----------------------------------------------------------------------------
(* The variables of ChainSync keep their types.                            *)
THEOREM SyncTypeCorrect == SyncSpec => []TypeOK
<1>1. SyncInit => TypeOK
  BY InitSyncInv, SyncAssumption DEF SyncInv
<1>2. TypeOK /\ [SyncNext]_syncVars => TypeOK'
  BY NextSyncTypes, SyncAssumption
<1>. QED
  BY <1>1, <1>2, PTL DEF SyncSpec

(* No interleaving of daemons, commands, resets, failures and crashes makes *)
(* a chain's sync_progress claim a block above its configured start that   *)
(* was not indexed.                                                        *)
THEOREM SyncNoSkippedBlock == SyncSpec => []NoSkippedBlock
<1>1. SyncInit => SyncInv
  BY InitSyncInv, SyncAssumption
<1>2. SyncInv /\ [SyncNext]_syncVars => SyncInv'
  BY NextSyncInv, SyncAssumption
<1>3. SyncInv => NoSkippedBlock
  <2>1. SUFFICES ASSUME SyncInv, EarlyOverrides, NEW c \in Chain,
                        progress[c] # NoProgress,
                        NEW k \in (StartBlock[c] + 1)..progress[c]
                 PROVE  k \in indexed[c]
    BY DEF NoSkippedBlock, EarlyOverrides
  <2>2. progress[c] \in Nat /\ StartBlock[c] \in Nat
    BY <2>1, SyncAssumption DEF SyncInv, TypeOK, SyncAssumption
  <2>3. k \in Nat /\ StartBlock[c] < k /\ k <= progress[c]
    BY <2>2
  <2>. QED
    BY <2>1, <2>3 DEF SyncInv, ProgressCovered, Covered
<1>. QED
  BY <1>1, <1>2, <1>3, PTL DEF SyncSpec
=============================================================================
