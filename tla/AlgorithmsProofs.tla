--------------------------- MODULE AlgorithmsProofs ---------------------------
(***************************************************************************)
(* The functions without state: what one transaction does to one color,    *)
(* for all amounts, and what the rows of a chain tell, for every chain.    *)
(***************************************************************************)
EXTENDS MCAlgorithms, FiniteSetTheorems, TLAPS

-----------------------------------------------------------------------------
(* ColoredHistory                                                           *)

\* The value that the rows of a transaction have for a kind.
Part(infos, kind) ==
  IF \E i \in infos : i.kind = kind THEN (CHOOSE i \in infos : i.kind = kind).value ELSE 0

\* When there is one row of a kind, Part is its value.
LEMMA PartOfOne ==
  ASSUME NEW infos, NEW i \in infos, \A j \in infos : j.kind = i.kind => j = i
  PROVE  Part(infos, i.kind) = i.value
  BY DEF Part

\* When there is none, it is 0.
LEMMA PartOfNone ==
  ASSUME NEW infos, NEW kind, \A j \in infos : j.kind # kind
  PROVE  Part(infos, kind) = 0
  BY DEF Part

\* The rows that create_history_info() writes for a transaction that spends `prevAmount'
\* of a color and creates `amount' balance: what is spent and issued is what is created
\* and burned, and the rest is transferred.  No kind has two rows, and a row is without
\* value only if the transaction moves no value of the color at all.
THEOREM InfoBalances ==
  ASSUME NEW prevAmount \in Nat, NEW amount \in Nat,
         NEW infos, infos = CreateHistoryInfo(prevAmount, amount)
  PROVE  /\ \A i, j \in infos : i.kind = j.kind => i = j
         /\ prevAmount + Part(infos, "issuing") = amount + Part(infos, "burning")
         /\ Part(infos, "transferring") = IF prevAmount < amount THEN prevAmount ELSE amount
         /\ \A i \in infos : i.value > 0 \/ (prevAmount = 0 /\ amount = 0)
<1> DEFINE transferring(value) == Info("transferring", value)
<1>1. CASE amount > prevAmount
  <2> DEFINE issuing == Info("issuing", amount - prevAmount)
  <2>1. infos = {issuing} \cup (IF prevAmount > 0 THEN {transferring(prevAmount)} ELSE {})
    BY <1>1 DEF CreateHistoryInfo
  <2>2. /\ issuing.kind = "issuing" /\ issuing.value = amount - prevAmount
        /\ transferring(prevAmount).kind = "transferring" /\ transferring(prevAmount).value = prevAmount
    BY DEF Info
  <2> HIDE DEF issuing, transferring
  <2>3. \A i, j \in infos : i.kind = j.kind => i = j
    BY <2>1, <2>2
  <2>4. Part(infos, "issuing") = amount - prevAmount
    BY <2>1, <2>2, <2>3, PartOfOne
  <2>5. Part(infos, "burning") = 0
    BY <2>1, <2>2, PartOfNone
  <2>6. Part(infos, "transferring") = prevAmount
    <3>1. CASE prevAmount > 0
      BY <3>1, <2>1, <2>2, <2>3, PartOfOne
    <3>2. CASE prevAmount = 0
      BY <3>2, <2>1, <2>2, PartOfNone
    <3> QED BY <3>1, <3>2
  <2>7. \A i \in infos : i.value > 0
    BY <1>1, <2>1, <2>2
  <2> QED BY <1>1, <2>3, <2>4, <2>5, <2>6, <2>7
<1>2. CASE amount = prevAmount
  <2>1. infos = {transferring(amount)}
    BY <1>2 DEF CreateHistoryInfo
  <2>2. transferring(amount).kind = "transferring" /\ transferring(amount).value = amount
    BY DEF Info
  <2> HIDE DEF transferring
  <2>3. Part(infos, "issuing") = 0 /\ Part(infos, "burning") = 0
    BY <2>1, <2>2, PartOfNone
  <2>4. Part(infos, "transferring") = amount
    BY <2>1, <2>2, PartOfOne
  <2> QED BY <1>2, <2>1, <2>2, <2>3, <2>4
<1>3. CASE amount < prevAmount
  <2> DEFINE burning == Info("burning", prevAmount - amount)
  <2>1. infos = {burning} \cup (IF amount > 0 THEN {transferring(amount)} ELSE {})
    BY <1>3 DEF CreateHistoryInfo
  <2>2. /\ burning.kind = "burning" /\ burning.value = prevAmount - amount
        /\ transferring(amount).kind = "transferring" /\ transferring(amount).value = amount
    BY DEF Info
  <2> HIDE DEF burning, transferring
  <2>3. \A i, j \in infos : i.kind = j.kind => i = j
    BY <2>1, <2>2
  <2>4. Part(infos, "burning") = prevAmount - amount
    BY <2>1, <2>2, <2>3, PartOfOne
  <2>5. Part(infos, "issuing") = 0
    BY <2>1, <2>2, PartOfNone
  <2>6. Part(infos, "transferring") = amount
    <3>1. CASE amount > 0
      BY <3>1, <2>1, <2>2, <2>3, PartOfOne
    <3>2. CASE amount = 0
      BY <3>2, <2>1, <2>2, PartOfNone
    <3> QED BY <3>1, <3>2
  <2>7. \A i \in infos : i.value > 0
    BY <1>3, <2>1, <2>2
  <2> QED BY <1>3, <2>3, <2>4, <2>5, <2>6, <2>7
<1> QED BY <1>1, <1>2, <1>3

-----------------------------------------------------------------------------
(* Merkle and FeeHistogram: one turn of the loop                            *)

\* Halves of even and odd numbers
LEMMA Halves ==
  ASSUME NEW n \in Nat
  PROVE  /\ n \div 2 \in Nat /\ n % 2 \in {0, 1} /\ n = (2 * (n \div 2)) + (n % 2)
         /\ \A q \in Nat : n = 2 * q \/ n = 2 * q + 1 => n \div 2 = q
<1>1. n \div 2 \in Nat /\ n % 2 \in {0, 1} /\ n = (2 * (n \div 2)) + (n % 2)
  OBVIOUS
<1>2. ASSUME NEW q \in Nat, n = 2 * q \/ n = 2 * q + 1
      PROVE  n \div 2 = q
  BY <1>2
<1> QED BY <1>1, <1>2

\* One turn of create_merkle_branch_and_root(), for a level of any size above one: the
\* next level is smaller, the index is of a node in it, and that node is what a client
\* makes of the node at the index before and of the hash that the turn adds to the
\* branch, on the side that the index tells.  So does the index of the next turn.
THEOREM TurnProves ==
  ASSUME NEW H, NEW hashes \in Seq(H), Len(hashes) > 1, NEW index \in 0 .. Len(hashes) - 1, NEW merkle \in Seq(H)
  PROVE  LET next == NextLevel([hashes |-> hashes, index |-> index, merkle |-> merkle])
             node == hashes[index + 1]
             other == next.merkle[Len(merkle) + 1]
         IN  /\ Len(next.hashes) < Len(hashes) /\ Len(next.hashes) = (Len(hashes) + 1) \div 2
             /\ next.index \in 0 .. Len(next.hashes) - 1 /\ next.index = index \div 2
             /\ next.merkle \in Seq(H) /\ Len(next.merkle) = Len(merkle) + 1
             /\ \A i \in DOMAIN merkle : next.merkle[i] = merkle[i]
             /\ next.hashes[next.index + 1]
                  = IF index % 2 = 0 THEN merklize(node, other) ELSE merklize(other, node)
<1> DEFINE n == Len(hashes)
           level == Padded(hashes)
           s == [hashes |-> hashes, index |-> index, merkle |-> merkle]
           next == NextLevel(s)
           half == Len(level) \div 2
           sib == Sibling(index)
<1>1. n \in Nat /\ n > 1 /\ index \in Nat /\ index < n
  OBVIOUS
<1>2. /\ level \in Seq(H) /\ Len(level) = (IF n % 2 = 1 THEN n + 1 ELSE n)
      /\ \A i \in 1 .. n : level[i] = hashes[i]
  <2>1. CASE n % 2 = 1
    <3>1. level = Append(hashes, hashes[n]) /\ hashes[n] \in H
      BY <2>1, <1>1 DEF Padded
    <3> QED BY <3>1, <2>1
  <2>2. CASE n % 2 # 1
    BY <2>2 DEF Padded
  <2> QED BY <2>1, <2>2
<1> HIDE DEF level
<1>3. half = (n + 1) \div 2 /\ 2 * half = Len(level) /\ half \in Nat /\ half < n
  <2>1. PICK q \in Nat : n = 2 * q \/ n = 2 * q + 1
    <3> DEFINE q == n \div 2
               rest == n % 2
    <3>1. n \in Nat
      BY <1>1
    <3>2. q \in Nat /\ rest \in {0, 1} /\ n = 2 * q + rest
      BY <3>1, Halves
    <3> HIDE DEF q, rest, n
    <3>3. n = 2 * q \/ n = 2 * q + 1
      BY <3>2
    <3> QED BY <3>2, <3>3
  <2>2. CASE n = 2 * q
    <3>1. n % 2 = 0 /\ Len(level) = 2 * q
      BY <2>2, <1>1, <1>2
    <3>2. half = q /\ (n + 1) \div 2 = q
      BY <2>2, <3>1, Halves
    <3> QED BY <1>1, <2>2, <3>1, <3>2
  <2>3. CASE n = 2 * q + 1
    <3>1. n % 2 = 1 /\ Len(level) = 2 * (q + 1)
      BY <2>3, <1>1, <1>2
    <3>2. half = q + 1 /\ (n + 1) \div 2 = q + 1
      BY <2>3, <3>1, Halves
    <3> QED BY <1>1, <2>3, <3>1, <3>2
  <2> QED BY <2>1, <2>2, <2>3
<1>4. /\ sib = (IF index % 2 = 0 THEN index + 1 ELSE index - 1)
      /\ sib \in Nat /\ sib + 1 \in 1 .. Len(level) /\ sib \div 2 = index \div 2
      /\ index \div 2 \in 0 .. half - 1
  <2>1. sib = (IF index % 2 = 0 THEN index + 1 ELSE index - 1)
    BY DEF Sibling
  <2> HIDE DEF sib, half
  <2>2. n <= 2 * half /\ 2 * half = Len(level) /\ half \in Nat
    BY <1>1, <1>2, <1>3
  <2>3. PICK q \in Nat : q = index \div 2 /\ (index = 2 * q \/ index = 2 * q + 1)
    BY <1>1, Halves
  <2>4. CASE index = 2 * q
    <3>1. sib = index + 1
      BY <2>1, <2>4
    <3>2. sib \div 2 = q
      BY <2>4, <3>1, Halves
    <3> QED BY <1>1, <2>1, <2>2, <2>3, <2>4, <3>1, <3>2
  <2>5. CASE index = 2 * q + 1
    <3>1. sib = index - 1 /\ index % 2 = 1
      BY <2>1, <2>5
    <3>2. sib \div 2 = q
      BY <2>5, <3>1, Halves
    <3> QED BY <1>1, <2>1, <2>2, <2>3, <2>5, <3>1, <3>2
  <2> QED BY <2>3, <2>4, <2>5
<1>5. next = [hashes |-> [i \in 1 .. half |-> merklize(level[2 * i - 1], level[2 * i])],
              index  |-> sib \div 2,
              merkle |-> Append(merkle, level[sib + 1])]
  BY DEF NextLevel, level
<1> HIDE DEF next, half, sib
<1>6. /\ next.index = index \div 2 /\ next.merkle = Append(merkle, level[sib + 1])
      /\ next.hashes = [i \in 1 .. half |-> merklize(level[2 * i - 1], level[2 * i])]
  BY <1>4, <1>5
<1>7. level[sib + 1] \in H
  BY <1>2, <1>4
<1>8. /\ next.merkle \in Seq(H) /\ Len(next.merkle) = Len(merkle) + 1
      /\ next.merkle[Len(merkle) + 1] = level[sib + 1]
      /\ \A i \in DOMAIN merkle : next.merkle[i] = merkle[i]
  BY <1>6, <1>7
<1>9. Len(next.hashes) = half
  BY <1>3, <1>6
<1>10. next.hashes[next.index + 1]
         = IF index % 2 = 0 THEN merklize(hashes[index + 1], level[sib + 1])
                            ELSE merklize(level[sib + 1], hashes[index + 1])
  <2> DEFINE i == index \div 2 + 1
  <2>1. next.hashes[next.index + 1] = merklize(level[2 * i - 1], level[2 * i])
    BY <1>3, <1>4, <1>6
  <2>2. CASE index % 2 = 0
    <3>1. 2 * i - 1 = index + 1 /\ 2 * i = sib + 1
      BY <2>2, <1>1, <1>4
    <3>2. level[index + 1] = hashes[index + 1]
      BY <1>1, <1>2
    <3> QED BY <2>1, <2>2, <3>1, <3>2
  <2>3. CASE index % 2 # 0
    <3>1. 2 * i - 1 = sib + 1 /\ 2 * i = index + 1
      BY <2>3, <1>1, <1>4
    <3>2. level[index + 1] = hashes[index + 1]
      BY <1>1, <1>2
    <3> QED BY <2>1, <2>3, <3>1, <3>2
  <2> QED BY <2>2, <2>3
<1>11. /\ half < n /\ half = (n + 1) \div 2 /\ index \div 2 \in 0 .. half - 1
  BY <1>3, <1>4
<1>12. /\ Len(next.hashes) < n /\ Len(next.hashes) = (n + 1) \div 2
       /\ next.index \in 0 .. Len(next.hashes) - 1 /\ next.index = index \div 2
  BY <1>6, <1>9, <1>11
<1> QED BY <1>8, <1>10, <1>12 DEF next

Bins == [rate : Nat, vsize : Nat]

LEMMA BinsTyped ==
  ASSUME NEW bins \in Seq(Bins), NEW k \in DOMAIN bins
  PROVE  bins[k].rate \in Nat
<1>1. bins[k] \in Bins
  OBVIOUS
<1> QED BY <1>1 DEF Bins

\* The loop of make_fee_histogram() before a transaction: rates of bins fall, to above
\* that of the bin which is not full, and every bin is wider than the width.
Falling(h) ==
  /\ h.bins \in Seq(Bins) /\ h.binSize \in Nat /\ h.lastFeeRate \in Nat
  /\ \A k, l \in DOMAIN h.bins : k < l => h.bins[k].rate > h.bins[l].rate
  /\ \A k \in DOMAIN h.bins : h.bins[k].rate > h.lastFeeRate /\ h.bins[k].vsize > VsizeBinWidth

\* One turn of make_fee_histogram(), with a transaction that pays at most what the last
\* one paid, or with the first: no rate gets into two bins, however small the bins are.
THEOREM RatesFall ==
  ASSUME NEW h, Falling(h), NEW e, e.rate \in Nat, e.vsize \in Nat,
         h = Empty \/ e.rate <= h.lastFeeRate
  PROVE  Falling(AddEntry(h, e))
<1> DEFINE g == AddEntry(h, e)
           bin == [rate |-> h.lastFeeRate, vsize |-> h.binSize]
<1>1. /\ h.bins \in Seq(Bins) /\ h.binSize \in Nat /\ h.lastFeeRate \in Nat /\ VsizeBinWidth \in Nat
      /\ \A k, l \in DOMAIN h.bins : k < l => h.bins[k].rate > h.bins[l].rate
      /\ \A k \in DOMAIN h.bins : h.bins[k].rate > h.lastFeeRate /\ h.bins[k].vsize > VsizeBinWidth
  BY BinWidthAssumption DEF Falling
<1>2. /\ g.bins = (IF Full(h, e) THEN Append(h.bins, bin) ELSE h.bins)
      /\ g.binSize = (IF Full(h, e) THEN 0 ELSE h.binSize) + e.vsize
      /\ g.lastFeeRate = e.rate
  BY DEF AddEntry
<1> HIDE DEF g
<1>3. CASE Full(h, e)
  <2>1. h.binSize > VsizeBinWidth /\ e.rate # h.lastFeeRate
    BY <1>3 DEF Full
  <2>2. e.rate < h.lastFeeRate
    BY <1>1, <2>1 DEF Empty
  <2>3. bin \in Bins /\ bin.rate = h.lastFeeRate /\ bin.vsize = h.binSize
    BY <1>1 DEF Bins
  <2> HIDE DEF bin
  <2>4. /\ g.bins \in Seq(Bins) /\ DOMAIN g.bins = 1 .. Len(h.bins) + 1 /\ Len(h.bins) \in Nat
        /\ \A k \in DOMAIN h.bins : g.bins[k] = h.bins[k]
        /\ g.bins[Len(h.bins) + 1] = bin /\ DOMAIN h.bins = 1 .. Len(h.bins)
    BY <1>1, <1>2, <1>3, <2>3
  <2>5. \A k \in DOMAIN g.bins : k = Len(h.bins) + 1 \/ k \in DOMAIN h.bins
    BY <2>4
  <2>6. \A k \in DOMAIN h.bins : h.bins[k].rate \in Nat
    BY <1>1, BinsTyped
  <2>7. ASSUME NEW k \in DOMAIN g.bins
        PROVE  g.bins[k].rate > e.rate /\ g.bins[k].vsize > VsizeBinWidth
    <3>1. CASE k = Len(h.bins) + 1
      <4>1. g.bins[k] = bin
        BY <3>1, <2>4
      <4>2. bin.rate > e.rate /\ bin.vsize > VsizeBinWidth
        BY <1>1, <2>1, <2>2, <2>3
      <4> QED BY <4>1, <4>2
    <3>2. CASE k \in DOMAIN h.bins
      <4>1. g.bins[k] = h.bins[k] /\ h.bins[k].rate \in Nat
        BY <3>2, <2>4, <2>6
      <4>2. h.bins[k].rate > h.lastFeeRate /\ h.bins[k].vsize > VsizeBinWidth
        BY <3>2, <1>1
      <4>3. h.bins[k].rate > e.rate
        BY <4>1, <4>2, <1>1, <2>2
      <4> QED BY <4>1, <4>2, <4>3
    <3> QED BY <3>1, <3>2, <2>5
  <2>8. ASSUME NEW k \in DOMAIN g.bins, NEW l \in DOMAIN g.bins, k < l
        PROVE  g.bins[k].rate > g.bins[l].rate
    <3>1. k \in DOMAIN h.bins
      BY <2>4, <2>5, <2>8
    <3>2. CASE l \in DOMAIN h.bins
      BY <3>1, <3>2, <1>1, <2>4, <2>8
    <3>3. CASE l = Len(h.bins) + 1
      BY <3>1, <3>3, <1>1, <2>3, <2>4
    <3> QED BY <3>2, <3>3, <2>5
  <2>9. g.binSize \in Nat
    BY <1>2, <1>3
  <2> QED BY <1>2, <2>4, <2>7, <2>8, <2>9 DEF Falling, g
<1>4. CASE ~Full(h, e)
  <2>1. g.bins = h.bins /\ g.binSize = h.binSize + e.vsize
    BY <1>2, <1>4
  <2>2. \A k \in DOMAIN h.bins : h.bins[k].rate > e.rate
    <3>1. CASE h = Empty
      BY <3>1 DEF Empty
    <3>2. CASE e.rate <= h.lastFeeRate
      <4>1. \A k \in DOMAIN h.bins : h.bins[k].rate \in Nat
        BY <1>1, BinsTyped
      <4> QED BY <3>2, <4>1, <1>1
    <3> QED BY <3>1, <3>2
  <2>3. g.binSize \in Nat
    BY <1>1, <2>1
  <2>4. Falling(g)
    BY <1>1, <1>2, <2>1, <2>2, <2>3 DEF Falling
  <2> QED BY <2>4 DEF g
<1> QED BY <1>3, <1>4

-----------------------------------------------------------------------------
(* Rows: the chains that the runs build                                     *)

\* SetToSeq is a sequence of the set's elements.
LEMMA SeqOfSet ==
  ASSUME NEW S, IsFiniteSet(S)
  PROVE  SetToSeq(S) \in Seq(S)
<1>1. Cardinality(S) \in Nat /\ ExistsBijection(1 .. Cardinality(S), S)
  BY FS_CardinalityType
<1>2. \E f \in [1 .. Cardinality(S) -> S] : IsInjective(f)
  BY <1>1 DEF ExistsBijection, Bijection, Injection
<1>3. SetToSeq(S) \in [1 .. Cardinality(S) -> S]
  BY <1>2 DEF SetToSeq
<1> QED BY <1>1, <1>3

Transactions == [ins : Seq(Nat \X Nat), outs : Seq(Scripts), height : Nat]

\* The input of a transaction: of a coinbase, or an output of an earlier transaction that
\* can be spent.
Sound(o, t) ==
  \/ o = NoPrevout
  \/ o \in Outpoints /\ o[1] < t /\ ScriptOf(o) \notin Unspendable

Typed == items \in Seq(Transactions) /\ IsFiniteSet(Outpoints)
Rising == \A t, u \in DOMAIN items : t <= u => items[t].height <= items[u].height
Levels == \A h \in Nat : \E n \in 0 .. Len(items) : Below(h) = 1 .. n
Funded == \A t \in DOMAIN items : \A k \in DOMAIN items[t].ins : Sound(items[t].ins[k], t)

\* The items are a chain: heights never fall, so the transactions below a height are the
\* first ones, and inputs come after the outputs that they spend.
Chain == about = "rows" => Typed /\ Rising /\ Levels /\ Funded

\* Every chain is one after another transaction.
LEMMA GrownChain ==
  ASSUME Chain, GrowRows
  PROVE  Chain'
<1> DEFINE n == Len(items)
           height == IF items = <<>> THEN 0 ELSE Last(items).height
           ins(S) == IF S = {} THEN <<NoPrevout>> ELSE SetToSeq(S)
           spendable == {o \in Unspent : ScriptOf(o) \notin Unspendable}
<1>1. about = "rows" /\ about' = about /\ Typed /\ Rising /\ Levels /\ Funded
  BY DEF GrowRows, Grow, Chain
<1>2. PICK x \in [ins : {ins(S) : S \in SUBSET spendable},
                  outs : {<<"plain">>, <<"colored">>, <<"colored", "return", "plain">>},
                  height : {height, height + 1}] : items' = Append(items, x)
  BY DEF GrowRows, Grow
<1>3. n \in Nat /\ items \in Seq(Transactions) /\ DOMAIN items = 1 .. n
  BY <1>1 DEF Typed
<1>4. /\ height \in Nat
      /\ \A t \in DOMAIN items : items[t].height \in Nat /\ items[t].height <= height
  <2>1. CASE items = <<>>
    BY <2>1, <1>3
  <2>2. CASE items # <<>>
    <3>1. n \in DOMAIN items /\ height = items[n].height
      BY <2>2, <1>3 DEF Last
    <3>2. ASSUME NEW t \in DOMAIN items PROVE items[t].height \in Nat
      <4>1. items[t] \in Transactions
        BY <1>3
      <4> QED BY <4>1 DEF Transactions
    <3> QED BY <3>1, <3>2, <1>1, <1>3 DEF Rising
  <2> QED BY <2>1, <2>2
<1>5. PICK S \in SUBSET spendable : x.ins = ins(S)
  BY <1>2
<1>6. /\ x.outs \in Seq(Scripts) /\ DOMAIN x.outs \in SUBSET (1 .. 3)
      /\ x.height \in Nat /\ height <= x.height
  <2>1. x.outs \in {<<"plain">>, <<"colored">>, <<"colored", "return", "plain">>}
    BY <1>2
  <2>2. x.height \in {height, height + 1}
    BY <1>2
  <2>3. x.outs \in Seq(Scripts) /\ DOMAIN x.outs \in SUBSET (1 .. 3)
    <3>1. CASE x.outs = <<"plain">>
      BY <3>1 DEF Scripts
    <3>2. CASE x.outs = <<"colored">>
      BY <3>2 DEF Scripts
    <3>3. CASE x.outs = <<"colored", "return", "plain">>
      BY <3>3 DEF Scripts
    <3> QED BY <2>1, <3>1, <3>2, <3>3
  <2> QED BY <2>2, <2>3, <1>4
<1> HIDE DEF height
<1>7. /\ S \subseteq Nat \X Nat /\ IsFiniteSet(S) /\ S \subseteq Outpoints
      /\ \A o \in S : Sound(o, n + 1)
  <2>1. S \subseteq Outpoints /\ \A o \in S : ScriptOf(o) \notin Unspendable
    BY <1>5 DEF Unspent
  <2>2. \A o \in Outpoints : o \in Nat \X Nat /\ o[1] < n + 1
    <3> SUFFICES ASSUME NEW t \in DOMAIN items, NEW i \in DOMAIN items[t].outs
                 PROVE  <<t, i - 1>> \in Nat \X Nat /\ t < n + 1
      BY DEF Outpoints
    <3>1. items[t].outs \in Seq(Scripts)
      <4>1. items[t] \in Transactions
        BY <1>3
      <4> QED BY <4>1 DEF Transactions
    <3>2. i \in Nat \ {0}
      BY <3>1
    <3> QED BY <3>2, <1>3
  <2>3. IsFiniteSet(S)
    BY <2>1, <1>1, FS_Subset DEF Typed
  <2> QED BY <2>1, <2>2, <2>3 DEF Sound
<1>8. x.ins \in Seq(Nat \X Nat) /\ \A k \in DOMAIN x.ins : Sound(x.ins[k], n + 1)
  <2>1. CASE S = {}
    BY <2>1, <1>5 DEF Sound, NoPrevout
  <2>2. CASE S # {}
    <3>1. x.ins = SetToSeq(S) /\ x.ins \in Seq(S)
      BY <2>2, <1>5, <1>7, SeqOfSet
    <3> QED BY <3>1, <1>7
  <2> QED BY <2>1, <2>2
<1> HIDE DEF ins, spendable
<1>9. x \in Transactions
  <2>1. x = [ins |-> x.ins, outs |-> x.outs, height |-> x.height]
    BY <1>2
  <2> QED BY <2>1, <1>6, <1>8 DEF Transactions
<1>10. /\ items' \in Seq(Transactions) /\ Len(items') = n + 1 /\ DOMAIN items' = 1 .. n + 1
       /\ \A t \in 1 .. n : items'[t] = items[t]
       /\ items'[n + 1] = x
  BY <1>2, <1>3, <1>9
<1>11. /\ Outpoints \subseteq Outpoints'
       /\ Outpoints' \subseteq Outpoints \cup {<<n + 1, 0>>} \cup {<<n + 1, 1>>} \cup {<<n + 1, 2>>}
       /\ \A o \in Outpoints : ScriptOf(o)' = ScriptOf(o)
  <2>1. Outpoints \subseteq Outpoints'
    BY <1>3, <1>10 DEF Outpoints
  <2>2. ASSUME NEW t \in 1 .. n + 1, NEW i \in DOMAIN items'[t].outs
        PROVE  <<t, i - 1>> \in Outpoints \cup {<<n + 1, 0>>} \cup {<<n + 1, 1>>} \cup {<<n + 1, 2>>}
    <3>1. CASE t \in 1 .. n
      <4>1. t \in DOMAIN items /\ i \in DOMAIN items[t].outs
        BY <1>3, <1>10, <2>2, <3>1
      <4>2. <<t, i - 1>> \in Outpoints
        BY <4>1 DEF Outpoints
      <4> QED BY <4>2
    <3>2. CASE t = n + 1
      <4>1. i \in 1 .. 3
        BY <3>2, <2>2, <1>6, <1>10
      <4>2. i = 1 \/ i = 2 \/ i = 3
        BY <4>1
      <4> QED BY <3>2, <4>2
    <3> QED BY <3>1, <3>2, <1>3
  <2>3. \A o \in Outpoints : ScriptOf(o)' = ScriptOf(o)
    BY <1>3, <1>10 DEF Outpoints, ScriptOf
  <2> QED BY <2>1, <2>2, <2>3, <1>10 DEF Outpoints
<1>12. Typed'
  <2>1. IsFiniteSet(Outpoints \cup {<<n + 1, 0>>} \cup {<<n + 1, 1>>} \cup {<<n + 1, 2>>})
    <3>1. \A T, o : IsFiniteSet(T) => IsFiniteSet(T \cup {o})
      BY FS_AddElement
    <3>2. IsFiniteSet(Outpoints)
      BY <1>1 DEF Typed
    <3> QED BY ONLY <3>1, <3>2, Zenon
  <2>2. IsFiniteSet(Outpoints')
    BY <2>1, <1>11, FS_Subset
  <2> QED BY <2>2, <1>10 DEF Typed
<1>13. Rising'
  <2> SUFFICES ASSUME NEW t \in 1 .. n + 1, NEW u \in 1 .. n + 1, t <= u
               PROVE  items'[t].height <= items'[u].height
    BY <1>10 DEF Rising
  <2>1. CASE u \in 1 .. n
    <3>1. t \in 1 .. n
      BY <1>3, <2>1
    <3>2. items'[t] = items[t] /\ items'[u] = items[u]
      BY <1>10, <2>1, <3>1
    <3> QED BY <1>1, <1>3, <2>1, <3>1, <3>2 DEF Rising
  <2>2. CASE u = n + 1 /\ t \in 1 .. n
    <3>1. items'[t] = items[t] /\ items'[u] = x
      BY <1>10, <2>2
    <3>2. items[t].height \in Nat /\ items[t].height <= height
      BY <1>3, <1>4, <2>2
    <3> QED BY <1>4, <1>6, <3>1, <3>2
  <2>3. CASE u = n + 1 /\ t = n + 1
    BY <1>6, <1>10, <2>3
  <2> QED BY <1>3, <2>1, <2>2, <2>3
<1>14. Levels'
  <2> SUFFICES ASSUME NEW h \in Nat
               PROVE  \E m \in 0 .. n + 1 : Below(h)' = 1 .. m
    BY <1>10 DEF Levels
  <2>1. CASE h <= x.height
    <3>1. PICK m \in 0 .. n : Below(h) = 1 .. m
      BY <1>1 DEF Levels
    <3>2. Below(h)' = Below(h)
      BY <2>1, <1>3, <1>6, <1>10 DEF Below
    <3> QED BY <3>1, <3>2, <1>3
  <2>2. CASE h > x.height
    <3>1. Below(h)' = 1 .. n + 1
      BY <2>2, <1>3, <1>4, <1>6, <1>10 DEF Below
    <3> QED BY <3>1, <1>3
  <2> QED BY <2>1, <2>2, <1>6
<1>15. Funded'
  <2>1. ASSUME NEW o, NEW t \in Nat, Sound(o, t)
        PROVE  Sound(o, t)'
    BY <2>1, <1>11 DEF Sound
  <2>2. ASSUME NEW t \in 1 .. n + 1, NEW k \in DOMAIN items'[t].ins
        PROVE  Sound(items'[t].ins[k], t)
    <3>1. CASE t \in 1 .. n
      BY <3>1, <1>1, <1>3, <1>10 DEF Funded
    <3>2. CASE t = n + 1
      BY <3>2, <1>8, <1>10
    <3> QED BY <3>1, <3>2, <1>3
  <2> QED BY <2>1, <2>2, <1>3, <1>10 DEF Funded
<1> QED BY <1>12, <1>13, <1>14, <1>15 DEF Chain

\* The items are a chain in every state.
THEOREM ItemsAreChain == Spec => []Chain
<1>1. Init => Chain
  <2> SUFFICES ASSUME items = <<>> PROVE Typed /\ Rising /\ Levels /\ Funded
    BY DEF Init, Chain
  <2>1. Outpoints = {}
    BY DEF Outpoints
  <2>2. Typed
    BY <2>1, FS_EmptySet DEF Typed
  <2>3. \A h \in Nat : Below(h) = 1 .. 0
    BY DEF Below
  <2>4. DOMAIN items = {} /\ Len(items) = 0
    OBVIOUS
  <2>5. Rising /\ Funded
    BY <2>4 DEF Rising, Funded
  <2>6. Levels
    BY <2>3, <2>4 DEF Levels
  <2> QED BY <2>2, <2>5, <2>6
<1>2. Chain /\ [Next]_vars => Chain'
  <2> SUFFICES ASSUME Chain, [Next]_vars PROVE Chain'
    OBVIOUS
  <2>1. CASE GrowRows
    BY <2>1, GrownChain
  <2>2. CASE GrowHashes \/ GrowEntries \/ GrowAssets \/ GrowTxs \/ GrowWrites
    <3>1. about' # "rows"
      BY <2>2 DEF GrowHashes, GrowEntries, GrowAssets, GrowTxs, GrowWrites, Grow
    <3> QED BY <3>1 DEF Chain
  <2>3. CASE UNCHANGED vars
    <3>1. items' = items /\ about' = about
      BY <2>3 DEF vars
    <3>2. Typed' <=> Typed
      BY <3>1 DEF Typed, Outpoints
    <3>3. Rising' <=> Rising
      BY <3>1 DEF Rising
    <3>4. Levels' <=> Levels
      BY <3>1 DEF Levels, Below
    <3>5. Funded' <=> Funded
      BY <3>1 DEF Funded, Sound, Outpoints, ScriptOf
    <3> QED BY <3>1, <3>2, <3>3, <3>4, <3>5 DEF Chain
  <2> QED BY <2>1, <2>2, <2>3 DEF Next
<1> QED BY <1>1, <1>2, PTL DEF Spec
-----------------------------------------------------------------------------
(* Rows: what is written for a chain                                        *)

Linked == Typed /\ Rising /\ Levels /\ Funded
Narrow == \A t \in DOMAIN items : Len(items[t].outs) <= VoutLimit /\ Len(items[t].ins) <= VoutLimit

\* What a transaction of a chain is.
LEMMA TransactionsTyped ==
  ASSUME Linked, NEW t \in DOMAIN items
  PROVE  /\ t \in Nat \ {0} /\ items \in Seq(Transactions)
         /\ items[t].ins \in Seq(Nat \X Nat) /\ items[t].outs \in Seq(Scripts) /\ items[t].height \in Nat
         /\ DOMAIN items[t].ins = 1 .. Len(items[t].ins) /\ Len(items[t].ins) \in Nat
         /\ DOMAIN items[t].outs = 1 .. Len(items[t].outs) /\ Len(items[t].outs) \in Nat
<1>1. items \in Seq(Transactions)
  BY DEF Linked, Typed
<1>2. t \in Nat \ {0} /\ items[t] \in Transactions
  BY <1>1
<1>3. items[t].ins \in Seq(Nat \X Nat) /\ items[t].outs \in Seq(Scripts) /\ items[t].height \in Nat
  BY <1>2 DEF Transactions
<1> QED BY <1>1, <1>2, <1>3

\* An index below the limit is written as it is.
LEMMA NarrowIndex ==
  ASSUME NEW i \in Nat, i < VoutLimit
  PROVE  AsU16(i) = i
  BY RowsAssumption DEF AsU16

\* An outpoint is a transaction and an index within the limit; none is the one of a coinbase.
LEMMA OutpointsTyped ==
  ASSUME Linked, Narrow, NEW o \in Outpoints
  PROVE  /\ o = <<o[1], o[2]>> /\ o[1] \in DOMAIN items /\ o[2] \in Nat /\ o[2] + 1 \in DOMAIN items[o[1]].outs
         /\ AsU16(o[2]) = o[2] /\ o # NoPrevout /\ ScriptOf(o) \in Scripts
<1>1. PICK t \in DOMAIN items : \E i \in DOMAIN items[t].outs : o = <<t, i - 1>>
  BY DEF Outpoints
<1> PICK i \in DOMAIN items[t].outs : o = <<t, i - 1>>
  BY <1>1
<1>2. /\ t \in Nat \ {0} /\ i \in 1 .. Len(items[t].outs) /\ Len(items[t].outs) \in Nat
      /\ items[t].outs[i] \in Scripts
  BY TransactionsTyped
<1>3. o[1] = t /\ o[2] = i - 1 /\ o[2] + 1 = i
  BY <1>1, <1>2
<1>4. i - 1 \in Nat /\ i - 1 < VoutLimit
  BY <1>2, RowsAssumption DEF Narrow
<1>5. AsU16(i - 1) = i - 1
  BY <1>4, NarrowIndex
<1>6. o # NoPrevout
  BY <1>2, <1>3 DEF NoPrevout
<1> QED BY <1>1, <1>2, <1>3, <1>4, <1>5, <1>6 DEF ScriptOf

\* The scripts of a row that an output has
LEMMA ScriptsOfOutput ==
  ASSUME NEW script \in Scripts, NEW s \in Scripts
  PROVE  s \in ScriptsOf(script) <=> s \in {script, Inner[script]}
  BY RowsAssumption, ScriptsAssumption DEF ScriptsOf

\* The block of a height holds the transactions of that height.
LEMMA IdsOfHeight ==
  ASSUME Linked, NEW h \in Nat
  PROVE  /\ \A i \in DOMAIN IdsAt(h) : IdsAt(h)[i] \in DOMAIN items /\ items[IdsAt(h)[i]].height = h
         /\ \A t \in DOMAIN items : items[t].height = h => \E i \in DOMAIN IdsAt(h) : IdsAt(h)[i] = t
<1>1. PICK m \in 0 .. Len(items) : Below(h) = 1 .. m
  BY DEF Linked, Levels
<1>2. PICK n \in 0 .. Len(items) : Below(h + 1) = 1 .. n
  BY DEF Linked, Levels
<1>3. Len(items) \in Nat /\ m \in Nat /\ n \in Nat
  BY DEF Linked, Typed
<1>4. Cardinality(Below(h)) = m /\ Cardinality(Below(h + 1)) = n
  <2>1. ASSUME NEW j \in Nat PROVE Cardinality(1 .. j) = j
    <3>1. 1 \in Int /\ j \in Int
      OBVIOUS
    <3>2. Cardinality(1 .. j) = IF 1 > j THEN 0 ELSE j - 1 + 1
      BY <3>1, FS_Interval, Zenon
    <3> QED BY <3>2
  <2> QED BY <2>1, <1>1, <1>2, <1>3
<1>5. IdsAt(h) = [i \in 1 .. n - m |-> m + i]
  BY <1>4 DEF IdsAt
<1>6. \A t \in DOMAIN items : items[t].height \in Nat /\ t \in Nat
  BY TransactionsTyped
<1>7. \A t : (t \in DOMAIN items /\ items[t].height = h) <=> t \in (1 .. n) \ (1 .. m)
  BY <1>1, <1>2, <1>6 DEF Below
<1>8. \A i \in 1 .. n - m : m + i \in (1 .. n) \ (1 .. m)
  BY <1>3
<1>9. \A t \in (1 .. n) \ (1 .. m) : t - m \in 1 .. n - m /\ m + (t - m) = t
  BY <1>3
<1>10. DOMAIN IdsAt(h) = 1 .. n - m /\ \A i \in 1 .. n - m : IdsAt(h)[i] = m + i
  BY <1>5
<1>11. \A i \in DOMAIN IdsAt(h) : IdsAt(h)[i] \in DOMAIN items /\ items[IdsAt(h)[i]].height = h
  BY <1>7, <1>8, <1>10
<1>12. ASSUME NEW t \in DOMAIN items, items[t].height = h
       PROVE  \E i \in DOMAIN IdsAt(h) : IdsAt(h)[i] = t
  <2>1. t \in (1 .. n) \ (1 .. m)
    BY <1>7, <1>12
  <2> QED BY <2>1, <1>9, <1>10
<1> QED BY <1>11, <1>12

\* Every block is of some transaction's height, and every transaction is in a block.
LEMMA TransactionsOfBlocks ==
  ASSUME Linked
  PROVE  /\ \A b \in ChainBlocks : \A i \in DOMAIN b.txs :
              /\ b.ids[i] \in DOMAIN items /\ b.txs[i] = items[b.ids[i]]
              /\ b.hash = items[b.ids[i]].height /\ b.height = items[b.ids[i]].height
         /\ \A t \in DOMAIN items : \E b \in ChainBlocks : \E i \in DOMAIN b.txs :
              /\ b.ids[i] = t /\ b.txs[i] = items[t]
              /\ b.hash = items[t].height /\ b.height = items[t].height
<1>1. \A t \in DOMAIN items : items[t].height \in Nat
  BY TransactionsTyped
<1>2. \A h : LET b == BlockAt(h)
             IN  /\ DOMAIN b.txs = DOMAIN IdsAt(h) /\ b.ids = IdsAt(h) /\ b.hash = h /\ b.height = h
                 /\ \A i \in DOMAIN b.txs : b.txs[i] = items[IdsAt(h)[i]]
  BY DEF BlockAt
<1>3. ASSUME NEW b \in ChainBlocks, NEW i \in DOMAIN b.txs
      PROVE  /\ b.ids[i] \in DOMAIN items /\ b.txs[i] = items[b.ids[i]]
             /\ b.hash = items[b.ids[i]].height /\ b.height = items[b.ids[i]].height
  <2>1. PICK t \in DOMAIN items : b = BlockAt(items[t].height)
    BY DEF ChainBlocks
  <2> DEFINE h == items[t].height
  <2>2. i \in DOMAIN IdsAt(h) /\ b.ids = IdsAt(h) /\ b.hash = h /\ b.height = h /\ b.txs[i] = items[IdsAt(h)[i]]
    BY <1>2, <1>3, <2>1
  <2>3. IdsAt(h)[i] \in DOMAIN items /\ items[IdsAt(h)[i]].height = h
    BY <1>1, <2>2, IdsOfHeight
  <2> QED BY <2>2, <2>3
<1>4. ASSUME NEW t \in DOMAIN items
      PROVE  \E b \in ChainBlocks : \E i \in DOMAIN b.txs :
               /\ b.ids[i] = t /\ b.txs[i] = items[t]
               /\ b.hash = items[t].height /\ b.height = items[t].height
  <2> DEFINE h == items[t].height
             b == BlockAt(h)
  <2>1. PICK i \in DOMAIN IdsAt(h) : IdsAt(h)[i] = t
    BY <1>1, IdsOfHeight
  <2>2. b \in ChainBlocks
    BY DEF ChainBlocks
  <2>3. /\ i \in DOMAIN b.txs /\ b.ids[i] = t /\ b.txs[i] = items[t] /\ b.hash = h /\ b.height = h
    BY <1>2, <2>1
  <2> HIDE DEF b
  <2> QED BY <2>2, <2>3
<1> QED BY <1>3, <1>4

\* The outputs that are looked up are those that inputs name; all can be spent.
LEMMA PreviousSpendable ==
  ASSUME Linked, NEW o
  PROVE  /\ o \in Previous <=> o # NoPrevout /\ \E t \in DOMAIN items : o \in Range(items[t].ins)
         /\ o \in Previous => o \in Outpoints /\ ScriptOf(o) \notin Unspendable
<1>1. o \in Previous <=> o # NoPrevout /\ \E t \in DOMAIN items : o \in Range(items[t].ins)
  <2>1. o \in Previous <=> \E b \in ChainBlocks : \E i \in DOMAIN b.txs : o \in Range(b.txs[i].ins) /\ o # NoPrevout
    BY DEF Previous, PreviousTxos, HasPrevout
  <2> QED BY <2>1, TransactionsOfBlocks
<1>2. ASSUME o \in Previous
      PROVE  o \in Outpoints /\ ScriptOf(o) \notin Unspendable
  <2>1. PICK t \in DOMAIN items : o # NoPrevout /\ o \in Range(items[t].ins)
    BY <1>1, <1>2
  <2>2. PICK k \in DOMAIN items[t].ins : o = items[t].ins[k]
    BY <2>1 DEF Range
  <2>3. Sound(o, t)
    BY <2>2 DEF Linked, Funded
  <2> QED BY <2>1, <2>3 DEF Sound
<1> QED BY <1>1, <1>2
\* Every row of add_blocks() for an output has the output's script, and there is one for
\* every output that can be spent.
LEMMA OutputRows ==
  ASSUME Linked, Narrow, NEW lightMode \in BOOLEAN, NEW o \in Outpoints, ScriptOf(o) \notin Unspendable
  PROVE  LookupTxo(TxStore(lightMode), o) = {ScriptOf(o)}
<1> DEFINE key == <<"O", o[1], AsU16(o[2])>>
           rows(t) == AddTransaction(t, items[t], items[t].height, lightMode)
<1>1. /\ o[1] \in DOMAIN items /\ o[2] \in Nat /\ o[2] + 1 \in DOMAIN items[o[1]].outs /\ AsU16(o[2]) = o[2]
      /\ o = <<o[1], o[2]>>
  BY OutpointsTyped
<1>2. LookupTxo(TxStore(lightMode), o) = {r[2] : r \in {r \in TxStore(lightMode) : r[1] = key}}
  BY DEF LookupTxo, Values
<1>3. Put(key, ScriptOf(o)) \in TxStore(lightMode)
  <2>1. Put(key, ScriptOf(o)) \in rows(o[1])
    <3>1. items[o[1]].outs[o[2] + 1] = ScriptOf(o) /\ (o[2] + 1) - 1 = o[2]
      BY <1>1 DEF ScriptOf
    <3>2. Put(<<"O", o[1], AsU16((o[2] + 1) - 1)>>, items[o[1]].outs[o[2] + 1]) \in rows(o[1])
      BY <1>1, <3>1 DEF AddTransaction
    <3> QED BY <3>1, <3>2
  <2>2. PICK b \in ChainBlocks : \E i \in DOMAIN b.txs :
          b.ids[i] = o[1] /\ b.txs[i] = items[o[1]] /\ b.hash = items[o[1]].height
    BY <1>1, TransactionsOfBlocks
  <2>3. rows(o[1]) \subseteq AddBlock(b, lightMode)
    BY <2>2 DEF AddBlock
  <2> QED BY <2>1, <2>3 DEF TxStore
<1>4. ASSUME NEW r \in TxStore(lightMode), r[1] = key
      PROVE  r[2] = ScriptOf(o)
  <2>1. PICK b \in ChainBlocks : r \in AddBlock(b, lightMode)
    BY <1>4 DEF TxStore
  <2>2. r[1][1] = "O"
    BY <1>4
  <2>3. \A h, v : /\ Put(<<"X", h>>, v)[1][1] = "X" /\ Put(<<"M", h>>, v)[1][1] = "M"
                  /\ Put(<<"B", h>>, v)[1][1] = "B" /\ Put(<<"D", h>>, v)[1][1] = "D"
    BY DEF Put
  <2>4. r \in UNION {AddTransaction(b.ids[i], b.txs[i], b.hash, lightMode) : i \in DOMAIN b.txs}
    <3>1. /\ r # Put(<<"X", b.hash>>, b.ids) /\ r # Put(<<"M", b.hash>>, Len(b.ids))
          /\ r # Put(<<"B", b.hash>>, b.height) /\ r # Put(<<"D", b.hash>>, {})
      BY <2>2, <2>3
    <3> DEFINE ofTxs == UNION {AddTransaction(b.ids[i], b.txs[i], b.hash, lightMode) : i \in DOMAIN b.txs}
    <3>2. AddBlock(b, lightMode)
            = ofTxs
              \cup (IF lightMode THEN {} ELSE {Put(<<"X", b.hash>>, b.ids), Put(<<"M", b.hash>>, Len(b.ids))})
              \cup {Put(<<"B", b.hash>>, b.height), Put(<<"D", b.hash>>, {})}
      BY DEF AddBlock
    <3> HIDE DEF key, rows, ofTxs
    <3>3. r \in ofTxs
      BY <2>1, <3>1, <3>2
    <3> QED BY <3>3 DEF ofTxs
  <2>5. PICK i \in DOMAIN b.txs : r \in AddTransaction(b.ids[i], b.txs[i], b.hash, lightMode)
    BY <2>4
  <2> DEFINE t == b.ids[i]
  <2>6. t \in DOMAIN items /\ r \in rows(t)
    BY <2>5, TransactionsOfBlocks
  <2> HIDE DEF t
  <2>7. \A v, w : Put(<<"C", t, v>>, w)[1][1] = "C" /\ Put(<<"T", t>>, w)[1][1] = "T"
    BY DEF Put
  <2>8. PICK j \in DOMAIN items[t].outs : r = Put(<<"O", t, AsU16(j - 1)>>, items[t].outs[j])
    BY <2>2, <2>6, <2>7 DEF AddTransaction
  <2>9. r[1] = <<"O", t, AsU16(j - 1)>> /\ r[2] = items[t].outs[j]
    BY <2>8 DEF Put
  <2>10. t = o[1] /\ AsU16(j - 1) = o[2]
    BY <2>9, <1>1, <1>4
  <2>11. <<t, j - 1>> \in Outpoints
    BY <2>6 DEF Outpoints
  <2>12. AsU16(j - 1) = j - 1
    <3>1. <<t, j - 1>>[2] = j - 1
      OBVIOUS
    <3> QED BY <2>11, <3>1, OutpointsTyped
  <2>13. j \in Nat
    BY <2>6, TransactionsTyped
  <2> QED BY <1>1, <2>9, <2>10, <2>12, <2>13 DEF ScriptOf
<1>5. Put(key, ScriptOf(o))[1] = key /\ Put(key, ScriptOf(o))[2] = ScriptOf(o)
  BY DEF Put
<1> HIDE DEF key, rows
<1> QED BY <1>2, <1>3, <1>4, <1>5

\* What index_blocks() finds for an input is the script of the output.
LEMMA PrevoutsFound ==
  ASSUME Linked, Narrow, NEW lightMode \in BOOLEAN, NEW o \in Previous
  PROVE  Prevouts(lightMode)[o] = ScriptOf(o)
<1>1. LookupTxo(TxStore(lightMode), o) = {ScriptOf(o)}
  BY PreviousSpendable, OutputRows
<1>2. Prevouts(lightMode)[o] = CHOOSE v \in LookupTxo(TxStore(lightMode), o) : TRUE
  BY DEF Prevouts
<1> QED BY <1>1, <1>2

FundingKey(o, s) == <<"H", s, items[o[1]].height, "F", o[1], o[2]>>
SpendingKey(t, k, s) ==
  LET o == items[t].ins[k] IN <<"H", s, items[t].height, "S", t, k - 1, o[1], o[2]>>
Edge(t, k) == LET o == items[t].ins[k] IN <<"S", o[1], o[2], t, k - 1>>

Spends(t, k) == t \in DOMAIN items /\ k \in DOMAIN items[t].ins /\ items[t].ins[k] \in Outpoints

\* The rows of the blocks are those of their transactions, and the marks of the blocks.
LEMMA RowsOfBlocks ==
  ASSUME Linked, NEW lightMode, NEW indexUnspendables, NEW r
  PROVE  r \in History(lightMode, indexUnspendables) <=>
           \/ \E t \in DOMAIN items :
                \/ r \in FundingRows(t, items[t], items[t].height, indexUnspendables)
                \/ r \in SpendingRows(t, items[t], items[t].height, Prevouts(lightMode))
           \/ \E b \in ChainBlocks : r = Put(<<"D", b.hash>>, {})
<1> DEFINE prevouts == Prevouts(lightMode)
           ofTx(id, tx, height) ==
             FundingRows(id, tx, height, indexUnspendables) \cup SpendingRows(id, tx, height, prevouts)
<1>1. r \in History(lightMode, indexUnspendables) <=>
        \E b \in ChainBlocks :
          \/ \E i \in DOMAIN b.txs : r \in ofTx(b.ids[i], b.txs[i], b.height)
          \/ r = Put(<<"D", b.hash>>, {})
  <2>1. r \in History(lightMode, indexUnspendables)
          <=> \E b \in ChainBlocks : r \in IndexBlockRows(b, prevouts, indexUnspendables)
    BY DEF History
  <2>2. ASSUME NEW b \in ChainBlocks
        PROVE  r \in IndexBlockRows(b, prevouts, indexUnspendables)
                 <=> \/ \E i \in DOMAIN b.txs : r \in ofTx(b.ids[i], b.txs[i], b.height)
                     \/ r = Put(<<"D", b.hash>>, {})
    <3> HIDE DEF prevouts
    <3>1. IndexBlockRows(b, prevouts, indexUnspendables)
            = (UNION {ofTx(b.ids[i], b.txs[i], b.height) : i \in DOMAIN b.txs}) \cup {Put(<<"D", b.hash>>, {})}
      BY DEF IndexBlockRows
    <3> HIDE DEF ofTx
    <3>2. r \in UNION {ofTx(b.ids[i], b.txs[i], b.height) : i \in DOMAIN b.txs}
            <=> \E i \in DOMAIN b.txs : r \in ofTx(b.ids[i], b.txs[i], b.height)
      OBVIOUS
    <3> QED BY <3>1, <3>2
  <2> HIDE DEF ofTx, prevouts
  <2> QED BY <2>1, <2>2
<1> HIDE DEF ofTx
<1>2. (\E b \in ChainBlocks : \E i \in DOMAIN b.txs : r \in ofTx(b.ids[i], b.txs[i], b.height))
        <=> \E t \in DOMAIN items : r \in ofTx(t, items[t], items[t].height)
  BY TransactionsOfBlocks
<1>3. r \in History(lightMode, indexUnspendables) <=>
        \/ \E t \in DOMAIN items : r \in ofTx(t, items[t], items[t].height)
        \/ \E b \in ChainBlocks : r = Put(<<"D", b.hash>>, {})
  BY <1>1, <1>2
<1> QED BY <1>3 DEF ofTx

\* The input that is no coinbase spends an output, which has the rows of its scripts.
LEMMA InputsTyped ==
  ASSUME Linked, Narrow, NEW lightMode \in BOOLEAN, NEW t \in DOMAIN items, NEW k \in DOMAIN items[t].ins
  PROVE  /\ HasPrevout(items[t].ins[k]) <=> items[t].ins[k] \in Outpoints
         /\ items[t].ins[k] \in Outpoints =>
              /\ Prevouts(lightMode)[items[t].ins[k]] = ScriptOf(items[t].ins[k])
              /\ ScriptOf(items[t].ins[k]) \notin Unspendable
              /\ items[t].ins[k][1] \in DOMAIN items /\ items[t].ins[k][1] < t
         /\ AsU16(k - 1) = k - 1
<1> DEFINE o == items[t].ins[k]
<1>1. Sound(o, t)
  BY DEF Linked, Funded
<1>2. o \in Outpoints => o # NoPrevout /\ AsU16(o[2]) = o[2] /\ o[1] \in DOMAIN items
  BY OutpointsTyped
<1>3. o \in Outpoints => o \in Previous
  <2>1. o \in Range(items[t].ins)
    BY DEF Range
  <2> QED BY <1>2, <2>1, PreviousSpendable
<1>4. AsU16(k - 1) = k - 1
  <2>1. k \in 1 .. Len(items[t].ins) /\ Len(items[t].ins) \in Nat
    BY TransactionsTyped
  <2>2. k - 1 \in Nat /\ k - 1 < VoutLimit
    BY <2>1, RowsAssumption DEF Narrow
  <2> QED BY <2>2, NarrowIndex
<1>5. o \in Outpoints => o[1] < t /\ ScriptOf(o) \notin Unspendable
  BY <1>1, <1>2 DEF Sound
<1>6. o \in Outpoints => Prevouts(lightMode)[o] = ScriptOf(o)
  BY <1>3, PrevoutsFound
<1> QED BY <1>1, <1>2, <1>4, <1>5, <1>6 DEF Sound, HasPrevout
\* Every key of a history is one of these.
LEMMA KeysAreThese ==
  ASSUME Linked, Narrow, NEW lightMode \in BOOLEAN, NEW indexUnspendables \in BOOLEAN,
         NEW k \in Keys(History(lightMode, indexUnspendables))
  PROVE  \/ \E o \in Outpoints :
              /\ indexUnspendables \/ ScriptOf(o) \notin Unspendable
              /\ \E s \in ScriptsOf(ScriptOf(o)) : k = FundingKey(o, s)
         \/ \E t, i : /\ Spends(t, i)
                      /\ k = Edge(t, i) \/ \E s \in ScriptsOf(ScriptOf(items[t].ins[i])) : k = SpendingKey(t, i, s)
         \/ k[1] = "D"
<1> DEFINE Funds(t, i) == indexUnspendables \/ items[t].outs[i] \notin Unspendable
<1>1. PICK r \in History(lightMode, indexUnspendables) : r[1] = k
  BY DEF Keys
<1>2. CASE \E b \in ChainBlocks : r = Put(<<"D", b.hash>>, {})
  BY <1>1, <1>2 DEF Put
<1>3. ASSUME NEW t \in DOMAIN items, r \in FundingRows(t, items[t], items[t].height, indexUnspendables)
      PROVE  \E o \in Outpoints :
               /\ indexUnspendables \/ ScriptOf(o) \notin Unspendable
               /\ \E s \in ScriptsOf(ScriptOf(o)) : k = FundingKey(o, s)
  <2>1. PICK i \in DOMAIN items[t].outs :
          Funds(t, i) /\ \E s \in ScriptsOf(items[t].outs[i]) :
            r = Put(<<"H", s, items[t].height, "F", t, AsU16(i - 1)>>, {})
    BY <1>3 DEF FundingRows
  <2>2. PICK s \in ScriptsOf(items[t].outs[i]) : r = Put(<<"H", s, items[t].height, "F", t, AsU16(i - 1)>>, {})
    BY <2>1
  <2> DEFINE o == <<t, i - 1>>
  <2>3. o \in Outpoints /\ o[1] = t /\ o[2] = i - 1
    BY DEF Outpoints
  <2>4. i \in Nat
    BY TransactionsTyped
  <2>5. ScriptOf(o) = items[t].outs[i]
    BY <2>3, <2>4 DEF ScriptOf
  <2>6. AsU16(i - 1) = i - 1
    BY <2>3, OutpointsTyped
  <2>7. k = FundingKey(o, s)
    BY <1>1, <2>2, <2>3, <2>6 DEF Put, FundingKey
  <2> HIDE DEF o
  <2> QED BY <2>1, <2>3, <2>5, <2>7
<1>4. ASSUME NEW t \in DOMAIN items, r \in SpendingRows(t, items[t], items[t].height, Prevouts(lightMode))
      PROVE  \E i : /\ Spends(t, i)
                    /\ k = Edge(t, i) \/ \E s \in ScriptsOf(ScriptOf(items[t].ins[i])) : k = SpendingKey(t, i, s)
  <2> DEFINE prevouts == Prevouts(lightMode)
  <2>1. PICK i \in DOMAIN items[t].ins :
          /\ HasPrevout(items[t].ins[i])
          /\ LET o == items[t].ins[i]
             IN \/ r = Put(<<"S", o[1], AsU16(o[2]), t, AsU16(i - 1)>>, {})
                \/ \E s \in ScriptsOf(prevouts[o]) :
                     r = Put(<<"H", s, items[t].height, "S", t, AsU16(i - 1), o[1], AsU16(o[2])>>, {})
    <3> HIDE DEF prevouts
    <3>1. r \in SpendingRows(t, items[t], items[t].height, prevouts)
      BY <1>4 DEF prevouts
    <3> QED BY <3>1 DEF SpendingRows
  <2> DEFINE o == items[t].ins[i]
  <2>2. o \in Outpoints /\ prevouts[o] = ScriptOf(o) /\ AsU16(i - 1) = i - 1
    BY <2>1, InputsTyped
  <2>3. AsU16(o[2]) = o[2]
    BY <2>2, OutpointsTyped
  <2>4. Spends(t, i)
    BY <2>2 DEF Spends
  <2>5. CASE r = Put(<<"S", o[1], AsU16(o[2]), t, AsU16(i - 1)>>, {})
    BY <1>1, <2>2, <2>3, <2>4, <2>5 DEF Put, Edge
  <2>6. ASSUME NEW s \in ScriptsOf(prevouts[o]),
               r = Put(<<"H", s, items[t].height, "S", t, AsU16(i - 1), o[1], AsU16(o[2])>>, {})
        PROVE  s \in ScriptsOf(ScriptOf(o)) /\ k = SpendingKey(t, i, s)
    BY <1>1, <2>2, <2>3, <2>6 DEF Put, SpendingKey
  <2> QED BY <2>1, <2>4, <2>5, <2>6
<1> QED BY <1>1, <1>2, <1>3, <1>4, RowsOfBlocks

\* All of these are keys of the history.
LEMMA TheseAreKeys ==
  ASSUME Linked, Narrow, NEW lightMode \in BOOLEAN, NEW indexUnspendables \in BOOLEAN
  PROVE  /\ \A o \in Outpoints : \A s \in ScriptsOf(ScriptOf(o)) :
              indexUnspendables \/ ScriptOf(o) \notin Unspendable
                => FundingKey(o, s) \in Keys(History(lightMode, indexUnspendables))
         /\ \A t, i : Spends(t, i) =>
              /\ Edge(t, i) \in Keys(History(lightMode, indexUnspendables))
              /\ \A s \in ScriptsOf(ScriptOf(items[t].ins[i])) :
                   SpendingKey(t, i, s) \in Keys(History(lightMode, indexUnspendables))
<1> DEFINE history == History(lightMode, indexUnspendables)
<1>1. \A k, v : Put(k, v) \in history => k \in Keys(history)
  <2> HIDE DEF history
  <2>1. \A k, v : Put(k, v)[1] = k
    BY DEF Put
  <2> QED BY <2>1 DEF Keys
<1>2. ASSUME NEW o \in Outpoints, NEW s \in ScriptsOf(ScriptOf(o)),
             indexUnspendables \/ ScriptOf(o) \notin Unspendable
      PROVE  FundingKey(o, s) \in Keys(history)
  <2> DEFINE t == o[1]
             i == o[2] + 1
  <2>1. t \in DOMAIN items /\ i \in DOMAIN items[t].outs /\ o[2] = i - 1 /\ AsU16(i - 1) = i - 1
    BY OutpointsTyped
  <2>2. ScriptOf(o) = items[t].outs[i]
    BY DEF ScriptOf
  <2>3. FundingKey(o, s) = <<"H", s, items[t].height, "F", t, AsU16(i - 1)>>
    BY <2>1 DEF FundingKey
  <2> HIDE DEF t, i
  <2>4. Put(FundingKey(o, s), {}) \in FundingRows(t, items[t], items[t].height, indexUnspendables)
    <3> DEFINE outputs == {j \in DOMAIN items[t].outs :
                             indexUnspendables \/ items[t].outs[j] \notin Unspendable}
               rowsOf(j) == {Put(<<"H", z, items[t].height, "F", t, AsU16(j - 1)>>, {}) :
                               z \in ScriptsOf(items[t].outs[j])}
               rows == FundingRows(t, items[t], items[t].height, indexUnspendables)
               key == FundingKey(o, s)
    <3>1. rows = UNION {rowsOf(j) : j \in outputs}
      BY DEF FundingRows
    <3>2. i \in outputs
      BY <1>2, <2>1, <2>2
    <3>3. s \in ScriptsOf(items[t].outs[i])
      BY <2>2
    <3> HIDE DEF rows, outputs, key
    <3>4. Put(key, {}) \in rowsOf(i)
      BY <2>3, <3>3 DEF key
    <3> HIDE DEF rowsOf
    <3>5. Put(key, {}) \in rows
      BY <3>1, <3>2, <3>4
    <3> QED BY <3>5 DEF rows, key
  <2>5. Put(FundingKey(o, s), {}) \in history
    BY <2>1, <2>4, RowsOfBlocks
  <2> QED BY <1>1, <2>5
<1>3. ASSUME NEW t, NEW i, Spends(t, i)
      PROVE  /\ Edge(t, i) \in Keys(history)
             /\ \A s \in ScriptsOf(ScriptOf(items[t].ins[i])) : SpendingKey(t, i, s) \in Keys(history)
  <2> DEFINE o == items[t].ins[i]
             prevouts == Prevouts(lightMode)
             rows == SpendingRows(t, items[t], items[t].height, prevouts)
             edge == Put(<<"S", o[1], AsU16(o[2]), t, AsU16(i - 1)>>, {})
             row(s) == Put(<<"H", s, items[t].height, "S", t, AsU16(i - 1), o[1], AsU16(o[2])>>, {})
  <2>1. t \in DOMAIN items /\ i \in DOMAIN items[t].ins /\ o \in Outpoints
    BY <1>3 DEF Spends
  <2>2. HasPrevout(o) /\ prevouts[o] = ScriptOf(o) /\ AsU16(i - 1) = i - 1
    BY <2>1, InputsTyped
  <2>3. AsU16(o[2]) = o[2]
    BY <2>1, OutpointsTyped
  <2>4. edge \in rows /\ \A s \in ScriptsOf(prevouts[o]) : row(s) \in rows
    <3> DEFINE inputs == {j \in DOMAIN items[t].ins : HasPrevout(items[t].ins[j])}
               rowsOf(j) ==
                 {Put(<<"S", items[t].ins[j][1], AsU16(items[t].ins[j][2]), t, AsU16(j - 1)>>, {})}
                 \cup {Put(<<"H", s, items[t].height, "S", t, AsU16(j - 1),
                             items[t].ins[j][1], AsU16(items[t].ins[j][2])>>, {}) :
                         s \in ScriptsOf(prevouts[items[t].ins[j]])}
    <3> HIDE DEF prevouts
    <3>1. rows = UNION {rowsOf(j) : j \in inputs}
      BY DEF SpendingRows
    <3>2. i \in inputs
      BY <2>1, <2>2
    <3>3. edge \in rowsOf(i) /\ \A s \in ScriptsOf(prevouts[o]) : row(s) \in rowsOf(i)
      OBVIOUS
    <3> HIDE DEF rows, rowsOf, inputs, edge, row
    <3> QED BY <3>1, <3>2, <3>3
  <2>5. edge = Put(Edge(t, i), {}) /\ \A s : row(s) = Put(SpendingKey(t, i, s), {})
    BY <2>2, <2>3 DEF Edge, SpendingKey
  <2>6. \A r \in rows : r \in history
    BY <2>1, RowsOfBlocks
  <2> HIDE DEF rows, edge, row, prevouts, history
  <2> QED BY <1>1, <2>2, <2>4, <2>5, <2>6
<1> QED BY <1>2, <1>3
\* What a key says of itself
LEMMA KeysRead ==
  ASSUME Linked, Narrow
  PROVE  /\ \A o \in Outpoints : \A s : LET k == FundingKey(o, s)
              IN  /\ k[1] = "H" /\ k[2] = s /\ k[3] = items[o[1]].height /\ k[4] = "F"
                  /\ TxidOf(k) = o[1] /\ FundedOutpoint(k) = o
         /\ \A t, i, s : Spends(t, i) =>
              LET k == SpendingKey(t, i, s)
              IN  /\ k[1] = "H" /\ k[2] = s /\ k[3] = items[t].height /\ k[4] = "S"
                  /\ TxidOf(k) = t /\ FundedOutpoint(k) = items[t].ins[i]
         /\ \A t, i : Spends(t, i) =>
              LET k == Edge(t, i)
              IN  k[1] = "S" /\ <<k[2], k[3]>> = items[t].ins[i] /\ <<k[4], k[5]>> = <<t, i - 1>>
<1>1. ASSUME NEW o \in Outpoints, NEW s
      PROVE  LET k == FundingKey(o, s)
             IN  /\ k[1] = "H" /\ k[2] = s /\ k[3] = items[o[1]].height /\ k[4] = "F"
                 /\ TxidOf(k) = o[1] /\ FundedOutpoint(k) = o
  <2>1. o = <<o[1], o[2]>>
    BY OutpointsTyped
  <2> QED BY <2>1 DEF FundingKey, TxidOf, FundedOutpoint
<1>2. ASSUME NEW t, NEW i, Spends(t, i)
      PROVE  /\ \A s : LET k == SpendingKey(t, i, s)
                       IN  /\ k[1] = "H" /\ k[2] = s /\ k[3] = items[t].height /\ k[4] = "S"
                           /\ TxidOf(k) = t /\ FundedOutpoint(k) = items[t].ins[i]
             /\ LET k == Edge(t, i)
                IN  k[1] = "S" /\ <<k[2], k[3]>> = items[t].ins[i] /\ <<k[4], k[5]>> = <<t, i - 1>>
  <2> DEFINE o == items[t].ins[i]
  <2>1. o = <<o[1], o[2]>>
    BY <1>2, OutpointsTyped DEF Spends
  <2> QED BY <2>1 DEF SpendingKey, Edge, TxidOf, FundedOutpoint
<1> QED BY <1>1, <1>2

\* What is spent is an input of some transaction, after the one that created it.
LEMMA SpentBySomeone ==
  ASSUME Linked, NEW o \in Outpoints
  PROVE  o \in SpentOuts <=> \E t, i : Spends(t, i) /\ items[t].ins[i] = o
<1>1. o \in SpentOuts <=> \E t \in DOMAIN items : o \in Range(items[t].ins)
  BY DEF SpentOuts
<1> QED BY <1>1 DEF Range, Spends

\* The history of a script: a key for each of its coins, and one for each input that
\* spends one of them.
LEMMA KeysOfScript ==
  ASSUME Linked, Narrow, NEW lightMode \in BOOLEAN, NEW indexUnspendables \in BOOLEAN, NEW s \in Scripts, NEW k
  PROVE  k \in HistoryKeys(History(lightMode, indexUnspendables), s) <=>
           \/ \E o \in Coins(s, indexUnspendables) : k = FundingKey(o, s)
           \/ \E t, i : /\ Spends(t, i) /\ items[t].ins[i] \in Coins(s, indexUnspendables)
                        /\ k = SpendingKey(t, i, s)
<1> DEFINE history == History(lightMode, indexUnspendables)
           coins == Coins(s, indexUnspendables)
<1>1. \A o \in Outpoints :
        o \in coins <=> /\ s \in ScriptsOf(ScriptOf(o))
                        /\ indexUnspendables \/ ScriptOf(o) \notin Unspendable
  BY OutpointsTyped, ScriptsOfOutput DEF Coins
<1>2. coins \subseteq Outpoints
  BY DEF Coins
<1>3. \A t, i : Spends(t, i) => items[t].ins[i] \in Outpoints /\ ScriptOf(items[t].ins[i]) \notin Unspendable
  BY InputsTyped DEF Spends
<1>4. k \in HistoryKeys(history, s) <=> k \in Keys(history) /\ k[1] = "H" /\ k[2] = s
  BY DEF HistoryKeys
<1> HIDE DEF history, coins
<1>5. ASSUME k \in HistoryKeys(history, s)
      PROVE  \/ \E o \in coins : k = FundingKey(o, s)
             \/ \E t, i : Spends(t, i) /\ items[t].ins[i] \in coins /\ k = SpendingKey(t, i, s)
  <2>1. k \in Keys(history) /\ k[1] = "H" /\ k[2] = s
    BY <1>4, <1>5
  <2>2. \/ \E o \in Outpoints :
             /\ indexUnspendables \/ ScriptOf(o) \notin Unspendable
             /\ \E z \in ScriptsOf(ScriptOf(o)) : k = FundingKey(o, z)
        \/ \E t, i : /\ Spends(t, i)
                     /\ k = Edge(t, i) \/ \E z \in ScriptsOf(ScriptOf(items[t].ins[i])) : k = SpendingKey(t, i, z)
    BY <2>1, KeysAreThese DEF history
  <2>3. ASSUME NEW o \in Outpoints, indexUnspendables \/ ScriptOf(o) \notin Unspendable,
               NEW z \in ScriptsOf(ScriptOf(o)), k = FundingKey(o, z)
        PROVE  o \in coins /\ k = FundingKey(o, s)
    <3>1. z = s
      BY <2>1, <2>3, KeysRead
    <3> QED BY <1>1, <2>3, <3>1
  <2>4. ASSUME NEW t, NEW i, Spends(t, i)
        PROVE  k # Edge(t, i)
    BY <2>1, <2>4, KeysRead
  <2>5. ASSUME NEW t, NEW i, Spends(t, i), NEW z \in ScriptsOf(ScriptOf(items[t].ins[i])), k = SpendingKey(t, i, z)
        PROVE  items[t].ins[i] \in coins /\ k = SpendingKey(t, i, s)
    <3>1. z = s
      BY <2>1, <2>5, KeysRead
    <3> QED BY <1>1, <1>3, <2>5, <3>1
  <2> QED BY <2>2, <2>3, <2>4, <2>5
<1>6. ASSUME NEW o \in coins
      PROVE  FundingKey(o, s) \in HistoryKeys(history, s)
  <2>1. FundingKey(o, s) \in Keys(history)
    BY <1>1, <1>2, TheseAreKeys DEF history
  <2>2. FundingKey(o, s)[1] = "H" /\ FundingKey(o, s)[2] = s
    BY <1>2, KeysRead
  <2> QED BY <2>1, <2>2 DEF HistoryKeys
<1>7. ASSUME NEW t, NEW i, Spends(t, i), items[t].ins[i] \in coins
      PROVE  SpendingKey(t, i, s) \in HistoryKeys(history, s)
  <2>1. SpendingKey(t, i, s) \in Keys(history)
    BY <1>1, <1>2, <1>7, TheseAreKeys DEF history
  <2>2. SpendingKey(t, i, s)[1] = "H" /\ SpendingKey(t, i, s)[2] = s
    BY <1>7, KeysRead
  <2> QED BY <2>1, <2>2 DEF HistoryKeys
<1>8. k \in HistoryKeys(history, s) <=>
        \/ \E o \in coins : k = FundingKey(o, s)
        \/ \E t, i : Spends(t, i) /\ items[t].ins[i] \in coins /\ k = SpendingKey(t, i, s)
  BY <1>5, <1>6, <1>7
<1> QED BY <1>8 DEF history, coins

\* Inserting and removing in the order of the keys leaves what is not spent, for an
\* output is funded before it is spent.
LEMMA UnspentAreLeft ==
  ASSUME Linked, Narrow, NEW lightMode \in BOOLEAN, NEW indexUnspendables \in BOOLEAN, NEW s \in Scripts
  PROVE  UtxoDelta(History(lightMode, indexUnspendables), s) = Coins(s, indexUnspendables) \ SpentOuts
<1> DEFINE keys == HistoryKeys(History(lightMode, indexUnspendables), s)
           coins == Coins(s, indexUnspendables)
           removed(k) == \E l \in keys : l[4] = "S" /\ FundedOutpoint(l) = FundedOutpoint(k) /\ KeyBefore(k, l)
<1>1. UtxoDelta(History(lightMode, indexUnspendables), s) = {FundedOutpoint(k) : k \in {k \in keys : k[4] = "F" /\ ~removed(k)}}
  BY DEF UtxoDelta
<1>2. coins \subseteq Outpoints
  BY DEF Coins
<1> HIDE DEF coins
<1>3. \A k : k \in keys <=>
        \/ \E o \in coins : k = FundingKey(o, s)
        \/ \E t, i : Spends(t, i) /\ items[t].ins[i] \in coins /\ k = SpendingKey(t, i, s)
  BY KeysOfScript DEF coins
<1> HIDE DEF keys
<1>4. ASSUME NEW o \in coins
      PROVE  removed(FundingKey(o, s)) <=> o \in SpentOuts
  <2> DEFINE k == FundingKey(o, s)
  <2>1. k[3] = items[o[1]].height /\ k[4] = "F" /\ FundedOutpoint(k) = o
    BY <1>2, KeysRead
  <2> HIDE DEF k
  <2>2. ASSUME removed(k)
        PROVE  o \in SpentOuts
    <3>1. PICK l \in keys : l[4] = "S" /\ FundedOutpoint(l) = o
      BY <2>1, <2>2
    <3>2. \A p \in coins : l # FundingKey(p, s)
      BY <3>1, <1>2, KeysRead
    <3>3. PICK t, i : Spends(t, i) /\ l = SpendingKey(t, i, s)
      BY <3>2, <1>3
    <3>4. items[t].ins[i] = o
      BY <3>1, <3>3, KeysRead
    <3> QED BY <3>3, <3>4, <1>2, SpentBySomeone
  <2>3. ASSUME o \in SpentOuts
        PROVE  removed(k)
    <3>1. PICK t, i : Spends(t, i) /\ items[t].ins[i] = o
      BY <2>3, <1>2, SpentBySomeone
    <3> DEFINE l == SpendingKey(t, i, s)
    <3>2. l \in keys /\ l[3] = items[t].height /\ l[4] = "S" /\ FundedOutpoint(l) = o
      BY <3>1, <1>3, KeysRead
    <3> HIDE DEF l
    <3>3. t \in DOMAIN items /\ i \in DOMAIN items[t].ins
      BY <3>1 DEF Spends
    <3>4. o[1] \in DOMAIN items /\ o[1] < t
      BY <3>1, <3>3, <1>2, InputsTyped
    <3>5. items[o[1]].height <= items[t].height /\ items[o[1]].height \in Nat /\ items[t].height \in Nat
      <4>1. o[1] \in Nat /\ t \in Nat /\ items[o[1]].height \in Nat /\ items[t].height \in Nat
        BY <3>3, <3>4, TransactionsTyped
      <4> QED BY <3>3, <3>4, <4>1 DEF Linked, Rising
    <3>6. KeyBefore(k, l)
      BY <2>1, <3>2, <3>5 DEF KeyBefore
    <3> QED BY <2>1, <3>2, <3>6
  <2> QED BY <2>2, <2>3 DEF k
<1>5. ASSUME NEW o \in coins \ SpentOuts
      PROVE  \E k \in keys : k[4] = "F" /\ ~removed(k) /\ FundedOutpoint(k) = o
  <2>1. FundingKey(o, s) \in keys /\ FundingKey(o, s)[4] = "F" /\ FundedOutpoint(FundingKey(o, s)) = o
    BY <1>2, <1>3, KeysRead
  <2> QED BY <2>1, <1>4
<1>6. ASSUME NEW k \in keys, k[4] = "F", ~removed(k)
      PROVE  FundedOutpoint(k) \in coins \ SpentOuts
  <2>1. PICK o \in coins : k = FundingKey(o, s)
    BY <1>3, <1>6, KeysRead
  <2>2. FundedOutpoint(k) = o
    BY <2>1, <1>2, KeysRead
  <2> QED BY <2>1, <2>2, <1>4, <1>6
<1> HIDE DEF removed
<1>7. {FundedOutpoint(k) : k \in {k \in keys : k[4] = "F" /\ ~removed(k)}} = coins \ SpentOuts
  BY <1>5, <1>6
<1> QED BY <1>1, <1>7 DEF coins

\* The transactions of a script's history are those that create or spend its coins.
LEMMA TxidsOfScript ==
  ASSUME Linked, Narrow, NEW lightMode \in BOOLEAN, NEW indexUnspendables \in BOOLEAN, NEW s \in Scripts
  PROVE  {TxidOf(k) : k \in HistoryKeys(History(lightMode, indexUnspendables), s)}
           = {o[1] : o \in Coins(s, indexUnspendables)}
             \cup {t \in DOMAIN items : Range(items[t].ins) \cap Coins(s, indexUnspendables) # {}}
<1> DEFINE keys == HistoryKeys(History(lightMode, indexUnspendables), s)
           coins == Coins(s, indexUnspendables)
           spenders == {t \in DOMAIN items : Range(items[t].ins) \cap coins # {}}
<1>1. coins \subseteq Outpoints
  BY DEF Coins
<1> HIDE DEF coins
<1>2. \A k : k \in keys <=>
        \/ \E o \in coins : k = FundingKey(o, s)
        \/ \E t, i : Spends(t, i) /\ items[t].ins[i] \in coins /\ k = SpendingKey(t, i, s)
  BY KeysOfScript DEF coins
<1> HIDE DEF keys
<1>3. \A t : t \in spenders <=> \E i : Spends(t, i) /\ items[t].ins[i] \in coins
  <2>1. \A t : t \in spenders <=> t \in DOMAIN items /\ \E i \in DOMAIN items[t].ins : items[t].ins[i] \in coins
    BY DEF Range
  <2> QED BY <2>1, <1>1 DEF Spends
<1> HIDE DEF spenders
<1>4. \A t : (\E k \in keys : TxidOf(k) = t) <=> (\E o \in coins : o[1] = t) \/ t \in spenders
  <2>1. ASSUME NEW k \in keys
        PROVE  (\E o \in coins : o[1] = TxidOf(k)) \/ TxidOf(k) \in spenders
    BY <1>1, <1>2, <1>3, KeysRead
  <2>2. ASSUME NEW o \in coins
        PROVE  \E k \in keys : TxidOf(k) = o[1]
    BY <1>1, <1>2, KeysRead
  <2>3. ASSUME NEW t \in spenders
        PROVE  \E k \in keys : TxidOf(k) = t
    <3>1. PICK i : Spends(t, i) /\ items[t].ins[i] \in coins
      BY <1>3
    <3>2. SpendingKey(t, i, s) \in keys /\ TxidOf(SpendingKey(t, i, s)) = t
      BY <3>1, <1>2, KeysRead
    <3> QED BY <3>2
  <2> QED BY <2>1, <2>2, <2>3
<1>5. {TxidOf(k) : k \in keys} = {o[1] : o \in coins} \cup spenders
  BY <1>4
<1> QED BY <1>5 DEF keys, coins, spenders

\* The edges from an output lead to the inputs that spend it.
LEMMA EdgesToSpenders ==
  ASSUME Linked, Narrow, NEW lightMode \in BOOLEAN, NEW indexUnspendables \in BOOLEAN, NEW o \in Outpoints
  PROVE  SpendersOf(History(lightMode, indexUnspendables), o)
           = UNION {{<<t, k - 1>> : k \in {k \in DOMAIN items[t].ins : items[t].ins[k] = o}} : t \in DOMAIN items}
<1> DEFINE history == History(lightMode, indexUnspendables)
           edges == {k \in Keys(history) : k[1] = "S" /\ k[2] = o[1] /\ k[3] = AsU16(o[2])}
           inputs(t) == {k \in DOMAIN items[t].ins : items[t].ins[k] = o}
<1>1. o = <<o[1], o[2]>> /\ AsU16(o[2]) = o[2]
  BY OutpointsTyped
<1>2. ASSUME NEW k
      PROVE  k \in edges <=> \E t, i : Spends(t, i) /\ items[t].ins[i] = o /\ k = Edge(t, i)
  <2>1. ASSUME k \in edges
        PROVE  \E t, i : Spends(t, i) /\ items[t].ins[i] = o /\ k = Edge(t, i)
    <3>1. k \in Keys(history) /\ k[1] = "S" /\ k[2] = o[1] /\ k[3] = o[2]
      BY <1>1, <2>1
    <3> HIDE DEF history, edges
    <3>2. \/ \E p \in Outpoints : \E z : k = FundingKey(p, z)
          \/ \E t, i : Spends(t, i) /\ (k = Edge(t, i) \/ \E z : k = SpendingKey(t, i, z))
      BY <3>1, KeysAreThese DEF history
    <3>3. PICK t, i : Spends(t, i) /\ k = Edge(t, i)
      BY <3>1, <3>2, KeysRead
    <3>4. items[t].ins[i] = <<k[2], k[3]>>
      BY <3>3, KeysRead
    <3> QED BY <3>1, <3>3, <3>4, <1>1
  <2>2. ASSUME NEW t, NEW i, Spends(t, i), items[t].ins[i] = o, k = Edge(t, i)
        PROVE  k \in edges
    <3>1. k \in Keys(history)
      BY <2>2, TheseAreKeys
    <3> HIDE DEF history
    <3>2. k[1] = "S" /\ k[2] = o[1] /\ k[3] = o[2]
      BY <2>2 DEF Edge
    <3> QED BY <1>1, <3>1, <3>2
  <2> QED BY <2>1, <2>2
<1>3. SpendersOf(history, o) = {<<k[4], k[5]>> : k \in edges}
  BY DEF SpendersOf
<1> HIDE DEF edges, history
<1>4. \A x : x \in {<<k[4], k[5]>> : k \in edges} <=> \E t, i : Spends(t, i) /\ items[t].ins[i] = o /\ x = <<t, i - 1>>
  <2>1. \A x : x \in {<<k[4], k[5]>> : k \in edges} <=> \E k \in edges : x = <<k[4], k[5]>>
    OBVIOUS
  <2>2. \A t, i : Spends(t, i) => <<Edge(t, i)[4], Edge(t, i)[5]>> = <<t, i - 1>>
    BY KeysRead
  <2> QED BY <2>1, <2>2, <1>2
<1>5. \A x : x \in UNION {{<<t, k - 1>> : k \in inputs(t)} : t \in DOMAIN items}
               <=> \E t, i : Spends(t, i) /\ items[t].ins[i] = o /\ x = <<t, i - 1>>
  BY DEF Spends
<1>6. {<<k[4], k[5]>> : k \in edges} = UNION {{<<t, k - 1>> : k \in inputs(t)} : t \in DOMAIN items}
  BY <1>4, <1>5
<1> QED BY <1>3, <1>6 DEF history

\* In every chain, however long, and whatever scripts are unspendable or within others:
\* what a block spends is found among the rows of outputs, also of the same block; the
\* rows of a script, read in the order of their keys, leave its unspent outputs; its
\* history has its transactions; and every output leads to what spends it.  Indices
\* are within the width that they are written with.
THEOREM RowsTell == Spec => []RowsTellChain
<1>1. ASSUME Chain
      PROVE  RowsTellChain
  <2> SUFFICES ASSUME about = "rows", Narrow,
                      NEW lightMode \in BOOLEAN, NEW indexUnspendables \in BOOLEAN
               PROVE  LET history == History(lightMode, indexUnspendables)
                      IN /\ \A o \in Previous : LookupTxo(TxStore(lightMode), o) = {ScriptOf(o)}
                         /\ \A s \in Scripts :
                              /\ UtxoDelta(history, s) = Coins(s, indexUnspendables) \ SpentOuts
                              /\ {TxidOf(k) : k \in HistoryKeys(history, s)}
                                   = {o[1] : o \in Coins(s, indexUnspendables)}
                                     \cup {t \in DOMAIN items :
                                             Range(items[t].ins) \cap Coins(s, indexUnspendables) # {}}
                         /\ \A o \in Outpoints :
                              SpendersOf(history, o)
                                = UNION {{<<t, k - 1>> : k \in {k \in DOMAIN items[t].ins : items[t].ins[k] = o}} :
                                           t \in DOMAIN items}
    BY DEF RowsTellChain, Narrow
  <2>1. Linked
    BY <1>1 DEF Chain, Linked
  <2>2. \A o \in Previous : LookupTxo(TxStore(lightMode), o) = {ScriptOf(o)}
    BY <2>1, PreviousSpendable, OutputRows
  <2>3. \A s \in Scripts :
          UtxoDelta(History(lightMode, indexUnspendables), s) = Coins(s, indexUnspendables) \ SpentOuts
    BY <2>1, UnspentAreLeft
  <2> QED BY <2>1, <2>2, <2>3, TxidsOfScript, EdgesToSpenders
<1> QED BY <1>1, ItemsAreChain, PTL
=============================================================================
