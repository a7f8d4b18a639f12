---------------------------- MODULE IndexerProofs ----------------------------
(***************************************************************************)
(* Safety of the indexing thread for every tree of blocks, fetch size and  *)
(* number of crashes.  First the header list: whatever list electrs has    *)
(* and whatever block tapyrusd calls the best one, the headers fetched by  *)
(* walking back from it apply without an assertion failing, and the list   *)
(* that results is exactly the new chain (ApplyNewHeaders).  Then the      *)
(* inductive invariant IInv of the thread, what follows from it, and the   *)
(* step simulation that makes Indexer an implementation of ChainIndex.     *)
(***************************************************************************)
EXTENDS Indexer, SequenceTheorems, WellFoundedInduction, TLAPS

-----------------------------------------------------------------------------
(* The block tree and the header list                                      *)

(* A chain and its parts.                                                  *)
LEMMA ChainBasics ==
  ASSUME NEW b \in Blocks
  PROVE  /\ ChainOf[b] \in Seq(Blocks)
         /\ Len(ChainOf[b]) \in Nat \ {0}
         /\ Height(b) \in Nat
         /\ DOMAIN ChainOf[b] = 1 .. Len(ChainOf[b])
         /\ ChainOf[b][Len(ChainOf[b])] = b
         /\ \A i \in 1 .. Len(ChainOf[b]) :
              /\ ChainOf[b][i] \in Blocks
              /\ ChainOf[ChainOf[b][i]] = SubSeq(ChainOf[b], 1, i)
BY ChainAssumption, LenProperties, ElementOfSeq DEF Height

(* The i-th block of a chain has height i - 1.                             *)
LEMMA HeightInChain ==
  ASSUME NEW b \in Blocks, NEW i \in 1 .. Len(ChainOf[b])
  PROVE  /\ Len(ChainOf[ChainOf[b][i]]) = i
         /\ Height(ChainOf[b][i]) = i - 1
<1>1. ChainOf[ChainOf[b][i]] = SubSeq(ChainOf[b], 1, i)
  BY ChainBasics
<1>2. /\ i \in Int
      /\ 1 <= i
      /\ \A j \in 1 .. i : ChainOf[b][j] \in Blocks
  BY ChainBasics
<1>3. Len(SubSeq(ChainOf[b], 1, i)) = IF 1 <= i THEN i - 1 + 1 ELSE 0
  BY <1>2, SubSeqProperties
<1> QED BY <1>1, <1>2, <1>3 DEF Height

(* Two chains that share a block share everything below it, at the same    *)
(* heights.                                                                *)
LEMMA SharedPrefix ==
  ASSUME NEW b \in Blocks, NEW c \in Blocks,
         NEW i \in 1 .. Len(ChainOf[b]), NEW j \in 1 .. Len(ChainOf[c]),
         ChainOf[b][i] = ChainOf[c][j]
  PROVE  /\ i = j
         /\ SubSeq(ChainOf[b], 1, i) = SubSeq(ChainOf[c], 1, i)
         /\ \A k \in 1 .. i : ChainOf[b][k] = ChainOf[c][k]
<1>1. i = j
  BY HeightInChain
<1>2. SubSeq(ChainOf[b], 1, i) = SubSeq(ChainOf[c], 1, i)
  <2>1. ChainOf[ChainOf[b][i]] = SubSeq(ChainOf[b], 1, i)
    BY ChainBasics
  <2>2. ChainOf[ChainOf[c][j]] = SubSeq(ChainOf[c], 1, j)
    BY ChainBasics
  <2> QED BY <1>1, <2>1, <2>2
<1>3. ASSUME NEW k \in 1 .. i PROVE ChainOf[b][k] = ChainOf[c][k]
  <2>1. /\ \A n \in 1 .. i : ChainOf[b][n] \in Blocks
        /\ \A n \in 1 .. i : ChainOf[c][n] \in Blocks
    <3>1. 1 .. i \subseteq 1 .. Len(ChainOf[b]) /\ 1 .. i \subseteq 1 .. Len(ChainOf[c])
      <4>1. Len(ChainOf[b]) \in Nat /\ Len(ChainOf[c]) \in Nat
        BY ChainBasics
      <4>2. i \in 1 .. Len(ChainOf[c])
        BY <1>1
      <4> QED BY <4>1, <4>2
    <3> QED BY <3>1, ChainBasics
  <2>2. SubSeq(ChainOf[b], 1, i)[k] = ChainOf[b][k]
    BY <2>1, SubSeqProperties
  <2>3. SubSeq(ChainOf[c], 1, i)[k] = ChainOf[c][k]
    BY <2>1, SubSeqProperties
  <2> QED BY <1>2, <2>2, <2>3
<1> QED BY <1>1, <1>2, <1>3

(* A block's ancestors have their ancestors among them.                    *)
LEMMA AncestorsClosed ==
  ASSUME NEW b \in Blocks, NEW c \in Ancestors(b)
  PROVE  c \in Blocks /\ Ancestors(c) \subseteq Ancestors(b)
<1>1. PICK i \in 1 .. Len(ChainOf[b]) : ChainOf[b][i] = c
  BY ChainBasics DEF Ancestors, Range
<1>2. c \in Blocks /\ Len(ChainOf[c]) = i
  BY <1>1, HeightInChain, ChainBasics
<1>3. ASSUME NEW x \in Ancestors(c) PROVE x \in Ancestors(b)
  <2>1. PICK k \in 1 .. i : ChainOf[c][k] = x
    BY <1>2, ChainBasics DEF Ancestors, Range
  <2>2. ChainOf[b][k] = ChainOf[c][k]
    <3>1. i \in 1 .. Len(ChainOf[c]) /\ ChainOf[b][i] = ChainOf[c][i]
      BY <1>1, <1>2, ChainBasics
    <3> QED BY <1>2, <3>1, SharedPrefix
  <2> QED BY <2>1, <2>2, ChainBasics DEF Ancestors, Range
<1> QED BY <1>2, <1>3

(* A nonempty set of naturals below a bound has a largest element.         *)
LEMMA LargestElement ==
  ASSUME NEW n \in Nat, NEW S \in SUBSET (1 .. n), S # {}
  PROVE  \E i \in S : \A j \in S : j <= i
<1> DEFINE T == {n - i : i \in S}
<1>1. T \subseteq Nat /\ T # {}
  <2>1. ASSUME NEW i \in S PROVE n - i \in Nat
    BY 1 .. n \subseteq Nat
  <2> QED BY <2>1
<1>2. \E x \in T : \A y \in T : ~(<<y, x>> \in OpToRel(<, Nat))
  BY <1>1, NatLessThanWellFounded, WFMin
<1>3. PICK x \in T : \A y \in T : ~(y < x)
  BY <1>1, <1>2 DEF OpToRel
<1>4. PICK i \in S : x = n - i
  BY <1>3
<1>5. ASSUME NEW j \in S PROVE j <= i
  <2>1. n - j \in T
    OBVIOUS
  <2>2. ~(n - j < n - i)
    BY <1>3, <1>4, <2>1
  <2>3. i \in Int /\ j \in Int /\ n \in Int
    OBVIOUS
  <2> QED BY <2>2, <2>3
<1> QED BY <1>5

-----------------------------------------------------------------------------
(* Coherent is not inductive: a lookup is exact only because heights, where*)
(* it has an entry, has the block's height, and has one for each block of  *)
(* the list.                                                               *)
ListInv(list) ==
  /\ list \in HeaderLists
  /\ list.headers = (IF list.tip = NoBlock THEN << >> ELSE ChainOf[list.tip])
  /\ \A b \in Blocks : list.heights[b] \in {NoHeight, Height(b)}
  /\ \A b \in Range(list.headers) : list.heights[b] = Height(b)

LEMMA EmptyList ==
  /\ ListInv(Empty)
  /\ Empty.tip = NoBlock
  /\ Range(Empty.headers) = {}
BY EmptySeq DEF ListInv, Empty, HeaderLists, NoHeight, Range

(* The i-th header of a list is the i-th block of the chain it ends with.  *)
LEMMA ListBlocks ==
  ASSUME NEW list, ListInv(list), NEW i \in 1 .. Len(list.headers)
  PROVE  /\ list.tip \in Blocks
         /\ list.headers = ChainOf[list.tip]
         /\ list.headers[i] \in Blocks
         /\ list.headers[i] \in Range(list.headers)
         /\ list.heights[list.headers[i]] = i - 1
<1>1. list.tip # NoBlock
  BY EmptySeq DEF ListInv
<1>2. list.tip \in Blocks /\ list.headers = ChainOf[list.tip]
  BY <1>1 DEF ListInv, HeaderLists
<1>3. list.headers[i] \in Blocks /\ list.headers[i] \in Range(list.headers)
  BY <1>2, ChainBasics DEF Range
<1>4. Height(list.headers[i]) = i - 1
  BY <1>2, HeightInChain
<1> QED BY <1>2, <1>3, <1>4 DEF ListInv

(* Lookups by hash are exact.                                              *)
LEMMA LookupExact ==
  ASSUME NEW list, ListInv(list), NEW b \in Blocks
  PROVE  HeaderByBlockhash(list, b) <=> b \in Range(list.headers)
<1>1. list.headers \in Seq(Blocks) /\ list.heights \in [Blocks -> Nat \cup {NoHeight}]
  BY DEF ListInv, HeaderLists
<1>2. /\ Len(list.headers) \in Nat
      /\ DOMAIN list.headers = 1 .. Len(list.headers)
  BY <1>1, LenProperties
<1>3. ASSUME HeaderByBlockhash(list, b) PROVE b \in Range(list.headers)
  <2>1. list.heights[b] + 1 \in 1 .. Len(list.headers)
    BY <1>1, <1>2, <1>3 DEF HeaderByBlockhash, NoHeight
  <2> QED BY <1>2, <1>3, <2>1 DEF HeaderByBlockhash, Range
<1>4. ASSUME b \in Range(list.headers) PROVE HeaderByBlockhash(list, b)
  <2>1. PICK i \in 1 .. Len(list.headers) : list.headers[i] = b
    BY <1>2, <1>4 DEF Range
  <2>2. list.heights[b] = i - 1
    BY <2>1, ListBlocks
  <2> QED BY <1>2, <2>1, <2>2 DEF HeaderByBlockhash, NoHeight
<1> QED BY <1>3, <1>4

(* A list that satisfies ListInv is coherent.                              *)
LEMMA ListInvCoherent ==
  ASSUME NEW list, ListInv(list) PROVE Coherent(list)
BY LookupExact DEF Coherent, ListInv

(* The walk back from tip stops at the highest block both chains share.    *)
LEMMA KnownPrefixShared ==
  ASSUME NEW list, ListInv(list), NEW end \in Blocks
  PROVE  /\ KnownPrefix(list, end) \in 0 .. Len(ChainOf[end])
         /\ KnownPrefix(list, end) > 0 =>
              /\ KnownPrefix(list, end) <= Len(list.headers)
              /\ HeaderByBlockhash(list, ChainOf[end][KnownPrefix(list, end)])
              /\ list.headers[KnownPrefix(list, end)]
                   = ChainOf[end][KnownPrefix(list, end)]
              /\ SubSeq(list.headers, 1, KnownPrefix(list, end))
                   = SubSeq(ChainOf[end], 1, KnownPrefix(list, end))
<1> DEFINE n == Len(ChainOf[end])
           known == {i \in 1 .. n : HeaderByBlockhash(list, ChainOf[end][i])}
           k == KnownPrefix(list, end)
<1>1. n \in Nat /\ ChainOf[end] \in Seq(Blocks)
  BY ChainBasics
<1>2. CASE known = {}
  <2>1. k = 0
    BY <1>2 DEF KnownPrefix
  <2> QED BY <1>1, <2>1
<1>3. CASE known # {}
  <2>1. \E i \in known : \A j \in known : j <= i
    BY <1>1, <1>3, LargestElement
  <2>2. k = CHOOSE i \in known : \A j \in known : j <= i
    BY <1>3 DEF KnownPrefix
  <2>3. k \in known
    BY <2>1, <2>2
  <2>4. ChainOf[end][k] \in Blocks /\ ChainOf[end][k] \in Range(list.headers)
    BY <2>3, ChainBasics, LookupExact
  <2>5. list.headers \in Seq(Blocks)
    BY DEF ListInv, HeaderLists
  <2>6. PICK j \in 1 .. Len(list.headers) : list.headers[j] = ChainOf[end][k]
    BY <2>4, <2>5, LenProperties DEF Range
  <2>7. list.tip \in Blocks /\ list.headers = ChainOf[list.tip]
    BY <2>6, ListBlocks
  <2>8. k \in 1 .. Len(ChainOf[end])
    BY <2>3
  <2>9. j = k /\ SubSeq(ChainOf[list.tip], 1, j) = SubSeq(ChainOf[end], 1, j)
    BY <2>6, <2>7, <2>8, SharedPrefix
  <2>10. HeaderByBlockhash(list, ChainOf[end][k])
    BY <2>3
  <2> QED BY <2>6, <2>7, <2>8, <2>9, <2>10
<1> QED BY <1>2, <1>3

(* prev_blockhash of a block inside a chain is the block below it.         *)
LEMMA PrevInChain ==
  ASSUME NEW b \in Blocks, NEW i \in 1 .. Len(ChainOf[b])
  PROVE  PrevBlockhash(ChainOf[b][i])
           = IF i = 1 THEN NoBlock ELSE ChainOf[b][i-1]
<1>1. Height(ChainOf[b][i]) = i - 1 /\ i \in Nat
  BY HeightInChain, ChainBasics
<1>2. CASE i = 1
  BY <1>1, <1>2 DEF PrevBlockhash
<1>3. CASE i # 1
  <2>1. /\ ChainOf[ChainOf[b][i]] = SubSeq(ChainOf[b], 1, i)
        /\ \A j \in 1 .. i : ChainOf[b][j] \in Blocks
    BY ChainBasics
  <2>2. SubSeq(ChainOf[b], 1, i)[i-1] = ChainOf[b][i-1]
    BY <1>1, <1>3, <2>1, SubSeqProperties
  <2>3. i - 1 # 0
    BY <1>1, <1>3
  <2> QED BY <1>1, <1>3, <2>1, <2>2, <2>3 DEF PrevBlockhash
<1> QED BY <1>2, <1>3

(* The new headers are the rest of the tip's chain, above the shared prefix.*)
LEMMA NewHeadersAbovePrefix ==
  ASSUME NEW list, ListInv(list), NEW end \in Blocks,
         NEW k, k = KnownPrefix(list, end),
         NEW hashes, hashes = NewHeaders(list, end)
  PROVE  /\ k \in 0 .. Len(ChainOf[end])
         /\ hashes \in Seq(Blocks)
         /\ Len(hashes) = Len(ChainOf[end]) - k
         /\ DOMAIN hashes = 1 .. Len(hashes)
         /\ \A i \in 1 .. Len(hashes) : hashes[i] = ChainOf[end][k + i]
         /\ hashes = << >> <=> k = Len(ChainOf[end])
<1>1. k \in 0 .. Len(ChainOf[end]) /\ Len(ChainOf[end]) \in Nat
  BY KnownPrefixShared, ChainBasics
<1>2. /\ k + 1 \in Int /\ Len(ChainOf[end]) \in Int
      /\ \A i \in k + 1 .. Len(ChainOf[end]) : ChainOf[end][i] \in Blocks
  BY <1>1, ChainBasics
<1>3. hashes = SubSeq(ChainOf[end], k + 1, Len(ChainOf[end]))
  BY DEF NewHeaders
<1>4. /\ hashes \in Seq(Blocks)
      /\ Len(hashes) = IF k + 1 <= Len(ChainOf[end])
                       THEN Len(ChainOf[end]) - (k + 1) + 1 ELSE 0
      /\ \A i \in 1 .. Len(ChainOf[end]) - (k + 1) + 1 :
           hashes[i] = ChainOf[end][k + 1 + i - 1]
  BY <1>2, <1>3, SubSeqProperties
<1>5. Len(hashes) = Len(ChainOf[end]) - k
  BY <1>1, <1>4
<1>6. ASSUME NEW i \in 1 .. Len(hashes) PROVE hashes[i] = ChainOf[end][k + i]
  <2>1. i \in 1 .. Len(ChainOf[end]) - (k + 1) + 1 /\ k + 1 + i - 1 = k + i
    BY <1>1, <1>5
  <2> QED BY <1>4, <2>1
<1>7. hashes = << >> <=> k = Len(ChainOf[end])
  BY <1>1, <1>4, <1>5, EmptySeq
<1> QED BY <1>1, <1>4, <1>5, <1>6, <1>7, LenProperties

(* order() finds the parent of the first new header, and numbers the new   *)
(* headers with their heights.                                             *)
LEMMA OrderNewHeaders ==
  ASSUME NEW list, ListInv(list), NEW end \in Blocks,
         NEW k, k = KnownPrefix(list, end),
         NEW hashes, hashes = NewHeaders(list, end)
  PROVE  /\ OrderOk(list, hashes)
         /\ FirstHeight(list, hashes) = IF hashes = << >> THEN 0 ELSE k
         /\ Order(list, hashes) \in [height : Nat, hashes : Seq(Blocks)]
<1>1. /\ k \in 0 .. Len(ChainOf[end])
      /\ hashes \in Seq(Blocks)
      /\ Len(hashes) = Len(ChainOf[end]) - k
      /\ \A i \in 1 .. Len(hashes) : hashes[i] = ChainOf[end][k + i]
      /\ hashes = << >> <=> k = Len(ChainOf[end])
  <2>1. ListInv(list) /\ end \in Blocks /\ k = KnownPrefix(list, end) /\ hashes = NewHeaders(list, end)
    OBVIOUS
  <2>2. /\ k \in 0 .. Len(ChainOf[end]) /\ hashes \in Seq(Blocks)
        /\ Len(hashes) = Len(ChainOf[end]) - k /\ (hashes = << >> <=> k = Len(ChainOf[end]))
    BY ONLY <2>1, NewHeadersAbovePrefix
  <2>3. \A i \in 1 .. Len(hashes) : hashes[i] = ChainOf[end][k + i]
    BY ONLY <2>1, NewHeadersAbovePrefix
  <2> QED BY <2>2, <2>3
<1>2. Len(ChainOf[end]) \in Nat \ {0} /\ k \in Nat
  BY <1>1, ChainBasics
<1>3. CASE hashes = << >>
  BY <1>1, <1>3 DEF OrderOk, FirstHeight, Order
<1>4. CASE hashes # << >>
  <2>1. /\ 1 \in 1 .. Len(hashes)
        /\ k + 1 \in 1 .. Len(ChainOf[end])
    BY <1>1, <1>2, <1>4
  <2>2. hashes[1] = ChainOf[end][k + 1]
    BY <1>1, <2>1
  <2>3. PrevBlockhash(hashes[1]) = IF k + 1 = 1 THEN NoBlock
                                   ELSE ChainOf[end][k + 1 - 1]
    <3>1. PICK i \in 1 .. Len(ChainOf[end]) : i = k + 1
      BY <2>1
    <3>2. PrevBlockhash(ChainOf[end][i])
            = IF i = 1 THEN NoBlock ELSE ChainOf[end][i - 1]
      BY PrevInChain
    <3>3. hashes[1] = ChainOf[end][i]
      BY <2>2, <3>1
    <3>4. PrevBlockhash(hashes[1])
            = IF i = 1 THEN NoBlock ELSE ChainOf[end][i - 1]
      BY <3>2, <3>3
    <3> QED BY <1>2, <3>1, <3>4
  <2>4. CASE k = 0
    <3>1. PrevBlockhash(hashes[1]) = NoBlock
      BY <2>3, <2>4
    <3> QED BY <1>1, <1>4, <2>4, <3>1 DEF OrderOk, FirstHeight, Order
  <2>5. CASE k # 0
    <3>1. k \in 1 .. Len(ChainOf[end]) /\ ChainOf[end][k] \in Blocks
      BY <1>1, <1>2, <2>5, ChainBasics
    <3>2. PrevBlockhash(hashes[1]) = ChainOf[end][k]
      BY <1>2, <2>3, <2>5
    <3>3. HeaderByBlockhash(list, ChainOf[end][k])
      BY <1>2, <2>5, KnownPrefixShared
    <3>4. ChainOf[end][k] \in Range(list.headers) /\ Height(ChainOf[end][k]) = k - 1
      BY <3>1, <3>3, LookupExact, HeightInChain
    <3>5. list.heights[ChainOf[end][k]] = k - 1
      BY <3>4 DEF ListInv
    <3>6. ChainOf[end][k] # NoBlock
      BY <3>1, NoBlockAssumption
    <3>7. FirstHeight(list, hashes) = k
      BY <1>2, <1>4, <3>2, <3>5, <3>6 DEF FirstHeight
    <3> QED BY <1>1, <1>2, <1>4, <3>2, <3>3, <3>7 DEF OrderOk, Order
  <2> QED BY <2>4, <2>5
<1> QED BY <1>3, <1>4

(* apply() of those headers: its assertions hold, and the list is then the *)
(* chain of tip; unless tip was in the list already, which stays as it is. *)
LEMMA ApplyNewHeaders ==
  ASSUME NEW list, ListInv(list), NEW end \in Blocks,
         NEW above, above = Order(list, NewHeaders(list, end))
  PROVE  /\ ApplyOk(list, above)
         /\ IF above.hashes = << >>
            THEN /\ end \in Range(list.headers)
                 /\ Apply(list, above) = list
            ELSE /\ Apply(list, above).headers = ChainOf[end]
                 /\ Apply(list, above).tip = end
<1> DEFINE k == KnownPrefix(list, end)
           hashes == NewHeaders(list, end)
           n == Len(ChainOf[end])
<1>1. /\ k \in 0 .. n
      /\ hashes \in Seq(Blocks)
      /\ Len(hashes) = n - k
      /\ \A i \in 1 .. Len(hashes) : hashes[i] = ChainOf[end][k + i]
      /\ hashes = << >> <=> k = n
  BY NewHeadersAbovePrefix
<1>2. /\ n \in Nat \ {0} /\ k \in Nat
      /\ ChainOf[end] \in Seq(Blocks) /\ ChainOf[end][n] = end
  BY <1>1, ChainBasics
<1>3. above.hashes = hashes
      /\ above.height = IF hashes = << >> THEN 0 ELSE k
  BY OrderNewHeaders DEF Order
<1>4. k > 0 => /\ k <= Len(list.headers)
               /\ HeaderByBlockhash(list, ChainOf[end][k])
               /\ list.headers[k] = ChainOf[end][k]
               /\ SubSeq(list.headers, 1, k) = SubSeq(ChainOf[end], 1, k)
  BY KnownPrefixShared
<1>5. list.headers \in Seq(Blocks) /\ Len(list.headers) \in Nat
  BY LenProperties DEF ListInv, HeaderLists
<1> HIDE DEF k, hashes, n
<1>6. CASE hashes = << >>
  <2>1. k = n /\ k > 0
    BY <1>1, <1>2, <1>6
  <2>2. HeaderByBlockhash(list, end)
    BY <1>2, <1>4, <2>1
  <2> QED BY <1>3, <1>6, <2>2, LookupExact DEF ApplyOk, Apply
<1>7. CASE hashes # << >>
  <2>1. 1 \in 1 .. Len(hashes) /\ k + 1 \in 1 .. n
    BY <1>1, <1>2, <1>7
  <2>2. PrevBlockhash(hashes[1]) = IF k + 1 = 1 THEN NoBlock
                                   ELSE ChainOf[end][k + 1 - 1]
    BY <1>1, <2>1, PrevInChain DEF n
  <2>3. ApplyOk(list, above)
    <3>1. CASE k = 0
      BY <1>3, <1>5, <1>7, <2>2, <3>1 DEF ApplyOk
    <3>2. CASE k # 0
      <4>1. PrevBlockhash(hashes[1]) = list.headers[k] /\ k <= Len(list.headers)
        BY <1>2, <1>4, <2>2, <3>2
      <4> QED BY <1>3, <1>7, <3>2, <4>1 DEF ApplyOk
    <3> QED BY <3>1, <3>2
  <2>4. SubSeq(list.headers, 1, k) = SubSeq(ChainOf[end], 1, k)
    <3>1. CASE k = 0
      BY <3>1, SubSeqEmpty
    <3>2. CASE k # 0
      BY <1>2, <1>4, <3>2
    <3> QED BY <3>1, <3>2
  <2>5. hashes = SubSeq(ChainOf[end], k + 1, n)
    BY DEF hashes, k, n, NewHeaders
  <2>6. SubSeq(ChainOf[end], 1, k) \o SubSeq(ChainOf[end], k + 1, n)
          = SubSeq(ChainOf[end], 1, n)
    <3>1. /\ 1 \in 1 .. n + 1
          /\ k \in 1 - 1 .. n
          /\ n \in k .. n
      BY <1>1, <1>2
    <3> QED BY <1>2, <3>1, ConcatAdjacentSubSeq DEF n
  <2>7. SubSeq(ChainOf[end], 1, n) = ChainOf[end]
    BY <1>2, SubSeqFull DEF n
  <2>8. Apply(list, above).headers = ChainOf[end]
    BY <1>3, <1>7, <2>4, <2>5, <2>6, <2>7 DEF Apply
  <2>9. Len(hashes) \in 1 .. Len(hashes) /\ k + Len(hashes) = n
    BY <1>1, <1>2, <2>1
  <2>10. Apply(list, above).tip = end
    BY <1>1, <1>2, <1>3, <1>7, <2>9 DEF Apply
  <2> QED BY <1>3, <1>7, <2>3, <2>8, <2>10
<1> QED BY <1>6, <1>7

(* ... and the list keeps ListInv: heights of the new headers are theirs,  *)
(* all others are as they were.                                            *)
LEMMA ApplyListInv ==
  ASSUME NEW list, ListInv(list), NEW end \in Blocks,
         NEW above, above = Order(list, NewHeaders(list, end))
  PROVE  ListInv(Apply(list, above))
<1> DEFINE k == KnownPrefix(list, end)
           hashes == NewHeaders(list, end)
           al == Apply(list, above)
<1>1. CASE above.hashes = << >>
  BY <1>1, ApplyNewHeaders
<1>2. CASE above.hashes # << >>
  <2>1. al.headers = ChainOf[end] /\ al.tip = end
    BY <1>2, ApplyNewHeaders
  <2>2. /\ k \in 0 .. Len(ChainOf[end])
        /\ hashes \in Seq(Blocks)
        /\ Len(hashes) = Len(ChainOf[end]) - k
        /\ DOMAIN hashes = 1 .. Len(hashes)
        /\ \A i \in 1 .. Len(hashes) : hashes[i] = ChainOf[end][k + i]
    BY NewHeadersAbovePrefix
  <2>3. above.hashes = hashes /\ above.height = k
    BY <1>2, OrderNewHeaders DEF Order
  <2>4. k \in Nat /\ Len(ChainOf[end]) \in Nat \ {0}
    BY <2>2, ChainBasics
  <2> HIDE DEF k, hashes
  <2>5. al.heights =
          [b \in Blocks |-> IF \E i \in DOMAIN hashes : hashes[i] = b
                            THEN k + (CHOOSE i \in DOMAIN hashes : hashes[i] = b) - 1
                            ELSE list.heights[b]]
    BY <1>2, <2>3 DEF Apply
  <2>6. ASSUME NEW i \in 1 .. Len(hashes)
        PROVE  Height(hashes[i]) = k + i - 1
    <3>1. k + i \in 1 .. Len(ChainOf[end]) /\ hashes[i] = ChainOf[end][k + i]
      BY <2>2, <2>4
    <3>2. Height(ChainOf[end][k + i]) = (k + i) - 1
      BY <3>1, HeightInChain
    <3> QED BY <2>4, <3>1, <3>2
  <2>7. ASSUME NEW b \in Blocks, \E i \in DOMAIN hashes : hashes[i] = b
        PROVE  al.heights[b] = Height(b)
    <3>1. DEFINE c == CHOOSE i \in DOMAIN hashes : hashes[i] = b
    <3>2. c \in 1 .. Len(hashes) /\ hashes[c] = b
      BY <2>2, <2>7
    <3>3. Height(b) = k + c - 1
      BY <2>6, <3>2
    <3>4. al.heights[b] = k + c - 1
      BY <2>5, <2>7
    <3> QED BY <3>3, <3>4
  <2>8. ASSUME NEW b \in Blocks, ~ \E i \in DOMAIN hashes : hashes[i] = b
        PROVE  al.heights[b] = list.heights[b]
    BY <2>5, <2>8
  <2>9. \A b \in Blocks : al.heights[b] \in {NoHeight, Height(b)}
    BY <2>7, <2>8 DEF ListInv
  <2>10. ASSUME NEW b \in Range(al.headers) PROVE al.heights[b] = Height(b)
    <3>1. PICK j \in 1 .. Len(ChainOf[end]) : ChainOf[end][j] = b
      BY <2>1, ChainBasics DEF Range
    <3>2. b \in Blocks
      BY <3>1, ChainBasics
    <3>3. CASE j > k
      <4>1. j - k \in 1 .. Len(hashes) /\ k + (j - k) = j
        BY <2>2, <2>4, <3>3
      <4>2. hashes[j - k] = b
        BY <2>2, <3>1, <4>1
      <4> QED BY <2>2, <2>7, <3>2, <4>1, <4>2
    <3>4. CASE j <= k
      <4>1. ~ \E i \in DOMAIN hashes : hashes[i] = b
        <5>1. Height(b) = j - 1
          BY <3>1, HeightInChain
        <5>2. \A i \in 1 .. Len(hashes) : hashes[i] = b => k + i - 1 = j - 1
          BY <2>6, <5>1
        <5> QED BY <2>2, <2>4, <3>4, <5>2
      <4>2. b \in Range(list.headers)
        <5>1. /\ k > 0 /\ k <= Len(list.headers)
              /\ SubSeq(list.headers, 1, k) = SubSeq(ChainOf[end], 1, k)
          BY <2>4, <3>4, KnownPrefixShared DEF k
        <5>2. list.headers \in Seq(Blocks) /\ DOMAIN list.headers = 1 .. Len(list.headers)
              /\ Len(list.headers) \in Nat
          BY LenProperties DEF ListInv, HeaderLists
        <5>3. \A i \in 1 .. k : list.headers[i] \in Blocks
          BY <2>4, <5>1, <5>2, ElementOfSeq
        <5>4. SubSeq(list.headers, 1, k)[j] = list.headers[j]
          BY <2>4, <3>4, <5>3, SubSeqProperties
        <5>5. SubSeq(ChainOf[end], 1, k)[j] = ChainOf[end][j]
          <6>1. \A i \in 1 .. k : ChainOf[end][i] \in Blocks
            BY <2>2, <2>4, ChainBasics
          <6> QED BY <2>4, <3>4, <6>1, SubSeqProperties
        <5> QED BY <2>4, <3>1, <3>4, <5>1, <5>2, <5>4, <5>5 DEF Range
      <4> QED BY <2>8, <3>2, <4>1, <4>2 DEF ListInv
    <3> QED BY <2>4, <3>3, <3>4
  <2>11. al \in HeaderLists
    <3>1. al.headers \in Seq(Blocks)
      BY <2>1, ChainBasics
    <3>2. al.heights \in [Blocks -> Nat \cup {NoHeight}]
      <4>1. \A b \in Blocks : al.heights[b] \in Nat \cup {NoHeight}
        BY <2>9, ChainBasics
      <4> QED BY <2>5, <4>1
    <3>3. al = [headers |-> al.headers, heights |-> al.heights, tip |-> al.tip]
      BY <1>2 DEF Apply
    <3> QED BY <2>1, <3>1, <3>2, <3>3 DEF HeaderLists
  <2> QED BY <2>1, <2>9, <2>10, <2>11, NoBlockAssumption DEF ListInv
<1> QED BY <1>1, <1>2

(* The blocks of the new chain are in the list or among the new headers.   *)
LEMMA NewChainCovered ==
  ASSUME NEW list, ListInv(list), NEW end \in Blocks,
         NEW above, above = Order(list, NewHeaders(list, end))
  PROVE  /\ Ancestors(end) \subseteq Range(list.headers) \cup Range(above.hashes)
         /\ Range(above.hashes) \subseteq Ancestors(end)
         /\ Range(Apply(list, above).headers)
              \subseteq Range(list.headers) \cup Range(above.hashes)
<1> DEFINE k == KnownPrefix(list, end)
           hashes == NewHeaders(list, end)
<1>1. /\ k \in 0 .. Len(ChainOf[end])
      /\ Len(hashes) = Len(ChainOf[end]) - k
      /\ DOMAIN hashes = 1 .. Len(hashes)
      /\ \A i \in 1 .. Len(hashes) : hashes[i] = ChainOf[end][k + i]
  BY NewHeadersAbovePrefix
<1>2. k \in Nat /\ Len(ChainOf[end]) \in Nat \ {0} /\ above.hashes = hashes
  BY <1>1, ChainBasics DEF Order
<1>3. ASSUME NEW b \in Ancestors(end)
      PROVE  b \in Range(list.headers) \cup Range(above.hashes)
  <2>1. PICK j \in 1 .. Len(ChainOf[end]) : ChainOf[end][j] = b
    BY ChainBasics DEF Ancestors, Range
  <2>2. CASE j > k
    <3>1. j - k \in 1 .. Len(hashes) /\ k + (j - k) = j
      BY <1>1, <1>2, <2>2
    <3> QED BY <1>1, <1>2, <2>1, <3>1 DEF Range
  <2>3. CASE j <= k
    <3>1. k \in 1 .. Len(ChainOf[end]) /\ k > 0
      BY <1>1, <1>2, <2>3
    <3>2. HeaderByBlockhash(list, ChainOf[end][k])
      BY <3>1, KnownPrefixShared
    <3>3. ChainOf[end][k] \in Range(list.headers) /\ ChainOf[end][k] \in Blocks
      BY <3>1, <3>2, LookupExact, ChainBasics
    <3>4. PICK i \in DOMAIN list.headers : list.headers[i] = ChainOf[end][k]
      BY <3>3 DEF Range
    <3>5. i \in 1 .. Len(list.headers) /\ DOMAIN list.headers = 1 .. Len(list.headers)
      BY <3>4, LenProperties DEF ListInv, HeaderLists
    <3>6. list.tip \in Blocks /\ list.headers = ChainOf[list.tip]
      BY <3>5, ListBlocks
    <3>7. i = k /\ \A m \in 1 .. k : ChainOf[end][m] = ChainOf[list.tip][m]
      BY <3>1, <3>4, <3>5, <3>6, SharedPrefix
    <3>8. j \in DOMAIN list.headers /\ list.headers[j] = b
      BY <1>2, <2>1, <2>3, <3>5, <3>6, <3>7
    <3> QED BY <3>8 DEF Range
  <2> QED BY <1>2, <2>2, <2>3
<1>4. ASSUME NEW b \in Range(above.hashes) PROVE b \in Ancestors(end)
  <2>1. PICK i \in 1 .. Len(hashes) : hashes[i] = b
    BY <1>1, <1>2 DEF Range
  <2>2. k + i \in 1 .. Len(ChainOf[end])
    BY <1>1, <1>2
  <2> QED BY <1>1, <2>1, <2>2, ChainBasics DEF Ancestors, Range
<1>5. Range(Apply(list, above).headers)
        \subseteq Range(list.headers) \cup Range(above.hashes)
  <2>1. CASE above.hashes = << >>
    BY <2>1, ApplyNewHeaders
  <2>2. CASE above.hashes # << >>
    BY <1>3, <2>2, ApplyNewHeaders DEF Ancestors
  <2> QED BY <2>1, <2>2
<1> QED BY <1>3, <1>4, <1>5

(* HeaderList::new, from a stored tip.                                     *)
LEMMA FromTipList ==
  ASSUME NEW end \in Blocks
  PROVE  /\ ListInv(FromTip(end))
         /\ FromTip(end).tip = end
         /\ Range(FromTip(end).headers) = Ancestors(end)
<1>1. ListInv(Empty) /\ Range(Empty.headers) = {}
  BY EmptyList
<1>2. NewHeaders(Empty, end) = ChainOf[end]
  <2>1. ASSUME NEW b \in Blocks PROVE ~HeaderByBlockhash(Empty, b)
    BY DEF HeaderByBlockhash, Empty
  <2>2. KnownPrefix(Empty, end) = 0
    BY <2>1, ChainBasics DEF KnownPrefix
  <2>3. SubSeq(ChainOf[end], 1, Len(ChainOf[end])) = ChainOf[end]
    BY ChainBasics, SubSeqFull
  <2> QED BY <2>2, <2>3 DEF NewHeaders
<1> DEFINE above == Order(Empty, NewHeaders(Empty, end))
<1>3. ListInv(Apply(Empty, above))
  BY <1>1, ApplyListInv
<1>4. FromTip(end) = Apply(Empty, above)
  BY <1>2 DEF FromTip
<1>5. above.hashes # << >>
  <2>1. ChainOf[end] # << >>
    BY ChainBasics, EmptySeq
  <2> QED BY <1>2, <2>1 DEF Order
<1>6. Apply(Empty, above).headers = ChainOf[end] /\ Apply(Empty, above).tip = end
  BY <1>1, <1>5, ApplyNewHeaders
<1> QED BY <1>3, <1>4, <1>6 DEF Ancestors

-----------------------------------------------------------------------------
(* The thread                                                               *)

\* The steps of update() at which new_headers is set.
Prepared == UpdateSteps \ {"tip", "headers"}

(* Of either database at least the durable rows are visible, and nothing    *)
(* else once the thread writes with the log.                                *)
RowsInv ==
  /\ txDur \subseteq txMem /\ histDur \subseteq histMem
  /\ flush = "Enable" => txDur = txMem /\ histDur = histMem
  /\ TipDurable
  /\ ServedComplete

(* The in-memory state a running process has read or written agrees with    *)
(* the databases; the header list ends with the stored tip except between   *)
(* put_sync("t") and apply().                                               *)
ProcessInv ==
  /\ Up => added = txMem /\ indexed \subseteq histMem
  /\ Up /\ pc # "publish" => hl.tip = t
  /\ pc = "publish" => t = tip
  /\ pc = "down" => tip = NoBlock

(* How far the running update has got with the new headers.                 *)
UpdateInv ==
  /\ pc \in Prepared => new = Order(hl, NewHeaders(hl, tip))
  /\ pc = "add" => todo \subseteq NewBlocks /\ NewBlocks \subseteq txMem \cup todo
  /\ pc \in Prepared \ {"add"} => NewBlocks \subseteq txMem
  /\ pc = "index" => todo \subseteq NewBlocks /\ NewBlocks \subseteq histMem \cup todo
  /\ pc \in {"flushTx", "flushHist", "putTip", "publish"} =>
       NewBlocks \subseteq histMem
  /\ pc = "flushHist" => txDur = txMem
  /\ pc \in {"putTip", "publish"} => flush = "Enable"

(* While tapyrusd only moves to longer chains, nothing electrs holds is     *)
(* higher than its best block.                                              *)
ForwardInv ==
  ~CanRollBack =>
    /\ panic # "tip"
    /\ t # NoBlock => Height(t) <= Height(best)
    /\ tip # NoBlock => Height(tip) <= Height(best)
    /\ tip # NoBlock /\ hl.tip # NoBlock => Height(hl.tip) <= Height(tip)

(* What TypeOK says of each variable whatever pc is.                        *)
Places   == UpdateSteps \cup {"loop", "panicked", "down"}
NewLists == [height : Nat, hashes : Seq(Blocks)]
Sources  == {"Tapyrusd", "BlkFiles"}
Flushes  == {"Disable", "Enable"}
Stores   == SUBSET {"txstore", "history"}
Panics   == {"", "missing header", "chain moved", "not part of chain",
             "missing txo", "missing from store", "apply", "tip"}
MaybeBlocks == Blocks \cup {NoBlock}

FieldsTyped ==
  /\ best \in Blocks
  /\ txMem \in SUBSET Blocks /\ txDur \in SUBSET Blocks
  /\ histMem \in SUBSET Blocks /\ histDur \in SUBSET Blocks
  /\ t \in MaybeBlocks /\ tip \in MaybeBlocks
  /\ loopTip \in MaybeBlocks /\ current \in MaybeBlocks
  /\ pc \in Places /\ panic \in Panics
  /\ hl \in HeaderLists /\ new \in NewLists
  /\ added \in SUBSET Blocks /\ indexed \in SUBSET Blocks /\ todo \in SUBSET Blocks
  /\ from \in Sources /\ flush \in Flushes /\ compacted \in Stores
  /\ crashes \in 0 .. MaxCrashes

IInv ==
  /\ TypeOK
  /\ ListInv(hl)
  /\ RowsInv
  /\ ProcessInv
  /\ UpdateInv
  /\ NoIndexPanic
  /\ ForwardInv

-----------------------------------------------------------------------------
LEMMA InitIInv == Init => IInv
<1> SUFFICES ASSUME Init PROVE IInv
  OBVIOUS
<1>1. Empty \in HeaderLists /\ Range(Empty.headers) = {} /\ Empty.tip = NoBlock
  BY EmptyList DEF ListInv
<1>2. NothingNew \in [height : Nat, hashes : Seq(Blocks)]
  BY EmptySeq DEF NothingNew
<1>3. TypeOK
  <2>1. pc = "down" /\ pc \notin UpdateSteps \ {"tip"}
    BY DEF Init, UpdateSteps
  <2>3. crashes = 0 /\ MaxCrashes \in Nat
    BY IndexerAssumption DEF Init
  <2>2. compacted \in SUBSET {"txstore", "history"}
    BY DEF Init
  <2>4. crashes \in 0 .. MaxCrashes
    BY <2>3
  <2> QED BY <1>1, <1>2, <2>1, <2>2, <2>4 DEF Init, TypeOK
<1>4. RowsInv
  BY <1>1 DEF Init, RowsInv, TipDurable, ServedComplete
<1>5. ListInv(hl)
  BY EmptyList DEF Init
<1>6. ProcessInv
  BY DEF Init, ProcessInv, Up
<1>7. UpdateInv
  <2>1. pc = "down" /\ pc \notin Prepared
    BY DEF Init, Prepared, UpdateSteps
  <2> QED BY <2>1 DEF UpdateInv
<1>8. NoIndexPanic
  BY DEF Init, NoIndexPanic
<1>9. ForwardInv
  BY DEF Init, ForwardInv
<1> QED BY <1>3, <1>4, <1>5, <1>6, <1>7, <1>8, <1>9 DEF IInv

-----------------------------------------------------------------------------
(* tapyrusd and the end of a process.                                         *)
LEMMA DaemonMovesIInv ==
  ASSUME IInv, NEW b \in Blocks, DaemonMoves(b) PROVE IInv'
<1>11. TypeOK'
  <2>1. TypeOK
    BY DEF IInv
  <2>2. best' \in Blocks /\ UNCHANGED <<dbVars, procVars, crashes>>
    BY DEF DaemonMoves
  <2>3. UNCHANGED <<pc, tip, loopTip>>
    BY <2>2 DEF procVars
  <2>4. pc' \in UpdateSteps \ {"tip"} => tip' \in Blocks
    BY <2>1, <2>3 DEF TypeOK
  <2>5. pc' = "loop" => loopTip' \in Blocks
    BY <2>1, <2>3 DEF TypeOK
  <2>6. FieldsTyped
    BY <2>1 DEF TypeOK, FieldsTyped, Places, NewLists, Sources, Flushes, Stores, Panics, MaybeBlocks
  <2>7. FieldsTyped'
    BY <2>2, <2>6 DEF dbVars, procVars, FieldsTyped
  <2> QED BY <2>4, <2>5, <2>7 DEF FieldsTyped, TypeOK, Places, NewLists, Sources, Flushes, Stores, Panics, MaybeBlocks
<1>12. ListInv(hl)'
  BY DEF IInv, DaemonMoves, dbVars, procVars, ListInv
<1>13. RowsInv'
  BY DEF IInv, DaemonMoves, dbVars, procVars, RowsInv, TipDurable, ServedComplete
<1>14. ProcessInv'
  BY DEF IInv, DaemonMoves, dbVars, procVars, ProcessInv, Up
<1>15. UpdateInv'
  BY DEF IInv, DaemonMoves, dbVars, procVars, UpdateInv, Prepared, UpdateSteps,
     NewBlocks
<1>16. NoIndexPanic'
  BY DEF IInv, DaemonMoves, dbVars, procVars, NoIndexPanic
<1>17. ForwardInv'
  <2>1. CanRollBack \/ (best' = b /\ Height(b) > Height(best))
    BY DEF DaemonMoves
  <2>2. /\ \A c \in Blocks : Height(c) \in Nat
        /\ best \in Blocks
        /\ t \in Blocks \cup {NoBlock} /\ tip \in Blocks \cup {NoBlock}
    BY ChainBasics DEF IInv, TypeOK
  <2> QED
    BY <2>1, <2>2 DEF IInv, ForwardInv, DaemonMoves, dbVars, procVars
<1> QED BY <1>11, <1>12, <1>13, <1>14, <1>15, <1>16, <1>17 DEF IInv

LEMMA PanicIInv ==
  ASSUME IInv, NEW why \in {"chain moved", "tip"}, Panic(why),
         CanRollBack \/ why # "tip"
  PROVE IInv'
<1>11. TypeOK'
  BY DEF IInv, Panic, dbVars, TypeOK, UpdateSteps
<1>12. ListInv(hl)'
  BY DEF IInv, Panic, dbVars, ListInv
<1>13. RowsInv'
  BY DEF IInv, Panic, dbVars, RowsInv, TipDurable, ServedComplete
<1>14. ProcessInv'
  BY DEF IInv, Panic, dbVars, ProcessInv, Up
<1>15. UpdateInv'
  BY DEF IInv, Panic, dbVars, UpdateInv, Prepared, UpdateSteps,
     NewBlocks
<1>16. NoIndexPanic'
  BY DEF IInv, Panic, dbVars, NoIndexPanic
<1>17. ForwardInv'
  BY DEF IInv, Panic, dbVars, ForwardInv
<1> QED BY <1>11, <1>12, <1>13, <1>14, <1>15, <1>16, <1>17 DEF IInv

LEMMA OpenIInv ==
  ASSUME IInv, Open PROVE IInv'
<1>1. t \in Blocks \cup {NoBlock} /\ txDur \subseteq txMem
      /\ histDur \subseteq histMem /\ tip = NoBlock
  BY DEF IInv, TypeOK, RowsInv, Open, ProcessInv
<1>2. t # NoBlock => Ancestors(t) \subseteq txMem /\ Ancestors(t) \subseteq histMem
  BY <1>1 DEF IInv, RowsInv, TipDurable
<1>3. /\ hl' = IF t = NoBlock THEN Empty ELSE FromTip(t)
      /\ added' = txMem /\ indexed' = histMem
      /\ from' \in {"Tapyrusd", "BlkFiles"}
      /\ pc' = "tip"
      /\ UNCHANGED <<best, dbVars, flush, tip, new, todo, loopTip, current,
                     panic, crashes>>
  BY <1>2 DEF Open
<1>4. ListInv(hl') /\ hl'.tip = t
  BY <1>1, <1>3, EmptyList, FromTipList
<1>5. Range(hl'.headers) \subseteq txMem \cap histMem
  BY <1>1, <1>2, <1>3, EmptyList, FromTipList
<1>11. TypeOK'
  BY <1>3, <1>4 DEF IInv, TypeOK, ListInv, UpdateSteps, dbVars
<1>12. ListInv(hl)'
  BY <1>4
<1>13. RowsInv'
  BY <1>3, <1>5 DEF IInv, RowsInv, TipDurable, ServedComplete, dbVars
<1>14. ProcessInv'
  BY <1>1, <1>3, <1>4 DEF ProcessInv, Up, dbVars
<1>15. UpdateInv'
  BY <1>3 DEF UpdateInv, Prepared, UpdateSteps
<1>16. NoIndexPanic'
  BY <1>3 DEF IInv, NoIndexPanic
<1>17. ForwardInv'
  BY <1>1, <1>3 DEF IInv, ForwardInv, dbVars
<1> QED BY <1>11, <1>12, <1>13, <1>14, <1>15, <1>16, <1>17 DEF IInv

LEMMA DieIInv ==
  ASSUME IInv, Die, crashes' \in 0 .. MaxCrashes PROVE IInv'
<1>1. /\ hl' = Empty /\ new' = NothingNew
      /\ ListInv(Empty) /\ Empty.tip = NoBlock /\ Range(Empty.headers) = {}
  BY EmptyList DEF Die
<1>2. NothingNew \in [height : Nat, hashes : Seq(Blocks)]
  BY EmptySeq DEF NothingNew
<1>11. TypeOK'
  BY <1>1, <1>2 DEF IInv, TypeOK, Die, ListInv, UpdateSteps
<1>12. ListInv(hl)'
  BY <1>1
<1>13. RowsInv'
  BY <1>1 DEF IInv, RowsInv, TipDurable, ServedComplete, Die
<1>14. ProcessInv'
  BY DEF Die, ProcessInv, Up
<1>15. UpdateInv'
  BY DEF Die, UpdateInv, Prepared, UpdateSteps
<1>16. NoIndexPanic'
  BY DEF Die, NoIndexPanic
<1>17. ForwardInv'
  BY <1>1 DEF IInv, ForwardInv, Die
<1> QED BY <1>11, <1>12, <1>13, <1>14, <1>15, <1>16, <1>17 DEF IInv

LEMMA CrashIInv == ASSUME IInv, Crash \/ PanicExit PROVE IInv'
<1>1. crashes \in 0 .. MaxCrashes /\ MaxCrashes \in Nat
  BY IndexerAssumption DEF IInv, TypeOK
<1>2. Die /\ crashes' \in 0 .. MaxCrashes
  BY <1>1 DEF Crash, PanicExit
<1> QED BY <1>2, DieIInv

LEMMA MemtableFlushIInv ==
  ASSUME IInv, MemtableFlush PROVE IInv'
<1>11. TypeOK'
  <2>1. TypeOK
    BY DEF IInv
  <2>2. UNCHANGED <<best, txMem, histMem, t, compacted, procVars, crashes>>
    BY DEF MemtableFlush
  <2>3. UNCHANGED <<pc, tip, loopTip>>
    BY <2>2 DEF procVars
  <2>4. pc' \in UpdateSteps \ {"tip"} => tip' \in Blocks
    BY <2>1, <2>3 DEF TypeOK
  <2>5. pc' = "loop" => loopTip' \in Blocks
    BY <2>1, <2>3 DEF TypeOK
  <2>6. txDur' \in SUBSET Blocks /\ histDur' \in SUBSET Blocks
    BY <2>1 DEF MemtableFlush, TypeOK
  <2>7. FieldsTyped
    BY <2>1 DEF TypeOK, FieldsTyped, Places, NewLists, Sources, Flushes, Stores, Panics, MaybeBlocks
  <2>8. FieldsTyped'
    BY <2>2, <2>6, <2>7 DEF procVars, FieldsTyped
  <2> QED BY <2>4, <2>5, <2>8 DEF FieldsTyped, TypeOK, Places, NewLists, Sources, Flushes, Stores, Panics, MaybeBlocks
<1>12. ListInv(hl)'
  BY DEF IInv, MemtableFlush, procVars, ListInv
<1>13. RowsInv'
  BY DEF IInv, MemtableFlush, procVars, RowsInv, TipDurable, ServedComplete
<1>14. ProcessInv'
  BY DEF IInv, MemtableFlush, procVars, ProcessInv, Up
<1>15. UpdateInv'
  BY DEF IInv, MemtableFlush, procVars, UpdateInv, Prepared, UpdateSteps,
     NewBlocks
<1>16. NoIndexPanic'
  BY DEF IInv, MemtableFlush, procVars, NoIndexPanic
<1>17. ForwardInv'
  BY DEF IInv, MemtableFlush, procVars, ForwardInv
<1> QED BY <1>11, <1>12, <1>13, <1>14, <1>15, <1>16, <1>17 DEF IInv

-----------------------------------------------------------------------------
(* The steps of update().                                                    *)
LEMMA GetBestBlockHashIInv ==
  ASSUME IInv, GetBestBlockHash PROVE IInv'
<1>11. TypeOK'
  BY DEF IInv, GetBestBlockHash, dbVars, TypeOK, UpdateSteps
<1>12. ListInv(hl)'
  BY DEF IInv, GetBestBlockHash, dbVars
<1>13. RowsInv'
  BY DEF IInv, GetBestBlockHash, dbVars, RowsInv, TipDurable, ServedComplete
<1>14. ProcessInv'
  BY DEF IInv, GetBestBlockHash, dbVars, ProcessInv, Up
<1>15. UpdateInv'
  BY DEF IInv, GetBestBlockHash, dbVars, UpdateInv, Prepared, UpdateSteps,
     NewBlocks
<1>16. NoIndexPanic'
  BY DEF IInv, GetBestBlockHash, dbVars, NoIndexPanic
<1>17. ForwardInv'
  <2>1. tip' = best /\ hl.tip = t /\ best \in Blocks /\ Height(best) \in Nat
    BY ChainBasics DEF IInv, GetBestBlockHash, TypeOK, ProcessInv, Up
  <2> QED BY <2>1 DEF IInv, ForwardInv, GetBestBlockHash, dbVars
<1> QED BY <1>11, <1>12, <1>13, <1>14, <1>15, <1>16, <1>17 DEF IInv

LEMMA GetNewHeadersIInv ==
  ASSUME IInv, GetNewHeaders PROVE IInv'
<1> DEFINE hashes == NewHeaders(hl, tip)
<1>1. tip \in Blocks /\ ListInv(hl) /\ added = txMem /\ pc = "headers" /\ hl.tip = t
  BY DEF IInv, GetNewHeaders, TypeOK, ProcessInv, Up, UpdateSteps
<1>2. OrderOk(hl, hashes) /\ Order(hl, hashes) \in [height : Nat, hashes : Seq(Blocks)]
  BY <1>1, OrderNewHeaders
<1>3. Range(hashes) \subseteq Blocks
  BY <1>2, RangeOfSeq DEF Order
<1>4. CASE Panic("chain moved")
  BY <1>4, PanicIInv
<1>5. SUFFICES ASSUME ~Panic("chain moved") PROVE IInv'
  BY <1>4
<1>6. /\ new' = Order(hl, hashes)
      /\ todo' = Range(hashes) \ added
      /\ pc' = "add"
      /\ UNCHANGED <<best, dbVars, hl, added, indexed, from, flush, tip,
                     loopTip, current, panic, crashes>>
  BY <1>2, <1>5 DEF GetNewHeaders
<1>7. Range(new'.hashes) = Range(hashes)
  BY <1>6 DEF Order
<1> HIDE DEF hashes
<1>11. TypeOK'
  BY <1>1, <1>2, <1>3, <1>6 DEF IInv, TypeOK, dbVars, UpdateSteps
<1>12. ListInv(hl)'
  BY <1>1, <1>2, <1>3, <1>7, <1>6 DEF IInv, dbVars
<1>13. RowsInv'
  BY <1>1, <1>2, <1>3, <1>7, <1>6 DEF IInv, dbVars, RowsInv, TipDurable, ServedComplete
<1>14. ProcessInv'
  BY <1>1, <1>2, <1>3, <1>7, <1>6 DEF IInv, dbVars, ProcessInv, Up
<1>15. UpdateInv'
  BY <1>1, <1>7, <1>6 DEF UpdateInv, Prepared, UpdateSteps, NewBlocks,
     dbVars, hashes
<1>16. NoIndexPanic'
  BY <1>1, <1>2, <1>3, <1>7, <1>6 DEF IInv, dbVars, NoIndexPanic
<1>17. ForwardInv'
  BY <1>1, <1>2, <1>3, <1>7, <1>6 DEF IInv, dbVars, ForwardInv
<1> QED BY <1>11, <1>12, <1>13, <1>14, <1>15, <1>16, <1>17 DEF IInv

LEMMA AddBlocksIInv ==
  ASSUME IInv, AddBlocks PROVE IInv'
<1>1. PICK S \in Fetched : /\ WriteTxstore(S)
                          /\ added' = added \cup S
                          /\ todo' = todo \ S
  BY DEF AddBlocks
<1>2. /\ pc = "add" /\ S \subseteq todo
      /\ txMem' = txMem \cup S
      /\ txDur' = IF flush = "Enable" THEN txDur \cup S ELSE txDur
      /\ added' = added \cup S
      /\ todo' = todo \ S
      /\ UNCHANGED <<best, histMem, histDur, t, compacted, pc, hl, indexed,
                     from, flush, tip, new, loopTip, current, panic, crashes>>
  BY <1>1 DEF AddBlocks, Fetched, WriteTxstore
<1>11. TypeOK'
  BY <1>2 DEF IInv, TypeOK
<1>12. ListInv(hl)'
  BY <1>2 DEF IInv
<1>13. RowsInv'
  BY <1>2 DEF IInv, RowsInv, TipDurable, ServedComplete
<1>14. ProcessInv'
  BY <1>2 DEF IInv, ProcessInv, Up
<1>15. UpdateInv'
  BY <1>2 DEF IInv, UpdateInv, Prepared, UpdateSteps,
     NewBlocks
<1>16. NoIndexPanic'
  BY <1>2 DEF IInv, NoIndexPanic
<1>17. ForwardInv'
  BY <1>2 DEF IInv, ForwardInv
<1> QED BY <1>11, <1>12, <1>13, <1>14, <1>15, <1>16, <1>17 DEF IInv

LEMMA AddDoneIInv ==
  ASSUME IInv, AddDone PROVE IInv'
<1>1. /\ pc = "add" /\ todo = {} /\ pc' = "toIndex"
      /\ txDur' = txDur \/ txDur' = txMem
      /\ compacted' \in {compacted, compacted \cup {"txstore"}}
      /\ UNCHANGED <<best, txMem, histMem, histDur, t, hl, added, indexed,
                     from, flush, tip, new, todo, loopTip, current, panic,
                     crashes>>
  BY DEF AddDone
<1>11. TypeOK'
  <2>1. TypeOK
    BY DEF IInv
  <2>2. pc \in UpdateSteps \ {"tip"} /\ pc' \in UpdateSteps /\ pc' # "loop"
    BY <1>1 DEF UpdateSteps
  <2>3. txDur' \in SUBSET Blocks /\ compacted' \in SUBSET {"txstore", "history"}
    BY <1>1, <2>1 DEF TypeOK
  <2>4. tip \in Blocks
    BY <2>1, <2>2 DEF TypeOK
  <2> QED BY <1>1, <2>1, <2>2, <2>3, <2>4 DEF TypeOK
<1>12. ListInv(hl)'
  BY <1>1 DEF IInv
<1>13. RowsInv'
  BY <1>1 DEF IInv, RowsInv, TipDurable, ServedComplete
<1>14. ProcessInv'
  BY <1>1 DEF IInv, ProcessInv, Up
<1>15. UpdateInv'
  BY <1>1 DEF IInv, UpdateInv, Prepared, UpdateSteps,
     NewBlocks
<1>16. NoIndexPanic'
  BY <1>1 DEF IInv, NoIndexPanic
<1>17. ForwardInv'
  BY <1>1 DEF IInv, ForwardInv
<1> QED BY <1>11, <1>12, <1>13, <1>14, <1>15, <1>16, <1>17 DEF IInv

LEMMA StartIndexingIInv ==
  ASSUME IInv, StartIndexing PROVE IInv'
<1>1. /\ pc = "toIndex" /\ pc' = "index"
      /\ todo' = NewBlocks \ indexed
      /\ UNCHANGED <<best, dbVars, hl, added, indexed, from, flush, tip, new,
                     loopTip, current, panic, crashes>>
  BY DEF StartIndexing, HeadersToIndex
<1>11. TypeOK'
  <2>1. NewBlocks \in SUBSET Blocks
    BY RangeOfSeq DEF IInv, TypeOK, NewBlocks
  <2> QED BY <1>1, <2>1 DEF IInv, TypeOK, UpdateSteps, dbVars
<1>12. ListInv(hl)'
  BY <1>1 DEF IInv
<1>13. RowsInv'
  BY <1>1 DEF IInv, RowsInv, TipDurable, ServedComplete, dbVars
<1>14. ProcessInv'
  BY <1>1 DEF IInv, ProcessInv, Up, dbVars
<1>15. UpdateInv'
  BY <1>1 DEF IInv, UpdateInv, ProcessInv, Up, Prepared, UpdateSteps,
     NewBlocks, dbVars
<1>16. NoIndexPanic'
  BY <1>1 DEF IInv, NoIndexPanic
<1>17. ForwardInv'
  BY <1>1 DEF IInv, ForwardInv, dbVars
<1> QED BY <1>11, <1>12, <1>13, <1>14, <1>15, <1>16, <1>17 DEF IInv

LEMMA IndexBlocksIInv ==
  ASSUME IInv, IndexBlocks PROVE IInv'
<1>1. PICK S \in Fetched :
        IF ~(UNION {Ancestors(b) : b \in S} \subseteq txMem)
        THEN Panic("missing txo")
        ELSE IF ~(S \subseteq added)
        THEN Panic("missing from store")
        ELSE /\ WriteHistory(S)
             /\ todo' = todo \ S
             /\ UNCHANGED <<best, pc, hl, added, indexed, from, flush, tip,
                            new, loopTip, current, panic, crashes>>
  BY DEF IndexBlocks
<1>2. /\ pc = "index" /\ S \subseteq todo /\ todo \subseteq NewBlocks
      /\ tip \in Blocks /\ added = txMem /\ NewBlocks \subseteq txMem
      /\ new = Order(hl, NewHeaders(hl, tip)) /\ ListInv(hl)
      /\ Range(hl.headers) \subseteq txMem
  BY DEF IInv, IndexBlocks, Fetched, TypeOK, ProcessInv, Up, UpdateInv,
    Prepared, UpdateSteps, RowsInv, ServedComplete
<1>3. Ancestors(tip) \subseteq txMem /\ NewBlocks \subseteq Ancestors(tip)
  BY <1>2, NewChainCovered DEF NewBlocks
<1>4. UNION {Ancestors(b) : b \in S} \subseteq txMem /\ S \subseteq added
  BY <1>2, <1>3, AncestorsClosed
<1>5. /\ pc = "index" /\ S \subseteq todo
      /\ histMem' = histMem \cup S
      /\ histDur' = IF flush = "Enable" THEN histDur \cup S ELSE histDur
      /\ todo' = todo \ S
      /\ UNCHANGED <<best, txMem, txDur, t, compacted, pc, hl, added, indexed,
                     from, flush, tip, new, loopTip, current, panic, crashes>>
  BY <1>1, <1>2, <1>4 DEF WriteHistory
<1>11. TypeOK'
  BY <1>5 DEF IInv, TypeOK
<1>12. ListInv(hl)'
  BY <1>5 DEF IInv
<1>13. RowsInv'
  BY <1>5 DEF IInv, RowsInv, TipDurable, ServedComplete
<1>14. ProcessInv'
  BY <1>5 DEF IInv, ProcessInv, Up
<1>15. UpdateInv'
  BY <1>5 DEF IInv, UpdateInv, Prepared, UpdateSteps,
     NewBlocks
<1>16. NoIndexPanic'
  BY <1>5 DEF IInv, NoIndexPanic
<1>17. ForwardInv'
  BY <1>5 DEF IInv, ForwardInv
<1> QED BY <1>11, <1>12, <1>13, <1>14, <1>15, <1>16, <1>17 DEF IInv

LEMMA IndexDoneIInv ==
  ASSUME IInv, IndexDone PROVE IInv'
<1>1. /\ pc = "index" /\ todo = {}
      /\ pc' = IF flush = "Disable" THEN "flushTx" ELSE "putTip"
      /\ histDur' = histDur \/ histDur' = histMem
      /\ compacted' \in {compacted, compacted \cup {"history"}}
      /\ flush \in {"Disable", "Enable"}
      /\ UNCHANGED <<best, txMem, txDur, histMem, t, hl, added, indexed,
                     from, flush, tip, new, todo, loopTip, current, panic,
                     crashes>>
  BY DEF IInv, TypeOK, IndexDone
<1>11. TypeOK'
  <2>1. TypeOK
    BY DEF IInv
  <2>2. pc \in UpdateSteps \ {"tip"} /\ pc' \in UpdateSteps /\ pc' # "loop"
    BY <1>1 DEF UpdateSteps
  <2>3. histDur' \in SUBSET Blocks /\ compacted' \in SUBSET {"txstore", "history"}
    BY <1>1, <2>1 DEF TypeOK
  <2>4. tip \in Blocks
    BY <2>1, <2>2 DEF TypeOK
  <2> QED BY <1>1, <2>1, <2>2, <2>3, <2>4 DEF TypeOK
<1>12. ListInv(hl)'
  BY <1>1 DEF IInv
<1>13. RowsInv'
  BY <1>1 DEF IInv, RowsInv, TipDurable, ServedComplete
<1>14. ProcessInv'
  BY <1>1 DEF IInv, ProcessInv, Up
<1>15. UpdateInv'
  BY <1>1 DEF IInv, UpdateInv, Prepared, UpdateSteps,
     NewBlocks
<1>16. NoIndexPanic'
  BY <1>1 DEF IInv, NoIndexPanic
<1>17. ForwardInv'
  BY <1>1 DEF IInv, ForwardInv
<1> QED BY <1>11, <1>12, <1>13, <1>14, <1>15, <1>16, <1>17 DEF IInv

LEMMA FlushTxstoreIInv ==
  ASSUME IInv, FlushTxstore PROVE IInv'
<1>11. TypeOK'
  BY DEF IInv, FlushTxstore, TypeOK, UpdateSteps
<1>12. ListInv(hl)'
  BY DEF IInv, FlushTxstore
<1>13. RowsInv'
  BY DEF IInv, FlushTxstore, RowsInv, TipDurable, ServedComplete
<1>14. ProcessInv'
  BY DEF IInv, FlushTxstore, ProcessInv, Up
<1>15. UpdateInv'
  BY DEF IInv, FlushTxstore, UpdateInv, Prepared, UpdateSteps,
     NewBlocks
<1>16. NoIndexPanic'
  BY DEF IInv, FlushTxstore, NoIndexPanic
<1>17. ForwardInv'
  BY DEF IInv, FlushTxstore, ForwardInv
<1> QED BY <1>11, <1>12, <1>13, <1>14, <1>15, <1>16, <1>17 DEF IInv

LEMMA FlushHistoryIInv ==
  ASSUME IInv, FlushHistory PROVE IInv'
<1>11. TypeOK'
  BY DEF IInv, FlushHistory, TypeOK, UpdateSteps
<1>12. ListInv(hl)'
  BY DEF IInv, FlushHistory
<1>13. RowsInv'
  BY DEF IInv, FlushHistory, RowsInv, TipDurable, ServedComplete, UpdateInv
<1>14. ProcessInv'
  BY DEF IInv, FlushHistory, ProcessInv, Up
<1>15. UpdateInv'
  BY DEF IInv, FlushHistory, UpdateInv, Prepared, UpdateSteps,
     NewBlocks
<1>16. NoIndexPanic'
  BY DEF IInv, FlushHistory, NoIndexPanic
<1>17. ForwardInv'
  BY DEF IInv, FlushHistory, ForwardInv
<1> QED BY <1>11, <1>12, <1>13, <1>14, <1>15, <1>16, <1>17 DEF IInv

LEMMA PutTipIInv ==
  ASSUME IInv, PutTip PROVE IInv'
<1>1. /\ pc = "putTip" /\ tip \in Blocks /\ flush = "Enable"
      /\ NewBlocks \subseteq txMem \cap histMem
      /\ new = Order(hl, NewHeaders(hl, tip)) /\ ListInv(hl)
      /\ Range(hl.headers) \subseteq txMem \cap histMem
      /\ txDur = txMem /\ histDur = histMem
  BY DEF IInv, PutTip, TypeOK, UpdateInv, Prepared, UpdateSteps, RowsInv,
    ServedComplete
<1>2. Ancestors(tip) \subseteq txDur \cap histDur
  BY <1>1, NewChainCovered DEF NewBlocks
<1>11. TypeOK'
  BY <1>1 DEF IInv, PutTip, TypeOK, UpdateSteps
<1>12. ListInv(hl)'
  BY <1>1 DEF IInv, PutTip
<1>13. RowsInv'
  BY <1>1, <1>2 DEF IInv, PutTip, RowsInv, TipDurable, ServedComplete
<1>14. ProcessInv'
  BY <1>1 DEF IInv, PutTip, ProcessInv, Up
<1>15. UpdateInv'
  BY <1>1 DEF IInv, PutTip, UpdateInv, Prepared, UpdateSteps,
     NewBlocks
<1>16. NoIndexPanic'
  BY <1>1 DEF IInv, PutTip, NoIndexPanic
<1>17. ForwardInv'
  BY <1>1 DEF IInv, PutTip, ForwardInv
<1> QED BY <1>11, <1>12, <1>13, <1>14, <1>15, <1>16, <1>17 DEF IInv

LEMMA PublishIInv ==
  ASSUME IInv, Publish PROVE IInv'
<1> DEFINE al == Apply(hl, new)
<1>1. /\ pc = "publish" /\ tip \in Blocks /\ t = tip
      /\ new = Order(hl, NewHeaders(hl, tip)) /\ ListInv(hl)
      /\ Range(hl.headers) \subseteq txMem \cap histMem
      /\ NewBlocks \subseteq txMem \cap histMem
  BY DEF IInv, Publish, TypeOK, ProcessInv, UpdateInv, Prepared, UpdateSteps,
    RowsInv, ServedComplete
<1>2. ApplyOk(hl, new) /\ ListInv(al)
  BY <1>1, ApplyNewHeaders, ApplyListInv
<1>3. Range(al.headers) \subseteq txMem \cap histMem
  BY <1>1, NewChainCovered DEF NewBlocks
<1>4. CASE al.tip # tip
  <2>1. Panic("tip")
    BY <1>2, <1>4 DEF Publish
  <2>2. CanRollBack
    <3>1. tip \in Range(hl.headers) /\ al = hl
      BY <1>1, <1>4, ApplyNewHeaders
    <3>2. PICK i \in DOMAIN hl.headers : hl.headers[i] = tip
      BY <3>1 DEF Range
    <3>3. i \in 1 .. Len(hl.headers) /\ Len(hl.headers) \in Nat
      BY <1>1, <3>2, LenProperties DEF ListInv, HeaderLists
    <3>4. hl.tip \in Blocks /\ hl.headers = ChainOf[hl.tip]
      BY <1>1, <3>3, ListBlocks
    <3>5. Height(tip) = i - 1 /\ Height(hl.tip) = Len(hl.headers) - 1
      BY <3>2, <3>3, <3>4, HeightInChain DEF Height
    <3>6. ChainOf[hl.tip][Len(ChainOf[hl.tip])] = hl.tip
      BY <3>4, ChainBasics
    <3>7. i # Len(hl.headers)
      BY <1>4, <3>1, <3>2, <3>4, <3>6
    <3>8. Height(tip) < Height(hl.tip)
      BY <3>3, <3>5, <3>7
    <3>9. ~CanRollBack => Height(hl.tip) <= Height(tip)
      BY <1>1, <3>4, NoBlockAssumption DEF IInv, ForwardInv
    <3> QED BY <3>3, <3>5, <3>8, <3>9
  <2> QED BY <2>1, <2>2, PanicIInv
<1>5. SUFFICES ASSUME al.tip = tip PROVE IInv'
  BY <1>4
<1>6. /\ hl' = al /\ pc' = "loop" /\ tip' = NoBlock
      /\ new' = NothingNew /\ todo' = {} /\ current' = NoBlock
      /\ from' = "Tapyrusd"
      /\ loopTip' \in Blocks
      /\ UNCHANGED <<best, dbVars, added, indexed, flush, panic, crashes>>
  BY <1>1, <1>2, <1>5 DEF Publish, NextLoopTip, IInv, TypeOK
<1>7. NothingNew \in [height : Nat, hashes : Seq(Blocks)]
  BY EmptySeq DEF NothingNew
<1> HIDE DEF al
<1>11. TypeOK'
  BY <1>2, <1>6, <1>7 DEF IInv, TypeOK, dbVars, ListInv, UpdateSteps
<1>12. ListInv(hl)'
  BY <1>2, <1>6
<1>13. RowsInv'
  BY <1>3, <1>6 DEF IInv, RowsInv, TipDurable, ServedComplete, dbVars
<1>14. ProcessInv'
  BY <1>1, <1>5, <1>6 DEF IInv, ProcessInv, Up, dbVars
<1>15. UpdateInv'
  BY <1>6 DEF UpdateInv, Prepared, UpdateSteps
<1>16. NoIndexPanic'
  BY <1>6 DEF IInv, NoIndexPanic
<1>17. ForwardInv'
  BY <1>6 DEF IInv, ForwardInv, dbVars
<1> QED BY <1>11, <1>12, <1>13, <1>14, <1>15, <1>16, <1>17 DEF IInv

LEMMA PollTipIInv ==
  ASSUME IInv, PollTip PROVE IInv'
<1>11. TypeOK'
  BY DEF IInv, PollTip, dbVars, TypeOK, UpdateSteps
<1>12. ListInv(hl)'
  BY DEF IInv, PollTip, dbVars
<1>13. RowsInv'
  BY DEF IInv, PollTip, dbVars, RowsInv, TipDurable, ServedComplete
<1>14. ProcessInv'
  BY DEF IInv, PollTip, dbVars, ProcessInv, Up
<1>15. UpdateInv'
  BY DEF IInv, PollTip, dbVars, UpdateInv, Prepared, UpdateSteps,
     NewBlocks
<1>16. NoIndexPanic'
  BY DEF IInv, PollTip, dbVars, NoIndexPanic
<1>17. ForwardInv'
  BY DEF IInv, PollTip, dbVars, ForwardInv
<1> QED BY <1>11, <1>12, <1>13, <1>14, <1>15, <1>16, <1>17 DEF IInv

-----------------------------------------------------------------------------
LEMMA NextIInv == IInv /\ [Next]_vars => IInv'
<1> SUFFICES ASSUME IInv, [Next]_vars PROVE IInv'
  OBVIOUS
<1>1. ASSUME NEW b \in Blocks, DaemonMoves(b) PROVE IInv'
  BY <1>1, DaemonMovesIInv
<1>2. CASE Open
  BY <1>2, OpenIInv
<1>3. CASE Update
  BY <1>3, GetBestBlockHashIInv, GetNewHeadersIInv, AddBlocksIInv, AddDoneIInv,
    StartIndexingIInv, IndexBlocksIInv, IndexDoneIInv, FlushTxstoreIInv,
    FlushHistoryIInv, PutTipIInv, PublishIInv DEF Update
<1>4. CASE PollTip
  BY <1>4, PollTipIInv
<1>5. CASE Crash \/ PanicExit
  BY <1>5, CrashIInv
<1>6. CASE MemtableFlush
  BY <1>6, MemtableFlushIInv
<1>7. CASE UNCHANGED vars
  <2>1. /\ UNCHANGED <<best, txMem, txDur, histMem, histDur, t, compacted, pc, hl, added, indexed>>
        /\ UNCHANGED <<from, flush, tip, new, todo, loopTip, current, panic, crashes>>
    BY <1>7 DEF vars, dbVars, procVars
  <2>5. TypeOK'
    <3>1. TypeOK
      BY DEF IInv
    <3>3. UNCHANGED <<pc, tip, loopTip>>
      BY <2>1 DEF procVars
    <3>4. pc' \in UpdateSteps \ {"tip"} => tip' \in Blocks
      BY <3>1, <3>3 DEF TypeOK
    <3>5. pc' = "loop" => loopTip' \in Blocks
      BY <3>1, <3>3 DEF TypeOK
    <3>6. FieldsTyped
      BY <3>1 DEF TypeOK, FieldsTyped, Places, NewLists, Sources, Flushes, Stores, Panics, MaybeBlocks
    <3>7. FieldsTyped'
      BY <2>1, <3>6 DEF FieldsTyped
    <3> QED BY <3>4, <3>5, <3>7 DEF FieldsTyped, TypeOK, Places, NewLists, Sources, Flushes, Stores, Panics, MaybeBlocks
  <2>6. ListInv(hl)'
    BY <2>1 DEF IInv
  <2>7. NoIndexPanic'
    BY <2>1 DEF IInv, NoIndexPanic
  <2>2. RowsInv'
    BY <1>7 DEF IInv, vars, dbVars, procVars, RowsInv, TipDurable, ServedComplete
  <2>3. ProcessInv' /\ UpdateInv'
    BY <1>7 DEF IInv, vars, dbVars, procVars, ProcessInv, UpdateInv, Up, NewBlocks
  <2>4. ForwardInv'
    BY <1>7 DEF IInv, vars, dbVars, procVars, ForwardInv
  <2> QED BY <2>2, <2>3, <2>4, <2>5, <2>6, <2>7 DEF IInv
<1> QED BY <1>1, <1>2, <1>3, <1>4, <1>5, <1>6, <1>7 DEF Next, Thread

(* IInv holds throughout; it is what makes the invariants below inductive.  *)
THEOREM Invariance == Spec => []IInv
BY InitIInv, NextIInv, PTL DEF Spec

(* Every variable keeps its type; in particular run_server always has a tip *)
(* to compare with while it loops.                                          *)
THEOREM TypeCorrect == Spec => []TypeOK
<1>1. IInv => TypeOK
  BY DEF IInv
<1> QED BY <1>1, Invariance, PTL

(* A restart always finds the rows of the chain under "t", wherever the     *)
(* process died.                                                            *)
THEOREM RestartComplete == Spec => []TipDurable
<1>1. IInv => TipDurable
  BY DEF IInv, RowsInv
<1> QED BY <1>1, Invariance, PTL

(* The rows of each block of the header list are there for the queries.     *)
THEOREM QueriesComplete == Spec => []ServedComplete
<1>1. IInv => ServedComplete
  BY DEF IInv, RowsInv
<1> QED BY <1>1, Invariance, PTL

(* The header list is always one chain with exact lookups.                  *)
THEOREM ListCoherent == Spec => []HeaderListCoherent
<1>1. IInv => HeaderListCoherent
  BY ListInvCoherent DEF IInv, HeaderListCoherent
<1> QED BY <1>1, Invariance, PTL

(* No panic of Store::open, order(), apply() or index() is reachable.       *)
THEOREM UpdateNeverPanics == Spec => []NoIndexPanic
<1>1. IInv => NoIndexPanic
  BY DEF IInv
<1> QED BY <1>1, Invariance, PTL

(* The assertion on the tip after apply() holds as long as tapyrusd only    *)
(* moves to longer chains.                                                  *)
THEOREM TipAssertionForward == Spec => []TipAssertedForward
<1>1. IInv => TipAssertedForward
  BY DEF IInv, ForwardInv, TipAssertedForward, TipAsserted
<1> QED BY <1>1, Invariance, PTL

-----------------------------------------------------------------------------
LEMMA InitRefines == Init => CI!Init
BY EmptyList DEF Init, CI!Init

(* Under IInv each step of the thread is a step of ChainIndex or leaves its *)
(* variables alone.                                                         *)
LEMMA StepRefines == IInv /\ [Next]_vars => [CI!Next]_CI!vars
<1> SUFFICES ASSUME IInv, [Next]_vars PROVE [CI!Next]_CI!vars
  OBVIOUS
<1> USE DEF CI!Next, CI!vars
<1>1. ASSUME NEW b \in Blocks, DaemonMoves(b) PROVE CI!DaemonMoves
  BY <1>1 DEF DaemonMoves, CI!DaemonMoves, dbVars, procVars
<1>2. CASE Open
  <2>1. tip = NoBlock /\ t \in Blocks \cup {NoBlock}
    BY <1>2 DEF IInv, ProcessInv, Open, TypeOK
  <2>2. CASE pc' = "panicked"
    BY <1>2, <2>2 DEF Open, Panic, dbVars
  <2>3. CASE pc' # "panicked"
    <3>1. hl' = IF t = NoBlock THEN Empty ELSE FromTip(t)
      BY <1>2, <2>3 DEF Open, Panic
    <3>2. hl'.tip = t
      BY <2>1, <3>1, EmptyList, FromTipList
    <3>3. UNCHANGED <<best, t, tip>>
      BY <1>2, <2>3 DEF Open, Panic, dbVars
    <3> QED BY <2>1, <3>2, <3>3 DEF CI!Serve
  <2> QED BY <2>2, <2>3
<1>3. CASE GetBestBlockHash
  BY <1>3 DEF GetBestBlockHash, CI!Aim, dbVars
<1>4. CASE GetNewHeaders
  BY <1>4 DEF GetNewHeaders, Panic, dbVars
<1>5. CASE AddBlocks \/ AddDone
  BY <1>5 DEF AddBlocks, AddDone, WriteTxstore
<1>6. CASE StartIndexing
  BY <1>6 DEF StartIndexing, dbVars
<1>7. CASE IndexBlocks \/ IndexDone
  BY <1>7 DEF IndexBlocks, IndexDone, WriteHistory, Panic, dbVars
<1>8. CASE FlushTxstore \/ FlushHistory
  BY <1>8 DEF FlushTxstore, FlushHistory
<1>9. CASE PutTip
  <2>1. tip # NoBlock
    BY <1>9, NoBlockAssumption DEF PutTip, IInv, TypeOK, UpdateSteps
  <2> QED BY <1>9, <2>1 DEF PutTip, CI!Sync
<1>10. CASE Publish
  <2>1. t = tip
    BY <1>10 DEF Publish, IInv, ProcessInv
  <2> QED BY <1>10, <2>1 DEF Publish, Panic, dbVars, CI!Serve
<1>11. CASE PollTip
  BY <1>11 DEF PollTip, dbVars
<1>12. CASE Crash \/ PanicExit
  BY <1>12, EmptyList DEF Crash, PanicExit, Die, CI!Stop
<1>13. CASE MemtableFlush
  BY <1>13 DEF MemtableFlush, procVars
<1>14. CASE UNCHANGED vars
  BY <1>14 DEF vars, dbVars, procVars
<1> QED
  BY <1>1, <1>2, <1>3, <1>4, <1>5, <1>6, <1>7, <1>8, <1>9, <1>10, <1>11,
    <1>12, <1>13, <1>14 DEF Next, Thread, Update

(* The indexing thread implements ChainIndex.                               *)
THEOREM Refinement == Spec => ImplementsChainIndex
<1>1. Init => CI!Init
  BY InitRefines
<1>2. IInv /\ [Next]_vars => [CI!Next]_CI!vars
  BY StepRefines
<1> QED
  BY <1>1, <1>2, Invariance, PTL DEF Spec, CI!Spec, ImplementsChainIndex
=============================================================================
