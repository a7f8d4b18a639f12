-------------------------- MODULE ScriptCacheProofs --------------------------
(***************************************************************************)
(* The cached queries, for every tree of blocks, all transactions and any  *)
(* number of requests at the same time.  The expect of from_utxo_cache     *)
(* never fails, because the served chain only gets higher and what is      *)
(* cached was confirmed by one that was served (HeightInv).  Answers and   *)
(* cache rows are exact while nothing upsets them (CalmInv): statistics    *)
(* count at every row the rows of the chain that the scan is done with, a  *)
(* set of outputs lies between bounds that meet at the end (Scanning), and *)
(* the rows of a chain up to the block of the cache are those of that      *)
(* block's chain (RowsBelow).                                              *)
(***************************************************************************)
EXTENDS ScriptCache, SequenceTheorems, FiniteSetTheorems, TLAPS

AllKinds == {"utxo", "stats", "colored"}

\* The fields of a query
QueryFields ==
  {"pc", "kind", "base", "cached", "had", "start", "rows", "utxos", "stats", "seen", "last",
   "items", "unsaved"}

ShapeInv ==
  /\ q = [i \in Queries |-> q[i]]
  /\ \A i \in Queries : DOMAIN q[i] = QueryFields /\ q[i].kind \in AllKinds

-----------------------------------------------------------------------------
(* Chains                                                                   *)

\* A chain has its blocks at their heights.
LEMMA ChainFacts ==
  ASSUME NEW b \in Blocks
  PROVE  /\ ChainOf[b] \in Seq(Blocks) /\ Height(b) \in Nat /\ Len(ChainOf[b]) = Height(b) + 1
         /\ b \in Ancestors(b) /\ Ancestors(b) \subseteq Blocks
         /\ \A i \in 1 .. Height(b) + 1 :
              /\ ChainOf[b][i] \in Blocks /\ ChainOf[b][i] \in Ancestors(b)
              /\ Height(ChainOf[b][i]) = i - 1
<1>1. /\ ChainOf[b] \in Seq(Blocks) /\ Len(ChainOf[b]) \in Nat /\ Len(ChainOf[b]) >= 1
      /\ DOMAIN ChainOf[b] = 1 .. Len(ChainOf[b]) /\ ChainOf[b][Len(ChainOf[b])] = b
  BY ChainAssumption, LenProperties
<1>2. Height(b) \in Nat /\ Len(ChainOf[b]) = Height(b) + 1
  BY <1>1 DEF Height
<1>3. Ancestors(b) \subseteq Blocks
  BY <1>1, ElementOfSeq DEF Ancestors, Range
<1>4. ASSUME NEW i \in 1 .. Height(b) + 1
      PROVE  /\ ChainOf[b][i] \in Blocks /\ ChainOf[b][i] \in Ancestors(b)
             /\ Height(ChainOf[b][i]) = i - 1
  <2>1. ChainOf[b][i] \in Ancestors(b) /\ ChainOf[b][i] \in Blocks
    BY <1>1, <1>2, <1>3 DEF Ancestors, Range
  <2>2. ChainOf[ChainOf[b][i]] = SubSeq(ChainOf[b], 1, i)
    BY <1>1, <1>2, ChainAssumption
  <2>3. Len(SubSeq(ChainOf[b], 1, i)) = i
    BY <1>1, <1>2
  <2> QED BY <2>1, <2>2, <2>3 DEF Height
<1>5. b \in Ancestors(b)
  BY <1>1, <1>2, <1>4
<1> QED BY <1>1, <1>2, <1>3, <1>4, <1>5

\* A block has one place in the chains it is in.
LEMMA PlaceInChain ==
  ASSUME NEW b \in Blocks, NEW c \in Ancestors(b)
  PROVE  /\ c \in Blocks /\ Height(c) \in Nat /\ Height(c) <= Height(b)
         /\ ChainOf[b][Height(c) + 1] = c
<1>1. PICK i \in 1 .. Height(b) + 1 : ChainOf[b][i] = c
  <2>1. DOMAIN ChainOf[b] = 1 .. Height(b) + 1
    BY ChainFacts, LenProperties
  <2> QED BY <2>1 DEF Ancestors, Range
<1>2. Height(c) = i - 1 /\ Height(b) \in Nat
  BY <1>1, ChainFacts
<1> QED BY <1>1, <1>2, ChainFacts

\* The blocks of a chain up to one of them are the chain of that one.
LEMMA ChainBelow ==
  ASSUME NEW b \in Blocks, NEW c \in Ancestors(b)
  PROVE  Ancestors(c) = {d \in Ancestors(b) : Height(d) <= Height(c)}
<1> DEFINE n == Height(c) + 1
<1>1. /\ c \in Blocks /\ Height(c) \in Nat /\ Height(c) <= Height(b) /\ ChainOf[b][n] = c
      /\ Height(b) \in Nat
  BY PlaceInChain, ChainFacts
<1>2. n \in 1 .. Height(b) + 1 /\ n \in 1 .. Len(ChainOf[b]) /\ n \in Nat
  BY <1>1, ChainFacts
<1>3. ChainOf[c] = SubSeq(ChainOf[b], 1, n)
  BY <1>1, <1>2, ChainAssumption
<1>4. \A k \in 1 .. n : ChainOf[c][k] = ChainOf[b][k]
  <2>1. ChainOf[b] \in Seq(Blocks) /\ Len(ChainOf[b]) = Height(b) + 1
    BY ChainFacts
  <2> QED BY <1>1, <1>2, <1>3, <2>1
<1>5. ASSUME NEW d \in Ancestors(c) PROVE d \in Ancestors(b) /\ Height(d) <= Height(c)
  <2>1. Height(d) \in Nat /\ Height(d) <= Height(c) /\ ChainOf[c][Height(d) + 1] = d
    BY <1>1, PlaceInChain
  <2>2. Height(d) + 1 \in 1 .. n /\ Height(d) + 1 \in 1 .. Height(b) + 1
    BY <1>1, <2>1
  <2> QED BY <1>4, <2>1, <2>2, ChainFacts
<1>6. ASSUME NEW d \in Ancestors(b), Height(d) <= Height(c) PROVE d \in Ancestors(c)
  <2>1. Height(d) \in Nat /\ ChainOf[b][Height(d) + 1] = d
    BY PlaceInChain
  <2>2. Height(d) + 1 \in 1 .. Height(c) + 1
    BY <1>1, <1>6, <2>1
  <2>3. ChainOf[c][Height(d) + 1] = d
    BY <1>4, <2>1, <2>2
  <2>4. ChainOf[c][Height(d) + 1] \in Ancestors(c)
    BY <1>1, <2>2, ChainFacts
  <2> QED BY <2>3, <2>4
<1> QED BY <1>5, <1>6

\* Two blocks of a chain at one height are one.
LEMMA SamePlace ==
  ASSUME NEW b \in Blocks, NEW c \in Ancestors(b), NEW d \in Ancestors(b), Height(c) = Height(d)
  PROVE  c = d
BY PlaceInChain

\* The block that confirms a transaction
LEMMA Confirming ==
  ASSUME served \in Blocks, NEW x
  PROVE  LET b == TxConfirmingBlock(x)
         IN \/ b \in Ancestors(served) /\ b \in Blocks /\ b # NoBlock /\ x \in TxsOf[b]
            \/ b = NoBlock /\ \A c \in Ancestors(served) : x \notin TxsOf[c]
<1> DEFINE confs == {b \in Ancestors(served) : x \in TxsOf[b]}
<1>1. Ancestors(served) \subseteq Blocks
  BY ChainFacts
<1>2. CASE confs = {}
  BY <1>2 DEF TxConfirmingBlock
<1>3. CASE confs # {}
  <2>1. TxConfirmingBlock(x) \in confs
    BY <1>3 DEF TxConfirmingBlock
  <2> QED BY <1>1, <2>1, NoBlockAssumption
<1> QED BY <1>2, <1>3

-----------------------------------------------------------------------------
(* A step of a query                                                        *)

\* It sets the fields that it names and leaves the others, and the other queries.
LEMMA StepSets ==
  ASSUME ShapeInv, NEW i \in Queries, NEW c, Step(i, c), DOMAIN c \subseteq QueryFields,
         "kind" \in DOMAIN c => c.kind = q[i].kind
  PROVE  /\ ShapeInv'
         /\ \A j \in Queries : j # i => q'[j] = q[j]
         /\ q'[i].kind = q[i].kind
         /\ q'[i].pc = IF "pc" \in DOMAIN c THEN c.pc ELSE q[i].pc
         /\ q'[i].base = IF "base" \in DOMAIN c THEN c.base ELSE q[i].base
         /\ q'[i].cached = IF "cached" \in DOMAIN c THEN c.cached ELSE q[i].cached
         /\ q'[i].had = IF "had" \in DOMAIN c THEN c.had ELSE q[i].had
         /\ q'[i].start = IF "start" \in DOMAIN c THEN c.start ELSE q[i].start
         /\ q'[i].rows = IF "rows" \in DOMAIN c THEN c.rows ELSE q[i].rows
         /\ q'[i].utxos = IF "utxos" \in DOMAIN c THEN c.utxos ELSE q[i].utxos
         /\ q'[i].stats = IF "stats" \in DOMAIN c THEN c.stats ELSE q[i].stats
         /\ q'[i].seen = IF "seen" \in DOMAIN c THEN c.seen ELSE q[i].seen
         /\ q'[i].last = IF "last" \in DOMAIN c THEN c.last ELSE q[i].last
         /\ q'[i].unsaved = IF "unsaved" \in DOMAIN c THEN c.unsaved ELSE q[i].unsaved
         /\ UNCHANGED <<indexed, served, target>>
<1> DEFINE new == [f \in DOMAIN q[i] |-> IF f \in DOMAIN c THEN c[f] ELSE q[i][f]]
<1>1. q' = [q EXCEPT ![i] = new] /\ UNCHANGED <<indexed, served, target>>
  BY DEF Step, chainVars
<1>2. DOMAIN q = Queries
  BY DEF ShapeInv
<1>3. q' = [j \in Queries |-> IF j = i THEN new ELSE q[j]]
  BY <1>1, <1>2
<1>4. DOMAIN new = QueryFields /\ \A f \in QueryFields : new[f] = IF f \in DOMAIN c THEN c[f] ELSE q[i][f]
  BY DEF ShapeInv
<1>5. q'[i] = new /\ \A j \in Queries : j # i => q'[j] = q[j]
  BY <1>3
<1> HIDE DEF new
<1>6. new.kind = q[i].kind
  BY <1>4 DEF QueryFields
<1>7. ShapeInv'
  BY <1>3, <1>4, <1>5, <1>6 DEF ShapeInv
<1> QED BY <1>1, <1>4, <1>5, <1>6, <1>7 DEF QueryFields

-----------------------------------------------------------------------------
(* Heights                                                                  *)

\* Entries of a cached set of outputs that the served chain is high enough for
Within(entries) == \A u \in entries : u.height \in Nat /\ u.height <= Height(served)
Below(utxos) == \A u \in utxos : u.block \in Blocks /\ Height(u.block) <= Height(served)

\* What is cached, what a query has taken from the cache and what it has put together are
\* of heights that the served chain has.
HeightInv ==
  /\ ChainTypeOK /\ ShapeInv
  /\ Height(served) <= Height(target)
  /\ Within(utxoCache.utxos)
  /\ \A i \in Queries : Within(q[i].cached) /\ Below(q[i].utxos)
  /\ NoUtxoPanic

\* The served chain gets higher, if anything.
LEMMA Higher ==
  ASSUME HeightInv, served' \in Blocks, Height(served) <= Height(served')
  PROVE  /\ \A entries : Within(entries) => \A u \in entries : u.height \in Nat /\ u.height <= Height(served')
         /\ \A utxos : Below(utxos) => \A u \in utxos : u.block \in Blocks /\ Height(u.block) <= Height(served')
<1>1. Height(served) \in Nat /\ Height(served') \in Nat /\ \A b \in Blocks : Height(b) \in Nat
  BY ChainFacts DEF HeightInv, ChainTypeOK
<1> QED BY <1>1 DEF Within, Below

LEMMA InitHeights == Init => HeightInv
<1> SUFFICES ASSUME Init PROVE HeightInv
  OBVIOUS
<1>1. PICK kind \in Kinds : q = [i \in Queries |-> Idle(kind)]
  BY DEF Init
<1>2. kind \in AllKinds
  BY ScriptCacheAssumption DEF AllKinds
<1>3. \A i \in Queries : q[i] = Idle(kind)
  BY <1>1
<1>4. /\ DOMAIN Idle(kind) = QueryFields /\ Idle(kind).kind = kind /\ Idle(kind).pc = "idle"
      /\ Idle(kind).cached = {} /\ Idle(kind).utxos = {}
  BY DEF Idle, QueryFields
<1>5. ShapeInv
  BY <1>1, <1>2, <1>3, <1>4 DEF ShapeInv
<1>6. served \in Blocks /\ target = served /\ indexed = {served} /\ utxoCache.utxos = {}
  BY DEF Init, ChainInit
<1>7. Ancestors(served) = {served}
  <2>1. Height(served) = 0
    BY DEF Init, ChainInit
  <2>3. ChainOf[served] \in Seq(Blocks) /\ Len(ChainOf[served]) = 1
    <3>1. ChainOf[served] \in Seq(Blocks) /\ Len(ChainOf[served]) = Height(served) + 1
      BY <1>6, ChainFacts
    <3> QED BY <2>1, <3>1
  <2>2. ChainOf[served][1] = served
    BY <1>6, <2>3, ChainAssumption
  <2> QED BY <2>3, <2>2, LenProperties DEF Ancestors, Range
<1>8. Height(served) \in Nat
  BY <1>6, ChainFacts
<1> QED BY <1>3, <1>4, <1>5, <1>6, <1>7, <1>8 DEF HeightInv, ChainTypeOK, Within, Below, NoUtxoPanic

\* Steps of the indexing thread
LEMMA ThreadHeights ==
  ASSUME HeightInv, (\E b \in Blocks : Aim(b) \/ IndexBlock(b)) \/ Publish
  PROVE  HeightInv'
<1>1. UNCHANGED <<q, utxoCache>>
  BY DEF Aim, IndexBlock, Publish, KeepCaches
<1>2. ShapeInv' /\ NoUtxoPanic'
  BY <1>1 DEF HeightInv, ShapeInv, NoUtxoPanic
<1>3. Height(served) \in Nat /\ Height(target) \in Nat /\ \A b \in Blocks : Height(b) \in Nat
  BY ChainFacts DEF HeightInv, ChainTypeOK
<1>4. ChainTypeOK' /\ Height(served') <= Height(target') /\ Height(served) <= Height(served')
  <2>1. ASSUME NEW b \in Blocks, Aim(b)
        PROVE  ChainTypeOK' /\ Height(served') <= Height(target') /\ Height(served) <= Height(served')
    <3>1. target' = b /\ UNCHANGED <<indexed, served>> /\ Height(b) > Height(target)
      BY <2>1 DEF Aim, TakeTarget, Better
    <3> QED BY <1>3, <3>1 DEF HeightInv, ChainTypeOK
  <2>2. ASSUME NEW b \in Blocks, IndexBlock(b)
        PROVE  ChainTypeOK' /\ Height(served') <= Height(target') /\ Height(served) <= Height(served')
    <3>1. indexed' = indexed \cup {b} /\ UNCHANGED <<served, target>>
      BY <2>2 DEF IndexBlock, WriteRows
    <3> QED BY <1>3, <3>1 DEF HeightInv, ChainTypeOK
  <2>3. CASE Publish
    <3>1. served' = target /\ UNCHANGED <<indexed, target>> /\ Ancestors(target) \subseteq indexed
      BY <2>3 DEF Publish, PublishTarget
    <3> QED BY <1>3, <3>1 DEF HeightInv, ChainTypeOK
  <2> QED BY <2>1, <2>2, <2>3
<1>5. served' \in Blocks
  BY <1>4 DEF ChainTypeOK
<1>6. Within(utxoCache.utxos)' /\ \A i \in Queries : Within(q[i].cached)' /\ Below(q[i].utxos)'
  BY <1>1, <1>4, <1>5, Higher DEF HeightInv, Within, Below
<1> QED BY <1>2, <1>4, <1>6 DEF HeightInv

LEMMA RestartHeights == ASSUME HeightInv, NEW b \in Blocks, Restart(b) PROVE HeightInv'
<1>1. /\ served' = b /\ target' = b /\ indexed' = indexed \cup Ancestors(b)
      /\ UNCHANGED utxoCache /\ q' = [i \in Queries |-> Idle(q[i].kind)]
      /\ b = target \/ Height(b) > Height(target)
  BY DEF Restart, Reopen, KeepCaches, Better
<1>2. Height(served) \in Nat /\ Height(target) \in Nat /\ Height(b) \in Nat
  BY ChainFacts DEF HeightInv, ChainTypeOK
<1>3. ChainTypeOK' /\ Height(served') <= Height(target') /\ Height(served) <= Height(served')
  BY <1>1, <1>2, ChainFacts DEF HeightInv, ChainTypeOK
<1>4. \A i \in Queries : q'[i] = Idle(q[i].kind)
  BY <1>1
<1>5. \A kind : /\ DOMAIN Idle(kind) = QueryFields /\ Idle(kind).kind = kind /\ Idle(kind).pc = "idle"
                /\ Idle(kind).cached = {} /\ Idle(kind).utxos = {}
  BY DEF Idle, QueryFields
<1>6. ShapeInv'
  BY <1>1, <1>4, <1>5 DEF HeightInv, ShapeInv
<1>7. NoUtxoPanic' /\ \A i \in Queries : Within(q[i].cached)' /\ Below(q[i].utxos)'
  BY <1>4, <1>5 DEF NoUtxoPanic, Within, Below
<1>8. Within(utxoCache.utxos)'
  BY <1>1, <1>3, Higher DEF HeightInv, Within
<1> QED BY <1>3, <1>6, <1>7, <1>8 DEF HeightInv

\* A step of a query leaves the chain and keeps HeightInv if what it sets is within.
LEMMA StepHeights ==
  ASSUME HeightInv, NEW i \in Queries, NEW c, Step(i, c), DOMAIN c \subseteq QueryFields,
         "kind" \in DOMAIN c => c.kind = q[i].kind,
         "pc" \in DOMAIN c => c.pc # "panicked",
         "cached" \in DOMAIN c => Within(c.cached),
         "utxos" \in DOMAIN c => Below(c.utxos),
         utxoCache' = utxoCache \/ Within(utxoCache'.utxos)
  PROVE  HeightInv'
<1>1. ShapeInv
  BY DEF HeightInv
<1>2. /\ ShapeInv' /\ UNCHANGED <<indexed, served, target>>
      /\ \A j \in Queries : j # i => q'[j] = q[j]
      /\ q'[i].pc = IF "pc" \in DOMAIN c THEN c.pc ELSE q[i].pc
      /\ q'[i].cached = IF "cached" \in DOMAIN c THEN c.cached ELSE q[i].cached
      /\ q'[i].utxos = IF "utxos" \in DOMAIN c THEN c.utxos ELSE q[i].utxos
  BY <1>1, StepSets
<1>3. ChainTypeOK' /\ Height(served') <= Height(target')
  BY <1>2 DEF HeightInv, ChainTypeOK
<1>4. Within(utxoCache.utxos)'
  BY <1>2 DEF HeightInv, Within
<1>5. NoUtxoPanic'
  BY <1>2 DEF HeightInv, NoUtxoPanic
<1>6. ASSUME NEW j \in Queries PROVE Within(q[j].cached)' /\ Below(q[j].utxos)'
  BY <1>2 DEF HeightInv, Within, Below
<1> QED BY <1>2, <1>3, <1>4, <1>5, <1>6 DEF HeightInv

LEMMA QueryHeights == ASSUME HeightInv, NEW i \in Queries, Query(i) PROVE HeightInv'
<1>1. Within({}) /\ Below({}) /\ Within(utxoCache.utxos) /\ Within(q[i].cached) /\ Below(q[i].utxos)
  BY DEF HeightInv, Within, Below
<1>2. CASE AskUtxo(i)
  <2>1. utxoCache' = utxoCache
    BY <1>2 DEF AskUtxo, KeepAll, KeepCaches
  <2>2. CASE utxoCache.block = NoBlock
    <3>1. Step(i, [pc |-> "open", stats |-> NoStats("utxo"), seen |-> NoneSeen])
      BY <1>2, <2>2 DEF AskUtxo, Ask
    <3> QED BY <2>1, <3>1, StepHeights DEF QueryFields
  <2>3. CASE utxoCache.block # NoBlock
    <3>1. Step(i, [pc |-> "height", base |-> utxoCache.block, cached |-> utxoCache.utxos])
      BY <1>2, <2>3 DEF AskUtxo
    <3> QED BY <1>1, <2>1, <3>1, StepHeights DEF QueryFields
  <2> QED BY <2>2, <2>3
<1>3. CASE AskColored(i)
  <2>1. utxoCache' = utxoCache
    BY <1>3 DEF AskColored, KeepAll, KeepCaches
  <2>2. CASE coloredCache.block = NoBlock
    <3>1. Step(i, [pc |-> "open", stats |-> NoStats("colored"), seen |-> NoneSeen])
      BY <1>3, <2>2 DEF AskColored, Ask
    <3> QED BY <2>1, <3>1, StepHeights DEF QueryFields
  <2>3. CASE coloredCache.block # NoBlock
    <3>1. Step(i, [pc |-> "height", base |-> coloredCache.block, seen |-> NoneSeen,
                   stats |-> [c \in {Color} |-> coloredCache.stat]])
      BY <1>3, <2>3 DEF AskColored
    <3> QED BY <2>1, <3>1, StepHeights DEF QueryFields
  <2> QED BY <2>2, <2>3
<1>4. CASE AskStats(i)
  <2>1. utxoCache' = utxoCache
    BY <1>4 DEF AskStats, KeepCaches
  <2>2. \/ Step(i, [pc |-> "open", stats |-> NoStats("stats"), seen |-> NoneSeen])
        \/ \E b, s : Step(i, [pc |-> "height", base |-> b, seen |-> NoneSeen, stats |-> s])
    BY <1>4 DEF AskStats, Ask
  <2>3. CASE Step(i, [pc |-> "open", stats |-> NoStats("stats"), seen |-> NoneSeen])
    BY <2>1, <2>3, StepHeights DEF QueryFields
  <2>4. ASSUME NEW b, NEW s, Step(i, [pc |-> "height", base |-> b, seen |-> NoneSeen, stats |-> s])
        PROVE  HeightInv'
    BY <2>1, <2>4, StepHeights DEF QueryFields
  <2> QED BY <2>2, <2>3, <2>4
<1>5. CASE CheckHeight(i)
  <2>1. utxoCache' = utxoCache
    BY <1>5 DEF CheckHeight, KeepAll, KeepCaches
  <2>2. \/ UseCache(i, Height(q[i].base) + 1)
        \/ StartAfresh(i)
        \/ Step(i, [pc |-> "open"])
    BY <1>5 DEF CheckHeight
  <2>3. CASE UseCache(i, Height(q[i].base) + 1)
    <3>1. PICK place \in {"open", "restore"} :
            Step(i, [had |-> TRUE, start |-> Height(q[i].base) + 1, pc |-> place])
      BY <2>3 DEF UseCache
    <3> QED BY <2>1, <3>1, StepHeights DEF QueryFields
  <2>4. CASE StartAfresh(i)
    <3>1. Step(i, [pc |-> "open", cached |-> {}, stats |-> NoStats(q[i].kind)])
      BY <2>4 DEF StartAfresh
    <3> QED BY <1>1, <2>1, <3>1, StepHeights DEF QueryFields
  <2>5. CASE Step(i, [pc |-> "open"])
    BY <2>1, <2>5, StepHeights DEF QueryFields
  <2> QED BY <2>2, <2>3, <2>4, <2>5
<1>6. CASE Restore(i)
  <2>1. utxoCache' = utxoCache
    BY <1>6 DEF Restore, KeepAll, KeepCaches
  <2>2. PICK u \in q[i].cached :
          IF u.height > Height(served) THEN Step(i, [pc |-> "panicked"])
          ELSE Step(i, [cached |-> q[i].cached \ {u},
                        utxos  |-> q[i].utxos \cup
                                   {[out   |-> u.out,
                                     block |-> ChainOf[served][u.height + 1]]},
                        pc |-> IF q[i].cached = {u} THEN "open" ELSE "restore"])
    BY <1>6 DEF Restore
  <2>3. u.height \in Nat /\ u.height <= Height(served) /\ Height(served) \in Nat /\ served \in Blocks
    BY <1>1, ChainFacts DEF Within, HeightInv, ChainTypeOK
  <2> DEFINE b == ChainOf[served][u.height + 1]
  <2>4. b \in Blocks /\ Height(b) <= Height(served)
    <3>1. u.height + 1 \in 1 .. Height(served) + 1 /\ (u.height + 1) - 1 = u.height
      BY <2>3
    <3> QED BY <2>3, <3>1, ChainFacts
  <2>5. PICK place \in {"open", "restore"} :
          Step(i, [cached |-> q[i].cached \ {u},
                   utxos |-> q[i].utxos \cup {[out |-> u.out, block |-> b]}, pc |-> place])
    <3>1. ~(u.height > Height(served))
      BY <2>3
    <3>2. Step(i, [cached |-> q[i].cached \ {u},
                   utxos |-> q[i].utxos \cup {[out |-> u.out, block |-> b]},
                   pc |-> IF q[i].cached = {u} THEN "open" ELSE "restore"])
      BY <2>2, <3>1
    <3>3. (IF q[i].cached = {u} THEN "open" ELSE "restore") \in {"open", "restore"}
      OBVIOUS
    <3> QED BY <3>2, <3>3
  <2>6. Within(q[i].cached \ {u}) /\ Below(q[i].utxos \cup {[out |-> u.out, block |-> b]})
    BY <1>1, <2>4 DEF Within, Below
  <2> QED BY <2>1, <2>5, <2>6, StepHeights DEF QueryFields
<1>7. CASE OpenScan(i)
  <2>1. utxoCache' = utxoCache
    BY <1>7 DEF OpenScan, KeepAll, KeepCaches
  <2>2. PICK rows : Step(i, [pc |-> "scan", rows |-> rows])
    BY <1>7 DEF OpenScan
  <2> QED BY <2>1, <2>2, StepHeights DEF QueryFields
<1>8. CASE ScanRow(i)
  <2>1. utxoCache' = utxoCache
    BY <1>8 DEF ScanRow, KeepCaches
  <2>2. PICK row \in NextRows(q[i].rows) :
          LET b     == TxConfirmingBlock(row.tx)
              rest  == q[i].rows \ {row}
              utxos == UpdateUtxos(q[i].utxos, row, b)
          IN \/ Step(i, [rows |-> rest])
             \/ \E stats, seen : Step(i, [rows |-> rest, last |-> b, stats |-> stats, seen |-> seen])
             \/ Step(i, Idle(q[i].kind))
             \/ /\ b # NoBlock
                /\ Step(i, [rows |-> rest, last |-> b, utxos |-> utxos, items |-> q[i].items + 1])
    BY <1>8 DEF ScanRow
  <2> DEFINE b     == TxConfirmingBlock(row.tx)
             rest  == q[i].rows \ {row}
             utxos == UpdateUtxos(q[i].utxos, row, b)
  <2>3. CASE Step(i, [rows |-> rest])
    <3> HIDE DEF rest
    <3> QED BY <2>1, <2>3, StepHeights DEF QueryFields
  <2>4. ASSUME NEW stats, NEW seen,
               Step(i, [rows |-> rest, last |-> b, stats |-> stats, seen |-> seen])
        PROVE  HeightInv'
    <3> HIDE DEF rest, b
    <3> QED BY <2>1, <2>4, StepHeights DEF QueryFields
  <2>5. CASE Step(i, Idle(q[i].kind))
    <3>1. /\ DOMAIN Idle(q[i].kind) = QueryFields /\ Idle(q[i].kind).kind = q[i].kind
          /\ Idle(q[i].kind).pc = "idle" /\ Idle(q[i].kind).cached = {} /\ Idle(q[i].kind).utxos = {}
      BY DEF Idle, QueryFields
    <3> QED BY <1>1, <2>1, <2>5, <3>1, StepHeights
  <2>6. CASE /\ b # NoBlock
             /\ Step(i, [rows |-> rest, last |-> b, utxos |-> utxos, items |-> q[i].items + 1])
    <3>1. b \in Blocks /\ Height(b) <= Height(served)
      <4>1. served \in Blocks
        BY DEF HeightInv, ChainTypeOK
      <4> QED BY <2>6, <4>1, Confirming, PlaceInChain
    <3>2. Below(utxos)
      BY <1>1, <3>1 DEF Below, UpdateUtxos
    <3> HIDE DEF rest, b, utxos
    <3> QED BY <2>1, <2>6, <3>2, StepHeights DEF QueryFields
  <2> QED BY <2>2, <2>3, <2>4, <2>5, <2>6
<1>9. CASE ScanEnd(i)
  <2>1. utxoCache' = utxoCache
    BY <1>9 DEF ScanEnd, KeepAll, KeepCaches
  <2>2. PICK place \in {"answered", "save"} : Step(i, [unsaved |-> RowsToSave(q[i]), pc |-> place])
    BY <1>9 DEF ScanEnd
  <2> QED BY <2>1, <2>2, StepHeights DEF QueryFields
<1>10. CASE Save(i)
  <2>1. PICK rest, place :
          /\ Step(i, [unsaved |-> rest, pc |-> place]) /\ place \in {"answered", "save"}
    <3>1. PICK c \in q[i].unsaved :
            Step(i, [unsaved |-> q[i].unsaved \ {c},
                     pc |-> IF q[i].unsaved \ {c} = {} THEN "answered" ELSE "save"])
      BY <1>10 DEF Save
    <3>2. (IF q[i].unsaved \ {c} = {} THEN "answered" ELSE "save") \in {"answered", "save"}
      OBVIOUS
    <3> QED BY <3>1, <3>2
  <2>2. utxoCache' = utxoCache \/ utxoCache'.utxos = SavedUtxos(q[i].utxos)
    BY <1>10 DEF Save
  <2>3. Within(SavedUtxos(q[i].utxos))
    <3>1. \A b \in Blocks : Height(b) \in Nat
      BY ChainFacts
    <3> QED BY <1>1, <3>1 DEF Within, Below, SavedUtxos
  <2> QED BY <2>1, <2>2, <2>3, StepHeights DEF QueryFields
<1>11. CASE End(i)
  <2>1. utxoCache' = utxoCache /\ Step(i, Idle(q[i].kind))
    BY <1>11 DEF End, KeepAll, KeepCaches
  <2>2. /\ DOMAIN Idle(q[i].kind) = QueryFields /\ Idle(q[i].kind).kind = q[i].kind
        /\ Idle(q[i].kind).pc = "idle" /\ Idle(q[i].kind).cached = {} /\ Idle(q[i].kind).utxos = {}
    BY DEF Idle, QueryFields
  <2> QED BY <1>1, <2>1, <2>2, StepHeights
<1> QED BY <1>2, <1>3, <1>4, <1>5, <1>6, <1>7, <1>8, <1>9, <1>10, <1>11 DEF Query

LEMMA StepKeepsHeights == ASSUME HeightInv, [Next]_vars PROVE HeightInv'
<1>1. CASE UNCHANGED vars
  BY <1>1 DEF HeightInv, vars, chainVars, ChainTypeOK, ShapeInv, Within, Below, NoUtxoPanic
<1>2. CASE Next
  BY <1>2, ThreadHeights, RestartHeights, QueryHeights DEF Next
<1> QED BY <1>1, <1>2

LEMMA HeightsHold == Spec => []HeightInv
BY InitHeights, StepKeepsHeights, PTL DEF Spec

(* from_utxo_cache finds a header for every cached output (the expect of    *)
(* schema.rs:1797), whatever chain is published, and how often the process  *)
(* restarts, between the check of the cached block and each lookup.         *)
THEOREM RestoreNeverPanics == Spec => []NoUtxoPanic
<1>1. HeightInv => NoUtxoPanic
  BY DEF HeightInv
<1> QED BY <1>1, HeightsHold, PTL

-----------------------------------------------------------------------------
(* Rows                                                                     *)

FundingRow(b, x, o) ==
  [height |-> Height(b), act |-> "Funding", tx |-> x, out |-> o, color |-> ColorOf[o]]
SpendingRow(b, x, o) ==
  [height |-> Height(b), act |-> "Spending", tx |-> x, out |-> o, color |-> ColorOf[o]]

ColorRow(b, x, a) ==
  [height |-> Height(b), act |-> a, tx |-> x, color |-> Color]

\* A row of a block
BlockRow(kind, b, r) ==
  \E x \in TxsOf[b] :
    IF kind = "colored" THEN \E a \in ColorActs[x] : r = ColorRow(b, x, a)
    ELSE \/ \E o \in Creates[x] : r = FundingRow(b, x, o)
         \/ \E o \in Spends[x] : r = SpendingRow(b, x, o)

\* Rows are those of blocks.
LEMMA RowsAre ==
  ASSUME NEW kind, NEW S, NEW r
  PROVE  r \in Rows(kind, S) <=> \E b \in S : BlockRow(kind, b, r)
<1>1. CASE kind = "colored"
  <2>1. r \in ColorRows(S) <=>
          \E b \in S : \E x \in TxsOf[b] : \E a \in ColorActs[x] : r = ColorRow(b, x, a)
    BY DEF ColorRows, ColorRow
  <2> QED BY <1>1, <2>1 DEF Rows, BlockRow
<1>2. CASE kind # "colored"
  <2>1. r \in ScriptRows(S) <=>
          \E b \in S : \E x \in TxsOf[b] :
             \/ \E o \in Creates[x] : r = FundingRow(b, x, o)
             \/ \E o \in Spends[x] : r = SpendingRow(b, x, o)
    BY DEF ScriptRows, FundingRow, SpendingRow
  <2> QED BY <1>2, <2>1 DEF Rows, BlockRow
<1> QED BY <1>1, <1>2

\* A row tells its height and one of its transactions.
LEMMA BlockRowIs ==
  ASSUME NEW kind, NEW b, NEW r, BlockRow(kind, b, r)
  PROVE  r.height = Height(b) /\ r.tx \in TxsOf[b]
BY DEF BlockRow, ColorRow, FundingRow, SpendingRow

\* More blocks have more rows.
LEMMA RowsGrow ==
  ASSUME NEW kind, NEW S, NEW T, S \subseteq T
  PROVE  Rows(kind, S) \subseteq Rows(kind, T)
<1>1. ASSUME NEW r \in Rows(kind, S) PROVE r \in Rows(kind, T)
  <2>1. \E b \in S : BlockRow(kind, b, r)
    BY RowsAre
  <2> QED BY <2>1, RowsAre
<1> QED BY <1>1

\* The row of a transaction is that of any block of its height that confirms it.
LEMMA RowsKept ==
  ASSUME NEW kind, NEW b, NEW r, BlockRow(kind, b, r),
         NEW c, r.tx \in TxsOf[c], r.height = Height(c)
  PROVE  BlockRow(kind, c, r)
<1>2. Height(b) = Height(c)
  BY BlockRowIs
<1>3. CASE kind = "colored"
  <2>1. PICK x \in TxsOf[b] : \E a \in ColorActs[x] : r = ColorRow(b, x, a)
    BY <1>3 DEF BlockRow
  <2>2. r.tx = x
    BY <2>1 DEF ColorRow
  <2> QED BY <1>2, <1>3, <2>1, <2>2 DEF BlockRow, ColorRow
<1>4. CASE kind # "colored"
  <2>1. PICK x \in TxsOf[b] : \/ \E o \in Creates[x] : r = FundingRow(b, x, o)
                              \/ \E o \in Spends[x] : r = SpendingRow(b, x, o)
    BY <1>4 DEF BlockRow
  <2>2. r.tx = x
    BY <2>1 DEF FundingRow, SpendingRow
  <2>3. \A o : FundingRow(b, x, o) = FundingRow(c, x, o) /\ SpendingRow(b, x, o) = SpendingRow(c, x, o)
    BY <1>2 DEF FundingRow, SpendingRow
  <2> QED BY <1>4, <2>1, <2>2, <2>3 DEF BlockRow
<1> QED BY <1>3, <1>4

\* The rows of a chain up to one of its blocks are those of the chain of that block.
LEMMA RowsBelow ==
  ASSUME NEW kind, NEW b \in Blocks, NEW c \in Ancestors(b)
  PROVE  Rows(kind, Ancestors(c)) = {r \in Rows(kind, Ancestors(b)) : r.height <= Height(c)}
<1>1. ASSUME NEW r PROVE r \in Rows(kind, Ancestors(c)) <=>
                           r \in Rows(kind, Ancestors(b)) /\ r.height <= Height(c)
  <2>1. Ancestors(c) = {d \in Ancestors(b) : Height(d) <= Height(c)}
    BY ChainBelow
  <2>2. r \in Rows(kind, Ancestors(c)) <=> \E d \in Ancestors(c) : BlockRow(kind, d, r)
    BY RowsAre
  <2>3. r \in Rows(kind, Ancestors(b)) <=> \E d \in Ancestors(b) : BlockRow(kind, d, r)
    BY RowsAre
  <2>4. \A d : BlockRow(kind, d, r) => r.height = Height(d)
    BY BlockRowIs
  <2> QED BY <2>1, <2>2, <2>3, <2>4
<1> QED BY <1>1

\* A chain confirms a transaction in one block.
LEMMA ConfirmedOnce ==
  ASSUME NEW b \in Blocks, NEW c \in Ancestors(b), NEW d \in Ancestors(b),
         NEW x, x \in TxsOf[c], x \in TxsOf[d]
  PROVE  c = d
<1>1. /\ c \in Blocks /\ d \in Blocks /\ Height(c) \in Nat /\ Height(d) \in Nat
  BY PlaceInChain
<1>2. Height(c) <= Height(d) => c \in Ancestors(d)
  BY ChainBelow
<1>3. Height(d) <= Height(c) => d \in Ancestors(c)
  BY ChainBelow
<1> QED BY <1>1, <1>2, <1>3, ServedChainAssumption

\* Heights of rows are naturals.
LEMMA RowHeights ==
  ASSUME NEW kind, NEW S \in SUBSET Blocks, NEW r \in Rows(kind, S)
  PROVE  r.height \in Nat
<1>1. PICK b \in S : BlockRow(kind, b, r)
  BY RowsAre
<1> QED BY <1>1, BlockRowIs, ChainFacts

-----------------------------------------------------------------------------
(* Sets of outputs                                                          *)

\* What rows S of a chain of blocks leave unspent
Unspent(S, chain) ==
  {u \in [out : Outs, block : chain] :
     /\ \E r \in S : r.act = "Funding" /\ r.out = u.out /\ r.height = Height(u.block)
     /\ \A r \in S : r.act = "Spending" => r.out # u.out}

LEMMA UtxosAreUnspent ==
  ASSUME NEW b \in Blocks
  PROVE  UtxosAt(b) = Unspent(Rows("utxo", Ancestors(b)), Ancestors(b))
<1> DEFINE R == Rows("utxo", Ancestors(b))
<1>3. \A r : r \in R <=> \E c \in Ancestors(b) : BlockRow("utxo", c, r)
  BY RowsAre
<1> HIDE DEF R
<1>1. ASSUME NEW u \in [out : Outs, block : Ancestors(b)]
      PROVE  (\E x \in TxsOf[u.block] : u.out \in Creates[x]) <=>
             (\E r \in R : r.act = "Funding" /\ r.out = u.out /\ r.height = Height(u.block))
  <2>1. u.block \in Ancestors(b)
    OBVIOUS
  <2>2. ASSUME NEW x \in TxsOf[u.block], u.out \in Creates[x]
        PROVE  \E r \in R : r.act = "Funding" /\ r.out = u.out /\ r.height = Height(u.block)
    <3>1. BlockRow("utxo", u.block, FundingRow(u.block, x, u.out))
      BY <2>2 DEF BlockRow
    <3>2. FundingRow(u.block, x, u.out) \in R
      BY <1>3, <2>1, <3>1
    <3> QED BY <3>2 DEF FundingRow
  <2>3. ASSUME NEW r \in R, r.act = "Funding", r.out = u.out, r.height = Height(u.block)
        PROVE  \E x \in TxsOf[u.block] : u.out \in Creates[x]
    <3>1. PICK c \in Ancestors(b) : BlockRow("utxo", c, r)
      BY <1>3
    <3>2. PICK x \in TxsOf[c] : u.out \in Creates[x] /\ Height(c) = Height(u.block)
      BY <2>3, <3>1 DEF BlockRow, FundingRow, SpendingRow
    <3>3. c = u.block
      BY <2>1, <3>2, SamePlace
    <3> QED BY <3>2, <3>3
  <2> QED BY <2>2, <2>3
<1>2. ASSUME NEW o \in Outs
      PROVE  (\A c \in Ancestors(b) : \A x \in TxsOf[c] : o \notin Spends[x]) <=>
             (\A r \in R : r.act = "Spending" => r.out # o)
  <2>1. ASSUME NEW c \in Ancestors(b), NEW x \in TxsOf[c], o \in Spends[x]
        PROVE  \E r \in R : r.act = "Spending" /\ r.out = o
    <3>1. BlockRow("utxo", c, SpendingRow(c, x, o))
      BY <2>1 DEF BlockRow
    <3>2. SpendingRow(c, x, o) \in R
      BY <1>3, <3>1
    <3> QED BY <3>2 DEF SpendingRow
  <2>2. ASSUME NEW r \in R, r.act = "Spending", r.out = o
        PROVE  \E c \in Ancestors(b) : \E x \in TxsOf[c] : o \in Spends[x]
    <3>1. PICK c \in Ancestors(b) : BlockRow("utxo", c, r)
      BY <1>3
    <3> QED BY <2>2, <3>1 DEF BlockRow, FundingRow, SpendingRow
  <2> QED BY <2>1, <2>2
<1> QED BY <1>1, <1>2 DEF UtxosAt, Unspent, R

\* The rows up to a block of the chain leave unspent what its chain does.
LEMMA UnspentBelow ==
  ASSUME NEW b \in Blocks, NEW c \in Ancestors(b)
  PROVE  Unspent(Rows("utxo", Ancestors(c)), Ancestors(b)) = UtxosAt(c)
<1> DEFINE S == Rows("utxo", Ancestors(c))
<1>1. c \in Blocks /\ Ancestors(c) = {d \in Ancestors(b) : Height(d) <= Height(c)}
  BY PlaceInChain, ChainBelow
<1>2. \A r \in S : r.height <= Height(c) /\ r.height \in Nat
  <2>1. \A d \in Ancestors(c) : Height(d) \in Nat /\ Height(d) <= Height(c)
    BY <1>1, PlaceInChain
  <2>2. \A r \in S : \E d \in Ancestors(c) : BlockRow("utxo", d, r)
    BY RowsAre
  <2>3. \A d, r : BlockRow("utxo", d, r) => r.height = Height(d)
    BY BlockRowIs
  <2> QED BY <2>1, <2>2, <2>3
<1>3. Unspent(S, Ancestors(b)) = Unspent(S, Ancestors(c))
  <2>1. ASSUME NEW u \in Unspent(S, Ancestors(b)) PROVE u \in Unspent(S, Ancestors(c))
    <3>1. u \in [out : Outs, block : Ancestors(b)] /\ Height(u.block) <= Height(c)
      BY <1>2 DEF Unspent
    <3>2. u \in [out : Outs, block : Ancestors(c)]
      BY <1>1, <3>1
    <3> QED BY <3>2 DEF Unspent
  <2>2. ASSUME NEW u \in Unspent(S, Ancestors(c)) PROVE u \in Unspent(S, Ancestors(b))
    <3>1. u \in [out : Outs, block : Ancestors(b)]
      BY <1>1 DEF Unspent
    <3> QED BY <3>1 DEF Unspent
  <2> QED BY <2>1, <2>2
<1> QED BY <1>1, <1>3, UtxosAreUnspent

\* Outputs that rows F fund and rows S do not spend
Outputs(F, S, chain) ==
  {u \in [out : Outs, block : chain] :
     /\ \E r \in F : r.act = "Funding" /\ r.out = u.out /\ r.height = Height(u.block)
     /\ \A r \in S : r.act = "Spending" => r.out # u.out}

\* What a row is about
LEMMA OutputRow ==
  ASSUME NEW b \in Blocks, NEW r, BlockRow("utxo", b, r)
  PROVE  /\ r.tx \in Txs /\ r.tx \in TxsOf[b] /\ r.out \in Outs /\ r.height = Height(b)
         /\ \/ r.act = "Funding" /\ r.out \in Creates[r.tx] /\ r = FundingRow(b, r.tx, r.out)
            \/ r.act = "Spending" /\ r.out \in Spends[r.tx] /\ r = SpendingRow(b, r.tx, r.out)
<1>1. PICK x \in TxsOf[b] : \/ \E o \in Creates[x] : r = FundingRow(b, x, o)
                            \/ \E o \in Spends[x] : r = SpendingRow(b, x, o)
  BY DEF BlockRow
<1>2. x \in Txs /\ Creates[x] \subseteq Outs
  BY ServedChainAssumption, ScriptCacheAssumption
<1>3. ASSUME NEW o \in Creates[x], r = FundingRow(b, x, o)
      PROVE  /\ r.tx = x /\ r.out = o /\ r.act = "Funding" /\ r.height = Height(b)
  BY <1>3 DEF FundingRow
<1>4. ASSUME NEW o \in Spends[x], r = SpendingRow(b, x, o)
      PROVE  /\ r.tx = x /\ r.out = o /\ r.act = "Spending" /\ r.height = Height(b)
  BY <1>4 DEF SpendingRow
<1>5. Spends[x] \subseteq Outs
  BY <1>2, ScriptCacheAssumption
<1> QED BY <1>1, <1>2, <1>3, <1>4, <1>5

\* A chain funds an output in one block, and spends it no lower.
LEMMA FundedOnce ==
  ASSUME NEW b \in Blocks, NEW c \in Ancestors(b), NEW x \in TxsOf[c], NEW o \in Creates[x],
         NEW d \in Ancestors(b), NEW y \in TxsOf[d]
  PROVE  /\ o \in Creates[y] => d = c
         /\ o \in Spends[y] => Height(c) <= Height(d)
<1>1. /\ c \in Blocks /\ d \in Blocks /\ x \in Txs /\ y \in Txs
  BY PlaceInChain, ServedChainAssumption
<1>2. ASSUME NEW e \in Ancestors(b), NEW z \in TxsOf[e], o \in Creates[z] PROVE e = c
  <2>1. e \in Blocks /\ z \in Txs
    BY PlaceInChain, ServedChainAssumption
  <2>2. z = x
    BY <1>1, <1>2, <2>1, ScriptCacheAssumption
  <2> QED BY <1>2, <2>2, ConfirmedOnce
<1>3. ASSUME o \in Spends[y] PROVE Height(c) <= Height(d)
  <2>1. PICK e, z : e \in Ancestors(d) /\ z \in TxsOf[e] /\ o \in Creates[z]
    BY <1>1, <1>3, ScriptCacheAssumption
  <2>2. e \in Ancestors(b)
    BY <2>1, ChainBelow
  <2>3. e = c
    BY <1>2, <2>1, <2>2
  <2> QED BY <1>1, <2>1, <2>3, PlaceInChain
<1> QED BY <1>2, <1>3

\* One more row, of the height at which block c confirms its transaction or of a lower
\* one: it is put right by the row of c, which is still to come.
LEMMA OutputsStep ==
  ASSUME NEW b \in Blocks, NEW R, R = Rows("utxo", Ancestors(b)), NEW S \in SUBSET R, NEW utxos,
         Outputs(S, R, Ancestors(b)) \subseteq utxos, utxos \subseteq Outputs(R, S, Ancestors(b)),
         NEW e \in Blocks, NEW r, BlockRow("utxo", e, r), \A s \in S : ~Precedes(r, s),
         NEW c \in Ancestors(b), r.tx \in TxsOf[c], r.height <= Height(c),
         NEW T, T = S \cup (R \cap {r})
  PROVE  /\ Outputs(T, R, Ancestors(b)) \subseteq UpdateUtxos(utxos, r, c)
         /\ UpdateUtxos(utxos, r, c) \subseteq Outputs(R, T, Ancestors(b))
<1> DEFINE C == Ancestors(b)
<1>1. \A s : s \in R <=> \E d \in C : BlockRow("utxo", d, s)
  BY RowsAre
<1>2. /\ r.tx \in Txs /\ r.out \in Outs /\ r.height \in Nat
      /\ \/ r.act = "Funding" /\ r.out \in Creates[r.tx]
         \/ r.act = "Spending" /\ r.out \in Spends[r.tx]
  <2>1. \A d \in Blocks : Height(d) \in Nat
    BY ChainFacts
  <2> QED BY <2>1, OutputRow
<1>3. c \in Blocks /\ Height(c) \in Nat
  BY PlaceInChain
<1>4. CASE r.act = "Spending"
  <2>1. \E s \in R : s.act = "Spending" /\ s.out = r.out
    <3>1. BlockRow("utxo", c, SpendingRow(c, r.tx, r.out))
      BY <1>2, <1>4 DEF BlockRow
    <3>2. SpendingRow(c, r.tx, r.out) \in R
      BY <1>1, <3>1
    <3> QED BY <3>2 DEF SpendingRow
  <2>2. UpdateUtxos(utxos, r, c) = {u \in utxos : u.out # r.out}
    BY <1>4 DEF UpdateUtxos
  <2>3. ASSUME NEW u \in Outputs(T, R, C) PROVE u \in utxos /\ u.out # r.out
    <3>1. u \in Outputs(S, R, C)
      BY <1>4 DEF Outputs
    <3>2. u.out # r.out
      BY <2>1 DEF Outputs
    <3> QED BY <3>1, <3>2
  <2>4. ASSUME NEW u \in utxos, u.out # r.out PROVE u \in Outputs(R, T, C)
    <3>1. u \in Outputs(R, S, C)
      OBVIOUS
    <3> QED BY <2>4, <3>1 DEF Outputs
  <2> QED BY <2>2, <2>3, <2>4
<1>5. CASE r.act = "Funding"
  <2>1. r.out \in Creates[r.tx]
    BY <1>2, <1>5
  <2>2. UpdateUtxos(utxos, r, c) = {u \in utxos : u.out # r.out} \cup {[out |-> r.out, block |-> c]}
    BY <1>5 DEF UpdateUtxos
  <2>3. \A s \in R : s.act = "Funding" /\ s.out = r.out => s.height = Height(c)
    <3> SUFFICES ASSUME NEW s \in R, s.act = "Funding", s.out = r.out PROVE s.height = Height(c)
      OBVIOUS
    <3>1. PICK d \in C : BlockRow("utxo", d, s)
      BY <1>1
    <3>2. s.tx \in TxsOf[d] /\ r.out \in Creates[s.tx] /\ s.height = Height(d)
      BY <3>1, OutputRow, PlaceInChain
    <3> QED BY <2>1, <3>2, FundedOnce
  <2>4. \A s \in S : s.act = "Spending" => s.out # r.out
    <3> SUFFICES ASSUME NEW s \in S, s.act = "Spending", s.out = r.out PROVE FALSE
      OBVIOUS
    <3>1. PICK d \in C : BlockRow("utxo", d, s)
      BY <1>1
    <3>2. /\ s.tx \in TxsOf[d] /\ r.out \in Spends[s.tx] /\ s.height = Height(d) /\ Height(d) \in Nat
      BY <3>1, OutputRow, PlaceInChain
    <3>3. Height(c) <= Height(d)
      BY <2>1, <3>2, FundedOnce
    <3> QED BY <1>2, <1>3, <1>5, <3>2, <3>3 DEF Precedes, Rank
  <2>5. ASSUME NEW u \in Outputs(T, R, C) PROVE u \in UpdateUtxos(utxos, r, c)
    <3>1. /\ u \in [out : Outs, block : C]
          /\ \A s \in R : s.act = "Spending" => s.out # u.out
      BY DEF Outputs
    <3>2. PICK s \in T : s.act = "Funding" /\ s.out = u.out /\ s.height = Height(u.block)
      BY DEF Outputs
    <3>3. CASE u.out # r.out
      <4>1. s \in S
        BY <3>2, <3>3
      <4>2. u \in Outputs(S, R, C)
        BY <3>1, <3>2, <4>1 DEF Outputs
      <4> QED BY <2>2, <3>3, <4>2
    <3>4. CASE u.out = r.out
      <4>1. Height(u.block) = Height(c)
        BY <2>3, <3>2, <3>4
      <4>2. u.block = c
        BY <3>1, <4>1, SamePlace
      <4>3. u = [out |-> r.out, block |-> c]
        BY <3>1, <3>4, <4>2
      <4> QED BY <2>2, <4>3
    <3> QED BY <3>3, <3>4
  <2>6. ASSUME NEW u \in UpdateUtxos(utxos, r, c) PROVE u \in Outputs(R, T, C)
    <3>1. CASE u \in utxos
      <4>1. u \in Outputs(R, S, C)
        BY <3>1
      <4> QED BY <1>5, <4>1 DEF Outputs
    <3>2. CASE u = [out |-> r.out, block |-> c]
      <4>1. u \in [out : Outs, block : C] /\ u.out = r.out /\ u.block = c
        BY <1>2, <3>2
      <4>2. FundingRow(c, r.tx, r.out) \in R
        <5>1. BlockRow("utxo", c, FundingRow(c, r.tx, r.out))
          BY <2>1 DEF BlockRow
        <5> QED BY <1>1, <5>1
      <4>3. \E s \in R : s.act = "Funding" /\ s.out = u.out /\ s.height = Height(u.block)
        BY <4>1, <4>2 DEF FundingRow
      <4>4. \A s \in T : s.act = "Spending" => s.out # u.out
        BY <1>5, <2>4, <4>1
      <4> QED BY <4>1, <4>3, <4>4 DEF Outputs
    <3> QED BY <2>2, <2>6, <3>1, <3>2
  <2> QED BY <2>5, <2>6
<1> QED BY <1>2, <1>4, <1>5

-----------------------------------------------------------------------------
(* What a query has at each place                                           *)

(* tip is the served tip and known the blocks that have rows, so that what  *)
(* follows is about one query and one moment.                               *)

\* Rows of the chain that the query is done with: those below its start, and those that
\* its scan has passed.
Done(p, tip) == Rows(p.kind, Ancestors(tip)) \ p.rows

\* The rows that are left come after those, and none of them is above the block that
\* confirms the transaction of the last row.
ScanInv(p, tip, known) ==
  /\ p.start \in Nat
  /\ p.rows \subseteq Rows(p.kind, known)
  /\ \A r \in p.rows : p.start <= r.height
  /\ \A r \in p.rows : \A s \in Done(p, tip) : ~Precedes(r, s)
  /\ p.last = NoBlock => \A s \in Done(p, tip) : s.height < p.start
  /\ p.last # NoBlock =>
       /\ p.last \in Ancestors(tip) /\ p.start <= Height(p.last)
       /\ \A s \in Done(p, tip) : s.height <= Height(p.last)

\* The answer before the scan is that of rows S.
Answer(p, tip, S) ==
  IF p.kind = "utxo" THEN p.utxos = Unspent(S, Ancestors(tip)) ELSE p.stats = Tally(p.kind, S)

\* The outputs so far: those that the rows done with fund and no row of the chain spends
\* are there, and the rows done with spend none of those that are there.
OutputsInv(p, tip) ==
  LET R == Rows("utxo", Ancestors(tip)) IN
  /\ Outputs(Done(p, tip), R, Ancestors(tip)) \subseteq p.utxos
  /\ p.utxos \subseteq Outputs(R, Done(p, tip), Ancestors(tip))

\* The transactions seen were counted, and all those counted of the last block are seen:
\* the set of a color may be left from an older block.
SeenInv(p, tip) ==
  /\ p.seen \in [Colors -> SUBSET Txs]
  /\ \A c \in Colors : \A x \in p.seen[c] : \E s \in Done(p, tip) : s.color = c /\ s.tx = x
  /\ p.last # NoBlock =>
       /\ \A s \in Done(p, tip) : s.tx \in TxsOf[p.last] => s.tx \in p.seen[s.color]
       /\ \A r \in p.rows : Height(p.last) <= r.height

Scanning(p, tip, known) ==
  /\ ScanInv(p, tip, known)
  /\ IF p.kind = "utxo" THEN OutputsInv(p, tip)
     ELSE p.stats = Tally(p.kind, Done(p, tip)) /\ SeenInv(p, tip)

Fresh(p) == ~p.had /\ p.start = 0 /\ p.last = NoBlock /\ p.utxos = {}

\* What was read from the cache is right for the block it was saved at.
FromCache(p) ==
  /\ p.base \in Blocks
  /\ IF p.kind = "utxo" THEN p.cached = SavedUtxos(UtxosAt(p.base))
     ELSE p.cached = {} /\ p.stats = StatsAt(p.kind, p.base) /\ p.seen = NoneSeen

\* The cached outputs get their blocks back one by one.
Restored(u, tip) == [out |-> u.out, block |-> ChainOf[tip][u.height + 1]]

Restoring(p, tip) ==
  /\ p.kind = "utxo" /\ p.had /\ p.last = NoBlock
  /\ p.base \in Ancestors(tip) /\ p.start = Height(p.base) + 1
  /\ p.utxos \cup {Restored(u, tip) : u \in p.cached} = UtxosAt(p.base)

\* A scan is about to start: with nothing, or after the block of the cache.
Begun(p, tip) ==
  /\ p.last = NoBlock /\ p.start \in Nat /\ (p.had \/ p.start = 0)
  /\ Answer(p, tip, {r \in Rows(p.kind, Ancestors(tip)) : r.height < p.start})
  /\ p.kind # "utxo" => p.seen = NoneSeen

\* What is saved is right for the last block that the scan had a row of.
Saved(p) ==
  /\ p.last \in Blocks
  /\ IF p.kind = "utxo" THEN p.utxos = UtxosAt(p.last) ELSE p.stats = StatsAt(p.kind, p.last)

QueryInv(p, tip, known) ==
  /\ p.pc \in {"idle", "height"} => Fresh(p)
  /\ p.pc = "idle" => p.cached = {}
  /\ p.pc = "height" => FromCache(p)
  /\ p.pc = "restore" => Restoring(p, tip)
  /\ p.pc = "open" => Begun(p, tip)
  /\ p.pc = "scan" => Scanning(p, tip, known)
  /\ p.pc = "save" => Saved(p) /\ p.unsaved \subseteq IF p.kind = "stats" THEN DOMAIN p.stats ELSE {Color}

-----------------------------------------------------------------------------
(* Places, one after the other                                              *)

\* The statistics of no rows
LEMMA TallyOfNone == \A kind : Tally(kind, {}) = NoStats(kind)
<1> SUFFICES ASSUME NEW kind PROVE Tally(kind, {}) = NoStats(kind)
  OBVIOUS
<1>1. StatOf({}) = ZeroStat
  BY FS_EmptySet DEF StatOf, ZeroStat
<1>2. \A c : {r \in {} : r.color = c} = {}
  OBVIOUS
<1>3. {r.color : r \in {}} = {}
  OBVIOUS
<1> QED BY <1>1, <1>2, <1>3 DEF Tally, NoStats

\* A scan from the start has nothing yet, whatever the chain.
LEMMA NothingYet ==
  ASSUME NEW p, NEW tip \in Blocks, p.start = 0
  PROVE  Answer(p, tip, {r \in Rows(p.kind, Ancestors(tip)) : r.height < p.start}) <=>
           IF p.kind = "utxo" THEN p.utxos = {} ELSE p.stats = NoStats(p.kind)
<1>1. {r \in Rows(p.kind, Ancestors(tip)) : r.height < p.start} = {}
  <2>1. Ancestors(tip) \subseteq Blocks
    BY ChainFacts
  <2>2. \A r \in Rows(p.kind, Ancestors(tip)) : r.height \in Nat
    BY <2>1, RowHeights
  <2>3. \A r \in Rows(p.kind, Ancestors(tip)) : ~(r.height < p.start)
    BY <2>2
  <2> QED BY <2>3
<1>2. Unspent({}, Ancestors(tip)) = {}
  BY DEF Unspent
<1> QED BY <1>1, <1>2, TallyOfNone DEF Answer

\* After the block of the cache, what it has is what the rows up to there give.
LEMMA RowsOfBase ==
  ASSUME NEW p, NEW tip \in Blocks, p.base \in Ancestors(tip), p.start = Height(p.base) + 1
  PROVE  Answer(p, tip, {r \in Rows(p.kind, Ancestors(tip)) : r.height < p.start}) <=>
           IF p.kind = "utxo" THEN p.utxos = UtxosAt(p.base) ELSE p.stats = StatsAt(p.kind, p.base)
<1>1. Height(p.base) \in Nat /\ Ancestors(tip) \subseteq Blocks
  BY PlaceInChain, ChainFacts
<1>2. \A r \in Rows(p.kind, Ancestors(tip)) : r.height \in Nat
  BY <1>1, RowHeights
<1>3. {r \in Rows(p.kind, Ancestors(tip)) : r.height < p.start}
      = {r \in Rows(p.kind, Ancestors(tip)) : r.height <= Height(p.base)}
  BY <1>1, <1>2
<1>4. {r \in Rows(p.kind, Ancestors(tip)) : r.height < p.start} = Rows(p.kind, Ancestors(p.base))
  BY <1>3, RowsBelow
<1>5. Unspent(Rows("utxo", Ancestors(p.base)), Ancestors(tip)) = UtxosAt(p.base)
  BY UnspentBelow
<1> QED BY <1>4, <1>5 DEF Answer, StatsAt

\* history_iter_scan
LEMMA ScanStarts ==
  ASSUME NEW tip \in Blocks, NEW known \in SUBSET Blocks, Ancestors(tip) \subseteq known,
         NEW p, Begun(p, tip),
         NEW n, n.kind = p.kind, n.start = p.start, n.last = p.last, n.utxos = p.utxos,
         n.stats = p.stats, n.seen = p.seen,
         n.rows = {r \in Rows(p.kind, known) : r.height >= p.start}
  PROVE  Scanning(n, tip, known)
<1> DEFINE R == Rows(p.kind, Ancestors(tip))
<1>1. R \subseteq Rows(p.kind, known)
  BY RowsGrow
<1>2. \A r \in Rows(p.kind, known) : r.height \in Nat
  BY RowHeights
<1>3. p.start \in Nat /\ p.last = NoBlock
  BY DEF Begun
<1>4. Done(n, tip) = {r \in R : r.height < p.start}
  BY <1>1, <1>2, <1>3 DEF Done
<1>5. ScanInv(n, tip, known)
  <2>1. ASSUME NEW r \in n.rows, NEW s \in Done(n, tip) PROVE ~Precedes(r, s)
    <3>1. r.height \in Nat /\ s.height \in Nat /\ r.height >= p.start /\ s.height < p.start
      BY <1>1, <1>2, <1>4
    <3> QED BY <1>3, <3>1 DEF Precedes
  <2> QED BY <1>2, <1>3, <1>4, <2>1 DEF ScanInv
<1>6. ASSUME p.kind = "utxo" PROVE OutputsInv(n, tip)
  <2>1. n.utxos = Unspent(Done(n, tip), Ancestors(tip))
    BY <1>4, <1>6 DEF Begun, Answer
  <2>2. Done(n, tip) \subseteq Rows("utxo", Ancestors(tip))
    BY <1>4, <1>6
  <2> QED BY <2>1, <2>2 DEF OutputsInv, Outputs, Unspent
<1>7. ASSUME p.kind # "utxo" PROVE n.stats = Tally(n.kind, Done(n, tip)) /\ SeenInv(n, tip)
  <2>1. n.stats = Tally(n.kind, Done(n, tip))
    BY <1>4, <1>7 DEF Begun, Answer
  <2> QED BY <1>3, <1>7, <2>1 DEF Begun, SeenInv, NoneSeen
<1> QED BY <1>5, <1>6, <1>7 DEF Scanning

\* Rows that come next are not preceded by others.
LEMMA RowSkipped ==
  ASSUME NEW tip \in Blocks, NEW known \in SUBSET Blocks,
         NEW p, Scanning(p, tip, known), NEW r \in NextRows(p.rows),
         \A c \in Ancestors(tip) : r.tx \notin TxsOf[c],
         NEW n, n.kind = p.kind, n.start = p.start, n.last = p.last, n.utxos = p.utxos,
         n.stats = p.stats, n.seen = p.seen, n.rows = p.rows \ {r}
  PROVE  Scanning(n, tip, known)
<1>1. r \notin Rows(p.kind, Ancestors(tip))
  BY RowsAre, BlockRowIs
<1>2. Done(n, tip) = Done(p, tip)
  BY <1>1 DEF Done
<1>3. ScanInv(n, tip, known)
  BY <1>2 DEF Scanning, ScanInv
<1> QED BY <1>2, <1>3 DEF Scanning, OutputsInv, SeenInv

\* The row of a confirmed transaction, of its height or of a lower one
LEMMA RowTaken ==
  ASSUME NEW tip \in Blocks, NEW known \in SUBSET Blocks,
         NEW p, ScanInv(p, tip, known), NEW r \in NextRows(p.rows),
         NEW b \in Ancestors(tip), r.tx \in TxsOf[b], r.height <= Height(b),
         NEW n, n.kind = p.kind, n.start = p.start, n.last = b, n.rows = p.rows \ {r}
  PROVE  /\ ScanInv(n, tip, known) /\ r \in p.rows
         /\ Done(n, tip) = Done(p, tip) \cup (Rows(p.kind, Ancestors(tip)) \cap {r})
         /\ \A s \in Done(p, tip) : ~Precedes(r, s)
<1>1. r \in p.rows
  BY DEF NextRows
<1>2. b \in Blocks /\ Height(b) \in Nat /\ Ancestors(tip) \subseteq Blocks
  BY PlaceInChain, ChainFacts
<1>3. r.height \in Nat
  BY <1>1, RowHeights DEF ScanInv
<1>4. Done(n, tip) = Done(p, tip) \cup (Rows(p.kind, Ancestors(tip)) \cap {r})
  BY <1>1 DEF Done
<1>5. \A s \in Done(p, tip) : s.height \in Nat
  BY <1>2, RowHeights DEF Done
<1>6. \A s \in Done(p, tip) : ~Precedes(r, s) /\ s.height <= r.height
  BY <1>1, <1>3, <1>5 DEF ScanInv, Precedes
<1>7. b # NoBlock
  BY <1>2, NoBlockAssumption
<1>8. ScanInv(n, tip, known)
  <2>1. /\ n.start \in Nat /\ n.rows \subseteq Rows(n.kind, known)
        /\ \A s \in n.rows : n.start <= s.height
    BY DEF ScanInv
  <2>2. \A s \in n.rows : \A d \in Done(n, tip) : ~Precedes(s, d)
    <3>1. \A s \in p.rows : ~Precedes(s, r)
      BY DEF NextRows
    <3> QED BY <1>4, <3>1 DEF ScanInv
  <2>3. n.start <= Height(n.last)
    <3>1. p.start <= r.height /\ p.start \in Nat
      BY <1>1 DEF ScanInv
    <3> QED BY <1>2, <1>3, <3>1
  <2>4. \A s \in Done(n, tip) : s.height <= Height(n.last)
    <3>1. \A s \in Done(n, tip) : s.height <= r.height /\ s.height \in Nat
      BY <1>3, <1>4, <1>5, <1>6
    <3> QED BY <1>2, <1>3, <3>1
  <2> QED BY <1>7, <2>1, <2>2, <2>3, <2>4 DEF ScanInv
<1> QED BY <1>1, <1>4, <1>6, <1>8

\* ... of utxo()
LEMMA OutputTaken ==
  ASSUME NEW tip \in Blocks, NEW known \in SUBSET Blocks,
         NEW p, Scanning(p, tip, known), p.kind = "utxo", NEW r \in NextRows(p.rows),
         NEW b \in Ancestors(tip), r.tx \in TxsOf[b], r.height <= Height(b),
         NEW n, n.kind = p.kind, n.start = p.start, n.last = b, n.rows = p.rows \ {r},
         n.utxos = UpdateUtxos(p.utxos, r, b)
  PROVE  Scanning(n, tip, known)
<1> DEFINE R == Rows("utxo", Ancestors(tip))
<1>1. /\ ScanInv(n, tip, known) /\ r \in p.rows
      /\ Done(n, tip) = Done(p, tip) \cup (R \cap {r})
      /\ \A s \in Done(p, tip) : ~Precedes(r, s)
  <2>1. ScanInv(p, tip, known) /\ R = Rows(p.kind, Ancestors(tip))
    BY DEF Scanning
  <2> HIDE DEF R
  <2>2. /\ ScanInv(n, tip, known) /\ r \in p.rows
        /\ Done(n, tip) = Done(p, tip) \cup (Rows(p.kind, Ancestors(tip)) \cap {r})
        /\ \A s \in Done(p, tip) : ~Precedes(r, s)
    BY <2>1, RowTaken
  <2> QED BY <2>1, <2>2
<1>2. Done(p, tip) \in SUBSET R
  BY DEF Done
<1>3. PICK e \in known : BlockRow("utxo", e, r)
  BY <1>1, RowsAre DEF Scanning, ScanInv
<1>4. /\ Outputs(Done(p, tip), R, Ancestors(tip)) \subseteq p.utxos
      /\ p.utxos \subseteq Outputs(R, Done(p, tip), Ancestors(tip))
  BY DEF Scanning, OutputsInv
<1>5. /\ Outputs(Done(n, tip), R, Ancestors(tip)) \subseteq n.utxos
      /\ n.utxos \subseteq Outputs(R, Done(n, tip), Ancestors(tip))
  BY <1>1, <1>2, <1>3, <1>4, OutputsStep
<1> QED BY <1>1, <1>5 DEF Scanning, OutputsInv

\* When no row is left, the answer is that of the chain, and of its last block with a row.
LEMMA ScanEnds ==
  ASSUME NEW tip \in Blocks, NEW known \in SUBSET Blocks,
         NEW p, Scanning(p, tip, known), p.rows = {}
  PROVE  /\ IF p.kind = "utxo" THEN p.utxos = UtxosAt(tip) ELSE p.stats = StatsAt(p.kind, tip)
         /\ p.last # NoBlock => Saved(p)
<1> DEFINE R == Rows(p.kind, Ancestors(tip))
<1>1. Done(p, tip) = R
  BY DEF Done
<1>2. p.kind = "utxo" => UtxosAt(tip) = Unspent(R, Ancestors(tip))
  BY UtxosAreUnspent
<1>3. IF p.kind = "utxo" THEN p.utxos = UtxosAt(tip) ELSE p.stats = StatsAt(p.kind, tip)
  <2>1. ASSUME p.kind = "utxo" PROVE p.utxos = UtxosAt(tip)
    <3>1. Outputs(R, R, Ancestors(tip)) = Unspent(R, Ancestors(tip))
      BY DEF Outputs, Unspent
    <3>2. p.utxos = Outputs(R, R, Ancestors(tip))
      <4>1. OutputsInv(p, tip) /\ R = Rows("utxo", Ancestors(tip))
        BY <2>1 DEF Scanning
      <4> HIDE DEF R
      <4> QED BY <1>1, <4>1 DEF OutputsInv
    <3> QED BY <1>2, <2>1, <3>1, <3>2
  <2>2. ASSUME p.kind # "utxo" PROVE p.stats = StatsAt(p.kind, tip)
    BY <1>1, <2>2 DEF Scanning, StatsAt
  <2> QED BY <2>1, <2>2
<1>4. ASSUME p.last # NoBlock PROVE Saved(p)
  <2>1. p.last \in Ancestors(tip) /\ \A r \in R : r.height <= Height(p.last)
    BY <1>1, <1>4 DEF Scanning, ScanInv
  <2>2. p.last \in Blocks
    BY <2>1, PlaceInChain
  <2>3. Rows(p.kind, Ancestors(p.last)) = R
    <3>1. R = {r \in R : r.height <= Height(p.last)}
      BY <2>1
    <3> QED BY <2>1, <3>1, RowsBelow
  <2>4. p.kind = "utxo" => UtxosAt(p.last) = Unspent(R, Ancestors(tip))
    BY <2>1, <2>3, UnspentBelow
  <2>5. p.kind = "utxo" => p.utxos = UtxosAt(p.last)
    BY <1>2, <1>3, <2>4
  <2>6. p.kind # "utxo" => p.stats = StatsAt(p.kind, p.last)
    BY <1>3, <2>3 DEF StatsAt
  <2> QED BY <2>2, <2>5, <2>6 DEF Saved
<1> QED BY <1>3, <1>4


\* A chain has finitely many rows.
LEMMA RowsFinite ==
  ASSUME NEW kind, NEW b \in Blocks
  PROVE  IsFiniteSet(Rows(kind, Ancestors(b)))
<1> DEFINE f == [c \in Ancestors(b) |-> Rows(kind, {c})]
           parts == {f[c] : c \in Ancestors(b)}
<1>1. IsFiniteSet(Ancestors(b)) /\ Ancestors(b) \subseteq Blocks
  <2>1. ChainOf[b] \in Seq(Blocks)
    BY ChainFacts
  <2>2. /\ IsFiniteSet(1 .. Len(ChainOf[b])) /\ DOMAIN ChainOf[b] = 1 .. Len(ChainOf[b])
        /\ ChainOf[b] \in [1 .. Len(ChainOf[b]) -> Blocks]
    <3>1. Len(ChainOf[b]) \in Int /\ DOMAIN ChainOf[b] = 1 .. Len(ChainOf[b])
      BY <2>1, LenProperties
    <3>2. IsFiniteSet(1 .. Len(ChainOf[b]))
      BY <3>1, FS_Interval
    <3> QED BY <2>1, <3>1, <3>2
  <2>3. Ancestors(b) = {ChainOf[b][k] : k \in 1 .. Len(ChainOf[b])}
    BY <2>2 DEF Ancestors, Range
  <2>4. IsFiniteSet({ChainOf[b][k] : k \in 1 .. Len(ChainOf[b])})
    <3> DEFINE T == {ChainOf[b][k] : k \in 1 .. Len(ChainOf[b])}
    <3>1. ChainOf[b] \in Surjection(1 .. Len(ChainOf[b]), T)
      BY <2>2 DEF Surjection
    <3> QED BY <2>2, <3>1, FS_Surjection
  <2> QED BY <2>3, <2>4, ChainFacts
<1>2. \A c \in Ancestors(b) : IsFiniteSet(Rows(kind, {c}))
  BY <1>1, FiniteAssumption DEF Rows
<1>3. IsFiniteSet(parts) /\ \A s \in parts : IsFiniteSet(s)
  <2>1. f \in Surjection(Ancestors(b), parts)
    BY DEF Surjection
  <2>2. IsFiniteSet(parts)
    <3> HIDE DEF f, parts
    <3> QED BY <1>1, <2>1, FS_Surjection
  <2> QED BY <1>2, <2>2
<1>4. IsFiniteSet(UNION parts)
  BY <1>3, FS_UNION
<1>5. Rows(kind, Ancestors(b)) \subseteq UNION parts
  <2>1. ASSUME NEW r \in Rows(kind, Ancestors(b)) PROVE r \in UNION parts
    <3>1. PICK c \in Ancestors(b) : BlockRow(kind, c, r)
      BY RowsAre
    <3>2. r \in Rows(kind, {c})
      BY <3>1, RowsAre
    <3> QED BY <3>2
  <2> QED BY <2>1
<1> QED BY <1>4, <1>5, FS_Subset

AllActs == ScriptActs \cup AllColorActs

\* A row has one of the acts and a color.
LEMMA RowFields ==
  ASSUME NEW kind, NEW b \in Blocks, NEW r, BlockRow(kind, b, r)
  PROVE  /\ r.act \in AllActs /\ r.color \in Colors /\ r.tx \in Txs
         /\ kind = "colored" => r.color = Color
<1>1. r.tx \in TxsOf[b] /\ TxsOf[b] \subseteq Txs
  BY BlockRowIs, ServedChainAssumption
<1>2. CASE kind = "colored"
  <2>1. PICK x \in TxsOf[b] : \E a \in ColorActs[x] : r = ColorRow(b, x, a)
    BY <1>2 DEF BlockRow
  <2> QED BY <1>1, <2>1, ScriptCacheAssumption DEF ColorRow, AllActs
<1>3. CASE kind # "colored"
  <2>1. PICK x \in TxsOf[b] : \/ \E o \in Creates[x] : r = FundingRow(b, x, o)
                              \/ \E o \in Spends[x] : r = SpendingRow(b, x, o)
    BY <1>3 DEF BlockRow
  <2> QED BY <1>1, <1>3, <2>1, ScriptCacheAssumption DEF FundingRow, SpendingRow, AllActs, ScriptActs
<1> QED BY <1>2, <1>3

\* The statistics of one more row of a color: the transaction counts if no row has it yet.
LEMMA StatStep ==
  ASSUME NEW S, IsFiniteSet(S), NEW r, r \notin S, r.act \in AllActs, NEW seen,
         r.tx \in seen <=> \E s \in S : s.tx = r.tx
  PROVE  StatOf(S \cup {r}) = CountRow(StatOf(S), r, seen)
<1> DEFINE txs == {s.tx : s \in S}
           of(a) == {s \in S : s.act = a}
<1>1. /\ IsFiniteSet(txs) /\ Cardinality(txs) \in Nat
      /\ \A a : IsFiniteSet(of(a)) /\ Cardinality(of(a)) \in Nat
  <2>1. IsFiniteSet(txs)
    <3> DEFINE f == [s \in S |-> s.tx]
    <3>1. f \in Surjection(S, txs)
      BY DEF Surjection
    <3> HIDE DEF f, txs
    <3> QED BY <3>1, FS_Surjection
  <2>2. \A a : IsFiniteSet(of(a))
    BY FS_Subset
  <2> QED BY <2>1, <2>2, FS_CardinalityType
<1>2. Cardinality({s.tx : s \in S \cup {r}}) = Cardinality(txs) + (IF r.tx \in seen THEN 0 ELSE 1)
  <2>1. {s.tx : s \in S \cup {r}} = txs \cup {r.tx}
    OBVIOUS
  <2>2. r.tx \in seen <=> r.tx \in txs
    OBVIOUS
  <2> HIDE DEF txs
  <2>3. Cardinality(txs \cup {r.tx}) = IF r.tx \in txs THEN Cardinality(txs) ELSE Cardinality(txs) + 1
    BY <1>1, FS_AddElement
  <2>4. CASE r.tx \in seen
    <3>1. Cardinality(txs \cup {r.tx}) = Cardinality(txs)
      BY <2>2, <2>3, <2>4
    <3>2. Cardinality(txs) + 0 = Cardinality(txs)
      BY <1>1
    <3> QED BY <2>1, <2>4, <3>1, <3>2
  <2>5. CASE r.tx \notin seen
    <3>1. Cardinality(txs \cup {r.tx}) = Cardinality(txs) + 1
      BY <2>2, <2>3, <2>5
    <3> QED BY <1>1, <2>1, <2>5, <3>1
  <2> QED BY <2>4, <2>5
<1>3. ASSUME NEW a \in AllActs
      PROVE  Cardinality({s \in S \cup {r} : s.act = a})
               = IF a = r.act THEN Cardinality(of(a)) + 1 ELSE Cardinality(of(a))
  <2>1. CASE a = r.act
    <3>1. {s \in S \cup {r} : s.act = a} = of(a) \cup {r} /\ r \notin of(a)
      BY <2>1
    <3> HIDE DEF of
    <3> QED BY <1>1, <2>1, <3>1, FS_AddElement
  <2>2. CASE a # r.act
    <3>1. {s \in S \cup {r} : s.act = a} = of(a)
      BY <2>2
    <3> QED BY <2>2, <3>1
  <2> QED BY <2>1, <2>2
<1>4. StatOf(S) = [txs |-> Cardinality(txs), n |-> [a \in AllActs |-> Cardinality(of(a))]]
  BY DEF StatOf, AllActs
<1>5. StatOf(S \cup {r}) = [txs |-> Cardinality({s.tx : s \in S \cup {r}}),
                            n |-> [a \in AllActs |-> Cardinality({s \in S \cup {r} : s.act = a})]]
  BY DEF StatOf, AllActs
<1> HIDE DEF txs, of
<1>6. CountRow(StatOf(S), r, seen)
        = [txs |-> Cardinality(txs) + (IF r.tx \in seen THEN 0 ELSE 1),
           n |-> [a \in AllActs |-> IF a = r.act THEN Cardinality(of(a)) + 1 ELSE Cardinality(of(a))]]
  BY <1>4 DEF CountRow
<1>7. [a \in AllActs |-> Cardinality({s \in S \cup {r} : s.act = a})]
        = [a \in AllActs |-> IF a = r.act THEN Cardinality(of(a)) + 1 ELSE Cardinality(of(a))]
  BY <1>3
<1> QED BY <1>2, <1>5, <1>6, <1>7

\* The record of the row's color is all that changes.
LEMMA TallyStep ==
  ASSUME NEW kind, NEW S, IsFiniteSet(S), NEW r, r \notin S, r.act \in AllActs, NEW seen,
         r.tx \in seen <=> \E s \in S : s.color = r.color /\ s.tx = r.tx
  PROVE  LET stats == Tally(kind, S)
             stat  == IF r.color \in DOMAIN stats THEN stats[r.color] ELSE ZeroStat
         IN Tally(kind, S \cup {r}) = Insert(stats, r.color, CountRow(stat, r, seen))
<1> DEFINE of(c) == {s \in S : s.color = c}
           D == {s.color : s \in S} \cup DOMAIN NoStats(kind)
           stats == Tally(kind, S)
           stat == IF r.color \in DOMAIN stats THEN stats[r.color] ELSE ZeroStat
<1>1. stats = [c \in D |-> StatOf(of(c))]
  BY DEF Tally
<1>2. Tally(kind, S \cup {r}) = [c \in D \cup {r.color} |-> StatOf({s \in S \cup {r} : s.color = c})]
  <2>1. {s.color : s \in S \cup {r}} \cup DOMAIN NoStats(kind) = D \cup {r.color}
    OBVIOUS
  <2> QED BY <2>1 DEF Tally
<1>3. \A c : c # r.color => {s \in S \cup {r} : s.color = c} = of(c)
  OBVIOUS
<1>4. {s \in S \cup {r} : s.color = r.color} = of(r.color) \cup {r}
  OBVIOUS
<1>5. stat = StatOf(of(r.color))
  <2>1. CASE r.color \in D
    BY <1>1, <2>1
  <2>2. CASE r.color \notin D
    <3>1. of(r.color) = {}
      BY <2>2
    <3>2. StatOf({}) = ZeroStat
      BY FS_EmptySet DEF StatOf, ZeroStat
    <3> QED BY <1>1, <2>2, <3>1, <3>2
  <2> QED BY <2>1, <2>2
<1>6. StatOf(of(r.color) \cup {r}) = CountRow(stat, r, seen)
  <2>1. IsFiniteSet(of(r.color)) /\ r \notin of(r.color)
    BY FS_Subset
  <2>2. r.tx \in seen <=> \E s \in of(r.color) : s.tx = r.tx
    OBVIOUS
  <2> HIDE DEF of, stat
  <2> QED BY <1>5, <2>1, <2>2, StatStep
<1>7. DOMAIN stats = D
  BY <1>1
<1>8. Insert(stats, r.color, CountRow(stat, r, seen))
        = [c \in D \cup {r.color} |-> IF c = r.color THEN CountRow(stat, r, seen) ELSE stats[c]]
  BY <1>7 DEF Insert
<1> QED
  <2> HIDE DEF stat, of
  <2>1. \A c \in D \cup {r.color} : StatOf({s \in S \cup {r} : s.color = c})
                                     = IF c = r.color THEN CountRow(stat, r, seen) ELSE stats[c]
    <3> HIDE DEF D
    <3>1. \A c \in D : stats[c] = StatOf(of(c))
      BY <1>1
    <3> HIDE DEF stats
    <3> QED BY <1>3, <1>4, <1>6, <3>1
  <2> HIDE DEF D, stats
  <2>2. Tally(kind, S \cup {r}) = Insert(stats, r.color, CountRow(stat, r, seen))
    BY <1>2, <1>8, <2>1
  <2> QED BY <2>2 DEF stats, stat

\* ... of stats() and get_colored_stats()
LEMMA StatTaken ==
  ASSUME NEW tip \in Blocks, NEW known \in SUBSET Blocks,
         NEW p, Scanning(p, tip, known), p.kind # "utxo", NEW r \in NextRows(p.rows),
         NEW b \in Ancestors(tip), r.tx \in TxsOf[b], r.height = Height(b),
         NEW n, n.kind = p.kind, n.start = p.start, n.last = b, n.rows = p.rows \ {r},
         n.stats = UpdateStats(p, r, b).stats, n.seen = UpdateStats(p, r, b).seen
  PROVE  Scanning(n, tip, known)
<1> DEFINE S    == Done(p, tip)
           seen == IF p.last = b THEN p.seen[r.color] ELSE {}
           stat == IF r.color \in DOMAIN p.stats THEN p.stats[r.color] ELSE ZeroStat
<1>1. /\ ScanInv(n, tip, known) /\ ScanInv(p, tip, known) /\ SeenInv(p, tip)
      /\ BlockRow(p.kind, b, r) /\ r.height = Height(b)
      /\ Done(n, tip) = S \cup {r} /\ r \notin S
      /\ p.stats = Tally(p.kind, S)
  <2>1. ScanInv(p, tip, known) /\ SeenInv(p, tip) /\ p.stats = Tally(p.kind, S)
    BY DEF Scanning
  <2> HIDE DEF seen, stat
  <2>2. /\ ScanInv(n, tip, known) /\ r \in p.rows /\ p.rows \subseteq Rows(p.kind, known)
        /\ Done(n, tip) = S \cup (Rows(p.kind, Ancestors(tip)) \cap {r})
    <3>1. Height(b) \in Nat
      BY PlaceInChain
    <3>2. r.height <= Height(b)
      BY <3>1
    <3>3. p.rows \subseteq Rows(p.kind, known)
      BY <2>1 DEF ScanInv
    <3> QED BY <2>1, <3>2, <3>3, RowTaken
  <2>3. BlockRow(p.kind, b, r)
    <3>1. PICK c \in known : BlockRow(p.kind, c, r)
      BY <2>2, RowsAre
    <3> QED BY <3>1, RowsKept
  <2>4. r \in Rows(p.kind, Ancestors(tip))
    BY <2>3, RowsAre
  <2>5. r \notin S
    BY <2>2 DEF Done
  <2>6. Done(n, tip) = S \cup {r}
    BY <2>2, <2>4
  <2> HIDE DEF S
  <2> QED BY <2>1, <2>2, <2>3, <2>5, <2>6 DEF S
<1>2. b \in Blocks /\ Height(b) \in Nat
  BY PlaceInChain
<1>3. r.act \in AllActs /\ r.color \in Colors /\ r.tx \in Txs /\ r \in p.rows
  BY <1>1, <1>2, RowFields DEF NextRows
<1>4. ASSUME NEW s \in S, s.tx \in TxsOf[b] PROVE p.last = b /\ s.tx \in p.seen[s.color]
  <2>1. PICK c \in Ancestors(tip) : BlockRow(p.kind, c, s)
    BY RowsAre DEF Done
  <2>2. s.tx \in TxsOf[c] /\ s.height = Height(c)
    BY <2>1, BlockRowIs
  <2>3. c = b
    BY <1>4, <2>2, ConfirmedOnce
  <2>4. p.start <= r.height /\ p.start \in Nat
    BY <1>1, <1>3 DEF ScanInv
  <2>5. p.last # NoBlock
    BY <1>1, <1>2, <2>2, <2>3, <2>4 DEF ScanInv
  <2>6. p.last \in Ancestors(tip) /\ Height(b) <= Height(p.last) /\ Height(p.last) <= Height(b)
    BY <1>1, <1>3, <2>2, <2>3, <2>5 DEF ScanInv, SeenInv
  <2>7. Height(p.last) \in Nat
    BY <2>6, PlaceInChain
  <2>8. p.last = b
    BY <1>2, <2>6, <2>7, SamePlace
  <2> QED BY <1>1, <1>4, <2>5, <2>8 DEF SeenInv
<1>5. r.tx \in seen <=> \E s \in S : s.color = r.color /\ s.tx = r.tx
  <2>1. ASSUME r.tx \in seen PROVE \E s \in S : s.color = r.color /\ s.tx = r.tx
    BY <1>1, <1>3, <2>1 DEF SeenInv
  <2>2. ASSUME NEW s \in S, s.color = r.color, s.tx = r.tx PROVE r.tx \in seen
    BY <1>4, <2>2
  <2> QED BY <2>1, <2>2
<1>6. IsFiniteSet(S)
  <2>1. IsFiniteSet(Rows(p.kind, Ancestors(tip)))
    BY RowsFinite
  <2> QED BY <2>1, FS_Subset DEF Done
<1>7. n.stats = Insert(p.stats, r.color, CountRow(stat, r, seen))
      /\ n.seen = [p.seen EXCEPT ![r.color] = seen \cup {r.tx}]
  BY DEF UpdateStats
<1>8. n.stats = Tally(n.kind, Done(n, tip))
  <2>1. Tally(p.kind, S \cup {r}) = Insert(p.stats, r.color, CountRow(stat, r, seen))
    <3> HIDE DEF S, seen
    <3> QED BY <1>1, <1>3, <1>5, <1>6, TallyStep
  <2> QED BY <1>1, <1>7, <2>1
<1>9. SeenInv(n, tip)
  <2> DEFINE new == [p.seen EXCEPT ![r.color] = seen \cup {r.tx}]
  <2>1. p.seen \in [Colors -> SUBSET Txs] /\ seen \in SUBSET Txs
    BY <1>1, <1>3 DEF SeenInv
  <2>2. \A c \in Colors : new[c] = IF c = r.color THEN seen \cup {r.tx} ELSE p.seen[c]
    BY <1>3, <2>1
  <2>3. new \in [Colors -> SUBSET Txs]
    BY <1>3, <2>1
  <2>4. ASSUME NEW c \in Colors, NEW x \in new[c] PROVE \E s \in S \cup {r} : s.color = c /\ s.tx = x
    <3>1. CASE c = r.color /\ x = r.tx
      BY <3>1
    <3>2. CASE ~(c = r.color /\ x = r.tx)
      <4>1. x \in p.seen[c]
        BY <2>2, <3>2
      <4> QED BY <1>1, <4>1 DEF SeenInv
    <3> QED BY <3>1, <3>2
  <2>5. ASSUME NEW s \in S \cup {r}, s.tx \in TxsOf[b] PROVE s.tx \in new[s.color]
    <3>1. CASE s = r
      BY <1>3, <2>2, <3>1
    <3>2. CASE s # r
      <4>1. s \in S
        BY <3>2
      <4>2. s.color \in Colors
        <5>1. PICK c \in Ancestors(tip) : BlockRow(p.kind, c, s)
          BY <4>1, RowsAre DEF Done
        <5>2. c \in Blocks
          BY PlaceInChain
        <5> QED BY <5>1, <5>2, RowFields
      <4>3. p.last = b /\ s.tx \in p.seen[s.color]
        BY <1>4, <2>5, <4>1
      <4> QED BY <2>2, <4>2, <4>3
    <3> QED BY <3>1, <3>2
  <2> DEFINE done == Done(n, tip)
  <2>6. n.seen = new /\ n.last = b /\ done = S \cup {r}
    BY <1>1, <1>7
  <2> HIDE DEF new, S, done
  <2>7. \A c \in Colors : \A x \in n.seen[c] : \E s \in done : s.color = c /\ s.tx = x
    BY <2>4, <2>6
  <2>8. \A s \in done : s.tx \in TxsOf[n.last] => s.tx \in n.seen[s.color]
    BY <2>5, <2>6
  <2>9. n.seen \in [Colors -> SUBSET Txs]
    BY <2>3, <2>6
  <2>10. \A s \in n.rows : Height(n.last) <= s.height
    <3>1. \A s \in p.rows : s.height \in Nat /\ ~Precedes(s, r)
      <4>1. p.rows \subseteq Rows(p.kind, known)
        BY <1>1 DEF ScanInv
      <4> QED BY <4>1, RowHeights DEF NextRows
    <3>2. \A s \in p.rows : Height(b) <= s.height
      BY <1>1, <1>2, <3>1 DEF Precedes
    <3> QED BY <3>2
  <2> QED BY <2>7, <2>8, <2>9, <2>10 DEF SeenInv, done
<1> QED BY <1>1, <1>8, <1>9 DEF Scanning

-----------------------------------------------------------------------------
(* The caches and the queries, while nothing upsets them                    *)

Calm(kind, ups) == IF kind = "stats" THEN ups = {} ELSE ups \cap {"overlap", "moved"} = {}

\* A row of cache_db is right for its block.
UtxoRight(row) ==
  row.block # NoBlock => row.block \in Blocks /\ row.utxos = SavedUtxos(UtxosAt(row.block))
ColoredRight(row) ==
  row.block # NoBlock =>
    row.block \in Blocks /\ [c \in {Color} |-> row.stat] = StatsAt("colored", row.block)
StatsRight(rows) ==
  \A c \in Colors : rows[c].block # NoBlock =>
    /\ rows[c].block \in Blocks /\ c \in DOMAIN StatsAt("stats", rows[c].block)
    /\ rows[c].stat = StatsAt("stats", rows[c].block)[c]

\* All colors of the block that stats() saved last have a row of that block.
Together(rows) ==
  \/ \A c \in Colors : rows[c].block = NoBlock
  \/ \E b \in Blocks : /\ DOMAIN StatsAt("stats", b) # {}
                       /\ \A c \in DOMAIN StatsAt("stats", b) : rows[c].block = b

\* While it saves, those that it has written do.
HalfRight(p, rows) == HalfSaved(p) => \A c \in DOMAIN p.stats \ p.unsaved : rows[c].block = p.last

CalmInv ==
  /\ HeightInv
  /\ statsCache = [c \in Colors |-> statsCache[c]]
  /\ Undisturbed => UtxoRight(utxoCache) /\ ColoredRight(coloredCache)
  /\ upsets = {} =>
       /\ StatsRight(statsCache)
       /\ (\A i \in Queries : ~HalfSaved(q[i])) => Together(statsCache)
       /\ \A i \in Queries : HalfRight(q[i], statsCache)
  /\ \A i \in Queries : Calm(q[i].kind, upsets) => QueryInv(q[i], served, indexed)

\* A query that has not asked yet
LEMMA IdleIs ==
  ASSUME NEW kind, NEW tip, NEW known
  PROVE  QueryInv(Idle(kind), tip, known) /\ Idle(kind).kind = kind /\ ~HalfSaved(Idle(kind))
BY DEF QueryInv, Idle, Fresh, HalfSaved

LEMMA InitCalm == Init => CalmInv
<1> SUFFICES ASSUME Init PROVE CalmInv
  OBVIOUS
<1>1. PICK kind \in Kinds : q = [i \in Queries |-> Idle(kind)]
  BY DEF Init
<1>2. \A i \in Queries : q[i] = Idle(kind)
  BY <1>1
<1>3. \A i \in Queries : QueryInv(q[i], served, indexed) /\ ~HalfSaved(q[i])
  BY <1>2, IdleIs
<1>4. /\ statsCache = [c \in Colors |-> statsCache[c]]
      /\ \A c \in Colors : statsCache[c].block = NoBlock
      /\ utxoCache.block = NoBlock /\ coloredCache.block = NoBlock
  BY DEF Init
<1>5. HeightInv
  BY InitHeights
<1> QED BY <1>3, <1>4, <1>5 DEF CalmInv, UtxoRight, ColoredRight, StatsRight, Together, HalfRight

\* The indexing thread aims at a block, or writes the rows of one.
LEMMA WritesCalm ==
  ASSUME CalmInv, NEW b \in Blocks, Aim(b) \/ IndexBlock(b)
  PROVE  CalmInv'
<1>1. /\ UNCHANGED <<utxoCache, statsCache, coloredCache, q, upsets, served>>
      /\ indexed \subseteq indexed'
  BY DEF Aim, IndexBlock, TakeTarget, WriteRows, KeepCaches
<1>2. HeightInv'
  BY ThreadHeights DEF CalmInv
<1>3. ASSUME NEW i \in Queries, Calm(q[i].kind, upsets) PROVE QueryInv(q[i], served, indexed')
  <2>1. QueryInv(q[i], served, indexed)
    BY <1>3 DEF CalmInv
  <2>2. Rows(q[i].kind, indexed) \subseteq Rows(q[i].kind, indexed')
    BY <1>1, RowsGrow
  <2>3. Scanning(q[i], served, indexed) => Scanning(q[i], served, indexed')
    BY <2>2 DEF Scanning, ScanInv
  <2> QED BY <2>1, <2>3 DEF QueryInv
<1>4. /\ UtxoRight(utxoCache') = UtxoRight(utxoCache) /\ ColoredRight(coloredCache') = ColoredRight(coloredCache)
      /\ \A i \in Queries : QueryInv(q[i], served, indexed)' = QueryInv(q[i], served, indexed')
  BY <1>1
<1> QED BY <1>1, <1>2, <1>3, <1>4 DEF CalmInv, HalfSaved, Undisturbed

\* A chain is published while no query uses the old one.
LEMMA PublishCalm == ASSUME CalmInv, Publish PROVE CalmInv'
<1>1. /\ UNCHANGED <<utxoCache, statsCache, coloredCache, q, indexed>> /\ served' = target
      /\ upsets' = upsets \cup (IF \E i \in Queries : Underway(q[i]) THEN {"overlap"} ELSE {})
  BY DEF Publish, PublishTarget, KeepCaches
<1>2. HeightInv'
  BY ThreadHeights DEF CalmInv
<1>3. served \in Blocks /\ target \in Blocks
  BY DEF CalmInv, HeightInv, ChainTypeOK
<1>4. ASSUME NEW i \in Queries, Calm(q[i].kind, upsets') PROVE QueryInv(q[i], target, indexed)
  <2>1. ~Underway(q[i]) /\ Calm(q[i].kind, upsets)
    BY <1>1, <1>4 DEF Calm
  <2>2. QueryInv(q[i], served, indexed)
    BY <2>1 DEF CalmInv
  <2>3. q[i].pc # "scan" /\ q[i].pc # "restore"
    BY <2>1, <2>2 DEF Underway, QueryInv, Restoring
  <2>4. ASSUME q[i].pc = "open" PROVE Begun(q[i], target)
    <3>1. ~q[i].had /\ Begun(q[i], served)
      BY <2>1, <2>2, <2>4 DEF Underway, QueryInv
    <3>2. q[i].start = 0
      BY <3>1 DEF Begun
    <3>3. Answer(q[i], served, {r \in Rows(q[i].kind, Ancestors(served)) : r.height < q[i].start})
      BY <3>1 DEF Begun
    <3>4. Answer(q[i], target, {r \in Rows(q[i].kind, Ancestors(target)) : r.height < q[i].start})
      BY <1>3, <3>2, <3>3, NothingYet
    <3> QED BY <3>1, <3>2, <3>4 DEF Begun
  <2> QED BY <2>2, <2>3, <2>4 DEF QueryInv
<1>5. \A i \in Queries : QueryInv(q[i], served, indexed)' = QueryInv(q[i], target, indexed)
  BY <1>1
<1> QED BY <1>1, <1>2, <1>4, <1>5 DEF CalmInv, HalfSaved, Undisturbed

\* The process dies and comes up again.
LEMMA RestartCalm == ASSUME CalmInv, NEW b \in Blocks, Restart(b) PROVE CalmInv'
<1>1. /\ UNCHANGED <<utxoCache, statsCache, coloredCache>>
      /\ q' = [i \in Queries |-> Idle(q[i].kind)] /\ upsets' = upsets \cup Torn
  BY DEF Restart, KeepCaches
<1>2. HeightInv'
  BY RestartHeights DEF CalmInv
<1>3. \A i \in Queries : q'[i] = Idle(q[i].kind)
  BY <1>1
<1>4. \A i \in Queries : QueryInv(q'[i], served', indexed') /\ ~HalfSaved(q'[i])
  BY <1>3, IdleIs
<1>5. \A i \in Queries : QueryInv(q[i], served, indexed)' /\ ~HalfSaved(q[i])'
  BY <1>4 DEF HalfSaved
<1>6. upsets' = {} => \A i \in Queries : ~HalfSaved(q[i])
  BY <1>1 DEF Torn
<1>7. UtxoRight(utxoCache') = UtxoRight(utxoCache) /\ ColoredRight(coloredCache') = ColoredRight(coloredCache)
      /\ StatsRight(statsCache') = StatsRight(statsCache) /\ Together(statsCache') = Together(statsCache)
  BY <1>1
<1> QED BY <1>1, <1>2, <1>5, <1>6, <1>7 DEF CalmInv, HalfRight, Undisturbed

-----------------------------------------------------------------------------
(* Steps of a query                                                         *)

\* A step of one query that writes no row
LEMMA QueryCalm ==
  ASSUME CalmInv, NEW i \in Queries, Query(i), KeepCaches, upsets \subseteq upsets',
         UNCHANGED <<served, indexed>>, \A j \in Queries : j # i => q'[j] = q[j],
         q'[i].kind = q[i].kind, ~HalfSaved(q[i]), ~HalfSaved(q'[i]),
         Calm(q[i].kind, upsets') => QueryInv(q'[i], served, indexed)
  PROVE  CalmInv'
<1>1. HeightInv'
  BY QueryHeights DEF CalmInv
<1>2. UNCHANGED <<utxoCache, statsCache, coloredCache>>
  BY DEF KeepCaches
<1>3. ASSUME NEW j \in Queries, Calm(q'[j].kind, upsets') PROVE QueryInv(q'[j], served, indexed)
  <2>1. CASE j = i
    BY <1>3, <2>1
  <2>2. CASE j # i
    <3>1. q'[j] = q[j] /\ Calm(q[j].kind, upsets)
      BY <1>3, <2>2 DEF Calm
    <3> QED BY <3>1 DEF CalmInv
  <2> QED BY <2>1, <2>2
<1>4. \A j \in Queries : HalfSaved(q'[j]) = HalfSaved(q[j]) /\ (HalfSaved(q'[j]) => q'[j] = q[j])
  BY DEF HalfSaved
<1>5. \A j \in Queries : HalfRight(q[j], statsCache) => HalfRight(q'[j], statsCache)
  BY <1>4 DEF HalfRight
<1>6. /\ UtxoRight(utxoCache') = UtxoRight(utxoCache) /\ ColoredRight(coloredCache') = ColoredRight(coloredCache)
      /\ StatsRight(statsCache') = StatsRight(statsCache) /\ Together(statsCache') = Together(statsCache)
      /\ \A j \in Queries : /\ HalfSaved(q[j])' = HalfSaved(q'[j])
                            /\ QueryInv(q[j], served, indexed)' = QueryInv(q'[j], served, indexed)
                            /\ HalfRight(q[j], statsCache)' = HalfRight(q'[j], statsCache)
                            /\ Calm(q[j].kind, upsets)' = Calm(q'[j].kind, upsets')
  BY <1>2
<1> QED BY <1>1, <1>2, <1>3, <1>4, <1>5, <1>6 DEF CalmInv, Undisturbed

\* cache_db.get of utxo()
LEMMA AskUtxoCalm == ASSUME CalmInv, NEW i \in Queries, AskUtxo(i) PROVE CalmInv'
<1>1. /\ ShapeInv /\ served \in Blocks /\ q[i].kind = "utxo" /\ q[i].pc = "idle"
      /\ KeepCaches /\ upsets' = upsets
  BY DEF CalmInv, HeightInv, ChainTypeOK, AskUtxo, KeepAll
<1>2. Calm("utxo", upsets) => QueryInv(q[i], served, indexed) /\ UtxoRight(utxoCache)
  BY <1>1 DEF CalmInv, Calm, Undisturbed
<1>3. CASE utxoCache.block = NoBlock
  <2>1. Step(i, [pc |-> "open", stats |-> NoStats("utxo"), seen |-> NoneSeen])
    BY <1>3 DEF AskUtxo, Ask
  <2>2. /\ UNCHANGED <<served, indexed>> /\ \A j \in Queries : j # i => q'[j] = q[j]
        /\ q'[i].kind = "utxo" /\ q'[i].pc = "open" /\ q'[i].had = q[i].had /\ q'[i].start = q[i].start
        /\ q'[i].last = q[i].last /\ q'[i].utxos = q[i].utxos
    BY <1>1, <2>1, StepSets DEF QueryFields
  <2>3. ASSUME Calm("utxo", upsets) PROVE QueryInv(q'[i], served, indexed)
    <3>1. Fresh(q[i])
      BY <1>1, <1>2, <2>3 DEF QueryInv
    <3>2. Begun(q'[i], served)
      BY <1>1, <2>2, <3>1, NothingYet DEF Fresh, Begun
    <3> QED BY <2>2, <3>2 DEF QueryInv
  <2> QED BY <1>1, <2>2, <2>3, QueryCalm DEF Query, HalfSaved
<1>4. CASE utxoCache.block # NoBlock
  <2>1. Step(i, [pc |-> "height", base |-> utxoCache.block, cached |-> utxoCache.utxos])
    BY <1>4 DEF AskUtxo
  <2>2. /\ UNCHANGED <<served, indexed>> /\ \A j \in Queries : j # i => q'[j] = q[j]
        /\ q'[i].kind = "utxo" /\ q'[i].pc = "height" /\ q'[i].had = q[i].had /\ q'[i].start = q[i].start
        /\ q'[i].last = q[i].last /\ q'[i].utxos = q[i].utxos
        /\ q'[i].base = utxoCache.block /\ q'[i].cached = utxoCache.utxos
    BY <1>1, <2>1, StepSets DEF QueryFields
  <2>3. ASSUME Calm("utxo", upsets) PROVE QueryInv(q'[i], served, indexed)
    <3>1. Fresh(q'[i])
      BY <1>1, <1>2, <2>2, <2>3 DEF QueryInv, Fresh
    <3>2. FromCache(q'[i])
      BY <1>2, <1>4, <2>2, <2>3 DEF UtxoRight, FromCache
    <3> QED BY <2>2, <3>1, <3>2 DEF QueryInv
  <2> QED BY <1>1, <2>2, <2>3, QueryCalm DEF Query, HalfSaved
<1> QED BY <1>3, <1>4

\* A query without a cache row starts with nothing.
LEMMA AskedAfresh ==
  ASSUME NEW p, p.pc = "idle", NEW tip \in Blocks, NEW known, QueryInv(p, tip, known), p.kind # "utxo",
         NEW n, n.pc = "open", n.kind = p.kind, n.start = p.start, n.last = p.last,
         n.stats = NoStats(p.kind), n.seen = NoneSeen, n.utxos = p.utxos, n.had = p.had
  PROVE  QueryInv(n, tip, known)
<1>1. Fresh(p)
  BY DEF QueryInv
<1>2. Begun(n, tip)
  BY <1>1, NothingYet DEF Fresh, Begun
<1> QED BY <1>2 DEF QueryInv

\* ... and with one, with what the row has.
LEMMA AskedOfCache ==
  ASSUME NEW p, p.pc = "idle", NEW tip, NEW known, QueryInv(p, tip, known), p.kind # "utxo",
         NEW b \in Blocks, NEW n, n.pc = "height", n.kind = p.kind, n.start = p.start, n.last = p.last,
         n.utxos = p.utxos, n.had = p.had, n.cached = p.cached, n.base = b,
         n.stats = StatsAt(p.kind, b), n.seen = NoneSeen
  PROVE  QueryInv(n, tip, known)
<1>1. Fresh(n) /\ n.cached = {}
  BY DEF QueryInv, Fresh
<1>2. FromCache(n)
  BY <1>1 DEF FromCache
<1> QED BY <1>1, <1>2 DEF QueryInv

\* cache_db.get of get_colored_stats()
LEMMA AskColoredCalm == ASSUME CalmInv, NEW i \in Queries, AskColored(i) PROVE CalmInv'
<1>1. /\ ShapeInv /\ served \in Blocks /\ q[i].kind = "colored" /\ q[i].pc = "idle"
      /\ KeepCaches /\ upsets' = upsets
  BY DEF CalmInv, HeightInv, ChainTypeOK, AskColored, KeepAll
<1>2. Calm("colored", upsets) => QueryInv(q[i], served, indexed) /\ ColoredRight(coloredCache)
  BY <1>1 DEF CalmInv, Calm, Undisturbed
<1>3. CASE coloredCache.block = NoBlock
  <2>1. Step(i, [pc |-> "open", stats |-> NoStats("colored"), seen |-> NoneSeen])
    BY <1>3 DEF AskColored, Ask
  <2>2. /\ UNCHANGED <<served, indexed>> /\ \A j \in Queries : j # i => q'[j] = q[j]
        /\ q'[i].kind = "colored" /\ q'[i].pc = "open" /\ q'[i].start = q[i].start
        /\ q'[i].last = q[i].last /\ q'[i].utxos = q[i].utxos /\ q'[i].had = q[i].had
        /\ q'[i].stats = NoStats("colored") /\ q'[i].seen = NoneSeen
    BY <1>1, <2>1, StepSets DEF QueryFields
  <2>3. ASSUME Calm("colored", upsets) PROVE QueryInv(q'[i], served, indexed)
    BY <1>1, <1>2, <2>2, <2>3, AskedAfresh
  <2> QED BY <1>1, <2>2, <2>3, QueryCalm DEF Query, HalfSaved
<1>4. CASE coloredCache.block # NoBlock
  <2>1. Step(i, [pc |-> "height", base |-> coloredCache.block, seen |-> NoneSeen,
                 stats |-> [c \in {Color} |-> coloredCache.stat]])
    BY <1>4 DEF AskColored
  <2>2. /\ UNCHANGED <<served, indexed>> /\ \A j \in Queries : j # i => q'[j] = q[j]
        /\ q'[i].kind = "colored" /\ q'[i].pc = "height" /\ q'[i].start = q[i].start
        /\ q'[i].last = q[i].last /\ q'[i].utxos = q[i].utxos /\ q'[i].had = q[i].had
        /\ q'[i].cached = q[i].cached /\ q'[i].base = coloredCache.block
        /\ q'[i].stats = [c \in {Color} |-> coloredCache.stat] /\ q'[i].seen = NoneSeen
    BY <1>1, <2>1, StepSets DEF QueryFields
  <2>3. ASSUME Calm("colored", upsets) PROVE QueryInv(q'[i], served, indexed)
    <3>1. coloredCache.block \in Blocks /\ q'[i].stats = StatsAt("colored", coloredCache.block)
      BY <1>2, <1>4, <2>2, <2>3 DEF ColoredRight
    <3> QED BY <1>1, <1>2, <2>2, <2>3, <3>1, AskedOfCache
  <2> QED BY <1>1, <2>2, <2>3, QueryCalm DEF Query, HalfSaved
<1> QED BY <1>3, <1>4

\* The statistics of a script have colors of the model.
LEMMA ColorsOfStats == ASSUME NEW b \in Blocks PROVE DOMAIN StatsAt("stats", b) \subseteq Colors
<1>1. ASSUME NEW c \in DOMAIN StatsAt("stats", b) PROVE c \in Colors
  <2>1. PICK r \in Rows("stats", Ancestors(b)) : r.color = c
    BY DEF StatsAt, Tally, NoStats
  <2>2. PICK a \in Ancestors(b) : BlockRow("stats", a, r)
    BY RowsAre
  <2>3. a \in Blocks
    BY PlaceInChain
  <2> QED BY <2>1, <2>2, <2>3, RowFields
<1> QED BY <1>1

\* Rows of one block that hold all its colors are its statistics.
LEMMA StatsOfRows ==
  ASSUME NEW rows, StatsRight(rows), Together(rows), NEW lastColor \in Colors, rows[lastColor].block # NoBlock,
         \A c \in Colors : rows[c].block # NoBlock => rows[c].block = rows[lastColor].block
  PROVE  /\ rows[lastColor].block \in Blocks
         /\ [c \in {d \in Colors : rows[d].block # NoBlock} |-> rows[c].stat]
              = StatsAt("stats", rows[lastColor].block)
<1> DEFINE found == {d \in Colors : rows[d].block # NoBlock}
           b     == rows[lastColor].block
<1>1. b \in Blocks
  BY DEF StatsRight
<1>2. PICK e \in Blocks : /\ DOMAIN StatsAt("stats", e) # {}
                          /\ \A c \in DOMAIN StatsAt("stats", e) : rows[c].block = e
  BY DEF Together
<1>3. \A d \in Blocks : DOMAIN StatsAt("stats", d) \subseteq Colors
  BY ColorsOfStats
<1>4. e = b
  <2>1. PICK c \in DOMAIN StatsAt("stats", e) : rows[c].block = e
    BY <1>2
  <2>2. c \in Colors /\ e # NoBlock
    BY <1>3, <2>1, NoBlockAssumption
  <2> QED BY <2>1, <2>2
<1>5. DOMAIN StatsAt("stats", b) = found
  <2>1. ASSUME NEW c \in found PROVE c \in DOMAIN StatsAt("stats", b)
    <3>1. rows[c].block = b
      OBVIOUS
    <3> QED BY <3>1 DEF StatsRight
  <2>2. ASSUME NEW c \in DOMAIN StatsAt("stats", b) PROVE c \in found
    BY <1>1, <1>2, <1>3, <1>4, NoBlockAssumption
  <2> QED BY <2>1, <2>2
<1>6. \A c \in found : rows[c].stat = StatsAt("stats", b)[c]
  BY DEF StatsRight
<1>7. StatsAt("stats", b) = [c \in DOMAIN StatsAt("stats", b) |-> StatsAt("stats", b)[c]]
  BY DEF StatsAt, Tally
<1> HIDE DEF found, b
<1>8. [c \in found |-> rows[c].stat] = StatsAt("stats", b)
  BY <1>5, <1>6, <1>7
<1> QED BY <1>1, <1>8 DEF found, b

\* stats_iter_scan
LEMMA AskStatsCalm == ASSUME CalmInv, NEW i \in Queries, AskStats(i) PROVE CalmInv'
<1>1. /\ ShapeInv /\ served \in Blocks /\ q[i].kind = "stats" /\ q[i].pc = "idle" /\ KeepCaches
  BY DEF CalmInv, HeightInv, ChainTypeOK, AskStats
<1>2. upsets = {} => /\ QueryInv(q[i], served, indexed) /\ StatsRight(statsCache)
                     /\ (\A j \in Queries : ~HalfSaved(q[j])) => Together(statsCache)
  BY <1>1 DEF CalmInv, Calm
<1> DEFINE found == {c \in Colors : statsCache[c].block # NoBlock}
           stats == [c \in found |-> statsCache[c].stat]
<1>3. CASE Step(i, Ask("stats")) /\ UNCHANGED upsets
  <2>1. Step(i, [pc |-> "open", stats |-> NoStats("stats"), seen |-> NoneSeen])
    BY <1>3 DEF Ask
  <2>2. /\ UNCHANGED <<served, indexed>> /\ \A j \in Queries : j # i => q'[j] = q[j]
        /\ q'[i].kind = "stats" /\ q'[i].pc = "open" /\ q'[i].start = q[i].start
        /\ q'[i].last = q[i].last /\ q'[i].utxos = q[i].utxos /\ q'[i].had = q[i].had
        /\ q'[i].stats = NoStats("stats") /\ q'[i].seen = NoneSeen
    BY <1>1, <2>1, StepSets DEF QueryFields
  <2>3. ASSUME upsets = {} PROVE QueryInv(q'[i], served, indexed)
    BY <1>1, <1>2, <2>2, <2>3, AskedAfresh
  <2> QED BY <1>1, <1>3, <2>2, <2>3, QueryCalm DEF Query, HalfSaved, Calm
<1>4. ASSUME NEW lastColor \in found,
             upsets' = upsets \cup Torn \cup
               (IF \E c, d \in found : statsCache[c].block # statsCache[d].block THEN {"torn"} ELSE {}),
             Step(i, [pc |-> "height", base |-> statsCache[lastColor].block, seen |-> NoneSeen, stats |-> stats])
      PROVE  CalmInv'
  <2>1. /\ UNCHANGED <<served, indexed>> /\ \A j \in Queries : j # i => q'[j] = q[j]
        /\ q'[i].kind = "stats" /\ q'[i].pc = "height" /\ q'[i].start = q[i].start
        /\ q'[i].last = q[i].last /\ q'[i].utxos = q[i].utxos /\ q'[i].had = q[i].had
        /\ q'[i].cached = q[i].cached /\ q'[i].base = statsCache[lastColor].block
        /\ q'[i].stats = stats /\ q'[i].seen = NoneSeen
    <3> HIDE DEF stats, found
    <3> QED BY <1>1, <1>4, StepSets DEF QueryFields
  <2>2. ASSUME upsets' = {} PROVE QueryInv(q'[i], served, indexed)
    <3>1. upsets = {} /\ Torn = {} /\ ~ \E c, d \in found : statsCache[c].block # statsCache[d].block
      BY <1>4, <2>2
    <3>2. \A j \in Queries : ~HalfSaved(q[j])
      BY <3>1 DEF Torn
    <3>3. StatsRight(statsCache) /\ Together(statsCache)
      BY <1>2, <3>1, <3>2
    <3>4. /\ statsCache[lastColor].block \in Blocks
          /\ stats = StatsAt("stats", statsCache[lastColor].block)
      BY <3>1, <3>3, StatsOfRows
    <3> HIDE DEF stats, found
    <3> QED BY <1>1, <1>2, <2>1, <3>1, <3>4, AskedOfCache
  <2>3. upsets \subseteq upsets'
    BY <1>4
  <2> QED BY <1>1, <2>1, <2>2, <2>3, QueryCalm DEF Query, HalfSaved, Calm
<1> QED BY <1>3, <1>4 DEF AskStats

\* A cached output has its place in the chain that its block is of.
LEMMA RestoredIs ==
  ASSUME NEW tip \in Blocks, NEW b \in Ancestors(tip)
  PROVE  {Restored(u, tip) : u \in SavedUtxos(UtxosAt(b))} = UtxosAt(b)
<1>1. ASSUME NEW u \in UtxosAt(b)
      PROVE  Restored([out |-> u.out, height |-> Height(u.block)], tip) = u
  <2>1. u \in [out : Outs, block : Ancestors(b)]
    BY DEF UtxosAt
  <2>2. u.block \in Ancestors(tip)
    BY <2>1, ChainBelow
  <2>3. ChainOf[tip][Height(u.block) + 1] = u.block
    BY <2>2, PlaceInChain
  <2> QED BY <2>1, <2>3 DEF Restored
<1> DEFINE saved(u) == [out |-> u.out, height |-> Height(u.block)]
<1>2. SavedUtxos(UtxosAt(b)) = {saved(u) : u \in UtxosAt(b)}
  BY DEF SavedUtxos
<1> HIDE DEF saved
<1>3. \A u \in UtxosAt(b) : Restored(saved(u), tip) = u
  BY <1>1 DEF saved
<1> QED BY <1>2, <1>3

\* height_by_hash of the block of the cache
LEMMA CheckHeightCalm == ASSUME CalmInv, NEW i \in Queries, CheckHeight(i) PROVE CalmInv'
<1>1. /\ ShapeInv /\ served \in Blocks /\ q[i].pc = "height" /\ KeepCaches /\ upsets \subseteq upsets'
  BY DEF CalmInv, HeightInv, ChainTypeOK, CheckHeight, KeepAll
<1>2. ASSUME Calm(q[i].kind, upsets') PROVE Fresh(q[i]) /\ FromCache(q[i])
  <2>1. Calm(q[i].kind, upsets)
    BY <1>1, <1>2 DEF Calm
  <2> QED BY <1>1, <2>1 DEF CalmInv, QueryInv
<1>3. CASE q[i].base \in Ancestors(served)
  <2>1. PICK place : /\ Step(i, [had |-> TRUE, start |-> Height(q[i].base) + 1, pc |-> place])
                     /\ place = IF q[i].cached = {} THEN "open" ELSE "restore"
    BY <1>3 DEF CheckHeight, UseCache
  <2>2. /\ UNCHANGED <<served, indexed>> /\ \A j \in Queries : j # i => q'[j] = q[j]
        /\ q'[i].kind = q[i].kind /\ q'[i].pc = place /\ q'[i].start = Height(q[i].base) + 1
        /\ q'[i].had = TRUE /\ q'[i].last = q[i].last /\ q'[i].utxos = q[i].utxos
        /\ q'[i].cached = q[i].cached /\ q'[i].base = q[i].base
        /\ q'[i].stats = q[i].stats /\ q'[i].seen = q[i].seen
    BY <1>1, <2>1, StepSets DEF QueryFields
  <2>3. Height(q[i].base) \in Nat
    BY <1>1, <1>3, PlaceInChain
  <2>4. ASSUME Calm(q[i].kind, upsets') PROVE QueryInv(q'[i], served, indexed)
    <3>1. Fresh(q[i]) /\ FromCache(q[i])
      BY <1>2, <2>4
    <3>2. {Restored(u, served) : u \in SavedUtxos(UtxosAt(q[i].base))} = UtxosAt(q[i].base)
      BY <1>1, <1>3, RestoredIs
    <3>3. CASE q[i].cached = {}
      <4>1. q[i].kind = "utxo" => UtxosAt(q[i].base) = {}
        <5>1. q[i].kind = "utxo" => SavedUtxos(UtxosAt(q[i].base)) = {}
          BY <3>1, <3>3 DEF FromCache
        <5> QED BY <5>1 DEF SavedUtxos
      <4>2. IF q[i].kind = "utxo" THEN q'[i].utxos = UtxosAt(q[i].base)
            ELSE q'[i].stats = StatsAt(q[i].kind, q[i].base)
        BY <2>2, <3>1, <4>1 DEF Fresh, FromCache
      <4>3. Answer(q'[i], served, {r \in Rows(q'[i].kind, Ancestors(served)) : r.height < q'[i].start})
        BY <1>1, <1>3, <2>2, <4>2, RowsOfBase
      <4>4. Begun(q'[i], served)
        BY <2>2, <2>3, <3>1, <4>3 DEF Begun, Fresh, FromCache
      <4> QED BY <2>1, <2>2, <3>3, <4>4 DEF QueryInv
    <3>4. CASE q[i].cached # {}
      <4>1. q[i].kind = "utxo" /\ q[i].cached = SavedUtxos(UtxosAt(q[i].base))
        BY <3>1, <3>4 DEF FromCache
      <4>2. q'[i].utxos \cup {Restored(u, served) : u \in q'[i].cached} = UtxosAt(q'[i].base)
        BY <2>2, <3>1, <3>2, <4>1 DEF Fresh
      <4>3. Restoring(q'[i], served)
        BY <1>3, <2>2, <3>1, <4>1, <4>2 DEF Restoring, Fresh
      <4> QED BY <2>1, <2>2, <3>4, <4>3 DEF QueryInv
    <3> QED BY <3>3, <3>4
  <2> QED BY <1>1, <2>1, <2>2, <2>4, QueryCalm DEF Query, HalfSaved
<1>4. CASE q[i].base \notin Ancestors(served) /\ q[i].kind # "stats"
  <2>1. Step(i, [pc |-> "open", cached |-> {}, stats |-> NoStats(q[i].kind)])
    BY <1>4 DEF CheckHeight, StartAfresh
  <2>2. /\ UNCHANGED <<served, indexed>> /\ \A j \in Queries : j # i => q'[j] = q[j]
        /\ q'[i].kind = q[i].kind /\ q'[i].pc = "open" /\ q'[i].start = q[i].start
        /\ q'[i].last = q[i].last /\ q'[i].utxos = q[i].utxos /\ q'[i].had = q[i].had
        /\ q'[i].stats = NoStats(q[i].kind) /\ q'[i].seen = q[i].seen
    BY <1>1, <2>1, StepSets DEF QueryFields
  <2>3. ASSUME Calm(q[i].kind, upsets') PROVE QueryInv(q'[i], served, indexed)
    <3>1. Fresh(q[i]) /\ FromCache(q[i])
      BY <1>2, <2>3
    <3>2. Answer(q'[i], served, {r \in Rows(q'[i].kind, Ancestors(served)) : r.height < q'[i].start})
      BY <1>1, <2>2, <3>1, NothingYet DEF Fresh
    <3>3. Begun(q'[i], served)
      BY <2>2, <3>1, <3>2 DEF Fresh, FromCache, Begun
    <3> QED BY <2>2, <3>3 DEF QueryInv
  <2> QED BY <1>1, <2>2, <2>3, QueryCalm DEF Query, HalfSaved
<1>5. CASE q[i].base \notin Ancestors(served) /\ q[i].kind = "stats"
  <2>1. Step(i, [pc |-> "open"]) /\ upsets' = upsets \cup {"orphan"}
    BY <1>5 DEF CheckHeight
  <2>2. /\ UNCHANGED <<served, indexed>> /\ \A j \in Queries : j # i => q'[j] = q[j]
        /\ q'[i].kind = q[i].kind /\ q'[i].pc = "open"
    BY <1>1, <2>1, StepSets DEF QueryFields
  <2>3. ~Calm(q[i].kind, upsets')
    BY <1>5, <2>1 DEF Calm
  <2> QED BY <1>1, <2>2, <2>3, QueryCalm DEF Query, HalfSaved
<1> QED BY <1>3, <1>4, <1>5

\* from_utxo_cache
LEMMA RestoreCalm == ASSUME CalmInv, NEW i \in Queries, Restore(i) PROVE CalmInv'
<1>1. /\ ShapeInv /\ served \in Blocks /\ q[i].pc = "restore" /\ KeepCaches /\ upsets' = upsets
  BY DEF CalmInv, HeightInv, ChainTypeOK, Restore, KeepAll
<1>2. PICK u \in q[i].cached, place \in {"open", "restore"} :
        /\ Step(i, [cached |-> q[i].cached \ {u}, utxos |-> q[i].utxos \cup {Restored(u, served)}, pc |-> place])
        /\ place = IF q[i].cached = {u} THEN "open" ELSE "restore"
  <2>1. PICK u \in q[i].cached :
          IF u.height > Height(served) THEN Step(i, [pc |-> "panicked"])
          ELSE Step(i, [cached |-> q[i].cached \ {u}, utxos |-> q[i].utxos \cup {Restored(u, served)},
                        pc |-> IF q[i].cached = {u} THEN "open" ELSE "restore"])
    BY DEF Restore, Restored
  <2>2. u.height \in Nat /\ u.height <= Height(served) /\ Height(served) \in Nat
    BY <1>1, ChainFacts DEF CalmInv, HeightInv, Within
  <2>3. ~(u.height > Height(served))
    BY <2>2
  <2> QED BY <2>1, <2>3
<1>3. /\ UNCHANGED <<served, indexed>> /\ \A j \in Queries : j # i => q'[j] = q[j]
      /\ q'[i].kind = q[i].kind /\ q'[i].pc = place /\ q'[i].start = q[i].start
      /\ q'[i].had = q[i].had /\ q'[i].last = q[i].last /\ q'[i].base = q[i].base
      /\ q'[i].utxos = q[i].utxos \cup {Restored(u, served)} /\ q'[i].cached = q[i].cached \ {u}
  BY <1>1, <1>2, StepSets DEF QueryFields
<1>4. ASSUME Calm(q[i].kind, upsets) PROVE QueryInv(q'[i], served, indexed)
  <2>1. Restoring(q[i], served)
    BY <1>1, <1>4 DEF CalmInv, QueryInv
  <2>2. q'[i].utxos \cup {Restored(v, served) : v \in q'[i].cached}
        = q[i].utxos \cup {Restored(v, served) : v \in q[i].cached}
    BY <1>2, <1>3
  <2>3. Restoring(q'[i], served)
    BY <1>3, <2>1, <2>2 DEF Restoring
  <2>4. CASE q[i].cached = {u}
    <3>1. q'[i].utxos = UtxosAt(q'[i].base)
      BY <1>3, <2>3, <2>4 DEF Restoring
    <3>2. Height(q'[i].base) \in Nat
      BY <1>1, <2>3, PlaceInChain DEF Restoring
    <3>3. Answer(q'[i], served, {r \in Rows(q'[i].kind, Ancestors(served)) : r.height < q'[i].start})
      BY <1>1, <2>3, <3>1, RowsOfBase DEF Restoring
    <3>4. Begun(q'[i], served)
      BY <2>3, <3>2, <3>3 DEF Restoring, Begun
    <3> QED BY <1>2, <1>3, <2>4, <3>4 DEF QueryInv
  <2>5. CASE q[i].cached # {u}
    BY <1>2, <1>3, <2>3, <2>5 DEF QueryInv
  <2> QED BY <2>4, <2>5
<1> QED BY <1>1, <1>2, <1>3, <1>4, QueryCalm DEF Query, HalfSaved

\* history_iter_scan, colored_history_iter_scan
LEMMA OpenScanCalm == ASSUME CalmInv, NEW i \in Queries, OpenScan(i) PROVE CalmInv'
<1>1. /\ ShapeInv /\ served \in Blocks /\ indexed \in SUBSET Blocks /\ Ancestors(served) \subseteq indexed
      /\ q[i].pc = "open" /\ KeepCaches /\ upsets' = upsets
  BY DEF CalmInv, HeightInv, ChainTypeOK, OpenScan, KeepAll
<1>2. Step(i, [pc |-> "scan", rows |-> {r \in Rows(q[i].kind, indexed) : r.height >= q[i].start}])
  BY DEF OpenScan
<1>3. /\ UNCHANGED <<served, indexed>> /\ \A j \in Queries : j # i => q'[j] = q[j]
      /\ q'[i].kind = q[i].kind /\ q'[i].pc = "scan" /\ q'[i].start = q[i].start
      /\ q'[i].last = q[i].last /\ q'[i].utxos = q[i].utxos
      /\ q'[i].stats = q[i].stats /\ q'[i].seen = q[i].seen
      /\ q'[i].rows = {r \in Rows(q[i].kind, indexed) : r.height >= q[i].start}
  BY <1>1, <1>2, StepSets DEF QueryFields
<1>4. ASSUME Calm(q[i].kind, upsets) PROVE QueryInv(q'[i], served, indexed)
  <2>1. Begun(q[i], served)
    BY <1>1, <1>4 DEF CalmInv, QueryInv
  <2>2. Scanning(q'[i], served, indexed)
    BY <1>1, <1>3, <2>1, ScanStarts
  <2> QED BY <1>3, <2>2 DEF QueryInv
<1> QED BY <1>1, <1>3, <1>4, QueryCalm DEF Query, HalfSaved

\* One row of a scan
LEMMA ScanRowCalm == ASSUME CalmInv, NEW i \in Queries, ScanRow(i) PROVE CalmInv'
<1>1. /\ ShapeInv /\ served \in Blocks /\ indexed \in SUBSET Blocks
      /\ q[i].pc = "scan" /\ KeepCaches
  BY DEF CalmInv, HeightInv, ChainTypeOK, ScanRow
<1>2. PICK row \in NextRows(q[i].rows) :
        LET b       == TxConfirmingBlock(row.tx)
            rest    == q[i].rows \ {row}
            utxos   == UpdateUtxos(q[i].utxos, row, b)
            counted == UpdateStats(q[i], row, b)
        IN /\ upsets' = upsets \cup (IF Misleads(q[i].kind, row, b) THEN {"moved"} ELSE {})
           /\ \/ b = NoBlock /\ Step(i, [rows |-> rest])
              \/ /\ b # NoBlock /\ q[i].kind # "utxo"
                 /\ Step(i, [rows |-> rest, last |-> b, stats |-> counted.stats, seen |-> counted.seen])
              \/ Step(i, Idle(q[i].kind))
              \/ /\ b # NoBlock /\ q[i].kind = "utxo"
                 /\ Step(i, [rows |-> rest, last |-> b, utxos |-> utxos, items |-> q[i].items + 1])
  BY DEF ScanRow
<1> DEFINE b       == TxConfirmingBlock(row.tx)
           rest    == q[i].rows \ {row}
           utxos   == UpdateUtxos(q[i].utxos, row, b)
           counted == UpdateStats(q[i], row, b)
<1>3. \/ b \in Ancestors(served) /\ b # NoBlock /\ row.tx \in TxsOf[b]
      \/ b = NoBlock /\ \A c \in Ancestors(served) : row.tx \notin TxsOf[c]
  BY <1>1, Confirming
<1>4. upsets \subseteq upsets' /\ (Misleads(q[i].kind, row, b) => "moved" \in upsets')
  BY <1>2
<1>5. ASSUME Calm(q[i].kind, upsets')
      PROVE  Scanning(q[i], served, indexed) /\ ~Misleads(q[i].kind, row, b)
  <2>1. Calm(q[i].kind, upsets) /\ ~Misleads(q[i].kind, row, b)
    BY <1>5, <1>4 DEF Calm
  <2> QED BY <1>1, <2>1 DEF CalmInv, QueryInv
<1>6. CASE b = NoBlock /\ Step(i, [rows |-> rest])
  <2>1. /\ UNCHANGED <<served, indexed>> /\ \A j \in Queries : j # i => q'[j] = q[j]
        /\ q'[i].kind = q[i].kind /\ q'[i].pc = "scan" /\ q'[i].start = q[i].start
        /\ q'[i].last = q[i].last /\ q'[i].utxos = q[i].utxos
        /\ q'[i].stats = q[i].stats /\ q'[i].seen = q[i].seen /\ q'[i].rows = rest
    <3> HIDE DEF rest
    <3> QED BY <1>1, <1>6, StepSets DEF QueryFields
  <2>2. ASSUME Calm(q[i].kind, upsets') PROVE Scanning(q'[i], served, indexed)
    BY <1>1, <1>3, <1>5, <1>6, <2>1, <2>2, RowSkipped
  <2>3. Calm(q[i].kind, upsets') => QueryInv(q'[i], served, indexed)
    BY <2>1, <2>2 DEF QueryInv
  <2> QED BY <1>1, <1>4, <2>1, <2>3, QueryCalm DEF Query, HalfSaved
<1>7. CASE /\ b # NoBlock /\ q[i].kind # "utxo"
           /\ Step(i, [rows |-> rest, last |-> b, stats |-> counted.stats, seen |-> counted.seen])
  <2>1. /\ UNCHANGED <<served, indexed>> /\ \A j \in Queries : j # i => q'[j] = q[j]
        /\ q'[i].kind = q[i].kind /\ q'[i].pc = "scan" /\ q'[i].start = q[i].start
        /\ q'[i].last = b /\ q'[i].stats = counted.stats /\ q'[i].seen = counted.seen /\ q'[i].rows = rest
    <3> HIDE DEF rest, b, counted
    <3> QED BY <1>1, <1>7, StepSets DEF QueryFields
  <2>2. ASSUME Calm(q[i].kind, upsets') PROVE Scanning(q'[i], served, indexed)
    <3>1. /\ b \in Ancestors(served) /\ row.tx \in TxsOf[b] /\ Scanning(q[i], served, indexed)
          /\ row.height = Height(b)
      BY <1>3, <1>5, <1>7, <2>2 DEF Misleads
    <3> HIDE DEF b
    <3> QED BY <1>1, <1>7, <2>1, <3>1, StatTaken
  <2>3. Calm(q[i].kind, upsets') => QueryInv(q'[i], served, indexed)
    BY <2>1, <2>2 DEF QueryInv
  <2> QED BY <1>1, <1>4, <2>1, <2>3, QueryCalm DEF Query, HalfSaved
<1>8. CASE Step(i, Idle(q[i].kind))
  <2>1. DOMAIN Idle(q[i].kind) = QueryFields
    BY DEF Idle, QueryFields
  <2>2. /\ UNCHANGED <<served, indexed>> /\ \A j \in Queries : j # i => q'[j] = q[j]
        /\ q'[i].kind = q[i].kind /\ q'[i].pc = "idle" /\ Fresh(q'[i]) /\ q'[i].cached = {}
    <3> DEFINE c == Idle(q[i].kind)
    <3>1. /\ c.kind = q[i].kind /\ c.pc = "idle" /\ c.had = FALSE /\ c.start = 0 /\ c.last = NoBlock
          /\ c.utxos = {} /\ c.cached = {}
      BY DEF Idle
    <3> HIDE DEF c
    <3> QED BY <1>1, <1>8, <2>1, <3>1, StepSets DEF Fresh, QueryFields, c
  <2>3. QueryInv(q'[i], served, indexed)
    BY <2>2 DEF QueryInv
  <2> QED BY <1>1, <1>4, <2>2, <2>3, QueryCalm DEF Query, HalfSaved
<1>9. CASE /\ b # NoBlock /\ q[i].kind = "utxo"
           /\ Step(i, [rows |-> rest, last |-> b, utxos |-> utxos, items |-> q[i].items + 1])
  <2>1. /\ UNCHANGED <<served, indexed>> /\ \A j \in Queries : j # i => q'[j] = q[j]
        /\ q'[i].kind = q[i].kind /\ q'[i].pc = "scan" /\ q'[i].start = q[i].start
        /\ q'[i].last = b /\ q'[i].utxos = utxos /\ q'[i].rows = rest
    <3> HIDE DEF rest, b, utxos
    <3> QED BY <1>1, <1>9, StepSets DEF QueryFields
  <2>2. ASSUME Calm(q[i].kind, upsets') PROVE Scanning(q'[i], served, indexed)
    <3>1. /\ b \in Ancestors(served) /\ row.tx \in TxsOf[b] /\ Scanning(q[i], served, indexed)
          /\ ~(row.height > Height(b))
      BY <1>3, <1>5, <1>9, <2>2 DEF Misleads
    <3>2. row.height <= Height(b)
      <4>1. row \in Rows(q[i].kind, indexed)
        BY <3>1 DEF NextRows, Scanning, ScanInv
      <4>2. row.height \in Nat /\ Height(b) \in Nat
        BY <1>1, <3>1, <4>1, RowHeights, PlaceInChain
      <4> QED BY <3>1, <4>2
    <3> HIDE DEF b
    <3> QED BY <1>1, <1>9, <2>1, <3>1, <3>2, OutputTaken
  <2>3. Calm(q[i].kind, upsets') => QueryInv(q'[i], served, indexed)
    BY <2>1, <2>2 DEF QueryInv
  <2> QED BY <1>1, <1>4, <2>1, <2>3, QueryCalm DEF Query, HalfSaved
<1> QED BY <1>2, <1>6, <1>7, <1>8, <1>9

\* The end of the iterator
LEMMA ScanEndCalm == ASSUME CalmInv, NEW i \in Queries, ScanEnd(i) PROVE CalmInv'
<1> DEFINE place == IF RowsToSave(q[i]) = {} THEN "answered" ELSE "save"
<1>1. /\ ShapeInv /\ served \in Blocks /\ indexed \in SUBSET Blocks
      /\ q[i].pc = "scan" /\ q[i].rows = {} /\ KeepCaches /\ upsets' = upsets
      /\ Step(i, [unsaved |-> RowsToSave(q[i]), pc |-> place])
  BY DEF CalmInv, HeightInv, ChainTypeOK, ScanEnd, KeepAll
<1>2. /\ UNCHANGED <<served, indexed>> /\ \A j \in Queries : j # i => q'[j] = q[j]
      /\ q'[i].kind = q[i].kind /\ q'[i].pc = place /\ q'[i].last = q[i].last
      /\ q'[i].utxos = q[i].utxos /\ q'[i].stats = q[i].stats /\ q'[i].unsaved = RowsToSave(q[i])
  <2> HIDE DEF place
  <2> QED BY <1>1, StepSets DEF QueryFields
<1>3. place = "save" => /\ q[i].last # NoBlock
                        /\ RowsToSave(q[i]) = IF q[i].kind = "stats" THEN DOMAIN q[i].stats ELSE {Color}
  BY DEF RowsToSave
<1>4. ~HalfSaved(q[i]) /\ ~HalfSaved(q'[i])
  BY <1>1, <1>2, <1>3 DEF HalfSaved
<1>5. ASSUME Calm(q[i].kind, upsets) PROVE QueryInv(q'[i], served, indexed)
  <2>1. Scanning(q[i], served, indexed)
    BY <1>1, <1>5 DEF CalmInv, QueryInv
  <2>2. q[i].last # NoBlock => Saved(q[i])
    BY <1>1, <2>1, ScanEnds
  <2>3. place = "save" => Saved(q'[i])
    BY <1>2, <1>3, <2>2 DEF Saved
  <2> QED BY <1>2, <1>3, <2>3 DEF QueryInv
<1> QED BY <1>1, <1>2, <1>4, <1>5, QueryCalm DEF Query

\* The statistics of a color are of that color only.
LEMMA OneColor ==
  ASSUME NEW b \in Blocks
  PROVE  DOMAIN StatsAt("colored", b) = {Color}
         /\ StatsAt("colored", b) = [c \in {Color} |-> StatsAt("colored", b)[c]]
<1>1. ASSUME NEW r \in Rows("colored", Ancestors(b)) PROVE r.color = Color
  <2>1. PICK a \in Ancestors(b) : BlockRow("colored", a, r)
    BY RowsAre
  <2>2. a \in Blocks
    BY PlaceInChain
  <2> QED BY <2>1, <2>2, RowFields
<1>2. {r.color : r \in Rows("colored", Ancestors(b))} \cup DOMAIN NoStats("colored") = {Color}
  BY <1>1 DEF NoStats
<1> QED BY <1>2 DEF StatsAt, Tally

LEMMA EndCalm == ASSUME CalmInv, NEW i \in Queries, End(i) PROVE CalmInv'
<1>1. /\ ShapeInv /\ q[i].pc \in {"answered", "panicked"} /\ KeepCaches /\ upsets' = upsets
      /\ Step(i, Idle(q[i].kind))
  BY DEF CalmInv, HeightInv, End, KeepAll
<1>2. DOMAIN Idle(q[i].kind) = QueryFields
  BY DEF Idle, QueryFields
<1>3. /\ UNCHANGED <<served, indexed>> /\ \A j \in Queries : j # i => q'[j] = q[j]
      /\ q'[i].kind = q[i].kind /\ q'[i].pc = "idle" /\ Fresh(q'[i]) /\ q'[i].cached = {}
  <2> DEFINE c == Idle(q[i].kind)
  <2>1. /\ c.kind = q[i].kind /\ c.pc = "idle" /\ c.had = FALSE /\ c.start = 0 /\ c.last = NoBlock
        /\ c.utxos = {} /\ c.cached = {}
    BY DEF Idle
  <2> HIDE DEF c
  <2> QED BY <1>1, <1>2, <2>1, StepSets DEF Fresh, QueryFields, c
<1>4. QueryInv(q'[i], served, indexed)
  BY <1>3 DEF QueryInv
<1> QED BY <1>1, <1>3, <1>4, QueryCalm DEF Query, HalfSaved

\* One row of cache_db
LEMMA SaveCalm == ASSUME CalmInv, NEW i \in Queries, Save(i) PROVE CalmInv'
<1>1. /\ ShapeInv /\ q[i].pc = "save" /\ HeightInv'
      /\ upsets' = upsets \cup IF \E j \in Queries \ {i} : HalfSaved(q[j]) THEN {"torn"} ELSE {}
  BY QueryHeights DEF CalmInv, HeightInv, Save, Query
<1>2. PICK c \in q[i].unsaved :
        /\ Step(i, [unsaved |-> q[i].unsaved \ {c},
                    pc |-> IF q[i].unsaved \ {c} = {} THEN "answered" ELSE "save"])
        /\ \/ /\ q[i].kind = "utxo"
              /\ utxoCache' = [utxos |-> SavedUtxos(q[i].utxos), block |-> q[i].last]
              /\ UNCHANGED <<statsCache, coloredCache>>
           \/ /\ q[i].kind = "stats"
              /\ statsCache' =
                   [statsCache EXCEPT ![c] = [stat |-> q[i].stats[c], block |-> q[i].last]]
              /\ UNCHANGED <<utxoCache, coloredCache>>
           \/ /\ q[i].kind = "colored"
              /\ coloredCache' = [stat |-> q[i].stats[c], block |-> q[i].last]
              /\ UNCHANGED <<utxoCache, statsCache>>
  BY DEF Save
<1> DEFINE rest  == q[i].unsaved \ {c}
           place == IF rest = {} THEN "answered" ELSE "save"
<1>3. /\ UNCHANGED <<served, indexed>> /\ \A j \in Queries : j # i => q'[j] = q[j]
      /\ q'[i].kind = q[i].kind /\ q'[i].pc = place /\ q'[i].last = q[i].last
      /\ q'[i].utxos = q[i].utxos /\ q'[i].stats = q[i].stats /\ q'[i].unsaved = rest
  <2>1. Step(i, [unsaved |-> rest, pc |-> place])
    BY <1>2
  <2> HIDE DEF rest, place
  <2> QED BY <1>1, <2>1, StepSets DEF QueryFields
<1>4. ASSUME Calm(q[i].kind, upsets')
      PROVE  /\ Calm(q[i].kind, upsets) /\ Saved(q[i])
             /\ q[i].unsaved \subseteq IF q[i].kind = "stats" THEN DOMAIN q[i].stats ELSE {Color}
  <2>1. Calm(q[i].kind, upsets)
    BY <1>1, <1>4 DEF Calm
  <2> QED BY <1>1, <2>1 DEF CalmInv, QueryInv
<1>5. ASSUME NEW j \in Queries, Calm(q'[j].kind, upsets') PROVE QueryInv(q'[j], served, indexed)
  <2>1. CASE j = i
    <3>1. Saved(q'[i])
      BY <1>3, <1>4, <1>5, <2>1 DEF Saved
    <3>2. q'[i].unsaved \subseteq IF q'[i].kind = "stats" THEN DOMAIN q'[i].stats ELSE {Color}
      BY <1>3, <1>4, <1>5, <2>1
    <3> QED BY <1>3, <2>1, <3>1, <3>2 DEF QueryInv
  <2>2. CASE j # i
    <3>1. q'[j] = q[j] /\ Calm(q[j].kind, upsets)
      BY <1>1, <1>3, <1>5, <2>2 DEF Calm
    <3> QED BY <3>1 DEF CalmInv
  <2> QED BY <2>1, <2>2
<1>6. statsCache' = [d \in Colors |-> statsCache'[d]]
  BY <1>2 DEF CalmInv
<1>7. ASSUME Undisturbed' PROVE UtxoRight(utxoCache') /\ ColoredRight(coloredCache')
  <2>1. UtxoRight(utxoCache) /\ ColoredRight(coloredCache)
    BY <1>1, <1>7 DEF CalmInv, Undisturbed
  <2>2. CASE q[i].kind = "utxo"
    <3>1. Saved(q[i])
      BY <1>4, <1>7, <2>2 DEF Calm, Undisturbed
    <3>2. q[i].last \in Blocks /\ q[i].utxos = UtxosAt(q[i].last)
      BY <2>2, <3>1 DEF Saved
    <3> QED BY <1>2, <2>1, <2>2, <3>2 DEF UtxoRight
  <2>3. CASE q[i].kind = "colored"
    <3>1. Saved(q[i]) /\ c = Color
      BY <1>4, <1>7, <2>3 DEF Calm, Undisturbed
    <3>2. q[i].last \in Blocks /\ q[i].stats = StatsAt("colored", q[i].last)
      BY <2>3, <3>1 DEF Saved
    <3>3. StatsAt("colored", q[i].last) = [d \in {Color} |-> q[i].stats[c]]
      <4>1. StatsAt("colored", q[i].last) = [d \in {Color} |-> StatsAt("colored", q[i].last)[d]]
        BY <3>2, OneColor
      <4> QED BY <3>1, <3>2, <4>1
    <3>4. coloredCache'.block = q[i].last /\ coloredCache'.stat = q[i].stats[c]
      BY <1>2, <2>3
    <3> QED BY <1>2, <2>1, <2>3, <3>2, <3>3, <3>4 DEF ColoredRight
  <2>4. CASE q[i].kind = "stats"
    BY <1>2, <2>1, <2>4
  <2> QED BY <1>1, <2>2, <2>3, <2>4 DEF ShapeInv, AllKinds
<1>8. ASSUME upsets' = {}
      PROVE  /\ StatsRight(statsCache')
             /\ (\A j \in Queries : ~HalfSaved(q'[j])) => Together(statsCache')
             /\ \A j \in Queries : HalfRight(q'[j], statsCache')
  <2>1. /\ upsets = {} /\ StatsRight(statsCache) /\ \A j \in Queries \ {i} : ~HalfSaved(q[j])
        /\ (\A j \in Queries : ~HalfSaved(q[j])) => Together(statsCache)
        /\ HalfRight(q[i], statsCache)
    BY <1>1, <1>8 DEF CalmInv
  <2>2. \A j \in Queries \ {i} : ~HalfSaved(q'[j])
    BY <1>3, <2>1
  <2>3. CASE q[i].kind # "stats"
    <3>1. statsCache' = statsCache /\ ~HalfSaved(q[i]) /\ ~HalfSaved(q'[i])
      BY <1>2, <1>3, <2>3 DEF HalfSaved
    <3> QED BY <2>1, <2>2, <3>1 DEF HalfRight
  <2>4. CASE q[i].kind = "stats"
    <3> DEFINE b == q[i].last
    <3>1. /\ b \in Blocks /\ q[i].stats = StatsAt("stats", b) /\ q[i].unsaved \subseteq DOMAIN q[i].stats
      BY <1>4, <1>8, <2>4 DEF Calm, Saved
    <3>2. /\ statsCache'[c].stat = q[i].stats[c] /\ statsCache'[c].block = b
          /\ \A d \in Colors : d # c => statsCache'[d] = statsCache[d]
      <4>1. DOMAIN StatsAt("stats", b) \subseteq Colors
        BY <3>1, ColorsOfStats
      <4>2. c \in Colors
        BY <3>1, <4>1
      <4>3. statsCache' = [statsCache EXCEPT ![c] = [stat |-> q[i].stats[c], block |-> b]]
        BY <1>2, <2>4
      <4>4. DOMAIN statsCache = Colors
        BY DEF CalmInv
      <4> QED BY <4>2, <4>3, <4>4
    <3>3. StatsRight(statsCache')
      BY <2>1, <3>1, <3>2 DEF StatsRight
    <3>4. \A d \in DOMAIN q[i].stats \ rest : statsCache'[d].block = b
      <4>1. ASSUME NEW d \in DOMAIN q[i].stats \ rest, d # c PROVE statsCache'[d].block = b
        <5>1. d \notin q[i].unsaved /\ d \in DOMAIN q[i].stats
          BY <4>1
        <5>2. HalfSaved(q[i])
          BY <1>1, <2>4, <5>1 DEF HalfSaved
        <5>3. statsCache[d].block = b
          BY <2>1, <5>1, <5>2 DEF HalfRight
        <5>4. d \in Colors
          BY <3>1, <5>1, ColorsOfStats
        <5> QED BY <3>2, <4>1, <5>3, <5>4
      <4> QED BY <3>2, <4>1
    <3>5. HalfRight(q'[i], statsCache')
      BY <1>3, <3>4 DEF HalfRight
    <3>6. ASSUME ~HalfSaved(q'[i]) PROVE Together(statsCache')
      <4>1. c \in DOMAIN q[i].stats /\ c \notin rest
        BY <3>1
      <4>2. rest = {}
        BY <1>3, <2>4, <3>6, <4>1 DEF HalfSaved
      <4>3. DOMAIN StatsAt("stats", b) # {} /\ \A d \in DOMAIN StatsAt("stats", b) : statsCache'[d].block = b
        BY <3>1, <3>4, <4>1, <4>2
      <4> QED BY <3>1, <4>3 DEF Together
    <3>7. \A j \in Queries \ {i} : HalfRight(q'[j], statsCache')
      BY <2>2 DEF HalfRight
    <3> QED BY <3>3, <3>5, <3>6, <3>7
  <2> QED BY <2>3, <2>4
<1>9. /\ UtxoRight(utxoCache') = UtxoRight(utxoCache)' /\ ColoredRight(coloredCache') = ColoredRight(coloredCache)'
      /\ StatsRight(statsCache') = StatsRight(statsCache)' /\ Together(statsCache') = Together(statsCache)'
      /\ \A j \in Queries : /\ HalfSaved(q[j])' = HalfSaved(q'[j])
                            /\ QueryInv(q[j], served, indexed)' = QueryInv(q'[j], served, indexed)
                            /\ HalfRight(q[j], statsCache)' = HalfRight(q'[j], statsCache')
                            /\ Calm(q[j].kind, upsets)' = Calm(q'[j].kind, upsets')
  BY <1>3
<1> QED BY <1>1, <1>5, <1>6, <1>7, <1>8, <1>9 DEF CalmInv

LEMMA StepKeepsCalm == ASSUME CalmInv, [Next]_vars PROVE CalmInv'
<1>1. CASE UNCHANGED vars
  <2>1. UNCHANGED <<q, utxoCache, statsCache, coloredCache, upsets, served, indexed>> /\ HeightInv'
    BY <1>1, StepKeepsHeights DEF vars, chainVars, CalmInv
  <2> QED BY <2>1 DEF CalmInv, HalfSaved, HalfRight, Undisturbed
<1>2. CASE Next
  BY <1>2, WritesCalm, PublishCalm, RestartCalm, AskUtxoCalm, AskColoredCalm, AskStatsCalm,
     CheckHeightCalm, RestoreCalm, OpenScanCalm, ScanRowCalm, ScanEndCalm, SaveCalm, EndCalm
     DEF Next, Query
<1> QED BY <1>1, <1>2

LEMMA CalmHolds == Spec => []CalmInv
<1>1. Init => CalmInv
  BY InitCalm
<1>2. CalmInv /\ [Next]_vars => CalmInv'
  BY StepKeepsCalm
<1> QED BY <1>1, <1>2, PTL DEF Spec

\* What a scan at its end has
LEMMA ScannedIs ==
  ASSUME CalmInv, NEW i \in Queries, NEW kind, Scanned(i, kind), Calm(kind, upsets)
  PROVE  IF kind = "utxo" THEN q[i].utxos = UtxosAt(served) ELSE q[i].stats = StatsAt(kind, served)
<1>1. served \in Blocks /\ indexed \in SUBSET Blocks
  BY DEF CalmInv, HeightInv, ChainTypeOK
<1>2. q[i].kind = kind /\ q[i].rows = {} /\ q[i].pc = "scan"
  BY DEF Scanned
<1>3. Scanning(q[i], served, indexed)
  BY <1>2 DEF CalmInv, QueryInv
<1> QED BY <1>1, <1>2, <1>3, ScanEnds

(* Whatever is reorganised, restarted or asked at the same time, utxo()     *)
(* answers from the cache and the rows above it what all rows give, and     *)
(* what it saves is right for the block it is saved at (schema.rs:516),     *)
(* until a chain is published in the middle of a scan, or a scan comes to a *)
(* row of a transaction that the chain confirms at a lower height: rows of  *)
(* any other height do no harm, though they are taken.                      *)
THEOREM UtxosExact == Spec => []UtxoCalm
<1>1. CalmInv => UtxoCalm
  <2> SUFFICES ASSUME CalmInv, Undisturbed PROVE UtxoCacheAccurate /\ UtxoExact
    BY DEF UtxoCalm
  <2>1. UtxoCacheAccurate
    BY DEF CalmInv, UtxoRight, UtxoCacheAccurate
  <2>2. UtxoExact
    BY ScannedIs DEF UtxoExact, Calm, Undisturbed
  <2> QED BY <2>1, <2>2
<1> QED BY <1>1, CalmHolds, PTL

(* The same of get_colored_stats() (schema.rs:702), which no row of another *)
(* height may reach ...                                                     *)
THEOREM ColoredStatsExact == Spec => []ColoredCalm
<1>1. CalmInv => ColoredCalm
  <2> SUFFICES ASSUME CalmInv, Undisturbed PROVE ColoredCacheAccurate /\ ColoredExact
    BY DEF ColoredCalm
  <2>1. ColoredCacheAccurate
    BY DEF CalmInv, ColoredRight, ColoredCacheAccurate
  <2>2. ColoredExact
    BY ScannedIs DEF ColoredExact, Calm, Undisturbed
  <2> QED BY <2>1, <2>2
<1> QED BY <1>1, CalmHolds, PTL

(* ... and of stats() (schema.rs:614), whose rows, color by color, are      *)
(* right for their blocks, as long as nothing of upsets has happened.       *)
THEOREM StatsExactUntilUpset == Spec => []StatsCalm
<1>1. CalmInv => StatsCalm
  <2> SUFFICES ASSUME CalmInv, upsets = {} PROVE StatsCacheAccurate /\ StatsExact
    BY DEF StatsCalm
  <2>1. StatsCacheAccurate
    BY DEF CalmInv, StatsRight, StatsCacheAccurate
  <2>2. StatsExact
    BY ScannedIs DEF StatsExact, Calm
  <2> QED BY <2>1, <2>2
<1> QED BY <1>1, CalmHolds, PTL
=============================================================================
