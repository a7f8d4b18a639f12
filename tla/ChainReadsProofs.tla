-------------------------- MODULE ChainReadsProofs ---------------------------
(***************************************************************************)
(* What the requests about blocks and the listings promise, for every tree *)
(* of blocks, whatever is published while they are answered: what may be   *)
(* cached for long was final; headers, lists of blocks and proofs are of   *)
(* one chain unless the chain was reorganised under them; and a listing    *)
(* that was read page by page to its end is whole, and without repetition, *)
(* unless what it continued from came up again.                            *)
(***************************************************************************)
EXTENDS ChainReads, SequenceTheorems, FiniteSetTheorems, TLAPS

HeaderKinds ==
  {"blocks", "block-height", "status", "block-txs", "tx", "merkleblock", "header", "headers"}

\* The fields of a request and the places it can be at
ShapeInv ==
  /\ {"kind", "pc"} \subseteq DOMAIN req
  /\ req.kind \in HeaderKinds => {"at", "heads", "next", "ttl"} \subseteq DOMAIN req
  /\ req.pc = "block-height" => req.at \in Nat
  /\ \/ req.kind \in HeaderKinds /\ req.pc \notin {"idle", "ask", "scan", "colors"}
     \/ Listing /\ req.pc \in {"ask", "scan", "colors", "done"}
     \/ req.kind = "none" /\ req.pc = "idle"

\* A block that a request has found on the served chain is there still, or was given
\* up since.
Held(b) == InBestChain(b) \/ b \in left

\* Between the lookup of the block and the question for the height of the chain
DepthInv ==
  req.kind \in HeaderKinds =>
    /\ req.pc \in {"ttl", "merkleheight"} => Held(req.heads[1])
    /\ req.pc = "merkleheight" => req.heads[1] = req.next
    /\ req.ttl = "long" => req.pc = "done"

IInv == ChainTypeOK /\ ShapeInv /\ DepthInv /\ LongTtlFinal

-----------------------------------------------------------------------------
(* A read sets the fields that it names and leaves the others.              *)
LEMMA GetSets ==
  ASSUME NEW c, Get(c), "pc" \in DOMAIN c, {"kind", "pc"} \subseteq DOMAIN req
  PROVE  /\ DOMAIN req' = DOMAIN req
         /\ req'.pc = c.pc
         /\ "kind" \notin DOMAIN c => req'.kind = req.kind
         /\ \A f \in DOMAIN req : req'[f] = IF f \in DOMAIN c THEN c[f] ELSE req[f]
BY DEF Get

(* Blocks of the chain of a block are blocks and not higher.                *)
LEMMA AncestorsBelow ==
  ASSUME NEW b \in Blocks, NEW c \in Ancestors(b)
  PROVE  c \in Blocks /\ Height(c) \in Nat /\ Height(b) \in Nat /\ Height(c) <= Height(b)
<1>1. /\ ChainOf[b] \in Seq(Blocks) /\ Len(ChainOf[b]) \in Nat /\ Len(ChainOf[b]) >= 1
      /\ DOMAIN ChainOf[b] = 1 .. Len(ChainOf[b])
  BY ChainAssumption, LenProperties
<1>2. PICK i \in 1 .. Len(ChainOf[b]) : ChainOf[b][i] = c
  BY <1>1 DEF Ancestors, Range
<1>3. c \in Blocks /\ ChainOf[c] = SubSeq(ChainOf[b], 1, i)
  BY <1>1, <1>2, ChainAssumption, ElementOfSeq
<1>4. \A j \in 1 .. i : ChainOf[b][j] \in Blocks
  BY <1>1, <1>2, ElementOfSeq
<1>5. Len(SubSeq(ChainOf[b], 1, i)) = i
  BY <1>1, <1>2, <1>4, SubSeqProperties
<1> QED BY <1>1, <1>2, <1>3, <1>5 DEF Height

(* A header found by its height is on the served chain.                     *)
LEMMA HeaderFound ==
  ASSUME ChainTypeOK, NEW h \in Nat, HeaderByHeight(h) # NoBlock
  PROVE  InBestChain(HeaderByHeight(h))
<1>1. /\ Len(ChainOf[served]) \in Nat /\ DOMAIN ChainOf[served] = 1 .. Len(ChainOf[served])
  BY ChainAssumption, LenProperties DEF ChainTypeOK
<1>2. h + 1 \in DOMAIN ChainOf[served] /\ HeaderByHeight(h) = ChainOf[served][h + 1]
  BY <1>1 DEF HeaderByHeight, Height
<1> QED BY <1>2 DEF InBestChain, Ancestors, Range

(* The confirming block of a transaction is on the served chain.            *)
LEMMA ConfirmingFound ==
  ASSUME NEW x, TxConfirmingBlock(x) # NoBlock
  PROVE  InBestChain(TxConfirmingBlock(x))
BY DEF TxConfirmingBlock, InBestChain

-----------------------------------------------------------------------------
(* The indexing thread                                                      *)

LEMMA InitInv == Init => IInv
<1> SUFFICES ASSUME Init PROVE IInv
  OBVIOUS
<1>1. ChainTypeOK
  <2>1. served \in Blocks /\ target \in Blocks
    BY DEF Init, ChainInit
  <2>2. ChainOf[served] \in Seq(Blocks) /\ Len(ChainOf[served]) \in Nat
    BY <2>1, ChainAssumption, LenProperties
  <2>3. Len(ChainOf[served]) = 1
    BY <2>2 DEF Init, ChainInit, Height
  <2>4. ChainOf[served][1] = served
    BY <2>1, <2>3, ChainAssumption
  <2>5. Ancestors(served) = {served}
    BY <2>2, <2>3, <2>4, LenProperties DEF Ancestors, Range
  <2> QED BY <2>1, <2>5 DEF Init, ChainInit, ChainTypeOK
<1>2. req = Idle
  BY DEF Init
<1> QED BY <1>1, <1>2 DEF IInv, ShapeInv, DepthInv, LongTtlFinal, Idle, HeaderKinds, Listing

(* What a step of the thread keeps, as long as it gives no block up that it *)
(* does not record.                                                         *)
LEMMA ThreadInv ==
  ASSUME IInv, ChainTypeOK', ~Answered, UNCHANGED req,
         req # Idle => \A b \in Ancestors(served) : b \in Ancestors(served') \/ b \in left',
         left \subseteq left'
  PROVE  IInv'
<1>1. ShapeInv'
  BY DEF IInv, ShapeInv, Listing
<1>2. req.kind \in HeaderKinds => req # Idle
  BY DEF HeaderKinds, Idle
<1>3. DepthInv'
  BY <1>2 DEF IInv, DepthInv, Held, InBestChain
<1>4. LongTtlFinal'
  BY <1>1 DEF IInv, ShapeInv, DepthInv, LongTtlFinal, Answered, Missed, Listing
<1> QED BY <1>1, <1>3, <1>4 DEF IInv

LEMMA AimInv == ASSUME IInv, NEW b \in Blocks, Aim(b) PROVE IInv'
<1>1. /\ UNCHANGED <<indexed, served, req, came, fresh, left>> /\ target' = b /\ ~Answered
  BY DEF Aim, TakeTarget, history
<1> QED BY <1>1, ThreadInv DEF IInv, ChainTypeOK

LEMMA IndexBlockInv == ASSUME IInv, NEW b \in Blocks, IndexBlock(b) PROVE IInv'
<1>1. /\ UNCHANGED <<served, target, req, came, left>> /\ ~Answered
      /\ indexed' = indexed \cup {b}
  BY DEF IndexBlock, WriteRows
<1> QED BY <1>1, ThreadInv DEF IInv, ChainTypeOK

LEMMA PublishInv == ASSUME IInv, Publish PROVE IInv'
<1>1. /\ UNCHANGED <<indexed, target, req>> /\ ~Answered
      /\ served' = target /\ Ancestors(target) \subseteq indexed
      /\ left' = IF req = Idle THEN left ELSE left \cup (Ancestors(served) \ Ancestors(target))
  BY DEF Publish, PublishTarget
<1> QED BY <1>1, ThreadInv DEF IInv, ChainTypeOK

LEMMA RestartInv == ASSUME IInv, NEW b \in Blocks, Restart(b) PROVE IInv'
<1>1. /\ indexed' = indexed \cup Ancestors(b) /\ served' = b /\ target' = b
  BY DEF Restart, Reopen
<1>2. ChainTypeOK'
  BY <1>1, AncestorsBelow DEF IInv, ChainTypeOK
<1>3. CASE Listing
  <2>1. req' = [req EXCEPT !.pc = "ask", !.page = <<>>, !.rows = {}]
    BY <1>3 DEF Restart
  <2>2. DOMAIN req' = DOMAIN req /\ req'.kind = req.kind /\ req'.pc = "ask"
    BY <2>1 DEF IInv, ShapeInv
  <2> QED BY <1>2, <1>3, <2>2 DEF IInv, ShapeInv, DepthInv, LongTtlFinal, Listing, HeaderKinds
<1>4. CASE ~Listing
  <2>1. req' = Idle
    BY <1>4 DEF Restart
  <2> QED BY <1>2, <2>1 DEF IInv, ShapeInv, DepthInv, LongTtlFinal, Listing, HeaderKinds, Idle
<1> QED BY <1>3, <1>4

LEMMA EndInv == ASSUME IInv, End PROVE IInv'
<1>1. req' = Idle /\ UNCHANGED <<indexed, served, target>>
  BY DEF End, chainVars
<1> QED BY <1>1 DEF IInv, ChainTypeOK, ShapeInv, DepthInv, LongTtlFinal, Listing, HeaderKinds, Idle

-----------------------------------------------------------------------------
(* The listings                                                             *)

LEMMA WalkInv == ASSUME IInv, Walk PROVE IInv'
<1>1. req' \in Walks /\ UNCHANGED <<indexed, served, target>>
  BY DEF Walk, Come, chainVars
<1>2. {"kind", "pc"} \subseteq DOMAIN req' /\ req'.kind \in {"txs", "colors"} /\ req'.pc = "ask"
  BY <1>1 DEF Walks
<1> QED BY <1>1, <1>2 DEF IInv, ChainTypeOK, ShapeInv, DepthInv, LongTtlFinal, Listing, HeaderKinds

(* A read of a listing leaves it a listing.                                 *)
LEMMA ListingInv ==
  ASSUME IInv, Listing, NEW c, Get(c), "pc" \in DOMAIN c, "kind" \notin DOMAIN c,
         c.pc \in {"ask", "scan", "colors", "done"}
  PROVE  IInv'
<1>1. {"kind", "pc"} \subseteq DOMAIN req' /\ req'.kind = req.kind /\ req'.pc = c.pc
  BY GetSets DEF IInv, ShapeInv
<1>2. UNCHANGED <<indexed, served, target>>
  BY DEF Get, chainVars
<1> QED BY <1>1, <1>2 DEF IInv, ChainTypeOK, ShapeInv, DepthInv, LongTtlFinal, Listing, HeaderKinds

LEMMA PagePlaces ==
  ASSUME NEW page, NEW rows, NEW skip
  PROVE  LET p == Page(page, rows, skip)
         IN /\ "pc" \in DOMAIN p /\ "kind" \notin DOMAIN p
            /\ p.pc \in {"ask", "scan", "colors", "done"}
BY DEF Page

LEMMA PageReadInv == ASSUME IInv, PageRead PROVE IInv'
<1>1. CASE Walk
  BY <1>1, WalkInv
<1>2. CASE OpenHistory
  <2>1. Listing /\ Get(Page(<<>>, AfterLastSeen(TxHistoryRows, req.last), FALSE))
    BY <1>2 DEF OpenHistory, Listing
  <2> QED BY <2>1, PagePlaces, ListingInv
<1>3. CASE HistoryRow
  <2>1. Listing /\ \E page, rows : Get(Page(page, rows, FALSE))
    BY <1>3 DEF HistoryRow, Listing
  <2> QED BY <2>1, PagePlaces, ListingInv
<1>4. CASE AskColors
  <2>1. PICK from, top : Get([pc |-> "colors", from |-> from, top |-> top])
    BY <1>4 DEF AskColors
  <2>2. Listing
    BY <1>4 DEF AskColors, Listing
  <2> QED BY <2>1, <2>2, ListingInv
<1>5. CASE OpenColors
  <2>1. Listing /\ \E rows, skip : Get(Page(<<>>, rows, skip))
    BY <1>5 DEF OpenColors, Listing
  <2> QED BY <2>1, PagePlaces, ListingInv
<1>6. CASE ColorRow
  <2>1. Listing /\ \E page, rows, skip : Get(Page(page, rows, skip))
    BY <1>6 DEF ColorRow, Listing
  <2> QED BY <2>1, PagePlaces, ListingInv
<1> QED BY <1>1, <1>2, <1>3, <1>4, <1>5, <1>6 DEF PageRead

-----------------------------------------------------------------------------
(* The requests about blocks                                                *)

LEMMA AskInv == ASSUME IInv, Ask PROVE IInv'
<1>1. req' \in HeaderRequests /\ UNCHANGED <<indexed, served, target>>
  BY DEF Ask, Come, chainVars
<1>2. PICK r \in Requests : req' =
        [kind |-> r.kind, at |-> r.at, count |-> r.count, cp |-> r.cp,
         pc |-> CASE r.kind = "blocks" -> "start" [] r.kind = "headers" -> "headers" [] OTHER -> r.kind,
         heads |-> <<>>, hashes |-> <<>>, next |-> NoBlock, read |-> 0, ttl |-> "short"]
  BY <1>1 DEF HeaderRequests
<1>3. r.kind \in HeaderKinds /\ (r.kind = "block-height" => r.at \in Nat)
  BY HeaderReadsAssumption DEF Requests, Asked, Heights, HeaderKinds
<1>4. /\ {"kind", "pc", "at", "heads", "next", "ttl"} \subseteq DOMAIN req'
      /\ req'.kind = r.kind /\ req'.at = r.at /\ req'.ttl = "short"
      /\ req'.pc = IF r.kind = "blocks" THEN "start" ELSE r.kind
  BY <1>2
<1> QED BY <1>1, <1>3, <1>4 DEF IInv, ChainTypeOK, ShapeInv, DepthInv, LongTtlFinal, Listing, HeaderKinds

(* At any place but those of the listings, the request is about blocks.     *)
LEMMA AboutBlocks ==
  ASSUME IInv, req.pc \notin {"idle", "ask", "scan", "colors", "done"}
  PROVE  req.kind \in HeaderKinds /\ {"kind", "pc", "at", "heads", "next", "ttl"} \subseteq DOMAIN req
BY DEF IInv, ShapeInv

(* A read that answers nothing yet, or answers without a question for the   *)
(* height of the chain                                                      *)
LEMMA LookupInv ==
  ASSUME IInv, ~Answered, req.pc \notin {"idle", "ask", "scan", "colors"}, NEW c, Get(c),
         DOMAIN c \cap {"kind", "at", "ttl"} = {},
         req'.pc \notin {"idle", "ask", "scan", "colors", "block-height", "panicked"},
         req'.pc \in {"ttl", "merkleheight"} => Held(req'.heads[1]),
         req'.pc = "merkleheight" => req'.heads[1] = req'.next
  PROVE  IInv'
<1>1. req.kind \in HeaderKinds /\ {"kind", "pc", "at", "heads", "next", "ttl"} \subseteq DOMAIN req
  BY AboutBlocks DEF Answered
<1>2. DOMAIN req' = DOMAIN req /\ req'.kind = req.kind /\ req'.ttl = req.ttl
  BY <1>1 DEF Get
<1>3. UNCHANGED <<indexed, served, target, left>>
  BY DEF Get, chainVars, history
<1>4. req'.ttl # "long"
  BY <1>1, <1>2 DEF IInv, DepthInv, Answered
<1>5. ChainTypeOK' /\ ShapeInv'
  BY <1>1, <1>2, <1>3 DEF IInv, ChainTypeOK, ShapeInv, Listing
<1>6. DepthInv'
  BY <1>3, <1>4 DEF DepthInv, Held, InBestChain
<1> QED BY <1>4, <1>5, <1>6 DEF IInv, LongTtlFinal

LEMMA TtlByDepthInv == ASSUME IInv, TtlByDepth PROVE IInv'
<1> DEFINE b == req.heads[1]
           shorter == Height(served) < Height(b)
           deep == Height(served) - Height(b) >= CONF_FINAL
<1>1. req.kind \in HeaderKinds /\ {"kind", "pc", "at", "heads", "next", "ttl"} \subseteq DOMAIN req
  BY AboutBlocks DEF TtlByDepth
<1>2. Held(b) /\ req.ttl # "long"
  BY <1>1 DEF TtlByDepth, IInv, DepthInv
<1>3. InBestChain(b) => ~shorter
  BY AncestorsBelow DEF InBestChain, IInv, ChainTypeOK
<1>4. UNCHANGED <<indexed, served, target, left>>
  BY DEF TtlByDepth, Get, chainVars, history
<1>5. /\ req'.kind = req.kind /\ req'.heads = req.heads
      /\ {"kind", "pc", "at", "heads", "next", "ttl"} \subseteq DOMAIN req'
      /\ \/ req'.pc = "panicked" /\ shorter /\ req'.ttl = req.ttl
         \/ req'.pc = "done" /\ (req'.ttl = "long" => shorter \/ deep)
  <2>1. CASE Get([pc |-> "panicked"]) /\ shorter
    BY <1>1, <2>1 DEF Get
  <2>2. CASE \E ttl : Get([pc |-> "done", ttl |-> ttl]) /\ (ttl = "long" => shorter \/ deep)
    BY <1>1, <2>2 DEF Get
  <2>3. shorter \/ Get([pc |-> "done", ttl |-> IF deep THEN "long" ELSE "short"])
    BY DEF TtlByDepth
  <2>4. shorter => Get([pc |-> "done", ttl |-> "long"]) \/ Get([pc |-> "panicked"])
    BY DEF TtlByDepth
  <2> QED BY <2>1, <2>2, <2>3, <2>4
<1>6. ChainTypeOK' /\ ShapeInv'
  BY <1>1, <1>4, <1>5 DEF IInv, ChainTypeOK, ShapeInv, Listing
<1>7. DepthInv'
  BY <1>2, <1>5 DEF DepthInv
<1>8. LongTtlFinal'
  BY <1>2, <1>3, <1>4, <1>5 DEF LongTtlFinal, Held, InBestChain
<1> QED BY <1>6, <1>7, <1>8 DEF IInv

(* The reads before that                                                    *)

LEMMA BlocksInv == ASSUME IInv, BlocksStart \/ BlocksWalk PROVE IInv'
<1>1. ~Answered /\ req.pc \in {"start", "walk"}
  BY DEF BlocksStart, BlocksWalk, Answered, Missed
<1>2. PICK c : /\ Get(c) /\ DOMAIN c \subseteq {"pc", "heads", "next"} /\ "pc" \in DOMAIN c
               /\ c.pc \in {"missing", "walk", "done"}
  <2>1. CASE BlocksStart
    BY <2>1 DEF BlocksStart
  <2>2. CASE BlocksWalk
    BY <2>2 DEF BlocksWalk
  <2> QED BY <2>1, <2>2
<1>3. req'.pc = c.pc
  BY <1>2, GetSets DEF IInv, ShapeInv
<1> QED BY <1>1, <1>2, <1>3, LookupInv

LEMMA HeadersInv ==
  ASSUME IInv, BlockHeader \/ BlockHeaders \/ HeaderProof \/ HeaderHashes
  PROVE  IInv'
<1>1. ~Answered /\ req.pc \in {"header", "headers", "proof", "hashes"}
  BY DEF BlockHeader, BlockHeaders, HeaderProof, HeaderHashes, Answered, Missed
<1>2. PICK c : /\ Get(c) /\ DOMAIN c \subseteq {"pc", "heads", "hashes", "read"}
               /\ "pc" \in DOMAIN c => c.pc \in {"missing", "proof", "done", "bad", "hashes"}
  <2>1. CASE BlockHeader
    BY <2>1 DEF BlockHeader, AfterHeaders
  <2>2. CASE BlockHeaders
    BY <2>2 DEF BlockHeaders, AfterHeaders
  <2>3. CASE HeaderProof
    BY <2>3 DEF HeaderProof
  <2>4. CASE HeaderHashes
    BY <2>4 DEF HeaderHashes
  <2> QED BY <2>1, <2>2, <2>3, <2>4
<1>3. req'.pc = IF "pc" \in DOMAIN c THEN c.pc ELSE req.pc
  BY <1>2 DEF Get, IInv, ShapeInv
<1> QED BY <1>1, <1>2, <1>3, LookupInv

(* A request whose block is found, if it is one, in one look at the chain   *)
LEMMA FoundInv ==
  ASSUME IInv, ~Answered, req.pc \notin {"idle", "ask", "scan", "colors"},
         NEW c, Get(c), DOMAIN c \subseteq {"pc", "heads", "next"}, "pc" \in DOMAIN c,
         c.pc \in {"missing", "done", "ttl"},
         c.pc = "ttl" => "heads" \in DOMAIN c /\ InBestChain(c.heads[1])
  PROVE  IInv'
<1>1. {"kind", "pc", "at", "heads", "next", "ttl"} \subseteq DOMAIN req
  BY AboutBlocks DEF Answered
<1>2. req'.pc = c.pc /\ ("heads" \in DOMAIN c => req'.heads = c.heads)
  BY <1>1, GetSets
<1> QED BY <1>2, LookupInv DEF Held

LEMMA BlockInv == ASSUME IInv, BlockHeight \/ BlockStatus \/ BlockTxs \/ TxStatus PROVE IInv'
<1>1. ~Answered /\ req.pc \in {"block-height", "status", "block-txs", "tx"}
  BY DEF BlockHeight, BlockStatus, BlockTxs, TxStatus, Answered, Missed
<1>2. PICK c : /\ Get(c) /\ DOMAIN c \subseteq {"pc", "heads", "next"} /\ "pc" \in DOMAIN c
               /\ c.pc \in {"missing", "done", "ttl"}
               /\ c.pc = "ttl" => "heads" \in DOMAIN c /\ InBestChain(c.heads[1])
  <2>1. CASE BlockHeight
    <3> DEFINE b == HeaderByHeight(req.at)
    <3>1. b # NoBlock => InBestChain(b)
      BY <2>1, HeaderFound DEF BlockHeight, IInv, ShapeInv
    <3>2. Get(IF b = NoBlock THEN [pc |-> "missing"] ELSE [pc |-> "ttl", heads |-> <<b>>])
      BY <2>1 DEF BlockHeight
    <3> HIDE DEF b
    <3>3. CASE b = NoBlock
      BY <3>2, <3>3
    <3>4. CASE b # NoBlock
      BY <3>1, <3>2, <3>4
    <3> QED BY <3>3, <3>4
  <2>2. CASE BlockStatus
    BY <2>2 DEF BlockStatus
  <2>3. CASE BlockTxs
    BY <2>3 DEF BlockTxs
  <2>4. CASE TxStatus
    <3> DEFINE b == TxConfirmingBlock(req.at)
    <3>1. b # NoBlock => InBestChain(b)
      BY ConfirmingFound
    <3>2. Get(IF b = NoBlock THEN [pc |-> "done"] ELSE [pc |-> "ttl", heads |-> <<b>>])
      BY <2>4 DEF TxStatus
    <3> HIDE DEF b
    <3>3. CASE b = NoBlock
      BY <3>2, <3>3
    <3>4. CASE b # NoBlock
      BY <3>1, <3>2, <3>4
    <3> QED BY <3>3, <3>4
  <2> QED BY <1>1, <2>1, <2>2, <2>3, <2>4
<1> QED BY <1>1, <1>2, FoundInv

(* The proof of a transaction looks three times.                            *)
LEMMA MerkleBlockInv ==
  ASSUME IInv, MerkleBlock \/ MerkleBlockHeader \/ MerkleBlockHeight
  PROVE  IInv'
<1>1. ~Answered /\ req.pc \in {"merkleblock", "merkleheader", "merkleheight"}
  BY DEF MerkleBlock, MerkleBlockHeader, MerkleBlockHeight, Answered, Missed
<1>2. {"kind", "pc", "at", "heads", "next", "ttl"} \subseteq DOMAIN req
  BY <1>1, AboutBlocks
<1>3. CASE MerkleBlock
  <2>1. PICK next : \/ Get([pc |-> "merkleheader", next |-> next])
                    \/ Get([pc |-> "missing"])
    BY <1>3 DEF MerkleBlock
  <2>2. CASE Get([pc |-> "merkleheader", next |-> next])
    BY <1>1, <1>2, <2>2, GetSets, LookupInv
  <2>3. CASE Get([pc |-> "missing"])
    BY <1>1, <1>2, <2>3, GetSets, LookupInv
  <2> QED BY <2>1, <2>2, <2>3
<1>4. CASE MerkleBlockHeader
  <2>1. CASE InBestChain(req.next)
    <3> DEFINE c == [pc |-> "merkleheight", heads |-> <<req.next>>]
    <3>1. Get(c)
      BY <1>4, <2>1 DEF MerkleBlockHeader
    <3>2. req'.pc = "merkleheight" /\ req'.heads = <<req.next>> /\ req'.next = req.next
      BY <1>2, <3>1 DEF Get
    <3> QED BY <1>1, <2>1, <3>1, <3>2, LookupInv DEF Held
  <2>2. CASE ~InBestChain(req.next)
    <3>1. Get([pc |-> "missing"])
      BY <1>4, <2>2 DEF MerkleBlockHeader
    <3> QED BY <1>1, <1>2, <3>1, GetSets, LookupInv
  <2> QED BY <2>1, <2>2
<1>5. CASE MerkleBlockHeight
  <2> DEFINE c == [pc |-> IF InBestChain(req.next) THEN "ttl" ELSE "done"]
  <2>1. Get(c) /\ req.pc = "merkleheight"
    BY <1>5 DEF MerkleBlockHeight
  <2>2. req'.pc = c.pc /\ req'.heads = req.heads
    BY <1>2, <2>1 DEF Get
  <2>3. Held(req.heads[1])
    BY <1>1, <2>1, AboutBlocks DEF IInv, DepthInv
  <2> QED BY <1>1, <2>1, <2>2, <2>3, LookupInv
<1> QED BY <1>3, <1>4, <1>5

-----------------------------------------------------------------------------
(* Theorems                                                                 *)

LEMMA StepInv == ASSUME IInv, [Next]_vars PROVE IInv'
<1>1. CASE HeaderRead
  BY <1>1, AskInv, TtlByDepthInv, BlocksInv, BlockInv, MerkleBlockInv, HeadersInv DEF HeaderRead
<1>2. CASE PageRead
  BY <1>2, PageReadInv
<1>3. CASE \E b \in Blocks : Aim(b) \/ IndexBlock(b) \/ Restart(b)
  BY <1>3, AimInv, IndexBlockInv, RestartInv
<1>4. CASE Publish
  BY <1>4, PublishInv
<1>5. CASE End
  BY <1>5, EndInv
<1>6. CASE UNCHANGED vars
  BY <1>6 DEF vars, chainVars, history, IInv, ChainTypeOK, ShapeInv, DepthInv, LongTtlFinal,
              Held, InBestChain, Listing
<1> QED BY <1>1, <1>2, <1>3, <1>4, <1>5, <1>6 DEF Next

LEMMA Invariance == Spec => []IInv
<1>1. Init => IInv
  BY InitInv
<1>2. IInv /\ [Next]_vars => IInv'
  BY StepInv
<1> QED BY <1>1, <1>2, PTL DEF Spec

(* ttl_by_depth(), whose answer clients may cache for CONF_FINAL blocks:    *)
(* the block was that deep on the chain served when the depth was asked     *)
(* for, or it was given up since it had been found; the subtraction goes    *)
(* below zero only then.                                                    *)
THEOREM LongTtlIsFinal == Spec => []LongTtlFinal
<1>1. IInv => LongTtlFinal
  BY DEF IInv
<1> QED BY <1>1, Invariance, PTL

-----------------------------------------------------------------------------
(* What requests about blocks have found, on the way to their answers       *)

\* Where a request for blocks is, and one for Electrum headers
BlocksPlaces == {"start", "walk"}
LinePlaces == {"header", "headers", "proof", "hashes"}

\* The fields of a request about blocks, and what they hold
FieldsInv ==
  req.kind \in HeaderKinds =>
    /\ {"kind", "pc", "at", "count", "cp", "heads", "hashes", "next", "read", "ttl"} \subseteq DOMAIN req
    /\ req.heads \in Seq(Blocks) /\ req.hashes \in Seq(Blocks) /\ req.read \in Nat
    /\ req.next \in Blocks \cup {NoBlock}
    /\ req.kind = "blocks" => req.at \in Nat \cup {Latest}
    /\ req.kind \in {"header", "headers"} => req.at \in Nat /\ req.count \in Nat /\ req.cp \in Nat
    /\ req.kind = "header" => req.count = 1
    /\ req.pc \in BlocksPlaces => req.kind = "blocks"
    /\ req.pc \in LinePlaces => req.kind \in {"header", "headers"}

\* The chain that was served when the request came is served still, but for what was
\* given up since.
CameInv ==
  req.kind \in HeaderKinds => came \in Blocks /\ \A b \in Ancestors(came) : Held(b)

\* The newest blocks of the chain of the first, and the block below them
Newest(s, next) ==
  /\ s \in Seq(Blocks) /\ s # <<>>
  /\ LET chain == ChainOf[s[1]] IN
     /\ Len(s) <= Len(chain)
     /\ \A i \in 1 .. Len(s) : s[i] = chain[Len(chain) + 1 - i]
     /\ next = IF Len(s) = Len(chain) THEN NoBlock ELSE chain[Len(chain) - Len(s)]

\* /blocks: what was listed so far are the newest blocks of one chain, and next is the one
\* below them.
WalkedInv ==
  req.kind = "blocks" =>
    \/ req.pc = "start" /\ req.heads = <<>> /\ req.next = NoBlock
    \/ /\ req.pc = "walk" /\ req.next \in Blocks /\ Held(req.next)
       /\ Len(req.heads) < BLOCK_LIMIT
       /\ req.heads = <<>> \/ Newest(req.heads, req.next)
    \/ req.pc \in {"missing", "done"}

\* The proof of a transaction: the block it was found in
MerkledInv ==
  req.kind = "merkleblock" =>
    \/ req.pc = "merkleblock" /\ req.heads = <<>> /\ req.next = NoBlock
    \/ req.pc = "merkleheader" /\ req.next \in Blocks /\ Held(req.next)
    \/ req.pc \in {"merkleheight", "ttl", "missing", "done", "panicked"}

HighHeight == req.at + req.count - 1

\* The heights that an Electrum request for headers has asked the list for
AskedFor == IF req.kind = "header" THEN Len(req.heads) ELSE req.read

\* Electrum headers, as long as nothing of these heights is given up: those that the list
\* has had from the start are there, in their places; others are higher.
LineInv ==
  req.kind \in {"header", "headers"} =>
    /\ req.pc \in {"header", "headers", "proof", "hashes", "bad", "missing", "done"}
    /\ Len(req.heads) <= AskedFor /\ AskedFor <= req.count
    /\ req.pc \in {"proof", "hashes", "bad", "done"} => AskedFor = req.count
    /\ req.pc = "header" => req.kind = "header" /\ req.heads = <<>>
    /\ req.pc = "headers" => req.kind = "headers"
    /\ Kept(req.at, HighHeight) =>
         /\ \A i \in 1 .. AskedFor : req.at + i - 1 <= Height(came) =>
              i <= Len(req.heads) /\ req.heads[i] = ChainOf[came][req.at + i]
         /\ \A i \in 1 .. Len(req.heads) :
              /\ InBestChain(req.heads[i]) /\ Height(req.heads[i]) \in req.at .. HighHeight
              /\ req.at + i - 1 > Height(came) => Height(req.heads[i]) > Height(came)

\* The hashes of their proof, as long as nothing up to cp_height is given up
HashesInv ==
  req.kind \in {"header", "headers"} =>
    /\ req.hashes # <<>> => req.pc \in {"hashes", "missing", "done"}
    /\ req.pc = "hashes" \/ req.hashes # <<>> =>
         /\ ProofHeight <= req.cp /\ Len(req.hashes) <= req.cp + 1
         /\ Kept(0, req.cp) =>
              /\ req.cp <= Height(served)
              /\ \A i \in 1 .. Len(req.hashes) : req.hashes[i] = ChainOf[served][i]
    /\ req.pc = "done" /\ req.hashes # <<>> => Len(req.hashes) = req.cp + 1
    /\ Missed /\ req.hashes # <<>> => ~Kept(0, req.cp)

RequestInv ==
  /\ FieldsInv /\ CameInv /\ WalkedInv /\ MerkledInv /\ LineInv /\ HashesInv
  /\ FoundUnlessLeft

-----------------------------------------------------------------------------
(* Chains                                                                   *)

\* A chain from its first block to its last
LEMMA ChainFacts ==
  ASSUME NEW b \in Blocks
  PROVE  /\ ChainOf[b] \in Seq(Blocks) /\ Height(b) \in Nat /\ Len(ChainOf[b]) = Height(b) + 1
         /\ ChainOf[b][Height(b) + 1] = b
         /\ b \in Ancestors(b) /\ Ancestors(b) \subseteq Blocks
         /\ \A i \in 1 .. Height(b) + 1 :
              /\ ChainOf[b][i] \in Blocks /\ ChainOf[b][i] \in Ancestors(b)
              /\ Height(ChainOf[b][i]) = i - 1
<1>1. /\ ChainOf[b] \in Seq(Blocks) /\ Len(ChainOf[b]) \in Nat /\ Len(ChainOf[b]) >= 1
      /\ DOMAIN ChainOf[b] = 1 .. Len(ChainOf[b]) /\ ChainOf[b][Len(ChainOf[b])] = b
  BY ChainAssumption, LenProperties
<1>2. Height(b) \in Nat /\ Len(ChainOf[b]) = Height(b) + 1
  BY <1>1 DEF Height
<1>3. Ancestors(b) \subseteq Blocks
  BY AncestorsBelow
<1>4. ASSUME NEW i \in 1 .. Height(b) + 1
      PROVE  /\ ChainOf[b][i] \in Blocks /\ ChainOf[b][i] \in Ancestors(b)
             /\ Height(ChainOf[b][i]) = i - 1
  <2>1. ChainOf[b][i] \in Ancestors(b) /\ ChainOf[b][i] \in Blocks
    BY <1>1, <1>2, <1>3 DEF Ancestors, Range
  <2>2. ChainOf[ChainOf[b][i]] = SubSeq(ChainOf[b], 1, i)
    BY <1>1, <1>2, ChainAssumption
  <2>3. Len(SubSeq(ChainOf[b], 1, i)) = i
    BY <1>1, <1>2
  <2> QED BY <2>1, <2>2, <2>3 DEF Height
<1>5. b \in Ancestors(b)
  BY <1>1, <1>2, <1>4
<1> QED BY <1>1, <1>2, <1>3, <1>4, <1>5

\* A block has one place in the chains it is in.
LEMMA PlaceInChain ==
  ASSUME NEW b \in Blocks, NEW c \in Ancestors(b)
  PROVE  /\ c \in Blocks /\ Height(c) \in 0 .. Height(b)
         /\ ChainOf[b][Height(c) + 1] = c
<1>1. PICK i \in 1 .. Height(b) + 1 : ChainOf[b][i] = c
  <2>1. DOMAIN ChainOf[b] = 1 .. Height(b) + 1
    BY ChainFacts, LenProperties
  <2> QED BY <2>1 DEF Ancestors, Range
<1>2. Height(c) = i - 1 /\ Height(b) \in Nat
  BY <1>1, ChainFacts
<1> QED BY <1>1, <1>2, ChainFacts

\* The block before
LEMMA BlockBefore ==
  ASSUME NEW b \in Blocks, NEW i \in 1 .. Height(b) + 1
  PROVE  PrevBlockhash(ChainOf[b][i]) = IF i = 1 THEN NoBlock ELSE ChainOf[b][i - 1]
<1>1. Height(ChainOf[b][i]) = i - 1 /\ ChainOf[b] \in Seq(Blocks) /\ Len(ChainOf[b]) = Height(b) + 1
  BY ChainFacts
<1>2. ChainOf[ChainOf[b][i]] = SubSeq(ChainOf[b], 1, i)
  BY <1>1, ChainAssumption
<1>3. CASE i = 1
  BY <1>1, <1>3 DEF PrevBlockhash
<1>4. CASE i # 1
  <2>1. i - 1 \in 1 .. i /\ i \in Nat /\ i - 1 # 0 /\ Height(b) \in Nat
    BY <1>4, ChainFacts
  <2>2. SubSeq(ChainOf[b], 1, i)[i - 1] = ChainOf[b][i - 1]
    BY <1>1, <2>1
  <2> QED BY <1>1, <1>2, <1>4, <2>1, <2>2 DEF PrevBlockhash
<1> QED BY <1>3, <1>4

\* Lookups by height
LEMMA ByHeight ==
  ASSUME ChainTypeOK, NEW h \in Nat
  PROVE  /\ h <= Height(served) =>
              /\ HeaderByHeight(h) = ChainOf[served][h + 1] /\ HeaderByHeight(h) \in Blocks
              /\ HeaderByHeight(h) # NoBlock
              /\ InBestChain(HeaderByHeight(h)) /\ Height(HeaderByHeight(h)) = h
         /\ h > Height(served) => HeaderByHeight(h) = NoBlock
         /\ Height(served) \in Nat
<1>1. served \in Blocks
  BY DEF ChainTypeOK
<1>2. Height(served) \in Nat
  BY <1>1, ChainFacts
<1>3. CASE h <= Height(served)
  <2>1. HeaderByHeight(h) = ChainOf[served][h + 1]
    BY <1>3 DEF HeaderByHeight
  <2>2. h + 1 \in 1 .. Height(served) + 1 /\ (h + 1) - 1 = h
    BY <1>2, <1>3
  <2>3. ChainOf[served][h + 1] \in Ancestors(served) /\ ChainOf[served][h + 1] \in Blocks
        /\ Height(ChainOf[served][h + 1]) = h
    BY <1>1, <2>2, ChainFacts
  <2> QED BY <1>2, <1>3, <2>1, <2>3, NoBlockAssumption DEF InBestChain
<1>4. CASE h > Height(served)
  BY <1>2, <1>4 DEF HeaderByHeight
<1> QED BY <1>2, <1>3, <1>4

\* What is on the served chain is where the served chain has it.
LEMMA OnBestChain ==
  ASSUME ChainTypeOK, NEW b, InBestChain(b)
  PROVE  /\ b \in Blocks /\ Height(b) \in Nat /\ Height(b) <= Height(served)
         /\ ChainOf[served][Height(b) + 1] = b /\ HeaderByHeight(Height(b)) = b
<1>1. served \in Blocks /\ b \in Ancestors(served)
  BY DEF ChainTypeOK, InBestChain
<1>2. b \in Blocks /\ Height(b) \in 0 .. Height(served) /\ ChainOf[served][Height(b) + 1] = b
  BY <1>1, PlaceInChain
<1>3. Height(served) \in Nat
  BY <1>1, ChainFacts
<1> QED BY <1>2, <1>3 DEF HeaderByHeight

\* The block that confirms a transaction
LEMMA Confirming ==
  ASSUME ChainTypeOK, NEW x
  PROVE  LET b == TxConfirmingBlock(x)
         IN /\ b \in Blocks \cup {NoBlock}
            /\ b # NoBlock => InBestChain(b)
            /\ b = NoBlock => \A c \in Ancestors(served) : x \notin TxsOf[c]
<1> DEFINE confs == {b \in Ancestors(served) : x \in TxsOf[b]}
<1>1. Ancestors(served) \subseteq Blocks
  BY ChainFacts DEF ChainTypeOK
<1>2. CASE confs = {}
  BY <1>2 DEF TxConfirmingBlock
<1>3. CASE confs # {}
  <2>1. TxConfirmingBlock(x) \in confs
    BY <1>3 DEF TxConfirmingBlock
  <2> QED BY <1>1, <2>1, NoBlockAssumption DEF InBestChain
<1> QED BY <1>2, <1>3

-----------------------------------------------------------------------------
(* Steps, as a request about blocks sees them                               *)

\* A read of such a request sets some fields, and moves nothing else.
LEMMA GetFrame ==
  ASSUME FieldsInv, req.kind \in HeaderKinds, NEW c, Get(c),
         DOMAIN c \subseteq {"pc", "heads", "hashes", "next", "read", "ttl"}
  PROVE  /\ DOMAIN req' = DOMAIN req
         /\ req'.kind = req.kind /\ req'.at = req.at /\ req'.count = req.count /\ req'.cp = req.cp
         /\ req'.pc = IF "pc" \in DOMAIN c THEN c.pc ELSE req.pc
         /\ req'.heads = IF "heads" \in DOMAIN c THEN c.heads ELSE req.heads
         /\ req'.hashes = IF "hashes" \in DOMAIN c THEN c.hashes ELSE req.hashes
         /\ req'.next = IF "next" \in DOMAIN c THEN c.next ELSE req.next
         /\ req'.read = IF "read" \in DOMAIN c THEN c.read ELSE req.read
         /\ UNCHANGED <<indexed, served, target, came, left>>
<1>1. {"kind", "pc", "at", "count", "cp", "heads", "hashes", "next", "read", "ttl"} \subseteq DOMAIN req
  BY DEF FieldsInv
<1> QED BY <1>1 DEF Get, chainVars, history

\* What a request that has just come is like
LEMMA AskFacts ==
  ASSUME Ask
  PROVE  /\ req'.kind \in HeaderKinds
         /\ {"kind", "pc", "at", "count", "cp", "heads", "hashes", "next", "read", "ttl"} \subseteq DOMAIN req'
         /\ req'.heads = <<>> /\ req'.hashes = <<>> /\ req'.next = NoBlock /\ req'.read = 0
         /\ req'.pc = IF req'.kind = "blocks" THEN "start" ELSE req'.kind
         /\ req'.kind = "blocks" => req'.at \in Nat \cup {Latest}
         /\ req'.kind \in {"header", "headers"} => req'.at \in Nat /\ req'.count \in Nat /\ req'.cp \in Nat
         /\ req'.kind = "header" => req'.count = 1
         /\ came' = served /\ UNCHANGED <<served, left>>
<1>1. req' \in HeaderRequests /\ came' = served /\ UNCHANGED <<served, left>>
  BY DEF Ask, Come, chainVars
<1>2. PICK r \in Requests : req' =
        [kind |-> r.kind, at |-> r.at, count |-> r.count, cp |-> r.cp,
         pc |-> CASE r.kind = "blocks" -> "start" [] r.kind = "headers" -> "headers" [] OTHER -> r.kind,
         heads |-> <<>>, hashes |-> <<>>, next |-> NoBlock, read |-> 0, ttl |-> "short"]
  BY <1>1 DEF HeaderRequests
<1>3. /\ r.kind \in HeaderKinds
      /\ r.kind = "blocks" => r.at \in Nat \cup {Latest}
      /\ r.kind \in {"header", "headers"} => r.at \in Nat /\ r.count \in Nat /\ r.cp \in Nat
      /\ r.kind = "header" => r.count = 1
  BY HeaderReadsAssumption DEF Requests, Asked, Heights, HeaderKinds
<1> QED BY <1>1, <1>2, <1>3

\* A read about blocks that is not the first
BlockRead ==
  \/ TtlByDepth \/ BlocksStart \/ BlocksWalk \/ BlockHeight \/ BlockStatus \/ BlockTxs
  \/ TxStatus \/ MerkleBlock \/ MerkleBlockHeader \/ MerkleBlockHeight
  \/ BlockHeader \/ BlockHeaders \/ HeaderProof \/ HeaderHashes

\* A step of others: blocks leave the served chain only to be recorded, and none while a
\* request has its answer.
OthersStep ==
  /\ UNCHANGED <<req, came>> /\ left \subseteq left'
  /\ req.kind \in HeaderKinds =>
       \A b \in Ancestors(served) : b \in Ancestors(served') \/ b \in left'
  /\ Answered => UNCHANGED <<served, left>>

\* The kinds of step
LEMMA StepKinds ==
  ASSUME IInv, [Next]_vars
  PROVE  \/ req'.kind \notin HeaderKinds
         \/ Ask
         \/ OthersStep
         \/ BlockRead /\ req.kind \in HeaderKinds
<1>1. CASE HeaderRead
  <2>1. CASE BlockRead
    <3>1. req.pc \notin {"idle", "ask", "scan", "colors", "done"}
      BY <2>1 DEF BlockRead, TtlByDepth, BlocksStart, BlocksWalk, BlockHeight, BlockStatus, BlockTxs,
           TxStatus, MerkleBlock, MerkleBlockHeader, MerkleBlockHeight, BlockHeader, BlockHeaders,
           HeaderProof, HeaderHashes
    <3> QED BY <2>1, <3>1, AboutBlocks
  <2> QED BY <1>1, <2>1 DEF HeaderRead, BlockRead
<1>2. CASE PageRead
  <2>1. CASE Walk
    <3>1. req'.kind \in {"txs", "colors"}
      BY <2>1 DEF Walk, Come, Walks
    <3> QED BY <3>1 DEF HeaderKinds
  <2>2. CASE ~Walk
    <3>1. Listing /\ \E c : Get(c) /\ "kind" \notin DOMAIN c
      <4>1. CASE OpenHistory \/ HistoryRow \/ ColorRow \/ OpenColors
        <5>1. Listing /\ \E page, rows, skip : Get(Page(page, rows, skip))
          BY <4>1 DEF OpenHistory, HistoryRow, ColorRow, OpenColors, Listing
        <5> QED BY <5>1, PagePlaces
      <4>2. CASE AskColors
        <5>1. PICK from, top : Get([pc |-> "colors", from |-> from, top |-> top])
          BY <4>2 DEF AskColors
        <5>2. Listing
          BY <4>2 DEF AskColors, Listing
        <5> QED BY <5>1, <5>2
      <4> QED BY <1>2, <2>2, <4>1, <4>2 DEF PageRead
    <3>2. req'.kind = req.kind
      BY <3>1 DEF Get, IInv, ShapeInv
    <3> QED BY <3>1, <3>2 DEF Listing, HeaderKinds
  <2> QED BY <1>2, <2>1, <2>2
<1>3. ASSUME NEW b \in Blocks, Aim(b) \/ IndexBlock(b) PROVE OthersStep
  BY <1>3 DEF Aim, IndexBlock, TakeTarget, WriteRows, history, OthersStep
<1>4. ASSUME NEW b \in Blocks, Restart(b) PROVE req'.kind \notin HeaderKinds
  <2>1. CASE Listing
    <3>1. req' = [req EXCEPT !.pc = "ask", !.page = <<>>, !.rows = {}]
      BY <1>4, <2>1 DEF Restart
    <3>2. req'.kind = req.kind
      BY <3>1 DEF IInv, ShapeInv
    <3> QED BY <2>1, <3>2 DEF Listing, HeaderKinds
  <2>2. CASE ~Listing
    <3>1. req' = Idle
      BY <1>4, <2>2 DEF Restart
    <3> QED BY <3>1 DEF Idle, HeaderKinds
  <2> QED BY <2>1, <2>2
<1>5. CASE Publish
  <2>1. req.kind \in HeaderKinds => req # Idle
    BY DEF HeaderKinds, Idle
  <2> QED BY <1>5, <2>1 DEF Publish, PublishTarget, OthersStep
<1>6. CASE End
  BY <1>6 DEF End, Idle, HeaderKinds
<1>7. CASE UNCHANGED vars
  BY <1>7 DEF vars, chainVars, history, OthersStep
<1> QED BY <1>1, <1>2, <1>3, <1>4, <1>5, <1>6, <1>7 DEF Next

\* What others leave of what was found
LEMMA HeldKept ==
  ASSUME OthersStep, req.kind \in HeaderKinds, NEW b, Held(b)
  PROVE  Held(b)'
BY DEF OthersStep, Held, InBestChain

\* What was found and not given up is on the served chain.
LEMMA OthersKeep ==
  ASSUME OthersStep, req.kind \in HeaderKinds, NEW low, NEW high,
         Kept(low, high)'
  PROVE  /\ Kept(low, high)
         /\ \A b : InBestChain(b) /\ Height(b) \in low .. high => InBestChain(b)'
<1>1. Kept(low, high)
  BY DEF Kept, OthersStep
<1>2. ASSUME NEW b, InBestChain(b), Height(b) \in low .. high PROVE InBestChain(b)'
  BY <1>2 DEF Kept, OthersStep, InBestChain
<1> QED BY <1>1, <1>2

-----------------------------------------------------------------------------
(* The invariant, part by part                                              *)

\* What a read sets
Sets(c) ==
  /\ Get(c) /\ DOMAIN c \subseteq {"pc", "heads", "hashes", "next", "read", "ttl"}
  /\ "heads" \in DOMAIN c => c.heads \in Seq(Blocks)
  /\ "hashes" \in DOMAIN c => c.hashes \in Seq(Blocks)
  /\ "next" \in DOMAIN c => c.next \in Blocks \cup {NoBlock}
  /\ "read" \in DOMAIN c => c.read \in Nat
  /\ "pc" \in DOMAIN c =>
       /\ c.pc \in BlocksPlaces => req.pc \in BlocksPlaces
       /\ c.pc \in LinePlaces => req.pc \in LinePlaces

LEMMA SetsHeads ==
  ASSUME NEW s \in Seq(Blocks), NEW pc, pc \notin BlocksPlaces,
         pc \in LinePlaces => req.pc \in LinePlaces, Get([pc |-> pc, heads |-> s])
  PROVE  Sets([pc |-> pc, heads |-> s])
BY DEF Sets

LEMMA ReadGets ==
  ASSUME IInv, FieldsInv, BlockRead, req.kind \in HeaderKinds
  PROVE  \E c : Sets(c)
<1>1. /\ req.heads \in Seq(Blocks) /\ req.hashes \in Seq(Blocks) /\ req.read \in Nat
      /\ Len(req.hashes) \in Nat /\ req.next \in Blocks \cup {NoBlock}
      /\ ChainTypeOK /\ served \in Blocks
  BY DEF FieldsInv, IInv, ChainTypeOK
<1>2. \A b : InBestChain(b) => b \in Blocks
  BY <1>1, OnBestChain
<1>3. \A h \in Nat : HeaderByHeight(h) \in Blocks \cup {NoBlock}
  BY <1>1, ByHeight
<1>4. \A b : InBestChain(b) => PrevBlockhash(b) \in Blocks \cup {NoBlock}
  <2> SUFFICES ASSUME NEW b, InBestChain(b) PROVE PrevBlockhash(b) \in Blocks \cup {NoBlock}
    OBVIOUS
  <2>1. /\ b \in Blocks /\ Height(b) \in Nat /\ ChainOf[b][Height(b) + 1] = b
    BY <1>2, ChainFacts
  <2>2. PrevBlockhash(b) = IF Height(b) + 1 = 1 THEN NoBlock ELSE ChainOf[b][Height(b)]
    BY <2>1, BlockBefore
  <2>3. Height(b) + 1 # 1 => ChainOf[b][Height(b)] \in Blocks
    BY <2>1, ChainFacts
  <2> QED BY <2>2, <2>3
<1>5. \A b \in Blocks : <<b>> \in Seq(Blocks) /\ Append(req.heads, b) \in Seq(Blocks)
                        /\ Append(req.hashes, b) \in Seq(Blocks)
  BY <1>1
<1>6. CASE TtlByDepth
  BY <1>6 DEF TtlByDepth, BlocksPlaces, LinePlaces, Sets
<1>7. CASE BlocksStart
  <2> DEFINE first == IF req.at = Latest THEN served ELSE HeaderByHeight(req.at)
  <2>1. Get([pc |-> IF first = NoBlock THEN "missing" ELSE "walk", next |-> first]) /\ req.pc = "start"
    BY <1>7 DEF BlocksStart
  <2>2. req.at \in Nat \cup {Latest}
    BY <2>1 DEF FieldsInv, BlocksPlaces
  <2>3. first \in Blocks \cup {NoBlock}
    BY <1>1, <1>3, <2>2
  <2> HIDE DEF first
  <2> QED BY <2>1, <2>3 DEF BlocksPlaces, LinePlaces, Sets
<1>8. CASE BlocksWalk
  <2>1. CASE ~InBestChain(req.next)
    BY <1>8, <2>1 DEF BlocksWalk, BlocksPlaces, LinePlaces, Sets
  <2>2. CASE InBestChain(req.next)
    <3> DEFINE prev == PrevBlockhash(req.next)
               heads == Walked(req.next)
    <3>1. PICK pc : Get([heads |-> heads, next |-> prev, pc |-> pc]) /\ pc \in {"walk", "done"}
      BY <1>8, <2>2 DEF BlocksWalk
    <3>2. prev \in Blocks \cup {NoBlock} /\ heads \in Seq(Blocks) /\ req.pc = "walk"
      BY <1>2, <1>4, <1>5, <1>8, <2>2 DEF Walked, BlocksWalk
    <3> HIDE DEF prev, heads
    <3> QED BY <3>1, <3>2 DEF BlocksPlaces, LinePlaces, Sets
  <2> QED BY <2>1, <2>2
<1>9. CASE BlockHeight \/ BlockHeader
  <2> DEFINE b == HeaderByHeight(req.at)
  <2>1. req.at \in Nat
    BY <1>9 DEF BlockHeight, BlockHeader, IInv, ShapeInv, FieldsInv, LinePlaces
  <2>2. b \in Blocks \cup {NoBlock}
    BY <1>3, <2>1
  <2>3. \/ Get([pc |-> "missing"])
        \/ b # NoBlock /\ Get([pc |-> "ttl", heads |-> <<b>>])
        \/ b # NoBlock /\ req.pc = "header" /\ Get([pc |-> AfterHeaders, heads |-> <<b>>])
    BY <1>9 DEF BlockHeight, BlockHeader
  <2> HIDE DEF b
  <2>4. <<b>> \in Seq(Blocks) \/ b = NoBlock
    BY <1>5, <2>2
  <2> QED BY <2>3, <2>4 DEF BlocksPlaces, LinePlaces, Sets, AfterHeaders
<1>10. CASE BlockStatus
  <2>1. CASE ~InBestChain(req.at)
    BY <1>10, <2>1 DEF BlockStatus, BlocksPlaces, LinePlaces, Sets
  <2>2. CASE InBestChain(req.at)
    <3> DEFINE after == HeaderByHeight(Height(req.at) + 1)
    <3>1. Get([pc |-> "ttl", heads |-> <<req.at>>, next |-> after])
      BY <1>10, <2>2 DEF BlockStatus
    <3>2. req.at \in Blocks /\ Height(req.at) + 1 \in Nat
      BY <1>1, <2>2, OnBestChain
    <3> DEFINE heads == <<req.at>>
    <3>3. after \in Blocks \cup {NoBlock} /\ heads \in Seq(Blocks)
      BY <1>3, <1>5, <3>2
    <3> HIDE DEF after, heads
    <3>4. Sets([pc |-> "ttl", heads |-> heads, next |-> after])
      BY <3>1, <3>3 DEF BlocksPlaces, LinePlaces, Sets, heads
    <3> QED BY <3>4
  <2> QED BY <2>1, <2>2
<1>11. CASE BlockTxs
  <2>1. InBestChain(req.at) => req.at \in indexed
    BY DEF IInv, ChainTypeOK, InBestChain
  <2>2. \/ \E pc \in {"done", "missing"} : Get([pc |-> pc])
        \/ InBestChain(req.at) /\ Get([pc |-> "ttl", heads |-> <<req.at>>])
    <3>1. CASE req.at \notin indexed
      BY <1>11, <2>1, <3>1 DEF BlockTxs
    <3>2. CASE req.at \in indexed /\ ~InBestChain(req.at)
      BY <1>11, <3>2 DEF BlockTxs
    <3>3. CASE req.at \in indexed /\ InBestChain(req.at)
      BY <1>11, <3>3 DEF BlockTxs
    <3> QED BY <3>1, <3>2, <3>3
  <2>3. InBestChain(req.at) => <<req.at>> \in Seq(Blocks)
    BY <1>2, <1>5
  <2>4. ASSUME NEW pc \in {"done", "missing"}, Get([pc |-> pc])
        PROVE  \E c : Sets(c)
    BY <2>4 DEF BlocksPlaces, LinePlaces, Sets
  <2>5. CASE InBestChain(req.at) /\ Get([pc |-> "ttl", heads |-> <<req.at>>])
    <3>1. Sets([pc |-> "ttl", heads |-> <<req.at>>])
      BY <2>3, <2>5, SetsHeads DEF BlocksPlaces, LinePlaces
    <3> QED BY <3>1
  <2> QED BY <2>2, <2>4, <2>5
<1>12. CASE TxStatus \/ MerkleBlock
  <2> DEFINE b == TxConfirmingBlock(req.at)
  <2>1. b \in Blocks \cup {NoBlock}
    BY <1>1, Confirming
  <2>2. \/ \E pc \in {"done", "missing"} : Get([pc |-> pc])
        \/ b # NoBlock /\ Get([pc |-> "ttl", heads |-> <<b>>])
        \/ b # NoBlock /\ Get([pc |-> "merkleheader", next |-> b])
    BY <1>12 DEF TxStatus, MerkleBlock
  <2> HIDE DEF b
  <2>3. <<b>> \in Seq(Blocks) \/ b = NoBlock
    BY <1>5, <2>1
  <2>4. CASE b # NoBlock /\ Get([pc |-> "ttl", heads |-> <<b>>])
    <3>1. Sets([pc |-> "ttl", heads |-> <<b>>])
      BY <2>3, <2>4, SetsHeads DEF BlocksPlaces, LinePlaces
    <3> QED BY <3>1
  <2>5. CASE b # NoBlock /\ Get([pc |-> "merkleheader", next |-> b])
    BY <2>1, <2>5 DEF BlocksPlaces, LinePlaces, Sets
  <2>6. ASSUME NEW pc \in {"done", "missing"}, Get([pc |-> pc])
        PROVE  \E c : Sets(c)
    BY <2>6 DEF BlocksPlaces, LinePlaces, Sets
  <2> QED BY <2>2, <2>4, <2>5, <2>6
<1>13. CASE MerkleBlockHeader
  <2>1. InBestChain(req.next) => <<req.next>> \in Seq(Blocks)
    BY <1>2, <1>5
  <2>2. CASE InBestChain(req.next)
    <3>1. Get([pc |-> "merkleheight", heads |-> <<req.next>>])
      BY <1>13, <2>2 DEF MerkleBlockHeader
    <3>2. Sets([pc |-> "merkleheight", heads |-> <<req.next>>])
      BY <2>1, <2>2, <3>1, SetsHeads DEF BlocksPlaces, LinePlaces
    <3> QED BY <3>2
  <2>3. CASE ~InBestChain(req.next)
    <3>1. Get([pc |-> "missing"])
      BY <1>13, <2>3 DEF MerkleBlockHeader
    <3> QED BY <3>1 DEF BlocksPlaces, LinePlaces, Sets
  <2> QED BY <2>2, <2>3
<1>14. CASE MerkleBlockHeight
  BY <1>14 DEF MerkleBlockHeight, BlocksPlaces, LinePlaces, Sets
<1>15. CASE BlockHeaders
  <2> DEFINE b == HeaderByHeight(req.at + req.read)
             heads == IF b = NoBlock THEN req.heads ELSE Walked(b)
  <2>1. \/ Get([pc |-> AfterHeaders]) /\ req.pc = "headers"
        \/ Get([read |-> req.read + 1, heads |-> heads])
    <3>1. req.read = req.count => Get([pc |-> AfterHeaders]) /\ req.pc = "headers"
      BY <1>15 DEF BlockHeaders
    <3>2. req.read # req.count => Get([read |-> req.read + 1, heads |-> heads])
      BY <1>15 DEF BlockHeaders
    <3> QED BY <3>1, <3>2
  <2>2. b \in Blocks \cup {NoBlock}
    <3>1. req.at \in Nat
      BY <1>15 DEF BlockHeaders, FieldsInv, LinePlaces
    <3>2. req.at + req.read \in Nat
      BY <1>1, <3>1
    <3> QED BY <1>3, <3>2
  <2>3. heads \in Seq(Blocks) /\ req.read + 1 \in Nat
    <3>1. CASE b = NoBlock
      BY <1>1, <3>1
    <3>2. CASE b # NoBlock
      <4>1. b \in Blocks
        BY <2>2, <3>2
      <4> HIDE DEF b
      <4> QED BY <1>1, <1>5, <3>2, <4>1 DEF Walked
    <3> QED BY <3>1, <3>2
  <2> HIDE DEF heads
  <2> QED BY <2>1, <2>3 DEF BlocksPlaces, LinePlaces, Sets, AfterHeaders
<1>16. CASE HeaderProof
  BY <1>16 DEF HeaderProof, BlocksPlaces, LinePlaces, Sets
<1>17. CASE HeaderHashes
  <2> DEFINE b == HeaderByHeight(Len(req.hashes))
             hashes == Append(req.hashes, b)
  <2>1. \/ \E pc \in {"done", "missing"} : Get([pc |-> pc])
        \/ b # NoBlock /\ Get([hashes |-> hashes])
    BY <1>17 DEF HeaderHashes
  <2>2. b # NoBlock => hashes \in Seq(Blocks)
    BY <1>1, <1>3, <1>5
  <2> HIDE DEF b, hashes
  <2> QED BY <2>1, <2>2 DEF BlocksPlaces, LinePlaces, Sets
<1> QED BY <1>6, <1>7, <1>8, <1>9, <1>10, <1>11, <1>12, <1>13, <1>14, <1>15, <1>16, <1>17
        DEF BlockRead

\* The parts that speak of every request
LEMMA FieldsNext ==
  ASSUME IInv, FieldsInv, [Next]_vars
  PROVE  FieldsInv'
<1>1. CASE req'.kind \notin HeaderKinds
  BY <1>1 DEF FieldsInv
<1>2. CASE Ask
  <2>1. /\ req'.pc \in BlocksPlaces => req'.kind = "blocks"
        /\ req'.pc \in LinePlaces => req'.kind \in {"header", "headers"}
    BY <1>2, AskFacts DEF BlocksPlaces, LinePlaces, HeaderKinds
  <2>2. req'.heads \in Seq(Blocks) /\ req'.hashes \in Seq(Blocks)
    <3>1. <<>> \in Seq(Blocks)
      OBVIOUS
    <3> QED BY <1>2, <3>1, AskFacts
  <2> QED BY <1>2, AskFacts, <2>1, <2>2 DEF FieldsInv
<1>3. CASE OthersStep
  BY <1>3 DEF OthersStep, FieldsInv
<1>4. CASE BlockRead /\ req.kind \in HeaderKinds
  <2>1. PICK c : Sets(c)
    BY <1>4, ReadGets
  <2> QED BY <1>4, <2>1, GetFrame DEF Sets, FieldsInv
<1> QED BY <1>1, <1>2, <1>3, <1>4, StepKinds

LEMMA CameNext ==
  ASSUME IInv, FieldsInv, CameInv, [Next]_vars
  PROVE  CameInv'
<1>1. CASE req'.kind \notin HeaderKinds
  BY <1>1 DEF CameInv
<1>2. CASE Ask
  <2>1. came' = served /\ UNCHANGED <<served, left>> /\ served \in Blocks
    BY <1>2, AskFacts DEF IInv, ChainTypeOK
  <2> QED BY <2>1 DEF CameInv, Held, InBestChain
<1>3. CASE OthersStep
  <2>1. UNCHANGED <<req, came>>
    BY <1>3 DEF OthersStep
  <2> QED BY <1>3, <2>1, HeldKept DEF CameInv
<1>4. CASE BlockRead /\ req.kind \in HeaderKinds
  <2>1. UNCHANGED <<served, came, left>>
    BY <1>4, ReadGets, GetFrame DEF Sets
  <2> QED BY <1>4, <2>1 DEF CameInv, Held, InBestChain
<1> QED BY <1>1, <1>2, <1>3, <1>4, StepKinds

\* A request that has its answer keeps it, whatever others do.
LEMMA FoundKept ==
  ASSUME FoundUnlessLeft, OthersStep
  PROVE  FoundUnlessLeft'
<1>1. UNCHANGED <<req, came>>
  BY DEF OthersStep
<1>2. CASE Answered
  BY <1>1, <1>2 DEF OthersStep, FoundUnlessLeft, Missed
<1>3. CASE ~Answered
  BY <1>1, <1>3 DEF FoundUnlessLeft, Missed, Answered
<1> QED BY <1>2, <1>3

\* What the chain that was served at the start has, the served chain has, as long as nothing
\* was given up.
LEMMA CameServed ==
  ASSUME IInv, CameInv, req.kind \in HeaderKinds, left = {}
  PROVE  /\ Ancestors(came) \subseteq Ancestors(served)
         /\ Height(came) \in Nat /\ Height(came) <= Height(served)
<1>1. came \in Blocks /\ Ancestors(came) \subseteq Ancestors(served)
  BY DEF CameInv, Held, InBestChain
<1>2. came \in Ancestors(came) /\ Height(came) \in Nat
  BY <1>1, ChainFacts
<1>3. Height(came) <= Height(served)
  BY <1>1, <1>2, AncestorsBelow DEF IInv, ChainTypeOK
<1> QED BY <1>1, <1>2, <1>3

\* The block before one of the served chain is of that chain.
LEMMA BeforeServed ==
  ASSUME IInv, NEW b, InBestChain(b), PrevBlockhash(b) # NoBlock
  PROVE  InBestChain(PrevBlockhash(b)) /\ PrevBlockhash(b) \in Blocks
<1>1. /\ served \in Blocks /\ b \in Blocks /\ Height(b) \in Nat /\ Height(b) <= Height(served)
      /\ Height(served) \in Nat /\ ChainOf[served][Height(b) + 1] = b
  BY OnBestChain, ChainFacts DEF IInv, ChainTypeOK
<1>2. PrevBlockhash(b) = ChainOf[served][Height(b)] /\ Height(b) + 1 # 1
  BY <1>1, BlockBefore
<1>3. Height(b) \in 1 .. Height(served) + 1
  BY <1>1, <1>2
<1>4. ChainOf[served][Height(b)] \in Blocks /\ ChainOf[served][Height(b)] \in Ancestors(served)
  BY <1>1, <1>3, ChainFacts
<1> QED BY <1>2, <1>4 DEF InBestChain

\* The listing, block by block
LEMMA FirstListed ==
  ASSUME NEW b \in Blocks
  PROVE  Newest(Append(<<>>, b), PrevBlockhash(b))
<1>1. /\ ChainOf[b] \in Seq(Blocks) /\ Height(b) \in Nat /\ Len(ChainOf[b]) = Height(b) + 1
      /\ ChainOf[b][Height(b) + 1] = b
  BY ChainFacts
<1>2. /\ Append(<<>>, b) \in Seq(Blocks) /\ Append(<<>>, b) # <<>> /\ Append(<<>>, b)[1] = b
      /\ Len(Append(<<>>, b)) = 1
  OBVIOUS
<1>3. PrevBlockhash(b) = IF Height(b) + 1 = 1 THEN NoBlock ELSE ChainOf[b][Height(b) + 1 - 1]
  BY <1>1, BlockBefore
<1>4. \A i \in 1 .. 1 : Append(<<>>, b)[i] = ChainOf[b][Height(b) + 1 + 1 - i]
  BY <1>1, <1>2
<1> HIDE DEF Newest
<1> DEFINE s == Append(<<>>, b)
<1> HIDE DEF s
<1>5. /\ s \in Seq(Blocks) /\ s # <<>> /\ s[1] = b /\ Len(s) = 1
      /\ \A i \in 1 .. 1 : s[i] = ChainOf[b][Height(b) + 1 + 1 - i]
  BY <1>2, <1>4 DEF s
<1>6. Newest(s, PrevBlockhash(b))
  BY <1>1, <1>3, <1>5 DEF Newest
<1> QED BY <1>6 DEF s

LEMMA BlockBelow ==
  ASSUME NEW b \in Blocks, NEW n \in 0 .. Height(b)
  PROVE  PrevBlockhash(ChainOf[b][Height(b) + 1 - n]) =
           IF n = Height(b) THEN NoBlock ELSE ChainOf[b][Height(b) - n]
<1> DEFINE i == Height(b) + 1 - n
<1>1. Height(b) \in Nat
  BY ChainFacts
<1>2. i \in 1 .. Height(b) + 1 /\ i - 1 = Height(b) - n /\ (i = 1 <=> n = Height(b))
  BY <1>1
<1> HIDE DEF i
<1>3. PrevBlockhash(ChainOf[b][i]) = IF i = 1 THEN NoBlock ELSE ChainOf[b][i - 1]
  BY <1>2, BlockBefore
<1>4. PrevBlockhash(ChainOf[b][i]) = IF n = Height(b) THEN NoBlock ELSE ChainOf[b][Height(b) - n]
  BY <1>2, <1>3
<1> QED BY <1>4 DEF i

LEMMA NextListed ==
  ASSUME NEW s, NEW b \in Blocks, Newest(s, b)
  PROVE  Newest(Append(s, b), PrevBlockhash(b)) /\ Append(s, b)[1] = s[1]
<1> DEFINE t == Append(s, b)
           c == s[1]
           n == Len(s)
<1>1. s \in Seq(Blocks) /\ s # <<>> /\ n \in Nat \ {0} /\ c \in Blocks
  BY DEF Newest
<1>2. /\ ChainOf[c] \in Seq(Blocks) /\ Height(c) \in Nat /\ Len(ChainOf[c]) = Height(c) + 1
  BY <1>1, ChainFacts
<1>3. n <= Height(c) /\ b = ChainOf[c][Height(c) + 1 - n]
  BY <1>1, <1>2, NoBlockAssumption DEF Newest
<1>4. /\ t \in Seq(Blocks) /\ t # <<>> /\ Len(t) = n + 1 /\ t[1] = c /\ t[n + 1] = b
      /\ \A i \in 1 .. n : t[i] = s[i]
  BY <1>1
<1>5. PrevBlockhash(b) = IF n = Height(c) THEN NoBlock ELSE ChainOf[c][Height(c) - n]
  <2>1. n \in 0 .. Height(c)
    BY <1>1, <1>2, <1>3
  <2> HIDE DEF n, c
  <2> QED BY <1>1, <1>3, <2>1, BlockBelow
<1>6. \A i \in 1 .. n : s[i] = ChainOf[c][Height(c) + 1 + 1 - i]
  BY <1>1, <1>2 DEF Newest
<1> HIDE DEF t, c, n
<1>7. \A i \in 1 .. n + 1 : t[i] = ChainOf[c][Height(c) + 1 + 1 - i]
  <2> TAKE i \in 1 .. n + 1
  <2>1. CASE i = n + 1
    <3>1. Height(c) + 1 + 1 - i = Height(c) + 1 - n
      BY <1>1, <1>2, <2>1
    <3> QED BY <1>3, <1>4, <2>1, <3>1
  <2>2. CASE i # n + 1
    BY <1>1, <1>4, <1>6, <2>2
  <2> QED BY <2>1, <2>2
<1>8. Newest(t, PrevBlockhash(b))
  <2>1. Len(t) = Len(ChainOf[c]) <=> n = Height(c)
    BY <1>1, <1>2, <1>3, <1>4
  <2>2. Height(c) - n = Len(ChainOf[c]) - Len(t) /\ Len(t) <= Len(ChainOf[c])
    BY <1>1, <1>2, <1>3, <1>4
  <2>3. PrevBlockhash(b) = IF Len(t) = Len(ChainOf[c]) THEN NoBlock ELSE ChainOf[c][Len(ChainOf[c]) - Len(t)]
    BY <1>5, <2>1, <2>2
  <2>4. \A i \in 1 .. Len(t) : t[i] = ChainOf[c][Len(ChainOf[c]) + 1 - i]
    BY <1>2, <1>4, <1>7
  <2> QED BY <1>4, <2>2, <2>3, <2>4 DEF Newest
<1> QED BY <1>4, <1>8 DEF t, c

LEMMA StartRead ==
  ASSUME IInv, RequestInv, BlocksStart, req.kind = "blocks", req.heads = <<>>, req.next = NoBlock
  PROVE  WalkedInv' /\ FoundUnlessLeft'
<1> DEFINE first == IF req.at = Latest THEN served ELSE HeaderByHeight(req.at)
           c == [pc |-> IF first = NoBlock THEN "missing" ELSE "walk", next |-> first]
<1>1. Get(c) /\ req.kind \in HeaderKinds /\ req.at \in Nat \cup {Latest} /\ ChainTypeOK
  BY DEF BlocksStart, HeaderKinds, RequestInv, FieldsInv, IInv
<1>2. /\ req'.kind = "blocks" /\ req'.heads = <<>> /\ req'.at = req.at
      /\ req'.pc = IF first = NoBlock THEN "missing" ELSE "walk"
      /\ req'.next = first /\ UNCHANGED <<served, left, came>>
  <2> HIDE DEF first
  <2> QED BY <1>1, GetFrame DEF RequestInv
<1>3. served \in Blocks /\ Height(served) \in Nat /\ InBestChain(served) /\ served # NoBlock
  BY <1>1, ChainFacts, NoBlockAssumption DEF ChainTypeOK, InBestChain
<1>4. CASE first = NoBlock
  <2>1. req.at \in Nat /\ req.at > Height(served)
    BY <1>1, <1>3, <1>4, ByHeight
  <2>2. left = {} => req.at > Height(came)
    BY <1>1, <1>3, <2>1, CameServed DEF RequestInv
  <2>3. /\ req'.pc = "missing" /\ req'.next = NoBlock /\ req'.heads = <<>> /\ req'.kind = "blocks"
        /\ left' # {} \/ req'.at > Height(came')
    BY <1>2, <1>4, <2>2
  <2> QED BY <2>3 DEF WalkedInv, FoundUnlessLeft, Missed
<1>5. CASE first # NoBlock
  <2>1. InBestChain(first) /\ first \in Blocks
    BY <1>1, <1>3, <1>5, ByHeight, OnBestChain
  <2>2. /\ req'.pc = "walk" /\ req'.next \in Blocks /\ Held(req.next)' /\ req'.heads = <<>>
    BY <1>2, <1>5, <2>1 DEF Held, InBestChain
  <2>3. Len(req'.heads) < BLOCK_LIMIT
    BY <2>2, HeaderReadsAssumption
  <2> QED BY <1>2, <2>2, <2>3 DEF WalkedInv, FoundUnlessLeft, Missed
<1> QED BY <1>4, <1>5

LEMMA WalkRead ==
  ASSUME IInv, RequestInv, BlocksWalk, req.kind = "blocks"
  PROVE  WalkedInv' /\ FoundUnlessLeft'
<1> DEFINE prev == PrevBlockhash(req.next)
           heads == Walked(req.next)
<1>1. /\ req.pc = "walk" /\ req.kind \in HeaderKinds /\ req.next \in Blocks /\ Held(req.next)
      /\ req.heads \in Seq(Blocks) /\ Len(req.heads) < BLOCK_LIMIT
      /\ req.heads = <<>> \/ Newest(req.heads, req.next)
  BY DEF BlocksWalk, HeaderKinds, RequestInv, WalkedInv, FieldsInv
<1>2. CASE ~InBestChain(req.next)
  <2>1. Get([pc |-> "missing"])
    BY <1>2 DEF BlocksWalk
  <2>2. /\ req'.kind = "blocks" /\ req'.pc = "missing" /\ req'.next = req.next
        /\ UNCHANGED left
    BY <1>1, <2>1, GetFrame DEF RequestInv
  <2>3. req'.next \in left'
    BY <1>1, <1>2, <2>2 DEF Held
  <2> QED BY <2>2, <2>3 DEF WalkedInv, FoundUnlessLeft, Missed
<1>3. CASE InBestChain(req.next)
  <2> DEFINE pc == IF Len(heads) = BLOCK_LIMIT \/ prev = NoBlock THEN "done" ELSE "walk"
  <2>1. Get([heads |-> heads, next |-> prev, pc |-> pc])
    BY <1>3 DEF BlocksWalk
  <2>2. /\ req'.kind = "blocks" /\ req'.heads = heads /\ req'.next = prev /\ req'.pc = pc
        /\ UNCHANGED <<served, left>>
    <3> HIDE DEF heads, prev, pc
    <3> QED BY <1>1, <2>1, GetFrame DEF RequestInv
  <2>3. Newest(heads, prev)
    BY <1>1, FirstListed, NextListed DEF Walked
  <2>4. Len(heads) \in Nat /\ Len(heads) <= BLOCK_LIMIT /\ BLOCK_LIMIT \in Nat
    BY <1>1, HeaderReadsAssumption DEF Walked
  <2>5. prev # NoBlock => prev \in Blocks /\ InBestChain(prev)
    BY <1>3, BeforeServed
  <2> HIDE DEF heads, prev
  <2>6. CASE pc = "walk"
    <3>1. Len(heads) < BLOCK_LIMIT /\ prev # NoBlock
      BY <2>4, <2>6
    <3>2. Held(req.next)'
      BY <2>2, <2>5, <3>1 DEF Held, InBestChain
    <3> QED BY <2>2, <2>3, <2>5, <2>6, <3>1, <3>2 DEF WalkedInv, FoundUnlessLeft, Missed
  <2>7. CASE pc = "done"
    <3> DEFINE chain == ChainOf[heads[1]]
    <3>1. /\ heads \in Seq(Blocks) /\ Len(heads) <= Len(chain)
          /\ \A i \in 1 .. Len(heads) : heads[i] = chain[Len(chain) + 1 - i]
          /\ prev = IF Len(heads) = Len(chain) THEN NoBlock ELSE chain[Len(chain) - Len(heads)]
      BY <2>3 DEF Newest
    <3>2. Len(chain) \in Nat /\ \A i \in 1 .. Len(chain) : chain[i] \in Blocks
      <4>1. heads[1] \in Blocks
        BY <2>3 DEF Newest
      <4> QED BY <4>1, ChainFacts
    <3> HIDE DEF chain
    <3>3. Len(heads) = BLOCK_LIMIT \/ Len(heads) = Len(chain)
      BY <2>4, <2>7, <3>1, <3>2, NoBlockAssumption
    <3>4. Len(heads) = IF Len(chain) < BLOCK_LIMIT THEN Len(chain) ELSE BLOCK_LIMIT
      BY <2>4, <3>1, <3>2, <3>3
    <3>5. DOMAIN heads = 1 .. Len(heads)
      BY <3>1
    <3> QED BY <2>2, <2>7, <3>1, <3>4, <3>5 DEF WalkedInv, FoundUnlessLeft, Missed, chain
  <2> QED BY <2>6, <2>7
<1> QED BY <1>2, <1>3

LEMMA WalkedNext ==
  ASSUME IInv, RequestInv, [Next]_vars, req'.kind = "blocks"
  PROVE  WalkedInv' /\ FoundUnlessLeft'
<1>1. req'.kind \in HeaderKinds
  BY DEF HeaderKinds
<1>2. CASE Ask
  <2>1. req'.pc = "start" /\ req'.heads = <<>> /\ req'.next = NoBlock
    BY <1>2, AskFacts
  <2> QED BY <2>1 DEF WalkedInv, FoundUnlessLeft, Missed
<1>3. CASE OthersStep
  <2>1. UNCHANGED req
    BY <1>3 DEF OthersStep
  <2>2. FoundUnlessLeft'
    BY <1>3, FoundKept DEF RequestInv
  <2>3. Held(req.next) => Held(req.next)'
    BY <1>1, <1>3, <2>1, HeldKept
  <2> QED BY <2>1, <2>2, <2>3 DEF RequestInv, WalkedInv
<1>4. CASE BlockRead /\ req.kind \in HeaderKinds
  <2>1. PICK c : Sets(c)
    BY <1>4, ReadGets DEF RequestInv
  <2>2. req.kind = "blocks" /\ UNCHANGED <<served, left, came>>
    BY <1>4, <2>1, GetFrame DEF Sets, RequestInv
  <2>3. \/ BlocksStart /\ req.heads = <<>> /\ req.next = NoBlock
        \/ BlocksWalk
    <3>1. req.pc \in {"start", "walk", "missing", "done"}
      BY <2>2 DEF RequestInv, WalkedInv
    <3>2. BlocksStart \/ BlocksWalk
      BY <1>4, <3>1 DEF BlockRead, TtlByDepth, BlockHeight, BlockStatus, BlockTxs, TxStatus, MerkleBlock,
         MerkleBlockHeader, MerkleBlockHeight, BlockHeader, BlockHeaders, HeaderProof, HeaderHashes
    <3>3. BlocksStart => req.heads = <<>> /\ req.next = NoBlock
      BY <2>2 DEF BlocksStart, RequestInv, WalkedInv
    <3> QED BY <3>2, <3>3
  <2>4. CASE BlocksStart /\ req.heads = <<>> /\ req.next = NoBlock
    BY <1>4, <2>2, <2>4, StartRead
  <2>5. CASE BlocksWalk
    BY <1>4, <2>2, <2>5, WalkRead
  <2> QED BY <2>3, <2>4, <2>5
<1> QED BY <1>1, <1>2, <1>3, <1>4, StepKinds

LEMMA MerkledNext ==
  ASSUME IInv, RequestInv, [Next]_vars, req'.kind = "merkleblock"
  PROVE  MerkledInv' /\ FoundUnlessLeft'
<1>1. req'.kind \in HeaderKinds
  BY DEF HeaderKinds
<1>2. CASE Ask
  <2>1. req'.pc = "merkleblock" /\ req'.heads = <<>> /\ req'.next = NoBlock
    BY <1>2, AskFacts
  <2> QED BY <2>1 DEF MerkledInv, FoundUnlessLeft, Missed
<1>3. CASE OthersStep
  <2>1. UNCHANGED req
    BY <1>3 DEF OthersStep
  <2>2. FoundUnlessLeft'
    BY <1>3, FoundKept DEF RequestInv
  <2>3. Held(req.next) => Held(req.next)'
    BY <1>1, <1>3, <2>1, HeldKept
  <2> QED BY <2>1, <2>2, <2>3 DEF RequestInv, MerkledInv
<1>4. CASE BlockRead /\ req.kind \in HeaderKinds
  <2>1. PICK c : Sets(c)
    BY <1>4, ReadGets DEF RequestInv
  <2>2. req.kind = "merkleblock" /\ UNCHANGED <<served, left, came>> /\ req'.at = req.at
    BY <1>4, <2>1, GetFrame DEF Sets, RequestInv
  <2>3. req.pc \in {"merkleblock", "merkleheader", "merkleheight", "ttl", "missing", "done", "panicked"}
    BY <2>2 DEF RequestInv, MerkledInv
  <2>4. MerkleBlock \/ MerkleBlockHeader \/ MerkleBlockHeight \/ TtlByDepth
    BY <1>4, <2>3 DEF BlockRead, BlocksStart, BlocksWalk, BlockHeight, BlockStatus, BlockTxs, TxStatus,
       BlockHeader, BlockHeaders, HeaderProof, HeaderHashes
  <2>5. CASE MerkleBlock
    <3> DEFINE b == TxConfirmingBlock(req.at)
    <3>1. /\ b \in Blocks \cup {NoBlock}
          /\ b # NoBlock => InBestChain(b)
          /\ b = NoBlock => \A a \in Ancestors(served) : req.at \notin TxsOf[a]
      BY Confirming DEF IInv
    <3>2. req.heads = <<>> /\ req.next = NoBlock
      BY <2>2, <2>5 DEF MerkleBlock, RequestInv, MerkledInv
    <3>3. CASE b = NoBlock
      <4>1. Get([pc |-> "missing"])
        BY <2>5, <3>3 DEF MerkleBlock
      <4>2. req'.pc = "missing" /\ req'.heads = <<>> /\ req'.next = NoBlock
        BY <1>4, <3>2, <4>1, GetFrame DEF RequestInv
      <4>3. left = {} => \A a \in Ancestors(came) : req.at \notin TxsOf[a]
        BY <1>4, <3>1, <3>3, CameServed DEF RequestInv
      <4>4. left' # {} \/ \A a \in Ancestors(came') : req'.at \notin TxsOf[a]
        BY <2>2, <4>3
      <4> QED BY <4>2, <4>4 DEF MerkledInv, FoundUnlessLeft, Missed
    <3>4. CASE b # NoBlock
      <4>1. Get([pc |-> "merkleheader", next |-> b])
        BY <2>5, <3>4 DEF MerkleBlock
      <4> HIDE DEF b
      <4>2. req'.pc = "merkleheader" /\ req'.next = b
        BY <1>4, <4>1, GetFrame DEF RequestInv
      <4>3. req'.next \in Blocks /\ Held(req.next)'
        BY <2>2, <3>1, <3>4, <4>2 DEF Held, InBestChain
      <4> QED BY <4>2, <4>3 DEF MerkledInv, FoundUnlessLeft, Missed
    <3> QED BY <3>3, <3>4
  <2>6. CASE MerkleBlockHeader
    <3>1. Held(req.next)
      BY <2>2, <2>6 DEF MerkleBlockHeader, RequestInv, MerkledInv
    <3>2. CASE InBestChain(req.next)
      <4>1. Get([pc |-> "merkleheight", heads |-> <<req.next>>])
        BY <2>6, <3>2 DEF MerkleBlockHeader
      <4>2. req'.pc = "merkleheight"
        BY <1>4, <4>1, GetFrame DEF RequestInv
      <4> QED BY <4>2 DEF MerkledInv, FoundUnlessLeft, Missed
    <3>3. CASE ~InBestChain(req.next)
      <4>1. Get([pc |-> "missing"])
        BY <2>6, <3>3 DEF MerkleBlockHeader
      <4>2. req'.pc = "missing" /\ req'.next = req.next
        BY <1>4, <4>1, GetFrame DEF RequestInv
      <4>3. req'.next \in left'
        BY <2>2, <3>1, <3>3, <4>2 DEF Held
      <4> QED BY <4>2, <4>3 DEF MerkledInv, FoundUnlessLeft, Missed
    <3> QED BY <3>2, <3>3
  <2>7. CASE MerkleBlockHeight \/ TtlByDepth
    <3>1. PICK pc \in {"ttl", "done", "panicked"} :
            Get([pc |-> pc]) \/ \E ttl : Get([pc |-> pc, ttl |-> ttl])
      <4>1. CASE MerkleBlockHeight
        BY <4>1 DEF MerkleBlockHeight
      <4>2. CASE TtlByDepth
        BY <4>2 DEF TtlByDepth
      <4> QED BY <2>7, <4>1, <4>2
    <3>2. req'.pc \in {"ttl", "done", "panicked"}
      <4>1. CASE Get([pc |-> pc])
        BY <1>4, <4>1, GetFrame DEF RequestInv
      <4>2. ASSUME NEW ttl, Get([pc |-> pc, ttl |-> ttl])
            PROVE  req'.pc = pc
        BY <1>4, <4>2, GetFrame DEF RequestInv
      <4> QED BY <3>1, <4>1, <4>2
    <3> QED BY <3>2 DEF MerkledInv, FoundUnlessLeft, Missed
  <2> QED BY <2>4, <2>5, <2>6, <2>7
<1> QED BY <1>1, <1>2, <1>3, <1>4, StepKinds

-----------------------------------------------------------------------------
(* Electrum headers                                                         *)

\* A height that the list had reached, and that was not given up
LEMMA CameHeader ==
  ASSUME IInv, CameInv, req.kind \in HeaderKinds, NEW h \in Nat, h <= Height(came),
         NEW low, NEW high, h \in low .. high, Kept(low, high)
  PROVE  /\ h <= Height(served) /\ HeaderByHeight(h) = ChainOf[came][h + 1]
         /\ ChainOf[came][h + 1] # NoBlock
<1>1. came \in Blocks /\ Height(came) \in Nat
  BY ChainFacts DEF CameInv
<1> DEFINE c == ChainOf[came][h + 1]
<1>2. c \in Blocks /\ c \in Ancestors(came) /\ Height(c) = h
  <2>1. h + 1 \in 1 .. Height(came) + 1 /\ h + 1 - 1 = h
    BY <1>1
  <2> QED BY <1>1, <2>1, ChainFacts
<1> HIDE DEF c
<1>3. InBestChain(c)
  BY <1>2 DEF CameInv, Held, Kept
<1>4. Height(c) <= Height(served) /\ HeaderByHeight(Height(c)) = c
  BY <1>3, OnBestChain DEF IInv
<1> QED BY <1>2, <1>4, NoBlockAssumption DEF c

\* What LineInv says while the headers stay: the next read is another matter.
Lined ==
  /\ \A i \in 1 .. AskedFor : req.at + i - 1 <= Height(came) =>
       i <= Len(req.heads) /\ req.heads[i] = ChainOf[came][req.at + i]
  /\ \A i \in 1 .. Len(req.heads) :
       /\ InBestChain(req.heads[i]) /\ Height(req.heads[i]) \in req.at .. HighHeight
       /\ req.at + i - 1 > Height(came) => Height(req.heads[i]) > Height(came)

LEMMA LineHeader ==
  ASSUME IInv, RequestInv, BlockHeader, req.kind \in {"header", "headers"}
  PROVE  LineInv'
<1> DEFINE b == HeaderByHeight(req.at)
<1>1. /\ req.kind = "header" /\ req.kind \in HeaderKinds /\ req.heads = <<>> /\ req.count = 1
      /\ req.at \in Nat /\ FieldsInv /\ ChainTypeOK /\ CameInv
      /\ came \in Blocks /\ Height(came) \in Nat
  BY ChainFacts DEF BlockHeader, RequestInv, LineInv, FieldsInv, CameInv, HeaderKinds, IInv
<1>2. CASE b = NoBlock
  <2>1. Get([pc |-> "missing"])
    BY <1>2 DEF BlockHeader
  <2>2. /\ req'.kind = "header" /\ req'.pc = "missing" /\ req'.heads = <<>> /\ req'.count = 1
        /\ req'.at = req.at
    BY <1>1, <2>1, GetFrame
  <2>3. Len(req'.heads) = 0
    BY <2>2
  <2>4. AskedFor' = 0 /\ 1 .. 0 = {}
    BY <2>2, <2>3 DEF AskedFor
  <2> QED BY <2>2, <2>3, <2>4 DEF LineInv
<1>3. CASE b # NoBlock
  <2>1. Get([pc |-> AfterHeaders, heads |-> <<b>>])
    BY <1>3 DEF BlockHeader
  <2>2. b \in Blocks /\ InBestChain(b) /\ Height(b) = req.at
    BY <1>1, <1>3, ByHeight
  <2> DEFINE heads == <<b>>
  <2>3. heads[1] = b /\ Len(heads) = 1
    OBVIOUS
  <2>4. /\ req'.kind = "header" /\ req'.pc \in {"done", "proof"} /\ req'.heads = heads
        /\ req'.count = 1 /\ req'.at = req.at /\ UNCHANGED <<served, left, came>>
    <3> HIDE DEF heads
    <3> QED BY <1>1, <2>1, GetFrame DEF heads, AfterHeaders
  <2>5. Kept(req.at, HighHeight) => (req.at <= Height(came) => b = ChainOf[came][req.at + 1])
    <3>1. req.at \in req.at .. HighHeight
      BY <1>1 DEF HighHeight
    <3> QED BY <1>1, <3>1, CameHeader
  <2>10. /\ req'.heads[1] = b /\ Len(req'.heads) = 1 /\ req'.heads = <<b>>
         /\ req'.kind = "header" /\ req'.count = 1
    BY <2>3, <2>4
  <2> HIDE DEF heads, b
  <2>6. AskedFor' = 1 /\ HighHeight' = HighHeight /\ HighHeight = req.at
    BY <1>1, <2>3, <2>4 DEF AskedFor, HighHeight
  <2>7. Kept(req.at, HighHeight)' => Kept(req.at, HighHeight)
    BY <2>4, <2>6 DEF Kept
  <2>8. Kept(req.at, HighHeight)' => Lined'
    <3> SUFFICES ASSUME Kept(req.at, HighHeight)' PROVE Lined'
      OBVIOUS
    <3>1. /\ b \in Ancestors(served') /\ Height(b) = req'.at /\ req'.at \in req'.at .. HighHeight'
      BY <1>1, <2>2, <2>3, <2>4, <2>6 DEF InBestChain
    <3>2. req'.at <= Height(came') => b = ChainOf[came'][req'.at + 1]
      BY <2>4, <2>5, <2>7
    <3>3. \A i \in 1 .. 1 : i = 1 /\ req'.at + i - 1 = req'.at /\ req'.at \in Nat
      BY <1>1, <2>4
    <3> QED BY <2>6, <2>10, <3>1, <3>2, <3>3 DEF Lined, InBestChain
  <2>9. Len(req'.heads) <= AskedFor' /\ AskedFor' = req'.count
    BY <2>6, <2>10
  <2> QED BY <2>4, <2>8, <2>9 DEF LineInv, Lined
<1> QED BY <1>2, <1>3

LEMMA LineHeaders ==
  ASSUME IInv, RequestInv, BlockHeaders, req.kind \in {"header", "headers"}
  PROVE  LineInv'
<1> DEFINE h == req.at + req.read
           b == HeaderByHeight(h)
           heads == IF b = NoBlock THEN req.heads ELSE Walked(b)
<1>1. /\ req.kind = "headers" /\ req.kind \in HeaderKinds /\ req.pc = "headers"
      /\ req.at \in Nat /\ req.count \in Nat /\ req.read \in Nat /\ req.heads \in Seq(Blocks)
      /\ AskedFor = req.read /\ Len(req.heads) \in Nat
      /\ Len(req.heads) <= req.read /\ req.read <= req.count
      /\ FieldsInv /\ ChainTypeOK /\ CameInv /\ Height(came) \in Nat /\ came \in Blocks
      /\ Kept(req.at, HighHeight) => Lined
  <2>1. req.pc = "headers" /\ req.kind \in HeaderKinds
    BY DEF BlockHeaders, HeaderKinds
  <2>2. LineInv /\ FieldsInv /\ CameInv /\ ChainTypeOK
    BY DEF RequestInv, IInv
  <2>3. /\ req.kind = "headers" /\ AskedFor = req.read
        /\ Len(req.heads) <= req.read /\ req.read <= req.count
        /\ Kept(req.at, HighHeight) => Lined
    BY <2>1, <2>2 DEF LineInv, AskedFor, Lined
  <2>4. /\ req.at \in Nat /\ req.count \in Nat /\ req.read \in Nat /\ req.heads \in Seq(Blocks)
        /\ Len(req.heads) \in Nat
    BY <2>1, <2>2 DEF FieldsInv
  <2>5. came \in Blocks /\ Height(came) \in Nat
    BY <2>1, <2>2, ChainFacts DEF CameInv
  <2> QED BY <2>1, <2>2, <2>3, <2>4, <2>5
<1>2. CASE req.read = req.count
  <2>1. Get([pc |-> AfterHeaders])
    BY <1>2 DEF BlockHeaders
  <2>2. /\ req'.kind = "headers" /\ req'.pc \in {"done", "proof"} /\ req'.heads = req.heads
        /\ req'.read = req.read
        /\ req'.count = req.count /\ req'.at = req.at /\ UNCHANGED <<served, left, came>>
    BY <1>1, <2>1, GetFrame DEF AfterHeaders
  <2>3. /\ AskedFor' = req.count /\ HighHeight' = HighHeight
        /\ Kept(req.at, HighHeight)' => Kept(req.at, HighHeight)
    BY <1>1, <1>2, <2>2 DEF AskedFor, HighHeight, Kept
  <2>4. Kept(req.at, HighHeight)' => Lined'
    BY <1>1, <1>2, <2>2, <2>3 DEF Lined, InBestChain
  <2> QED BY <1>1, <1>2, <2>2, <2>3, <2>4 DEF LineInv, Lined
<1>3. CASE req.read # req.count
  <2>1. Get([read |-> req.read + 1, heads |-> heads])
    BY <1>3 DEF BlockHeaders
  <2>2. /\ req'.kind = "headers" /\ req'.pc = "headers" /\ req'.heads = heads
        /\ req'.read = req.read + 1
        /\ req'.count = req.count /\ req'.at = req.at /\ UNCHANGED <<served, left, came>>
    <3> HIDE DEF heads
    <3> QED BY <1>1, <2>1, GetFrame
  <2>3. /\ AskedFor' = req.read + 1 /\ HighHeight' = HighHeight
        /\ Kept(req.at, HighHeight)' => Kept(req.at, HighHeight)
    BY <1>1, <2>2 DEF AskedFor, HighHeight, Kept
  <2>4. h \in Nat /\ h \in req.at .. HighHeight /\ req.read + 1 <= req.count
    BY <1>1, <1>3 DEF HighHeight
  <2>5. Len(heads) \in Nat /\ Len(heads) <= req.read + 1
    BY <1>1 DEF Walked
  <2>6. ASSUME Kept(req.at, HighHeight)' PROVE Lined'
    <3>1. Lined /\ Kept(req.at, HighHeight)
      BY <1>1, <2>3, <2>6
    <3>2. h <= Height(came) => b = ChainOf[came][h + 1] /\ b # NoBlock
      BY <1>1, <2>4, <3>1, CameHeader
    <3>3. h <= Height(came) => Len(req.heads) = req.read
      <4>1. CASE req.read = 0
        BY <1>1, <4>1
      <4>2. CASE req.read # 0 /\ h <= Height(came)
        <5>1. req.read \in 1 .. AskedFor /\ req.at + req.read - 1 <= Height(came)
          BY <1>1, <4>2
        <5>2. req.read <= Len(req.heads)
          BY <3>1, <5>1 DEF Lined
        <5> QED BY <1>1, <5>2
      <4> QED BY <4>1, <4>2
    <3>4. CASE b = NoBlock
      <4>1. heads = req.heads /\ h > Height(came)
        BY <1>1, <2>4, <3>2, <3>4
      <4>2. \A i \in 1 .. req.read + 1 : req.at + i - 1 <= Height(came) => i \in 1 .. req.read
        BY <1>1, <4>1
      <4> HIDE DEF heads, h, b
      <4> QED BY <1>1, <2>2, <2>3, <3>1, <4>1, <4>2 DEF Lined, InBestChain
    <3>5. CASE b # NoBlock
      <4> DEFINE n == Len(req.heads)
      <4>1. /\ heads = Append(req.heads, b) /\ Len(heads) = n + 1 /\ heads[n + 1] = b
            /\ \A i \in 1 .. n : heads[i] = req.heads[i]
        BY <1>1, <3>5 DEF Walked
      <4>2. InBestChain(b) /\ Height(b) = h
        BY <1>1, <2>4, <3>5, ByHeight
      <4> HIDE DEF heads, b
      <4>3. ASSUME NEW i \in 1 .. req.read + 1, req.at + i - 1 <= Height(came)
            PROVE  i <= Len(heads) /\ heads[i] = ChainOf[came][req.at + i]
        <5>1. CASE i = req.read + 1
          <6>1. h <= Height(came) /\ h + 1 = req.at + i
            BY <1>1, <4>3, <5>1
          <6> QED BY <1>1, <3>2, <3>3, <4>1, <5>1, <6>1
        <5>2. CASE i # req.read + 1
          <6>1. i \in 1 .. AskedFor
            BY <1>1, <5>2
          <6>2. i <= n /\ req.heads[i] = ChainOf[came][req.at + i]
            BY <3>1, <4>3, <6>1 DEF Lined
          <6> QED BY <1>1, <4>1, <5>2, <6>2
        <5> QED BY <5>1, <5>2
      <4>4. ASSUME NEW i \in 1 .. n + 1
            PROVE  /\ InBestChain(heads[i]) /\ Height(heads[i]) \in req.at .. HighHeight
                   /\ req.at + i - 1 > Height(came) => Height(heads[i]) > Height(came)
        <5>1. CASE i = n + 1
          <6>1. heads[i] = b /\ req.at + i - 1 <= h
            BY <1>1, <4>1, <5>1
          <6>2. req.at + i - 1 > Height(came) => h > Height(came)
            BY <1>1, <2>4, <6>1
          <6> QED BY <2>4, <4>2, <6>1, <6>2
        <5>2. CASE i # n + 1
          <6>1. i \in 1 .. n /\ heads[i] = req.heads[i]
            BY <1>1, <4>1, <5>2
          <6> QED BY <3>1, <6>1 DEF Lined
        <5> QED BY <5>1, <5>2
      <4> QED BY <2>2, <2>3, <4>1, <4>3, <4>4 DEF Lined, InBestChain
    <3> QED BY <3>4, <3>5
  <2> HIDE DEF heads
  <2> QED BY <2>2, <2>3, <2>4, <2>5, <2>6 DEF LineInv, Lined
<1> QED BY <1>2, <1>3

LEMMA LineNext ==
  ASSUME IInv, RequestInv, [Next]_vars, req'.kind \in {"header", "headers"}
  PROVE  LineInv'
<1>1. req'.kind \in HeaderKinds
  BY DEF HeaderKinds
<1>2. CASE Ask
  <2>1. /\ req'.heads = <<>> /\ req'.read = 0 /\ req'.count \in Nat
        /\ req'.pc = req'.kind
    BY <1>2, AskFacts
  <2>2. Len(req'.heads) = 0 /\ AskedFor' = 0 /\ 1 .. 0 = {}
    BY <2>1 DEF AskedFor
  <2> QED BY <2>1, <2>2 DEF LineInv
<1>3. CASE OthersStep
  <2>1. UNCHANGED <<req, came>> /\ req.kind \in HeaderKinds /\ LineInv
    BY <1>1, <1>3 DEF OthersStep, RequestInv
  <2>2. AskedFor' = AskedFor /\ HighHeight' = HighHeight
    BY <2>1 DEF AskedFor, HighHeight
  <2>3. ASSUME Kept(req.at, HighHeight)' PROVE Lined'
    <3>1. /\ Kept(req.at, HighHeight)
          /\ \A b : InBestChain(b) /\ Height(b) \in req.at .. HighHeight => InBestChain(b)'
      <4> DEFINE low == req.at
                 high == HighHeight
      <4>1. \A b \in left' : Height(b) \notin low .. high
        BY <2>1, <2>2, <2>3 DEF Kept
      <4>2. left \subseteq left' /\ \A b \in Ancestors(served) : b \in Ancestors(served') \/ b \in left'
        BY <1>3, <2>1 DEF OthersStep
      <4> HIDE DEF low, high
      <4>3. /\ \A b \in left : Height(b) \notin low .. high
            /\ \A b \in Ancestors(served) : Height(b) \in low .. high => b \in Ancestors(served')
        BY <4>1, <4>2
      <4> QED BY <4>3 DEF Kept, InBestChain, low, high
    <3>2. Lined
      BY <2>1, <3>1 DEF LineInv, Lined
    <3> QED BY <2>1, <2>2, <3>1, <3>2 DEF Lined
  <2> QED BY <2>1, <2>2, <2>3 DEF LineInv, Lined
<1>4. CASE BlockRead /\ req.kind \in HeaderKinds
  <2>1. PICK c : Sets(c)
    BY <1>4, ReadGets DEF RequestInv
  <2>2. req.kind \in {"header", "headers"} /\ LineInv
    BY <1>4, <2>1, GetFrame DEF Sets, RequestInv
  <2>3. BlockHeader \/ BlockHeaders \/ HeaderProof \/ HeaderHashes
    <3>1. req.pc \in {"header", "headers", "proof", "hashes", "bad", "missing", "done"}
      BY <2>2 DEF LineInv
    <3> QED BY <1>4, <3>1 DEF BlockRead, TtlByDepth, BlocksStart, BlocksWalk, BlockHeight, BlockStatus,
            BlockTxs, TxStatus, MerkleBlock, MerkleBlockHeader, MerkleBlockHeight
  <2>4. CASE BlockHeader \/ BlockHeaders
    BY <2>2, <2>4, LineHeader, LineHeaders
  <2>5. CASE HeaderProof \/ HeaderHashes
    <3>1. /\ req.pc \in {"proof", "hashes"}
          /\ req'.pc \in {"hashes", "bad", "missing", "done"}
          /\ req'.heads = req.heads /\ req'.read = req.read /\ req'.at = req.at /\ req'.count = req.count
          /\ req'.kind = req.kind /\ UNCHANGED <<served, left, came>>
      <4>1. CASE HeaderProof
        BY <1>4, <4>1, GetFrame DEF HeaderProof, RequestInv
      <4>2. CASE HeaderHashes
        <5>1. \/ \E pc \in {"done", "missing"} : Get([pc |-> pc])
              \/ \E hashes : Get([hashes |-> hashes])
          BY <4>2 DEF HeaderHashes
        <5>2. req.pc = "hashes"
          BY <4>2 DEF HeaderHashes
        <5>3. ASSUME NEW pc \in {"done", "missing"}, Get([pc |-> pc]) PROVE <3>1
          BY <1>4, <5>2, <5>3, GetFrame DEF RequestInv
        <5>4. ASSUME NEW hashes, Get([hashes |-> hashes]) PROVE <3>1
          BY <1>4, <5>2, <5>4, GetFrame DEF RequestInv
        <5> QED BY <5>1, <5>3, <5>4
      <4> QED BY <2>5, <4>1, <4>2
    <3>2. /\ AskedFor' = AskedFor /\ HighHeight' = HighHeight
          /\ Kept(req.at, HighHeight)' => Kept(req.at, HighHeight)
      BY <3>1 DEF AskedFor, HighHeight, Kept
    <3>3. Kept(req.at, HighHeight)' => Lined'
      BY <2>2, <3>1, <3>2 DEF LineInv, Lined, InBestChain
    <3> QED BY <2>2, <3>1, <3>2, <3>3 DEF LineInv, Lined
  <2> QED BY <2>3, <2>4, <2>5
<1> QED BY <1>1, <1>2, <1>3, <1>4, StepKinds

\* The hashes so far, as long as they stay
Hashed ==
  /\ req.cp <= Height(served)
  /\ \A i \in 1 .. Len(req.hashes) : req.hashes[i] = ChainOf[served][i]

LEMMA HashesNext ==
  ASSUME IInv, RequestInv, [Next]_vars, req'.kind \in {"header", "headers"}
  PROVE  HashesInv'
<1>1. req'.kind \in HeaderKinds
  BY DEF HeaderKinds
<1>2. CASE Ask
  <2>1. req'.hashes = <<>> /\ req'.pc \in {"header", "headers"}
    BY <1>2, AskFacts
  <2> QED BY <2>1 DEF HashesInv, Missed
<1>3. CASE OthersStep
  <2>1. UNCHANGED <<req, came>> /\ req.kind \in {"header", "headers"} /\ req.kind \in HeaderKinds
        /\ HashesInv /\ ProofHeight' = ProofHeight
    BY <1>1, <1>3 DEF OthersStep, RequestInv, ProofHeight
  <2>2. req.hashes \in Seq(Blocks) /\ req.cp \in Nat /\ Len(req.hashes) \in Nat
    BY <2>1 DEF RequestInv, FieldsInv
  <2>3. Kept(0, req.cp)' => Kept(0, req.cp)
    BY <1>3, <2>1 DEF OthersStep, Kept
  <2>4. ASSUME Kept(0, req.cp)', Hashed, Len(req.hashes) <= req.cp + 1 PROVE Hashed'
    <3>1. /\ served \in Blocks /\ Height(served) \in Nat
      BY ChainFacts DEF IInv, ChainTypeOK
    <3>2. ASSUME NEW i \in 1 .. req.cp + 1
          PROVE  /\ ChainOf[served'][i] = ChainOf[served][i]
                 /\ i - 1 <= Height(served')
      <4> DEFINE c == ChainOf[served][i]
      <4>1. i \in 1 .. Height(served) + 1 /\ i \in Nat
        BY <2>2, <2>4, <3>1 DEF Hashed
      <4>2. c \in Ancestors(served) /\ Height(c) = i - 1
        BY <3>1, <4>1, ChainFacts
      <4>3. i - 1 \in 0 .. req.cp
        BY <2>2
      <4> HIDE DEF c
      <4>4. c \in Ancestors(served')
        BY <1>3, <2>1, <2>4, <4>2, <4>3 DEF OthersStep, Kept
      <4>5. served' \in Blocks
        BY StepInv DEF IInv, ChainTypeOK
      <4>6. Height(c) \in 0 .. Height(served') /\ ChainOf[served'][Height(c) + 1] = c
        BY <4>4, <4>5, PlaceInChain
      <4>7. i - 1 + 1 = i
        BY <4>1
      <4> QED BY <4>2, <4>6, <4>7 DEF c
    <3>3. req.cp <= Height(served')
      <4> DEFINE k == req.cp + 1
      <4>1. k \in 1 .. req.cp + 1 /\ k - 1 = req.cp
        BY <2>2
      <4> HIDE DEF k
      <4>2. k - 1 <= Height(served')
        BY <3>2, <4>1
      <4> QED BY <4>1, <4>2
    <3>4. \A i \in 1 .. Len(req.hashes) : i \in 1 .. req.cp + 1
      BY <2>2, <2>4
    <3> QED BY <2>1, <2>4, <3>2, <3>3, <3>4 DEF Hashed
  <2>5. Missed' = Missed
    BY <2>1 DEF Missed
  <2> QED BY <2>1, <2>3, <2>4, <2>5 DEF HashesInv, Hashed
<1>4. CASE BlockRead /\ req.kind \in HeaderKinds
  <2>1. PICK c : Sets(c)
    BY <1>4, ReadGets DEF RequestInv
  <2>2. /\ req.kind \in {"header", "headers"} /\ LineInv /\ HashesInv /\ FieldsInv
        /\ UNCHANGED <<served, left>> /\ req'.cp = req.cp /\ req'.at = req.at /\ req'.count = req.count
        /\ ProofHeight' = ProofHeight
    BY <1>4, <2>1, GetFrame DEF Sets, RequestInv, ProofHeight
  <2>3. /\ req.hashes \in Seq(Blocks) /\ req.cp \in Nat /\ Len(req.hashes) \in Nat
        /\ req.at \in Nat /\ req.count \in Nat /\ ProofHeight \in Int
        /\ served \in Blocks /\ Height(served) \in Nat /\ ChainTypeOK
    BY <1>4, <2>2, ChainFacts DEF FieldsInv, ProofHeight, IInv, ChainTypeOK
  <2>4. Kept(0, req.cp)' <=> Kept(0, req.cp)
    BY <2>2 DEF Kept
  <2>5. BlockHeader \/ BlockHeaders \/ HeaderProof \/ HeaderHashes
    <3>1. req.pc \in {"header", "headers", "proof", "hashes", "bad", "missing", "done"}
      BY <2>2 DEF LineInv
    <3> QED BY <1>4, <3>1 DEF BlockRead, TtlByDepth, BlocksStart, BlocksWalk, BlockHeight, BlockStatus,
            BlockTxs, TxStatus, MerkleBlock, MerkleBlockHeader, MerkleBlockHeight
  <2>6. CASE BlockHeader \/ BlockHeaders
    <3>1. req.hashes = <<>>
      BY <2>2, <2>6 DEF BlockHeader, BlockHeaders, HashesInv
    <3>2. PICK d : Get(d) /\ DOMAIN d \subseteq {"pc", "heads", "read"}
                   /\ ("pc" \in DOMAIN d => d.pc \in {"missing", "done", "proof"})
      <4>1. CASE BlockHeader
        BY <4>1 DEF BlockHeader, AfterHeaders
      <4>2. CASE BlockHeaders
        BY <4>2 DEF BlockHeaders, AfterHeaders
      <4> QED BY <2>6, <4>1, <4>2
    <3>3. req'.hashes = req.hashes /\ req'.pc # "hashes"
      BY <1>4, <2>2, <2>6, <3>2, GetFrame DEF BlockHeader, BlockHeaders
    <3> QED BY <3>1, <3>3 DEF HashesInv
  <2>7. CASE HeaderProof
    <3>1. Get([pc |-> IF req.cp < ProofHeight \/ Height(served) < req.cp THEN "bad" ELSE "hashes"])
      BY <2>7 DEF HeaderProof
    <3>2. /\ req'.hashes = req.hashes
          /\ req'.pc = IF req.cp < ProofHeight \/ Height(served) < req.cp THEN "bad" ELSE "hashes"
      BY <1>4, <2>2, <3>1, GetFrame
    <3>3. req.hashes = <<>> /\ Len(<<>>) = 0 /\ 1 .. 0 = {}
      BY <2>2, <2>7 DEF HeaderProof, HashesInv
    <3>4. req'.pc = "hashes" => ProofHeight <= req.cp /\ req.cp <= Height(served) /\ 0 <= req.cp + 1
      BY <2>3, <3>2
    <3>5. req'.pc # "missing"
      BY <3>2
    <3> QED BY <2>2, <3>2, <3>3, <3>4, <3>5 DEF HashesInv, Missed
  <2>8. CASE HeaderHashes
    <3> DEFINE n == Len(req.hashes)
               b == HeaderByHeight(n)
    <3>1. /\ req.pc = "hashes" /\ ProofHeight <= req.cp /\ n <= req.cp + 1
          /\ Kept(0, req.cp) => Hashed
      BY <2>2, <2>8 DEF HeaderHashes, HashesInv, Hashed
    <3>2. CASE n = req.cp + 1
      <4>1. Get([pc |-> "done"])
        BY <2>8, <3>2 DEF HeaderHashes
      <4>2. req'.hashes = req.hashes /\ req'.pc = "done"
        BY <1>4, <2>2, <4>1, GetFrame
      <4> QED BY <2>2, <2>4, <3>1, <3>2, <4>2 DEF HashesInv, Hashed, Missed
    <3>3. CASE n # req.cp + 1 /\ b = NoBlock
      <4>1. Get([pc |-> "missing"])
        BY <2>8, <3>3 DEF HeaderHashes
      <4>2. req'.hashes = req.hashes /\ req'.pc = "missing"
        BY <1>4, <2>2, <4>1, GetFrame
      <4>3. n > Height(served) /\ n <= req.cp
        <5>1. n \in Nat /\ req.cp \in Nat /\ n <= req.cp + 1 /\ n # req.cp + 1
          BY <2>3, <3>1, <3>3
        <5>2. ChainTypeOK /\ HeaderByHeight(n) = NoBlock
          BY <2>3, <3>3
        <5> HIDE DEF n
        <5>3. ~(n <= Height(served)) /\ Height(served) \in Nat
          BY <5>1, <5>2, ByHeight
        <5> QED BY <5>1, <5>3
      <4>4. ~Kept(0, req.cp)
        BY <2>3, <3>1, <4>3 DEF Hashed
      <4> QED BY <2>2, <2>4, <3>1, <4>2, <4>4 DEF HashesInv, Missed
    <3>4. CASE n # req.cp + 1 /\ b # NoBlock
      <4> DEFINE hashes == Append(req.hashes, b)
      <4>1. Get([hashes |-> hashes])
        BY <2>8, <3>4 DEF HeaderHashes
      <4>2. b = ChainOf[served][n + 1] /\ n + 1 <= req.cp + 1
        BY <2>3, <3>1, <3>4, ByHeight
      <4>3. /\ Len(hashes) = n + 1 /\ hashes[n + 1] = b
            /\ \A i \in 1 .. n : hashes[i] = req.hashes[i]
        BY <2>3
      <4> HIDE DEF hashes, b, n
      <4>4. req'.hashes = hashes /\ req'.pc = "hashes"
        BY <1>4, <2>2, <3>1, <4>1, GetFrame
      <4>5. n \in Nat
        BY <2>3 DEF n
      <4>6. Kept(0, req.cp) => Hashed'
        <5> SUFFICES ASSUME Kept(0, req.cp) PROVE Hashed'
          OBVIOUS
        <5>1. \A i \in 1 .. n + 1 : hashes[i] = ChainOf[served][i]
          <6>1. \A i \in 1 .. n : hashes[i] = ChainOf[served][i]
            BY <3>1, <4>3 DEF Hashed, n
          <6> QED BY <4>2, <4>3, <4>5, <6>1
        <5>2. req.cp <= Height(served)
          BY <3>1 DEF Hashed
        <5> QED BY <2>2, <4>3, <4>4, <5>1, <5>2 DEF Hashed
      <4> QED BY <2>2, <2>4, <3>1, <4>2, <4>3, <4>4, <4>6 DEF HashesInv, Hashed, Missed
    <3> QED BY <3>2, <3>3, <3>4
  <2> QED BY <2>5, <2>6, <2>7, <2>8
<1> QED BY <1>1, <1>2, <1>3, <1>4, StepKinds

-----------------------------------------------------------------------------
(* Theorems                                                                 *)

LEMMA RequestNext ==
  ASSUME IInv, RequestInv, [Next]_vars
  PROVE  RequestInv'
<1>1. FieldsInv' /\ CameInv'
  BY FieldsNext, CameNext DEF RequestInv
<1>2. WalkedInv' /\ (req'.kind = "blocks" => FoundUnlessLeft')
  BY WalkedNext DEF WalkedInv
<1>3. MerkledInv' /\ (req'.kind = "merkleblock" => FoundUnlessLeft')
  BY MerkledNext DEF MerkledInv
<1>4. LineInv' /\ HashesInv'
  BY LineNext, HashesNext DEF LineInv, HashesInv
<1>5. req'.kind \notin {"blocks", "merkleblock"} => FoundUnlessLeft'
  BY DEF FoundUnlessLeft
<1> QED BY <1>1, <1>2, <1>3, <1>4, <1>5 DEF RequestInv

LEMMA RequestInvariance == Spec => [](IInv /\ RequestInv)
<1>1. Init => RequestInv
  <2>1. Init => req.kind \notin HeaderKinds
    BY DEF Init, Idle, HeaderKinds
  <2> QED BY <2>1 DEF RequestInv, FieldsInv, CameInv, WalkedInv, MerkledInv, LineInv, HashesInv,
              FoundUnlessLeft, HeaderKinds
<1>2. IInv /\ RequestInv /\ [Next]_vars => RequestInv'
  BY RequestNext
<1> QED BY <1>1, <1>2, Invariance, PTL DEF Spec

(* blocks() and get_merkleblock_proof(): whatever is published between two  *)
(* reads, /blocks answers with the newest blocks of one chain, and "not     *)
(* found" means that there was nothing or that a reorganisation took the    *)
(* block away which the request had come to.                                *)
THEOREM FoundOrReorganised == Spec => []FoundUnlessLeft
<1>1. RequestInv => FoundUnlessLeft
  BY DEF RequestInv
<1> QED BY <1>1, RequestInvariance, PTL

\* A part of a sequence, element by element
LEMMA PartOf ==
  ASSUME NEW S, NEW t \in Seq(S), NEW m \in Nat, NEW n \in Nat, n <= Len(t)
  PROVE  /\ SubSeq(t, m + 1, n) \in Seq(S)
         /\ Len(SubSeq(t, m + 1, n)) = IF m < n THEN n - m ELSE 0
         /\ \A i \in 1 .. Len(SubSeq(t, m + 1, n)) : SubSeq(t, m + 1, n)[i] = t[m + i]
<1>1. Len(t) \in Nat
  BY LenProperties
<1> QED BY <1>1

LEMMA LineHeld ==
  ASSUME IInv, RequestInv
  PROVE  HeadersInLine
<1> DEFINE high == req.at + req.count - 1
           top == Height(served)
           n == IF high < top THEN high + 1 ELSE top + 1
<1> SUFFICES ASSUME req.kind \in {"header", "headers"}, req.pc = "done", Kept(req.at, high),
                    high <= Height(came) \/ served = came
             PROVE  req.heads = SubSeq(ChainOf[served], req.at + 1, n)
  BY DEF HeadersInLine
<1>1. /\ req.at \in Nat /\ req.count \in Nat /\ req.heads \in Seq(Blocks) /\ came \in Blocks
      /\ ChainTypeOK /\ served \in Blocks /\ Len(req.heads) \in Nat
  <2>1. req.kind \in HeaderKinds
    BY DEF HeaderKinds
  <2> QED BY <2>1 DEF RequestInv, FieldsInv, CameInv, IInv, ChainTypeOK
<1>2. /\ Len(req.heads) <= req.count
      /\ \A i \in 1 .. req.count : req.at + i - 1 <= Height(came) =>
           i <= Len(req.heads) /\ req.heads[i] = ChainOf[came][req.at + i]
      /\ \A i \in 1 .. Len(req.heads) :
           /\ InBestChain(req.heads[i])
           /\ req.at + i - 1 > Height(came) => Height(req.heads[i]) > Height(came)
  <2>1. /\ LineInv /\ high = HighHeight
    BY DEF RequestInv, HighHeight
  <2>2. AskedFor = req.count /\ Len(req.heads) <= AskedFor /\ Kept(req.at, HighHeight)
    BY <2>1 DEF LineInv
  <2> HIDE DEF high
  <2> QED BY <2>1, <2>2 DEF LineInv
<1>3. /\ top \in Nat /\ Height(came) \in Nat /\ ChainOf[served] \in Seq(Blocks)
      /\ Len(ChainOf[served]) = top + 1 /\ high \in Int /\ high = req.at + req.count - 1
  BY <1>1, ChainFacts
<1>4. \A i \in 1 .. Len(req.heads) :
        /\ Height(req.heads[i]) \in Nat /\ Height(req.heads[i]) <= top
        /\ ChainOf[served][Height(req.heads[i]) + 1] = req.heads[i]
  BY <1>1, <1>2, OnBestChain
<1>5. \A i \in 1 .. Len(req.heads) :
        req.at + i - 1 <= Height(came) => Height(req.heads[i]) = req.at + i - 1
  <2> SUFFICES ASSUME NEW i \in 1 .. Len(req.heads), req.at + i - 1 <= Height(came)
               PROVE  Height(req.heads[i]) = req.at + i - 1
    OBVIOUS
  <2> DEFINE k == req.at + i
  <2>1. i \in 1 .. req.count /\ k \in 1 .. Height(came) + 1 /\ k - 1 = req.at + i - 1
    <3>1. req.at \in Nat /\ Height(came) \in Nat /\ req.count \in Nat /\ Len(req.heads) \in Nat
      BY <1>1, <1>3
    <3>2. i \in Nat /\ 1 <= i /\ i <= Len(req.heads)
      BY <3>1
    <3>3. i \in 1 .. req.count
      BY <1>2, <3>1, <3>2
    <3>4. k \in Nat /\ 1 <= k /\ k - 1 = req.at + i - 1
      BY <3>1, <3>2
    <3>5. k <= Height(came) + 1
      BY <3>1, <3>2
    <3> HIDE DEF k
    <3> QED BY <3>1, <3>3, <3>4, <3>5
  <2>2. req.heads[i] = ChainOf[came][k]
    BY <1>2, <2>1
  <2> HIDE DEF k
  <2>3. Height(ChainOf[came][k]) = k - 1
    BY <1>1, <2>1, ChainFacts
  <2> QED BY <2>1, <2>2, <2>3
<1> HIDE DEF high, top
\* The answer has the heights up to its last one ...
<1>6. \A i \in 1 .. Len(req.heads) : req.at + i - 1 <= Height(came) /\ req.at + i - 1 <= top
  <2> TAKE i \in 1 .. Len(req.heads)
  <2>1. CASE high <= Height(came)
    <3>1. req.at + i - 1 <= Height(came)
      <4>1. /\ req.at \in Nat /\ req.count \in Nat /\ Height(came) \in Nat
            /\ high = req.at + req.count - 1 /\ Len(req.heads) \in Nat
        BY <1>1, <1>3
      <4>2. i \in Nat /\ i <= Len(req.heads) /\ Len(req.heads) <= req.count
        BY <1>2, <4>1
      <4>3. i <= req.count
        BY <4>1, <4>2
      <4> QED BY <2>1, <4>1, <4>2, <4>3
    <3> QED BY <1>4, <1>5, <3>1
  <2>2. CASE served = came
    <3>1. top = Height(came)
      BY <2>2 DEF top
    <3>2. req.at + i - 1 > Height(came) => Height(req.heads[i]) > Height(came)
      BY <1>2
    <3>3. Height(req.heads[i]) \in Nat /\ Height(req.heads[i]) <= top
      BY <1>4
    <3> QED BY <1>1, <1>3, <3>1, <3>2, <3>3
  <2> QED BY <2>1, <2>2
\* ... and none is missing that the list has.
<1>7. \A i \in 1 .. req.count : req.at + i - 1 <= top => i <= Len(req.heads)
  <2> TAKE i \in 1 .. req.count
  <2>1. CASE high <= Height(came)
    BY <1>1, <1>2, <1>3, <2>1
  <2>2. CASE served = came
    BY <1>2, <2>2 DEF top
  <2> QED BY <2>1, <2>2
<1>8. \A i \in 1 .. Len(req.heads) : req.heads[i] = ChainOf[served][req.at + i]
  <2> TAKE i \in 1 .. Len(req.heads)
  <2>1. Height(req.heads[i]) = req.at + i - 1
    BY <1>5, <1>6
  <2>2. Height(req.heads[i]) + 1 = req.at + i
    BY <1>1, <2>1
  <2> QED BY <1>4, <2>2
<1>9. Len(req.heads) = IF req.at < n THEN n - req.at ELSE 0
  <2>1. CASE req.at < n
    <3> DEFINE k == n - req.at
    <3>1. k \in 1 .. req.count /\ req.at + k - 1 <= top
      <4>1. /\ req.at \in Nat /\ req.count \in Nat /\ top \in Nat
            /\ high = req.at + req.count - 1
        BY <1>1, <1>3
      <4>2. n \in Int /\ n <= high + 1 /\ n <= top + 1
        BY <4>1
      <4> HIDE DEF n
      <4> QED BY <2>1, <4>1, <4>2
    <3>2. k <= Len(req.heads)
      BY <1>7, <3>1
    <3>3. CASE Len(req.heads) > k
      <4> DEFINE j == Len(req.heads)
      <4>1. j \in 1 .. Len(req.heads)
        BY <1>1, <3>1, <3>3
      <4>2. req.at + j - 1 <= top
        BY <1>6, <4>1
      <4>3. req.at \in Nat /\ j \in Nat /\ top \in Nat /\ high \in Int
        BY <1>1, <1>3
      <4>4. j <= req.count /\ high = req.at + req.count - 1 /\ req.count \in Nat
        BY <1>1, <1>2, <1>3
      <4>5. j > n - req.at
        BY <3>3
      <4> HIDE DEF j
      <4>6. req.at + j - 1 <= high
        BY <4>3, <4>4
      <4>7. req.at + j - 1 < n
        BY <4>2, <4>3, <4>6
      <4>8. n \in Int
        BY <4>3
      <4> HIDE DEF n
      <4>9. FALSE
        BY <4>3, <4>5, <4>7, <4>8
      <4> QED BY <4>9
    <3> QED BY <1>1, <1>3, <2>1, <3>1, <3>2, <3>3
  <2>2. CASE ~(req.at < n)
    <3>1. CASE Len(req.heads) > 0
      <4>1. 1 \in 1 .. Len(req.heads) /\ req.at + 1 - 1 = req.at
        BY <1>1, <3>1
      <4>2. req.at + 1 - 1 <= top
        BY <1>6, <4>1
      <4> QED BY <1>1, <1>2, <1>3, <2>2, <3>1, <4>1, <4>2
    <3> QED BY <1>1, <2>2, <3>1
  <2> QED BY <2>1, <2>2
<1>10. n \in Nat /\ n <= Len(ChainOf[served])
  BY <1>1, <1>3
<1> HIDE DEF n
<1> DEFINE u == SubSeq(ChainOf[served], req.at + 1, n)
<1>11. /\ u \in Seq(Blocks) /\ Len(u) = IF req.at < n THEN n - req.at ELSE 0
       /\ \A i \in 1 .. Len(u) : u[i] = ChainOf[served][req.at + i]
  <2> DEFINE t == ChainOf[served]
             m == req.at
  <2>1. t \in Seq(Blocks) /\ m \in Nat
    BY <1>1, <1>3
  <2> HIDE DEF t, m
  <2>2. /\ SubSeq(t, m + 1, n) \in Seq(Blocks)
        /\ Len(SubSeq(t, m + 1, n)) = IF m < n THEN n - m ELSE 0
        /\ \A i \in 1 .. Len(SubSeq(t, m + 1, n)) : SubSeq(t, m + 1, n)[i] = t[m + i]
    <3>1. n <= Len(t) /\ n \in Nat
      BY <1>10 DEF t
    <3> QED BY <2>1, <3>1, PartOf
  <2> QED BY <2>2 DEF t, m
<1> HIDE DEF u
<1>12. Len(req.heads) = Len(u) /\ \A i \in 1 .. Len(u) : req.heads[i] = u[i]
  BY <1>8, <1>9, <1>11
<1>13. req.heads = u
  BY <1>1, <1>11, <1>12, SeqEqual
<1> QED BY <1>13 DEF u

(* blockchain.block.header and .headers: the headers are those of one chain *)
(* at the heights asked for, in their order, unless one of these heights is *)
(* reorganised or first reached while they are read.                        *)
THEOREM HeadersAreInLine == Spec => []HeadersInLine
<1>1. IInv /\ RequestInv => HeadersInLine
  BY LineHeld
<1> QED BY <1>1, RequestInvariance, PTL

LEMMA ProofHeld ==
  ASSUME IInv, RequestInv
  PROVE  ProofOfOneChain
<1> SUFFICES ASSUME req.kind \in {"header", "headers"}, Kept(0, req.cp)
             PROVE  /\ req.pc = "done" /\ req.hashes # <<>> =>
                         /\ req.hashes = SubSeq(ChainOf[served], 1, req.cp + 1)
                         /\ ProofHeight <= req.cp
                         /\ req.kind = "header" => req.heads[1] = req.hashes[ProofHeight + 1]
                    /\ Missed => req.hashes = <<>>
  BY DEF ProofOfOneChain
<1>1. /\ HashesInv /\ LineInv /\ req.cp \in Nat /\ req.at \in Nat /\ req.hashes \in Seq(Blocks)
      /\ req.heads \in Seq(Blocks) /\ (req.kind = "header" => req.count = 1)
      /\ served \in Blocks /\ ChainTypeOK
  <2>1. req.kind \in HeaderKinds
    BY DEF HeaderKinds
  <2> QED BY <2>1 DEF RequestInv, FieldsInv, IInv, ChainTypeOK
<1>2. Missed => req.hashes = <<>>
  BY <1>1 DEF HashesInv
<1>3. ASSUME req.pc = "done", req.hashes # <<>>
      PROVE  /\ req.hashes = SubSeq(ChainOf[served], 1, req.cp + 1)
             /\ ProofHeight <= req.cp
             /\ req.kind = "header" => req.heads[1] = req.hashes[ProofHeight + 1]
  <2>1. /\ ProofHeight <= req.cp /\ Len(req.hashes) = req.cp + 1 /\ req.cp <= Height(served)
        /\ \A i \in 1 .. req.cp + 1 : req.hashes[i] = ChainOf[served][i]
    BY <1>1, <1>3 DEF HashesInv
  <2>2. /\ ChainOf[served] \in Seq(Blocks) /\ Height(served) \in Nat
        /\ Len(ChainOf[served]) = Height(served) + 1
    BY <1>1, ChainFacts
  <2>3. req.hashes = SubSeq(ChainOf[served], 1, req.cp + 1)
    <3> DEFINE t == ChainOf[served]
               n == req.cp + 1
               u == SubSeq(t, 1, n)
    <3>1. t \in Seq(Blocks) /\ n \in Nat /\ n <= Len(t)
      BY <1>1, <2>1, <2>2
    <3>2. Len(req.hashes) = n /\ \A i \in 1 .. n : req.hashes[i] = t[i]
      BY <2>1
    <3> HIDE DEF t, n
    <3>3. u \in Seq(Blocks) /\ Len(u) = n /\ \A i \in 1 .. n : u[i] = t[i]
      BY <3>1
    <3> HIDE DEF u
    <3>4. req.hashes = u
      BY <1>1, <3>2, <3>3, SeqEqual
    <3> QED BY <3>4 DEF u, t, n
  <2>4. ASSUME req.kind = "header"
        PROVE  req.heads[1] = req.hashes[ProofHeight + 1]
    <3>1. /\ ProofHeight = req.at /\ HighHeight = req.at /\ req.at <= req.cp
      BY <1>1, <2>1, <2>4 DEF ProofHeight, HighHeight
    <3>2. Kept(req.at, HighHeight)
      BY <1>1, <3>1 DEF Kept
    <3>3. Len(req.heads) = 1
      BY <1>1, <1>3, <2>4 DEF LineInv, AskedFor
    <3>4. InBestChain(req.heads[1]) /\ Height(req.heads[1]) \in req.at .. req.at
      BY <1>1, <3>1, <3>2, <3>3 DEF LineInv
    <3>5. Height(req.heads[1]) = req.at
      BY <1>1, <3>4
    <3>6. ChainOf[served][req.at + 1] = req.heads[1]
      BY <1>1, <3>4, <3>5, OnBestChain
    <3>7. req.at + 1 \in 1 .. req.cp + 1
      BY <1>1, <3>1
    <3>8. req.hashes[req.at + 1] = ChainOf[served][req.at + 1]
      BY <2>1, <3>7
    <3> QED BY <3>1, <3>6, <3>8
  <2> QED BY <2>1, <2>3, <2>4
<1> QED BY <1>2, <1>3

(* get_header_merkle_proof(): the leaves of the proof are the chain up to   *)
(* cp_height, the header proved among them, unless a block up to there was  *)
(* given up while the hashes were read; only then does it fail between two  *)
(* hashes.                                                                  *)
THEOREM ProofsAreOfOneChain == Spec => []ProofOfOneChain
<1>1. IInv /\ RequestInv => ProofOfOneChain
  BY ProofHeld
<1> QED BY <1>1, RequestInvariance, PTL

-----------------------------------------------------------------------------
(* The listings: rows, newest first                                         *)

Row == [height : Nat, tag : Nat, id : Nat]

IsTop(r, rows) == r \in rows /\ \A s \in rows \ {r} : Below(s, r)

IdsOf(seq) == {seq[i].id : i \in DOMAIN seq}

\* Newest first, and nothing twice
Sorted(seq) ==
  \A i, j \in DOMAIN seq : i < j => Below(seq[j], seq[i]) /\ seq[j].id # seq[i].id

\* No page continued from what came up again.
Steady(listed, again) ==
  \A i \in DOMAIN listed : i % PageSize = 0 => ~Again(again, listed[i].id)

\* The latest row of something that did not come up again
Settled(r, all, again) == ~Again(again, r.id) => IsTop(r, RowsWith(all, r.id))

\* What has been listed, and read for the page
Collected(seq, all, again) ==
  /\ seq \in Seq(all)
  /\ \A i \in DOMAIN seq : Settled(seq[i], all, again)

\* Pages that the client has got, whole ones
Whole(listed, last) ==
  /\ \E k \in 0 .. Len(listed) : Len(listed) = PageSize * k
  /\ last = IF listed = <<>> THEN Nothing ELSE listed[Len(listed)].id

-----------------------------------------------------------------------------
(* The history of a script                                                  *)

TxsAgain == UNION {RowsOf(b) : b \in fresh}

\* What a client should see: confirmed since it came, with a row, and not come up again
WantedTxs ==
  {x \in Txs : /\ \E b \in Ancestors(came) \ left : x \in TxsOf[b]
               /\ TagsOf[x] # {} /\ ~Again(TxsAgain, x)}

\* It has seen that, or will.
TxsAhead(listed, last, all, wanted) ==
  \A x \in wanted :
    \/ x \in IdsOf(listed) \/ last = Nothing
    \/ \A t \in RowsWith(all, x) : \E u \in RowsWith(all, last) : Below(t, u)

\* The page so far and the rows to come, one for each transaction
TxsScan(listed, page, rows, all, again, wanted) ==
  /\ Collected(page, all, again) /\ Len(page) <= PageSize /\ rows \subseteq all
  /\ \A r \in rows : Settled(r, all, again) /\ \A s \in rows : r.id = s.id => r = s
  /\ page # <<>> => \A r \in rows : Below(r, page[Len(page)])
  /\ Steady(listed, again) =>
       /\ Sorted(listed \o page)
       /\ \A r \in rows : \A i \in DOMAIN (listed \o page) :
            Below(r, (listed \o page)[i]) /\ r.id # (listed \o page)[i].id
  /\ wanted \subseteq IdsOf(listed \o page) \cup {r.id : r \in rows}

TxsInv ==
  req.kind = "txs" =>
    /\ Collected(req.listed, TxHistoryRows, TxsAgain)
    /\ Steady(req.listed, TxsAgain) => Sorted(req.listed)
    /\ req.pc # "done" =>
         Whole(req.listed, req.last) /\ TxsAhead(req.listed, req.last, TxHistoryRows, WantedTxs)
    /\ req.pc = "scan" =>
         /\ TxsScan(req.listed, req.page, req.rows, TxHistoryRows, TxsAgain, WantedTxs)
         /\ Len(req.page) < PageSize /\ req.rows # {}
    /\ req.pc = "done" => WantedTxs \subseteq IdsOf(req.listed)

-----------------------------------------------------------------------------
(* The colors                                                               *)

ColorsAgain == UNION {ColorRowsOf(b) : b \in fresh}

\* What a client should see: the latest rows that there were when it came and that
\* were not followed by later ones
WantedColors ==
  LET old == UNION {ColorRowsOf(b) : b \in indexed \ fresh}
  IN {r \in old : ~Again(ColorsAgain, r.id) /\ r = Top(RowsWith(old, r.id))}

\* The first row of a page that continues another is that of the color last seen.
ColorsScan(listed, page, rows, skip, top, all, again, wanted) ==
  /\ Collected(page, all, again) /\ Len(page) <= PageSize /\ rows \subseteq all
  /\ Steady(listed, again) =>
       /\ Sorted(listed \o page)
       /\ skip => page = <<>> /\ listed # <<>> /\ IsTop(listed[Len(listed)], rows)
       /\ ~skip => \A r \in rows : \A i \in DOMAIN (listed \o page) : Below(r, (listed \o page)[i])
       /\ \A r \in wanted : r.height <= top => r \in rows \/ r.id \in IdsOf(listed \o page)

ColorsAhead(listed, top, again, wanted) ==
  Steady(listed, again) /\ listed # <<>> =>
    \A r \in wanted : r.height <= top => Below(r, listed[Len(listed)]) \/ r.id \in IdsOf(listed)

ColorsInv ==
  req.kind = "colors" =>
    /\ Collected(req.listed, ColorIdRows, ColorsAgain)
    /\ Steady(req.listed, ColorsAgain) => Sorted(req.listed)
    /\ req.pc # "done" =>
         Whole(req.listed, req.last) /\ ColorsAhead(req.listed, req.top, ColorsAgain, WantedColors)
    /\ req.pc = "colors" =>
         /\ req.from \in Int
         /\ IF req.listed = <<>> THEN req.top = req.from
            ELSE Steady(req.listed, ColorsAgain) => req.from = req.listed[Len(req.listed)].height
    /\ req.pc = "scan" =>
         /\ ColorsScan(req.listed, req.page, req.rows, req.skip, req.top, ColorIdRows, ColorsAgain, WantedColors)
         /\ Len(req.page) < PageSize /\ req.rows # {}
    /\ req.pc = "done" =>
         \A r \in WantedColors :
           Steady(req.listed, ColorsAgain) /\ r.height <= req.top => r.id \in IdsOf(req.listed)

-----------------------------------------------------------------------------

ListingFields ==
  Listing =>
    /\ {"kind", "pc", "last", "from", "top", "rows", "skip", "page", "listed"} \subseteq DOMAIN req
    /\ req.kind = "txs" => req.pc # "colors"
    /\ req.skip \in BOOLEAN

\* What has been indexed, and given up, since a request came
SinceInv ==
  /\ IsFiniteSet(indexed) /\ fresh \subseteq indexed
  /\ ~Listing => fresh = {}
  /\ req = Idle => left = {}
  /\ Listing => came \in Blocks /\ Ancestors(came) \ left \subseteq Ancestors(served)

PagesInv == SinceInv /\ ListingFields /\ TxsInv /\ ColorsInv

-----------------------------------------------------------------------------
(* The order of rows                                                        *)

LEMMA BelowOrder ==
  ASSUME NEW r \in Row, NEW s \in Row, NEW t \in Row
  PROVE  /\ ~Below(r, r)
         /\ Below(r, s) /\ Below(s, t) => Below(r, t)
         /\ r = s \/ Below(r, s) \/ Below(s, r)
         /\ ~(Below(r, s) /\ Below(s, r))
<1>1. /\ r.height \in Nat /\ r.tag \in Nat /\ r.id \in Nat
      /\ s.height \in Nat /\ s.tag \in Nat /\ s.id \in Nat
      /\ t.height \in Nat /\ t.tag \in Nat /\ t.id \in Nat
  BY DEF Row
<1>2. r.height = s.height /\ r.tag = s.tag /\ r.id = s.id => r = s
  BY DEF Row
<1> QED BY <1>1, <1>2 DEF Below

\* A finite set of rows has a highest one: a smallest set without one would be one
\* row more than a set that has one.
LEMMA TopOf ==
  ASSUME NEW rows, rows \subseteq Row, IsFiniteSet(rows), rows # {}
  PROVE  IsTop(Top(rows), rows)
<1> DEFINE topless == {T \in SUBSET rows : T # {} /\ \A r \in T : ~IsTop(r, T)}
<1>1. topless \subseteq FiniteSubsetsOf(rows)
  BY FS_Subset DEF FiniteSubsetsOf
<1>2. topless = {}
  <2> SUFFICES ASSUME topless # {} PROVE FALSE
    OBVIOUS
  <2>1. PICK T \in topless : \A U \in topless : <<U, T>> \notin StrictSubsetOrdering(rows)
    <3> HIDE DEF topless
    <3> QED BY <1>1, FS_StrictSubsetOrderingWellFounded, WFMin, Zenon
  <2>2. PICK x \in T : TRUE
    BY <2>1
  <2>3. x \in Row /\ T \subseteq Row
    BY <2>1
  <2> DEFINE U == T \ {x}
  <2>4. <<U, T>> \in StrictSubsetOrdering(rows)
    BY <2>1, <2>2 DEF StrictSubsetOrdering
  <2>5. CASE U = {}
    <3>1. T = {x}
      BY <2>2, <2>5
    <3>2. IsTop(x, T)
      BY <3>1 DEF IsTop
    <3> QED BY <2>1, <2>2, <3>2
  <2>6. CASE U # {}
    <3>1. PICK m \in U : IsTop(m, U)
      BY <2>1, <2>4, <2>6
    <3>2. m \in Row /\ m \in T /\ m # x /\ \A s \in U \ {m} : Below(s, m) /\ s \in Row
      BY <2>3, <3>1 DEF IsTop
    <3>3. CASE Below(x, m)
      <4>1. IsTop(m, T)
        BY <3>2, <3>3 DEF IsTop
      <4> QED BY <2>1, <3>2, <4>1
    <3>4. CASE Below(m, x)
      <4>1. \A s \in U \ {m} : Below(s, x)
        BY <2>3, <3>2, <3>4, BelowOrder
      <4>2. IsTop(x, T)
        BY <2>2, <3>2, <3>4, <4>1 DEF IsTop
      <4> QED BY <2>1, <2>2, <4>2
    <3> QED BY <2>3, <3>2, <3>3, <3>4, BelowOrder
  <2> QED BY <2>5, <2>6
<1>3. \E r \in rows : IsTop(r, rows)
  BY <1>2
<1> QED BY <1>3 DEF Top, IsTop

LEMMA OneTop ==
  ASSUME NEW rows, rows \subseteq Row, NEW r, IsTop(r, rows)
  PROVE  Top(rows) = r /\ IsTop(Top(rows), rows)
<1>1. \E x \in rows : \A s \in rows \ {x} : Below(s, x)
  BY DEF IsTop
<1>2. Top(rows) \in rows /\ \A s \in rows \ {Top(rows)} : Below(s, Top(rows))
  BY <1>1 DEF Top
<1>3. r \in Row /\ Top(rows) \in Row
  BY <1>2 DEF IsTop
<1> QED BY <1>2, <1>3, BelowOrder DEF IsTop

-----------------------------------------------------------------------------
(* The rows of blocks                                                       *)

\* The range of a function on a finite set
LEMMA FiniteImage ==
  ASSUME NEW S, IsFiniteSet(S), NEW f, DOMAIN f = S
  PROVE  IsFiniteSet(Range(f))
<1>1. [x \in S |-> f[x]] \in Surjection(S, Range(f))
  BY DEF Surjection, Range
<1> QED BY <1>1, FS_Surjection

LEMMA HistoryRowsOfBlock ==
  ASSUME NEW b \in Blocks
  PROVE  /\ RowsOf(b) \subseteq Row /\ IsFiniteSet(RowsOf(b))
         /\ \A r : r \in RowsOf(b) <=>
              r \in Row /\ r.height = Height(b) /\ r.id \in TxsOf[b] /\ r.tag \in TagsOf[r.id]
<1>1. TxsOf[b] \subseteq Txs /\ Txs \subseteq Nat /\ \A x \in TxsOf[b] : TagsOf[x] \subseteq Nat
  BY ServedChainAssumption, PagesAssumption
<1>2. Height(b) \in Nat
  BY ChainFacts
<1>3. ASSUME NEW r
      PROVE  r \in RowsOf(b) <=>
               r \in Row /\ r.height = Height(b) /\ r.id \in TxsOf[b] /\ r.tag \in TagsOf[r.id]
  <2>1. r \in RowsOf(b) <=> \E x \in TxsOf[b] : r \in [height : {Height(b)}, tag : TagsOf[x], id : {x}]
    BY DEF RowsOf
  <2> QED BY <1>1, <1>2, <2>1 DEF Row
<1>4. IsFiniteSet(RowsOf(b))
  <2> DEFINE part(x) == [height : {Height(b)}, tag : TagsOf[x], id : {x}]
             parts == [x \in TxsOf[b] |-> part(x)]
  <2>1. ASSUME NEW x \in TxsOf[b] PROVE IsFiniteSet(part(x))
    <3> DEFINE f == [t \in TagsOf[x] |-> [height |-> Height(b), tag |-> t, id |-> x]]
    <3>1. IsFiniteSet(TagsOf[x])
      BY <1>1, PagesAssumption
    <3>2. IsFiniteSet(Range(f))
      <4>1. DOMAIN f = TagsOf[x]
        OBVIOUS
      <4> HIDE DEF f
      <4> QED BY <3>1, <4>1, FiniteImage
    <3>3. part(x) = Range(f)
      <4>1. ASSUME NEW r \in part(x) PROVE r \in Range(f)
        <5>1. r.tag \in TagsOf[x] /\ r = [height |-> Height(b), tag |-> r.tag, id |-> x]
          OBVIOUS
        <5> QED BY <5>1 DEF Range
      <4>2. ASSUME NEW t \in TagsOf[x] PROVE f[t] \in part(x)
        OBVIOUS
      <4> QED BY <4>1, <4>2 DEF Range
    <3> QED BY <3>2, <3>3
  <2>2. IsFiniteSet(Range(parts))
    <3>1. DOMAIN parts = TxsOf[b] /\ IsFiniteSet(TxsOf[b])
      BY PagesAssumption
    <3> HIDE DEF parts
    <3> QED BY <3>1, FiniteImage
  <2>3. RowsOf(b) = UNION Range(parts)
    BY DEF RowsOf, Range
  <2>4. \A T \in Range(parts) : IsFiniteSet(T)
    BY <2>1 DEF Range
  <2> HIDE DEF parts
  <2> QED BY <2>2, <2>3, <2>4, FS_UNION
<1> QED BY <1>3, <1>4

LEMMA ColorRowsOfBlock ==
  ASSUME NEW b \in Blocks
  PROVE  /\ ColorRowsOf(b) \subseteq Row /\ IsFiniteSet(ColorRowsOf(b))
         /\ \A r \in ColorRowsOf(b) : r.height = Height(b) /\ r.tag = 0
<1>1. TxsOf[b] \subseteq Txs /\ Colors \subseteq Nat /\ \A x \in TxsOf[b] : ColorsOf[x] \subseteq Colors
  BY ServedChainAssumption, PagesAssumption
<1>2. Height(b) \in Nat
  BY ChainFacts
<1> DEFINE ids == UNION {ColorsOf[x] : x \in TxsOf[b]}
           f == [c \in ids |-> [height |-> Height(b), tag |-> 0, id |-> c]]
           colors == [x \in TxsOf[b] |-> ColorsOf[x]]
<1>3. ids \subseteq Nat
  BY <1>1
<1>4. IsFiniteSet(ids)
  <2>1. IsFiniteSet(Range(colors))
    <3>1. DOMAIN colors = TxsOf[b] /\ IsFiniteSet(TxsOf[b])
      BY PagesAssumption
    <3> HIDE DEF colors
    <3> QED BY <3>1, FiniteImage
  <2>2. \A T \in Range(colors) : IsFiniteSet(T)
    BY <1>1, PagesAssumption DEF Range
  <2>3. ids = UNION Range(colors)
    BY DEF Range
  <2> HIDE DEF colors, ids
  <2> QED BY <2>1, <2>2, <2>3, FS_UNION
<1>5. ColorRowsOf(b) = [height : {Height(b)}, tag : {0}, id : ids]
  BY DEF ColorRowsOf
<1> HIDE DEF ids
<1>6. \A r : r \in ColorRowsOf(b) <=> \E c \in ids : r = [height |-> Height(b), tag |-> 0, id |-> c]
  BY <1>5
<1>7. ColorRowsOf(b) = Range(f)
  BY <1>6 DEF Range
<1>8. IsFiniteSet(Range(f))
  <2>1. DOMAIN f = ids
    OBVIOUS
  <2> HIDE DEF f
  <2> QED BY <1>4, <2>1, FiniteImage
<1>9. \A c \in ids : [height |-> Height(b), tag |-> 0, id |-> c] \in Row
  BY <1>2, <1>3 DEF Row
<1>10. ColorRowsOf(b) \subseteq Row /\ \A r \in ColorRowsOf(b) : r.height = Height(b) /\ r.tag = 0
  BY <1>6, <1>9
<1> QED BY <1>7, <1>8, <1>10

\* The rows of a finite set of blocks
LEMMA RowsFinite ==
  ASSUME NEW bs, bs \subseteq Blocks, IsFiniteSet(bs)
  PROVE  /\ UNION {RowsOf(b) : b \in bs} \subseteq Row /\ IsFiniteSet(UNION {RowsOf(b) : b \in bs})
         /\ UNION {ColorRowsOf(b) : b \in bs} \subseteq Row
         /\ IsFiniteSet(UNION {ColorRowsOf(b) : b \in bs})
<1> DEFINE txs == [b \in bs |-> RowsOf(b)]
           colors == [b \in bs |-> ColorRowsOf(b)]
<1>1. DOMAIN txs = bs /\ DOMAIN colors = bs
  OBVIOUS
<1>2. /\ UNION {RowsOf(b) : b \in bs} = UNION Range(txs)
      /\ UNION {ColorRowsOf(b) : b \in bs} = UNION Range(colors)
  BY DEF Range
<1>3. /\ \A T \in Range(txs) : IsFiniteSet(T)
      /\ \A T \in Range(colors) : IsFiniteSet(T)
  BY HistoryRowsOfBlock, ColorRowsOfBlock DEF Range
<1>4. UNION {RowsOf(b) : b \in bs} \subseteq Row /\ UNION {ColorRowsOf(b) : b \in bs} \subseteq Row
  BY HistoryRowsOfBlock, ColorRowsOfBlock
<1> HIDE DEF txs, colors
<1>5. IsFiniteSet(Range(txs)) /\ IsFiniteSet(Range(colors))
  BY <1>1, FiniteImage
<1> QED BY <1>2, <1>3, <1>4, <1>5, FS_UNION

\* A chain is finite.
LEMMA FiniteChain ==
  ASSUME NEW b \in Blocks
  PROVE  IsFiniteSet(Ancestors(b)) /\ Ancestors(b) \subseteq Blocks
<1>1. ChainOf[b] \in Seq(Blocks) /\ Len(ChainOf[b]) \in Nat /\ DOMAIN ChainOf[b] = 1 .. Len(ChainOf[b])
  BY ChainAssumption, LenProperties
<1>2. IsFiniteSet(1 .. Len(ChainOf[b]))
  BY <1>1, FS_Interval
<1>3. IsFiniteSet(Ancestors(b))
  BY <1>1, <1>2, FiniteImage DEF Ancestors
<1> QED BY <1>3, ChainFacts

-----------------------------------------------------------------------------
(* Lists of rows                                                            *)

LEMMA Concat ==
  ASSUME NEW S, NEW s \in Seq(S), NEW t \in Seq(S)
  PROVE  /\ s \o t \in Seq(S) /\ Len(s \o t) = Len(s) + Len(t)
         /\ Len(s) \in Nat /\ Len(t) \in Nat /\ DOMAIN s = 1 .. Len(s) /\ DOMAIN t = 1 .. Len(t)
         /\ DOMAIN (s \o t) = 1 .. Len(s) + Len(t)
         /\ \A i \in 1 .. Len(s) : (s \o t)[i] = s[i] /\ s[i] \in S
         /\ \A i \in 1 .. Len(t) : (s \o t)[Len(s) + i] = t[i] /\ t[i] \in S
         /\ \A i \in 1 .. Len(s) + Len(t) :
              i <= Len(s) \/ (i - Len(s) \in 1 .. Len(t) /\ (s \o t)[i] = t[i - Len(s)])
OBVIOUS

LEMMA WithoutMore ==
  ASSUME NEW S, NEW s \in Seq(S)
  PROVE  s \o <<>> = s
OBVIOUS

LEMMA OneMore ==
  ASSUME NEW S, NEW s \in Seq(S), NEW t \in Seq(S), NEW r \in S
  PROVE  /\ s \o Append(t, r) = Append(s \o t, r)
         /\ Append(t, r) \in Seq(S) /\ Len(Append(t, r)) = Len(t) + 1
         /\ Append(t, r)[Len(t) + 1] = r /\ Append(t, r) # <<>>
         /\ DOMAIN Append(t, r) = 1 .. Len(t) + 1
         /\ \A i \in 1 .. Len(t) : Append(t, r)[i] = t[i]
<1>1. s \o Append(t, r) = Append(s \o t, r)
  BY AppendIsConcat, ConcatAssociative
<1> QED BY <1>1

LEMMA LongerSeq ==
  ASSUME NEW S, NEW T, S \subseteq T, NEW s \in Seq(S)
  PROVE  s \in Seq(T)
OBVIOUS

LEMMA IdsConcat ==
  ASSUME NEW S, NEW s \in Seq(S), NEW t \in Seq(S)
  PROVE  IdsOf(s \o t) = IdsOf(s) \cup IdsOf(t)
<1> DEFINE both == s \o t
<1>0. /\ DOMAIN both = 1 .. Len(s) + Len(t) /\ DOMAIN s = 1 .. Len(s) /\ DOMAIN t = 1 .. Len(t)
  BY Concat
<1> HIDE DEF both
<1>1. \A x : x \in IdsOf(both) <=> \E i \in 1 .. Len(s) + Len(t) : x = both[i].id
  BY <1>0 DEF IdsOf
<1>2. \A x : x \in IdsOf(s) <=> \E i \in 1 .. Len(s) : x = s[i].id
  BY <1>0 DEF IdsOf
<1>3. \A x : x \in IdsOf(t) <=> \E i \in 1 .. Len(t) : x = t[i].id
  BY <1>0 DEF IdsOf
<1> USE DEF both
<1>4. ASSUME NEW i \in 1 .. Len(t) PROVE Len(s) + i \in 1 .. Len(s) + Len(t)
  BY Concat
<1>5. ASSUME NEW i \in 1 .. Len(s) PROVE i \in 1 .. Len(s) + Len(t)
  BY Concat
<1>6. ASSUME NEW x \in IdsOf(s \o t) PROVE x \in IdsOf(s) \cup IdsOf(t)
  <2>1. PICK i \in 1 .. Len(s) + Len(t) : x = (s \o t)[i].id
    BY <1>1
  <2>2. CASE i <= Len(s)
    <3>1. i \in 1 .. Len(s) /\ (s \o t)[i] = s[i]
      BY <2>2, Concat
    <3> QED BY <1>2, <2>1, <3>1
  <2>3. CASE ~(i <= Len(s))
    BY <1>3, <2>1, <2>3, Concat
  <2> QED BY <2>2, <2>3
<1>7. ASSUME NEW x \in IdsOf(s) PROVE x \in IdsOf(s \o t)
  <2>1. PICK i \in 1 .. Len(s) : x = s[i].id
    BY <1>2, <1>7
  <2>2. (s \o t)[i] = s[i]
    BY Concat
  <2>3. i \in 1 .. Len(s) + Len(t)
    BY <1>5
  <2>4. x = both[i].id
    BY <2>1, <2>2
  <2> HIDE DEF both
  <2>5. x \in IdsOf(both)
    BY <1>1, <2>3, <2>4
  <2> QED BY <2>5 DEF both
<1>8. ASSUME NEW x \in IdsOf(t) PROVE x \in IdsOf(s \o t)
  <2>1. PICK i \in 1 .. Len(t) : x = t[i].id
    BY <1>3, <1>8
  <2>2. (s \o t)[Len(s) + i] = t[i]
    BY Concat
  <2>3. Len(s) + i \in 1 .. Len(s) + Len(t)
    BY <1>4
  <2>4. x = both[Len(s) + i].id
    BY <2>1, <2>2
  <2> HIDE DEF both
  <2>5. x \in IdsOf(both)
    BY <1>1, <2>3, <2>4
  <2> QED BY <2>5 DEF both
<1> QED BY <1>6, <1>7, <1>8

LEMMA IdsAppend ==
  ASSUME NEW S, NEW s \in Seq(S), NEW r \in S
  PROVE  IdsOf(Append(s, r)) = IdsOf(s) \cup {r.id}
<1>1. /\ Len(s) \in Nat /\ DOMAIN s = 1 .. Len(s) /\ DOMAIN Append(s, r) = 1 .. Len(s) + 1
      /\ Append(s, r)[Len(s) + 1] = r /\ \A i \in 1 .. Len(s) : Append(s, r)[i] = s[i]
  OBVIOUS
<1> QED BY <1>1 DEF IdsOf

LEMMA SortedAppend ==
  ASSUME NEW s \in Seq(Row), NEW r \in Row, Sorted(s),
         \A i \in DOMAIN s : Below(r, s[i]) /\ r.id # s[i].id
  PROVE  Sorted(Append(s, r))
<1>1. /\ Len(s) \in Nat /\ DOMAIN s = 1 .. Len(s) /\ DOMAIN Append(s, r) = 1 .. Len(s) + 1
      /\ Append(s, r)[Len(s) + 1] = r /\ \A i \in 1 .. Len(s) : Append(s, r)[i] = s[i]
  OBVIOUS
<1> SUFFICES ASSUME NEW i \in 1 .. Len(s) + 1, NEW j \in 1 .. Len(s) + 1, i < j
             PROVE  Below(Append(s, r)[j], Append(s, r)[i]) /\ Append(s, r)[j].id # Append(s, r)[i].id
  BY <1>1 DEF Sorted
<1>2. i \in 1 .. Len(s) /\ Append(s, r)[i] = s[i]
  BY <1>1
<1>3. CASE j = Len(s) + 1
  BY <1>1, <1>2, <1>3
<1>4. CASE j # Len(s) + 1
  <2>1. j \in 1 .. Len(s)
    BY <1>1, <1>4
  <2> QED BY <1>1, <1>2, <2>1 DEF Sorted
<1> QED BY <1>3, <1>4

\* The last of a sorted list is the lowest.
LEMMA BelowLast ==
  ASSUME NEW s \in Seq(Row), Sorted(s), s # <<>>, NEW r \in Row, Below(r, s[Len(s)])
  PROVE  \A i \in DOMAIN s : Below(r, s[i])
<1> SUFFICES ASSUME NEW i \in DOMAIN s PROVE Below(r, s[i])
  OBVIOUS
<1>1. Len(s) \in DOMAIN s /\ DOMAIN s = 1 .. Len(s) /\ Len(s) \in Nat /\ s[i] \in Row /\ s[Len(s)] \in Row
  OBVIOUS
<1>2. CASE i = Len(s)
  BY <1>2
<1>3. CASE i < Len(s)
  <2>1. Below(s[Len(s)], s[i])
    BY <1>1, <1>3 DEF Sorted
  <2> QED BY <1>1, <2>1, BelowOrder
<1> QED BY <1>1, <1>2, <1>3

LEMMA SteadyBefore ==
  ASSUME NEW S, NEW s \in Seq(S), NEW t \in Seq(S), NEW again, Steady(s \o t, again)
  PROVE  Steady(s, again)
<1> SUFFICES ASSUME NEW i \in DOMAIN s, i % PageSize = 0 PROVE ~Again(again, s[i].id)
  BY DEF Steady
<1>1. i \in DOMAIN (s \o t) /\ (s \o t)[i] = s[i]
  BY Concat
<1> QED BY <1>1 DEF Steady

LEMMA CollectedConcat ==
  ASSUME NEW all, NEW again, NEW s, NEW t, Collected(s, all, again), Collected(t, all, again)
  PROVE  Collected(s \o t, all, again)
<1>1. s \in Seq(all) /\ t \in Seq(all)
  BY DEF Collected
<1> SUFFICES ASSUME NEW i \in DOMAIN (s \o t) PROVE Settled((s \o t)[i], all, again)
  BY <1>1, Concat DEF Collected
<1>2. CASE i <= Len(s)
  <2>1. i \in DOMAIN s /\ (s \o t)[i] = s[i]
    BY <1>1, <1>2, Concat
  <2> QED BY <2>1 DEF Collected
<1>3. CASE ~(i <= Len(s))
  <2>1. i - Len(s) \in DOMAIN t /\ (s \o t)[i] = t[i - Len(s)]
    BY <1>1, <1>3, Concat
  <2> QED BY <2>1 DEF Collected
<1> QED BY <1>2, <1>3

LEMMA CollectedAppend ==
  ASSUME NEW all, NEW again, NEW s, Collected(s, all, again), NEW r \in all, Settled(r, all, again)
  PROVE  Collected(Append(s, r), all, again)
<1>1. s \in Seq(all)
  BY DEF Collected
<1>2. /\ Append(s, r) \in Seq(all) /\ Len(s) \in Nat /\ DOMAIN s = 1 .. Len(s)
      /\ DOMAIN Append(s, r) = 1 .. Len(s) + 1
      /\ Append(s, r)[Len(s) + 1] = r /\ \A i \in 1 .. Len(s) : Append(s, r)[i] = s[i]
  BY <1>1
<1> SUFFICES ASSUME NEW i \in DOMAIN Append(s, r) PROVE Settled(Append(s, r)[i], all, again)
  BY <1>2 DEF Collected
<1>3. CASE i = Len(s) + 1
  BY <1>2, <1>3
<1>4. CASE i # Len(s) + 1
  <2>1. i \in DOMAIN s /\ Append(s, r)[i] = s[i]
    BY <1>2, <1>4
  <2> QED BY <2>1 DEF Collected
<1> QED BY <1>3, <1>4

-----------------------------------------------------------------------------
(* More rows: of blocks that have been indexed since.                       *)

Grown(all, again, all2, again2) ==
  all \subseteq all2 /\ again \subseteq again2 /\ all2 \subseteq all \cup again2

LEMMA SameRows ==
  ASSUME NEW all, NEW again, NEW all2, NEW again2, Grown(all, again, all2, again2),
         NEW id, ~Again(again2, id)
  PROVE  ~Again(again, id) /\ RowsWith(all2, id) = RowsWith(all, id)
BY DEF Grown, Again, RowsWith

LEMMA SteadyGrows ==
  ASSUME NEW all, NEW again, NEW all2, NEW again2, Grown(all, again, all2, again2),
         NEW listed, Steady(listed, again2)
  PROVE  Steady(listed, again)
BY SameRows DEF Steady

LEMMA SettledGrows ==
  ASSUME NEW all, NEW again, NEW all2, NEW again2, Grown(all, again, all2, again2),
         NEW r, Settled(r, all, again)
  PROVE  Settled(r, all2, again2)
BY SameRows DEF Settled

LEMMA CollectedGrows ==
  ASSUME NEW all, NEW again, NEW all2, NEW again2, Grown(all, again, all2, again2),
         NEW s, Collected(s, all, again)
  PROVE  Collected(s, all2, again2)
<1>1. s \in Seq(all) /\ all \subseteq all2
  BY DEF Collected, Grown
<1>2. s \in Seq(all2)
  BY <1>1, LongerSeq
<1> QED BY <1>2, SettledGrows DEF Collected

LEMMA TxsAheadGrows ==
  ASSUME NEW all, NEW again, NEW all2, NEW again2, Grown(all, again, all2, again2),
         NEW listed, NEW last, NEW wanted, TxsAhead(listed, last, all, wanted),
         NEW wanted2, wanted2 \subseteq wanted, \A x \in wanted2 : ~Again(again2, x)
  PROVE  TxsAhead(listed, last, all2, wanted2)
<1> SUFFICES ASSUME NEW x \in wanted2, x \notin IdsOf(listed), last # Nothing,
                    NEW t \in RowsWith(all2, x)
             PROVE  \E u \in RowsWith(all2, last) : Below(t, u)
  BY DEF TxsAhead
<1>1. t \in RowsWith(all, x)
  BY SameRows
<1>2. PICK u \in RowsWith(all, last) : Below(t, u)
  BY <1>1 DEF TxsAhead
<1>3. u \in RowsWith(all2, last)
  BY DEF RowsWith, Grown
<1> QED BY <1>2, <1>3

LEMMA TxsScanGrows ==
  ASSUME NEW all, NEW again, NEW all2, NEW again2, Grown(all, again, all2, again2),
         NEW listed, NEW page, NEW rows, NEW wanted,
         TxsScan(listed, page, rows, all, again, wanted), NEW wanted2, wanted2 \subseteq wanted
  PROVE  TxsScan(listed, page, rows, all2, again2, wanted2)
<1>1. Collected(page, all2, again2)
  BY CollectedGrows DEF TxsScan
<1>2. rows \subseteq all2 /\ \A r \in rows : Settled(r, all2, again2)
  BY SettledGrows DEF TxsScan, Grown
<1>3. Steady(listed, again2) => Steady(listed, again)
  BY SteadyGrows
<1> QED BY <1>1, <1>2, <1>3 DEF TxsScan

LEMMA ColorsAheadGrows ==
  ASSUME NEW all, NEW again, NEW all2, NEW again2, Grown(all, again, all2, again2),
         NEW listed, NEW top, NEW wanted, ColorsAhead(listed, top, again, wanted),
         NEW wanted2, wanted2 \subseteq wanted
  PROVE  ColorsAhead(listed, top, again2, wanted2)
BY SteadyGrows DEF ColorsAhead

LEMMA ColorsScanGrows ==
  ASSUME NEW all, NEW again, NEW all2, NEW again2, Grown(all, again, all2, again2),
         NEW listed, NEW page, NEW rows, NEW skip, NEW top, NEW wanted,
         ColorsScan(listed, page, rows, skip, top, all, again, wanted),
         NEW wanted2, wanted2 \subseteq wanted
  PROVE  ColorsScan(listed, page, rows, skip, top, all2, again2, wanted2)
<1>1. Collected(page, all2, again2)
  BY CollectedGrows DEF ColorsScan
<1>2. rows \subseteq all2
  BY DEF ColorsScan, Grown
<1>3. Steady(listed, again2) => Steady(listed, again)
  BY SteadyGrows
<1> QED BY <1>1, <1>2, <1>3 DEF ColorsScan

-----------------------------------------------------------------------------
(* Pages of a history                                                       *)

\* The rows of one transaction have a top.
LEMMA TopWith ==
  ASSUME NEW all, all \subseteq Row, IsFiniteSet(all), NEW id, RowsWith(all, id) # {}
  PROVE  /\ IsTop(Top(RowsWith(all, id)), RowsWith(all, id))
         /\ Top(RowsWith(all, id)) \in all /\ Top(RowsWith(all, id)).id = id
         /\ RowsWith(all, id) \subseteq Row
<1>1. RowsWith(all, id) \subseteq all
  BY DEF RowsWith
<1>2. IsFiniteSet(RowsWith(all, id))
  BY <1>1, FS_Subset
<1>3. IsTop(Top(RowsWith(all, id)), RowsWith(all, id))
  BY <1>1, <1>2, TopOf
<1> QED BY <1>1, <1>3 DEF IsTop, RowsWith

\* What history_iter_scan_reverse() and the filters behind it leave: the top rows below
\* that of the transaction last seen
LEMMA AfterLast ==
  ASSUME NEW all, all \subseteq Row, IsFiniteSet(all), NEW last, NEW r
  PROVE  r \in AfterLastSeen(all, last) <=>
           /\ r \in all /\ IsTop(r, RowsWith(all, r.id))
           /\ last # Nothing => \E u \in RowsWith(all, last) : IsTop(u, RowsWith(all, last)) /\ Below(r, u)
<1> DEFINE firsts == {Top(RowsWith(all, s.id)) : s \in all}
<1>1. ASSUME NEW f PROVE f \in firsts <=> f \in all /\ IsTop(f, RowsWith(all, f.id))
  <2>1. ASSUME f \in firsts PROVE f \in all /\ IsTop(f, RowsWith(all, f.id))
    <3>1. PICK s \in all : f = Top(RowsWith(all, s.id))
      BY <2>1
    <3>2. RowsWith(all, s.id) # {}
      BY DEF RowsWith
    <3> QED BY <3>1, <3>2, TopWith
  <2>2. ASSUME f \in all, IsTop(f, RowsWith(all, f.id)) PROVE f \in firsts
    <3>1. RowsWith(all, f.id) \subseteq Row
      BY DEF RowsWith
    <3>2. Top(RowsWith(all, f.id)) = f
      BY <2>2, <3>1, OneTop
    <3> QED BY <2>2, <3>2
  <2> QED BY <2>1, <2>2
<1>2. \A u : u \in RowsWith(firsts, last) <=> u \in RowsWith(all, last) /\ IsTop(u, RowsWith(all, last))
  <2> HIDE DEF firsts
  <2> QED BY <1>1 DEF RowsWith
<1>3. AfterLastSeen(all, last) =
        IF last = Nothing THEN firsts
        ELSE {s \in firsts : \E seen \in RowsWith(firsts, last) : Below(s, seen)}
  BY DEF AfterLastSeen
<1> HIDE DEF firsts
<1> QED BY <1>1, <1>2, <1>3

\* The last thing seen is a cursor.
LEMMA WholePages ==
  ASSUME NEW all, all \subseteq Row, NEW listed \in Seq(all), NEW last, Whole(listed, last)
  PROVE  /\ Len(listed) % PageSize = 0
         /\ listed # <<>> => last # Nothing /\ Len(listed) \in DOMAIN listed /\ last = listed[Len(listed)].id
<1>1. PICK k \in 0 .. Len(listed) : Len(listed) = PageSize * k
  BY DEF Whole
<1>2. Len(listed) \in Nat /\ PageSize \in Nat \ {0} /\ k \in Nat
  BY PagesAssumption
<1>3. Len(listed) % PageSize = 0
  <2>1. (PageSize * k) % PageSize = 0
    BY <1>2
  <2> QED BY <1>1, <2>1
<1>4. ASSUME listed # <<>>
      PROVE  last # Nothing /\ Len(listed) \in DOMAIN listed /\ last = listed[Len(listed)].id
  <2>1. Len(listed) \in DOMAIN listed /\ listed[Len(listed)] \in Row
    BY <1>4
  <2> QED BY <1>4, <2>1 DEF Whole, Row, Nothing
<1> QED BY <1>3, <1>4

LEMMA OnePageMore ==
  ASSUME NEW S, NEW listed \in Seq(S), NEW page \in Seq(S), NEW last, Whole(listed, last), Len(page) = PageSize
  PROVE  Whole(listed \o page, page[PageSize].id)
<1>1. PICK k \in 0 .. Len(listed) : Len(listed) = PageSize * k
  BY DEF Whole
<1>2. Len(listed) \in Nat /\ PageSize \in Nat /\ PageSize > 0 /\ k \in Nat /\ k <= Len(listed)
  BY PagesAssumption
<1>3. PageSize * (k + 1) = PageSize * k + PageSize
  BY <1>2
<1>4. /\ Len(listed \o page) = Len(listed) + PageSize
      /\ (listed \o page)[Len(listed) + PageSize] = page[PageSize]
  <2>1. PageSize \in 1 .. Len(page)
    BY <1>2
  <2>2. /\ Len(listed \o page) = Len(listed) + Len(page)
        /\ \A i \in 1 .. Len(page) : (listed \o page)[Len(listed) + i] = page[i]
    BY Concat
  <2> QED BY <2>1, <2>2
<1>5. listed \o page # <<>>
  BY <1>2, <1>4
<1>6. k + 1 \in 0 .. Len(listed \o page) /\ Len(listed \o page) = PageSize * (k + 1)
  BY <1>1, <1>2, <1>3, <1>4
<1> QED BY <1>4, <1>5, <1>6 DEF Whole

\* A page begins.
LEMMA TxsOpen ==
  ASSUME NEW all, NEW again, all \subseteq Row, IsFiniteSet(all), NEW listed, NEW last, NEW wanted,
         Collected(listed, all, again), Whole(listed, last),
         Steady(listed, again) => Sorted(listed),
         TxsAhead(listed, last, all, wanted), \A x \in wanted : RowsWith(all, x) # {}
  PROVE  TxsScan(listed, <<>>, AfterLastSeen(all, last), all, again, wanted)
<1> DEFINE rows == AfterLastSeen(all, last)
<1>1. /\ listed \in Seq(all) /\ listed \o <<>> = listed /\ DOMAIN listed = 1 .. Len(listed) /\ Len(listed) \in Nat
      /\ \A i \in DOMAIN listed : listed[i] \in all
  BY WithoutMore DEF Collected
<1>2. \A r \in rows : /\ r \in all /\ IsTop(r, RowsWith(all, r.id))
                      /\ last # Nothing => \E u \in RowsWith(all, last) : IsTop(u, RowsWith(all, last)) /\ Below(r, u)
  BY AfterLast
<1>3. ASSUME NEW r \in rows, NEW s \in rows, r.id = s.id PROVE r = s
  <2>1. RowsWith(all, r.id) \subseteq Row
    BY DEF RowsWith
  <2>2. IsTop(r, RowsWith(all, r.id)) /\ IsTop(s, RowsWith(all, r.id))
    BY <1>2, <1>3
  <2> QED BY <2>1, <2>2, OneTop
<1>4. ASSUME Steady(listed, again), NEW r \in rows, NEW i \in DOMAIN listed
      PROVE  Below(r, listed[i]) /\ r.id # listed[i].id
  <2> DEFINE n == Len(listed)
  <2>1. listed # <<>> /\ n \in DOMAIN listed /\ n % PageSize = 0 /\ last = listed[n].id /\ last # Nothing
    <3>1. listed # <<>>
      BY <1>4
    <3> QED BY <1>1, <3>1, WholePages
  <2>2. IsTop(listed[n], RowsWith(all, last))
    <3>1. ~Again(again, listed[n].id)
      BY <1>4, <2>1 DEF Steady
    <3>2. Settled(listed[n], all, again)
      BY <2>1 DEF Collected
    <3> HIDE DEF n
    <3>3. IsTop(listed[n], RowsWith(all, listed[n].id))
      BY <3>1, <3>2 DEF Settled
    <3> QED BY <2>1, <3>3
  <2>4. PICK u \in RowsWith(all, last) : IsTop(u, RowsWith(all, last)) /\ Below(r, u)
    BY <1>2, <2>1
  <2>5. u = listed[n]
    <3> DEFINE same == RowsWith(all, last)
               v == listed[n]
    <3>1. same \subseteq Row
      BY DEF RowsWith
    <3>2. IsTop(u, same) /\ IsTop(v, same)
      BY <2>2, <2>4
    <3> HIDE DEF same, v
    <3>3. u = v
      BY <3>1, <3>2, OneTop
    <3> QED BY <3>3 DEF v
  <2>6. r \in Row /\ listed[i] \in Row /\ listed \in Seq(Row)
    BY <1>1, <1>2, LongerSeq
  <2>7. Below(r, listed[i])
    BY <1>4, <2>1, <2>4, <2>5, <2>6, BelowLast
  <2>8. r.id # listed[i].id
    <3> SUFFICES ASSUME r.id = listed[i].id PROVE FALSE
      OBVIOUS
    <3>1. listed[i] \in RowsWith(all, r.id) /\ IsTop(r, RowsWith(all, r.id))
      BY <1>1, <1>2 DEF RowsWith
    <3>2. listed[i] = r \/ Below(listed[i], r)
      BY <3>1 DEF IsTop
    <3> QED BY <2>6, <2>7, <3>2, BelowOrder
  <2> QED BY <2>7, <2>8
<1>5. ASSUME NEW x \in wanted, x \notin IdsOf(listed)
      PROVE  \E r \in rows : r.id = x
  <2> DEFINE t == Top(RowsWith(all, x))
  <2>1. IsTop(t, RowsWith(all, x)) /\ t \in all /\ t.id = x /\ t \in RowsWith(all, x)
    BY TopWith DEF IsTop
  <2>2. CASE last = Nothing
    BY <2>1, <2>2, AfterLast
  <2>3. CASE last # Nothing
    <3>1. PICK u \in RowsWith(all, last) : Below(t, u)
      BY <1>5, <2>1, <2>3 DEF TxsAhead
    <3> DEFINE v == Top(RowsWith(all, last))
    <3>2. IsTop(v, RowsWith(all, last)) /\ v \in RowsWith(all, last) /\ v \in Row /\ u \in Row /\ t \in Row
      BY <2>1, <3>1, TopWith DEF IsTop
    <3>3. Below(t, v)
      BY <3>1, <3>2, BelowOrder DEF IsTop
    <3> HIDE DEF t, v
    <3> QED BY <2>1, <3>2, <3>3, AfterLast
  <2> QED BY <2>2, <2>3
<1>6. Collected(<<>>, all, again) /\ Len(<<>>) = 0 /\ 0 <= PageSize
  BY PagesAssumption DEF Collected
<1>7. rows \subseteq all /\ \A r \in rows : Settled(r, all, again)
  BY <1>2 DEF Settled
<1>8. wanted \subseteq IdsOf(listed) \cup {r.id : r \in rows}
  BY <1>5
<1> HIDE DEF rows
<1> QED BY <1>1, <1>3, <1>4, <1>6, <1>7, <1>8 DEF TxsScan, rows

\* A row is read: it is added, unless the served chain does not confirm it.
LEMMA TxsRow ==
  ASSUME NEW all, NEW again, all \subseteq Row, IsFiniteSet(all), NEW listed, NEW page, NEW rows, NEW wanted,
         Collected(listed, all, again),
         TxsScan(listed, page, rows, all, again, wanted), rows # {}, Len(page) < PageSize,
         NEW confirmed \in BOOLEAN, Top(rows).id \in wanted => confirmed
  PROVE  TxsScan(listed, IF confirmed THEN Append(page, Top(rows)) ELSE page, rows \ {Top(rows)},
                 all, again, wanted)
<1> DEFINE r == Top(rows)
           rest == rows \ {r}
<1>1. rows \subseteq all /\ rows \subseteq Row /\ IsFiniteSet(rows)
  BY FS_Subset DEF TxsScan
<1>2. IsTop(r, rows)
  BY <1>1, TopOf
<1>3. r \in rows /\ r \in all /\ r \in Row /\ \A s \in rest : Below(s, r) /\ s \in Row /\ s \in rows
  BY <1>1, <1>2 DEF IsTop
<1>4. \A s \in rest : s.id # r.id
  BY <1>3 DEF TxsScan
<1>5. page \in Seq(all) /\ listed \in Seq(all) /\ Len(page) \in Nat
  BY DEF TxsScan, Collected
<1> HIDE DEF r
<1>6. rest \subseteq all /\ \A s \in rest : Settled(s, all, again) /\ \A u \in rest : s.id = u.id => s = u
  BY DEF TxsScan
<1>7. CASE confirmed
  <2> DEFINE p == Append(page, r)
             both == listed \o page
  <2>1. /\ p \in Seq(all) /\ Len(p) = Len(page) + 1 /\ p[Len(page) + 1] = r /\ p # <<>>
        /\ listed \o p = Append(both, r)
    BY <1>3, <1>5, OneMore
  <2>2. both \in Seq(all) /\ both \in Seq(Row) /\ Len(both) \in Nat
    BY <1>5, Concat, LongerSeq
  <2>3. Settled(r, all, again)
    BY <1>3 DEF TxsScan
  <2>4. Collected(p, all, again)
    BY <1>3, <2>3, CollectedAppend DEF TxsScan
  <2>5. /\ DOMAIN both = 1 .. Len(both) /\ DOMAIN Append(both, r) = 1 .. Len(both) + 1
        /\ Append(both, r)[Len(both) + 1] = r
        /\ \A i \in 1 .. Len(both) : Append(both, r)[i] = both[i]
    BY <2>2, <1>3
  <2> HIDE DEF p, both
  <2>6. ASSUME Steady(listed, again)
        PROVE  /\ Sorted(listed \o p)
               /\ \A s \in rest : \A i \in DOMAIN (listed \o p) :
                    Below(s, (listed \o p)[i]) /\ s.id # (listed \o p)[i].id
    <3>1. /\ Sorted(both)
          /\ \A s \in rows : \A i \in DOMAIN both : Below(s, both[i]) /\ s.id # both[i].id
      BY <2>6 DEF TxsScan, both
    <3>2. Sorted(Append(both, r))
      BY <1>3, <2>2, <3>1, SortedAppend
    <3>3. ASSUME NEW s \in rest, NEW i \in DOMAIN Append(both, r)
          PROVE  Below(s, Append(both, r)[i]) /\ s.id # Append(both, r)[i].id
      <4>1. CASE i = Len(both) + 1
        BY <1>3, <1>4, <2>5, <4>1
      <4>2. CASE i # Len(both) + 1
        <5>1. i \in DOMAIN both /\ Append(both, r)[i] = both[i]
          BY <2>2, <2>5, <4>2
        <5> QED BY <1>3, <3>1, <5>1
      <4> QED BY <4>1, <4>2
    <3> QED BY <2>1, <3>2, <3>3
  <2>7. wanted \subseteq IdsOf(listed \o p) \cup {s.id : s \in rest}
    <3>1. IdsOf(listed \o p) = IdsOf(both) \cup {r.id}
      BY <1>3, <2>1, <2>2, IdsAppend
    <3>2. wanted \subseteq IdsOf(both) \cup {s.id : s \in rows}
      BY DEF TxsScan, both
    <3> QED BY <3>1, <3>2
  <2>8. \A s \in rest : Below(s, p[Len(p)])
    BY <1>3, <2>1
  <2>9. Len(p) <= PageSize
    BY <1>5, <2>1, PagesAssumption
  <2>10. TxsScan(listed, p, rest, all, again, wanted)
    BY <1>6, <2>4, <2>6, <2>7, <2>8, <2>9 DEF TxsScan
  <2> QED BY <1>7, <2>10 DEF r, p
<1>8. CASE ~confirmed
  <2>1. wanted \subseteq IdsOf(listed \o page) \cup {s.id : s \in rest}
    <3>1. r.id \notin wanted
      BY <1>8 DEF r
    <3> QED BY <3>1 DEF TxsScan
  <2> QED BY <1>6, <1>8, <2>1 DEF TxsScan, r
<1> QED BY <1>7, <1>8

\* The page is full.
LEMMA TxsFull ==
  ASSUME NEW all, NEW again, all \subseteq Row, NEW listed, NEW page, NEW rows, NEW wanted, NEW last,
         Collected(listed, all, again), Whole(listed, last),
         TxsScan(listed, page, rows, all, again, wanted), Len(page) = PageSize,
         \A x \in wanted : ~Again(again, x)
  PROVE  /\ Collected(listed \o page, all, again)
         /\ Steady(listed \o page, again) => Sorted(listed \o page)
         /\ Whole(listed \o page, page[PageSize].id)
         /\ TxsAhead(listed \o page, page[PageSize].id, all, wanted)
<1>1. page \in Seq(all) /\ listed \in Seq(all) /\ Collected(page, all, again)
  BY DEF TxsScan, Collected
<1>2. PageSize \in Nat \ {0}
  BY PagesAssumption
<1>3. Collected(listed \o page, all, again)
  BY <1>1, CollectedConcat
<1>4. Steady(listed \o page, again) => Sorted(listed \o page)
  BY <1>1, SteadyBefore DEF TxsScan
<1>5. page[PageSize] \in all /\ page # <<>>
  <2>1. PageSize \in DOMAIN page
    BY <1>1, <1>2
  <2>2. page # <<>>
    BY <1>1, <1>2
  <2> QED BY <1>1, <2>1, <2>2
<1>6. Whole(listed \o page, page[PageSize].id)
  BY <1>1, OnePageMore
<1>7. ASSUME NEW x \in wanted, x \notin IdsOf(listed \o page), NEW t \in RowsWith(all, x)
      PROVE  \E u \in RowsWith(all, page[PageSize].id) : Below(t, u)
  <2>1. PICK r \in rows : r.id = x
    BY <1>7 DEF TxsScan
  <2>2. Below(r, page[PageSize]) /\ r \in all /\ IsTop(r, RowsWith(all, x))
    BY <1>5, <2>1 DEF TxsScan, Settled
  <2>3. t \in Row /\ r \in Row /\ page[PageSize] \in Row
    BY <1>5, <2>2 DEF RowsWith
  <2>4. Below(t, page[PageSize])
    BY <2>2, <2>3, BelowOrder DEF IsTop
  <2>5. page[PageSize] \in RowsWith(all, page[PageSize].id)
    BY <1>5 DEF RowsWith
  <2> QED BY <2>4, <2>5
<1> QED BY <1>3, <1>4, <1>6, <1>7 DEF TxsAhead

\* There is nothing more.
LEMMA TxsDone ==
  ASSUME NEW all, NEW again, NEW listed, NEW page, NEW wanted,
         Collected(listed, all, again), TxsScan(listed, page, {}, all, again, wanted)
  PROVE  /\ Collected(listed \o page, all, again)
         /\ Steady(listed \o page, again) => Sorted(listed \o page)
         /\ wanted \subseteq IdsOf(listed \o page)
<1>1. page \in Seq(all) /\ listed \in Seq(all) /\ Collected(page, all, again)
  BY DEF TxsScan, Collected
<1> QED BY <1>1, CollectedConcat, SteadyBefore DEF TxsScan

-----------------------------------------------------------------------------
(* Pages of colors                                                          *)

\* The row of a color that is not below its latest height is its latest row.
LEMMA LatestRow ==
  ASSUME NEW all, all \subseteq Row, IsFiniteSet(all), \A s \in all : s.tag = 0, NEW r \in all,
         Top(RowsWith(all, r.id)).height <= r.height
  PROVE  IsTop(r, RowsWith(all, r.id))
<1> DEFINE t == Top(RowsWith(all, r.id))
<1>1. RowsWith(all, r.id) # {} /\ r \in RowsWith(all, r.id)
  BY DEF RowsWith
<1>2. IsTop(t, RowsWith(all, r.id)) /\ t \in all /\ t.id = r.id
  BY <1>1, TopWith
<1>3. t \in Row /\ r \in Row /\ t.tag = 0 /\ r.tag = 0 /\ t.height <= r.height
  BY <1>2
<1> HIDE DEF t
<1>4. r = t \/ Below(r, t)
  BY <1>1, <1>2 DEF IsTop
<1>5. ~Below(r, t)
  BY <1>2, <1>3 DEF Below, Row
<1> QED BY <1>2, <1>4, <1>5

LEMMA LatestHeightOf ==
  ASSUME NEW all, all \subseteq Row, NEW r, IsTop(r, RowsWith(all, r.id))
  PROVE  RowsWith(all, r.id) # {} /\ Top(RowsWith(all, r.id)) = r
<1>1. RowsWith(all, r.id) \subseteq Row
  BY DEF RowsWith
<1> QED BY <1>1, OneTop DEF IsTop

\* A row that is below all that have been listed, and the latest of its color, has
\* not been listed.
LEMMA NotListed ==
  ASSUME NEW all, all \subseteq Row, NEW r \in all, IsTop(r, RowsWith(all, r.id)),
         NEW s \in all, Below(r, s)
  PROVE  r.id # s.id
<1> SUFFICES ASSUME r.id = s.id PROVE FALSE
  OBVIOUS
<1>1. s \in RowsWith(all, r.id)
  BY DEF RowsWith
<1>2. s = r \/ Below(s, r)
  BY <1>1 DEF IsTop
<1>3. r \in Row /\ s \in Row
  OBVIOUS
<1> QED BY <1>2, <1>3, BelowOrder

\* A page begins: with the first one, at a height; with another, at the color last
\* seen if the height is still its.
LEMMA ColorsOpen ==
  ASSUME NEW all, NEW again, all \subseteq Row, \A s \in all : s.tag = 0,
         NEW listed, NEW last, NEW from \in Int, NEW top, NEW wanted, wanted \subseteq all,
         Collected(listed, all, again), Whole(listed, last),
         Steady(listed, again) => Sorted(listed),
         ColorsAhead(listed, top, again, wanted),
         IF listed = <<>> THEN top = from
         ELSE Steady(listed, again) => from = listed[Len(listed)].height,
         NEW rows,
         rows = {r \in all : IF last = Nothing THEN r.height <= from
                             ELSE \/ r = [height |-> from, tag |-> 0, id |-> last]
                                  \/ Below(r, [height |-> from, tag |-> 0, id |-> last])}
  PROVE  ColorsScan(listed, <<>>, rows, last # Nothing, top, all, again, wanted)
<1>1. listed \in Seq(all) /\ listed \o <<>> = listed
  BY WithoutMore DEF Collected
<1>2. Collected(<<>>, all, again) /\ Len(<<>>) = 0 /\ 0 <= PageSize /\ rows \subseteq all
  BY PagesAssumption DEF Collected
<1>3. CASE listed = <<>>
  <2>1. last = Nothing /\ DOMAIN listed = {}
    BY <1>3 DEF Whole
  <2>2. \A r \in wanted : r.height <= top => r \in rows
    BY <1>3, <2>1
  <2> QED BY <1>1, <1>2, <2>1, <2>2 DEF ColorsScan
<1>4. CASE listed # <<>>
  <2> DEFINE n == Len(listed)
  <2>1. last # Nothing /\ n \in DOMAIN listed /\ last = listed[n].id
    BY <1>1, <1>4, WholePages
  <2>2. listed[n] \in all /\ listed[n] \in Row /\ listed[n].tag = 0
    BY <1>1, <2>1
  <2>3. ASSUME Steady(listed, again)
        PROVE  /\ IsTop(listed[n], rows)
               /\ \A r \in wanted : r.height <= top => r \in rows \/ r.id \in IdsOf(listed)
    <3>1. [height |-> from, tag |-> 0, id |-> last] = listed[n]
      <4>1. from = listed[n].height
        BY <1>4, <2>3
      <4> QED BY <2>1, <2>2, <4>1 DEF Row
    <3>2. rows = {r \in all : r = listed[n] \/ Below(r, listed[n])}
      BY <2>1, <3>1
    <3>3. IsTop(listed[n], rows)
      BY <2>2, <3>2 DEF IsTop
    <3>4. \A r \in wanted : r.height <= top => r \in rows \/ r.id \in IdsOf(listed)
      BY <1>4, <2>3, <3>2 DEF ColorsAhead
    <3> QED BY <3>3, <3>4
  <2> QED BY <1>1, <1>2, <1>4, <2>1, <2>3 DEF ColorsScan
<1> QED BY <1>3, <1>4

\* A row is read: it is added if it is the latest of its color and not the one that
\* the page skips.
LEMMA ColorsRow ==
  ASSUME NEW all, NEW again, all \subseteq Row, IsFiniteSet(all), \A s \in all : s.tag = 0,
         NEW listed, NEW page, NEW rows, NEW skip \in BOOLEAN, NEW top, NEW wanted,
         \A w \in wanted : w \in all /\ IsTop(w, RowsWith(all, w.id)),
         Collected(listed, all, again), Whole(listed, listed[Len(listed)].id) \/ listed = <<>>,
         ColorsScan(listed, page, rows, skip, top, all, again, wanted), rows # {}, Len(page) < PageSize,
         NEW latest \in BOOLEAN, latest <=> Top(RowsWith(all, Top(rows).id)).height <= Top(rows).height,
         NEW next, next = IF latest /\ ~skip THEN Append(page, Top(rows)) ELSE page,
         NEW still \in BOOLEAN, still <=> skip /\ ~latest
  PROVE  ColorsScan(listed, next, rows \ {Top(rows)}, still, top, all, again, wanted)
<1>0. SUFFICES ColorsScan(listed, IF latest /\ ~skip THEN Append(page, Top(rows)) ELSE page, rows \ {Top(rows)},
                          skip /\ ~latest, top, all, again, wanted)
  <2>1. still = (skip /\ ~latest)
    OBVIOUS
  <2> QED BY <2>1
<1> DEFINE r == Top(rows)
           rest == rows \ {r}
           both == listed \o page
<1>1. rows \subseteq all /\ rows \subseteq Row /\ IsFiniteSet(rows)
  BY FS_Subset DEF ColorsScan
<1>2. IsTop(r, rows)
  BY <1>1, TopOf
<1>3. r \in rows /\ r \in all /\ r \in Row /\ \A s \in rest : Below(s, r) /\ s \in Row /\ s \in rows
  BY <1>1, <1>2 DEF IsTop
<1>4. latest <=> IsTop(r, RowsWith(all, r.id))
  <2>1. IsTop(r, RowsWith(all, r.id)) => Top(RowsWith(all, r.id)).height <= r.height
    <3> SUFFICES ASSUME IsTop(r, RowsWith(all, r.id)) PROVE r.height <= r.height
      BY LatestHeightOf
    <3> QED BY <1>3 DEF Row
  <2> QED BY <1>3, <2>1, LatestRow
<1> HIDE DEF r
<1>5. page \in Seq(all) /\ listed \in Seq(all) /\ Len(page) \in Nat /\ Collected(page, all, again)
  BY DEF ColorsScan, Collected
<1>6. both \in Seq(all) /\ both \in Seq(Row) /\ Len(both) \in Nat /\ IdsOf(both) = IdsOf(listed) \cup IdsOf(page)
  BY <1>5, Concat, LongerSeq, IdsConcat
<1>7. ASSUME NEW w \in wanted, w = r PROVE latest
  BY <1>4, <1>7
<1>8. rest \subseteq all
  BY <1>1
<1>9. CASE ~latest
  <2>1. ASSUME Steady(listed, again), skip
        PROVE  FALSE
    <3>1. page = <<>> /\ listed # <<>> /\ IsTop(listed[Len(listed)], rows)
      BY <2>1 DEF ColorsScan
    <3>2. r = listed[Len(listed)]
      BY <1>1, <3>1, OneTop DEF r
    <3>3. ~Again(again, r.id)
      <4>1. Len(listed) \in DOMAIN listed /\ Len(listed) % PageSize = 0
        BY <1>5, <3>1, WholePages
      <4> QED BY <2>1, <3>2, <4>1 DEF Steady
    <3>4. Settled(r, all, again)
      <4>1. Len(listed) \in DOMAIN listed
        BY <1>5, <3>1
      <4> QED BY <3>2, <4>1 DEF Collected
    <3> QED BY <1>4, <1>9, <3>3, <3>4 DEF Settled
  <2>2. ASSUME Steady(listed, again)
        PROVE  /\ \A s \in rest : \A i \in DOMAIN both : Below(s, both[i])
               /\ \A w \in wanted : w.height <= top => w \in rest \/ w.id \in IdsOf(both)
               /\ Sorted(both) /\ ~skip
    BY <1>3, <1>7, <1>9, <2>1, <2>2 DEF ColorsScan
  <2>3. ColorsScan(listed, page, rest, skip, top, all, again, wanted)
    BY <1>5, <1>8, <2>2 DEF ColorsScan
  <2> QED BY <1>9, <2>3 DEF r
<1>10. CASE latest /\ skip
  <2>1. ASSUME Steady(listed, again)
        PROVE  /\ \A s \in rest : \A i \in DOMAIN both : Below(s, both[i])
               /\ \A w \in wanted : w.height <= top => w \in rest \/ w.id \in IdsOf(both)
               /\ Sorted(both)
    <3>1. page = <<>> /\ listed # <<>> /\ IsTop(listed[Len(listed)], rows)
      BY <1>10, <2>1 DEF ColorsScan
    <3>2. r = listed[Len(listed)] /\ both = listed /\ Sorted(both)
      BY <1>1, <1>5, <2>1, <3>1, OneTop, WithoutMore DEF r, ColorsScan
    <3>3. \A s \in rest : \A i \in DOMAIN both : Below(s, both[i])
      <4>1. \A s \in rest : s \in Row /\ Below(s, both[Len(both)])
        BY <1>3, <3>2
      <4> HIDE DEF both, rest
      <4> QED BY <1>6, <3>1, <3>2, <4>1, BelowLast
    <3>4. r.id \in IdsOf(both)
      <4>1. Len(listed) \in DOMAIN listed
        BY <1>5, <3>1
      <4> QED BY <3>2, <4>1 DEF IdsOf
    <3>5. \A w \in wanted : w.height <= top => w \in rows \/ w.id \in IdsOf(both)
      BY <2>1 DEF ColorsScan
    <3> QED BY <3>2, <3>3, <3>4, <3>5
  <2>2. ColorsScan(listed, page, rest, FALSE, top, all, again, wanted)
    BY <1>5, <1>8, <2>1 DEF ColorsScan
  <2> QED BY <1>10, <2>2 DEF r
<1>11. CASE latest /\ ~skip
  <2> DEFINE p == Append(page, r)
  <2>1. /\ p \in Seq(all) /\ Len(p) = Len(page) + 1 /\ p[Len(page) + 1] = r /\ p # <<>>
        /\ listed \o p = Append(both, r)
    BY <1>3, <1>5, OneMore
  <2>2. Settled(r, all, again) /\ IsTop(r, RowsWith(all, r.id))
    BY <1>4, <1>11 DEF Settled
  <2>3. Collected(p, all, again)
    BY <1>3, <1>5, <2>2, CollectedAppend
  <2>4. /\ DOMAIN both = 1 .. Len(both) /\ DOMAIN Append(both, r) = 1 .. Len(both) + 1
        /\ Append(both, r)[Len(both) + 1] = r
        /\ \A i \in 1 .. Len(both) : Append(both, r)[i] = both[i] /\ both[i] \in all
    BY <1>3, <1>6
  <2> HIDE DEF p, both
  <2>5. IdsOf(listed \o p) = IdsOf(both) \cup {r.id}
    BY <1>3, <1>6, <2>1, IdsAppend
  <2>6. ASSUME Steady(listed, again)
        PROVE  /\ Sorted(listed \o p)
               /\ \A s \in rest : \A i \in DOMAIN (listed \o p) : Below(s, (listed \o p)[i])
               /\ \A w \in wanted : w.height <= top => w \in rest \/ w.id \in IdsOf(listed \o p)
    <3>1. /\ Sorted(both)
          /\ \A s \in rows : \A i \in DOMAIN both : Below(s, both[i])
          /\ \A w \in wanted : w.height <= top => w \in rows \/ w.id \in IdsOf(both)
      BY <1>11, <2>6 DEF ColorsScan, both
    <3>2. \A i \in DOMAIN both : Below(r, both[i]) /\ r.id # both[i].id
      BY <1>3, <2>2, <2>4, <3>1, NotListed
    <3>3. Sorted(listed \o p)
      BY <1>3, <1>6, <2>1, <3>1, <3>2, SortedAppend
    <3>4. ASSUME NEW s \in rest, NEW i \in DOMAIN Append(both, r)
          PROVE  Below(s, Append(both, r)[i])
      <4>1. CASE i = Len(both) + 1
        BY <1>3, <2>4, <4>1
      <4>2. CASE i # Len(both) + 1
        <5>1. i \in DOMAIN both /\ Append(both, r)[i] = both[i]
          BY <1>6, <2>4, <4>2
        <5> QED BY <1>3, <3>1, <5>1
      <4> QED BY <4>1, <4>2
    <3> QED BY <2>1, <2>5, <3>1, <3>3, <3>4
  <2>7. Len(p) <= PageSize
    BY <1>5, <2>1, PagesAssumption
  <2>8. ColorsScan(listed, p, rest, FALSE, top, all, again, wanted)
    BY <1>8, <2>3, <2>6, <2>7 DEF ColorsScan
  <2> QED BY <1>11, <2>8 DEF r, p
<1> QED BY <1>9, <1>10, <1>11

\* The page is full.
LEMMA ColorsFull ==
  ASSUME NEW all, NEW again, all \subseteq Row, NEW listed, NEW page, NEW rows, NEW skip \in BOOLEAN, NEW top,
         NEW wanted, NEW last, Collected(listed, all, again), Whole(listed, last),
         ColorsScan(listed, page, rows, skip, top, all, again, wanted), Len(page) = PageSize
  PROVE  /\ Collected(listed \o page, all, again)
         /\ Steady(listed \o page, again) => Sorted(listed \o page)
         /\ Whole(listed \o page, page[PageSize].id)
         /\ ColorsAhead(listed \o page, top, again, wanted)
<1>1. page \in Seq(all) /\ listed \in Seq(all) /\ Collected(page, all, again)
  BY DEF ColorsScan, Collected
<1>2. Collected(listed \o page, all, again) /\ Whole(listed \o page, page[PageSize].id)
  BY <1>1, CollectedConcat, OnePageMore
<1>3. Steady(listed \o page, again) => Steady(listed, again)
  BY <1>1, SteadyBefore
<1>4. page # <<>> /\ Len(listed \o page) \in DOMAIN (listed \o page)
  <2>1. Len(page) \in Nat /\ Len(page) > 0 /\ Len(listed) \in Nat
    BY <1>1, PagesAssumption
  <2> QED BY <1>1, <2>1, Concat
<1>5. ASSUME Steady(listed \o page, again), NEW w \in wanted, w.height <= top
      PROVE  Below(w, (listed \o page)[Len(listed \o page)]) \/ w.id \in IdsOf(listed \o page)
  BY <1>3, <1>4, <1>5 DEF ColorsScan
<1> QED BY <1>2, <1>3, <1>5 DEF ColorsScan, ColorsAhead

\* There is nothing more.
LEMMA ColorsDone ==
  ASSUME NEW all, NEW again, NEW listed, NEW page, NEW skip, NEW top, NEW wanted,
         Collected(listed, all, again), ColorsScan(listed, page, {}, skip, top, all, again, wanted)
  PROVE  /\ Collected(listed \o page, all, again)
         /\ Steady(listed \o page, again) => Sorted(listed \o page)
         /\ \A w \in wanted : Steady(listed \o page, again) /\ w.height <= top => w.id \in IdsOf(listed \o page)
<1>1. page \in Seq(all) /\ listed \in Seq(all) /\ Collected(page, all, again)
  BY DEF ColorsScan, Collected
<1> QED BY <1>1, CollectedConcat, SteadyBefore DEF ColorsScan

-----------------------------------------------------------------------------
(* The listings, step by step                                               *)

\* The rows there are
LEMMA RowsNow ==
  ASSUME ChainTypeOK, SinceInv
  PROVE  /\ TxHistoryRows \subseteq Row /\ IsFiniteSet(TxHistoryRows)
         /\ ColorIdRows \subseteq Row /\ IsFiniteSet(ColorIdRows) /\ \A r \in ColorIdRows : r.tag = 0
<1>1. indexed \subseteq Blocks /\ IsFiniteSet(indexed)
  BY DEF ChainTypeOK, SinceInv
<1>2. \A r \in ColorIdRows : r.tag = 0
  BY <1>1, ColorRowsOfBlock DEF ColorIdRows
<1> QED BY <1>1, <1>2, RowsFinite DEF TxHistoryRows, ColorIdRows

\* A transaction to be listed has a row, and the served chain confirms it.
LEMMA WantedTx ==
  ASSUME ChainTypeOK, SinceInv, Listing, NEW x \in WantedTxs
  PROVE  /\ ~Again(TxsAgain, x) /\ RowsWith(TxHistoryRows, x) # {}
         /\ TxConfirmingBlock(x) # NoBlock
<1>1. PICK b \in Ancestors(came) \ left : x \in TxsOf[b]
  BY DEF WantedTxs
<1>2. b \in Ancestors(served) /\ b \in indexed /\ b \in Blocks
  BY <1>1 DEF SinceInv, ChainTypeOK
<1>3. PICK tag \in TagsOf[x] : TRUE
  BY DEF WantedTxs
<1>4. [height |-> Height(b), tag |-> tag, id |-> x] \in RowsOf(b)
  BY <1>1, <1>3 DEF RowsOf
<1>5. [height |-> Height(b), tag |-> tag, id |-> x] \in RowsWith(TxHistoryRows, x)
  BY <1>2, <1>4 DEF TxHistoryRows, RowsWith
<1>6. TxConfirmingBlock(x) # NoBlock
  BY <1>1, <1>2, Confirming
<1> QED BY <1>5, <1>6 DEF WantedTxs

\* A row of a color to be listed is the latest that there is.
LEMMA WantedColor ==
  ASSUME ChainTypeOK, SinceInv, NEW r \in WantedColors
  PROVE  r \in ColorIdRows /\ IsTop(r, RowsWith(ColorIdRows, r.id))
<1> DEFINE old == UNION {ColorRowsOf(b) : b \in indexed \ fresh}
<1>1. r \in old /\ ~Again(ColorsAgain, r.id) /\ r = Top(RowsWith(old, r.id))
  BY DEF WantedColors
<1>2. indexed \ fresh \subseteq Blocks /\ IsFiniteSet(indexed \ fresh)
  BY FS_Difference DEF ChainTypeOK, SinceInv
<1>3. old \subseteq Row /\ IsFiniteSet(old)
  BY <1>2, RowsFinite
<1>4. RowsWith(old, r.id) # {}
  BY <1>1 DEF RowsWith
<1>5. ColorIdRows = old \cup ColorsAgain
  BY DEF ColorIdRows, ColorsAgain, SinceInv
<1> HIDE DEF old
<1>6. IsTop(r, RowsWith(old, r.id))
  BY <1>1, <1>3, <1>4, TopWith
<1>7. RowsWith(ColorIdRows, r.id) = RowsWith(old, r.id)
  <2>1. \A s \in ColorsAgain : s.id # r.id
    BY <1>1 DEF RowsWith, Again
  <2> DEFINE all == ColorIdRows
             same == RowsWith(all, r.id)
             was == RowsWith(old, r.id)
  <2>2. all = old \cup ColorsAgain
    BY <1>5
  <2> HIDE DEF all
  <2>3. same = {s \in all : s.id = r.id} /\ was = {s \in old : s.id = r.id}
    BY DEF RowsWith
  <2> HIDE DEF same, was
  <2>4. same = was
    BY <2>1, <2>2, <2>3
  <2> QED BY <2>4 DEF same, was, all
<1> QED BY <1>1, <1>5, <1>6, <1>7

\* What a read of a listing leaves
LEMMA SameListings ==
  ASSUME UNCHANGED <<indexed, came, fresh, left>>
  PROVE  /\ UNCHANGED <<TxHistoryRows, TxsAgain, WantedTxs>>
         /\ UNCHANGED <<ColorIdRows, ColorsAgain, WantedColors>>
BY DEF TxHistoryRows, TxsAgain, WantedTxs, ColorIdRows, ColorsAgain, WantedColors

LEMMA SameSince ==
  ASSUME SinceInv, UNCHANGED <<indexed, served, came, fresh, left>>, Listing, Listing'
  PROVE  SinceInv'
<1>1. req' # Idle
  BY DEF Listing, Idle
<1> QED BY <1>1 DEF SinceInv

\* What a page gives: the scan goes on, the client asks for the next one, or it has all.
LEMMA PageGets ==
  ASSUME IInv, ListingFields, Listing, NEW page, NEW rows, NEW skip \in BOOLEAN, Get(Page(page, rows, skip)),
         req.kind = "txs" => ~skip
  PROVE  /\ UNCHANGED <<indexed, served, target, came, fresh, left>>
         /\ req'.kind = req.kind /\ req'.from = req.from /\ req'.top = req.top
         /\ ListingFields' /\ Listing'
         /\ \/ /\ Len(page) # PageSize /\ rows # {} /\ req'.pc = "scan" /\ req'.page = page /\ req'.rows = rows
               /\ req'.skip = skip /\ req'.last = req.last /\ req'.listed = req.listed
            \/ /\ Len(page) = PageSize /\ req'.pc = "ask"
               /\ req'.last = page[PageSize].id /\ req'.listed = req.listed \o page
            \/ /\ Len(page) # PageSize /\ rows = {} /\ req'.pc = "done" /\ req'.listed = req.listed \o page
<1> DEFINE full == Len(page) = PageSize
           on == [pc |-> "scan", page |-> page, rows |-> rows, skip |-> skip]
           got(pc, last) == [pc |-> pc, last |-> last, listed |-> req.listed \o page,
                             page |-> <<>>, rows |-> {}, skip |-> FALSE]
<1>1. {"kind", "pc", "last", "from", "top", "rows", "skip", "page", "listed"} \subseteq DOMAIN req
  BY DEF ListingFields
<1>2. UNCHANGED <<indexed, served, target, came, fresh, left>>
  BY DEF Get, chainVars, history
<1>3. CASE ~full /\ rows # {}
  <2>1. Get(on)
    BY <1>3 DEF Page
  <2>2. /\ DOMAIN req' = DOMAIN req /\ req'.kind = req.kind /\ req'.from = req.from /\ req'.top = req.top
        /\ req'.pc = "scan" /\ req'.page = page /\ req'.rows = rows
        /\ req'.skip = skip /\ req'.last = req.last /\ req'.listed = req.listed
    BY <1>1, <2>1 DEF Get
  <2> QED BY <1>1, <1>2, <1>3, <2>2 DEF ListingFields, Listing
<1>4. ASSUME NEW pc, NEW last, Get(got(pc, last))
      PROVE  /\ DOMAIN req' = DOMAIN req /\ req'.kind = req.kind /\ req'.from = req.from /\ req'.top = req.top
             /\ req'.pc = pc /\ req'.last = last /\ req'.listed = req.listed \o page /\ req'.skip = FALSE
  BY <1>1, <1>4 DEF Get
<1>5. CASE full
  <2>1. Get(got("ask", page[PageSize].id))
    BY <1>5 DEF Page
  <2>2. /\ DOMAIN req' = DOMAIN req /\ req'.kind = req.kind /\ req'.from = req.from /\ req'.top = req.top
        /\ req'.pc = "ask" /\ req'.last = page[PageSize].id /\ req'.listed = req.listed \o page /\ req'.skip = FALSE
    BY <1>4, <2>1
  <2> QED BY <1>1, <1>2, <1>5, <2>2 DEF ListingFields, Listing
<1>6. CASE ~full /\ rows = {}
  <2>1. Get(got("done", req.last))
    BY <1>6 DEF Page
  <2>2. /\ DOMAIN req' = DOMAIN req /\ req'.kind = req.kind /\ req'.from = req.from /\ req'.top = req.top
        /\ req'.pc = "done" /\ req'.listed = req.listed \o page /\ req'.skip = FALSE
    BY <1>4, <2>1
  <2> QED BY <1>1, <1>2, <1>6, <2>2 DEF ListingFields, Listing
<1> QED BY <1>3, <1>5, <1>6

\* The history: after a page has begun, or a row was read
LEMMA TxsPage ==
  ASSUME IInv, PagesInv, req.kind = "txs", req.pc # "done", NEW page, NEW rows,
         Get(Page(page, rows, FALSE)),
         TxsScan(req.listed, page, rows, TxHistoryRows, TxsAgain, WantedTxs)
  PROVE  PagesInv'
<1>1. /\ ChainTypeOK /\ SinceInv /\ ListingFields /\ Listing
      /\ Collected(req.listed, TxHistoryRows, TxsAgain) /\ Whole(req.listed, req.last)
      /\ Steady(req.listed, TxsAgain) => Sorted(req.listed)
      /\ TxsAhead(req.listed, req.last, TxHistoryRows, WantedTxs)
  BY DEF IInv, PagesInv, TxsInv, Listing
<1>2. TxHistoryRows \subseteq Row /\ \A x \in WantedTxs : ~Again(TxsAgain, x)
  BY <1>1, RowsNow, WantedTx
<1>3. /\ UNCHANGED <<indexed, served, came, fresh, left>> /\ req'.kind = "txs" /\ ListingFields' /\ Listing'
      /\ \/ /\ Len(page) # PageSize /\ rows # {} /\ req'.pc = "scan" /\ req'.page = page /\ req'.rows = rows
            /\ req'.last = req.last /\ req'.listed = req.listed
         \/ /\ Len(page) = PageSize /\ req'.pc = "ask"
            /\ req'.last = page[PageSize].id /\ req'.listed = req.listed \o page
         \/ /\ Len(page) # PageSize /\ rows = {} /\ req'.pc = "done" /\ req'.listed = req.listed \o page
  BY <1>1, PageGets
<1>4. SinceInv'
  BY <1>1, <1>3, SameSince
<1>5. UNCHANGED <<TxHistoryRows, TxsAgain, WantedTxs>>
  BY <1>3, SameListings
<1>6. TxsInv'
  <2>1. CASE req'.pc = "scan" /\ Len(page) # PageSize
    <3>1. Len(page) \in Nat /\ Len(page) <= PageSize
      BY DEF TxsScan, Collected
    <3>2. Len(page) < PageSize
      BY <2>1, <3>1, PagesAssumption
    <3> QED BY <1>1, <1>3, <1>5, <2>1, <3>2 DEF TxsInv
  <2>2. CASE req'.pc = "ask" /\ Len(page) = PageSize
    <3>1. /\ Collected(req.listed \o page, TxHistoryRows, TxsAgain)
          /\ Steady(req.listed \o page, TxsAgain) => Sorted(req.listed \o page)
          /\ Whole(req.listed \o page, page[PageSize].id)
          /\ TxsAhead(req.listed \o page, page[PageSize].id, TxHistoryRows, WantedTxs)
      BY <1>1, <1>2, <2>2, TxsFull
    <3> QED BY <1>3, <1>5, <2>2, <3>1 DEF TxsInv
  <2>3. CASE req'.pc = "done" /\ rows = {}
    <3>1. /\ Collected(req.listed \o page, TxHistoryRows, TxsAgain)
          /\ Steady(req.listed \o page, TxsAgain) => Sorted(req.listed \o page)
          /\ WantedTxs \subseteq IdsOf(req.listed \o page)
      BY <1>1, <2>3, TxsDone
    <3> QED BY <1>3, <1>5, <2>3, <3>1 DEF TxsInv
  <2> QED BY <1>3, <2>1, <2>2, <2>3
<1>7. ColorsInv'
  BY <1>3 DEF ColorsInv
<1> QED BY <1>3, <1>4, <1>6, <1>7 DEF PagesInv

LEMMA OpenHistoryPages == ASSUME IInv, PagesInv, OpenHistory PROVE PagesInv'
<1>1. /\ req.kind = "txs" /\ req.pc = "ask" /\ Listing
      /\ Get(Page(<<>>, AfterLastSeen(TxHistoryRows, req.last), FALSE))
  BY DEF OpenHistory, Listing
<1>2. ChainTypeOK /\ SinceInv
  BY DEF IInv, PagesInv
<1>3. /\ TxHistoryRows \subseteq Row /\ IsFiniteSet(TxHistoryRows)
      /\ \A x \in WantedTxs : RowsWith(TxHistoryRows, x) # {}
  BY <1>1, <1>2, RowsNow, WantedTx
<1>4. /\ Collected(req.listed, TxHistoryRows, TxsAgain) /\ Whole(req.listed, req.last)
      /\ Steady(req.listed, TxsAgain) => Sorted(req.listed)
      /\ TxsAhead(req.listed, req.last, TxHistoryRows, WantedTxs)
  BY <1>1 DEF PagesInv, TxsInv
<1>5. TxsScan(req.listed, <<>>, AfterLastSeen(TxHistoryRows, req.last), TxHistoryRows, TxsAgain, WantedTxs)
  BY <1>3, <1>4, TxsOpen
<1> QED BY <1>1, <1>5, TxsPage

LEMMA HistoryRowPages == ASSUME IInv, PagesInv, HistoryRow PROVE PagesInv'
<1> DEFINE confirmed == TxConfirmingBlock(Top(req.rows).id) # NoBlock
           page == IF confirmed THEN Append(req.page, Top(req.rows)) ELSE req.page
<1>1. /\ req.kind = "txs" /\ req.pc = "scan" /\ Listing
      /\ Get(Page(page, req.rows \ {Top(req.rows)}, FALSE))
  BY DEF HistoryRow, Listing
<1>2. ChainTypeOK /\ SinceInv
  BY DEF IInv, PagesInv
<1>3. /\ TxHistoryRows \subseteq Row /\ IsFiniteSet(TxHistoryRows)
      /\ Top(req.rows).id \in WantedTxs => confirmed
  BY <1>1, <1>2, RowsNow, WantedTx
<1>4. /\ Collected(req.listed, TxHistoryRows, TxsAgain)
      /\ TxsScan(req.listed, req.page, req.rows, TxHistoryRows, TxsAgain, WantedTxs)
      /\ Len(req.page) < PageSize /\ req.rows # {}
  BY <1>1 DEF PagesInv, TxsInv
<1>5. confirmed \in BOOLEAN
  OBVIOUS
<1> HIDE DEF confirmed
<1>6. TxsScan(req.listed, page, req.rows \ {Top(req.rows)}, TxHistoryRows, TxsAgain, WantedTxs)
  BY <1>3, <1>4, <1>5, TxsRow
<1> HIDE DEF page
<1> QED BY <1>1, <1>6, TxsPage

\* The colors: after a page has begun, or a row was read
LEMMA ColorsPage ==
  ASSUME IInv, PagesInv, req.kind = "colors", req.pc # "done", NEW page, NEW rows, NEW skip \in BOOLEAN,
         Get(Page(page, rows, skip)),
         ColorsScan(req.listed, page, rows, skip, req.top, ColorIdRows, ColorsAgain, WantedColors)
  PROVE  PagesInv'
<1>1. /\ ChainTypeOK /\ SinceInv /\ ListingFields /\ Listing
      /\ Collected(req.listed, ColorIdRows, ColorsAgain) /\ Whole(req.listed, req.last)
      /\ Steady(req.listed, ColorsAgain) => Sorted(req.listed)
      /\ ColorsAhead(req.listed, req.top, ColorsAgain, WantedColors)
  BY DEF IInv, PagesInv, ColorsInv, Listing
<1>2. ColorIdRows \subseteq Row
  BY <1>1, RowsNow
<1>3. /\ UNCHANGED <<indexed, served, came, fresh, left>> /\ req'.kind = "colors" /\ req'.top = req.top
      /\ ListingFields' /\ Listing'
      /\ \/ /\ Len(page) # PageSize /\ rows # {} /\ req'.pc = "scan" /\ req'.page = page /\ req'.rows = rows
            /\ req'.skip = skip /\ req'.last = req.last /\ req'.listed = req.listed
         \/ /\ Len(page) = PageSize /\ req'.pc = "ask"
            /\ req'.last = page[PageSize].id /\ req'.listed = req.listed \o page
         \/ /\ Len(page) # PageSize /\ rows = {} /\ req'.pc = "done" /\ req'.listed = req.listed \o page
  BY <1>1, PageGets
<1>4. SinceInv'
  BY <1>1, <1>3, SameSince
<1>5. UNCHANGED <<ColorIdRows, ColorsAgain, WantedColors>>
  BY <1>3, SameListings
<1>6. ColorsInv'
  <2>1. CASE req'.pc = "scan" /\ Len(page) # PageSize
    <3>1. Len(page) \in Nat /\ Len(page) <= PageSize
      BY DEF ColorsScan, Collected
    <3>2. Len(page) < PageSize
      BY <2>1, <3>1, PagesAssumption
    <3> QED BY <1>1, <1>3, <1>5, <2>1, <3>2 DEF ColorsInv
  <2>2. CASE req'.pc = "ask" /\ Len(page) = PageSize
    <3>1. /\ Collected(req.listed \o page, ColorIdRows, ColorsAgain)
          /\ Steady(req.listed \o page, ColorsAgain) => Sorted(req.listed \o page)
          /\ Whole(req.listed \o page, page[PageSize].id)
          /\ ColorsAhead(req.listed \o page, req.top, ColorsAgain, WantedColors)
      BY <1>1, <1>2, <2>2, ColorsFull
    <3> QED BY <1>3, <1>5, <2>2, <3>1 DEF ColorsInv
  <2>3. CASE req'.pc = "done" /\ rows = {}
    <3>1. /\ Collected(req.listed \o page, ColorIdRows, ColorsAgain)
          /\ Steady(req.listed \o page, ColorsAgain) => Sorted(req.listed \o page)
          /\ \A w \in WantedColors : Steady(req.listed \o page, ColorsAgain) /\ w.height <= req.top =>
               w.id \in IdsOf(req.listed \o page)
      BY <1>1, <2>3, ColorsDone
    <3> QED BY <1>3, <1>5, <2>3, <3>1 DEF ColorsInv
  <2> QED BY <1>3, <2>1, <2>2, <2>3
<1>7. TxsInv'
  BY <1>3 DEF TxsInv
<1> QED BY <1>3, <1>4, <1>6, <1>7 DEF PagesInv

\* The height that the next page begins at is that of the color last seen, unless it
\* has come up again.
LEMMA AskColorsPages == ASSUME IInv, PagesInv, AskColors PROVE PagesInv'
<1>1. /\ req.kind = "colors" /\ req.pc = "ask" /\ Listing /\ ChainTypeOK /\ SinceInv /\ ListingFields
      /\ Collected(req.listed, ColorIdRows, ColorsAgain) /\ Whole(req.listed, req.last)
      /\ Steady(req.listed, ColorsAgain) => Sorted(req.listed)
      /\ ColorsAhead(req.listed, req.top, ColorsAgain, WantedColors)
  BY DEF AskColors, Listing, IInv, PagesInv, ColorsInv
<1>2. PICK from \in IF req.last = Nothing THEN {Height(b) : b \in {b \in Blocks : b = target \/ Elsewhere(b)}}
                    ELSE {LatestHeight(req.last)} :
        Get([pc |-> "colors", from |-> from, top |-> IF req.last = Nothing THEN from ELSE req.top])
  BY DEF AskColors
<1>3. /\ DOMAIN req' = DOMAIN req /\ req'.kind = "colors" /\ req'.pc = "colors" /\ req'.from = from
      /\ req'.top = IF req.last = Nothing THEN from ELSE req.top
      /\ req'.last = req.last /\ req'.listed = req.listed /\ req'.skip = req.skip
      /\ UNCHANGED <<indexed, served, came, fresh, left>>
  BY <1>1, <1>2 DEF Get, ListingFields, chainVars, history
<1>4. Listing' /\ ListingFields'
  BY <1>1, <1>3 DEF Listing, ListingFields
<1>5. SinceInv'
  BY <1>1, <1>3, <1>4, SameSince
<1>6. UNCHANGED <<ColorIdRows, ColorsAgain, WantedColors>>
  BY <1>3, SameListings
<1>7. ColorIdRows \subseteq Row /\ IsFiniteSet(ColorIdRows) /\ req.listed \in Seq(ColorIdRows)
  BY <1>1, RowsNow DEF Collected
<1>8. CASE req.listed = <<>>
  <2>1. req.last = Nothing
    BY <1>1, <1>8 DEF Whole
  <2>2. from \in Nat
    BY <1>2, <2>1, ChainFacts
  <2>3. ColorsAhead(req.listed, from, ColorsAgain, WantedColors)
    BY <1>8 DEF ColorsAhead
  <2>4. ColorsInv'
    BY <1>1, <1>3, <1>6, <1>8, <2>1, <2>2, <2>3 DEF ColorsInv
  <2> QED BY <1>3, <1>4, <1>5, <2>4 DEF PagesInv, TxsInv
<1>9. CASE req.listed # <<>>
  <2> DEFINE n == Len(req.listed)
             rows == RowsWith(ColorIdRows, req.last)
  <2>1. req.last # Nothing /\ n \in DOMAIN req.listed /\ req.last = req.listed[n].id /\ n % PageSize = 0
    BY <1>1, <1>7, <1>9, WholePages
  <2>2. req.listed[n] \in ColorIdRows
    BY <1>7, <2>1
  <2>3. rows # {}
    BY <2>1, <2>2 DEF RowsWith
  <2>4. from = Top(rows).height
    BY <1>2, <2>1, <2>3 DEF LatestHeight
  <2>5. from \in Nat
    <3>1. Top(rows) \in Row
      BY <1>7, <2>3, TopWith
    <3> QED BY <2>4, <3>1 DEF Row
  <2>6. ASSUME Steady(req.listed, ColorsAgain) PROVE from = req.listed[n].height
    <3>1. IsTop(req.listed[n], rows)
      BY <1>1, <2>1, <2>6 DEF Steady, Collected, Settled
    <3>2. rows \subseteq Row
      BY <1>7 DEF RowsWith
    <3>3. Top(rows) = req.listed[n]
      BY <3>1, <3>2, OneTop
    <3> QED BY <2>4, <3>3
  <2>7. ColorsInv'
    BY <1>1, <1>3, <1>6, <1>9, <2>1, <2>5, <2>6 DEF ColorsInv
  <2> QED BY <1>3, <1>4, <1>5, <2>7 DEF PagesInv, TxsInv
<1> QED BY <1>8, <1>9

LEMMA OpenColorsPages == ASSUME IInv, PagesInv, OpenColors PROVE PagesInv'
<1> DEFINE end  == [height |-> req.from, tag |-> 0, id |-> req.last]
           rows == {r \in ColorIdRows : IF req.last = Nothing THEN r.height <= req.from
                                        ELSE r = end \/ Below(r, end)}
           skip == req.last # Nothing
<1>1. /\ req.kind = "colors" /\ req.pc = "colors" /\ ChainTypeOK /\ SinceInv
      /\ Get(Page(<<>>, rows, skip))
  BY DEF OpenColors, IInv, PagesInv
<1>2. ColorIdRows \subseteq Row /\ \A r \in ColorIdRows : r.tag = 0
  BY <1>1, RowsNow
<1>3. WantedColors \subseteq ColorIdRows
  BY <1>1, WantedColor
<1>4. /\ Collected(req.listed, ColorIdRows, ColorsAgain) /\ Whole(req.listed, req.last)
      /\ Steady(req.listed, ColorsAgain) => Sorted(req.listed)
      /\ ColorsAhead(req.listed, req.top, ColorsAgain, WantedColors)
      /\ req.from \in Int
      /\ IF req.listed = <<>> THEN req.top = req.from
         ELSE Steady(req.listed, ColorsAgain) => req.from = req.listed[Len(req.listed)].height
  BY <1>1 DEF PagesInv, ColorsInv
<1>5. ColorsScan(req.listed, <<>>, rows, skip, req.top, ColorIdRows, ColorsAgain, WantedColors)
  BY <1>2, <1>3, <1>4, ColorsOpen
<1>6. skip \in BOOLEAN
  OBVIOUS
<1> HIDE DEF rows, skip
<1> QED BY <1>1, <1>5, <1>6, ColorsPage

LEMMA ColorRowPages == ASSUME IInv, PagesInv, ColorRow PROVE PagesInv'
<1> DEFINE row    == Top(req.rows)
           latest == IsLatest(row)
           page   == IF latest /\ ~req.skip THEN Append(req.page, row) ELSE req.page
           rest   == req.rows \ {row}
           skip   == req.skip /\ ~latest
<1>1. /\ req.kind = "colors" /\ req.pc = "scan" /\ Listing /\ ChainTypeOK /\ SinceInv /\ ListingFields
      /\ Get(Page(page, rest, skip))
  BY DEF ColorRow, IInv, PagesInv, Listing
<1>2. ColorIdRows \subseteq Row /\ IsFiniteSet(ColorIdRows) /\ \A r \in ColorIdRows : r.tag = 0
  BY <1>1, RowsNow
<1>3. \A w \in WantedColors : w \in ColorIdRows /\ IsTop(w, RowsWith(ColorIdRows, w.id))
  BY <1>1, WantedColor
<1>4. /\ Collected(req.listed, ColorIdRows, ColorsAgain) /\ Whole(req.listed, req.last)
      /\ ColorsScan(req.listed, req.page, req.rows, req.skip, req.top, ColorIdRows, ColorsAgain, WantedColors)
      /\ Len(req.page) < PageSize /\ req.rows # {} /\ req.skip \in BOOLEAN
  BY <1>1 DEF PagesInv, ColorsInv, ListingFields
<1>5. Whole(req.listed, req.listed[Len(req.listed)].id) \/ req.listed = <<>>
  BY <1>4 DEF Whole
<1>6. latest = (Top(RowsWith(ColorIdRows, row.id)).height <= row.height)
  <2>1. row \in ColorIdRows
    <3>1. req.rows \subseteq ColorIdRows
      BY <1>4 DEF ColorsScan
    <3>2. req.rows \subseteq Row /\ IsFiniteSet(req.rows)
      BY <1>2, <3>1, FS_Subset
    <3> QED BY <1>4, <3>1, <3>2, TopOf DEF IsTop
  <2>2. RowsWith(ColorIdRows, row.id) # {}
    BY <2>1 DEF RowsWith
  <2> HIDE DEF row
  <2> QED BY <2>2 DEF IsLatest, LatestHeight
<1>7. latest \in BOOLEAN
  BY <1>6
<1> HIDE DEF latest
<1>8. ColorsScan(req.listed, page, rest, skip, req.top, ColorIdRows, ColorsAgain, WantedColors)
  <2> DEFINE all    == ColorIdRows
             wanted == WantedColors
             listed == req.listed
             old    == req.page
             rows   == req.rows
             was    == req.skip
  <2>1. /\ all \subseteq Row /\ IsFiniteSet(all) /\ \A r \in all : r.tag = 0
        /\ \A w \in wanted : w \in all /\ IsTop(w, RowsWith(all, w.id))
    BY <1>2, <1>3
  <2>2. /\ Collected(listed, all, ColorsAgain)
        /\ Whole(listed, listed[Len(listed)].id) \/ listed = <<>>
        /\ ColorsScan(listed, old, rows, was, req.top, all, ColorsAgain, wanted)
        /\ Len(old) < PageSize /\ rows # {} /\ was \in BOOLEAN
    BY <1>4, <1>5
  <2>3. latest <=> Top(RowsWith(all, Top(rows).id)).height <= Top(rows).height
    BY <1>6
  <2>4. /\ page = IF latest /\ ~was THEN Append(old, Top(rows)) ELSE old
        /\ rest = rows \ {Top(rows)}
        /\ skip <=> was /\ ~latest
    OBVIOUS
  <2>5. skip \in BOOLEAN
    BY <1>7, <2>2
  <2> HIDE DEF all, wanted, listed, old, rows, was, page, rest, skip, row
  <2>6. ColorsScan(listed, page, rows \ {Top(rows)}, skip, req.top, all, ColorsAgain, wanted)
    BY <1>7, <2>1, <2>2, <2>3, <2>4, <2>5, ColorsRow, ZenonT(60)
  <2>7. ColorsScan(listed, page, rest, skip, req.top, all, ColorsAgain, wanted)
    BY <2>4, <2>6
  <2> QED BY <2>7 DEF all, wanted, listed
<1>9. skip \in BOOLEAN
  BY <1>4, <1>7
<1> HIDE DEF page, rest, skip
<1> QED BY <1>1, <1>8, <1>9, ColorsPage

\* A client comes.
LEMMA WalkPages == ASSUME IInv, PagesInv, Walk PROVE PagesInv'
<1>1. /\ req = Idle /\ req' \in Walks /\ came' = served /\ UNCHANGED <<indexed, served, target, fresh, left>>
  BY DEF Walk, Come, chainVars
<1>2. PICK kind \in {"txs", "colors"} : req' =
        [kind |-> kind, pc |-> "ask", last |-> Nothing, from |-> Nothing, top |-> Nothing, rows |-> {},
         skip |-> FALSE, page |-> <<>>, listed |-> <<>>]
  BY <1>1 DEF Walks
<1>3. /\ req'.kind = kind /\ req'.pc = "ask" /\ req'.last = Nothing /\ req'.listed = <<>> /\ req'.skip = FALSE
      /\ {"kind", "pc", "last", "from", "top", "rows", "skip", "page", "listed"} \subseteq DOMAIN req'
  BY <1>2
<1>4. SinceInv /\ fresh = {} /\ left = {} /\ served \in Blocks
  BY <1>1 DEF PagesInv, SinceInv, IInv, ChainTypeOK, Idle, Listing
<1>5. SinceInv'
  <2>1. Listing' /\ req' # Idle
    BY <1>2, <1>3 DEF Listing, Idle
  <2> QED BY <1>1, <1>4, <2>1 DEF SinceInv
<1>6. ListingFields'
  BY <1>3 DEF ListingFields
<1>7. ASSUME NEW all, NEW again, NEW top, NEW wanted
      PROVE  /\ Collected(<<>>, all, again) /\ Sorted(<<>>) /\ Whole(<<>>, Nothing)
             /\ TxsAhead(<<>>, Nothing, all, wanted) /\ ColorsAhead(<<>>, top, again, wanted)
  <2>1. /\ <<>> \in Seq(all) /\ DOMAIN <<>> = {} /\ Len(<<>>) = 0
    OBVIOUS
  <2>2. Whole(<<>>, Nothing)
    <3>1. 0 \in 0 .. 0 /\ PageSize * 0 = 0
      BY PagesAssumption
    <3> QED BY <2>1, <3>1 DEF Whole
  <2> QED BY <2>1, <2>2 DEF Collected, Sorted, TxsAhead, ColorsAhead
<1>8. TxsInv'
  BY <1>3, <1>7 DEF TxsInv
<1>9. ColorsInv'
  BY <1>3, <1>7 DEF ColorsInv
<1> QED BY <1>5, <1>6, <1>8, <1>9 DEF PagesInv

-----------------------------------------------------------------------------
(* What the indexing thread does meanwhile                                  *)

\* Rows are added, those of what was indexed since the client came; less is left of what
\* it should see.
LEMMA RowsGrow ==
  ASSUME SinceInv, indexed \subseteq indexed', fresh \subseteq fresh', fresh' \subseteq indexed',
         indexed' \ fresh' = indexed \ fresh, came' = came, left \subseteq left'
  PROVE  /\ Grown(TxHistoryRows, TxsAgain, TxHistoryRows', TxsAgain')
         /\ Grown(ColorIdRows, ColorsAgain, ColorIdRows', ColorsAgain')
         /\ WantedTxs' \subseteq WantedTxs /\ \A x \in WantedTxs' : ~Again(TxsAgain', x)
         /\ WantedColors' \subseteq WantedColors
<1>1. indexed' \subseteq indexed \cup fresh'
  OBVIOUS
<1>2. Grown(TxHistoryRows, TxsAgain, TxHistoryRows', TxsAgain')
  BY <1>1 DEF Grown, TxHistoryRows, TxsAgain
<1>3. Grown(ColorIdRows, ColorsAgain, ColorIdRows', ColorsAgain')
  BY <1>1 DEF Grown, ColorIdRows, ColorsAgain
<1>4. WantedTxs' \subseteq WantedTxs /\ \A x \in WantedTxs' : ~Again(TxsAgain', x)
  <2>1. ASSUME NEW x \in WantedTxs'
        PROVE  /\ ~Again(TxsAgain', x) /\ x \in Txs /\ TagsOf[x] # {}
               /\ \E b \in Ancestors(came) \ left : x \in TxsOf[b]
    BY DEF WantedTxs
  <2>2. ASSUME NEW x \in WantedTxs' PROVE ~Again(TxsAgain, x)
    BY <1>2, <2>1, SameRows
  <2> QED BY <2>1, <2>2 DEF WantedTxs
<1>5. WantedColors' \subseteq WantedColors
  <2> DEFINE old == UNION {ColorRowsOf(b) : b \in indexed \ fresh}
  <2>1. old' = old
    OBVIOUS
  <2>2. WantedColors' = {r \in old : ~Again(ColorsAgain', r.id) /\ r = Top(RowsWith(old, r.id))}
    BY <2>1 DEF WantedColors
  <2>3. WantedColors = {r \in old : ~Again(ColorsAgain, r.id) /\ r = Top(RowsWith(old, r.id))}
    BY DEF WantedColors
  <2> HIDE DEF old
  <2> QED BY <1>3, <2>2, <2>3, SameRows
<1> QED BY <1>2, <1>3, <1>4, <1>5

\* The request stays as it is, or begins its page again.
LEMMA ThreadListing ==
  ASSUME PagesInv, Listing,
         indexed \subseteq indexed', fresh \subseteq fresh', fresh' \subseteq indexed', IsFiniteSet(indexed'),
         indexed' \ fresh' = indexed \ fresh, came' = came, left \subseteq left',
         Ancestors(came) \ left' \subseteq Ancestors(served'),
         \/ req' = req
         \/ req' = [req EXCEPT !.pc = "ask", !.page = <<>>, !.rows = {}] /\ req.pc # "done"
  PROVE  PagesInv'
<1>1. SinceInv /\ ListingFields /\ TxsInv /\ ColorsInv
  BY DEF PagesInv
<1>2. {"kind", "pc", "last", "from", "top", "rows", "skip", "page", "listed"} \subseteq DOMAIN req
  BY <1>1 DEF ListingFields
<1>3. /\ DOMAIN req' = DOMAIN req /\ req'.kind = req.kind /\ req'.last = req.last /\ req'.listed = req.listed
      /\ req'.top = req.top /\ req'.skip = req.skip
      /\ req' = req \/ (req'.pc = "ask" /\ req.pc # "done")
  <2>1. CASE req' = req
    BY <1>2, <2>1
  <2>2. CASE req' = [req EXCEPT !.pc = "ask", !.page = <<>>, !.rows = {}] /\ req.pc # "done"
    BY <1>2, <2>2
  <2> QED BY <2>1, <2>2
<1>4. Listing' /\ req' # Idle
  BY <1>3 DEF Listing, Idle
<1>5. SinceInv'
  BY <1>1, <1>4 DEF SinceInv
<1>6. ListingFields'
  BY <1>1, <1>3 DEF ListingFields, Listing
<1>7. /\ Grown(TxHistoryRows, TxsAgain, TxHistoryRows', TxsAgain')
      /\ Grown(ColorIdRows, ColorsAgain, ColorIdRows', ColorsAgain')
      /\ WantedTxs' \subseteq WantedTxs /\ \A x \in WantedTxs' : ~Again(TxsAgain', x)
      /\ WantedColors' \subseteq WantedColors
  BY <1>1, RowsGrow
<1>8. TxsInv'
  <2>1. SUFFICES ASSUME req.kind = "txs" PROVE TxsInv'
    BY <1>3 DEF TxsInv
  <2>2. /\ Collected(req.listed, TxHistoryRows', TxsAgain')
        /\ Steady(req.listed, TxsAgain') => Sorted(req.listed)
    BY <1>1, <1>7, <2>1, CollectedGrows, SteadyGrows DEF TxsInv
  <2>3. req.pc # "done" => Whole(req.listed, req.last) /\ TxsAhead(req.listed, req.last, TxHistoryRows', WantedTxs')
    BY <1>1, <1>7, <2>1, TxsAheadGrows DEF TxsInv
  <2>4. req.pc = "scan" =>
          /\ TxsScan(req.listed, req.page, req.rows, TxHistoryRows', TxsAgain', WantedTxs')
          /\ Len(req.page) < PageSize /\ req.rows # {}
    BY <1>1, <1>7, <2>1, TxsScanGrows DEF TxsInv
  <2>5. req.pc = "done" => WantedTxs' \subseteq IdsOf(req.listed)
    BY <1>1, <1>7, <2>1 DEF TxsInv
  <2> QED BY <1>3, <2>2, <2>3, <2>4, <2>5 DEF TxsInv
<1>9. ColorsInv'
  <2>1. SUFFICES ASSUME req.kind = "colors" PROVE ColorsInv'
    BY <1>3 DEF ColorsInv
  <2>2. /\ Collected(req.listed, ColorIdRows', ColorsAgain')
        /\ Steady(req.listed, ColorsAgain') => Steady(req.listed, ColorsAgain) /\ Sorted(req.listed)
    BY <1>1, <1>7, <2>1, CollectedGrows, SteadyGrows DEF ColorsInv
  <2>3. req.pc # "done" =>
          Whole(req.listed, req.last) /\ ColorsAhead(req.listed, req.top, ColorsAgain', WantedColors')
    BY <1>1, <1>7, <2>1, ColorsAheadGrows DEF ColorsInv
  <2>4. req.pc = "scan" =>
          /\ ColorsScan(req.listed, req.page, req.rows, req.skip, req.top, ColorIdRows', ColorsAgain', WantedColors')
          /\ Len(req.page) < PageSize /\ req.rows # {}
    BY <1>1, <1>7, <2>1, ColorsScanGrows DEF ColorsInv
  <2>5. req.pc = "done" =>
          \A r \in WantedColors' :
            Steady(req.listed, ColorsAgain') /\ r.height <= req.top => r.id \in IdsOf(req.listed)
    BY <1>1, <1>7, <2>1, <2>2 DEF ColorsInv
  <2>6. req.pc = "colors" =>
          /\ req.from \in Int
          /\ IF req.listed = <<>> THEN req.top = req.from
             ELSE Steady(req.listed, ColorsAgain') => req.from = req.listed[Len(req.listed)].height
    BY <1>1, <2>1, <2>2 DEF ColorsInv
  <2> QED BY <1>3, <2>2, <2>3, <2>4, <2>5, <2>6 DEF ColorsInv
<1> QED BY <1>5, <1>6, <1>8, <1>9 DEF PagesInv

\* While nothing is listed, there is nothing to say but of the blocks.
LEMMA OtherPages ==
  ASSUME ~Listing', IsFiniteSet(indexed'), fresh' = {}, req' = Idle => left' = {}
  PROVE  PagesInv'
BY DEF PagesInv, SinceInv, ListingFields, TxsInv, ColorsInv, Listing

LEMMA ThreadPages ==
  ASSUME IInv, PagesInv, NEW b \in Blocks, Aim(b) \/ IndexBlock(b) \/ Restart(b) \/ Publish
  PROVE  PagesInv'
<1>1. ChainTypeOK /\ SinceInv /\ ~Answered
  BY DEF IInv, PagesInv, Aim, IndexBlock, Restart, Publish
<1>2. req.pc # "done"
  BY <1>1 DEF Answered
<1>3. CASE Aim(b)
  <2>1. UNCHANGED <<indexed, served, came, fresh, left, req>>
    BY <1>3 DEF Aim, TakeTarget, history
  <2>2. CASE Listing
    BY <1>1, <2>1, <2>2, ThreadListing DEF SinceInv
  <2>3. CASE ~Listing
    <3>1. ~Listing'
      BY <2>1, <2>3 DEF Listing
    <3> QED BY <1>1, <2>1, <2>3, <3>1, OtherPages DEF SinceInv
  <2> QED BY <2>2, <2>3
<1>4. CASE IndexBlock(b)
  <2>1. /\ UNCHANGED <<served, came, left, req>> /\ indexed' = indexed \cup {b} /\ b \notin indexed
        /\ fresh' = IF Listing THEN fresh \cup {b} ELSE fresh
    BY <1>4 DEF IndexBlock, WriteRows
  <2>2. IsFiniteSet(indexed')
    BY <1>1, <2>1, FS_AddElement DEF SinceInv
  <2>3. CASE Listing
    BY <1>1, <2>1, <2>2, <2>3, ThreadListing DEF SinceInv
  <2>4. CASE ~Listing
    <3>1. ~Listing'
      BY <2>1, <2>4 DEF Listing
    <3> QED BY <1>1, <2>1, <2>2, <2>4, <3>1, OtherPages DEF SinceInv
  <2> QED BY <2>3, <2>4
<1>5. CASE Publish
  <2>1. /\ UNCHANGED <<indexed, came, fresh, req>> /\ served' = target
        /\ left' = IF req = Idle THEN left ELSE left \cup (Ancestors(served) \ Ancestors(target))
    BY <1>5 DEF Publish, PublishTarget
  <2>2. CASE Listing
    <3>1. req # Idle
      BY <2>2 DEF Listing, Idle
    <3> QED BY <1>1, <2>1, <2>2, <3>1, ThreadListing DEF SinceInv
  <2>3. CASE ~Listing
    <3>1. ~Listing'
      BY <2>1, <2>3 DEF Listing
    <3> QED BY <1>1, <2>1, <2>3, <3>1, OtherPages DEF SinceInv
  <2> QED BY <2>2, <2>3
<1>6. CASE Restart(b)
  <2>1. indexed' = indexed \cup Ancestors(b) /\ served' = b
    BY <1>6 DEF Restart, Reopen
  <2>2. IsFiniteSet(indexed')
    BY <1>1, <2>1, FiniteChain, FS_Union DEF SinceInv
  <2>3. CASE Listing
    <3>1. /\ req' = [req EXCEPT !.pc = "ask", !.page = <<>>, !.rows = {}]
          /\ fresh' = fresh \cup (Ancestors(b) \ indexed)
          /\ left' = left \cup (Ancestors(served) \ Ancestors(b)) /\ came' = came
      BY <1>6, <2>3 DEF Restart
    <3> QED BY <1>1, <1>2, <2>1, <2>2, <2>3, <3>1, ThreadListing DEF SinceInv
  <2>4. CASE ~Listing
    <3>1. req' = Idle /\ fresh' = {} /\ left' = {}
      BY <1>6, <2>4 DEF Restart
    <3>2. ~Listing'
      BY <3>1 DEF Listing, Idle
    <3> QED BY <2>2, <3>1, <3>2, OtherPages
  <2> QED BY <2>3, <2>4
<1> QED BY <1>3, <1>4, <1>5, <1>6

\* A request about blocks is no listing.
LEMMA HeaderReadPages == ASSUME IInv, FieldsInv, PagesInv, HeaderRead PROVE PagesInv'
<1>1. CASE Ask
  <2>1. /\ req' \in HeaderRequests /\ req = Idle /\ UNCHANGED <<indexed, fresh, left>>
    BY <1>1 DEF Ask, Come, chainVars
  <2>2. req'.kind \in HeaderKinds
    BY <1>1, AskFacts
  <2>3. ~Listing' /\ ~Listing
    BY <2>1, <2>2 DEF Listing, HeaderKinds, Idle
  <2> QED BY <2>1, <2>3, OtherPages DEF PagesInv, SinceInv
<1>2. CASE BlockRead
  <2>1. req.pc \notin {"idle", "ask", "scan", "colors", "done"}
    BY <1>2 DEF BlockRead, TtlByDepth, BlocksStart, BlocksWalk, BlockHeight, BlockStatus, BlockTxs,
         TxStatus, MerkleBlock, MerkleBlockHeader, MerkleBlockHeight, BlockHeader, BlockHeaders,
         HeaderProof, HeaderHashes
  <2>2. req.kind \in HeaderKinds
    BY <2>1, AboutBlocks
  <2>3. PICK c : Sets(c)
    BY <1>2, <2>2, ReadGets
  <2>4. req'.kind = req.kind /\ UNCHANGED <<indexed, left>>
    BY <2>2, <2>3, GetFrame DEF Sets
  <2>5. fresh' = fresh
    BY <2>3 DEF Sets, Get, history
  <2>6. ~Listing /\ ~Listing' /\ req' # Idle
    BY <2>2, <2>4 DEF Listing, HeaderKinds, Idle
  <2> QED BY <2>4, <2>5, <2>6, OtherPages DEF PagesInv, SinceInv
<1> QED BY <1>1, <1>2 DEF HeaderRead, BlockRead

LEMMA StepPages == ASSUME IInv, FieldsInv, PagesInv, [Next]_vars PROVE PagesInv'
<1>1. CASE HeaderRead
  BY <1>1, HeaderReadPages
<1>2. CASE PageRead
  BY <1>2, WalkPages, OpenHistoryPages, HistoryRowPages, AskColorsPages, OpenColorsPages, ColorRowPages
     DEF PageRead
<1>3. CASE \E b \in Blocks : Aim(b) \/ IndexBlock(b) \/ Restart(b)
  BY <1>3, ThreadPages
<1>4. CASE Publish
  <2>1. served \in Blocks
    BY DEF IInv, ChainTypeOK
  <2> QED BY <1>4, <2>1, ThreadPages
<1>5. CASE End
  <2>1. req' = Idle /\ fresh' = {} /\ left' = {} /\ indexed' = indexed
    BY <1>5 DEF End, chainVars
  <2>2. ~Listing'
    BY <2>1 DEF Listing, Idle
  <2> QED BY <2>1, <2>2, OtherPages DEF PagesInv, SinceInv
<1>6. CASE UNCHANGED vars
  <2>1. UNCHANGED <<indexed, served, came, fresh, left, req>>
    BY <1>6 DEF vars, chainVars, history
  <2>2. UNCHANGED <<TxHistoryRows, TxsAgain, WantedTxs, ColorIdRows, ColorsAgain, WantedColors>>
    BY <2>1, SameListings
  <2> QED BY <2>1, <2>2 DEF PagesInv, SinceInv, ListingFields, TxsInv, ColorsInv, Listing
<1> QED BY <1>1, <1>2, <1>3, <1>4, <1>5, <1>6 DEF Next

LEMMA PagesInvariance == Spec => [](IInv /\ PagesInv)
<1>1. Init => PagesInv
  <2> SUFFICES ASSUME Init PROVE PagesInv
    OBVIOUS
  <2>1. req = Idle /\ fresh = {} /\ left = {} /\ indexed = {served}
    BY DEF Init, ChainInit
  <2>2. IsFiniteSet({served})
    BY FS_Singleton
  <2> QED BY <2>1, <2>2 DEF PagesInv, SinceInv, ListingFields, TxsInv, ColorsInv, Listing, Idle
<1>2. IInv /\ RequestInv /\ PagesInv /\ [Next]_vars => PagesInv'
  BY StepPages DEF RequestInv
<1> QED BY <1>1, <1>2, RequestInvariance, PTL DEF Spec

-----------------------------------------------------------------------------
(* What the pages promise                                                   *)

\* In the terms of the properties
LEMMA PagesRead ==
  ASSUME NEW again
  PROVE  /\ ListedIds = IdsOf(req.listed)
         /\ (\A id \in Cursors : ~Again(again, id)) <=> Steady(req.listed, again)
         /\ NewestFirst(again) <=> (Steady(req.listed, again) => Sorted(req.listed))
<1>1. ListedIds = IdsOf(req.listed)
  BY DEF ListedIds, IdsOf
<1>2. (\A id \in Cursors : ~Again(again, id)) <=> Steady(req.listed, again)
  BY DEF Cursors, Steady
<1>3. NewestFirst(again) <=> (Steady(req.listed, again) => Sorted(req.listed))
  BY <1>2 DEF NewestFirst, Sorted
<1> QED BY <1>1, <1>2, <1>3

\* A listing that is answered has been read to its end.
LEMMA ListingRead ==
  ASSUME IInv, Listing, Answered
  PROVE  req.pc = "done"
BY DEF IInv, ShapeInv, Listing, HeaderKinds, Answered, Missed

LEMMA HistoryRead == ASSUME IInv, PagesInv PROVE HistoryPages
<1> SUFFICES ASSUME req.kind = "txs"
             PROVE  /\ Answered => \A b \in Ancestors(came) \ left : \A x \in TxsOf[b] :
                         TagsOf[x] # {} /\ ~Again(TxsAgain, x) => x \in ListedIds
                    /\ NewestFirst(TxsAgain)
  BY DEF HistoryPages, TxsAgain
<1>1. NewestFirst(TxsAgain)
  BY PagesRead DEF PagesInv, TxsInv
<1>2. ASSUME Answered, NEW b \in Ancestors(came) \ left, NEW x \in TxsOf[b], TagsOf[x] # {}, ~Again(TxsAgain, x)
      PROVE  x \in ListedIds
  <2>1. Listing /\ came \in Blocks
    BY DEF Listing, PagesInv, SinceInv
  <2>2. b \in Blocks /\ x \in Txs
    BY <2>1, ChainFacts, ServedChainAssumption
  <2>3. x \in WantedTxs
    BY <1>2, <2>2 DEF WantedTxs
  <2>4. req.pc = "done"
    BY <1>2, <2>1, ListingRead
  <2> QED BY <2>3, <2>4, PagesRead DEF PagesInv, TxsInv
<1> QED BY <1>1, <1>2

LEMMA ColorsRead == ASSUME IInv, PagesInv PROVE ColorPages
<1> DEFINE old == UNION {ColorRowsOf(b) : b \in indexed \ fresh}
<1> SUFFICES ASSUME req.kind = "colors"
             PROVE  /\ Answered => \A r \in old :
                         ~Again(ColorsAgain, r.id) /\ r = Top(RowsWith(old, r.id)) /\ r.height <= req.top =>
                           r.id \in ListedIds \/ \E id \in Cursors : Again(ColorsAgain, id)
                    /\ NewestFirst(ColorsAgain)
  BY DEF ColorPages, ColorsAgain
<1>1. NewestFirst(ColorsAgain)
  BY PagesRead DEF PagesInv, ColorsInv
<1>2. ASSUME Answered, NEW r \in old, ~Again(ColorsAgain, r.id), r = Top(RowsWith(old, r.id)), r.height <= req.top
      PROVE  r.id \in ListedIds \/ \E id \in Cursors : Again(ColorsAgain, id)
  <2>1. r \in WantedColors
    BY <1>2 DEF WantedColors
  <2>2. req.pc = "done"
    BY <1>2, ListingRead DEF Listing
  <2>3. Steady(req.listed, ColorsAgain) => r.id \in IdsOf(req.listed)
    BY <1>2, <2>1, <2>2 DEF PagesInv, ColorsInv
  <2> QED BY <2>3, PagesRead
<1> QED BY <1>1, <1>2

(* /address/:a/txs/chain: a client that has read page after page to the end *)
(* has seen every transaction that stayed confirmed where it was, whatever  *)
(* was indexed, given up or restarted meanwhile, unless it came up again;   *)
(* nothing twice, and newest first, unless a page continued from one that   *)
(* came up again.                                                           *)
THEOREM HistoryIsWhole == Spec => []HistoryPages
<1>1. IInv /\ PagesInv => HistoryPages
  BY HistoryRead
<1> QED BY <1>1, PagesInvariance, PTL

(* /colors/chain: every color with a row at or below the height that the    *)
(* first page began at, unless it was used again, or a page continued from  *)
(* one that was.                                                            *)
THEOREM ColorsAreWhole == Spec => []ColorPages
<1>1. IInv /\ PagesInv => ColorPages
  BY ColorsRead
<1> QED BY <1>1, PagesInvariance, PTL
=============================================================================
