----------------------------- MODULE HeaderReads -----------------------------
(***************************************************************************)
(* The requests about blocks: /blocks, /block-height, /block/:hash/status  *)
(* and /txs, /tx/:txid/status and the proofs of src/src/rest.rs, headers   *)
(* of src/src/electrum/server.rs with its merkle proofs.  They read the    *)
(* header list several times, and a chain may be published between two     *)
(* reads; rows and metadata of a block are found by its hash whatever is   *)
(* served, so that reading them is no step.                                *)
(***************************************************************************)
EXTENDS Reads

CONSTANTS
  BLOCK_LIMIT,   \* blocks that /blocks answers with
  CONF_FINAL,    \* depth at which an answer may be cached for long
  MaxHeight,     \* bound: the heights asked for
  MaxCount       \* bound: the headers asked for at once

ASSUME HeaderReadsAssumption ==
  /\ BLOCK_LIMIT \in Nat \ {0} /\ CONF_FINAL \in Nat
  /\ MaxHeight \in Nat /\ MaxCount \in Nat

Heights == 0 .. MaxHeight
Latest == -1    \* no start_height

\* What a client may ask for: "at" is a height or a block, "count" the number of
\* headers, "cp" cp_height.
Asked(kinds, ats, counts, cps) ==
  [kind : kinds, at : ats, count : counts, cp : cps]

Requests ==
  Asked({"blocks"}, Heights \cup {Latest}, {0}, {0})
  \cup Asked({"block-height"}, Heights, {0}, {0})
  \cup Asked({"status", "block-txs"}, Blocks, {0}, {0})
  \cup Asked({"tx", "merkleblock"}, Txs, {0}, {0})
  \cup Asked({"header"}, Heights, {1}, Heights)
  \cup Asked({"headers"}, Heights, 0 .. MaxCount, Heights)

\* "heads" and "hashes" are what was read so far.
HeaderRequests ==
  {[kind |-> r.kind, at |-> r.at, count |-> r.count, cp |-> r.cp,
    pc |-> CASE r.kind = "blocks" -> "start" [] r.kind = "headers" -> "headers" [] OTHER -> r.kind,
    heads |-> <<>>, hashes |-> <<>>, next |-> NoBlock, read |-> 0, ttl |-> "short"] : r \in Requests}

Ask == Come(HeaderRequests)

\* The number of confirmations in place of the depth.
TtlByDepth_Confirmations ==
  /\ req.pc = "ttl"
  /\ LET height == Height(req.heads[1]) IN
     IF Height(served) < height
     THEN Get([pc |-> "done", ttl |-> "long"]) \/ Get([pc |-> "panicked"])
     ELSE Get([pc |-> "done", ttl |-> IF Height(served) + 1 - height >= CONF_FINAL THEN "long" ELSE "short"])

\* ttl_by_depth(): best_height is asked for anew.  With a list that has become
\* shorter than the height the subtraction of usize wraps, or panics where
\* overflows are checked.
TtlByDepth ==
  /\ req.pc = "ttl"
  /\ LET height == Height(req.heads[1]) IN
     IF Height(served) < height
     THEN Get([pc |-> "done", ttl |-> "long"]) \/ Get([pc |-> "panicked"])
     ELSE Get([pc |-> "done", ttl |-> IF Height(served) - height >= CONF_FINAL THEN "long" ELSE "short"])

\* The first block of blocks()
BlocksStart ==
  /\ req.pc = "start"
  /\ LET first == IF req.at = Latest THEN served ELSE HeaderByHeight(req.at)
     IN Get([pc |-> IF first = NoBlock THEN "missing" ELSE "walk", next |-> first])

Walked(b) == Append(req.heads, b)

\* The walk does not stop at genesis.
BlocksWalk_PastGenesis ==
  /\ req.pc = "walk"
  /\ IF req.next = NoBlock \/ ~InBestChain(req.next) THEN Get([pc |-> "missing"])
     ELSE Get([heads |-> Walked(req.next), next |-> PrevBlockhash(req.next),
               pc |-> IF Len(Walked(req.next)) = BLOCK_LIMIT THEN "done" ELSE "walk"])

\* One turn of the loop of blocks(): get_block_with_meta()
BlocksWalk ==
  /\ req.pc = "walk"
  /\ IF ~InBestChain(req.next) THEN Get([pc |-> "missing"])
     ELSE LET prev == PrevBlockhash(req.next)
          IN Get([heads |-> Walked(req.next), next |-> prev,
                  pc |-> IF Len(Walked(req.next)) = BLOCK_LIMIT \/ prev = NoBlock
                         THEN "done" ELSE "walk"])

\* /block-height/:height
BlockHeight ==
  /\ req.pc = "block-height"
  /\ LET b == HeaderByHeight(req.at)
     IN Get(IF b = NoBlock THEN [pc |-> "missing"] ELSE [pc |-> "ttl", heads |-> <<b>>])

\* /block/:hash/status: get_block_status() takes the lock once.
BlockStatus ==
  /\ req.pc = "status"
  /\ Get(IF ~InBestChain(req.at) THEN [pc |-> "done"]
         ELSE [pc |-> "ttl", heads |-> <<req.at>>, next |-> HeaderByHeight(Height(req.at) + 1)])

\* /block/:hash/txs: the rows of an orphan are found, too; whether it is one is a
\* question of its own.
BlockTxs ==
  /\ req.pc = "block-txs"
  /\ Get(CASE req.at \notin indexed -> [pc |-> "missing"]
           [] InBestChain(req.at)   -> [pc |-> "ttl", heads |-> <<req.at>>]
           [] OTHER                 -> [pc |-> "done"])

\* /tx/:txid/status, /tx/:txid/merkle-proof
TxStatus ==
  /\ req.pc = "tx"
  /\ LET b == TxConfirmingBlock(req.at)
     IN Get(IF b = NoBlock THEN [pc |-> "done"] ELSE [pc |-> "ttl", heads |-> <<b>>])

\* get_merkleblock_proof(): the block of the transaction, then its header ...
MerkleBlock ==
  /\ req.pc = "merkleblock"
  /\ LET b == TxConfirmingBlock(req.at)
     IN Get(IF b = NoBlock THEN [pc |-> "missing"] ELSE [pc |-> "merkleheader", next |-> b])

MerkleBlockHeader ==
  /\ req.pc = "merkleheader"
  /\ Get(IF InBestChain(req.next) THEN [pc |-> "merkleheight", heads |-> <<req.next>>]
         ELSE [pc |-> "missing"])

\* ... and the height that the header has by now
MerkleBlockHeight ==
  /\ req.pc = "merkleheight"
  /\ Get([pc |-> IF InBestChain(req.next) THEN "ttl" ELSE "done"])

\* What comes after the headers: with cp_height 0 there is no proof.
AfterHeaders == IF req.cp = 0 \/ req.count = 0 THEN "done" ELSE "proof"

\* blockchain.block.header
BlockHeader ==
  /\ req.pc = "header"
  /\ LET b == HeaderByHeight(req.at)
     IN Get(IF b = NoBlock THEN [pc |-> "missing"] ELSE [pc |-> AfterHeaders, heads |-> <<b>>])

\* The range of heights includes its end.
BlockHeaders_Inclusive ==
  /\ req.pc = "headers"
  /\ LET b == HeaderByHeight(req.at + req.read)
     IN IF req.read > req.count THEN Get([pc |-> AfterHeaders])
        ELSE Get([read |-> req.read + 1, heads |-> IF b = NoBlock THEN req.heads ELSE Walked(b)])

\* blockchain.block.headers: one header after the other; the heights that the list
\* does not have are left out.
BlockHeaders ==
  /\ req.pc = "headers"
  /\ LET b == HeaderByHeight(req.at + req.read)
     IN IF req.read = req.count THEN Get([pc |-> AfterHeaders])
        ELSE Get([read |-> req.read + 1, heads |-> IF b = NoBlock THEN req.heads ELSE Walked(b)])

\* The header that is proved: the last of those asked for
ProofHeight == req.at + req.count - 1

\* get_header_merkle_proof(): best_height
HeaderProof ==
  /\ req.pc = "proof"
  /\ Get([pc |-> IF req.cp < ProofHeight \/ Height(served) < req.cp THEN "bad" ELSE "hashes"])

\* The hashes below cp_height only.
HeaderHashes_Exclusive ==
  /\ req.pc = "hashes"
  /\ LET b == HeaderByHeight(Len(req.hashes))
     IN IF Len(req.hashes) = req.cp THEN Get([pc |-> "done"])
        ELSE Get(IF b = NoBlock THEN [pc |-> "missing"] ELSE [hashes |-> Append(req.hashes, b)])

\* hash_by_height of 0 ..= cp_height, one after the other: the leaves of the tree
HeaderHashes ==
  /\ req.pc = "hashes"
  /\ LET b == HeaderByHeight(Len(req.hashes))
     IN IF Len(req.hashes) = req.cp + 1 THEN Get([pc |-> "done"])
        ELSE Get(IF b = NoBlock THEN [pc |-> "missing"] ELSE [hashes |-> Append(req.hashes, b)])

HeaderRead ==
  \/ Ask \/ TtlByDepth \/ BlocksStart \/ BlocksWalk \/ BlockHeight \/ BlockStatus \/ BlockTxs
  \/ TxStatus \/ MerkleBlock \/ MerkleBlockHeader \/ MerkleBlockHeight
  \/ BlockHeader \/ BlockHeaders \/ HeaderProof \/ HeaderHashes

-----------------------------------------------------------------------------
(* Properties                                                               *)

(* /blocks answers with the newest blocks of one chain, down to genesis     *)
(* (doc/API.md: "the 10 newest blocks starting at the tip or at             *)
(* start_height"); it, and the proof of a transaction, say "not found" only *)
(* when there was nothing to find or a reorganisation has taken the block   *)
(* away that the request had just come to.                                  *)
FoundUnlessLeft ==
  /\ req.kind = "blocks" /\ req.pc = "done" =>
       LET chain == ChainOf[req.heads[1]] IN
       /\ Len(req.heads) = IF Len(chain) < BLOCK_LIMIT THEN Len(chain) ELSE BLOCK_LIMIT
       /\ \A i \in DOMAIN req.heads : req.heads[i] = chain[Len(chain) + 1 - i]
  /\ req.kind \in {"blocks", "merkleblock"} /\ Missed =>
       \/ req.next \in left
       \/ /\ req.next = NoBlock /\ req.heads = <<>>
          /\ \/ left # {}
             \/ req.kind = "blocks" /\ req.at > Height(came)
             \/ req.kind = "merkleblock" /\ \A b \in Ancestors(came) : req.at \notin TxsOf[b]

\* Nothing of these heights was given up since the request came.
Kept(low, high) == \A b \in left : Height(b) \notin low .. high

(* The headers of an Electrum answer are those of the heights asked for, in *)
(* their order, one the parent of the next, unless one of these heights was *)
(* reorganised or the list has come to reach heights that it did not reach. *)
HeadersInLine ==
  LET high == req.at + req.count - 1 IN
  /\ req.kind \in {"header", "headers"} /\ req.pc = "done"
  /\ Kept(req.at, high) /\ (high <= Height(came) \/ served = came)
  => req.heads = SubSeq(ChainOf[served], req.at + 1,
                        IF high < Height(served) THEN high + 1 ELSE Height(served) + 1)

(* The proof that comes with them is about the header it is sent with: its  *)
(* leaves are the chain up to cp_height, of which the header is one         *)
(* (BranchesProve of MCAlgorithms does the rest), unless a block up to      *)
(* cp_height was given up while the hashes were read; it fails for want of  *)
(* a header in no other case.                                               *)
ProofOfOneChain ==
  req.kind \in {"header", "headers"} /\ Kept(0, req.cp) =>
    /\ req.pc = "done" /\ req.hashes # <<>> =>
         /\ req.hashes = SubSeq(ChainOf[served], 1, req.cp + 1)
         /\ ProofHeight <= req.cp
         /\ req.kind = "header" => req.heads[1] = req.hashes[ProofHeight + 1]
    /\ Missed => req.hashes = <<>>

(* An answer that may be cached for long is about a block CONF_FINAL deep,  *)
(* unless the chain gave the block up between the lookup and the question   *)
(* how high the chain is; only then can the subtraction go below zero.      *)
LongTtlFinal ==
  req.pc = "panicked" \/ (req.pc = "done" /\ ~Listing /\ req.ttl = "long") =>
    \/ req.heads[1] \in left
    \/ InBestChain(req.heads[1]) /\ Height(served) - Height(req.heads[1]) >= CONF_FINAL
=============================================================================
