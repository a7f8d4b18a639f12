----------------------------- MODULE HeaderList ------------------------------
(***************************************************************************)
(* HeaderList of src/src/util/block.rs, the in-memory best chain that      *)
(* every query reads, as operators on a value                              *)
(*   [headers |-> the chain, genesis first,                                *)
(*    heights |-> block -> the height it was last inserted at,             *)
(*    tip     |-> hash of the last header applied].                        *)
(* The code never removes a key from heights, so the entries of orphaned   *)
(* blocks stay; NoHeight stands for an absent key.  HeaderEntry.height is  *)
(* kept with the list of new headers because order() derives it from       *)
(* heights.  Where the code asserts or panics, an operator ...Ok says that *)
(* it does not.                                                            *)
(***************************************************************************)
EXTENDS BlockTree

NoHeight == -1

Empty ==
  [headers |-> << >>, heights |-> [b \in Blocks |-> NoHeight], tip |-> NoBlock]

HeaderLists ==
  [headers : Seq(Blocks),
   heights : [Blocks -> Nat \cup {NoHeight}],
   tip     : Blocks \cup {NoBlock}]

-----------------------------------------------------------------------------
\* The lookup as it would be without the comparison of hashes: it answers with
\* whatever block took the orphan's place.
HeaderByBlockhash_NoHashCheck(hl, b) ==
  /\ hl.heights[b] # NoHeight
  /\ hl.heights[b] < Len(hl.headers)

\* header_by_blockhash is Some
HeaderByBlockhash(hl, b) ==
  /\ hl.heights[b] # NoHeight
  /\ hl.heights[b] < Len(hl.headers)
  /\ hl.headers[hl.heights[b] + 1] = b

\* How much of the chain below tip the list already has: the walk of
\* Daemon::get_new_headers goes back from tip and stops at the first header
\* that header_by_blockhash knows, or at genesis.
KnownPrefix(hl, tip) ==
  LET known == {i \in 1 .. Len(ChainOf[tip]) :
                  HeaderByBlockhash(hl, ChainOf[tip][i])}
  IN IF known = {} THEN 0
     ELSE CHOOSE i \in known : \A j \in known : j <= i

NewHeaders(hl, tip) ==
  SubSeq(ChainOf[tip], KnownPrefix(hl, tip) + 1, Len(ChainOf[tip]))

\* order(): the height of the first new header
FirstHeight(hl, hashes) ==
  IF hashes = << >> \/ PrevBlockhash(hashes[1]) = NoBlock THEN 0
  ELSE hl.heights[PrevBlockhash(hashes[1])] + 1

\* order() does not panic "... is not part of the blockchain"
OrderOk(hl, hashes) ==
  \/ hashes = << >>
  \/ PrevBlockhash(hashes[1]) = NoBlock
  \/ HeaderByBlockhash(hl, PrevBlockhash(hashes[1]))

Order(hl, hashes) == [height |-> FirstHeight(hl, hashes), hashes |-> hashes]

\* The indexing and the assertion on expected_prev_blockhash in apply()
ApplyOk(hl, new) ==
  \/ new.hashes = << >>
  \/ /\ new.height <= Len(hl.headers)
     /\ PrevBlockhash(new.hashes[1]) =
          (IF new.height = 0 THEN NoBlock ELSE hl.headers[new.height])

\* apply(): split_off at the first new height, push the new headers, enter them
\* in heights
Apply(hl, new) ==
  IF new.hashes = << >> THEN hl
  ELSE [headers |-> SubSeq(hl.headers, 1, new.height) \o new.hashes,
        heights |-> [b \in Blocks |->
                      IF \E i \in DOMAIN new.hashes : new.hashes[i] = b
                      THEN new.height + (CHOOSE i \in DOMAIN new.hashes :
                                            new.hashes[i] = b) - 1
                      ELSE hl.heights[b]],
        tip     |-> new.hashes[Len(new.hashes)]]

\* HeaderList::new: the chain walked back from the stored tip, applied to an
\* empty list
FromTip(tip) == Apply(Empty, Order(Empty, ChainOf[tip]))

-----------------------------------------------------------------------------
(* What the rest of the program relies on: the list is the one chain that   *)
(* ends with tip, and a lookup by hash finds exactly its blocks, whatever   *)
(* orphans heights still remembers.                                         *)
Coherent(hl) ==
  /\ hl.headers = (IF hl.tip = NoBlock THEN << >> ELSE ChainOf[hl.tip])
  /\ \A b \in Blocks : HeaderByBlockhash(hl, b) <=> b \in Range(hl.headers)
=============================================================================
