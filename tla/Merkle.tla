------------------------------- MODULE Merkle -------------------------------
(***************************************************************************)
(* Merkle branches, src/src/util/electrum_merkle.rs.  A hash of two nodes  *)
(* is the pair of them: no two pairs have the same hash.                   *)
(***************************************************************************)
EXTENDS Integers, Sequences, SequencesExt

NoProof == [merkle |-> <<>>, error |-> TRUE]

merklize(left, right) == <<left, right>>

\* The first hash of an odd level is repeated.
Padded_First(hashes) ==
  IF Len(hashes) % 2 = 1 THEN Append(hashes, hashes[1]) ELSE hashes

\* The last hash of an odd level is repeated.
Padded(hashes) ==
  IF Len(hashes) % 2 = 1 THEN Append(hashes, hashes[Len(hashes)]) ELSE hashes

\* Indices start at 0, as in the code.
Sibling(index) == IF index % 2 = 0 THEN index + 1 ELSE index - 1

\* One turn of the loop: from the hashes of a level, the index in it and the branch
\* so far to those of the next level.
NextLevel(s) ==
  LET level == Padded(s.hashes)
  IN [hashes |-> [i \in 1 .. Len(level) \div 2 |-> merklize(level[2 * i - 1], level[2 * i])],
      index  |-> Sibling(s.index) \div 2,
      merkle |-> Append(s.merkle, level[Sibling(s.index) + 1])]

\* create_merkle_branch_and_root(): as many turns as it takes to have one hash.
BranchAndRoot(hashes, index) ==
  LET at[turn \in Nat] ==
        IF turn = 0 THEN [hashes |-> hashes, index |-> index, merkle |-> <<>>]
        ELSE LET s == at[turn - 1] IN IF Len(s.hashes) > 1 THEN NextLevel(s) ELSE s
      end == at[Len(hashes)]
  IN [merkle |-> end.merkle, root |-> end.hashes[1]]

\* get_tx_merkle_proof() of a block with these transactions
TxMerkleProof(txids, txid) ==
  IF ~Contains(txids, txid) THEN NoProof
  ELSE LET pos == SelectInSeq(txids, LAMBDA t : t = txid) - 1
       IN [merkle |-> BranchAndRoot(txids, pos).merkle, pos |-> pos]

\* get_header_merkle_proof() for a header list that is not replaced meanwhile
HeaderMerkleProof(headers, height, cpHeight) ==
  IF cpHeight < height \/ Len(headers) - 1 < cpHeight THEN NoProof
  ELSE BranchAndRoot(SubSeq(headers, 1, cpHeight + 1), height)

\* get_id_from_pos() with want_merkle
IdFromPos(txids, pos) ==
  IF pos >= Len(txids) THEN NoProof
  ELSE [txid |-> txids[pos + 1], merkle |-> BranchAndRoot(txids, pos).merkle]

-----------------------------------------------------------------------------
(* What a proof is good for.                                               *)

\* The node at place i (from 0) of the level that is h above the leaves, in a tree
\* whose levels of odd size repeat their last node.
Node(leaves) ==
  LET last(h) == (Len(leaves) + 2 ^ h - 1) \div 2 ^ h - 1
      node[h \in Nat, i \in Nat] ==
        IF h = 0 THEN leaves[i + 1]
        ELSE merklize(node[h - 1, 2 * i],
                      node[h - 1, IF 2 * i + 1 > last(h - 1) THEN last(h - 1) ELSE 2 * i + 1])
  IN node

\* The levels above the leaves.
Depth(leaves) == CHOOSE h \in 0 .. Len(leaves) :
                   /\ 2 ^ h >= Len(leaves)
                   /\ \A g \in 0 .. h - 1 : 2 ^ g < Len(leaves)

MerkleRoot(leaves) == Node(leaves)[Depth(leaves), 0]

\* The root that a client gets from a leaf, its position and the branch.
ClientRoot(leaf, pos, branch) ==
  FoldLeftDomain(LAMBDA hash, i : IF (pos \div 2 ^ (i - 1)) % 2 = 0
                                  THEN merklize(hash, branch[i])
                                  ELSE merklize(branch[i], hash),
                 leaf, branch)
=============================================================================
