----------------------------- MODULE ChainReads ------------------------------
(***************************************************************************)
(* The requests about blocks and the listings, over one index that goes on *)
(* changing.                                                               *)
(***************************************************************************)
EXTENDS HeaderReads, Pages

Next ==
  \/ \E b \in Blocks : Aim(b) \/ IndexBlock(b) \/ Restart(b)
  \/ Publish
  \/ HeaderRead \/ PageRead \/ End

Spec == Init /\ [][Next]_vars
=============================================================================
