------------------------------ MODULE MCIndexer ------------------------------
(***************************************************************************)
(* Indexer on a small tree: a common genesis, a branch of two blocks and   *)
(* one of three, so that tapyrusd can extend, reorganise to the longer     *)
(* branch, and with CanRollBack go back to an ancestor or the old branch.  *)
(***************************************************************************)
EXTENDS Indexer

CONSTANTS g, a1, a2, b1, b2, b3

Tree  == {g, a1, a2, b1, b2}
Tree3 == Tree \cup {b3}

Chain(b) ==
  CASE b = g  -> <<g>>
    [] b = a1 -> <<g, a1>>
    [] b = a2 -> <<g, a1, a2>>
    [] b = b1 -> <<g, b1>>
    [] b = b2 -> <<g, b1, b2>>
    [] b = b3 -> <<g, b1, b2, b3>>

Chains  == [b \in Tree |-> Chain(b)]
Chains3 == [b \in Tree3 |-> Chain(b)]
=============================================================================
