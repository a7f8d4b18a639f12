---------------------------- MODULE MCChainReads -----------------------------
(***************************************************************************)
(* ChainReads on two branches, which confirm t2 and t3 in the two orders;  *)
(* t1 is in the first block.  t1 and t2 have a color in common, and each   *)
(* transaction has two rows in the history of the script.                  *)
(***************************************************************************)
EXTENDS ChainReads

CONSTANTS g, a1, a2, b1, b2

Tree == {g, a1, a2, b1, b2}

Chain(b) ==
  CASE b = g  -> <<g>>
    [] b = a1 -> <<g, a1>>
    [] b = a2 -> <<g, a1, a2>>
    [] b = b1 -> <<g, b1>>
    [] b = b2 -> <<g, b1, b2>>

Chains == [b \in Tree |-> Chain(b)]

AllTxs == 1 .. 3

Confirms ==
  [b \in Tree |-> CASE b = g  -> {1}
                    [] b \in {a1, b2} -> {3}
                    [] b \in {a2, b1} -> {2}]

AllColors == 1 .. 2
TxColors  == <<{1}, {1}, {2}>>
TwoTags   == [x \in AllTxs |-> {0, 1}]   \* funds and spends
=============================================================================
