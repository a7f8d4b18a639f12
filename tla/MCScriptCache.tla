---------------------------- MODULE MCScriptCache ----------------------------
(***************************************************************************)
(* ScriptCache on the tree of MCIndexer, with four transactions of a       *)
(* script: t1 funds two outputs, t2 spends one of them and funds another,  *)
(* of another color if there are two, t3 spends the other of the two, and  *)
(* t4 the output of t2.                                                    *)
(***************************************************************************)
EXTENDS ScriptCache, TLC

CONSTANTS g, a1, a2, b1, b2, b3

Tree == {g, a1, a2, b1, b2, b3}

Chain(b) ==
  CASE b = g  -> <<g>>
    [] b = a1 -> <<g, a1>>
    [] b = a2 -> <<g, a1, a2>>
    [] b = b1 -> <<g, b1>>
    [] b = b2 -> <<g, b1, b2>>
    [] b = b3 -> <<g, b1, b2, b3>>

Chains == [b \in Tree |-> Chain(b)]

Symmetry == Permutations(Queries)

AllTxs  == 1 .. 4
AllOuts == {"o1", "o2", "o3"}

TxCreates == <<{"o1", "o2"}, {"o3"}, {}, {}>>
TxSpends  == <<{}, {"o1"}, {"o2"}, {"o3"}>>
TxActs    == <<{"Issuing"}, {"Issuing", "Transferring"}, {"Burning"}, {}>>

OneColor  == {0}
TwoColors == {0, 1}
SameColor == [o \in AllOuts |-> 0]
OutColor  == [o \in AllOuts |-> IF o = "o3" THEN 1 ELSE 0]

\* Both branches confirm t1 at the same height and t2, which spends an output of t1
\* and funds another, one block later on the longer branch: the rows of a2 are left,
\* and those of b3 are there before it is published.  t3 and t4 are on one branch.
Confirmed ==
  [b \in Tree |-> CASE b = a1 -> {1}
                    [] b = a2 -> {2, 4}
                    [] b = b1 -> {1, 3}
                    [] b = b3 -> {2}
                    [] OTHER -> {}]

\* ColoredCalm and StatsCalm say nothing of what follows an upset: a row that is
\* counted twice may be counted again by every request.
StatsUntilUpset == (\E i \in Queries : q[i].kind # "utxo") => upsets = {}
=============================================================================
