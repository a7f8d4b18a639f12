------------------------------ MODULE MCMempool ------------------------------
(***************************************************************************)
(* Mempool with one old transaction, a payment, one that replaces it, and  *)
(* one that spends the payment's output.                                   *)
(***************************************************************************)
EXTENDS Mempool

CONSTANTS old, pay, rival, child

AllTxs  == {old, pay, rival, child}
AllOuts == {"coin", "paid"}

OutCreator == [o \in AllOuts |-> IF o = "coin" THEN old ELSE pay]

TxSpends ==
  [x \in AllTxs |-> CASE x \in {pay, rival} -> {"coin"}
                      [] x = child -> {"paid"}
                      [] OTHER -> {}]
=============================================================================
