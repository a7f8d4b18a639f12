------------------------------ MODULE MCQuery ------------------------------
(***************************************************************************)
(* Query with an old coin, its payment to the script asked about, and a    *)
(* transaction that spends the payment and pays to the script again.       *)
(***************************************************************************)
EXTENDS Query

CONSTANTS old, pay, child

AllTxs == {old, pay, child}
AllOuts == {"coin", "paid", "change"}
OutCreator == [o \in AllOuts |-> CASE o = "coin" -> old [] o = "paid" -> pay [] o = "change" -> child]
TxSpends == [x \in AllTxs |-> CASE x = pay -> {"coin"} [] x = child -> {"paid"} [] OTHER -> {}]

(* The view of TLC: two states that differ only in what no later step and   *)
(* no property of QueryReads looks at are explored once.                    *)

\* The transactions that a property of the request in progress names
Relevant ==
  CASE ask = "tx" -> {about}
    [] ask = "spend" -> {x \in Txs : about \in Spends[x]}
    [] ask \in {"history", "color", "txs"} -> {x \in Txs : Touches(x)}
    [] ask \in Unspents -> Txs
    [] OTHER -> {}

\* The coins of openassets.scripthash.listunspent have been listed.
Tracing ==
  ask = "assets" /\ todo \notin {Reads["assets"], <<"pool", "assets">>, <<"assets">>}

\* A transaction was late or given up only if electrs knew it, or if it pays.
Remembered ==
  IF ask = "txs" THEN orphan \cap known
  ELSE late \cap Relevant \cap (known \cup {Creator[o] : o \in Own})

WhatMatters ==
  <<vars, ask, about, todo, trace,
    IF Tracing THEN <<known \ late>>
    ELSE <<got, calm, known \cap Relevant, Remembered,
           IF ask \in Unspents THEN {x \in ever : Spends[x] \cap Own # {}} ELSE {}>> >>
=============================================================================
