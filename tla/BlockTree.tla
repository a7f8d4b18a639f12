------------------------------ MODULE BlockTree ------------------------------
(***************************************************************************)
(* The blocks tapyrusd may ever announce.  A block header names its parent *)
(* by hash, so a block determines the whole chain below it: ChainOf[b] is  *)
(* that chain, genesis first and b last.  Nothing here is code of electrs; *)
(* it is the shape that src/src/util/block.rs and src/src/daemon.rs rely   *)
(* on when they follow prev_blockhash.                                     *)
(***************************************************************************)
EXTENDS Integers, Sequences, Functions

CONSTANTS
  Blocks,    \* block hashes
  NoBlock,   \* BlockHash::default(), "no block"
  ChainOf    \* block -> the chain that ends with it

ASSUME NoBlockAssumption == NoBlock \notin Blocks

ASSUME ChainAssumption ==
  /\ ChainOf \in [Blocks -> Seq(Blocks)]
  /\ \A b \in Blocks :
       /\ Len(ChainOf[b]) >= 1
       /\ ChainOf[b][Len(ChainOf[b])] = b
       /\ \A i \in 1 .. Len(ChainOf[b]) :
            ChainOf[ChainOf[b][i]] = SubSeq(ChainOf[b], 1, i)

Height(b) == Len(ChainOf[b]) - 1

Ancestors(b) == Range(ChainOf[b])   \* b included

\* header.prev_blockhash
PrevBlockhash(b) ==
  IF Height(b) = 0 THEN NoBlock ELSE ChainOf[b][Height(b)]
=============================================================================
