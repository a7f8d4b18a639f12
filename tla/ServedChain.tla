----------------------------- MODULE ServedChain -----------------------------
(***************************************************************************)
(* The index as requests see it while the indexing thread works: the rows  *)
(* of a block are written in one step and before the block is served, and  *)
(* served is the tip of one whole chain (ServedComplete, HeaderListCoherent *)
(* of Indexer).  Modules about requests extend this one, say which blocks  *)
(* the thread may aim at, and add what a step of it means to a request.    *)
(***************************************************************************)
EXTENDS BlockTree, FiniteSets

CONSTANTS
  Txs,     \* transactions
  TxsOf    \* block -> its transactions

ASSUME ServedChainAssumption ==
  /\ TxsOf \in [Blocks -> SUBSET Txs]
  \* a chain confirms a transaction once
  /\ \A b \in Blocks : \A c \in Ancestors(b) \ {b} : TxsOf[b] \cap TxsOf[c] = {}

VARIABLES
  indexed,  \* txstore_db and history_db: blocks whose rows are written
  served,   \* Store.indexed_headers: its tip
  target    \* the best block the running update works towards

chainVars == <<indexed, served, target>>

ChainTypeOK ==
  /\ indexed \in SUBSET Blocks
  /\ served \in Blocks /\ target \in Blocks
  /\ Ancestors(served) \subseteq indexed

ChainInit ==
  /\ served \in {b \in Blocks : Height(b) = 0}
  /\ indexed = {served} /\ target = served

\* getbestblockhash() of an update
TakeTarget(b) ==
  /\ served = target /\ b # target
  /\ target' = b
  /\ UNCHANGED <<indexed, served>>

\* Requests are served after the first update only, so these blocks come from
\* tapyrusd_fetcher, in the order of their heights.
WriteRows(b) ==
  /\ b \in Ancestors(target) \ indexed
  /\ Ancestors(b) \ {b} \subseteq indexed
  /\ indexed' = indexed \cup {b}
  /\ UNCHANGED <<served, target>>

\* headers.apply(..)
PublishTarget ==
  /\ served # target /\ Ancestors(target) \subseteq indexed
  /\ served' = target
  /\ UNCHANGED <<indexed, target>>

\* The process dies, perhaps within an update, and comes up again: requests are
\* served when its first update has ended, with the rows of earlier ones kept.
Reopen(b) ==
  /\ indexed' = indexed \cup Ancestors(b)
  /\ served' = b /\ target' = b

-----------------------------------------------------------------------------
(* Lookups, each of one moment: the list is locked for one at a time.       *)

\* header_by_height, hash_by_height
HeaderByHeight(h) ==
  IF h <= Height(served) THEN ChainOf[served][h + 1] ELSE NoBlock

\* header_by_blockhash is Some
InBestChain(b) == b \in Ancestors(served)

\* tx_confirming_block: a "C" row whose block the header list has
TxConfirmingBlock(tx) ==
  LET confs == {b \in Ancestors(served) : tx \in TxsOf[b]}
  IN IF confs = {} THEN NoBlock ELSE CHOOSE b \in confs : TRUE
=============================================================================
