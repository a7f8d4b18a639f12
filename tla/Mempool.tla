------------------------------- MODULE Mempool -------------------------------
(***************************************************************************)
(* The view electrs keeps of tapyrusd's mempool, src/src/new_index/        *)
(* mempool.rs: update() by the main thread (run_server's loop in           *)
(* src/src/bin/electrs.rs, after the update of the index) and              *)
(* broadcast_raw() of src/src/new_index/query.rs by the request handlers,  *)
(* while tapyrusd accepts, replaces, mines, evicts and, on a               *)
(* reorganisation, takes back transactions between any two calls.          *)
(*                                                                         *)
(* The index is what Indexer guarantees of it: the outputs of a block can  *)
(* be looked up before the block is served, and stay when it is orphaned.  *)
(* A block is its set of transactions, a chain the union of its blocks.    *)
(* Not in the module: the list of recent transactions and the statistics   *)
(* of the backlog, which nothing else is computed from.                    *)
(***************************************************************************)
EXTENDS Integers

CONSTANTS
  Txs,       \* transactions
  Outs,      \* outputs
  Creator,   \* output -> the transaction that creates it
  Spends,    \* transaction -> the outputs it spends
  OldTxs,    \* transactions confirmed below any reorganisation
  Handlers   \* threads that handle requests

NoTx == "none"

ASSUME MempoolAssumption ==
  /\ NoTx \notin Txs
  /\ Creator \in [Outs -> Txs]
  /\ Spends \in [Txs -> SUBSET Outs]
  /\ OldTxs \subseteq Txs
  \* what a transaction spends was confirmed before it
  /\ \A x \in OldTxs : \A o \in Spends[x] : Creator[o] \in OldTxs

VARIABLES
  \* tapyrusd
  confirmed, \* transactions of its chain
  pool,      \* transactions of its mempool
  \* Store
  rows,      \* transactions whose outputs txstore_db has
  served,    \* transactions of the served chain
  \* Mempool
  txstore,   \* txids of txstore
  entries,   \* transaction -> how often its entries are in history and colors
  feeinfo,   \* txids of feeinfo and of overviews
  edges,     \* output -> the transaction it is known to be spent by, or NoTx
  \* threads
  pc,        \* the next step of the main thread
  aim,       \* the chain the update of the index works towards, while it does
  listed,    \* update(): the answer of getmempool(), until it returns
  sent,      \* handler -> the transaction tapyrusd took from it, or NoTx
  \* history
  displaced  \* transactions that tapyrusd took a conflicting one for

daemonVars == <<confirmed, pool>>
indexVars  == <<rows, served>>
viewVars   == <<txstore, entries, feeinfo, edges>>
vars == <<daemonVars, indexVars, viewVars, pc, aim, listed, sent, displaced>>

\* update() holds the write lock of the mempool from its first call on.
Locked == pc = "merge"

Parents(x) == {Creator[o] : o \in Spends[x]}

Conflicts(x) == {y \in Txs \ {x} : Spends[x] \cap Spends[y] # {}}

\* D has every transaction of the mempool that spends from one of D.
ClosedDown(D, within) == \A y \in within : Parents(y) \cap D # {} => y \in D

\* S and what depends on it: the least such set
Descendants(S, within) ==
  {x \in S \cup within :
     \A D \in SUBSET (S \cup within) : S \subseteq D /\ ClosedDown(D, within) => x \in D}

TypeOK ==
  /\ confirmed \in SUBSET Txs /\ pool \in SUBSET Txs
  /\ rows \in SUBSET Txs /\ served \in SUBSET Txs
  /\ txstore \in SUBSET Txs
  /\ entries \in [Txs -> Nat]
  /\ feeinfo \in SUBSET Txs
  /\ edges \in [Outs -> Txs \cup {NoTx}]
  /\ pc \in {"loop", "rows", "publish", "mempool", "merge"}
  /\ aim \in SUBSET Txs /\ listed \in SUBSET Txs
  /\ sent \in [Handlers -> Txs \cup {NoTx}]
  /\ displaced \in SUBSET Txs
  \* the tables of a transaction are filled and emptied together
  /\ feeinfo = {x \in Txs : entries[x] > 0}

\* The first update of the index is done, that of the mempool is next.
Init ==
  /\ confirmed = OldTxs /\ pool = {}
  /\ rows = OldTxs /\ served = OldTxs
  /\ txstore = {} /\ feeinfo = {}
  /\ entries = [x \in Txs |-> 0]
  /\ edges = [o \in Outs |-> NoTx]
  /\ pc = "mempool" /\ aim = {} /\ listed = {}
  /\ sent = [h \in Handlers |-> NoTx]
  /\ displaced = {}

-----------------------------------------------------------------------------
(* tapyrusd                                                                 *)

Acceptable(x) ==
  /\ x \notin confirmed \cup pool
  /\ Parents(x) \subseteq confirmed \cup pool
  /\ Conflicts(x) \cap confirmed = {}
  /\ Parents(x) \cap Descendants(Conflicts(x) \cap pool, pool) = {}

\* A transaction replaces those it conflicts with, and all that spend from them.
Take(x) ==
  /\ Acceptable(x)
  /\ pool' = (pool \ Descendants(Conflicts(x) \cap pool, pool)) \cup {x}
  /\ displaced' = displaced \cup (Conflicts(x) \cap (pool \cup txstore))

Accept(x) ==
  /\ Take(x)
  /\ UNCHANGED <<confirmed, indexVars, viewVars, pc, aim, listed, sent>>

Evict(x) ==
  /\ x \in pool
  /\ pool' = pool \ Descendants({x}, pool)
  /\ UNCHANGED <<confirmed, indexVars, viewVars, pc, aim, listed, sent, displaced>>

Mine(S) ==
  /\ S \subseteq pool /\ S # {}
  /\ \A x \in S : Parents(x) \subseteq confirmed \cup S
  /\ confirmed' = confirmed \cup S
  /\ pool' = pool \ S
  /\ UNCHANGED <<indexVars, viewVars, pc, aim, listed, sent, displaced>>

\* Transactions of a disconnected block go back to the mempool.
Disconnect(S) ==
  /\ S \subseteq confirmed \ OldTxs /\ S # {}
  /\ \A y \in confirmed : Parents(y) \cap S # {} => y \in S
  /\ confirmed' = confirmed \ S
  /\ pool' = pool \cup S
  /\ UNCHANGED <<indexVars, viewVars, pc, aim, listed, sent, displaced>>

-----------------------------------------------------------------------------
(* Mempool                                                                  *)

\* lookup_txos(get_prevouts(..)): an output of the index, or of a transaction
\* of the mempool
AllFound(S, store) ==
  \A x \in S : Parents(x) \subseteq rows \cup store

\* add() as far as the tables of indexed transactions go: phase 1 puts all of S
\* into txstore; phase 2 is skipped for all of S when any prevout is missing.
Indexed(S, store) == IF AllFound(S, store) THEN S ELSE {}

EntriesWith(I) == [x \in Txs |-> entries[x] + (IF x \in I THEN 1 ELSE 0)]

\* An edge that is there is kept.
EdgesWith_FirstWins(I) ==
  [o \in Outs |-> IF edges[o] = NoTx /\ \E x \in I : o \in Spends[x]
                  THEN CHOOSE x \in I : o \in Spends[x]
                  ELSE edges[o]]

EdgesWith(I) ==
  [o \in Outs |-> IF \E x \in I : o \in Spends[x]
                  THEN CHOOSE x \in I : o \in Spends[x]
                  ELSE edges[o]]

Add(S) ==
  LET I == Indexed(S, txstore \cup S) IN
  /\ txstore' = txstore \cup S
  /\ entries' = EntriesWith(I)
  /\ feeinfo' = feeinfo \cup I
  /\ edges'   = EdgesWith(I)

\* remove() that forgets to clean up the edges
AddRemove_KeepEdges(S, R) ==
  LET I == Indexed(S, txstore \cup S) IN
  /\ txstore' = (txstore \cup S) \ R
  /\ entries' = [x \in Txs |-> IF x \in R THEN 0 ELSE EntriesWith(I)[x]]
  /\ feeinfo' = (feeinfo \cup I) \ R
  /\ edges'   = EdgesWith(I)

\* add(S), then remove(R)
AddRemove(S, R) ==
  LET I == Indexed(S, txstore \cup S) IN
  /\ txstore' = (txstore \cup S) \ R
  /\ entries' = [x \in Txs |-> IF x \in R THEN 0 ELSE EntriesWith(I)[x]]
  /\ feeinfo' = (feeinfo \cup I) \ R
  /\ edges'   = [o \in Outs |-> IF EdgesWith(I)[o] \in R THEN NoTx
                                ELSE EdgesWith(I)[o]]

-----------------------------------------------------------------------------
(* The main thread                                                          *)

\* The index is brought up to date if the chain has changed.
PollTip ==
  /\ pc = "loop"
  /\ IF confirmed = served THEN pc' = "mempool" /\ UNCHANGED aim
     ELSE pc' = "rows" /\ aim' = confirmed
  /\ UNCHANGED <<daemonVars, indexVars, viewVars, listed, sent, displaced>>

WriteRows ==
  /\ pc = "rows"
  /\ rows' = rows \cup aim
  /\ pc' = "publish"
  /\ UNCHANGED <<daemonVars, served, viewVars, aim, listed, sent, displaced>>

Publish ==
  /\ pc = "publish"
  /\ served' = aim /\ aim' = {}
  /\ pc' = "mempool"
  /\ UNCHANGED <<daemonVars, rows, viewVars, listed, sent, displaced>>

\* update(): the write lock, getmempool()
GetMempool ==
  /\ pc = "mempool"
  /\ listed' = pool
  /\ pc' = "merge"
  /\ UNCHANGED <<daemonVars, indexVars, viewVars, aim, sent, displaced>>

\* gettransactions() finds the transactions of the mempool only (no txindex);
\* if one of them has left it, update() keeps everything until the next time.
Merge_AddOnly ==
  /\ pc = "merge"
  /\ IF listed \ txstore \subseteq pool THEN AddRemove(listed \ txstore, {})
     ELSE UNCHANGED viewVars
  /\ pc' = "loop" /\ listed' = {}
  /\ UNCHANGED <<daemonVars, indexVars, aim, sent, displaced>>

Merge ==
  /\ pc = "merge"
  /\ IF listed \ txstore \subseteq pool
     THEN AddRemove(listed \ txstore, txstore \ listed)
     ELSE UNCHANGED viewVars
  /\ pc' = "loop" /\ listed' = {}
  /\ UNCHANGED <<daemonVars, indexVars, aim, sent, displaced>>

-----------------------------------------------------------------------------
(* The handlers                                                             *)

\* sendrawtransaction succeeds
Broadcast(h, x) ==
  /\ sent[h] = NoTx
  /\ Take(x)
  /\ sent' = [sent EXCEPT ![h] = x]
  /\ UNCHANGED <<confirmed, indexVars, viewVars, pc, aim, listed>>

\* No look at the txstore before.
AddByTxid_Unchecked(h) ==
  /\ sent[h] # NoTx
  /\ ~Locked
  /\ IF sent[h] \in pool THEN Add({sent[h]}) ELSE UNCHANGED viewVars
  /\ sent' = [sent EXCEPT ![h] = NoTx]
  /\ UNCHANGED <<daemonVars, indexVars, pc, aim, listed, displaced>>

\* add_by_txid() under the write lock
AddByTxid(h) ==
  /\ sent[h] # NoTx
  /\ ~Locked
  /\ IF sent[h] \notin txstore /\ sent[h] \in pool THEN Add({sent[h]})
     ELSE UNCHANGED viewVars
  /\ sent' = [sent EXCEPT ![h] = NoTx]
  /\ UNCHANGED <<daemonVars, indexVars, pc, aim, listed, displaced>>

Daemon ==
  \/ \E x \in Txs : Accept(x) \/ Evict(x)
  \/ \E S \in SUBSET Txs : Mine(S) \/ Disconnect(S)

MainThread == PollTip \/ WriteRows \/ Publish \/ GetMempool \/ Merge

Next ==
  \/ Daemon
  \/ MainThread
  \/ \E h \in Handlers : AddByTxid(h) \/ \E x \in Txs : Broadcast(h, x)

(* The main thread's waits (tapyrusd's answers, the lock, the 5 seconds of  *)
(* signal.wait) end, and a handler gets the lock.                           *)
Fairness == WF_vars(MainThread) /\ \A h \in Handlers : WF_vars(AddByTxid(h))

Spec == Init /\ [][Next]_vars /\ Fairness

-----------------------------------------------------------------------------
(* The history of a script and of a color name transactions of txstore only *)
(* (_history's and get_colored_txs' expect, "missing mempool tx"), and each *)
(* once, although the main thread and the handlers both add transactions:   *)
(* the statistics of a script would count it twice.                         *)
HistoryExact ==
  \A x \in Txs : entries[x] <= (IF x \in txstore THEN 1 ELSE 0)

(* An output is known as spent only by a transaction that spends it and     *)
(* that the mempool still has: whatever was replaced, evicted or confirmed, *)
(* has_spend() does not hide an output for good.                            *)
EdgesSound ==
  \A o \in Outs :
    edges[o] # NoTx =>
      o \in Spends[edges[o]] /\ edges[o] \in txstore /\ entries[edges[o]] = 1

(* Of an indexed transaction no spent output is forgotten, even if it is    *)
(* entered before the one it replaces is removed (update() adds first);     *)
(* only if tapyrusd goes back to a transaction that had been replaced.      *)
EdgesComplete ==
  \A x \in Txs \ displaced :
    entries[x] > 0 => \A o \in Spends[x] : edges[o] # NoTx

(* The index and the mempool are those of tapyrusd.                         *)
Current == served = confirmed /\ txstore = pool

(* "Any output that is spent in the mempool does not appear"                *)
(* (doc/protocol.md, listunspent), when electrs has caught up: has_spend()  *)
(* is true of each output that a transaction of the mempool spends.         *)
SpentInPoolHidden ==
  Current => \A x \in txstore : \A o \in Spends[x] : edges[o] # NoTx

(* When tapyrusd settles, electrs has its chain and its mempool in the end. *)
Settles == <>[][FALSE]_daemonVars => <>[]Current
=============================================================================
