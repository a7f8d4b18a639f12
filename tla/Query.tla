------------------------------- MODULE Query -------------------------------
(***************************************************************************)
(* The answers to REST and Electrum requests, src/src/new_index/query.rs   *)
(* and handle_request() of src/src/rest.rs: several reads of the index and *)
(* of the mempool, each of one moment, put together while the main thread  *)
(* publishes chains and merges mempools (Mempool).                         *)
(*                                                                         *)
(* One request is in progress at a time, since requests do not change what *)
(* others read.  What a read of the chain returns is taken from one chain; *)
(* ScriptCache has the scan behind it.  Limits and pages are left out.     *)
(***************************************************************************)
EXTENDS Mempool, Sequences, FiniteSets

CONSTANTS
  Own,    \* the outputs that pay to the script, or the color, asked about
  Marked  \* transactions with an Open Assets marker

ASSUME QueryAssumption ==
  /\ Own \subseteq Outs /\ Marked \subseteq Txs
  /\ IsFiniteSet(Own) /\ \A x \in Txs : IsFiniteSet(Spends[x])

VARIABLES
  ask,    \* the request in progress, or "none"
  about,  \* the transaction or the output it names
  todo,   \* the reads to come
  got,    \* what was read: <<transaction or output, where>>
  trace,  \* the transactions whose assets are to be computed, the next one first
  known,  \* history: transactions electrs has had ever since the request came
  ever,   \* history: transactions electrs has had at some time since then
  late,   \* history: transactions the index got since then, or that were in both
  orphan, \* history: transactions whose block was given up since then
  calm    \* history: electrs has been up to date and nothing has moved since then

requestVars == <<ask, about, todo, got, trace>>
historyVars == <<known, ever, late, orphan, calm>>
queryVars == <<vars, requestVars, historyVars>>

\* The history of an address takes the chain first, too.
Reads_ChainFirst ==
  [utxo    |-> <<"chain", "pool">>,
   assets  |-> <<"chain", "pool", "assets">>,
   history |-> <<"chain", "pool">>,
   color   |-> <<"chain", "pool", "prevouts">>,
   txs     |-> <<"chain", "pool", "prevouts">>,
   chain   |-> <<"chain", "prevouts">>,
   mempool |-> <<"pool", "prevouts">>,
   tx      |-> <<"chain", "pool", "status", "prevouts">>,
   spend   |-> <<"chain", "pool">>]

Reads ==
  [utxo    |-> <<"chain", "pool">>,              \* /address/:a/utxo
   assets  |-> <<"chain", "pool", "assets">>,    \* openassets.scripthash.listunspent
   history |-> <<"chain", "pool">>,              \* get_history, stats()
   color   |-> <<"chain", "pool", "prevouts">>,  \* /color/:c/txs
   txs     |-> <<"pool", "chain", "prevouts">>,  \* /address/:a/txs
   chain   |-> <<"chain", "prevouts">>,          \* /address/:a/txs/chain
   mempool |-> <<"pool", "prevouts">>,           \* /address/:a/txs/mempool
   tx      |-> <<"chain", "pool", "status", "prevouts">>,  \* /tx/:txid
   spend   |-> <<"chain", "pool">>]              \* /tx/:txid/outspend/:vout

\* lookup_txn(), lookup_spend(): the mempool is asked when the chain has nothing.
OrElse == {"tx", "spend"}

Unspents == {"utxo", "assets"}

\* The members of a set, one after the other
Orders(S) ==
  {f \in [1 .. Cardinality(S) -> S] : \A i, j \in DOMAIN f : f[i] = f[j] => i = j}

Things(request) ==
  CASE request = "tx" -> Txs
    [] request = "spend" -> Outs
    [] OTHER -> {NoTx}

Touches(x) == Own \cap Spends[x] # {} \/ \E o \in Own : Creator[o] = x

-----------------------------------------------------------------------------
(* The reads.                                                              *)

\* T and O rows are found by their hash, the rows of a script or an edge count when
\* tx_confirming_block() finds their transaction in the served chain.
ChainRead ==
  CASE ask \in Unspents ->
         {o \in Own : Creator[o] \in served /\ \A x \in served : o \notin Spends[x]}
    [] ask = "tx" -> {about} \cap rows
    [] ask = "spend" -> {x \in served : about \in Spends[x]}
    [] OTHER -> {x \in served : Touches(x)}

\* The transactions of history and colors.
InHistory == {x \in Txs : entries[x] > 0}

\* The outputs are not filtered by has_spend().
PoolRead_KeepSpent ==
  CASE ask \in Unspents -> {o \in Own : Creator[o] \in InHistory}
    [] ask = "tx" -> {about} \cap txstore
    [] ask = "spend" -> {edges[about]} \ {NoTx}
    [] OTHER -> {x \in InHistory : Touches(x)}

\* _history() and utxo() of the mempool, lookup_txn(), lookup_spend()
PoolRead ==
  CASE ask \in Unspents -> {o \in Own : Creator[o] \in InHistory /\ edges[o] = NoTx}
    [] ask = "tx" -> {about} \cap txstore
    [] ask = "spend" -> {edges[about]} \ {NoTx}
    [] OTHER -> {x \in InHistory : Touches(x)}

Reading(where) ==
  /\ ask # "none" /\ todo # <<>> /\ Head(todo) = where
  /\ UNCHANGED <<vars, ask, about, historyVars>>

ReadChain ==
  /\ Reading("chain") /\ UNCHANGED trace
  /\ got' = got \cup (ChainRead \X {"chain"})
  /\ todo' = IF ask \in OrElse /\ ChainRead # {} THEN Tail(Tail(todo)) ELSE Tail(todo)

\* utxo() keeps what the chain lists as unspent.
ReadPool_KeepChain ==
  /\ Reading("pool") /\ ~Locked /\ UNCHANGED trace
  /\ got' = got \cup (PoolRead \X {"pool"})
  /\ todo' = IF ask = "tx" /\ PoolRead = {} THEN <<>> ELSE Tail(todo)

\* Without a transaction the answer is "not found".
ReadPool ==
  /\ Reading("pool") /\ ~Locked /\ UNCHANGED trace
  /\ got' = {g \in got : ask \in Unspents => edges[g[1]] = NoTx} \cup (PoolRead \X {"pool"})
  /\ todo' = IF ask = "tx" /\ PoolRead = {} THEN <<>> ELSE Tail(todo)

ReadStatus ==
  /\ Reading("status") /\ UNCHANGED trace
  /\ got' = got \cup (({about} \cap served) \X {"status"})
  /\ todo' = Tail(todo)

Found == {g[1] : g \in got}

\* prepare_txs(): the outputs that the transactions of the answer spend.
LookupTxos ==
  /\ Reading("prevouts") /\ ~Locked /\ UNCHANGED trace
  /\ todo' = IF AllFound(Found, txstore) THEN <<>> ELSE <<"panic">>
  /\ UNCHANGED got

\* open_assets(): the transactions of the outputs, in some order, then the assets of
\* one after the other.
OpenAssets ==
  /\ Reading("assets")
  /\ \E f \in Orders({Creator[o] : o \in Found}) :
       trace' = [i \in DOMAIN f |-> [tx |-> f[i], where |-> "chain", must |-> FALSE]]
  /\ todo' = IF trace' = <<>> THEN <<>> ELSE <<"trace">>
  /\ UNCHANGED got

\* get_output() asks the mempool only.
Inputs_PoolOnly(x) ==
  LET f == CHOOSE f \in Orders(Spends[x]) : TRUE
  IN IF x \notin Marked THEN <<>>
     ELSE [i \in DOMAIN f |-> [tx |-> Creator[f[i]], where |-> "pool", must |-> TRUE]]

\* get_output() of every input, if one output is a marker; each has to be found.
Inputs(x) ==
  LET f == CHOOSE f \in Orders(Spends[x]) : TRUE
  IN IF x \notin Marked THEN <<>>
     ELSE [i \in DOMAIN f |-> [tx |-> Creator[f[i]], where |-> "chain", must |-> TRUE]]

\* The transactions still to be looked up
Then(t) == trace' = t /\ todo' = IF t = <<>> THEN <<>> ELSE todo

\* lookup_txn() asks the chain, then the mempool.  An output whose transaction is not
\* found counts as uncolored; get_output() expects to find it.
LookupTxn ==
  /\ Reading("trace")
  /\ LET next == Head(trace)
     IN \/ next.where = "chain" /\ next.tx \in rows /\ Then(Inputs(next.tx) \o Tail(trace))
        \/ next.where = "chain" /\ next.tx \notin rows
           /\ Then(<<[next EXCEPT !.where = "pool"]>> \o Tail(trace))
        \/ next.where = "pool" /\ ~Locked
           /\ IF next.tx \in txstore THEN Then(Inputs(next.tx) \o Tail(trace))
              ELSE IF next.must THEN todo' = <<"panic">> /\ UNCHANGED trace
              ELSE Then(Tail(trace))
  /\ UNCHANGED got

-----------------------------------------------------------------------------

Have == served \cup InHistory
Both == served \cap InHistory

Ask ==
  /\ ask = "none"
  /\ ask' \in DOMAIN Reads
  /\ about' \in Things(ask')
  /\ todo' = Reads[ask']
  /\ known' = Have /\ ever' = Have
  /\ late' = Both /\ calm' = Current
  /\ UNCHANGED <<vars, got, trace, orphan>>

\* Nothing more is read.
Complete == ask # "none" /\ todo \in {<<>>, <<"panic">>}

Answer ==
  /\ Complete
  /\ ask' = "none" /\ about' = NoTx /\ todo' = <<>> /\ got' = {} /\ trace' = <<>>
  /\ known' = {} /\ ever' = {} /\ late' = {} /\ orphan' = {} /\ calm' = FALSE
  /\ UNCHANGED vars

Request == Ask \/ ReadChain \/ ReadPool \/ ReadStatus \/ LookupTxos \/ OpenAssets \/ LookupTxn \/ Answer

\* A step of tapyrusd, the main thread or a broadcast.  What comes after the last
\* read is the same whether the answer has been sent or not.
Elsewhere ==
  /\ ~Complete /\ Next
  /\ UNCHANGED requestVars
  /\ IF ask = "none" THEN UNCHANGED historyVars
     ELSE /\ known' = known \cap Have'
          /\ ever' = ever \cup Have'
          /\ late' = late \cup (served' \ served) \cup (rows' \ rows) \cup Both'
          /\ orphan' = orphan \cup (served \ served')
          /\ calm' = (calm /\ UNCHANGED <<daemonVars, indexVars, viewVars>>)

QueryInit ==
  /\ Init
  /\ ask = "none" /\ about = NoTx /\ todo = <<>> /\ got = {} /\ trace = <<>>
  /\ known = {} /\ ever = {} /\ late = {} /\ orphan = {} /\ calm = FALSE

QuerySpec == QueryInit /\ [][Request \/ Elsewhere]_queryVars

-----------------------------------------------------------------------------
(* Properties.                                                             *)

\* The parts of the answer have been read.
Gathered ==
  /\ ask # "none"
  /\ todo \in IF ask = "assets" THEN {<<"assets">>}
              ELSE {<<>>, <<"status", "prevouts">>, <<"prevouts">>, <<"panic">>}

Wanted == {x \in known : CASE ask = "tx" -> x = about
                           [] ask = "spend" -> about \in Spends[x]
                           [] OTHER -> Touches(x)}

\* The history of an address in REST reads the mempool first: a transaction that
\* electrs has had all the time is in it, even if it is confirmed meanwhile; only a
\* reorganisation that takes it back to the mempool hides it.
TxsMissesNothing == Gathered /\ ask = "txs" => Wanted \ Found \subseteq orphan

\* The others read the chain first.  What they miss, or list as unspent although it
\* was spent all the time, comes from a transaction that has just been confirmed.
WrongOnlyIfLate ==
  Gathered =>
    CASE ask \in {"history", "color"} -> Wanted \ Found \subseteq late
      [] ask \in OrElse -> Found = {} => Wanted \ displaced \subseteq late
      [] ask \in Unspents ->
           /\ \A o \in Found : \A x \in known \ displaced :
                o \in Spends[x] => x \in late \/ Creator[o] \in late
           /\ \A o \in Own \ Found :
                Creator[o] \in known /\ (\A x \in ever : o \notin Spends[x]) => Creator[o] \in late
      [] OTHER -> TRUE

\* Answered from a view that is tapyrusd's own, and has been all the time, a request
\* for unspent outputs or a history gets what tapyrusd would say, each thing once;
\* transactions that were not indexed, or replaced others, aside.
CurrentExact ==
  LET all == confirmed \cup pool
      truth == IF ask \in Unspents
               THEN {o \in Own : Creator[o] \in all /\ \A x \in all : o \notin Spends[x]}
               ELSE {x \in all : Touches(x)}
  IN Gathered /\ ask \in Unspents \cup {"history", "color", "txs"} /\ calm
       /\ txstore \subseteq InHistory \ displaced
     => Found = truth /\ \A g, h \in got : g[1] = h[1] => g = h

\* The expects on what a transaction spends.  "failed loading txos" of lookup_txos()
\* holds for the transactions of the served chain, even if they are orphaned
\* meanwhile, and for those of the mempool while electrs is up to date; "txn not
\* found" of get_output(), which follows the coins of a script all the way down
\* through index and mempool, holds for every transaction that electrs has had ever
\* since the request came and that was not confirmed meanwhile.
PrevoutsFound ==
  todo = <<"panic">> =>
    IF ask = "assets" THEN Head(trace).tx \notin known \ late
    ELSE ask # "chain" /\ ~calm
=============================================================================
