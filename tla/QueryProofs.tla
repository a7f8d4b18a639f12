---------------------------- MODULE QueryProofs ----------------------------
(***************************************************************************)
(* What the answers that are put together from chain and mempool can miss, *)
(* list wrongly or fail to find, for all transactions, scripts and numbers *)
(* of handlers.  The invariant has a part per kind of request: what the    *)
(* reads so far have left to go wrong at each place between two of them.   *)
(* It rests on that of MempoolProofs, since what a read of the mempool     *)
(* shows is worth what the tables, the index and tapyrusd keep.            *)
(***************************************************************************)
EXTENDS Query, MempoolProofs, FiniteSetTheorems

\* Between two requests nothing is left of the last one.
KindInv ==
  /\ ask \in DOMAIN Reads \cup {"none"}
  /\ ask = "none" => got = {} /\ todo = <<>>
  /\ ask = "mempool" => todo \in {<<"pool", "prevouts">>, <<"prevouts">>, <<>>, <<"panic">>}

\* What has been known since the request came is still there, what is there now is in
\* ever, and what index and mempool both have is late.
KnownInv == ask # "none" => known \subseteq Have /\ Have \subseteq ever /\ Both \subseteq late

\* A history that starts with the mempool: what it lacks after that read is in the
\* served chain, or was until its block was given up.
TxsInv ==
  ask = "txs" =>
    \/ todo = <<"pool", "chain", "prevouts">>
    \/ todo = <<"chain", "prevouts">> /\ Wanted \ Found \subseteq served \cup orphan
    \/ todo \in {<<"prevouts">>, <<>>, <<"panic">>} /\ Wanted \ Found \subseteq orphan

\* A history that starts with the chain: what it lacks after that read has come to
\* the served chain since, or is not in it.
LateInv ==
  ask \in {"history", "color"} =>
    \/ todo = Reads[ask]
    \/ /\ todo = Tail(Reads[ask])
       /\ (Wanted \ Found) \cap served \subseteq late
    \/ todo \in {<<"prevouts">>, <<>>, <<"panic">>} /\ Wanted \ Found \subseteq late

\* A transaction: when the chain did not have it, it has its rows only since.
TxInv ==
  ask = "tx" =>
    /\ about \in Txs
    /\ \/ todo = <<"chain", "pool", "status", "prevouts">>
       \/ todo = <<"pool", "status", "prevouts">> /\ (about \in rows => about \in late)
       \/ todo \in {<<"status", "prevouts">>, <<"prevouts">>} /\ Found # {}
       \/ todo \in {<<>>, <<"panic">>} /\ (Found = {} => Wanted \subseteq late)

\* The transaction that spends an output, in the same way
SpendInv ==
  ask = "spend" =>
    /\ about \in Outs
    /\ \/ todo = <<"chain", "pool">>
       \/ todo = <<"pool">> /\ {x \in served : about \in Spends[x]} \subseteq late
       \/ todo = <<>> /\ (Found = {} => Wanted \ displaced \subseteq late)

\* What was listed is spent only by what came late; what was not is spent, or late, too.
ListedOk(within) ==
  \A o \in Found : \A x \in within \ displaced :
    o \in Spends[x] => x \in late \/ Creator[o] \in late
OthersOk(within) ==
  \A o \in Own \ Found :
    Creator[o] \in within /\ (\A x \in ever : o \notin Spends[x]) => Creator[o] \in late

\* Unspent outputs: after the read of the chain, of what it serves; after that of the
\* mempool, of all that is known.
UnspentInv ==
  ask \in Unspents =>
    /\ Found \subseteq Own
    /\ \/ todo = Reads[ask] /\ got = {}
       \/ /\ todo = Tail(Reads[ask])
          /\ \A o \in Found : \A x \in served : o \in Spends[x] => x \in late
          /\ OthersOk(served)
       \/ todo = Tail(Tail(Reads[ask])) /\ ListedOk(known) /\ OthersOk(known)
       \/ ask = "assets" /\ todo \in {<<"trace">>, <<>>, <<"panic">>}

\* Nothing moved: the chain and the mempool are tapyrusd's, and what was read of them is
\* what would be read now.
CalmInv ==
  ask # "none" /\ calm =>
    /\ Current
    /\ ask \notin Unspents \cup {"spend"} => Found \subseteq rows \cup txstore
    /\ ask \in Unspents \cup {"history", "color"} =>
         /\ todo = Reads[ask] => got = {}
         /\ todo = Tail(Reads[ask]) => got = ChainRead \X {"chain"}
         /\ Gathered => got = {g \in ChainRead \X {"chain"} : ask \in Unspents => edges[g[1]] = NoTx}
                              \cup (PoolRead \X {"pool"})
    /\ ask = "txs" =>
         /\ todo = Reads[ask] => got = {}
         /\ todo = Tail(Reads[ask]) => got = PoolRead \X {"pool"}
         /\ Gathered => got = (PoolRead \X {"pool"}) \cup (ChainRead \X {"chain"})

\* The transactions of a chain's history have rows.
ChainInv ==
  ask = "chain" =>
    todo \in {<<"chain", "prevouts">>, <<"prevouts">>, <<>>} /\ Found \subseteq rows

\* Only the first transaction to be traced may be looked up in the mempool already, and
\* then it has rows only since.
TraceInv ==
  ask = "assets" /\ todo = <<"trace">> =>
    /\ trace \in Seq([tx : Txs, where : {"chain", "pool"}, must : BOOLEAN]) /\ trace # <<>>
    /\ \A i \in 2 .. Len(trace) : trace[i].where = "chain"
    /\ Head(trace).where = "pool" => (Head(trace).tx \in rows => Head(trace).tx \in late)

IInv ==
  /\ Inv /\ KindInv /\ KnownInv /\ TxsInv /\ LateInv /\ TxInv /\ SpendInv /\ UnspentInv
  /\ CalmInv /\ ChainInv /\ TraceInv /\ PrevoutsFound

-----------------------------------------------------------------------------
(* What reads and other steps do                                            *)

LEMMA InitQuery == QueryInit => IInv
<1> SUFFICES ASSUME QueryInit PROVE IInv
  OBVIOUS
<1>1. Inv
  BY InitInvariant DEF QueryInit
<1>2. ask = "none" /\ got = {} /\ todo = <<>>
  BY DEF QueryInit
<1> QED BY <1>1, <1>2
    DEF IInv, KindInv, KnownInv, TxsInv, LateInv, TxInv, SpendInv, UnspentInv, CalmInv,
        ChainInv, TraceInv, PrevoutsFound, Unspents

\* A read of a literal list of reads
LEMMA Tails ==
  /\ Tail(<<"chain", "pool">>) = <<"pool">>
  /\ Tail(<<"pool">>) = <<>>
  /\ Tail(<<"chain", "pool", "assets">>) = <<"pool", "assets">>
  /\ Tail(<<"pool", "assets">>) = <<"assets">>
  /\ Tail(<<"chain", "pool", "prevouts">>) = <<"pool", "prevouts">>
  /\ Tail(<<"pool", "prevouts">>) = <<"prevouts">>
  /\ Tail(<<"pool", "chain", "prevouts">>) = <<"chain", "prevouts">>
  /\ Tail(<<"chain", "prevouts">>) = <<"prevouts">>
  /\ Tail(<<"prevouts">>) = <<>>
  /\ Tail(<<"chain", "pool", "status", "prevouts">>) = <<"pool", "status", "prevouts">>
  /\ Tail(<<"pool", "status", "prevouts">>) = <<"status", "prevouts">>
  /\ Tail(<<"status", "prevouts">>) = <<"prevouts">>
OBVIOUS

\* The next read, when something is left
LEMMA Heads ==
  /\ Head(<<"chain", "pool">>) = "chain" /\ <<"chain", "pool">> # <<>>
  /\ Head(<<"pool">>) = "pool" /\ <<"pool">> # <<>>
  /\ Head(<<"chain", "pool", "assets">>) = "chain" /\ <<"chain", "pool", "assets">> # <<>>
  /\ Head(<<"pool", "assets">>) = "pool" /\ <<"pool", "assets">> # <<>>
  /\ Head(<<"assets">>) = "assets" /\ <<"assets">> # <<>>
  /\ Head(<<"chain", "pool", "prevouts">>) = "chain" /\ <<"chain", "pool", "prevouts">> # <<>>
  /\ Head(<<"pool", "prevouts">>) = "pool" /\ <<"pool", "prevouts">> # <<>>
  /\ Head(<<"pool", "chain", "prevouts">>) = "pool" /\ <<"pool", "chain", "prevouts">> # <<>>
  /\ Head(<<"chain", "prevouts">>) = "chain" /\ <<"chain", "prevouts">> # <<>>
  /\ Head(<<"prevouts">>) = "prevouts" /\ <<"prevouts">> # <<>>
  /\ Head(<<"chain", "pool", "status", "prevouts">>) = "chain" /\ <<"chain", "pool", "status", "prevouts">> # <<>>
  /\ Head(<<"pool", "status", "prevouts">>) = "pool" /\ <<"pool", "status", "prevouts">> # <<>>
  /\ Head(<<"status", "prevouts">>) = "status" /\ <<"status", "prevouts">> # <<>>
  /\ Head(<<"trace">>) = "trace" /\ <<"trace">> # <<>>
  /\ Head(<<"panic">>) = "panic" /\ <<"panic">> # <<>>
OBVIOUS

\* What each kind of request reads
LEMMA ReadsOf ==
  /\ Reads["utxo"] = <<"chain", "pool">>
  /\ Reads["assets"] = <<"chain", "pool", "assets">>
  /\ Reads["history"] = <<"chain", "pool">>
  /\ Reads["color"] = <<"chain", "pool", "prevouts">>
  /\ Reads["txs"] = <<"pool", "chain", "prevouts">>
  /\ Reads["chain"] = <<"chain", "prevouts">>
  /\ Reads["mempool"] = <<"pool", "prevouts">>
  /\ Reads["tx"] = <<"chain", "pool", "status", "prevouts">>
  /\ Reads["spend"] = <<"chain", "pool">>
  /\ DOMAIN Reads = {"utxo", "assets", "history", "color", "txs", "chain", "mempool", "tx", "spend"}
BY DEF Reads

\* The reads of a request have not been begun.
LEMMA AtStart ==
  ASSUME NEW k \in DOMAIN Reads
  PROVE  /\ Reads[k] # <<>> /\ Reads[k] # <<"panic">> /\ Reads[k] # <<"trace">>
         /\ Reads[k] # <<"assets">> /\ Reads[k] # <<"prevouts">>
         /\ Reads[k] # <<"status", "prevouts">> /\ Reads[k] # Tail(Reads[k])
         /\ k # "none"
<1>1. CASE k \in {"utxo", "history", "spend"}
  <2>1. Reads[k] = <<"chain", "pool">> /\ Tail(Reads[k]) = <<"pool">>
    BY <1>1, ReadsOf, Tails
  <2>2. <<"chain", "pool">> # <<"pool">>
    OBVIOUS
  <2> QED BY <1>1, <2>1, <2>2
<1>2. CASE k = "assets"
  <2>1. Reads[k] = <<"chain", "pool", "assets">> /\ Tail(Reads[k]) = <<"pool", "assets">>
    BY <1>2, ReadsOf, Tails
  <2>2. <<"chain", "pool", "assets">> # <<"pool", "assets">>
    OBVIOUS
  <2> QED BY <1>2, <2>1, <2>2
<1>3. CASE k = "color"
  <2>1. Reads[k] = <<"chain", "pool", "prevouts">> /\ Tail(Reads[k]) = <<"pool", "prevouts">>
    BY <1>3, ReadsOf, Tails
  <2>2. <<"chain", "pool", "prevouts">> # <<"pool", "prevouts">>
    OBVIOUS
  <2> QED BY <1>3, <2>1, <2>2
<1>4. CASE k = "chain"
  <2>1. Reads[k] = <<"chain", "prevouts">> /\ Tail(Reads[k]) = <<"prevouts">>
    BY <1>4, ReadsOf, Tails
  <2>2. <<"chain", "prevouts">> # <<"prevouts">>
    OBVIOUS
  <2> QED BY <1>4, <2>1, <2>2
<1>5. CASE k = "mempool"
  <2>1. Reads[k] = <<"pool", "prevouts">> /\ Tail(Reads[k]) = <<"prevouts">>
    BY <1>5, ReadsOf, Tails
  <2>2. <<"pool", "prevouts">> # <<"prevouts">>
    OBVIOUS
  <2> QED BY <1>5, <2>1, <2>2
<1>6. CASE k = "txs"
  <2>1. Reads[k] = <<"pool", "chain", "prevouts">> /\ Tail(Reads[k]) = <<"chain", "prevouts">>
    BY <1>6, ReadsOf, Tails
  <2>2. <<"pool", "chain", "prevouts">> # <<"chain", "prevouts">>
    OBVIOUS
  <2> QED BY <1>6, <2>1, <2>2
<1>7. CASE k = "tx"
  <2>1. Reads[k] = <<"chain", "pool", "status", "prevouts">> /\ Tail(Reads[k]) = <<"pool", "status", "prevouts">>
    BY <1>7, ReadsOf, Tails
  <2>2. <<"chain", "pool", "status", "prevouts">> # <<"pool", "status", "prevouts">>
    OBVIOUS
  <2> QED BY <1>7, <2>1, <2>2
<1> QED BY <1>1, <1>2, <1>3, <1>4, <1>5, <1>6, <1>7, ReadsOf

\* The places between two reads of each kind of request
LEMMA Stages ==
  ASSUME IInv
  PROVE  /\ ask \in {"utxo", "history", "spend"} =>
              todo \in {<<"chain", "pool">>, <<"pool">>, <<>>, <<"prevouts">>, <<"panic">>}
         /\ ask = "assets" => todo \in {<<"chain", "pool", "assets">>, <<"pool", "assets">>,
                                        <<"assets">>, <<"trace">>, <<>>, <<"panic">>}
         /\ ask = "color" => todo \in {<<"chain", "pool", "prevouts">>, <<"pool", "prevouts">>,
                                       <<"prevouts">>, <<>>, <<"panic">>}
         /\ ask = "txs" => todo \in {<<"pool", "chain", "prevouts">>, <<"chain", "prevouts">>,
                                     <<"prevouts">>, <<>>, <<"panic">>}
         /\ ask = "chain" => todo \in {<<"chain", "prevouts">>, <<"prevouts">>, <<>>}
         /\ ask = "mempool" => todo \in {<<"pool", "prevouts">>, <<"prevouts">>, <<>>, <<"panic">>}
         /\ ask = "tx" => todo \in {<<"chain", "pool", "status", "prevouts">>,
                                    <<"pool", "status", "prevouts">>, <<"status", "prevouts">>,
                                    <<"prevouts">>, <<>>, <<"panic">>}
         /\ ask = "utxo" \/ ask = "spend" => todo # <<"prevouts">>
<1>1. /\ ask = "utxo" => todo \in {<<"chain", "pool">>, <<"pool">>, <<>>}
      /\ ask = "assets" => todo \in {<<"chain", "pool", "assets">>, <<"pool", "assets">>,
                                     <<"assets">>, <<"trace">>, <<>>, <<"panic">>}
  BY ReadsOf, Tails DEF IInv, UnspentInv, Unspents
<1>2. /\ ask = "history" => todo \in {<<"chain", "pool">>, <<"pool">>, <<"prevouts">>, <<>>, <<"panic">>}
      /\ ask = "color" => todo \in {<<"chain", "pool", "prevouts">>, <<"pool", "prevouts">>,
                                    <<"prevouts">>, <<>>, <<"panic">>}
  BY ReadsOf, Tails DEF IInv, LateInv
<1>3. ask = "txs" => todo \in {<<"pool", "chain", "prevouts">>, <<"chain", "prevouts">>,
                              <<"prevouts">>, <<>>, <<"panic">>}
  BY DEF IInv, TxsInv
<1>4. /\ ask = "chain" => todo \in {<<"chain", "prevouts">>, <<"prevouts">>, <<>>}
      /\ ask = "mempool" => todo \in {<<"pool", "prevouts">>, <<"prevouts">>, <<>>, <<"panic">>}
  BY DEF IInv, ChainInv, KindInv
<1>5. ask = "tx" => todo \in {<<"chain", "pool", "status", "prevouts">>,
                             <<"pool", "status", "prevouts">>, <<"status", "prevouts">>,
                             <<"prevouts">>, <<>>, <<"panic">>}
  BY DEF IInv, TxInv
<1>6. ask = "spend" => todo \in {<<"chain", "pool">>, <<"pool">>, <<>>}
  BY DEF IInv, SpendInv
<1>7. <<"chain", "pool">> # <<"prevouts">> /\ <<"pool">> # <<"prevouts">> /\ <<>> # <<"prevouts">>
  OBVIOUS
<1>8. ask \in {"utxo", "history", "spend"} =>
        todo \in {<<"chain", "pool">>, <<"pool">>, <<>>, <<"prevouts">>, <<"panic">>}
  <2>1. CASE ask = "utxo"
    BY <1>1, <2>1
  <2>2. CASE ask = "history"
    BY <1>2, <2>2
  <2>3. CASE ask = "spend"
    BY <1>6, <2>3
  <2> QED BY <2>1, <2>2, <2>3
<1>9. ask = "utxo" \/ ask = "spend" => todo # <<"prevouts">>
  <2>1. ask = "utxo" \/ ask = "spend" => todo \in {<<"chain", "pool">>, <<"pool">>, <<>>}
    BY <1>1, <1>6
  <2> QED BY <1>7, <2>1
<1> QED BY <1>1, <1>2, <1>3, <1>4, <1>5, <1>8, <1>9

\* Which reads come next, and of which requests
LEMMA NextRead ==
  ASSUME IInv, todo # <<>>
  PROVE  /\ ask \in DOMAIN Reads
         /\ Head(todo) = "chain" =>
              /\ ask # "mempool"
              /\ ask # "txs" => todo = Reads[ask]
              /\ ask = "txs" => todo = <<"chain", "prevouts">>
         /\ Head(todo) = "pool" =>
              /\ ask # "chain"
              /\ ask \notin {"txs", "mempool"} => todo = Tail(Reads[ask])
              /\ ask \in {"txs", "mempool"} => todo = Reads[ask]
         /\ Head(todo) = "status" => ask = "tx" /\ todo = <<"status", "prevouts">>
         /\ Head(todo) = "prevouts" => ask \notin Unspents \cup {"spend"} /\ todo = <<"prevouts">>
         /\ Head(todo) = "assets" => ask = "assets" /\ todo = <<"assets">>
         /\ Head(todo) = "trace" => ask = "assets" /\ todo = <<"trace">>
<1>1. ask \in DOMAIN Reads
  BY DEF IInv, KindInv
<1>2. CASE ask \in {"utxo", "history", "spend"}
  <2>1. /\ todo \in {<<"chain", "pool">>, <<"pool">>, <<"prevouts">>, <<"panic">>}
        /\ Reads[ask] = <<"chain", "pool">>
    BY <1>2, Stages, ReadsOf
  <2>2. CASE todo = <<"prevouts">>
    <3>1. ask = "history"
      BY <1>2, <2>2, Stages
    <3> QED BY <2>2, <1>1, <3>1, Heads DEF Unspents
  <2>3. CASE todo # <<"prevouts">>
    BY <1>1, <1>2, <2>1, <2>3, Heads, Tails
  <2> QED BY <2>2, <2>3
<1>3. CASE ask = "assets"
  BY <1>3, <1>1, Stages, Heads, ReadsOf, Tails DEF Unspents
<1>4. CASE ask = "color"
  BY <1>4, <1>1, Stages, Heads, ReadsOf, Tails DEF Unspents
<1>5. CASE ask = "txs"
  BY <1>5, <1>1, Stages, Heads, ReadsOf, Tails DEF Unspents
<1>6. CASE ask \in {"chain", "mempool"}
  BY <1>6, <1>1, Stages, Heads, ReadsOf, Tails DEF Unspents
<1>7. CASE ask = "tx"
  BY <1>7, <1>1, Stages, Heads, ReadsOf, Tails DEF Unspents
<1> QED BY <1>1, <1>2, <1>3, <1>4, <1>5, <1>6, <1>7, ReadsOf

\* Before a read of the chain or of the mempool, not all is gathered.
LEMMA NotGathered ==
  ASSUME todo # <<>>, Head(todo) \in {"chain", "pool"}
  PROVE  ~Gathered
BY Heads DEF Gathered

LEMMA NotGatheredNext ==
  ASSUME todo' # <<>>, Head(todo') \in {"chain", "pool"}
  PROVE  ~Gathered'
<1>1. ASSUME todo' \in {<<>>, <<"assets">>, <<"status", "prevouts">>, <<"prevouts">>, <<"panic">>}
      PROVE  FALSE
  BY <1>1, Heads
<1> QED BY <1>1 DEF Gathered

\* A request moves nothing that the mempool's invariant is about.
LEMMA RequestKeepsInv == ASSUME Inv, UNCHANGED vars PROVE Inv'
BY NextInv

\* A read leaves all but its own results alone.
LEMMA ReadingKeeps ==
  ASSUME KnownInv, NEW where, Reading(where)
  PROVE  /\ KnownInv' /\ Have' = Have /\ Both' = Both /\ InHistory' = InHistory
         /\ Wanted' = Wanted /\ ChainRead' = ChainRead /\ PoolRead' = PoolRead
         /\ Current' = Current
         /\ UNCHANGED <<vars, served, rows, txstore, entries, edges, displaced>>
         /\ UNCHANGED <<ask, about, known, ever, late, orphan, calm>>
         /\ ask # "none" /\ todo # <<>> /\ Head(todo) = where
<1>1. /\ UNCHANGED <<vars, served, rows, txstore, entries, edges, displaced, confirmed, pool>>
      /\ UNCHANGED <<ask, about, known, ever, late, orphan, calm>>
  BY DEF Reading, vars, daemonVars, indexVars, viewVars, historyVars
<1>2. InHistory' = InHistory /\ Have' = Have /\ Both' = Both /\ Current' = Current
  BY <1>1 DEF Have, Both, InHistory, Current
<1>3. Wanted' = Wanted
  BY <1>1 DEF Wanted, Touches
<1>4. ChainRead' = ChainRead /\ PoolRead' = PoolRead
  BY <1>1, <1>2 DEF ChainRead, PoolRead, Touches
<1> QED
  BY <1>1, <1>2, <1>3, <1>4 DEF Reading, KnownInv

\* A read adds what it read to what was found.
LEMMA FirstOf ==
  ASSUME NEW before, NEW what, NEW where
  PROVE  {g[1] : g \in before \cup (what \X {where})} = {g[1] : g \in before} \cup what
<1>1. \A g \in what \X {where} : g[1] \in what
  OBVIOUS
<1>2. \A x \in what : <<x, where>> \in what \X {where} /\ <<x, where>>[1] = x
  OBVIOUS
<1> QED BY <1>1, <1>2

LEMMA ChainFound ==
  ASSUME ReadChain
  PROVE  /\ Found' = Found \cup ChainRead
         /\ got' = got \cup (ChainRead \X {"chain"})
         /\ todo' = IF ask \in OrElse /\ ChainRead # {} THEN Tail(Tail(todo)) ELSE Tail(todo)
BY FirstOf DEF ReadChain, Found

LEMMA PoolFound ==
  ASSUME ReadPool
  PROVE  /\ Found' = {o \in Found : ask \in Unspents => edges[o] = NoTx} \cup PoolRead
         /\ got' = {g \in got : ask \in Unspents => edges[g[1]] = NoTx} \cup (PoolRead \X {"pool"})
         /\ todo' = IF ask = "tx" /\ PoolRead = {} THEN <<>> ELSE Tail(todo)
<1> DEFINE kept == {g \in got : ask \in Unspents => edges[g[1]] = NoTx}
<1>1. got' = kept \cup (PoolRead \X {"pool"})
      /\ todo' = IF ask = "tx" /\ PoolRead = {} THEN <<>> ELSE Tail(todo)
  BY DEF ReadPool
<1>2. {g[1] : g \in kept} = {o \in Found : ask \in Unspents => edges[o] = NoTx}
  BY DEF Found
<1>3. Found' = {g[1] : g \in kept} \cup PoolRead
  BY <1>1, FirstOf DEF Found
<1> QED BY <1>1, <1>2, <1>3

\* What the invariant of the mempool says of a transaction that electrs has
LEMMA HaveFacts ==
  ASSUME Inv
  PROVE  /\ InHistory \subseteq txstore /\ served \subseteq rows
         /\ \A o \in Outs : edges[o] # NoTx => edges[o] \in InHistory /\ o \in Spends[edges[o]]
         /\ \A x \in InHistory \ displaced : \A o \in Spends[x] : edges[o] # NoTx
         /\ \A x \in served : \A o \in Spends[x] : Creator[o] \in served
         /\ served \subseteq Txs /\ InHistory \subseteq Txs /\ rows \subseteq Txs /\ txstore \subseteq Txs
<1>1. \A x \in Txs : entries[x] \in Nat /\ entries[x] <= (IF x \in txstore THEN 1 ELSE 0)
  BY DEF Inv, Tables, TypeOK, HistoryExact
<1>2. InHistory \subseteq txstore
  <2> SUFFICES ASSUME NEW x \in Txs, entries[x] > 0, x \notin txstore PROVE FALSE
    BY DEF InHistory
  <2>1. entries[x] \in Nat /\ entries[x] <= 0
    BY <1>1
  <2> QED BY <2>1
<1>3. ASSUME NEW o \in Outs, edges[o] # NoTx PROVE edges[o] \in InHistory /\ o \in Spends[edges[o]]
  <2>1. o \in Spends[edges[o]] /\ entries[edges[o]] = 1 /\ edges[o] \in Txs
    BY <1>3 DEF Inv, Tables, EdgesSound, TypeOK
  <2> QED BY <2>1 DEF InHistory
<1>4. \A x \in InHistory \ displaced : \A o \in Spends[x] : edges[o] # NoTx
  BY OwnedComplete DEF EdgesComplete, InHistory
<1>5. \A x \in served : \A o \in Spends[x] : Creator[o] \in served
  BY DEF Inv, ChainsInv, Closed, Parents
<1> QED BY <1>2, <1>3, <1>4, <1>5 DEF Inv, ChainsInv, Tables, TypeOK, InHistory

-----------------------------------------------------------------------------
(* A new request, and the read of the chain                                 *)

LEMMA AskInv == ASSUME IInv, Ask PROVE IInv'
<1>1. /\ ask = "none" /\ got' = {} /\ ask' \in DOMAIN Reads /\ todo' = Reads[ask']
      /\ known' = Have /\ ever' = Have /\ late' = Both /\ calm' = Current /\ UNCHANGED vars
  BY DEF Ask, IInv, KindInv
<1>2. /\ UNCHANGED <<confirmed, pool, rows, served, txstore, entries, edges>>
      /\ Inv'
  BY <1>1, RequestKeepsInv DEF IInv, vars, daemonVars, indexVars, viewVars
<1>3. Have' = Have /\ Both' = Both /\ Current' = Current
  BY <1>2 DEF Have, Both, InHistory, Current
<1>4. Found' = {}
  BY <1>1 DEF Found
<1>5. todo' # <<"panic">> /\ todo' # <<"trace">> /\ ~Gathered' /\ ask' # "none"
      /\ todo' # Tail(Reads[ask'])
  BY <1>1, AtStart DEF Gathered
<1>6. about' \in (CASE ask' = "tx" -> Txs [] ask' = "spend" -> Outs [] OTHER -> {NoTx})
  BY <1>1 DEF Ask, Things
<1>7. KindInv' /\ KnownInv'
  BY <1>1, <1>3, <1>5, ReadsOf DEF KindInv, KnownInv
<1>8. TxsInv' /\ LateInv' /\ ChainInv'
  BY <1>1, <1>4, ReadsOf DEF TxsInv, LateInv, ChainInv
<1>9. TxInv' /\ SpendInv'
  BY <1>1, <1>6, ReadsOf DEF TxInv, SpendInv
<1>10. UnspentInv'
  BY <1>1, <1>4 DEF UnspentInv
<1>11. CalmInv'
  BY <1>1, <1>3, <1>4, <1>5 DEF CalmInv, Unspents
<1>12. TraceInv' /\ PrevoutsFound'
  BY <1>5 DEF TraceInv, PrevoutsFound
<1> QED BY <1>2, <1>7, <1>8, <1>9, <1>10, <1>11, <1>12 DEF IInv

LEMMA ReadChainInv == ASSUME IInv, ReadChain PROVE IInv'
<1>1. /\ KnownInv' /\ Have' = Have /\ Wanted' = Wanted /\ ChainRead' = ChainRead
      /\ PoolRead' = PoolRead /\ Current' = Current
      /\ UNCHANGED <<vars, served, rows, txstore, entries, edges, displaced>>
      /\ UNCHANGED <<ask, about, known, ever, late, orphan, calm>>
      /\ ask # "none" /\ todo # <<>> /\ Head(todo) = "chain"
  BY ReadingKeeps DEF ReadChain, IInv
<1>2. /\ Found' = Found \cup ChainRead
      /\ got' = got \cup (ChainRead \X {"chain"})
      /\ todo' = IF ask \in OrElse /\ ChainRead # {} THEN Tail(Tail(todo)) ELSE Tail(todo)
  BY ChainFound
<1>3. Inv'
  BY <1>1, RequestKeepsInv DEF IInv
<1>4. /\ ask \in DOMAIN Reads /\ ask # "mempool"
      /\ ask # "txs" => todo = Reads[ask]
      /\ ask = "txs" => todo = <<"chain", "prevouts">>
  BY <1>1, NextRead
<1>5. /\ todo # Tail(Reads[ask]) \/ ask = "txs"
      /\ todo # Tail(Tail(Reads[ask])) \/ ask \notin Unspents
      /\ todo \notin {<<"prevouts">>, <<>>, <<"panic">>, <<"trace">>}
  <2>1. ask \in Unspents => Tail(Tail(Reads[ask])) \in {<<>>, <<"assets">>}
    BY ReadsOf, Tails DEF Unspents
  <2>2. <<"chain", "prevouts">> \notin {<<"prevouts">>, <<>>, <<"panic">>, <<"trace">>}
    OBVIOUS
  <2>3. /\ Reads[ask] # Tail(Reads[ask]) /\ Reads[ask] \notin {<<>>, <<"assets">>}
        /\ Reads[ask] \notin {<<"prevouts">>, <<>>, <<"panic">>, <<"trace">>}
    BY <1>4, AtStart
  <2>4. CASE ask = "txs"
    <3>1. todo = <<"chain", "prevouts">> /\ ask \notin Unspents
      BY <1>4, <2>4 DEF Unspents
    <3> QED BY <2>2, <2>4, <3>1
  <2>5. CASE ask # "txs"
    <3>1. todo = Reads[ask]
      BY <1>4, <2>5
    <3>2. ask \in Unspents => todo # Tail(Tail(Reads[ask]))
      BY <2>1, <2>3, <3>1
    <3> DEFINE others == {<<"prevouts">>, <<>>, <<"panic">>, <<"trace">>}
               reads  == Reads[ask]
    <3>3. todo = reads /\ reads # Tail(reads) /\ reads \notin others
      BY <2>3, <3>1
    <3> HIDE DEF others, reads
    <3>4. todo # Tail(reads) /\ todo \notin others
      BY <3>3
    <3> QED BY <3>2, <3>4 DEF others, reads
  <2> QED BY <2>4, <2>5
<1>6. CASE ask \in Unspents
  <2>1. /\ todo' = Tail(Reads[ask]) /\ Head(todo') = "pool" /\ todo' # <<>>
        /\ ChainRead = {o \in Own : Creator[o] \in served /\ \A x \in served : o \notin Spends[x]}
    <3>1. ask \in {"utxo", "assets"}
      BY <1>6 DEF Unspents
    <3>2. ask \notin OrElse /\ ask # "txs"
      BY <3>1 DEF OrElse
    <3>3. todo' = Tail(Reads[ask])
      BY <1>2, <1>4, <3>2
    <3>4. ASSUME ask = "utxo" PROVE Head(todo') = "pool" /\ todo' # <<>>
      BY <3>3, <3>4, ReadsOf, Tails, Heads
    <3>5. ASSUME ask = "assets" PROVE Head(todo') = "pool" /\ todo' # <<>>
      BY <3>3, <3>5, ReadsOf, Tails, Heads
    <3>6. ChainRead = {o \in Own : Creator[o] \in served /\ \A x \in served : o \notin Spends[x]}
      BY <1>6 DEF ChainRead, Unspents
    <3> QED BY <3>1, <3>3, <3>4, <3>5, <3>6
  <2>2. got = {} /\ Found = {}
    BY <1>5, <1>6 DEF IInv, UnspentInv, Unspents, Found
  <2>3. UnspentInv'
    <3>1. Found' = ChainRead /\ Found' \subseteq Own
      BY <1>2, <2>1, <2>2
    <3>2. \A o \in Found' : \A x \in served : o \in Spends[x] => x \in late
      BY <2>1, <3>1
    <3>3. ASSUME NEW o \in Own \ Found', Creator[o] \in served
          PROVE  \E x \in ever : o \in Spends[x]
      BY <2>1, <3>1, <3>3, <1>1 DEF IInv, KnownInv, Have
    <3> QED BY <1>1, <2>1, <3>1, <3>2, <3>3 DEF UnspentInv, OthersOk
  <2>4. CalmInv'
    <3>1. got' = ChainRead \X {"chain"}
      BY <1>2, <2>2
    <3>2. todo' # Reads[ask]
      BY <1>4, <1>6, <2>1, AtStart
    <3>3. ~Gathered'
      BY <2>1, NotGatheredNext
    <3> QED BY <1>1, <1>6, <2>1, <3>1, <3>2, <3>3 DEF IInv, CalmInv, Unspents
  <2>5. todo' # <<"trace">> /\ todo' # <<"panic">>
    BY <2>1, Heads
  <2>6. KindInv' /\ KnownInv'
    BY <1>1, <1>4, <1>6 DEF KindInv, Unspents
  <2>7. ask' \notin {"txs", "history", "color", "tx", "spend", "chain"}
    BY <1>1, <1>6 DEF Unspents
  <2>8. TxsInv' /\ LateInv' /\ TxInv' /\ SpendInv' /\ ChainInv'
    BY <2>7 DEF TxsInv, LateInv, TxInv, SpendInv, ChainInv
  <2>9. TraceInv' /\ PrevoutsFound'
    BY <2>5 DEF TraceInv, PrevoutsFound
  <2> QED BY <1>3, <2>3, <2>4, <2>6, <2>8, <2>9 DEF IInv
<1>7. CASE ask \in {"history", "color"}
  <2>1. /\ todo' = Tail(Reads[ask]) /\ Head(todo') = "pool" /\ todo' # <<>>
        /\ ChainRead = {x \in served : Touches(x)}
    <3>1. ask \in {"history", "color"}
      BY <1>7
    <3>2. ask \notin OrElse /\ ask # "txs"
      BY <3>1 DEF OrElse
    <3>3. todo' = Tail(Reads[ask])
      BY <1>2, <1>4, <3>2
    <3>4. ASSUME ask = "history" PROVE Head(todo') = "pool" /\ todo' # <<>>
      BY <3>3, <3>4, ReadsOf, Tails, Heads
    <3>5. ASSUME ask = "color" PROVE Head(todo') = "pool" /\ todo' # <<>>
      BY <3>3, <3>5, ReadsOf, Tails, Heads
    <3>6. ChainRead = {x \in served : Touches(x)}
      BY <1>7 DEF ChainRead, Unspents
    <3> QED BY <3>1, <3>3, <3>4, <3>5, <3>6
  <2>2. LateInv'
    <3>1. \A x \in Wanted : Touches(x)
      BY <1>7 DEF Wanted
    <3>2. (Wanted \ Found') \cap served = {}
      BY <1>2, <2>1, <3>1
    <3> QED BY <1>1, <2>1, <3>2 DEF LateInv
  <2>3. CalmInv'
    <3>1. calm => got = {}
      BY <1>1, <1>4, <1>7 DEF IInv, CalmInv
    <3>2. calm => got' = ChainRead \X {"chain"}
      BY <1>2, <3>1
    <3>3. todo' # Reads[ask]
      BY <1>4, <1>7, <2>1, AtStart
    <3>4. ~Gathered'
      BY <2>1, NotGatheredNext
    <3>5. calm => Found' \subseteq rows \cup txstore
      <4>1. calm => Found \subseteq rows \cup txstore
        BY <1>1, <1>7 DEF IInv, CalmInv, Unspents
      <4> QED BY <1>2, <2>1, <4>1, HaveFacts DEF IInv
    <3> QED BY <1>1, <1>7, <2>1, <3>2, <3>3, <3>4, <3>5 DEF IInv, CalmInv, Unspents
  <2>4. todo' # <<"trace">> /\ todo' # <<"panic">>
    BY <2>1, Heads
  <2> QED
    BY <1>1, <1>3, <1>4, <1>7, <2>2, <2>3, <2>4
    DEF IInv, KindInv, TxsInv, UnspentInv, TxInv, SpendInv, ChainInv, TraceInv, PrevoutsFound, Unspents
<1>8. CASE ask = "txs"
  <2>1. /\ todo' = <<"prevouts">> /\ ChainRead = {x \in served : Touches(x)}
    BY <1>2, <1>4, <1>8, Tails DEF ChainRead, Unspents, OrElse
  <2>2. TxsInv'
    <3>1. Wanted \ Found \subseteq served \cup orphan
      BY <1>4, <1>5, <1>8, Heads DEF IInv, TxsInv
    <3>2. \A x \in Wanted : Touches(x)
      BY <1>8 DEF Wanted
    <3> QED BY <1>1, <1>2, <2>1, <3>1, <3>2 DEF TxsInv
  <2>3. CalmInv'
    <3>1. calm => got = PoolRead \X {"pool"}
      BY <1>1, <1>4, <1>8, ReadsOf, Tails DEF IInv, CalmInv
    <3>2. calm => got' = (PoolRead \X {"pool"}) \cup (ChainRead \X {"chain"})
      BY <1>2, <3>1
    <3>3. todo' # Reads[ask] /\ todo' # Tail(Reads[ask])
      BY <1>8, <2>1, ReadsOf, Tails, Heads
    <3>4. calm => Found' \subseteq rows \cup txstore
      <4>1. calm => Found \subseteq rows \cup txstore
        BY <1>1, <1>8 DEF IInv, CalmInv, Unspents
      <4> QED BY <1>2, <2>1, <4>1, HaveFacts DEF IInv
    <3> QED BY <1>1, <1>8, <3>2, <3>3, <3>4 DEF IInv, CalmInv, Unspents
  <2>4. todo' # <<"trace">> /\ todo' # <<"panic">>
    BY <2>1, Heads
  <2> QED
    BY <1>1, <1>3, <1>4, <1>8, <2>2, <2>3, <2>4
    DEF IInv, KindInv, LateInv, UnspentInv, TxInv, SpendInv, ChainInv, TraceInv, PrevoutsFound, Unspents
<1>9. CASE ask = "chain"
  <2>1. /\ todo' = <<"prevouts">> /\ ChainRead = {x \in served : Touches(x)}
    BY <1>2, <1>4, <1>9, ReadsOf, Tails DEF ChainRead, Unspents, OrElse
  <2>2. ChainInv'
    BY <1>1, <1>2, <1>9, <2>1, HaveFacts DEF IInv, ChainInv
  <2>3. CalmInv'
    <3>1. calm => Found \subseteq rows \cup txstore
      BY <1>1, <1>9 DEF IInv, CalmInv, Unspents
    <3>2. Found' \subseteq Found \cup rows
      BY <1>2, <2>1, HaveFacts DEF IInv
    <3> QED BY <1>1, <1>9, <3>1, <3>2 DEF IInv, CalmInv, Unspents
  <2>4. todo' # <<"trace">> /\ todo' # <<"panic">>
    BY <2>1, Heads
  <2> QED
    BY <1>1, <1>3, <1>4, <1>9, <2>2, <2>3, <2>4
    DEF IInv, KindInv, TxsInv, LateInv, UnspentInv, TxInv, SpendInv, TraceInv, PrevoutsFound, Unspents
<1>10. CASE ask = "tx"
  <2>1. /\ ChainRead = {about} \cap rows /\ about \in Txs
        /\ ChainRead # {} => todo' = <<"status", "prevouts">>
        /\ ChainRead = {} => todo' = <<"pool", "status", "prevouts">>
    BY <1>2, <1>4, <1>10, ReadsOf, Tails DEF ChainRead, Unspents, OrElse, IInv, TxInv
  <2>2. TxInv'
    <3>1. CASE ChainRead = {}
      BY <1>1, <1>10, <2>1, <3>1 DEF TxInv
    <3>2. CASE ChainRead # {}
      BY <1>1, <1>2, <1>10, <2>1, <3>2 DEF TxInv
    <3> QED BY <3>1, <3>2
  <2>3. CalmInv'
    <3>1. calm => Found \subseteq rows \cup txstore
      BY <1>1, <1>10 DEF IInv, CalmInv, Unspents
    <3>2. Found' \subseteq Found \cup rows
      BY <1>2, <2>1
    <3> QED BY <1>1, <1>10, <3>1, <3>2 DEF IInv, CalmInv, Unspents
  <2>4. todo' # <<"trace">> /\ todo' # <<"panic">>
    BY <2>1, Heads
  <2> QED
    BY <1>1, <1>3, <1>4, <1>10, <2>2, <2>3, <2>4
    DEF IInv, KindInv, TxsInv, LateInv, UnspentInv, ChainInv, SpendInv, TraceInv, PrevoutsFound, Unspents
<1>11. CASE ask = "spend"
  <2>1. /\ ChainRead = {x \in served : about \in Spends[x]} /\ about \in Outs
        /\ ChainRead # {} => todo' = <<>>
        /\ ChainRead = {} => todo' = <<"pool">>
    BY <1>2, <1>4, <1>11, ReadsOf, Tails DEF ChainRead, Unspents, OrElse, IInv, SpendInv
  <2>2. SpendInv'
    <3>1. CASE ChainRead = {}
      BY <1>1, <1>11, <2>1, <3>1 DEF SpendInv
    <3>2. CASE ChainRead # {}
      BY <1>1, <1>2, <1>11, <2>1, <3>2 DEF SpendInv
    <3> QED BY <3>1, <3>2
  <2>3. CalmInv'
    BY <1>1, <1>11 DEF IInv, CalmInv, Unspents
  <2>4. todo' # <<"trace">> /\ todo' # <<"panic">>
    BY <2>1, Heads
  <2> QED
    BY <1>1, <1>3, <1>4, <1>11, <2>2, <2>3, <2>4
    DEF IInv, KindInv, TxsInv, LateInv, UnspentInv, ChainInv, TxInv, TraceInv, PrevoutsFound, Unspents
<1> QED BY <1>4, <1>6, <1>7, <1>8, <1>9, <1>10, <1>11, ReadsOf DEF Unspents

-----------------------------------------------------------------------------
(* The read of the mempool                                                  *)

LEMMA ReadPoolInv == ASSUME IInv, ReadPool PROVE IInv'
<1>1. /\ KnownInv' /\ Have' = Have /\ Wanted' = Wanted /\ ChainRead' = ChainRead
      /\ PoolRead' = PoolRead /\ Current' = Current /\ Both' = Both
      /\ UNCHANGED <<vars, served, rows, txstore, entries, edges, displaced>>
      /\ UNCHANGED <<ask, about, known, ever, late, orphan, calm>>
      /\ ask # "none" /\ todo # <<>> /\ Head(todo) = "pool"
  BY ReadingKeeps DEF ReadPool, IInv
<1>2. /\ Found' = {o \in Found : ask \in Unspents => edges[o] = NoTx} \cup PoolRead
      /\ got' = {g \in got : ask \in Unspents => edges[g[1]] = NoTx} \cup (PoolRead \X {"pool"})
      /\ todo' = IF ask = "tx" /\ PoolRead = {} THEN <<>> ELSE Tail(todo)
  BY PoolFound
<1>3. Inv'
  BY <1>1, RequestKeepsInv DEF IInv
<1>4. /\ ask \in DOMAIN Reads /\ ask # "chain"
      /\ ask \notin {"txs", "mempool"} => todo = Tail(Reads[ask])
      /\ ask \in {"txs", "mempool"} => todo = Reads[ask]
  BY <1>1, NextRead
<1>5. todo \notin {<<"prevouts">>, <<>>, <<"panic">>, <<"trace">>, <<"assets">>, <<"status", "prevouts">>}
  BY <1>1, Heads
<1>6. /\ known \subseteq Have /\ Have \subseteq ever /\ Both \subseteq late
  BY <1>1 DEF IInv, KnownInv
<1>7. CASE ask \in Unspents
  <2>1. /\ todo' = Tail(Tail(Reads[ask])) /\ todo' \in {<<>>, <<"assets">>}
        /\ PoolRead = {o \in Own : Creator[o] \in InHistory /\ edges[o] = NoTx}
    BY <1>2, <1>4, <1>7, ReadsOf, Tails DEF PoolRead, Unspents
  <2>2. /\ Found \subseteq Own
        /\ \A o \in Found : \A x \in served : o \in Spends[x] => x \in late
        /\ OthersOk(served)
    <3>1. todo # Reads[ask] /\ todo # Tail(Tail(Reads[ask]))
      BY <1>4, <1>5, <1>7, <2>1, AtStart, ReadsOf, Tails DEF Unspents
    <3> QED BY <1>5, <1>7, <3>1 DEF IInv, UnspentInv
  <2>3. \A o \in Found' : o \in Own /\ o \in Outs /\ edges[o] = NoTx /\ (o \in Found \/ Creator[o] \in InHistory)
    BY <1>2, <1>7, <2>1, <2>2, QueryAssumption
  <2>4. ListedOk(known)'
    <3> SUFFICES ASSUME NEW o \in Found', NEW x \in known \ displaced, o \in Spends[x]
                 PROVE  x \in late \/ Creator[o] \in late
      BY <1>1 DEF ListedOk
    <3>1. x \notin InHistory
      BY <2>3, HaveFacts DEF IInv
    <3>2. x \in served
      BY <1>6, <3>1 DEF Have
    <3>3. CASE o \in Found
      BY <2>2, <3>2, <3>3
    <3>4. CASE Creator[o] \in InHistory
      BY <1>6, <3>2, <3>4, HaveFacts DEF IInv, Both
    <3> QED BY <2>3, <3>3, <3>4
  <2>5. OthersOk(known)'
    <3> SUFFICES ASSUME NEW o \in Own, o \notin Found', Creator[o] \in known, \A x \in ever : o \notin Spends[x]
                 PROVE  Creator[o] \in late
      BY <1>1 DEF OthersOk
    <3>1. edges[o] = NoTx
      <4>1. ASSUME edges[o] # NoTx PROVE FALSE
        <5>1. edges[o] \in InHistory /\ o \in Spends[edges[o]]
          BY <4>1, HaveFacts, QueryAssumption DEF IInv
        <5> QED BY <1>6, <5>1 DEF Have
      <4> QED BY <4>1
    <3>2. Creator[o] \in served /\ o \notin Found
      BY <1>2, <1>6, <2>1, <3>1 DEF Have
    <3> QED BY <2>2, <3>2 DEF OthersOk
  <2>6. UnspentInv'
    BY <1>1, <2>1, <2>3, <2>4, <2>5 DEF UnspentInv
  <2>7. CalmInv'
    <3>1. calm => got = ChainRead \X {"chain"}
      BY <1>1, <1>4, <1>7 DEF IInv, CalmInv, Unspents
    <3>2. calm => got' = {g \in ChainRead \X {"chain"} : ask \in Unspents => edges[g[1]] = NoTx}
                         \cup (PoolRead \X {"pool"})
      BY <1>2, <3>1
    <3>3. todo' # Reads[ask] /\ todo' # Tail(Reads[ask])
      BY <1>4, <1>5, <1>7, <2>1, AtStart DEF Unspents
    <3> QED BY <1>1, <1>7, <3>2, <3>3 DEF IInv, CalmInv, Unspents
  <2>8. todo' # <<"trace">> /\ todo' # <<"panic">>
    BY <2>1
  <2> QED
    BY <1>1, <1>3, <1>4, <1>7, <2>6, <2>7, <2>8
    DEF IInv, KindInv, TxsInv, LateInv, TxInv, SpendInv, ChainInv, TraceInv, PrevoutsFound, Unspents
<1>8. CASE ask \in {"history", "color"}
  <2>1. /\ todo' = Tail(Tail(Reads[ask])) /\ todo' \in {<<>>, <<"prevouts">>}
        /\ Found' = Found \cup PoolRead /\ PoolRead = {x \in InHistory : Touches(x)}
        /\ got' = got \cup (PoolRead \X {"pool"})
    BY <1>2, <1>4, <1>8, ReadsOf, Tails DEF PoolRead, Unspents
  <2>2. LateInv'
    <3>1. (Wanted \ Found) \cap served \subseteq late
      BY <1>4, <1>5, <1>8, AtStart DEF IInv, LateInv
    <3>2. \A x \in Wanted : Touches(x) /\ (x \in served \/ x \in InHistory)
      BY <1>6, <1>8 DEF Wanted, Have
    <3> QED BY <1>1, <2>1, <3>1, <3>2 DEF LateInv
  <2>3. CalmInv'
    <3>1. calm => got = ChainRead \X {"chain"}
      BY <1>1, <1>4, <1>8 DEF IInv, CalmInv
    <3>2. calm => got' = {g \in ChainRead \X {"chain"} : ask \in Unspents => edges[g[1]] = NoTx}
                         \cup (PoolRead \X {"pool"})
      BY <1>8, <2>1, <3>1 DEF Unspents
    <3>3. todo' # Reads[ask] /\ todo' # Tail(Reads[ask])
      BY <1>4, <1>5, <1>8, <2>1, AtStart
    <3>4. calm => Found' \subseteq rows \cup txstore
      BY <1>1, <1>8, <2>1, HaveFacts DEF IInv, CalmInv, Unspents
    <3> QED BY <1>1, <1>8, <3>2, <3>3, <3>4 DEF IInv, CalmInv, Unspents
  <2>4. todo' # <<"trace">> /\ todo' # <<"panic">>
    BY <2>1
  <2> QED
    BY <1>1, <1>3, <1>4, <1>8, <2>2, <2>3, <2>4
    DEF IInv, KindInv, TxsInv, UnspentInv, TxInv, SpendInv, ChainInv, TraceInv, PrevoutsFound, Unspents
<1>9. CASE ask = "txs"
  <2>1. /\ todo' = <<"chain", "prevouts">> /\ todo' = Tail(Reads[ask])
        /\ Found' = Found \cup PoolRead /\ PoolRead = {x \in InHistory : Touches(x)}
        /\ got' = got \cup (PoolRead \X {"pool"})
    BY <1>2, <1>4, <1>9, ReadsOf, Tails DEF PoolRead, Unspents
  <2>2. TxsInv'
    <3>1. \A x \in Wanted : Touches(x) /\ (x \in served \/ x \in InHistory)
      BY <1>6, <1>9 DEF Wanted, Have
    <3> QED BY <1>1, <2>1, <3>1 DEF TxsInv
  <2>3. CalmInv'
    <3>1. calm => got' = PoolRead \X {"pool"}
      BY <1>1, <1>4, <1>9, <2>1 DEF IInv, CalmInv
    <3>2. todo' # Reads[ask]
      BY <1>4, <2>1, AtStart
    <3>3. ~Gathered'
      BY <2>1, Heads, NotGatheredNext
    <3>4. calm => Found' \subseteq rows \cup txstore
      BY <1>1, <1>9, <2>1, HaveFacts DEF IInv, CalmInv, Unspents
    <3> QED BY <1>1, <1>9, <3>1, <3>2, <3>3, <3>4 DEF IInv, CalmInv, Unspents
  <2>4. todo' # <<"trace">> /\ todo' # <<"panic">>
    BY <2>1, Heads
  <2> QED
    BY <1>1, <1>3, <1>4, <1>9, <2>2, <2>3, <2>4
    DEF IInv, KindInv, LateInv, UnspentInv, TxInv, SpendInv, ChainInv, TraceInv, PrevoutsFound, Unspents
<1>10. CASE ask = "mempool"
  <2>1. /\ todo' = <<"prevouts">>
        /\ Found' = Found \cup PoolRead /\ PoolRead = {x \in InHistory : Touches(x)}
    BY <1>2, <1>4, <1>10, ReadsOf, Tails DEF PoolRead, Unspents
  <2>2. CalmInv'
    <3>1. calm => Found' \subseteq rows \cup txstore
      BY <1>1, <1>10, <2>1, HaveFacts DEF IInv, CalmInv, Unspents
    <3> QED BY <1>1, <1>10, <3>1 DEF IInv, CalmInv, Unspents
  <2>3. todo' # <<"trace">> /\ todo' # <<"panic">>
    BY <2>1, Heads
  <2> QED
    BY <1>1, <1>3, <1>4, <1>10, <2>1, <2>2, <2>3
    DEF IInv, KindInv, TxsInv, LateInv, UnspentInv, TxInv, SpendInv, ChainInv, TraceInv, PrevoutsFound, Unspents
<1>11. CASE ask = "tx"
  <2>1. /\ PoolRead = {about} \cap txstore /\ Found' = Found \cup PoolRead
        /\ about \in Txs /\ (about \in rows => about \in late)
        /\ PoolRead # {} => todo' = <<"status", "prevouts">>
        /\ PoolRead = {} => todo' = <<>>
    BY <1>2, <1>4, <1>5, <1>11, ReadsOf, Tails, Heads, <1>1 DEF PoolRead, Unspents, IInv, TxInv
  <2>2. TxInv'
    <3>1. CASE PoolRead = {}
      <4>1. about \notin InHistory /\ served \subseteq rows
        BY <2>1, <3>1, HaveFacts DEF IInv
      <4>2. Wanted \subseteq late
        BY <1>6, <1>11, <2>1, <4>1 DEF Wanted, Have
      <4> QED BY <1>1, <1>11, <2>1, <3>1, <4>2 DEF TxInv
    <3>2. CASE PoolRead # {}
      BY <1>1, <1>11, <2>1, <3>2 DEF TxInv
    <3> QED BY <3>1, <3>2
  <2>3. CalmInv'
    <3>1. calm => Found' \subseteq rows \cup txstore
      BY <1>1, <1>11, <2>1 DEF IInv, CalmInv, Unspents
    <3> QED BY <1>1, <1>11, <3>1 DEF IInv, CalmInv, Unspents
  <2>4. todo' # <<"trace">> /\ todo' # <<"panic">>
    BY <2>1, Heads
  <2> QED
    BY <1>1, <1>3, <1>4, <1>11, <2>2, <2>3, <2>4
    DEF IInv, KindInv, TxsInv, LateInv, UnspentInv, ChainInv, SpendInv, TraceInv, PrevoutsFound, Unspents
<1>12. CASE ask = "spend"
  <2>1. /\ PoolRead = {edges[about]} \ {NoTx} /\ Found' = Found \cup PoolRead
        /\ about \in Outs /\ todo' = <<>>
        /\ {x \in served : about \in Spends[x]} \subseteq late
    <3>1. todo = <<"pool">> /\ <<"pool">> # <<"chain", "pool">>
      BY <1>4, <1>12, ReadsOf, Tails
    <3> QED BY <1>2, <1>5, <1>12, <3>1, Tails DEF PoolRead, Unspents, IInv, SpendInv
  <2>2. SpendInv'
    <3> SUFFICES ASSUME Found' = {}, NEW x \in known \ displaced, about \in Spends[x]
                 PROVE  x \in late
      BY <1>1, <1>12, <2>1 DEF SpendInv, Wanted
    <3>1. edges[about] = NoTx
      BY <2>1
    <3>2. x \notin InHistory
      BY <3>1, HaveFacts DEF IInv
    <3>3. x \in served
      BY <1>6, <3>2 DEF Have
    <3> QED BY <2>1, <3>3
  <2>3. CalmInv'
    BY <1>1, <1>12 DEF IInv, CalmInv, Unspents
  <2>4. todo' # <<"trace">> /\ todo' # <<"panic">>
    BY <2>1
  <2> QED
    BY <1>1, <1>3, <1>4, <1>12, <2>2, <2>3, <2>4
    DEF IInv, KindInv, TxsInv, LateInv, UnspentInv, ChainInv, TxInv, TraceInv, PrevoutsFound, Unspents
<1> QED BY <1>4, <1>7, <1>8, <1>9, <1>10, <1>11, <1>12, ReadsOf DEF Unspents

-----------------------------------------------------------------------------
(* The other reads                                                          *)

LEMMA ReadStatusInv == ASSUME IInv, ReadStatus PROVE IInv'
<1>1. /\ KnownInv' /\ Have' = Have /\ Wanted' = Wanted /\ ChainRead' = ChainRead
      /\ PoolRead' = PoolRead /\ Current' = Current
      /\ UNCHANGED <<vars, served, rows, txstore, entries, edges, displaced>>
      /\ UNCHANGED <<ask, about, known, ever, late, orphan, calm>>
      /\ ask # "none" /\ todo # <<>> /\ Head(todo) = "status"
  BY ReadingKeeps DEF ReadStatus, IInv
<1>2. Inv'
  BY <1>1, RequestKeepsInv DEF IInv
<1>3. ask = "tx" /\ todo = <<"status", "prevouts">> /\ todo' = <<"prevouts">>
  BY <1>1, NextRead, Tails DEF ReadStatus
<1>4. Found' = Found \cup ({about} \cap served)
  BY FirstOf DEF ReadStatus, Found
<1>5. TxInv'
  <2>1. about \in Txs /\ Found # {}
    BY <1>3, Heads DEF IInv, TxInv
  <2> QED BY <1>1, <1>3, <1>4, <2>1 DEF TxInv
<1>6. CalmInv'
  <2>1. calm => Found' \subseteq rows \cup txstore
    BY <1>1, <1>3, <1>4, HaveFacts DEF IInv, CalmInv, Unspents
  <2> QED BY <1>1, <1>3, <2>1 DEF IInv, CalmInv, Unspents
<1>7. todo' # <<"trace">> /\ todo' # <<"panic">>
  BY <1>3, Heads
<1> QED
  BY <1>1, <1>2, <1>3, <1>5, <1>6, <1>7
  DEF IInv, KindInv, TxsInv, LateInv, UnspentInv, ChainInv, SpendInv, TraceInv, PrevoutsFound, Unspents

\* While nothing moves, and for the transactions of a chain always, what they spend is found.
LEMMA PrevoutsThere ==
  ASSUME IInv, ask = "chain" \/ calm, ask \notin Unspents \cup {"none", "spend"}
  PROVE  AllFound(Found, txstore)
<1>1. CASE ask = "chain"
  BY <1>1 DEF IInv, ChainInv, AllFound, Inv, ChainsInv, Closed
<1>2. CASE calm
  <2>1. Current /\ Found \subseteq rows \cup txstore
    BY <1>2 DEF IInv, CalmInv
  <2>2. \A x \in rows : Parents(x) \subseteq rows
    BY DEF IInv, Inv, ChainsInv, Closed
  <2>3. \A x \in txstore : Parents(x) \subseteq rows \cup txstore
    BY <2>1, HaveFacts DEF IInv, Inv, PoolInv, Closed, Current
  <2> QED BY <2>1, <2>2, <2>3 DEF AllFound
<1> QED BY <1>1, <1>2

LEMMA LookupTxosInv == ASSUME IInv, LookupTxos PROVE IInv'
<1>1. /\ KnownInv' /\ Have' = Have /\ Wanted' = Wanted /\ ChainRead' = ChainRead
      /\ PoolRead' = PoolRead /\ Current' = Current
      /\ UNCHANGED <<vars, served, rows, txstore, entries, edges, displaced>>
      /\ UNCHANGED <<ask, about, known, ever, late, orphan, calm>>
      /\ ask # "none" /\ todo # <<>> /\ Head(todo) = "prevouts"
  BY ReadingKeeps DEF LookupTxos, IInv
<1>2. Inv'
  BY <1>1, RequestKeepsInv DEF IInv
<1>3. /\ ask \in DOMAIN Reads /\ ask \notin Unspents \cup {"spend"} /\ todo = <<"prevouts">>
      /\ got' = got /\ Found' = Found
      /\ todo' = IF AllFound(Found, txstore) THEN <<>> ELSE <<"panic">>
  BY <1>1, NextRead DEF LookupTxos, Found
<1>4. /\ todo' \in {<<>>, <<"panic">>}
      /\ todo' = <<"panic">> => ask # "chain" /\ ~calm
  BY <1>1, <1>3, PrevoutsThere
<1>5. /\ todo # Reads[ask] /\ todo' # Reads[ask] /\ todo' # <<"trace">>
      /\ <<"prevouts">> # <<"pool", "prevouts">> /\ <<"prevouts">> # <<"chain", "prevouts">>
  BY <1>3, <1>4, AtStart, Heads
<1>6. TxsInv'
  BY <1>1, <1>3, <1>4, <1>5, Heads DEF IInv, TxsInv
<1>7. LateInv'
  <2> SUFFICES ASSUME ask \in {"history", "color"} PROVE Wanted \ Found \subseteq late
    BY <1>1, <1>3, <1>4 DEF LateInv
  <2>1. Tail(Reads[ask]) \in {<<"pool">>, <<"pool", "prevouts">>}
    BY ReadsOf, Tails
  <2>2. todo # Tail(Reads[ask])
    BY <1>3, <2>1, Heads
  <2> QED BY <1>5, <2>2 DEF IInv, LateInv
<1>8. TxInv' /\ ChainInv' /\ KindInv'
  <2>1. TxInv'
    <3>1. ask = "tx" => about \in Txs /\ Found # {}
      BY <1>3, Heads DEF IInv, TxInv
    <3> QED BY <1>1, <1>3, <1>4, <3>1 DEF TxInv
  <2> QED BY <1>1, <1>3, <1>4, <2>1 DEF IInv, ChainInv, KindInv
<1>9. CalmInv'
  <2>1. ask \in {"history", "color", "txs"} => todo' # Tail(Reads[ask])
    BY <1>4, ReadsOf, Tails, Heads
  <2>2. ask # "none" /\ Gathered
    BY <1>1, <1>3 DEF Gathered, Unspents
  <2> QED BY <1>1, <1>3, <1>5, <2>1, <2>2 DEF IInv, CalmInv, Unspents
<1>10. TraceInv' /\ PrevoutsFound' /\ UnspentInv' /\ SpendInv'
  BY <1>1, <1>3, <1>4, <1>5 DEF TraceInv, PrevoutsFound, UnspentInv, SpendInv, Unspents
<1> QED BY <1>1, <1>2, <1>6, <1>7, <1>8, <1>9, <1>10 DEF IInv

LEMMA AnswerInv == ASSUME IInv, Answer PROVE IInv'
<1>1. /\ UNCHANGED vars /\ ask' = "none" /\ got' = {} /\ todo' = <<>>
  BY DEF Answer
<1>2. Inv'
  BY <1>1, RequestKeepsInv DEF IInv
<1> QED
  BY <1>1, <1>2
  DEF IInv, KindInv, KnownInv, TxsInv, LateInv, TxInv, SpendInv, UnspentInv, CalmInv, ChainInv,
      TraceInv, PrevoutsFound, Unspents


-----------------------------------------------------------------------------
(* The assets of the outputs                                                *)

\* The members of a finite set can be put in an order.
LEMMA OrdersOf ==
  ASSUME NEW S, IsFiniteSet(S)
  PROVE  /\ Cardinality(S) \in Nat
         /\ \E f : f \in Orders(S)
         /\ \A f \in Orders(S) : f \in [1 .. Cardinality(S) -> S]
<1>1. Cardinality(S) \in Nat /\ ExistsBijection(1 .. Cardinality(S), S)
  BY FS_CardinalityType
<1>2. PICK f : f \in Bijection(1 .. Cardinality(S), S)
  BY <1>1 DEF ExistsBijection
<1>3. f \in Orders(S)
  BY <1>2 DEF Orders, Bijection, Injection, IsInjective
<1> QED BY <1>1, <1>3 DEF Orders

\* What open_assets() looks up
Lookups == [tx : Txs, where : {"chain", "pool"}, must : BOOLEAN]

\* Transactions to be looked up, in the chain first
FromChain(t) == t \in Seq(Lookups) /\ \A i \in 1 .. Len(t) : t[i].where = "chain"

\* A function on 1 .. n is a sequence.
LEMMA SequenceOf ==
  ASSUME NEW S, NEW n \in Nat, NEW t \in [1 .. n -> S]
  PROVE  t \in Seq(S) /\ Len(t) = n
OBVIOUS

\* They are one for each member of an order.
LEMMA OrderFromChain ==
  ASSUME NEW S, IsFiniteSet(S), NEW f \in Orders(S), NEW must \in BOOLEAN,
         NEW Of, Of \in [S -> Txs]
  PROVE  FromChain([i \in DOMAIN f |-> [tx |-> Of[f[i]], where |-> "chain", must |-> must]])
<1>1. Cardinality(S) \in Nat /\ f \in [1 .. Cardinality(S) -> S]
  BY OrdersOf
<1> DEFINE n == Cardinality(S)
           t == [i \in DOMAIN f |-> [tx |-> Of[f[i]], where |-> "chain", must |-> must]]
<1>2. DOMAIN f = 1 .. n /\ \A i \in 1 .. n : f[i] \in S
  BY <1>1
<1> HIDE DEF n
<1>3. \A i \in 1 .. n : [tx |-> Of[f[i]], where |-> "chain", must |-> must] \in Lookups
  BY <1>2 DEF Lookups
<1>4. t \in [1 .. n -> Lookups]
  BY <1>2, <1>3
<1>5. t \in Seq(Lookups) /\ Len(t) = n
  <2>1. n \in Nat
    BY <1>1 DEF n
  <2> HIDE DEF t
  <2> QED BY <1>4, <2>1, SequenceOf
<1>6. \A i \in 1 .. n : t[i].where = "chain"
  BY <1>2
<1> QED BY <1>5, <1>6 DEF FromChain

\* The inputs of a marked transaction
LEMMA InputsFromChain == ASSUME NEW x \in Txs PROVE FromChain(Inputs(x))
<1> DEFINE f == CHOOSE f \in Orders(Spends[x]) : TRUE
<1>1. CASE x \notin Marked
  <2>1. Inputs(x) = <<>>
    BY <1>1 DEF Inputs
  <2> QED BY <2>1 DEF FromChain
<1>2. CASE x \in Marked
  <2>1. Spends[x] \subseteq Outs /\ IsFiniteSet(Spends[x])
    BY MempoolAssumption, QueryAssumption
  <2>2. f \in Orders(Spends[x])
    BY <2>1, OrdersOf
  <2>3. Cardinality(Spends[x]) \in Nat /\ f \in [1 .. Cardinality(Spends[x]) -> Spends[x]]
    BY <2>1, <2>2, OrdersOf
  <2> DEFINE Of == [o \in Spends[x] |-> Creator[o]]
             t == [i \in DOMAIN f |-> [tx |-> Of[f[i]], where |-> "chain", must |-> TRUE]]
  <2> HIDE DEF f
  <2>4. Of \in [Spends[x] -> Txs]
    BY <2>1, MempoolAssumption
  <2>5. \A i \in DOMAIN f : Of[f[i]] = Creator[f[i]]
    BY <2>3
  <2>6. t = [i \in DOMAIN f |-> [tx |-> Creator[f[i]], where |-> "chain", must |-> TRUE]]
    BY <2>5
  <2>7. Inputs(x) = t
    BY <1>2, <2>6 DEF Inputs, f
  <2> HIDE DEF Of
  <2>8. FromChain(t)
    BY <2>1, <2>2, <2>4, OrderFromChain
  <2> QED BY <2>7, <2>8
<1> QED BY <1>1, <1>2

\* What is appended
LEMMA AppendFromChain ==
  ASSUME NEW s, NEW t, FromChain(s), FromChain(t)
  PROVE  FromChain(s \o t)
<1>1. s \o t \in Seq(Lookups) /\ Len(s \o t) = Len(s) + Len(t) /\ Len(s) \in Nat /\ Len(t) \in Nat
  BY DEF FromChain
<1>2. ASSUME NEW i \in 1 .. Len(s \o t) PROVE (s \o t)[i].where = "chain"
  <2>1. CASE i <= Len(s)
    <3>1. (s \o t)[i] = s[i] /\ i \in 1 .. Len(s)
      BY <1>1, <2>1 DEF FromChain
    <3> QED BY <3>1 DEF FromChain
  <2>2. CASE i > Len(s)
    <3>1. (s \o t)[i] = t[i - Len(s)] /\ i - Len(s) \in 1 .. Len(t)
      BY <1>1, <2>2 DEF FromChain
    <3> QED BY <3>1 DEF FromChain
  <2> QED BY <1>1, <2>1, <2>2
<1> QED BY <1>1, <1>2 DEF FromChain

\* What a step of the tracing owes to the invariant
LEMMA TracingInv ==
  ASSUME IInv, NEW where, Reading(where), where \in {"assets", "trace"}, got' = got,
         todo' \in {<<"trace">>, <<>>, <<"panic">>}, TraceInv', PrevoutsFound'
  PROVE  IInv'
<1>1. /\ KnownInv' /\ Current' = Current /\ UNCHANGED vars
      /\ UNCHANGED <<ask, about, known, ever, late, orphan, calm>>
      /\ ask # "none" /\ todo # <<>> /\ Head(todo) = where
  BY ReadingKeeps DEF IInv
<1>2. Inv' /\ ask = "assets"
  BY <1>1, RequestKeepsInv, NextRead DEF IInv
<1>3. UnspentInv'
  <2>1. Found' = Found /\ Found \subseteq Own
    BY <1>2 DEF Found, IInv, UnspentInv, Unspents
  <2> QED BY <1>1, <1>2, <2>1 DEF UnspentInv
<1>4. CalmInv'
  <2>1. todo' # Reads["assets"] /\ todo' # Tail(Reads["assets"]) /\ todo' # <<"assets">>
    BY ReadsOf, Tails, Heads
  <2> QED BY <1>1, <1>2, <2>1 DEF IInv, CalmInv, Gathered, Unspents
<1> QED
  BY <1>1, <1>2, <1>3, <1>4
  DEF IInv, KindInv, TxsInv, LateInv, TxInv, SpendInv, ChainInv

\* The tracing of what comes after the transaction that was looked up
LEMMA ThenInv ==
  ASSUME NEW t, FromChain(t), todo = <<"trace">>, ask' = "assets", Then(t)
  PROVE  todo' \in {<<"trace">>, <<>>, <<"panic">>} /\ TraceInv' /\ PrevoutsFound'
<1>1. trace' = t /\ (t = <<>> => todo' = <<>>) /\ (t # <<>> => todo' = <<"trace">>)
  BY DEF Then
<1>2. CASE t = <<>>
  BY <1>1, <1>2, Heads DEF TraceInv, PrevoutsFound
<1>3. CASE t # <<>>
  <2>1. t \in Seq(Lookups) /\ Len(t) \in Nat /\ 1 \in 1 .. Len(t) /\ Head(t) = t[1]
    BY <1>3 DEF FromChain
  <2>2. Head(t).where = "chain" /\ \A i \in 2 .. Len(t) : t[i].where = "chain"
    BY <2>1 DEF FromChain
  <2>3. TraceInv'
    BY <1>1, <1>3, <2>1, <2>2 DEF TraceInv, Lookups
  <2> QED BY <1>1, <1>3, <2>3, Heads DEF PrevoutsFound
<1> QED BY <1>2, <1>3

LEMMA OpenAssetsInv == ASSUME IInv, OpenAssets PROVE IInv'
<1>1. Reading("assets") /\ got' = got
  BY DEF OpenAssets
<1>2. /\ UNCHANGED <<ask, about, known, ever, late, orphan, calm>>
      /\ todo # <<>> /\ Head(todo) = "assets"
  BY <1>1, ReadingKeeps DEF IInv
<1>3. ask = "assets" /\ todo = <<"assets">>
  BY <1>2, NextRead
<1> DEFINE S == {Creator[o] : o \in Found}
<1>4. Found \subseteq Own /\ IsFiniteSet(Own) /\ Found \subseteq Outs
  BY <1>3, QueryAssumption DEF IInv, UnspentInv, Unspents
<1>5. IsFiniteSet(S) /\ S \subseteq Txs
  <2>1. IsFiniteSet(Found)
    BY <1>4, FS_Subset
  <2>2. [o \in Found |-> Creator[o]] \in Surjection(Found, S)
    BY DEF Surjection
  <2>3. S \subseteq Txs
    BY <1>4, MempoolAssumption
  <2> HIDE DEF S
  <2> QED BY <2>1, <2>2, <2>3, FS_Surjection
<1>6. PICK f \in Orders(S) :
        trace' = [i \in DOMAIN f |-> [tx |-> f[i], where |-> "chain", must |-> FALSE]]
  BY Zenon DEF OpenAssets
<1>7. todo' = IF trace' = <<>> THEN <<>> ELSE <<"trace">>
  BY Zenon DEF OpenAssets
<1> HIDE DEF S
<1>8. FromChain(trace')
  <2> DEFINE Of == [x \in S |-> x]
             t == [i \in DOMAIN f |-> [tx |-> Of[f[i]], where |-> "chain", must |-> FALSE]]
  <2>1. Of \in [S -> Txs] /\ FALSE \in BOOLEAN
    BY <1>5
  <2>2. f \in [1 .. Cardinality(S) -> S]
    BY <1>5, OrdersOf
  <2>3. \A i \in DOMAIN f : Of[f[i]] = f[i]
    BY <2>2
  <2>4. trace' = t
    BY <1>6, <2>3
  <2> HIDE DEF Of
  <2>5. FromChain(t)
    BY <1>5, <2>1, OrderFromChain
  <2> QED BY <2>4, <2>5
<1>9. todo' \in {<<"trace">>, <<>>, <<"panic">>} /\ todo' # <<"panic">>
  BY <1>7, Heads
<1>10. TraceInv'
  <2>1. CASE trace' = <<>>
    BY <1>7, <2>1, Heads DEF TraceInv
  <2>2. CASE trace' # <<>>
    <3>1. Len(trace') \in Nat /\ 1 \in 1 .. Len(trace') /\ Head(trace') = trace'[1]
      BY <1>8, <2>2 DEF FromChain
    <3>2. Head(trace').where = "chain" /\ \A i \in 2 .. Len(trace') : trace'[i].where = "chain"
      BY <1>8, <3>1 DEF FromChain
    <3> QED BY <1>8, <2>2, <3>2 DEF TraceInv, FromChain, Lookups
  <2> QED BY <2>1, <2>2
<1> QED BY <1>1, <1>9, <1>10, TracingInv DEF PrevoutsFound

LEMMA LookupTxnInv == ASSUME IInv, LookupTxn PROVE IInv'
<1>1. Reading("trace") /\ got' = got
  BY DEF LookupTxn
<1>2. /\ UNCHANGED <<vars, rows, ask, about, known, ever, late, orphan, calm>>
      /\ todo # <<>> /\ Head(todo) = "trace"
  BY <1>1, ReadingKeeps DEF IInv
<1>3. ask = "assets" /\ todo = <<"trace">>
  BY <1>2, NextRead
<1>4. /\ trace \in Seq(Lookups) /\ trace # <<>>
      /\ \A i \in 2 .. Len(trace) : trace[i].where = "chain"
      /\ Head(trace).where = "pool" => (Head(trace).tx \in rows => Head(trace).tx \in late)
  BY <1>3 DEF IInv, TraceInv, Lookups
<1>5. /\ Head(trace) \in Lookups /\ Tail(trace) \in Seq(Lookups)
      /\ Len(trace) \in Nat /\ Len(Tail(trace)) = Len(trace) - 1
      /\ \A i \in 1 .. Len(Tail(trace)) : Tail(trace)[i] = trace[i + 1]
  BY <1>4
<1>6. FromChain(Tail(trace))
  <2> SUFFICES ASSUME NEW i \in 1 .. Len(Tail(trace)) PROVE Tail(trace)[i].where = "chain"
    BY <1>5 DEF FromChain
  <2>1. i + 1 \in 2 .. Len(trace)
    BY <1>5
  <2> QED BY <1>4, <1>5, <2>1
<1> DEFINE next == Head(trace)
<1>7. next.tx \in Txs /\ next.where \in {"chain", "pool"}
  BY <1>5 DEF Lookups
<1>8. \/ next.where = "chain" /\ next.tx \in rows /\ Then(Inputs(next.tx) \o Tail(trace))
      \/ next.where = "chain" /\ next.tx \notin rows
         /\ Then(<<[next EXCEPT !.where = "pool"]>> \o Tail(trace))
      \/ /\ next.where = "pool"
         /\ IF next.tx \in txstore THEN Then(Inputs(next.tx) \o Tail(trace))
            ELSE IF next.must THEN todo' = <<"panic">> /\ UNCHANGED trace
            ELSE Then(Tail(trace))
  BY Zenon DEF LookupTxn
<1>9. CASE Then(Inputs(next.tx) \o Tail(trace))
  <2>1. FromChain(Inputs(next.tx) \o Tail(trace))
    BY <1>6, <1>7, InputsFromChain, AppendFromChain
  <2> QED BY <1>1, <1>2, <1>3, <1>9, <2>1, ThenInv, TracingInv
<1>10. CASE Then(Tail(trace))
  BY <1>1, <1>2, <1>3, <1>6, <1>10, ThenInv, TracingInv
<1>11. CASE next.where = "chain" /\ next.tx \notin rows
            /\ Then(<<[next EXCEPT !.where = "pool"]>> \o Tail(trace))
  <2> DEFINE later == [next EXCEPT !.where = "pool"]
             t == <<later>> \o Tail(trace)
  <2>1. later \in Lookups /\ later.where = "pool" /\ later.tx = next.tx
    BY <1>5 DEF Lookups
  <2> HIDE DEF later, next
  <2>2. /\ t \in Seq(Lookups) /\ t # <<>> /\ Head(t) = later /\ Len(t) = Len(trace)
        /\ \A i \in 2 .. Len(t) : t[i] = Tail(trace)[i - 1]
    BY <1>5, <2>1
  <2>3. \A i \in 2 .. Len(t) : t[i].where = "chain"
    <3> SUFFICES ASSUME NEW i \in 2 .. Len(t) PROVE Tail(trace)[i - 1].where = "chain"
      BY <2>2
    <3>1. i - 1 \in 1 .. Len(Tail(trace))
      BY <1>5, <2>2
    <3> QED BY <1>6, <3>1 DEF FromChain
  <2> HIDE DEF t
  <2>4. trace' = t /\ todo' = todo
    BY <1>11, <2>2 DEF Then, t, later
  <2>5. TraceInv'
    BY <1>2, <1>11, <2>1, <2>2, <2>3, <2>4 DEF TraceInv, Lookups
  <2>6. PrevoutsFound'
    BY <1>3, <2>4, Heads DEF PrevoutsFound
  <2> QED BY <1>1, <1>3, <2>4, <2>5, <2>6, TracingInv
<1>12. CASE next.where = "pool" /\ next.tx \notin txstore /\ todo' = <<"panic">> /\ UNCHANGED trace
  <2>1. next.tx \notin known \ late
    <3>1. known \subseteq served \cup InHistory
      BY <1>3 DEF IInv, KnownInv, Have
    <3>2. next.tx \in known => next.tx \in rows
      BY <1>12, <3>1, HaveFacts DEF IInv
    <3> QED BY <1>4, <1>12, <3>2
  <2>2. PrevoutsFound'
    BY <1>2, <1>3, <1>12, <2>1 DEF PrevoutsFound
  <2>3. TraceInv'
    BY <1>12, Heads DEF TraceInv
  <2> QED BY <1>1, <1>12, <2>2, <2>3, TracingInv
<1> HIDE DEF next
<1> QED BY <1>8, <1>9, <1>10, <1>11, <1>12

-----------------------------------------------------------------------------
(* What the others do in between                                            *)

\* Rows stay, and so does the note of what a transaction was taken for.
LEMMA OnlyGrows ==
  ASSUME Next
  PROVE  rows \subseteq rows' /\ displaced \subseteq displaced'
<1>1. ASSUME NEW x \in Txs, Accept(x) \/ Evict(x) PROVE rows' = rows /\ displaced \subseteq displaced'
  BY <1>1 DEF Accept, Evict, Take, indexVars
<1>2. ASSUME NEW S \in SUBSET Txs, Mine(S) \/ Disconnect(S) PROVE rows' = rows /\ displaced' = displaced
  BY <1>2 DEF Mine, Disconnect, indexVars
<1>3. ASSUME MainThread PROVE rows \subseteq rows' /\ displaced' = displaced
  BY <1>3 DEF MainThread, PollTip, WriteRows, Publish, GetMempool, Merge, indexVars
<1>4. ASSUME NEW h \in Handlers, AddByTxid(h) PROVE rows' = rows /\ displaced' = displaced
  BY <1>4 DEF AddByTxid, indexVars
<1>5. ASSUME NEW h \in Handlers, NEW x \in Txs, Broadcast(h, x)
      PROVE  rows' = rows /\ displaced \subseteq displaced'
  BY <1>5 DEF Broadcast, Take, indexVars
<1> QED BY <1>1, <1>2, <1>3, <1>4, <1>5 DEF Next, Daemon

\* What was read is read again as long as nothing moves.
LEMMA StillCalm ==
  ASSUME UNCHANGED <<daemonVars, indexVars, viewVars>>, UNCHANGED <<ask, about>>
  PROVE  /\ Current' = Current /\ ChainRead' = ChainRead /\ PoolRead' = PoolRead
         /\ Have' = Have /\ Both' = Both /\ InHistory' = InHistory
         /\ UNCHANGED <<edges, rows, served, txstore>>
<1>1. UNCHANGED <<confirmed, pool, rows, served, txstore, entries, edges>>
  BY DEF daemonVars, indexVars, viewVars
<1>2. InHistory' = InHistory
  BY <1>1 DEF InHistory
<1> QED BY <1>1, <1>2 DEF Current, Have, Both, ChainRead, PoolRead, Touches

\* Whatever the others do: what is known shrinks with what there is, and what enters
\* the index, leaves the served chain or is in both is remembered.
LEMMA ElsewhereInv == ASSUME IInv, Elsewhere PROVE IInv'
<1>1. /\ UNCHANGED <<ask, about, todo, got, trace>> /\ Next
      /\ ask # "none" => todo \notin {<<>>, <<"panic">>}
  BY DEF Elsewhere, requestVars, Complete
<1>2. Inv' /\ Found' = Found /\ Gathered' = Gathered /\ KindInv'
  BY <1>1, NextInv DEF IInv, Found, Gathered, KindInv
<1>3. rows \subseteq rows' /\ displaced \subseteq displaced'
  BY <1>1, OnlyGrows
<1>4. CASE ask = "none"
  <2>1. todo' = <<>> /\ todo' # <<"panic">>
    BY <1>1, <1>4 DEF IInv, KindInv
  <2> QED
    BY <1>1, <1>2, <1>4, <2>1
    DEF IInv, KnownInv, TxsInv, LateInv, TxInv, SpendInv, UnspentInv, CalmInv, ChainInv,
        TraceInv, PrevoutsFound, Unspents
<1>5. CASE ask # "none"
  <2>1. /\ known' = known \cap Have' /\ ever' = ever \cup Have'
        /\ late' = late \cup (served' \ served) \cup (rows' \ rows) \cup Both'
        /\ orphan' = orphan \cup (served \ served')
        /\ calm' => calm /\ UNCHANGED <<daemonVars, indexVars, viewVars>>
    BY <1>5, Zenon DEF Elsewhere
  <2>2. /\ late \subseteq late' /\ served' \ served \subseteq late' /\ rows' \ rows \subseteq late'
        /\ Both' \subseteq late' /\ known' \subseteq known /\ ever \subseteq ever'
    BY <2>1
  <2>3. Wanted' \subseteq Wanted
    BY <1>1, <2>2 DEF Wanted, Touches
  <2>4. KnownInv'
    BY <2>1, <2>2 DEF KnownInv
  <2>5. TxsInv'
    BY <1>1, <1>2, <2>1, <2>3 DEF IInv, TxsInv
  <2>6. LateInv'
    BY <1>1, <1>2, <2>2, <2>3 DEF IInv, LateInv
  <2>7. TxInv'
    BY <1>1, <1>2, <2>2, <2>3 DEF IInv, TxInv
  <2>8. SpendInv'
    BY <1>1, <1>2, <1>3, <2>2, <2>3 DEF IInv, SpendInv
  <2>9. UnspentInv'
    <3>1. ASSUME ListedOk(known) PROVE ListedOk(known)'
      BY <1>2, <1>3, <2>2, <3>1 DEF ListedOk
    <3>2. ASSUME OthersOk(known) PROVE OthersOk(known)'
      BY <1>2, <2>2, <3>2 DEF OthersOk
    <3>3. ASSUME OthersOk(served) PROVE OthersOk(served)'
      BY <1>2, <2>2, <3>3 DEF OthersOk
    <3>4. ASSUME \A o \in Found : \A x \in served : o \in Spends[x] => x \in late
          PROVE  \A o \in Found' : \A x \in served' : o \in Spends[x] => x \in late'
      BY <1>2, <2>2, <3>4
    <3>5. CASE ask \in Unspents
      BY <1>1, <1>2, <3>1, <3>2, <3>3, <3>4, <3>5 DEF IInv, UnspentInv
    <3> QED BY <1>1, <3>5 DEF UnspentInv
  <2>10. CalmInv'
    <3>1. CASE calm'
      <4>1. /\ calm /\ Current' = Current /\ ChainRead' = ChainRead /\ PoolRead' = PoolRead
            /\ UNCHANGED <<edges, rows, txstore>>
        BY <1>1, <2>1, <3>1, StillCalm
      <4> QED BY <1>1, <1>2, <4>1 DEF IInv, CalmInv
    <3> QED BY <3>1 DEF CalmInv
  <2>11. ChainInv'
    BY <1>1, <1>2, <1>3 DEF IInv, ChainInv
  <2>12. TraceInv'
    BY <1>1, <2>2 DEF IInv, TraceInv
  <2>13. PrevoutsFound'
    BY <1>1, <1>5 DEF PrevoutsFound
  <2> QED BY <1>2, <2>4, <2>5, <2>6, <2>7, <2>8, <2>9, <2>10, <2>11, <2>12, <2>13 DEF IInv
<1> QED BY <1>4, <1>5

LEMMA StutterInv == ASSUME IInv, UNCHANGED queryVars PROVE IInv'
<1>1. /\ UNCHANGED vars /\ UNCHANGED <<daemonVars, indexVars, viewVars, displaced>>
      /\ UNCHANGED <<ask, about, todo, got, trace, known, ever, late, orphan, calm>>
  BY DEF queryVars, vars, requestVars, historyVars
<1>2. /\ Inv' /\ Current' = Current /\ ChainRead' = ChainRead /\ PoolRead' = PoolRead
      /\ Have' = Have /\ Both' = Both /\ UNCHANGED <<edges, rows, served, txstore>>
  BY <1>1, RequestKeepsInv, StillCalm DEF IInv
<1>3. Found' = Found /\ Wanted' = Wanted /\ Gathered' = Gathered
  BY <1>1 DEF Found, Wanted, Touches, Gathered
<1>4. KindInv' /\ KnownInv' /\ TxsInv' /\ LateInv' /\ TxInv' /\ SpendInv'
  BY <1>1, <1>2, <1>3 DEF IInv, KindInv, KnownInv, TxsInv, LateInv, TxInv, SpendInv
<1>5. UnspentInv'
  BY <1>1, <1>2, <1>3 DEF IInv, UnspentInv, ListedOk, OthersOk
<1>6. CalmInv'
  BY <1>1, <1>2, <1>3 DEF IInv, CalmInv
<1>7. ChainInv' /\ TraceInv' /\ PrevoutsFound'
  BY <1>1, <1>2, <1>3 DEF IInv, ChainInv, TraceInv, PrevoutsFound
<1> QED BY <1>2, <1>4, <1>5, <1>6, <1>7 DEF IInv

-----------------------------------------------------------------------------
(* What the invariant says of an answer                                     *)

(* The inductive invariant of a request, with that of what it reads.        *)
THEOREM QueryInvariant == QuerySpec => []IInv
<1>1. IInv /\ [Request \/ Elsewhere]_queryVars => IInv'
  BY AskInv, ReadChainInv, ReadPoolInv, ReadStatusInv, LookupTxosInv, OpenAssetsInv,
     LookupTxnInv, AnswerInv, ElsewhereInv, StutterInv DEF Request
<1>2. QED
  BY InitQuery, <1>1, PTL DEF QuerySpec

(* The handler for the transactions of an address, src/src/rest.rs:626,     *)
(* reads the mempool before the chain: it cannot miss a transaction that    *)
(* electrs has had all the time, unless a reorganisation takes it back to   *)
(* the mempool.                                                             *)
THEOREM TxsComplete == QuerySpec => []TxsMissesNothing
<1>1. IInv => TxsMissesNothing
  BY Heads DEF IInv, TxsInv, TxsMissesNothing, Gathered
<1>2. QED
  BY QueryInvariant, <1>1, PTL

(* utxo(), history_txids(), stats(), get_colored_txs(), lookup_txn() and    *)
(* lookup_spend() of src/src/new_index/query.rs read the chain before the   *)
(* mempool: what they miss, or list as unspent, comes from a transaction    *)
(* that was being confirmed meanwhile, or that tapyrusd took another for.   *)
THEOREM AnswersWrongOnlyIfLate == QuerySpec => []WrongOnlyIfLate
<1>1. ASSUME IInv, Gathered PROVE ask \in {"history", "color"} => Wanted \ Found \subseteq late
  <2> SUFFICES ASSUME ask \in {"history", "color"} PROVE Wanted \ Found \subseteq late
    OBVIOUS
  <2>1. todo # Reads[ask]
    BY <1>1, AtStart, ReadsOf DEF Gathered
  <2>2. Tail(Reads[ask]) \in {<<"pool">>, <<"pool", "prevouts">>}
    BY ReadsOf, Tails
  <2>3. todo # Tail(Reads[ask])
    BY <1>1, <2>2, Heads DEF Gathered
  <2> QED BY <1>1, <2>1, <2>3 DEF IInv, LateInv
<1>2. ASSUME IInv, Gathered, Found = {} PROVE ask \in OrElse => Wanted \ displaced \subseteq late
  BY <1>2, Heads DEF IInv, TxInv, SpendInv, Gathered, OrElse
<1>3. ASSUME IInv, Gathered PROVE ask \in Unspents => ListedOk(known) /\ OthersOk(known)
  <2> SUFFICES ASSUME ask \in Unspents PROVE ListedOk(known) /\ OthersOk(known)
    OBVIOUS
  <2>1. todo # Reads[ask]
    BY <1>3, AtStart, ReadsOf DEF Gathered, Unspents
  <2>2. Tail(Reads[ask]) \in {<<"pool">>, <<"pool", "assets">>}
    BY ReadsOf, Tails DEF Unspents
  <2>3. todo # Tail(Reads[ask])
    BY <1>3, <2>2, Heads DEF Gathered
  <2>4. ~(ask = "assets" /\ todo \in {<<"trace">>, <<>>, <<"panic">>})
    BY <1>3, Heads DEF Gathered
  <2> QED BY <1>3, <2>1, <2>3, <2>4 DEF IInv, UnspentInv
<1>4. IInv => WrongOnlyIfLate
  BY <1>1, <1>2, <1>3 DEF WrongOnlyIfLate, ListedOk, OthersOk, OrElse, Unspents
<1>5. QED
  BY QueryInvariant, <1>4, PTL

(* The expects of lookup_txos() and get_output() on the transactions that   *)
(* an answer goes on to: none fails while nothing moves, nor for what was   *)
(* there all the time.                                                      *)
THEOREM ExpectsHold == QuerySpec => []PrevoutsFound
BY QueryInvariant, PTL DEF IInv

\* What was gathered while nothing moved
LEMMA CalmGot ==
  ASSUME IInv, Gathered, calm, ask \in Unspents \cup {"history", "color", "txs"}
  PROVE  got = {g \in ChainRead \X {"chain"} : ask \in Unspents => edges[g[1]] = NoTx}
               \cup (PoolRead \X {"pool"})
<1>1. ask # "none" /\ "txs" \notin Unspents
  BY DEF Gathered, Unspents
<1>2. CASE ask = "txs"
  BY <1>1, <1>2 DEF IInv, CalmInv
<1>3. CASE ask # "txs"
  BY <1>1, <1>3 DEF IInv, CalmInv
<1> QED BY <1>2, <1>3

\* A view that is tapyrusd's own tells exactly which outputs its mempool spends.
LEMMA CurrentFacts ==
  ASSUME IInv, Current, txstore \subseteq InHistory \ displaced
  PROVE  /\ served = confirmed /\ InHistory = pool /\ pool \cap served = {}
         /\ \A o \in Outs : edges[o] = NoTx <=> \A x \in pool : o \notin Spends[x]
         /\ \A o \in Outs : \A x \in served : o \in Spends[x] => Creator[o] \in served
<1>1. served = confirmed /\ txstore = pool /\ pool \cap confirmed = {}
  BY DEF Current, IInv, Inv, PoolInv
<1>2. InHistory = pool /\ \A x \in pool : x \notin displaced
  BY <1>1, HaveFacts DEF IInv
<1>3. \A o \in Outs : edges[o] # NoTx => edges[o] \in pool /\ o \in Spends[edges[o]]
  BY <1>2, HaveFacts DEF IInv
<1>4. \A x \in pool : \A o \in Spends[x] : edges[o] # NoTx
  BY <1>2, HaveFacts DEF IInv
<1>5. \A o \in Outs : edges[o] = NoTx <=> \A x \in pool : o \notin Spends[x]
  BY <1>3, <1>4
<1>6. \A o \in Outs : \A x \in served : o \in Spends[x] => Creator[o] \in served
  BY HaveFacts DEF IInv
<1> QED BY <1>1, <1>2, <1>5, <1>6

(* Unspent outputs and histories are read in two parts, each under locks of *)
(* its own.  With nothing moving they fit together: has_spend() hides what  *)
(* the mempool spends of the chain's outputs, nothing else, and no          *)
(* transaction is in both parts.                                            *)
THEOREM AnswersExact == QuerySpec => []CurrentExact
<1> DEFINE all == confirmed \cup pool
           truth == IF ask \in Unspents
                    THEN {o \in Own : Creator[o] \in all /\ \A x \in all : o \notin Spends[x]}
                    ELSE {x \in all : Touches(x)}
           Exact == Found = truth /\ \A g, h \in got : g[1] = h[1] => g = h
<1>1. ASSUME IInv, Gathered, ask \in Unspents \cup {"history", "color", "txs"}, calm,
             txstore \subseteq InHistory \ displaced
      PROVE  Exact
  <2> DEFINE Chain == {o \in ChainRead : ask \in Unspents => edges[o] = NoTx}
  <2>1. got = {g \in ChainRead \X {"chain"} : ask \in Unspents => edges[g[1]] = NoTx}
              \cup (PoolRead \X {"pool"})
    BY <1>1, CalmGot
  <2>2. {g \in ChainRead \X {"chain"} : ask \in Unspents => edges[g[1]] = NoTx} = Chain \X {"chain"}
    OBVIOUS
  <2> HIDE DEF Chain
  <2>3. got = (Chain \X {"chain"}) \cup (PoolRead \X {"pool"})
    BY <2>1, <2>2
  <2>4. Found = Chain \cup PoolRead
    <3>1. \A x \in Chain : <<x, "chain">> \in got /\ <<x, "chain">>[1] = x
      BY <2>3
    <3>2. \A x \in PoolRead : <<x, "pool">> \in got /\ <<x, "pool">>[1] = x
      BY <2>3
    <3>3. \A g \in got : g[1] \in Chain \cup PoolRead
      BY <2>3
    <3> QED BY <3>1, <3>2, <3>3 DEF Found
  <2>5. Current
    BY <1>1 DEF IInv, CalmInv, Gathered
  <2>6. /\ served = confirmed /\ InHistory = pool /\ pool \cap served = {}
        /\ \A o \in Outs : edges[o] = NoTx <=> \A x \in pool : o \notin Spends[x]
        /\ \A o \in Outs : \A x \in served : o \in Spends[x] => Creator[o] \in served
    BY <1>1, <2>5, CurrentFacts
  <2>7. Found = truth /\ Chain \cap PoolRead = {}
    <3>1. CASE ask \in Unspents
      <4>1. /\ Chain = {o \in Own : Creator[o] \in served /\ (\A x \in served : o \notin Spends[x])
                                    /\ edges[o] = NoTx}
            /\ PoolRead = {o \in Own : Creator[o] \in pool /\ edges[o] = NoTx}
        <5>1. ChainRead = {o \in Own : Creator[o] \in served /\ \A x \in served : o \notin Spends[x]}
          BY <3>1 DEF ChainRead, Unspents
        <5>2. PoolRead = {o \in Own : Creator[o] \in InHistory /\ edges[o] = NoTx}
          BY <3>1 DEF PoolRead, Unspents
        <5>3. Chain = {o \in ChainRead : edges[o] = NoTx}
          BY <3>1 DEF Chain
        <5> QED BY <2>6, <5>1, <5>2, <5>3
      <4>2. Chain \cap PoolRead = {}
        BY <2>6, <4>1
      <4>3. ASSUME NEW o \in Chain \cup PoolRead
            PROVE  o \in Own /\ Creator[o] \in all /\ \A x \in all : o \notin Spends[x]
        BY <2>6, <4>1, QueryAssumption
      <4>4. ASSUME NEW o \in Own, Creator[o] \in all, \A x \in all : o \notin Spends[x]
            PROVE  o \in Chain \cup PoolRead
        BY <2>6, <4>1, <4>4, QueryAssumption
      <4> QED BY <2>4, <3>1, <4>2, <4>3, <4>4
    <3>2. CASE ask \notin Unspents
      <4>1. Chain = {x \in served : Touches(x)} /\ PoolRead = {x \in pool : Touches(x)}
        BY <1>1, <2>6, <3>2 DEF Chain, ChainRead, PoolRead, Unspents
      <4> QED BY <2>4, <2>6, <3>2, <4>1
    <3> QED BY <3>1, <3>2
  <2>8. ASSUME NEW g \in got, NEW h \in got, g[1] = h[1] PROVE g = h
    <3>1. /\ g = <<g[1], g[2]>> /\ h = <<h[1], h[2]>>
          /\ (g[1] \in Chain /\ g[2] = "chain") \/ (g[1] \in PoolRead /\ g[2] = "pool")
          /\ (h[1] \in Chain /\ h[2] = "chain") \/ (h[1] \in PoolRead /\ h[2] = "pool")
      BY <2>3
    <3> QED BY <2>7, <2>8, <3>1
  <2> QED BY <2>7, <2>8
<1>2. IInv => CurrentExact
  BY <1>1 DEF CurrentExact
<1>3. QED
  BY QueryInvariant, <1>2, PTL
=============================================================================
