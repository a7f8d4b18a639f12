---------------------------- MODULE MempoolProofs ----------------------------
(***************************************************************************)
(* Proofs about Mempool, for any transactions and outputs and any number   *)
(* of handlers: the tables of the mempool agree with each other whatever   *)
(* tapyrusd does.  TypeOK, HistoryExact and EdgesSound are inductive       *)
(* together: that an entry is there once needs a transaction to be added   *)
(* only when it is not in txstore, that an edge leads to an indexed        *)
(* transaction needs what is removed from txstore to be removed from the   *)
(* edges by its txid.  EdgesComplete needs more: that tapyrusd's chain and *)
(* its mempool never hold two transactions that spend the same output, and *)
(* that a transaction which txstore still has from before was noted when a *)
(* conflicting one came.                                                   *)
(***************************************************************************)
EXTENDS Mempool, TLAPS

Tables == TypeOK /\ HistoryExact /\ EdgesSound

\* What a step that touches the tables owes to Tables'.
TablesUpdated ==
  /\ txstore' \in SUBSET Txs
  /\ entries' \in [Txs -> Nat]
  /\ feeinfo' \in SUBSET Txs
  /\ edges' \in [Outs -> Txs \cup {NoTx}]
  /\ feeinfo' = {x \in Txs : entries'[x] > 0}
  /\ HistoryExact'
  /\ EdgesSound'

-----------------------------------------------------------------------------
LEMMA InitTables == Init => Tables
BY MempoolAssumption, SMT
   DEF Init, Tables, TypeOK, HistoryExact, EdgesSound, NoTx

\* What the tables have in common before and after a step that touches none.
LEMMA TablesKept ==
  ASSUME Tables, UNCHANGED viewVars,
         confirmed' \in SUBSET Txs, pool' \in SUBSET Txs,
         rows' \in SUBSET Txs, served' \in SUBSET Txs,
         pc' \in {"loop", "rows", "publish", "mempool", "merge"},
         aim' \in SUBSET Txs, listed' \in SUBSET Txs,
         sent' \in [Handlers -> Txs \cup {NoTx}],
         displaced' \in SUBSET Txs
  PROVE  Tables'
BY SMT DEF Tables, TypeOK, HistoryExact, EdgesSound, viewVars

-----------------------------------------------------------------------------
(* add(S), then remove(R)                                                   *)

LEMMA IndexedSubset == ASSUME NEW S, NEW store PROVE Indexed(S, store) \subseteq S
BY DEF Indexed

\* The edge of an output is an older one, or leads to one of the transactions
\* entered, which spends it.
LEMMA EdgesWithCase ==
  ASSUME NEW I \in SUBSET Txs, NEW o \in Outs
  PROVE  \/ EdgesWith(I)[o] = edges[o]
         \/ EdgesWith(I)[o] \in I /\ o \in Spends[EdgesWith(I)[o]]
<1>1. CASE \E x \in I : o \in Spends[x]
  <2>1. EdgesWith(I)[o] = CHOOSE x \in I : o \in Spends[x]
    BY <1>1 DEF EdgesWith
  <2>2. (CHOOSE x \in I : o \in Spends[x]) \in I
        /\ o \in Spends[CHOOSE x \in I : o \in Spends[x]]
    BY <1>1, Zenon
  <2> QED BY <2>1, <2>2
<1>2. CASE ~(\E x \in I : o \in Spends[x])
  BY <1>2 DEF EdgesWith
<1> QED BY <1>1, <1>2

\* The tables after AddRemove, from the tables before, when S is new.
LEMMA AddRemoveTables ==
  ASSUME TypeOK, HistoryExact, EdgesSound,
         NEW S \in SUBSET Txs, S \cap txstore = {},
         NEW R \in SUBSET Txs, S \cap R = {},
         AddRemove(S, R)
  PROVE  TablesUpdated
<1> DEFINE I == Indexed(S, txstore \cup S)
           E == EdgesWith(I)
<1>1. I \subseteq S /\ I \in SUBSET Txs
  BY IndexedSubset
<1>2. \A x \in Txs : EntriesWith(I)[x] = entries[x] + (IF x \in I THEN 1 ELSE 0)
  BY DEF EntriesWith
<1>3. \A o \in Outs : E[o] = edges[o] \/ (E[o] \in I /\ o \in Spends[E[o]])
  BY <1>1, EdgesWithCase
<1>4. /\ txstore' = (txstore \cup S) \ R
      /\ entries' = [x \in Txs |-> IF x \in R THEN 0 ELSE EntriesWith(I)[x]]
      /\ feeinfo' = (feeinfo \cup I) \ R
      /\ edges' = [o \in Outs |-> IF E[o] \in R THEN NoTx ELSE E[o]]
  BY Zenon DEF AddRemove
<1> HIDE DEF I, E
<1>5. \A x \in Txs : entries'[x] = IF x \in R THEN 0
                                   ELSE entries[x] + (IF x \in I THEN 1 ELSE 0)
  BY <1>2, <1>4
<1>6. \A x \in Txs : entries[x] \in Nat /\ (x \notin txstore => entries[x] = 0)
  <2>1. \A x \in Txs : entries[x] \in Nat
    BY DEF TypeOK
  <2>2. ASSUME NEW x \in Txs, x \notin txstore PROVE entries[x] = 0
    <3>1. entries[x] \in Nat /\ entries[x] <= 0
      BY <2>1, <2>2 DEF HistoryExact
    <3> QED BY <3>1
  <2> QED BY <2>1, <2>2
<1>7. txstore' \in SUBSET Txs /\ feeinfo' \in SUBSET Txs
  BY <1>1, <1>4 DEF TypeOK
<1>8. entries' \in [Txs -> Nat]
  <2>1. ASSUME NEW x \in Txs PROVE EntriesWith(I)[x] \in Nat
    <3>1. entries[x] \in Nat
      BY <1>6
    <3>2. EntriesWith(I)[x] = entries[x] + 1 \/ EntriesWith(I)[x] = entries[x] + 0
      BY <1>2
    <3> QED BY <3>1, <3>2
  <2> QED BY <1>4, <2>1
<1>9. edges' \in [Outs -> Txs \cup {NoTx}]
  <2>1. \A o \in Outs : E[o] \in Txs \cup {NoTx}
    BY <1>1, <1>3 DEF TypeOK
  <2> QED BY <1>4, <2>1
<1>10. feeinfo' = {x \in Txs : entries'[x] > 0}
  <2>1. feeinfo = {x \in Txs : entries[x] > 0}
    BY DEF TypeOK
  <2>2. \A x \in Txs : x \in feeinfo' <=> entries'[x] > 0
    BY <2>1, <1>1, <1>4, <1>5, <1>6
  <2> QED BY <2>2, <1>7
<1>11. HistoryExact'
  BY <1>1, <1>4, <1>5, <1>6 DEF HistoryExact
<1>12. EdgesSound'
  <2> SUFFICES ASSUME NEW o \in Outs, edges'[o] # NoTx
               PROVE  /\ o \in Spends[edges'[o]] /\ edges'[o] \in txstore'
                      /\ entries'[edges'[o]] = 1
    BY DEF EdgesSound
  <2>1. edges'[o] = E[o] /\ E[o] \notin R
    BY <1>4
  <2>2. CASE E[o] = edges[o]
    <3>1. o \in Spends[edges[o]] /\ edges[o] \in txstore /\ entries[edges[o]] = 1
      BY <2>1, <2>2 DEF EdgesSound
    <3>2. edges[o] \in Txs /\ edges[o] \notin I
      BY <3>1, <1>1 DEF TypeOK
    <3> QED BY <2>1, <2>2, <3>1, <3>2, <1>4, <1>5
  <2>3. CASE E[o] \in I /\ o \in Spends[E[o]]
    BY <2>1, <2>3, <1>1, <1>4, <1>5, <1>6
  <2> QED BY <2>2, <2>3, <1>3
<1> QED BY <1>7, <1>8, <1>9, <1>10, <1>11, <1>12 DEF TablesUpdated

\* add() alone is add() and a remove() of nothing.
LEMMA AddIsAddRemove ==
  ASSUME TypeOK, NEW S \in SUBSET Txs, Add(S)
  PROVE  AddRemove(S, {})
<1> DEFINE I == Indexed(S, txstore \cup S)
<1>1. entries' = [x \in Txs |-> IF x \in {} THEN 0 ELSE EntriesWith(I)[x]]
  BY DEF Add, EntriesWith
<1>2. edges' = [o \in Outs |-> IF EdgesWith(I)[o] \in {} THEN NoTx
                               ELSE EdgesWith(I)[o]]
  BY DEF Add, EdgesWith
<1>3. txstore' = (txstore \cup S) \ {} /\ feeinfo' = (feeinfo \cup I) \ {}
  BY DEF Add
<1> QED BY <1>1, <1>2, <1>3, Zenon DEF AddRemove

-----------------------------------------------------------------------------
LEMMA NextTables == Tables /\ [Next]_vars => Tables'
<1> SUFFICES ASSUME Tables, [Next]_vars PROVE Tables'
  OBVIOUS
<1> USE MempoolAssumption
<1>1. ASSUME NEW x \in Txs, Accept(x) PROVE Tables'
  BY <1>1, TablesKept
     DEF Accept, Take, Tables, TypeOK, indexVars, viewVars, Conflicts
<1>2. ASSUME NEW x \in Txs, Evict(x) PROVE Tables'
  BY <1>2, TablesKept DEF Evict, Tables, TypeOK, indexVars, viewVars
<1>3. ASSUME NEW S \in SUBSET Txs, Mine(S) PROVE Tables'
  BY <1>3, TablesKept DEF Mine, Tables, TypeOK, indexVars, viewVars
<1>4. ASSUME NEW S \in SUBSET Txs, Disconnect(S) PROVE Tables'
  BY <1>4, TablesKept DEF Disconnect, Tables, TypeOK, indexVars, viewVars
<1>5. CASE PollTip
  BY <1>5, TablesKept
     DEF PollTip, Tables, TypeOK, daemonVars, indexVars, viewVars
<1>6. CASE WriteRows
  BY <1>6, TablesKept DEF WriteRows, Tables, TypeOK, daemonVars, viewVars
<1>7. CASE Publish
  BY <1>7, TablesKept DEF Publish, Tables, TypeOK, daemonVars, viewVars
<1>8. CASE GetMempool
  BY <1>8, TablesKept
     DEF GetMempool, Tables, TypeOK, daemonVars, indexVars, viewVars
<1>9. CASE Merge
  <2>1. UNCHANGED <<confirmed, pool, rows, served, aim, sent, displaced>>
        /\ pc' = "loop" /\ listed' = {}
    BY <1>9 DEF Merge, daemonVars, indexVars
  <2>2. CASE listed \ txstore \subseteq pool
    <3>1. AddRemove(listed \ txstore, txstore \ listed)
      BY <1>9, <2>2, Zenon DEF Merge
    <3>2. /\ listed \ txstore \in SUBSET Txs /\ txstore \ listed \in SUBSET Txs
          /\ (listed \ txstore) \cap txstore = {}
          /\ (listed \ txstore) \cap (txstore \ listed) = {}
      BY DEF Tables, TypeOK
    <3>3. TablesUpdated
      BY <3>1, <3>2, AddRemoveTables DEF Tables, TablesUpdated
    <3> QED BY <2>1, <3>3 DEF Tables, TypeOK, TablesUpdated
  <2>3. CASE ~(listed \ txstore \subseteq pool)
    BY <1>9, <2>1, <2>3, TablesKept DEF Merge, Tables, TypeOK
  <2> QED BY <2>2, <2>3
<1>10. ASSUME NEW h \in Handlers, AddByTxid(h) PROVE Tables'
  <2>1. UNCHANGED <<confirmed, pool, rows, served, pc, aim, listed, displaced>>
        /\ sent' \in [Handlers -> Txs \cup {NoTx}]
    BY <1>10 DEF AddByTxid, daemonVars, indexVars, Tables, TypeOK
  <2>2. CASE sent[h] \notin txstore /\ sent[h] \in pool
    <3>1. Add({sent[h]}) /\ {sent[h]} \in SUBSET Txs
      BY <1>10, <2>2, Zenon DEF AddByTxid, Tables, TypeOK
    <3>2. AddRemove({sent[h]}, {})
      BY <3>1, AddIsAddRemove DEF Tables
    <3>3. {sent[h]} \cap txstore = {} /\ {sent[h]} \cap {} = {}
      BY <2>2
    <3>4. TablesUpdated
      BY <3>1, <3>2, <3>3, AddRemoveTables DEF Tables, TablesUpdated
    <3> QED BY <2>1, <3>4 DEF Tables, TypeOK, TablesUpdated
  <2>3. CASE ~(sent[h] \notin txstore /\ sent[h] \in pool)
    BY <1>10, <2>1, <2>3, TablesKept DEF AddByTxid, Tables, TypeOK
  <2> QED BY <2>2, <2>3
<1>11. ASSUME NEW h \in Handlers, NEW x \in Txs, Broadcast(h, x) PROVE Tables'
  BY <1>11, TablesKept
     DEF Broadcast, Take, Tables, TypeOK, indexVars, viewVars, Conflicts
<1>12. CASE UNCHANGED vars
  BY <1>12, TablesKept DEF vars, Tables, TypeOK, daemonVars, indexVars, viewVars
<1> QED BY <1>1, <1>2, <1>3, <1>4, <1>5, <1>6, <1>7, <1>8, <1>9, <1>10, <1>11,
           <1>12 DEF Next, Daemon, MainThread

-----------------------------------------------------------------------------
(* tapyrusd's chain and mempool, and the chains of the index                *)

\* Nothing in S spends from outside S.
Closed(S) == \A x \in S : Parents(x) \subseteq S

\* The chain and the index have what their transactions spend; a served block has
\* its rows.
ChainsInv ==
  /\ Closed(confirmed) /\ Closed(rows) /\ Closed(served) /\ Closed(aim)
  /\ served \subseteq rows
  /\ pc = "publish" => aim \subseteq rows

\* A transaction is confirmed or in the mempool, and what it spends is, too.
PoolInv ==
  /\ pool \cap confirmed = {}
  /\ Closed(confirmed \cup pool)

\* What a disconnected block can bring back, too.
Live == pool \cup (confirmed \ OldTxs)

\* tapyrusd has no two transactions that spend the same output.
ConflictFree == \A x \in Live : Conflicts(x) \cap Live = {}

\* What txstore has left of a conflicting transaction was noted.
Overtaken == \A x \in Live : Conflicts(x) \cap txstore \subseteq displaced

\* An indexed transaction that none came after is the one its outputs lead to.
EdgesOwned ==
  \A x \in Txs \ displaced : entries[x] > 0 => \A o \in Spends[x] : edges[o] = x

Inv == Tables /\ ChainsInv /\ PoolInv /\ ConflictFree /\ Overtaken /\ EdgesOwned

\* The descendants of S are in S or in the mempool, S and what spends from them too.
LEMMA DescendantsClosed ==
  ASSUME NEW S, NEW within
  PROVE  /\ S \subseteq Descendants(S, within)
         /\ Descendants(S, within) \subseteq S \cup within
         /\ ClosedDown(Descendants(S, within), within)
<1> DEFINE All == Descendants(S, within)
<1>1. S \subseteq All /\ All \subseteq S \cup within
  BY DEF Descendants
<1>2. ASSUME NEW y \in within, NEW p \in Parents(y) \cap All PROVE y \in All
  <2> SUFFICES ASSUME NEW D \in SUBSET (S \cup within), S \subseteq D, ClosedDown(D, within)
               PROVE  y \in D
    BY DEF Descendants
  <2>1. p \in D
    BY <1>2 DEF Descendants
  <2> QED BY <1>2, <2>1 DEF ClosedDown
<1> QED BY <1>1, <1>2 DEF ClosedDown

LEMMA ConflictsSymmetric ==
  ASSUME NEW x \in Txs, NEW y \in Txs
  PROVE  y \in Conflicts(x) <=> x \in Conflicts(y)
BY DEF Conflicts

LEMMA ParentsOfTxs == ASSUME NEW x \in Txs PROVE Parents(x) \subseteq Txs
BY MempoolAssumption DEF Parents

\* What tapyrusd's mempool has after it took a transaction.
LEMMA TakePool ==
  ASSUME Inv, NEW x \in Txs, Take(x), UNCHANGED confirmed
  PROVE  /\ PoolInv' /\ ConflictFree' /\ x \in Live' /\ Live' \subseteq Live \cup {x}
         /\ Conflicts(x) \cap Live' = {} /\ x \notin Live
<1> DEFINE Gone == Descendants(Conflicts(x) \cap pool, pool)
<1>1. /\ Acceptable(x) /\ pool' = (pool \ Gone) \cup {x} /\ confirmed' = confirmed
  BY DEF Take
<1>2. Conflicts(x) \cap pool \subseteq Gone /\ ClosedDown(Gone, pool)
  BY DescendantsClosed
<1> HIDE DEF Gone
<1>3. /\ x \notin confirmed \cup pool /\ Parents(x) \subseteq confirmed \cup pool
      /\ Conflicts(x) \cap confirmed = {} /\ Parents(x) \cap Gone \cap pool = {}
  BY <1>1 DEF Acceptable, Gone
<1>4. x \in Live' /\ Live' \subseteq Live \cup {x} /\ x \notin Live
      /\ Conflicts(x) \cap Live' = {}
  BY <1>1, <1>2, <1>3 DEF Live, Conflicts
<1>5. pool' \cap confirmed' = {}
  BY <1>1, <1>3 DEF Inv, PoolInv
<1>6. ASSUME NEW y \in (confirmed \cup pool)' PROVE Parents(y) \subseteq (confirmed \cup pool)'
  <2>1. CASE y = x
    BY <2>1, <1>1, <1>3 DEF Acceptable, Gone
  <2>2. CASE y \in confirmed
    BY <2>2, <1>1 DEF Inv, ChainsInv, Closed
  <2>3. CASE y \in pool \ Gone
    <3>1. Parents(y) \subseteq confirmed \cup pool
      BY <2>3 DEF Inv, PoolInv, Closed
    <3>2. Parents(y) \cap Gone = {}
      BY <2>3, <1>2 DEF ClosedDown
    <3> QED BY <3>1, <3>2, <1>1
  <2> QED BY <2>1, <2>2, <2>3, <1>1, <1>6
<1>7. ASSUME NEW y \in Live' PROVE Conflicts(y) \cap Live' = {}
  <2>1. CASE y = x
    BY <2>1, <1>4
  <2>2. CASE y # x
    <3>1. y \in Live /\ Conflicts(y) \cap Live = {} /\ y \in Txs
      BY <2>2, <1>4, <1>7 DEF Inv, ConflictFree, Live, Tables, TypeOK
    <3>2. x \notin Conflicts(y)
      BY <3>1, <1>4, <1>7, ConflictsSymmetric
    <3> QED BY <3>1, <3>2, <1>4
  <2> QED BY <2>1, <2>2
<1>8. Parents(x)' = Parents(x) /\ \A y : Parents(y)' = Parents(y) /\ Conflicts(y)' = Conflicts(y)
  BY DEF Parents, Conflicts
<1> QED BY <1>4, <1>5, <1>6, <1>7 DEF PoolInv, Closed, ConflictFree

-----------------------------------------------------------------------------
(* Every step keeps the invariant                                           *)

LEMMA InitRest == Init => ChainsInv /\ PoolInv /\ ConflictFree /\ Overtaken /\ EdgesOwned
<1> SUFFICES ASSUME Init PROVE ChainsInv /\ PoolInv /\ ConflictFree /\ Overtaken /\ EdgesOwned
  OBVIOUS
<1>1. Closed(OldTxs) /\ Closed({})
  BY MempoolAssumption DEF Closed, Parents
<1>2. ChainsInv /\ PoolInv
  BY <1>1 DEF Init, ChainsInv, PoolInv
<1>3. Live = {}
  BY DEF Init, Live
<1>4. EdgesOwned
  BY DEF Init, EdgesOwned
<1> QED BY <1>2, <1>3, <1>4 DEF ConflictFree, Overtaken

\* What a step leaves of the index that only moves tapyrusd, handlers or the tables.
LEMMA ChainsKept ==
  ASSUME ChainsInv, Closed(confirmed)', UNCHANGED <<rows, served, aim>>,
         pc' = pc \/ pc' # "publish"
  PROVE  ChainsInv'
BY DEF ChainsInv, Closed, Parents

\* What a step leaves of the mempool that takes no transaction into it.
LEMMA ViewKept ==
  ASSUME ConflictFree, Overtaken, EdgesOwned, UNCHANGED viewVars,
         displaced \subseteq displaced', Live' \subseteq Live
  PROVE  ConflictFree' /\ Overtaken' /\ EdgesOwned'
BY DEF ConflictFree, Overtaken, EdgesOwned, viewVars, Conflicts

\* Overtaken and EdgesOwned after AddRemove, when S is of tapyrusd's mempool.
LEMMA AddRemoveOwned ==
  ASSUME Inv, NEW S \in SUBSET pool, NEW R \in SUBSET Txs, S \cap R = {},
         AddRemove(S, R), UNCHANGED <<confirmed, pool, displaced>>
  PROVE  Overtaken' /\ EdgesOwned'
<1> DEFINE I == Indexed(S, txstore \cup S)
           E == EdgesWith(I)
<1>1. /\ I \subseteq S /\ S \subseteq Live /\ Live \subseteq Txs /\ I \in SUBSET Txs
      /\ txstore \subseteq Txs /\ Live' = Live
  BY IndexedSubset DEF Inv, Tables, TypeOK, Live
<1>2. \A x \in Txs : EntriesWith(I)[x] = entries[x] + (IF x \in I THEN 1 ELSE 0)
  BY DEF EntriesWith
<1>3. \A o \in Outs : E[o] = edges[o] \/ (E[o] \in I /\ o \in Spends[E[o]])
  BY <1>1, EdgesWithCase
<1>4. ASSUME NEW o \in Outs, NEW z \in I, o \in Spends[z] PROVE E[o] \in I /\ o \in Spends[E[o]]
  <2>1. E[o] = CHOOSE x \in I : o \in Spends[x]
    BY <1>4 DEF EdgesWith
  <2>2. (CHOOSE x \in I : o \in Spends[x]) \in I
        /\ o \in Spends[CHOOSE x \in I : o \in Spends[x]]
    BY <1>4, Zenon
  <2> QED BY <2>1, <2>2
<1>5. /\ txstore' = (txstore \cup S) \ R
      /\ entries' = [x \in Txs |-> IF x \in R THEN 0 ELSE EntriesWith(I)[x]]
      /\ edges' = [o \in Outs |-> IF E[o] \in R THEN NoTx ELSE E[o]]
  BY Zenon DEF AddRemove
<1> HIDE DEF I, E
<1>6. Overtaken'
  <2> SUFFICES ASSUME NEW x \in Live, NEW y \in Conflicts(x), y \in txstore \cup S
               PROVE  y \in displaced
    BY <1>1, <1>5 DEF Overtaken, Conflicts
  <2>1. y \notin Live
    BY DEF Inv, ConflictFree
  <2> QED BY <2>1, <1>1 DEF Inv, Overtaken
<1>7. EdgesOwned'
  <2> SUFFICES ASSUME NEW x \in Txs, x \notin displaced, entries'[x] > 0, NEW o \in Spends[x]
               PROVE  edges'[o] = x
    BY DEF EdgesOwned
  <2>1. x \notin R /\ (x \in I \/ entries[x] > 0)
    <3>1. x \notin R
      BY <1>5
    <3>2. ASSUME x \notin I PROVE entries[x] > 0
      <4>1. EntriesWith(I)[x] = entries[x] + 0 /\ entries[x] \in Nat
        BY <3>2, <1>2 DEF Inv, Tables, TypeOK
      <4> QED BY <3>1, <4>1, <1>5
    <3> QED BY <3>1, <3>2
  <2>2. o \in Outs
    BY MempoolAssumption
  <2>3. ASSUME E[o] \in I, o \in Spends[E[o]], E[o] # x PROVE FALSE
    <3>1. E[o] \in Live /\ x \in Conflicts(E[o])
      BY <2>3, <1>1 DEF Conflicts
    <3>2. CASE x \in I
      BY <3>1, <3>2, <1>1 DEF Inv, ConflictFree
    <3>3. CASE entries[x] > 0
      <4>1. entries[x] <= (IF x \in txstore THEN 1 ELSE 0) /\ entries[x] \in Nat
        BY DEF Inv, Tables, HistoryExact, TypeOK
      <4>2. x \in txstore
        BY <3>3, <4>1
      <4> QED BY <3>1, <4>2 DEF Inv, Overtaken
    <3> QED BY <2>1, <3>2, <3>3
  <2>4. E[o] = x
    <3>1. CASE x \in I
      BY <3>1, <2>2, <2>3, <1>4
    <3>2. CASE entries[x] > 0
      <4>1. edges[o] = x
        BY <3>2 DEF Inv, EdgesOwned
      <4>2. E[o] = edges[o] \/ (E[o] \in I /\ o \in Spends[E[o]])
        BY <2>2, <1>3
      <4> QED BY <4>1, <4>2, <2>3
    <3> QED BY <2>1, <3>1, <3>2
  <2> QED BY <2>1, <2>2, <2>4, <1>5
<1> QED BY <1>6, <1>7

LEMMA NextRest ==
  ASSUME Inv, [Next]_vars
  PROVE  ChainsInv' /\ PoolInv' /\ ConflictFree' /\ Overtaken' /\ EdgesOwned'
<1> DEFINE Goal == ChainsInv' /\ PoolInv' /\ ConflictFree' /\ Overtaken' /\ EdgesOwned'
<1> USE MempoolAssumption
\* Steps of the main thread and of handlers leave tapyrusd alone.
<1>1. ASSUME UNCHANGED <<daemonVars, displaced>> PROVE PoolInv' /\ ConflictFree' /\ Live' = Live
  BY <1>1 DEF Inv, PoolInv, Closed, Parents, ConflictFree, Live, Conflicts, daemonVars
<1>2. ASSUME NEW x \in Txs, Take(x), UNCHANGED <<confirmed, indexVars, viewVars, aim>>, pc' = pc
      PROVE  Goal
  <2>1. /\ PoolInv' /\ ConflictFree' /\ Live' \subseteq Live \cup {x}
        /\ Conflicts(x) \cap Live' = {} /\ Live \subseteq Txs /\ txstore \subseteq Txs
    BY <1>2, TakePool DEF Inv, Tables, TypeOK, Live
  <2>2. displaced' = displaced \cup (Conflicts(x) \cap (pool \cup txstore))
    BY <1>2 DEF Take
  <2>3. ChainsInv'
    BY <1>2, ChainsKept DEF Inv, ChainsInv, Closed, Parents, indexVars
  <2>4. Overtaken'
    BY <1>2, <2>1, <2>2 DEF Inv, Overtaken, viewVars, Conflicts
  <2>5. EdgesOwned'
    BY <1>2, <2>2 DEF Inv, EdgesOwned, viewVars
  <2> QED BY <2>1, <2>3, <2>4, <2>5
<1>3. ASSUME NEW x \in Txs, Accept(x) PROVE Goal
  BY <1>2, <1>3 DEF Accept
<1>4. ASSUME NEW h \in Handlers, NEW x \in Txs, Broadcast(h, x) PROVE Goal
  BY <1>2, <1>4 DEF Broadcast
<1>5. ASSUME NEW x \in Txs, Evict(x) PROVE Goal
  <2> DEFINE Gone == Descendants({x}, pool)
  <2>1. /\ pool' = pool \ Gone /\ UNCHANGED <<confirmed, rows, served, aim, pc, displaced, viewVars>>
    BY <1>5 DEF Evict, indexVars
  <2>2. ClosedDown(Gone, pool) /\ Gone \subseteq pool
    BY <1>5, DescendantsClosed DEF Evict
  <2> HIDE DEF Gone
  <2>3. Closed(confirmed)' /\ Live' \subseteq Live
    BY <2>1 DEF Inv, ChainsInv, Closed, Parents, Live
  <2>4. PoolInv'
    BY <2>1, <2>2 DEF Inv, ChainsInv, PoolInv, Closed, ClosedDown, Parents
  <2> QED BY <2>1, <2>3, <2>4, ChainsKept, ViewKept DEF Inv
<1>6. ASSUME NEW S \in SUBSET Txs, Mine(S) PROVE Goal
  <2>1. /\ S \subseteq pool /\ \A x \in S : Parents(x) \subseteq confirmed \cup S
        /\ confirmed' = confirmed \cup S /\ pool' = pool \ S
        /\ UNCHANGED <<rows, served, aim, pc, displaced, viewVars>>
    BY <1>6 DEF Mine, indexVars
  <2>2. Closed(confirmed)' /\ Live' \subseteq Live
    BY <2>1 DEF Inv, ChainsInv, Closed, Parents, Live
  <2>3. PoolInv'
    BY <2>1 DEF Inv, PoolInv, Closed, Parents
  <2> QED BY <2>1, <2>2, <2>3, ChainsKept, ViewKept DEF Inv
<1>7. ASSUME NEW S \in SUBSET Txs, Disconnect(S) PROVE Goal
  <2>1. /\ S \subseteq confirmed \ OldTxs
        /\ \A y \in confirmed : Parents(y) \cap S # {} => y \in S
        /\ confirmed' = confirmed \ S /\ pool' = pool \cup S
        /\ UNCHANGED <<rows, served, aim, pc, displaced, viewVars>>
    BY <1>7 DEF Disconnect, indexVars
  <2>2. Closed(confirmed)' /\ Live' \subseteq Live
    BY <2>1 DEF Inv, ChainsInv, Closed, Parents, Live
  <2>3. PoolInv'
    BY <2>1 DEF Inv, PoolInv, Closed, Parents
  <2> QED BY <2>1, <2>2, <2>3, ChainsKept, ViewKept DEF Inv
<1>8. CASE PollTip
  <2>1. UNCHANGED <<daemonVars, rows, served, displaced, viewVars>> /\ pc' # "publish"
        /\ (aim' = aim \/ aim' = confirmed)
    BY <1>8 DEF PollTip, indexVars
  <2>2. ChainsInv'
    BY <2>1 DEF Inv, ChainsInv, Closed, Parents, daemonVars
  <2> QED BY <1>1, <2>1, <2>2, ViewKept DEF Inv
<1>9. CASE WriteRows
  <2>1. /\ UNCHANGED <<daemonVars, served, aim, displaced, viewVars>>
        /\ rows' = rows \cup aim
    BY <1>9 DEF WriteRows
  <2>2. ChainsInv'
    BY <2>1 DEF Inv, ChainsInv, Closed, Parents, daemonVars
  <2> QED BY <1>1, <2>1, <2>2, ViewKept DEF Inv
<1>10. CASE Publish
  <2>1. /\ UNCHANGED <<daemonVars, rows, displaced, viewVars>> /\ pc = "publish"
        /\ served' = aim /\ aim' = {} /\ pc' = "mempool"
    BY <1>10 DEF Publish
  <2>2. ChainsInv'
    BY <2>1 DEF Inv, ChainsInv, Closed, Parents, daemonVars
  <2> QED BY <1>1, <2>1, <2>2, ViewKept DEF Inv
<1>11. CASE GetMempool
  <2>1. UNCHANGED <<daemonVars, rows, served, aim, displaced, viewVars>> /\ pc' # "publish"
    BY <1>11 DEF GetMempool, indexVars
  <2>2. Closed(confirmed)'
    BY <2>1 DEF Inv, ChainsInv, Closed, Parents, daemonVars
  <2> QED BY <1>1, <2>1, <2>2, ChainsKept, ViewKept DEF Inv
<1>12. CASE Merge
  <2>1. UNCHANGED <<daemonVars, rows, served, aim, displaced>> /\ pc' # "publish"
    BY <1>12 DEF Merge, indexVars
  <2>2. Closed(confirmed)'
    BY <2>1 DEF Inv, ChainsInv, Closed, Parents, daemonVars
  <2>3. CASE listed \ txstore \subseteq pool
    <3>1. AddRemove(listed \ txstore, txstore \ listed)
      BY <1>12, <2>3, Zenon DEF Merge
    <3>2. txstore \ listed \in SUBSET Txs
      BY DEF Inv, Tables, TypeOK
    <3>3. Overtaken' /\ EdgesOwned'
      BY <2>1, <2>3, <3>1, <3>2, AddRemoveOwned DEF daemonVars
    <3> QED BY <1>1, <2>1, <2>2, <3>3, ChainsKept DEF Inv
  <2>4. CASE ~(listed \ txstore \subseteq pool)
    <3>1. UNCHANGED viewVars
      BY <1>12, <2>4 DEF Merge
    <3> QED BY <1>1, <2>1, <2>2, <3>1, ChainsKept, ViewKept DEF Inv
  <2> QED BY <2>3, <2>4
<1>13. ASSUME NEW h \in Handlers, AddByTxid(h) PROVE Goal
  <2>1. UNCHANGED <<daemonVars, rows, served, aim, pc, displaced>>
    BY <1>13 DEF AddByTxid, indexVars
  <2>2. Closed(confirmed)'
    BY <2>1 DEF Inv, ChainsInv, Closed, Parents, daemonVars
  <2>3. CASE sent[h] \notin txstore /\ sent[h] \in pool
    <3>1. Add({sent[h]}) /\ {sent[h]} \in SUBSET Txs
      BY <1>13, <2>3, Zenon DEF AddByTxid, Inv, Tables, TypeOK
    <3>2. AddRemove({sent[h]}, {})
      BY <3>1, AddIsAddRemove DEF Inv, Tables
    <3>3. Overtaken' /\ EdgesOwned'
      BY <2>1, <2>3, <3>2, AddRemoveOwned DEF daemonVars
    <3> QED BY <1>1, <2>1, <2>2, <3>3, ChainsKept DEF Inv
  <2>4. CASE ~(sent[h] \notin txstore /\ sent[h] \in pool)
    <3>1. UNCHANGED viewVars
      BY <1>13, <2>4 DEF AddByTxid
    <3> QED BY <1>1, <2>1, <2>2, <3>1, ChainsKept, ViewKept DEF Inv
  <2> QED BY <2>3, <2>4
<1>14. CASE UNCHANGED vars
  <2>1. UNCHANGED <<daemonVars, rows, served, aim, pc, displaced, viewVars>>
    BY <1>14 DEF vars, indexVars
  <2>2. Closed(confirmed)'
    BY <2>1 DEF Inv, ChainsInv, Closed, Parents, daemonVars
  <2> QED BY <1>1, <2>1, <2>2, ChainsKept, ViewKept DEF Inv
<1> QED BY <1>3, <1>4, <1>5, <1>6, <1>7, <1>8, <1>9, <1>10, <1>11, <1>12, <1>13, <1>14
        DEF Next, Daemon, MainThread

-----------------------------------------------------------------------------
(* The tables of the mempool always agree.                                  *)
THEOREM TablesInvariant == Spec => []Tables
<1> QED BY InitTables, NextTables, PTL DEF Spec

(* Each variable of the mempool has its type, and feeinfo covers exactly    *)
(* the transactions with entries in the history.                            *)
THEOREM MempoolTypeCorrect == Spec => []TypeOK
BY TablesInvariant, PTL DEF Tables

(* No entry of a script's or a color's history is left of a transaction     *)
(* that is gone, so that the lookups of _history and get_colored_txs in     *)
(* txstore succeed, and none is there twice.                                *)
THEOREM HistoryIsExact == Spec => []HistoryExact
BY TablesInvariant, PTL DEF Tables

(* has_spend() never answers because of a transaction that is gone.         *)
THEOREM EdgesAreSound == Spec => []EdgesSound
BY TablesInvariant, PTL DEF Tables

-----------------------------------------------------------------------------
\* What holds of tapyrusd, index and mempool together after a step.
LEMMA NextInv == Inv /\ [Next]_vars => Inv'
BY NextTables, NextRest DEF Inv

LEMMA InitInvariant == Init => Inv
BY InitTables, InitRest DEF Inv

(* The inductive invariant of tapyrusd, the index and the mempool.          *)
THEOREM MempoolInvariant == Spec => []Inv
<1> QED BY InitInvariant, NextInv, PTL DEF Spec

\* What EdgesOwned says in the words of the property.
LEMMA OwnedComplete == Inv => EdgesComplete
<1> SUFFICES ASSUME Inv, NEW x \in Txs \ displaced, entries[x] > 0, NEW o \in Spends[x]
             PROVE  edges[o] # NoTx
  BY DEF EdgesComplete
<1>1. edges[o] = x /\ o \in Outs
  BY MempoolAssumption DEF Inv, EdgesOwned
<1> QED BY <1>1, MempoolAssumption

(* Of an indexed transaction no spent output is forgotten, although update()*)
(* enters what replaces before it removes what was replaced, and handlers   *)
(* enter transactions in between.                                           *)
THEOREM EdgesAreComplete == Spec => []EdgesComplete
BY MempoolInvariant, OwnedComplete, PTL
=============================================================================
