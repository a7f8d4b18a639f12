------------------------------- MODULE Indexer -------------------------------
(***************************************************************************)
(* The indexing thread of electrs: run_server's loop in                    *)
(* src/src/bin/electrs.rs, Store::open and Indexer::update in              *)
(* src/src/new_index/schema.rs, the fetchers of src/src/new_index/fetch.rs *)
(* and the durability of src/src/new_index/db.rs, while tapyrusd extends   *)
(* and reorganises its chain and the process may die between any two steps.*)
(*                                                                         *)
(* A block stands for all the rows its batch writes: a WriteBatch is       *)
(* atomic, so the "D" row of a block is there exactly when its T, C, O, B  *)
(* rows (txstore) or its H, I rows (history) are.  Each database has a     *)
(* visible content (...Mem, what reads return) and a durable one (...Dur,  *)
(* what a crash leaves).                                                   *)
(***************************************************************************)
EXTENDS HeaderList, FiniteSets

CONSTANTS
  FetchBatch,      \* blocks per message of tapyrusd_fetcher (100 in the code)
  JsonRpcImport,   \* config.jsonrpc_import
  CanRollBack,     \* tapyrusd may go back to a block it has left
  MaxCrashes       \* bound on the crashes of a behaviour

ASSUME IndexerAssumption ==
  /\ FetchBatch \in Nat \ {0}
  /\ JsonRpcImport \in BOOLEAN
  /\ CanRollBack \in BOOLEAN
  /\ MaxCrashes \in Nat

VARIABLES
  best,      \* tapyrusd: its best block
  \* the databases
  txMem,     \* txstore_db: blocks whose rows a read finds
  txDur,     \* txstore_db: blocks whose rows survive a crash
  histMem,   \* history_db: blocks whose rows a read finds
  histDur,   \* history_db: blocks whose rows survive a crash
  t,         \* txstore_db: the synced tip, row "t" (written with sync)
  compacted, \* the databases whose row "F" is set (written with sync)
  \* the process
  pc,        \* the next step of the indexing thread
  hl,        \* Store.indexed_headers
  added,     \* Store.added_blockhashes
  indexed,   \* Store.indexed_blockhashes
  from,      \* Indexer.from
  flush,     \* Indexer.flush
  tip,       \* update(): the best block it works towards
  new,       \* update(): new_headers
  todo,      \* update(): blocks the running fetcher has not delivered yet
  loopTip,   \* run_server(): tip
  current,   \* run_server(): current_tip, NoBlock in the first update
  panic,     \* why the thread panicked, "" if it did not
  crashes    \* crashes so far

dbVars   == <<txMem, txDur, histMem, histDur, t, compacted>>
procVars == <<pc, hl, added, indexed, from, flush, tip, new, todo, loopTip,
              current, panic>>
vars     == <<best, dbVars, procVars, crashes>>

\* Between two updates the thread is at "loop"; "down" is no process at all and
\* "panicked" a process about to die.
UpdateSteps == {"tip", "headers", "add", "toIndex", "index", "flushTx",
                "flushHist", "putTip", "publish"}

Up == pc \notin {"down", "panicked"}

NewBlocks == Range(new.hashes)

NothingNew == [height |-> 0, hashes |-> << >>]

-----------------------------------------------------------------------------
TypeOK ==
  /\ best \in Blocks
  /\ txMem \in SUBSET Blocks /\ txDur \in SUBSET Blocks
  /\ histMem \in SUBSET Blocks /\ histDur \in SUBSET Blocks
  /\ t \in Blocks \cup {NoBlock}
  /\ compacted \in SUBSET {"txstore", "history"}
  /\ pc \in UpdateSteps \cup {"loop", "panicked", "down"}
  /\ hl \in HeaderLists
  /\ added \in SUBSET Blocks /\ indexed \in SUBSET Blocks
  /\ from \in {"Tapyrusd", "BlkFiles"}
  /\ flush \in {"Disable", "Enable"}
  /\ tip \in Blocks \cup {NoBlock}
  /\ pc \in UpdateSteps \ {"tip"} => tip \in Blocks
  /\ new \in [height : Nat, hashes : Seq(Blocks)]
  /\ todo \in SUBSET Blocks
  /\ loopTip \in Blocks \cup {NoBlock}
  /\ pc = "loop" => loopTip \in Blocks
  /\ current \in Blocks \cup {NoBlock}
  /\ panic \in {"", "missing header", "chain moved", "not part of chain",
                "missing txo", "missing from store", "apply", "tip"}
  /\ crashes \in 0 .. MaxCrashes

Init ==
  /\ best \in Blocks
  /\ txMem = {} /\ txDur = {} /\ histMem = {} /\ histDur = {}
  /\ t = NoBlock
  /\ compacted = {}
  /\ pc = "down"
  /\ hl = Empty
  /\ added = {} /\ indexed = {}
  /\ from = "Tapyrusd" /\ flush = "Disable"
  /\ tip = NoBlock /\ new = NothingNew /\ todo = {}
  /\ loopTip = NoBlock /\ current = NoBlock
  /\ panic = ""
  /\ crashes = 0

-----------------------------------------------------------------------------
(* tapyrusd                                                                 *)

\* A better chain is a longer one.  With CanRollBack the best block may also be
\* any other: an operator invalidates blocks, or tapyrusd itself comes back
\* from a crash at an earlier tip.
DaemonMoves(b) ==
  /\ b # best
  /\ CanRollBack \/ Height(b) > Height(best)
  /\ best' = b
  /\ UNCHANGED <<dbVars, procVars, crashes>>

-----------------------------------------------------------------------------
(* Start, crash, panic                                                      *)

Panic(why) ==
  /\ pc' = "panicked"
  /\ panic' = why
  /\ UNCHANGED <<best, dbVars, hl, added, indexed, from, flush, tip, new,
                 todo, loopTip, current, crashes>>

\* Store::open and Indexer::open: the block sets come from the "D" rows, the
\* header list is walked back from "t".
Open ==
  /\ pc = "down"
  /\ IF t # NoBlock /\ ~(Ancestors(t) \subseteq txMem)
     THEN Panic("missing header")
     ELSE /\ hl' = IF t = NoBlock THEN Empty ELSE FromTip(t)
          /\ added' = txMem
          /\ indexed' = histMem
          /\ from' = IF JsonRpcImport \/ t # NoBlock
                     THEN "Tapyrusd" ELSE "BlkFiles"
          /\ pc' = "tip"
          /\ UNCHANGED <<best, dbVars, flush, tip, new, todo, loopTip,
                         current, panic, crashes>>

\* What is left of the process when it is gone.
Die ==
  /\ pc' = "down"
  /\ txMem' = txDur /\ histMem' = histDur
  /\ hl' = Empty /\ added' = {} /\ indexed' = {}
  /\ from' = "Tapyrusd" /\ flush' = "Disable"
  /\ tip' = NoBlock /\ new' = NothingNew /\ todo' = {}
  /\ loopTip' = NoBlock /\ current' = NoBlock
  /\ panic' = ""
  /\ UNCHANGED <<best, txDur, histDur, t, compacted>>

\* kill -9, power loss, or an error that run_server returns: the last flushes
\* the memtables on the way out, which is MemtableFlush before this step.
Crash ==
  /\ Up
  /\ crashes < MaxCrashes
  /\ crashes' = crashes + 1
  /\ Die

\* A panic of the indexing thread ends main, and with it the process.
PanicExit ==
  /\ pc = "panicked"
  /\ Die
  /\ UNCHANGED crashes

\* RocksDB writes a full memtable out on its own; that makes everything visible
\* of this database durable.
MemtableFlush ==
  /\ Up
  /\ \/ txDur # txMem /\ txDur' = txMem /\ UNCHANGED histDur
     \/ histDur # histMem /\ histDur' = histMem /\ UNCHANGED txDur
  /\ UNCHANGED <<best, txMem, histMem, t, compacted, procVars, crashes>>

-----------------------------------------------------------------------------
(* Indexer::update                                                          *)

WriteTxstore(S) ==
  /\ txMem' = txMem \cup S
  /\ txDur' = IF flush = "Enable" THEN txDur \cup S ELSE txDur
  /\ UNCHANGED <<histMem, histDur, t, compacted>>

WriteHistory(S) ==
  /\ histMem' = histMem \cup S
  /\ histDur' = IF flush = "Enable" THEN histDur \cup S ELSE histDur
  /\ UNCHANGED <<txMem, txDur, t, compacted>>

\* The sets of blocks the fetcher's next message may hold: tapyrusd_fetcher
\* cuts the list of headers into chunks, blkfiles_fetcher sends what each
\* blk*.dat file has of it, in no order of heights.
Fetched ==
  IF from = "BlkFiles" THEN (SUBSET todo) \ {{}}
  ELSE {S \in (SUBSET todo) \ {{}} :
          /\ \A b \in S, c \in todo \ S : Height(b) < Height(c)
          /\ IF S = todo THEN Cardinality(S) <= FetchBatch
             ELSE Cardinality(S) = FetchBatch}

\* daemon.reconnect(), getbestblockhash()
GetBestBlockHash ==
  /\ pc = "tip"
  /\ tip' = best
  /\ pc' = "headers"
  /\ UNCHANGED <<best, dbVars, hl, added, indexed, from, flush, new, todo,
                 loopTip, current, panic, crashes>>

\* get_new_headers and headers_to_add.  get_all_headers, for an empty list,
\* asks for headers by height, so it trips over its assertions (or an error)
\* when tapyrusd has left the chain of tip.
GetNewHeaders ==
  /\ pc = "headers"
  /\ LET hashes == NewHeaders(hl, tip) IN
     IF hl.headers = << >> /\ tip \notin Ancestors(best)
     THEN Panic("chain moved")
     ELSE IF ~OrderOk(hl, hashes)
     THEN Panic("not part of chain")
     ELSE /\ new' = Order(hl, hashes)
          /\ todo' = Range(hashes) \ added
          /\ pc' = "add"
          /\ UNCHANGED <<best, dbVars, hl, added, indexed, from, flush, tip,
                         loopTip, current, panic, crashes>>

\* add() without the extension of added_blockhashes
AddBlocks_NotRecorded ==
  /\ pc = "add"
  /\ \E S \in Fetched :
       /\ WriteTxstore(S)
       /\ todo' = todo \ S
  /\ UNCHANGED <<best, pc, hl, added, indexed, from, flush, tip, new, loopTip,
                 current, panic, crashes>>

\* add() of one message
AddBlocks ==
  /\ pc = "add"
  /\ \E S \in Fetched :
       /\ WriteTxstore(S)
       /\ added' = added \cup S
       /\ todo' = todo \ S
  /\ UNCHANGED <<best, pc, hl, indexed, from, flush, tip, new, loopTip,
                 current, panic, crashes>>

\* The fetcher's channel is closed: start_auto_compactions(txstore_db), whose
\* full compaction flushes the memtable.
AddDone ==
  /\ pc = "add" /\ todo = {}
  /\ IF "txstore" \in compacted THEN UNCHANGED <<txDur, compacted>>
     ELSE txDur' = txMem /\ compacted' = compacted \cup {"txstore"}
  /\ pc' = "toIndex"
  /\ UNCHANGED <<best, txMem, histMem, histDur, t, hl, added, indexed, from,
                 flush, tip, new, todo, loopTip, current, panic, crashes>>

\* A filter on the wrong set of blocks.
HeadersToIndex_ByAdded == NewBlocks \ added

HeadersToIndex == NewBlocks \ indexed

StartIndexing ==
  /\ pc = "toIndex"
  /\ todo' = HeadersToIndex
  /\ pc' = "index"
  /\ UNCHANGED <<best, dbVars, hl, added, indexed, from, flush, tip, new,
                 loopTip, current, panic, crashes>>

\* index() of one message.  A transaction may spend outputs of any block below
\* its own, and of its own; lookup_txos(.., allow_missing = false) panics when
\* one is missing.  indexed_blockhashes is not extended.
IndexBlocks ==
  /\ pc = "index"
  /\ \E S \in Fetched :
       IF ~(UNION {Ancestors(b) : b \in S} \subseteq txMem)
       THEN Panic("missing txo")
       ELSE IF ~(S \subseteq added)
       THEN Panic("missing from store")
       ELSE /\ WriteHistory(S)
            /\ todo' = todo \ S
            /\ UNCHANGED <<best, pc, hl, added, indexed, from, flush, tip,
                           new, loopTip, current, panic, crashes>>

\* No flush before the tip is stored.
IndexDone_NoFlush ==
  /\ pc = "index" /\ todo = {}
  /\ IF "history" \in compacted THEN UNCHANGED <<histDur, compacted>>
     ELSE histDur' = histMem /\ compacted' = compacted \cup {"history"}
  /\ pc' = "putTip"
  /\ UNCHANGED <<best, txMem, txDur, histMem, t, hl, added, indexed, from,
                 flush, tip, new, todo, loopTip, current, panic, crashes>>

\* The same for history_db; the flush of both databases follows unless it has
\* been done by an earlier update of this process.
IndexDone ==
  /\ pc = "index" /\ todo = {}
  /\ IF "history" \in compacted THEN UNCHANGED <<histDur, compacted>>
     ELSE histDur' = histMem /\ compacted' = compacted \cup {"history"}
  /\ pc' = IF flush = "Disable" THEN "flushTx" ELSE "putTip"
  /\ UNCHANGED <<best, txMem, txDur, histMem, t, hl, added, indexed, from,
                 flush, tip, new, todo, loopTip, current, panic, crashes>>

FlushTxstore ==
  /\ pc = "flushTx"
  /\ txDur' = txMem
  /\ pc' = "flushHist"
  /\ UNCHANGED <<best, txMem, histMem, histDur, t, compacted, hl, added,
                 indexed, from, flush, tip, new, todo, loopTip, current,
                 panic, crashes>>

FlushHistory ==
  /\ pc = "flushHist"
  /\ histDur' = histMem
  /\ flush' = "Enable"
  /\ pc' = "putTip"
  /\ UNCHANGED <<best, txMem, txDur, histMem, t, compacted, hl, added,
                 indexed, from, tip, new, todo, loopTip, current, panic,
                 crashes>>

\* Stores whatever is the best block by now.
PutTip_Latest ==
  /\ pc = "putTip"
  /\ t' = best
  /\ pc' = "publish"
  /\ UNCHANGED <<best, txMem, txDur, histMem, histDur, compacted, hl, added,
                 indexed, from, flush, tip, new, todo, loopTip, current,
                 panic, crashes>>

\* put_sync(b"t", ..)
PutTip ==
  /\ pc = "putTip"
  /\ t' = tip
  /\ pc' = "publish"
  /\ UNCHANGED <<best, txMem, txDur, histMem, histDur, compacted, hl, added,
                 indexed, from, flush, tip, new, todo, loopTip, current,
                 panic, crashes>>

\* run_server with a fresh look at the best block after each update
NextLoopTip_Latest == best

\* What run_server's tip becomes: update()'s result at start-up, and the
\* current_tip it had read before the update afterwards.
NextLoopTip == IF current = NoBlock THEN tip ELSE current

\* headers.apply(new_headers) under the write lock, assert_eq!(tip, ..), return
\* to run_server.
Publish ==
  /\ pc = "publish"
  /\ IF ~ApplyOk(hl, new) THEN Panic("apply")
     ELSE IF Apply(hl, new).tip # tip THEN Panic("tip")
     ELSE /\ hl' = Apply(hl, new)
          /\ from' = "Tapyrusd"
          /\ loopTip' = NextLoopTip
          /\ pc' = "loop"
          /\ tip' = NoBlock /\ new' = NothingNew /\ todo' = {}
          /\ current' = NoBlock
          /\ UNCHANGED <<best, dbVars, added, indexed, flush, panic, crashes>>

\* One turn of run_server's loop: current_tip = getbestblockhash(), and an
\* update when it differs from tip.
PollTip ==
  /\ pc = "loop"
  /\ IF best = loopTip THEN UNCHANGED <<pc, current>>
     ELSE pc' = "tip" /\ current' = best
  /\ UNCHANGED <<best, dbVars, hl, added, indexed, from, flush, tip, new,
                 todo, loopTip, panic, crashes>>

Update ==
  \/ GetBestBlockHash \/ GetNewHeaders \/ AddBlocks \/ AddDone
  \/ StartIndexing \/ IndexBlocks \/ IndexDone \/ FlushTxstore
  \/ FlushHistory \/ PutTip \/ Publish

Thread == Open \/ Update \/ PollTip \/ PanicExit

Next ==
  \/ \E b \in Blocks : DaemonMoves(b)
  \/ Thread
  \/ Crash
  \/ MemtableFlush

(* The thread keeps running while it can: its waits (tapyrusd's answers, the
   5 seconds of signal.wait) end, and the process is started again.          *)
Fairness == WF_vars(Thread)

Spec == Init /\ [][Next]_vars /\ Fairness

-----------------------------------------------------------------------------
(* A restart finds everything it needs: the rows of each block of the chain *)
(* under the stored tip "t" are durable in both databases, whatever was     *)
(* written without a log, compacted or flushed before, and wherever the     *)
(* process died (schema.rs: "update the synced tip *after* the new data is  *)
(* flushed to disk").                                                       *)
TipDurable ==
  t # NoBlock => Ancestors(t) \subseteq txDur \cap histDur

(* Queries start from a block of the header list and then read its rows     *)
(* without further locks: each block of the list has both its txstore and   *)
(* its history rows, also after a reorganisation back to blocks added or    *)
(* indexed by an earlier update or an earlier process.                      *)
ServedComplete ==
  Range(hl.headers) \subseteq txMem \cap histMem

(* The header list is one chain and its lookups are exact, although heights *)
(* keeps the orphans of every reorganisation (HeaderList::apply).           *)
HeaderListCoherent == Coherent(hl)

(* No assertion or panic of the update fails: Store::open finds the headers *)
(* under "t", order() and apply() find the new headers' parent, index()     *)
(* finds the added block and all the outputs it spends, although blk files  *)
(* deliver the blocks in any order.  Left out are get_all_headers, which a  *)
(* reorganisation during the first download makes fail, and apply's tip.    *)
NoIndexPanic == panic \in {"", "chain moved", "tip"}

(* schema.rs:278, assert_eq!(tip, *headers.tip()): after apply() the list   *)
(* ends with the best block the update was for.                             *)
TipAsserted == panic # "tip"

(* ... at least as long as tapyrusd only moves to longer chains.            *)
TipAssertedForward == ~CanRollBack => TipAsserted

CI == INSTANCE ChainIndex WITH target <- tip, synced <- t, served <- hl.tip

(* The indexing thread implements ChainIndex: one step switches the served  *)
(* chain, always to the tip just made durable, and a restart serves it.     *)
ImplementsChainIndex == CI!Spec

(* When tapyrusd settles, so does the index, at the same block: no block is *)
(* missed because it came in during an update, between run_server's look at *)
(* the best block and update's own.                                         *)
CatchesUp ==
  \A b \in Blocks : <>[](best = b) => <>[](hl.tip = b)
=============================================================================
