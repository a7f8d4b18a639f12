# A verification of esplora-tapyrus

esplora-tapyrus (`electrs`) indexes the block chain and the mempool of a
`tapyrusd` node in RocksDB and answers REST and Electrum requests from them.
This directory holds TLA+ modules of its parts, the TLC configurations that
model-check them and TLAPS proofs of the theorems that matter most. Paths are
relative to the repository.

    tlc -config IndexerReorg.cfg MCIndexer      # model-check a run
    tlapm IndexerProofs.tla                     # check the proofs of a module

## 1. Inventory

| Component | Source | State | Operations |
|---|---|---|---|
| Header list | `src/util/block.rs` | `headers`, `heights` (never shrinks), `tip` | `new`, `order`, `apply`, lookups |
| Indexing thread (`main`) | `src/bin/electrs.rs`, `src/new_index/schema.rs` | `added_blockhashes`, `indexed_blockhashes`, `indexed_headers`, `flush`, `from`, `tip` of the loop | `Store::open`, `Indexer::update` (`add`, `index`, flush, `put_sync("t")`, publish) |
| Databases | `src/new_index/db.rs` | txstore, history, cache; memtables and files | `write` with or without log, `flush`, `full_compaction`, `put_sync`, iterators |
| Block fetchers | `src/new_index/fetch.rs` | pipelines of threads over bounded channels | `tapyrusd_fetcher`, `blkfiles_fetcher` |
| Served chain | `ChainQuery` in `schema.rs`, `rest.rs`, `electrum/server.rs` | the header list behind its lock | `header_by_height`, `best_height`, `tx_confirming_block`, `get_block_status`, `get_merkleblock_proof`, `ttl_by_depth`, `/blocks`, headers with proofs |
| Cached queries | `ChainQuery` in `schema.rs`, `color.rs` | cache rows `U`, `A`, `z` | `utxo`, `stats`, `get_colored_stats` |
| Listings by page | `schema.rs`, `query.rs`, `rest.rs` | a cursor at the client | the history of a script, `/colors` |
| Mempool | `src/new_index/mempool.rs` | `txstore`, `history`, `colors`, `edges`, `feeinfo`, `overviews` | `update`, `add`, `remove`, `add_by_txid`, lookups |
| Query | `src/new_index/query.rs`, `open_assets/mod.rs` | caches of fee estimates and of the relay fee | `utxo`, `history_txids`, `lookup_txos`, `open_assets`, `broadcast_raw` |
| Electrum server | `src/electrum/server.rs` | per connection: a channel of 10 messages, `status_hashes`, last header; the list of senders | requests, subscriptions, `notify`, shutdown on `Drop` |
| tapyrusd client | `src/daemon.rs` | the shared connection behind a mutex, the id of the last batch | requests, reconnection, retry |
| Signals | `src/signal.rs` | a channel of one signal, shared by all who wait | `wait` |
| Colored history, Open Assets, fees, merkle | `color.rs`, `open_assets/mod.rs`, `util/fees.rs`, `util/electrum_merkle.rs` | none | pure functions |
| REST, precache, configuration, metrics, tools | | none of interest | |

**Who talks to whom.** The main thread alone writes txstore, history, the header
list and (on a timer) the mempool. Request handlers of both servers read all of
it, write the cache database, and enter their own broadcasts into the mempool
under its write lock. The header list is behind a `RwLock` that a query takes
for one lookup at a time; RocksDB reads take no lock at all. `tapyrusd` moves on
between any two requests of anybody.

**What is hard.** A crash between writes of different durability; a
reorganisation between two lookups of a query, two requests to `tapyrusd`, or
two processes; sets of blocks that are out of date when they are consulted;
rows of orphaned blocks, which stay for ever; cache rows updated by concurrent
requests; a batch of transactions that fails half-way; full channels and
threads that join each other at shutdown. `PROJECT.json` lists them line by
line under `hazards`.

**What makes each part correct.**

* Header list: it is one chain, and lookups know exactly its blocks.
* Indexing thread: what is served is fully indexed; what a restart serves was
  durable; the served chain switches in one step; the index catches up; no
  assertion fails.
* Databases: the rows of a block give back its transactions, histories and
  unspent outputs; from files, every new block is read once.
* Served chain: what several lookups put together is of one chain, or what is
  wrong with it is a block that was given up in between.
* Cached queries: an answer is that of the served chain, a cache row that of
  the block it names.
* Listings by page: a client that reads to the end has seen everything once.
* Mempool: history and edges name exactly its transactions, once; it settles
  with that of `tapyrusd`.
* tapyrusd client: a reply belongs to the request it is read for; requests end,
  and are executed once unless something went wrong; an interrupt is heard.
* Query: an answer is that of one chain and one mempool.
* Electrum server: a subscriber hears of the last change; every connection and
  the server end.

## 2. Modules

| Module | What it is | Built on |
|---|---|---|
| `BlockTree` | the blocks `tapyrusd` may announce: a block determines the chain below it | |
| `HeaderList` | `HeaderList` as operators on a record; `...Ok` says that the code does not panic | `BlockTree` |
| `ChainIndex` | abstract specification: one served chain, switched in one step to the tip just made durable | `BlockTree` |
| `Indexer` | the indexing thread, the two databases, `tapyrusd`, crashes | `HeaderList`, instantiates `ChainIndex` |
| `IndexerProofs` | lemmas about `HeaderList`, and theorems | |
| `ServedChain` | the index as requests see it: rows, header list and target of the indexing thread; the lookups | `BlockTree` |
| `ScriptCache` | `utxo`, `stats`, `get_colored_stats` with their cache rows against the indexing thread | `ServedChain` |
| `ScriptCacheProofs` | theorems | |
| `Reads` | a request that reads in several steps, and what the thread does in between | `ServedChain` |
| `HeaderReads` | the requests about blocks, headers and their proofs | `Reads` |
| `Pages` | a client that reads a listing page by page | `Reads` |
| `ChainReads` | both over one index | `HeaderReads`, `Pages` |
| `ChainReadsProofs` | theorems | |
| `Mempool` | `update` by the main thread, `broadcast_raw` by handlers, `tapyrusd`'s mempool | |
| `MempoolProofs` | theorems | |
| `ElectrumRPC` | the threads of the Electrum server, their channels, the lock of the list of senders | |
| `ElectrumRPCProofs` | theorems | |
| `DaemonClient` | the threads that share the connection to `tapyrusd` and the channel of signals | |
| `DaemonClientProofs` | theorems | |
| `Query` | requests as several reads of the index and the mempool, while both change | `Mempool` |
| `QueryProofs` | theorems | |
| `Merkle`, `FeeHistogram`, `OpenAssets`, `ColoredHistory`, `Rows`, `BlkFiles` | functions without state | |
| `AlgorithmsProofs` | theorems about them | |
| `MCIndexer`, `MCScriptCache`, `MCChainReads`, `MCMempool`, `MCElectrumRPC`, `MCQuery`, `MCAlgorithms` | instances for TLC | |

Definitions whose names end in `_` and a phrase (`IndexDone_NoFlush`) are wrong
versions of the definition that follows; no specification uses them. Each
breaks one property, and `PROJECT.json` pairs them under `mutants`.

### Indexer

The variables are the fields of `Store` and `Indexer`, the local variables of
`update()` and of `run_server()`'s loop, and for each of the two databases the
set of blocks a read finds (`txMem`, `histMem`) and the set a crash leaves
(`txDur`, `histDur`). A block stands for all its rows: a `WriteBatch` is atomic,
so the `D` row tells whether the others are there. `pc` is the place in
`update()`; each step is one write or one request, so that a crash, a memtable
flush or a move of `tapyrusd` fits between any two.

* `Open`: `Store::open`, `fetch_from`. `Crash`, `PanicExit`: the process is
  gone, and its next `Open` finds what is durable.
* `GetBestBlockHash`, `GetNewHeaders`, `AddBlocks`/`AddDone`,
  `StartIndexing`/`IndexBlocks`/`IndexDone`, `FlushTxstore`, `FlushHistory`,
  `PutTip`, `Publish`: `Indexer::update` in its order. `Fetched` is the set of
  messages the fetcher may send next: chunks in the order of heights from
  `tapyrusd`, any non-empty set of missing blocks from `blk*.dat` files.
* `PollTip`, `NextLoopTip`: the loop of `run_server`, with the tip it remembers.
* `Panic(why)` records which assertion or `expect` failed.

Abstractions: a transaction may spend outputs of any block below its own, so
that indexing a block needs the rows of all its ancestors in txstore (the worst
case). A block that `tapyrusd` announced can be fetched later, also if orphaned.
An error that `run_server` returns is a crash. Only the durability of whole
batches matters: RocksDB never loses a synced batch or keeps half of one. A
later synced write is taken not to make an earlier unlogged one durable.

### ServedChain, ScriptCache

`ServedChain` takes from `Indexer` what its theorems guarantee: rows of a block are
written before it is served (`WriteRows`, `PublishTarget`), and `served` is the tip of
one whole chain. The lookups of the header list are operators of one moment. The
modules built on it say where the thread may aim (`Aim`) and what a publication or
a restart means to a request.

In `ScriptCache` a query is a record with a `pc`; each lookup of the header list, each
opening of an iterator (a snapshot of the database), each row and each write to
`cache_db` is a step of its own. Rows carry height, tag, transaction and output, in the
order of the keys; ties (decided by transaction hashes) are taken in any order. The
three queries share no cache row, so a behaviour is about one kind. Amounts are left
out, since a sum is added up together with its count. The start key of the
statistics scan is encoded unlike the rows' keys, so that `AskStats` may find
all rows or none. `upsets` is a history variable that records the four things the
code does not cope with, when they happen: a chain published during a scan (`"overlap"`); a
scan misled by a row that is not at the height at which the served chain confirms its
transaction (`"moved"`, `Misleads`: any such row for the statistics, only one that is too high
for `utxo()`); an orphaned block under `stats()` (`"orphan"`); and something that comes between the rows which
`stats()` writes color by color, or rows of different saves under one that reads them
(`"torn"`).

### Reads, HeaderReads, Pages

A request is the record `req`: its kind, the place `pc` it is at, and what it has read.
`Get` sets fields of it, `Come` and `End` begin and end one. The thread may aim at any
chain that does not lie within the one aimed at before, also a shorter one. Requests
change nothing, so one at a time is enough. `came`, `fresh` and `left` are history: the
tip when the request came, and the blocks indexed and given up since.

`HeaderReads` has one action per lookup: `BlocksStart`, `BlocksWalk` (`/blocks` goes from
block to block by hash), `BlockHeight`, `BlockStatus`, `BlockTxs`, `TxStatus`,
`MerkleBlock`, `MerkleBlockHeader`, `MerkleBlockHeight`, the Electrum headers
(`BlockHeader`, `BlockHeaders`) with `HeaderProof` and `HeaderHashes`, and `TtlByDepth`,
which asks for `best_height` again and subtracts without a check. Rows of a block are
found by its hash whatever is served, so that reading them is no step.

`Pages` is a client together with the server: it asks for a page, goes on from the last
thing it has seen, and stops at a page that is not full. A page opens one snapshot of
the rows in reverse order and confirms each transaction against the list of that
moment (`OpenHistory`, `HistoryRow`); a page of colors first takes the height of its cursor
(`AskColors`), then opens the rows (`OpenColors`), ignores those that are not the latest of
their color, and skips one (`ColorRow`). The first page of colors takes the height that
`tapyrusd` gives, which may be ahead of the index. After a restart the client asks for
its page again.

### Mempool

`txstore`, the number of entries in `history`/`colors` per transaction, `feeinfo`
(with `overviews`) and `edges`. `update()` is two steps, `GetMempool` and
`Merge`, with the write lock held from the first on: between them `tapyrusd`
moves on, handlers wait. `Merge` keeps everything if a transaction of the list
has left the mempool meanwhile. `AddByTxid` is the handler's half of
`broadcast_raw`. The index enters as the transactions whose outputs can be
looked up (`rows`) and those of the served chain. `displaced` is a history
variable: the transactions that `tapyrusd` took a conflicting one for.
`tapyrusd` accepts a transaction whose parents it has and that conflicts with
none of its chain, replaces conflicting ones with their descendants, evicts,
mines parents first, and takes the transactions of disconnected blocks back.

### ElectrumRPC

One connection is a peer. The threads are `main` (the loop of `run_server`, and
`drop()`), the notifier, `rpc` (accepts, sends Done, joins) and per peer a
`reader` and a `handler`, whose value is the step that comes next. `notification`
and `accepted` are unbounded channels, `chan[p]` is the bounded one. The list of
senders is a set with the peers that are `ahead` of each, since only the order in
which Done is sent matters. `rpc = "close"` is the time it holds the list's lock:
neither `Register` nor `Notify` can happen. `conn[p]` is the client's side;
`"reset"` stands for whatever makes a read fail, which ends the reader without
Done. A handler in `"join"` has left `handle_replies`, has shut the socket down
and waits for its reader, but still owns the receiver: a reader in `"send"` with
a full channel waits for it (`Wedged`). `hash[p]` is the entry of
`status_hashes`; when the handler is not in `"write"`, the client has been sent
it. Merged into one step: `mempool.update` and `notify()` (nobody can tell them
apart from a notifier that is slow), the end of `run()` and the message to the
garbage channel.

### DaemonClient

A thread is the main one or a handler of a request; `pc[t]` is its next step and
`req[t]` the request it is about: `call_jsonrpc` is `Send` and `Receive`, with the
mutex `lock` held in between, `retry_request_batch` is `"retry"` (the wait),
`"relock"`, `"connect"` and `"backoff"` (the wait of `tcp_connect`). `Continuation`
says which request the caller makes next, so that the main thread goes through
`Daemon::new`, `Indexer::update` (of which only `Daemon::reconnect` uses the shared
connection), `Mempool::update` and the loop, and a handler through `broadcast_raw`
and `add_by_txid`; `Fail` says where it goes on when a request fails. `conn` is
the shared connection with the thread whose request it carries and the reply that
waits in it. A reply is `"warmup"` (error -28, a connection error), `"refused"` (any
other error), `"syncing"` (blocks and headers differ) or `"ok"`. `WaitTimeout`,
`WaitUsr1` and `WaitInterrupt` are the three ends of `Waiter::wait`; `raised` and
`slot` are the signals that wait in the thread of `notify()` and in its channel.
`tapyrusd` is down, warms up or serves, stops at any time, and closes a connection
that nobody uses. History variables: `executed` counts the executions of a
thread's request while nothing was disturbed (`calm`); `swallowed` says that a
thread took an interrupt and went on.

Abstractions: a request stands for its batch; `getmempoolentry` for both requests
of `add_by_txid`; the two first requests of `Daemon::new` for the last. The
requests that `Indexer::update` makes on a connection of its own are left out.

### Query

Extends `Mempool`: `Elsewhere` is any of its steps. A request (`ask`, and the
transaction or output it is `about`) is the sequence of reads `todo`, which `Reads`
gives for each kind of request in the order of its handler; `got` is what they
returned so far, and from where. `ReadChain` is a read of the served chain,
`ReadPool` one of the mempool under its lock (and, for `utxo`, the filter by
`has_spend`), `ReadStatus` the confirming block that `/tx/:txid` looks up,
`LookupTxos` the prevouts that `prepare_txs` needs. `OpenAssets` and `LookupTxn` are the
recursion of `open_assets`: `trace` has the transactions still to be looked up, the
chain first and then the mempool, and a transaction with a marker (`Marked`) adds those
that its inputs come from, which are expected to be found. A
read of the chain is of one chain; `ScriptCache` has what happens within it. One
request is in progress at a time, because requests do not disturb each other
here. The history variables say which transactions electrs had all the time
(`known`) or at some time (`ever`) since the request came, which the index got
meanwhile (`late`) or gave up (`orphan`), and whether nothing moved (`calm`).
Limits are left out; pages are in `Pages`.

What the runs show of it: the answers that read the chain first (`utxo`, the
Electrum history, `/color/:c/txs`, `/tx`, `/outspend`) can miss a transaction that is
confirmed between the two reads; `/address/:a/txs` reads the mempool first and misses
only what a reorganisation takes back. From the time a block is served until the
mempool is next updated, a confirmed transaction is listed twice; one that was
mined between the poll of the tip and `getmempool` is missing until the next turn of
the loop. The `expect("failed loading txos")` (`query.rs:122`) does fail in such
windows, when a parent was evicted between two reads, and for a child that was
broadcast before its parent was polled: `PrevoutsFound` says when it cannot, and the same
of the `expect("txn not found")` of `get_output()`, which follows the coins of a script
down through the index and the mempool.

### Merkle, FeeHistogram, OpenAssets, ColoredHistory, Rows, BlkFiles

Pure functions, each written as its code computes it, in folds and recursive
functions. `Merkle` has a pair for the hash of two nodes, and the tree and the
client of the protocol as references. `FeeHistogram` has rates that are whole
numbers. In `OpenAssets` a call of `compute_assets` returns, panics, or never
ends; metadata is left out, and the asset that is issued is given.
`ColoredHistory` has the rows of a color in the order of their keys. `Rows` has the rows
of a block, in both databases, as sets of keys and values, with `light_mode` and
`index_unspendables`, indices that wrap at `VoutLimit`, and a row for the script within
a colored one; and what `lookup_txo`, `utxo_delta` and `lookup_spend` make of them.
`BlkFiles` has a file as a sequence of words, `parse_blocks` and the choice of the new
blocks; after a word that is not the magic the code goes on by a byte, the module by
a word.
`MCAlgorithms` grows an input by one item per step, so that each state is an input; for
`Rows` it cuts the transactions into blocks by their heights (`BlockAt`).

## 3. Runs

| Run | Instance | Shows |
|---|---|---|
| `IndexerReorg` | a genesis, branches of 2 and 3 blocks; chunks of 2; import from blk files or not by what is stored; 2 crashes | `TipDurable`, `ServedComplete`, `HeaderListCoherent`, `NoIndexPanic`, refinement of `ChainIndex`, `CatchesUp` |
| `IndexerTipAssert` | branches of 2 and 2 blocks, `tapyrusd` may go to any block, 1 crash | **violated**: `TipAsserted` |
| `CacheQueries` | the tree of `IndexerReorg`, 4 transactions, one confirmed on both branches at the same height, one at another height, two on one branch only, outputs of two colors, 2 concurrent requests, restarts | `UtxoCalm`, `ColoredCalm`, `StatsCalm`, `NoUtxoPanic` |
| `CacheStatsOrphan` | the same with one color and one request | **violated**: `StatsRecomputed` |
| `ChainReads` | a genesis, two branches of 2 blocks, 3 transactions in different orders on them, two colors | `FoundUnlessLeft`, `HeadersInLine`, `ProofOfOneChain`, `LongTtlFinal`, `HistoryPages`, `ColorPages` |
| `MempoolView` | a confirmed coin, its payment, a rival payment, a child; one handler | `HistoryExact`, `EdgesSound`, `EdgesComplete`, `Settles` |
| `MempoolUnindexed` | the same | **violated**: `SpentInPoolHidden` |
| `ElectrumServer` | two connections, one sends a line, a subscription or a broadcast; channels of one message; two statuses and one that is too popular | `StoppedMeansEnded`, `StopsUnless`, `EndedForgotten`, `SubscriberHears`, `ClosedEnds` |
| `ElectrumStop` | two connections, one line | **violated**: `StopsWhenDropped` |
| `DaemonRequests` | the main thread and a handler; one interrupt, any number of SIGUSR1, of stops and starts | `LocksHeld`, `NoStrayReply`, `CalmOnce`, `RequestEnds`, `InterruptHeard` |
| `QueryReads` | an old coin, its payment to the script, a transaction that spends it, both with a marker; nine kinds of request | `TxsMissesNothing`, `WrongOnlyIfLate`, `CurrentExact`, `PrevoutsFound` |
| `Algorithms` | up to 9 hashes, 4 mempool entries, 6 inputs and quantities, 3 transactions of two colors, 3 transactions in blocks, 5 writes to files | `BranchesProve`, `HistogramPartitions`, `OrderBased`, `Balanced`, `RowsTellChain`, `FilesGiveBlocks` |

**Bounds.** `MaxCrashes` is 2: a crash in the first update and one in a later
update, which runs in the other flush mode. Two branches are enough for a
reorganisation forth and, with `CanRollBack`, back to blocks that were added or
indexed before; `FetchBatch` 2 splits the longer branch into a full and a partial
chunk. Two requests are enough for one to overwrite what the other wrote.
`MinItems` is 1 in place of 100, so that queries both do and do not write the
cache. `StatsUntilUpset` ends the search of `CacheQueries` for the statistics where an upset
has happened, of which `ColoredCalm` and `StatsCalm` say nothing: a count that is wrong may grow
with every request. t2 is confirmed one block later on the longer branch, so that queries
take the rows left of the shorter one, and those of the longer one before it is published;
without the exception `"moved"` both `UtxoCalm` and `ColoredCalm` are violated in this instance.
The two statuses of `ElectrumServer` that are not too popular let a subscriber be told of a
change. In `ChainReads` the two branches confirm two
transactions in opposite orders, so that a cursor moves up or away between two pages;
`BLOCK_LIMIT` and `CONF_FINAL` are 2 in place of 10, so that answers are and are not cut off
or final; heights up to 2 and up to 3 headers reach beyond the tip; pages of one row
put a cursor at every row. Four transactions allow a chain of two and a replacement. The search
space is finite without further constraints. The channels of `ElectrumRPC` hold
one message in place of ten: they are full as soon as a notification comes while
the handler is busy; `MaxPending` bounds the
notifications that wait. In `DaemonRequests` one handler is enough to
have two threads at each lock; a second interrupt would only repeat the first.
`QueryReads` has no handler that broadcasts: the main thread enters the same
transactions, and the theorems of `QueryProofs` hold with any number of handlers. Its
`VIEW` (`WhatMatters` in `MCQuery`) keeps of the history variables what a later step or a
property of the request in progress still looks at: two states that differ in the rest
have the same continuations. For the same reason `Mempool` forgets what was listed
when it is merged and the chain aimed at when it is published.
`Algorithms` has levels of odd and even size in
trees of up to four levels, and `VsizeBinWidth` 3 in place of 50,000, so that a bin
takes one to four transactions; three transactions fund and spend in one block and
in another; `VoutLimit` 3 is the most outputs that one has; one block of the files has the
magic within its body.
`CHECK_DEADLOCK` is on but for `ElectrumRPC` and `DaemonClient`, which end
when the server or the process has stopped, and `Algorithms`, whose inputs stop
growing at the bounds.
`Symmetry` permutes the requests of `CacheQueries`, which checks no liveness.

**Fairness.** `CatchesUp` assumes `WF_vars(Thread)`: the indexing thread takes a
step when it can, which holds since its only waits are requests to `tapyrusd` and
the five seconds of `signal.wait`, and a supervisor starts the process again
(`contrib/electrs.service`). Crashes are bounded and unfair. `Settles` assumes
the same of the main thread and that a handler gets the mempool's lock. Nothing
is assumed of `tapyrusd`. In `ElectrumRPC` every thread runs when it can (the main
loop until it stops, which is left open); a reader that waits for room in the
channel is strongly fair, because the notifier, which could take the room each
time, comes every five seconds; a handler's write ends, because a client that
stays reads. Clients send, hang up or vanish as they like. In `DaemonClient` a thread
that waits long enough for a mutex gets it, and `tapyrusd` answers while it runs; of
its stops and starts nothing is assumed (`RequestEnds` speaks of the case that it
stays up). `WaitTimeout` is strongly fair: SIGUSR1 restarts a wait, but not within
every three seconds for ever. The thread of `notify()` is strongly fair for the
interrupt: the iterator of signals goes through all that are pending.

**Violated on purpose.** Each of these four runs checks one sentence of the
repository that the code does not keep; `PROJECT.json` quotes it under
`findings`.

1. `assert_eq!(tip, *headers.tip())` (`schema.rs:278`) fails when `tapyrusd` goes
   back to an ancestor of the served tip.
2. `stats()` keeps the statistics of an orphaned block and adds the new chain's
   (`schema.rs:632`; `doc/schema.md`: "the cache is removed and re-computed").
3. A child broadcast before its parent was polled is never indexed in the mempool
   (`mempool.rs:354`; `doc/protocol.md`: "spent in the mempool does not appear").
4. `drop()` of the Electrum server may wait for ever: a peer that registers after
   Done was sent is not told, and a handler may join a reader that waits for it
   (`server.rs:869`, `705`; `electrs.rs:98`: "the electrum server is stopped when
   dropped").

**Known limits without a run of their own.** The code does the following, too; the
properties that pass leave it out by a named condition.

* A chain published during a scan leaves a cache row that misses rows below its
  block (`schema.rs:573`; `doc/schema.md`: "up-to-date for"): the upset `"overlap"`.
* `stats()` writes a row per color, each in a batch of its own (`schema.rs:638`). A
  restart, another save or a `stats()` in between leaves or reads rows of different
  blocks, or some only; later answers resume from the block of the last row for all
  of them, and miss what the others lack: the upset `"torn"`. Whole saves can do the
  same to each other: one of an older block over a newer one, where a color first
  appears between the two, or one after a reorganisation to a chain without that color.
* When a reorganisation confirms a transaction at another height, its row of the old height
  stays and still counts as confirmed (`schema.rs:1572`); its row of the new height counts from
  the moment it is written, before the chain is published. Statistics count the transaction
  twice, and again with every request while the cached block is below that row. `utxo()` copes
  with a row that is too low, since the right one comes later in the scan; one that is too high
  may come after the row that spends its output, so that a spent output is listed again
  (`schema.rs:573`; `doc/API.md:91`), and the cache is saved at a block below what it holds: the
  upset `"moved"`. In a listing the row gives the transaction a higher place.
* A list that has become shorter between the lookup of a block and the question for its
  depth wraps the subtraction of `ttl_by_depth` (`rest.rs:313`), or panics where overflows are
  checked: `LongTtlFinal` says that this needs a block given up in between.
* A page of colors skips a color when its cursor is used again while the page is read
  (`schema.rs:692`): `ColorPages`. A page of `/color/:c/txs` puts the mempool's transactions
  after the chain's, so that the last transaction as cursor gives an empty page.
* A transaction with more than 65,536 outputs has rows that overwrite each other, and
  `index_unspendables` lists outputs as unspent that nobody can spend: `RowsTellChain`
  excludes the first and allows the second.

The remaining properties are stated so that they hold around these:
`UtxoCalm`, `ColoredCalm` and `StatsCalm` exclude (2), `"overlap"`, `"moved"` and `"torn"` by
`upsets`, each from the step at which it happens; `NoIndexPanic` excludes
(1), and `TipAssertionForward` shows that longer chains alone never lead to it;
`EdgesComplete` speaks of indexed transactions (3); `StopsUnless` and `ClosedEnds` name the
two ways of (4), and `WedgedStays` proves that the second has no way out.

## 4. Proofs

Assumptions are the named `ASSUME`s: `ChainOf` maps a block to a chain of
blocks, each of which maps to its prefix; the batch size is a positive number;
creators and spends have their types, what an old confirmed transaction spends was
created by one, and `NoTx` is none; for `Query`, a script has finitely many outputs and
a transaction spends finitely many; for `ScriptCache`, a chain confirms a transaction once,
an output names the transaction that funds it, a chain that spends an output funds it
before, and a block has finitely many rows; for `Pages`, a block has finitely many
transactions, each with finitely many rows and colors, and a page at least one entry; channels have
a positive capacity; for `Rows`, what is within a script is a script or none, and
`VoutLimit` is positive; the width of a fee bin is a number.

**`IndexerProofs`.** The first lemmas are about the header list: the chain of an ancestor is
a prefix; `NewHeaders` on a coherent list is the chain above the fork; `Apply` of it gives
the chain of the tip and stays coherent whatever orphans `heights` remembers;
`FromTip` is coherent. None of the safety properties is inductive: that the rows of
the new tip are durable when `PutTip` stores it depends on what the six steps
before it did. `IInv` adds three named parts to them. `RowsInv`: durable rows are
visible, and visible rows durable once the thread writes with the log.
`ProcessInv`: what the process remembers agrees with the databases, and the list
ends with the stored tip except between `PutTip` and `Publish`. `UpdateInv`: for
each value of `pc`, how far `update()` has got (`new` is what `NewHeaders` gives
for `tip`; after `add` its blocks are in `txMem`, after `index` in `histMem`, at
`putTip` the log is in use). `ForwardInv` bounds heights by that of `tapyrusd`'s
best block when it only moves to longer chains. `Invariance` proves `IInv`, one
lemma per action; `TypeCorrect`, `RestartComplete`, `QueriesComplete`,
`ListCoherent`, `UpdateNeverPanics` and `TipAssertionForward` follow, and
`Refinement` shows that each action is an action of `ChainIndex` or a stutter.

**`MempoolProofs`.** The tables agree with each other (`Tables`): edges belong to indexed
transactions that spend the output, indexed transactions are in `txstore` and
have one entry. `Add` is the special case of `AddRemove` that removes nothing, so
one lemma about `AddRemove` serves both the main thread and the handlers.
`MempoolTypeCorrect`, `HistoryIsExact` and `EdgesAreSound` follow. `EdgesAreComplete`
does not: the last transaction to come takes the edge of an output, and `remove` deletes
edges by what they lead to, so that an edge is right only if no two transactions that
spend one output are both current. That is a fact about `tapyrusd`, and the rest of `Inv`
carries it to the tables. `ChainsInv` and `PoolInv`: the chain, the index, the served
chain and chain and mempool together are closed under parents, and nothing is in both
(`DescendantsClosed` says that the descendants which an eviction takes along are all of
them). `ConflictFree`: no two spend the same output, among the mempool and what a
disconnected block can bring back. `Overtaken`: what `txstore` still has of a
conflicting transaction is in `displaced`. `EdgesOwned` is then inductive, and
`MempoolInvariant` is the sum.

**`ElectrumRPCProofs`.** `IInv` adds two parts to the types: `AcceptedOnce` (a
connection in the acceptor's channel is there once and has no handler yet, so that
spawning one never replaces another) and `ThreadsKnown` (a running handler has its
handle in `threads`, a reader runs only between its handler's start and end, `rpc`
ends with no handle left). `TypeCorrect` includes that no channel exceeds its
capacity; `StoppedHasEnded` follows from `ThreadsKnown`; `WedgedStays` goes through
all steps from `IInv`: the only one that could release a wedged reader is a receive
by its handler, the only one that could release the handler a step of its reader.
`DoneArrives` is the part of the shutdown that needs no fairness: an update that finds a
channel full is lost, Done is not. With `DoneNotLost` go `NotListed` (a handler that has not
registered has been sent nothing) and lemmas that Done stays in a channel until it is
received. What it leaves to liveness is that the handler gets to it, and what it does not
say is that every handler is told: one that registers after Done was sent is not (`Late`).

**`DaemonClientProofs`.** `ThreadInv` is `LocksHeld` with what it needs to be
inductive: which request a thread can be about at which step (`RequestsKnown`).
`ConnInv` is `NoStrayReply` with two more facts: only a `getblockchaininfo` can be
answered by `"syncing"` (`SyncReply`), and a connection that has ended carries a
request only together with its reply (`DeadConnection`). One lemma per
action and part; `TypeCorrect`, `LocksAreHeld` and `RepliesAreOwn` follow for any
number of handlers. `ExecutedOnce` is about a step, and its invariant `CalmInv` about the
time before: while it is calm no interrupt is on its way to anybody, a request that has not
been sent or was answered by a warm-up was not executed (`Untouched`), and one whose
reply is there was, once (`Counted`). That a reply is of the thread that reads it
(`ConnInv`) makes the count of one thread independent of the others.

**`QueryProofs`.** A request reads chain and mempool one after the other while
both move. `IInv` is `Inv` of `MempoolProofs` and a part per kind of request, which says
for each number of reads still to come what the ones before have left to go wrong.
`KnownInv` relates the history variables to chain and mempool. `TxsInv`: when `txs` has
read the mempool, what it wants and has not got is served, or was orphaned. `LateInv`,
`TxInv` and `SpendInv`: when the others have read the chain, what they lack and is there by
now came since. `UnspentInv` has both directions, that a listed output is spent only by
what came late, and that an output left out is spent or late itself. `CalmInv`: while
nothing moves, what was read is what would be read now. `ChainInv` and `TraceInv` tell
where the transactions can be whose previous outputs are looked up, and
`PrevoutsFound` follows at each lookup because rows, and mempool with rows, are closed under
parents (`ChainsInv`). `TxsComplete`, `AnswersWrongOnlyIfLate`, `AnswersExact` and
`ExpectsHold` follow for any number of transactions and handlers.

**`ChainReadsProofs`.** `LongTtlFinal` is about the end of a request; `DepthInv` is what holds
on the way: the block found is on the served chain or was given up since (`Held`), at
each place between its lookup and `TtlByDepth`, and no time to live is set before.
`ShapeInv` tells which fields a request has and where it can be, so that the reads of a
listing are known not to come there. The subtraction is safe for a block that is
still held, because ancestors are not higher (`AncestorsBelow`). `LongTtlIsFinal` follows for
every tree of blocks and every depth. The other properties of requests about blocks compare an
answer with one chain, so `RequestInv` adds what was read so far: `WalkedInv`, the headers
of `/blocks` are the newest of one chain, down from the block it started at;
`MerkledInv`, the block of a transaction's proof was its block when it was looked up;
`LineInv`, the headers of an Electrum answer stand in one chain at their heights, or a
height asked for was reorganised or first reached since; `HashesInv`, the
leaves read so far are the served chain's, or a block up to there was given up. `CameInv` and
`FieldsInv` keep what the request was when it came. `FoundOrReorganised`,
`HeadersAreInLine` and `ProofsAreOfOneChain` follow for every tree, height and number of
headers.

The listings have an invariant of their own, `PagesInv`, which TLC has checked for pages of one
and of two entries. A listing is finished long after it began, and the rows have grown in
between; so everything is said of the rows there are now (`all`) and of those that came since
(`again`). `Collected`: what was listed and read for the page is `Settled`, the top row of its
transaction or color unless that came up again. `Sorted`, if no page continued from what came
up again (`Steady`). Between two pages, what the client should still see is below the cursor
(`TxsAhead`, `ColorsAhead`); within one, it is among the rows not yet read (`TxsScan`,
`ColorsScan`). A page of colors that continues another skips the first row that counts, and
`ColorsScan` shows that it is the cursor's own row. The lemmas come in the same order: rows
are ordered, and finitely many have a top (`TopOf`, by the well-foundedness of the finite
subsets); what opening a page, a row, a full page and the end do to these parts, without any
state; that each part survives when rows are added together with `again` (`Grown`), which
covers everything the indexing thread and a restart can do; and then one lemma per action.
`HistoryIsWhole` and `ColorsAreWhole` follow for every tree of blocks, every page size and
any number of rows.

**`ScriptCacheProofs`.** `RestoreNeverPanics` needs that the served chain only gets higher
and that every cached height and every output put together so far was on it (`HeightInv`).
The three other theorems say that answers and cache rows are exact until an upset; they
have one inductive invariant, `CalmInv`. `QueryInv` tells for each place of a query what it
has: `FromCache`, what was read is right for the block it was saved at; `Restoring`, the
outputs restored and those still to restore are the unspent ones of that block; `Begun`, the
answer for the rows below the start of the scan; `Scanning`, how far the scan has got with the
rows of the served chain that it is done with, which the rows left do not precede; `Saved`,
the answer of the last block with a row. For the statistics `Scanning` is the count of those
rows, with (`SeenInv`) the transactions seen being those of the last block that were counted.
For `utxo()` it cannot be an equation, since rows that are too low put outputs in, and take
outputs out, before the chain's own rows do. `OutputsInv` bounds the set from both sides: what
the rows done with fund and no row of the chain spends is in it, and nothing in it is spent by
the rows done with. The bounds meet when no row is left. Each step of a scan is a lemma about
sets of rows: rows of a chain up to a block are those of that block's chain (`RowsBelow`); a
row in key order, at the height of its transaction or below, keeps the bounds, because an
output is funded once and no higher than it is spent (`FundedOnce`, `OutputsStep`); and a row at
the height of its transaction changes the counts as `CountRow` does, because a transaction of
the set is counted and one outside it is not (`TallyStep`, `StatTaken`). Rows of `stats()` are right
color by color (`StatsRight`), and those of the last save together (`Together`, and
`HalfRight` while it writes them), so that rows found of one block are all of that block
(`StatsOfRows`). `UtxosExact`, `ColoredStatsExact` and `StatsExactUntilUpset` hold for every
tree of blocks and any number of transactions, outputs, colors and requests, and for
transactions that are confirmed again at any height: nothing is assumed of these, and what the
code does not cope with is an upset from the row on that misleads a scan (`ScanRow`).

**`AlgorithmsProofs`.** What one transaction does to one color, as
`create_history_info` says it, adds up to the change of the amounts, whatever they
are (`InfoBalances`).

`RowsTell` is about the rows of a whole chain, however long it is: a script's rows, read in
the order of their keys, leave what is unspent, for every `light_mode` and
`index_unspendables`. The inductive invariant is `Chain`: heights never fall (`Rising`), so
that the transactions below a height are the first ones (`Levels`), from which the blocks are
cut; and inputs come after the outputs that they name, which can be spent (`Funded`). That
nothing is spent twice is not needed. `TransactionsOfBlocks` says that the blocks have all
transactions and no others; `OutputRows`, that the row of an output has its script, because
indices below `VoutLimit` do not meet; `KeysAreThese` and `TheseAreKeys`, what the keys of the
history are. `UnspentAreLeft` then needs that a key that funds comes before the one that
spends: the height is lower or the same, and in a block `F` is before `S`. The theorem has
the hypothesis of the property, that no transaction has more inputs or outputs than
`VoutLimit`.

Two theorems are about one turn of a loop, with lists of any length: of the one that makes a
merkle branch (`TurnProves`: the hash that is added to the branch, on the side that the
index tells, leads from the node to the one above it, also where the last hash is repeated),
and of the one that makes the fee histogram (`RatesFall`). What the whole loops compute is
model-checked.

**Only model-checked.** `CatchesUp`, `Settles`, `StopsUnless`, `SubscriberHears`,
`ClosedEnds`, `EndedForgotten`, `RequestEnds` and `InterruptHeard` (liveness under fairness is
out of the prover's reach); those of `Algorithms` but `RowsTellChain` (what a recursive function or a fold
computes for every input takes induction over data, which is out of its reach, too). Every other property
of a passing run is a theorem.

**Only proved.** Some theorems are about definitions that no run checks: the type
invariants (`TypeCorrect` of three modules, `MempoolTypeCorrect`), the inductive invariants
(`Invariance`, `MempoolInvariant`, `QueryInvariant`, `ItemsAreChain`), `TipAssertionForward`,
`WedgedStays`, `DoneArrives`, and the theorems about one step of a function (`InfoBalances`, `TurnProves`,
`RatesFall`).

## 5. Not modelled, and the plan

Left out for good: REST formatting, configuration, metrics, the tools, and
`src/app.rs`, `src/electrum/discovery.rs` and `src/electrum/client.rs`, which are
not compiled. The layout of keys enters only as the order of rows and the width of
indices. `precache` calls queries that are modelled. Light mode, in which transactions
come from `tapyrusd`, is left out but for the rows that it does not write. A page of the
mempool's history is of one moment.

To come, in this order:

1. The caches of fee estimates and of the relay fee (`query.rs`), with their locks and
   the age at which they are refreshed; `get_tx_fee`.
2. The threads of the block fetchers and their bounded channels, and how a panic of one
   ends the others.
3. The mempool's list of recent transactions and its backlog statistics.
4. Lookups in light mode, which ask `tapyrusd` for a block that may be gone.
