----------------------------- MODULE ScriptCache -----------------------------
(***************************************************************************)
(* The cached queries of ChainQuery (src/src/new_index/schema.rs): utxo()  *)
(* and stats() of one script and get_colored_stats() of one color.  Each   *)
(* reads its cache row, brings it up to date with the history rows above   *)
(* the row's block and may write it back; the header list is locked for    *)
(* one lookup at a time, so that the indexing thread may write rows or     *)
(* publish a chain between any two steps of a query.                       *)
(*                                                                         *)
(* Amounts are left out: the sums of a statistic are added up with its     *)
(* counts.                                                                 *)
(***************************************************************************)
EXTENDS ServedChain

CONSTANTS
  Outs,          \* outputs to the script
  Creates,       \* transaction -> the outputs it funds
  Spends,        \* transaction -> the outputs it spends
  Colors,        \* colors, numbered in the order of their keys
  ColorOf,       \* output -> its color
  Color,         \* the color get_colored_stats is asked for
  ColorActs,     \* transaction -> its rows in the history of Color
  Queries,       \* requests served at the same time
  Kinds,         \* the queries asked
  MinItems,      \* MIN_HISTORY_ITEMS_TO_CACHE
  UtxosLimit     \* the limit of utxo()

ScriptActs == {"Funding", "Spending"}
AllColorActs == {"Issuing", "Transferring", "Burning"}

ASSUME ScriptCacheAssumption ==
  /\ Creates \in [Txs -> SUBSET Outs] /\ Spends \in [Txs -> SUBSET Outs]
  /\ Colors \subseteq Nat
  /\ ColorOf \in [Outs -> Colors] /\ Color \in Colors
  /\ ColorActs \in [Txs -> SUBSET AllColorActs]
  /\ Kinds \subseteq {"utxo", "stats", "colored"}
  /\ MinItems \in Nat /\ UtxosLimit \in Nat
  \* an output names the transaction that funds it
  /\ \A x, y \in Txs : Creates[x] \cap Creates[y] # {} => x = y
  \* a chain that spends an output funds it before
  /\ \A b \in Blocks : \A x \in TxsOf[b] : \A o \in Spends[x] :
       \E c \in Ancestors(b) : \E y \in TxsOf[c] : o \in Creates[y]

VARIABLES
  utxoCache,    \* cache_db: row "U" of the script, [utxos, block]
  statsCache,   \* cache_db: rows "A" of the script, color -> [stat, block]
  coloredCache, \* cache_db: row "z" of Color, [stat, block]
  q,            \* the queries
  upsets        \* history: what has happened that a query does not cope with,
                \*   "overlap": a chain was published while a query that uses
                \*              the old one was scanning,
                \*   "moved":   a scan was misled by the row of a block that the
                \*              served chain does not have,
                \*   "orphan":  stats() read rows of a block orphaned since,
                \*   "torn":    a restart, stats() or another save came between
                \*              the rows that stats() writes one by one, or it
                \*              read rows of different saves

vars == <<chainVars, utxoCache, statsCache, coloredCache, q, upsets>>

-----------------------------------------------------------------------------
(* Rows                                                                     *)

\* history_db: rows "H" of the script and rows "C" of Color
ScriptRows(S) ==
  UNION {UNION {{[height |-> Height(b), act |-> "Funding", tx |-> x, out |-> o,
                  color |-> ColorOf[o]] : o \in Creates[x]}
                \cup
                {[height |-> Height(b), act |-> "Spending", tx |-> x, out |-> o,
                  color |-> ColorOf[o]] : o \in Spends[x]} : x \in TxsOf[b]} :
         b \in S}

ColorRows(S) ==
  UNION {UNION {{[height |-> Height(b), act |-> a, tx |-> x, color |-> Color] :
                 a \in ColorActs[x]} : x \in TxsOf[b]} : b \in S}

Rows(kind, S) == IF kind = "colored" THEN ColorRows(S) ELSE ScriptRows(S)

ASSUME FiniteAssumption ==
  \A b \in Blocks : IsFiniteSet(ScriptRows({b})) /\ IsFiniteSet(ColorRows({b}))

\* The key goes on with the tag of TxHistoryInfo after the height.
Rank(act) ==
  IF act \in {"Funding", "Issuing"} THEN 0
  ELSE IF act \in {"Spending", "Transferring"} THEN 1
  ELSE 2   \* "Burning"

Precedes(r, s) ==
  \/ r.height < s.height
  \/ r.height = s.height /\ Rank(r.act) < Rank(s.act)

\* The rows a scan may come to next; a tie is decided by the hash of a
\* transaction.
NextRows(rows) == {r \in rows : \A s \in rows : ~Precedes(s, r)}

-----------------------------------------------------------------------------
(* Results                                                                  *)

ZeroStat == [txs |-> 0, n |-> [a \in ScriptActs \cup AllColorActs |-> 0]]

\* ColoredStats::new starts the record of the color, a StatsMap starts empty.
NoStats(kind) == [c \in IF kind = "colored" THEN {Color} ELSE {} |-> ZeroStat]

\* _update_stats, and the body of update_colored_stats
CountRow(stat, row, seen) ==
  [txs |-> stat.txs + (IF row.tx \in seen THEN 0 ELSE 1),
   n   |-> [stat.n EXCEPT ![row.act] = @ + 1]]

\* StatsMap::insert
Insert(stats, color, stat) ==
  [c \in DOMAIN stats \cup {color} |-> IF c = color THEN stat ELSE stats[c]]

\* txo_count
TxoCount(stats) ==
  LET Count[C \in SUBSET DOMAIN stats] ==
        IF C = {} THEN 0
        ELSE LET c == CHOOSE c \in C : TRUE
             IN stats[c].n["Funding"] + stats[c].n["Spending"] + Count[C \ {c}]
  IN Count[DOMAIN stats]

(* What the answers should be for the chain that ends with b.               *)
UtxosAt(b) ==
  {u \in [out : Outs, block : Ancestors(b)] :
     /\ \E x \in TxsOf[u.block] : u.out \in Creates[x]
     /\ \A c \in Ancestors(b) : \A x \in TxsOf[c] : u.out \notin Spends[x]}

StatOf(rows) ==
  [txs |-> Cardinality({r.tx : r \in rows}),
   n   |-> [a \in ScriptActs \cup AllColorActs |->
              Cardinality({r \in rows : r.act = a})]]

Tally(kind, rows) ==
  [c \in {r.color : r \in rows} \cup DOMAIN NoStats(kind) |->
     StatOf({r \in rows : r.color = c})]

StatsAt(kind, b) == Tally(kind, Rows(kind, Ancestors(b)))

-----------------------------------------------------------------------------
\* The three kinds of query share no row of cache_db, so a behaviour is about
\* one of them.
Idle(kind) ==
  [pc |-> "idle", kind |-> kind, base |-> NoBlock, cached |-> {},
   had |-> FALSE, start |-> 0, rows |-> {}, utxos |-> {}, stats |-> << >>,
   seen |-> << >>, last |-> NoBlock, items |-> 0, unsaved |-> {}]

Init ==
  /\ ChainInit
  /\ upsets = {}
  /\ utxoCache = [utxos |-> {}, block |-> NoBlock]
  /\ statsCache = [c \in Colors |-> [stat |-> ZeroStat, block |-> NoBlock]]
  /\ coloredCache = [stat |-> ZeroStat, block |-> NoBlock]
  /\ \E kind \in Kinds : q = [i \in Queries |-> Idle(kind)]

-----------------------------------------------------------------------------
(* The indexing thread and the process                                      *)

\* The best block only ever gets higher (Indexer without CanRollBack).
Better(b) == Height(b) > Height(target)

KeepCaches == UNCHANGED <<utxoCache, statsCache, coloredCache>>

Aim(b) ==
  /\ Better(b) /\ TakeTarget(b)
  /\ KeepCaches /\ UNCHANGED <<q, upsets>>

IndexBlock(b) ==
  /\ WriteRows(b)
  /\ KeepCaches /\ UNCHANGED <<q, upsets>>

\* The query has taken something from the header list that its further steps
\* are combined with.
Underway(p) == p.pc = "scan" \/ (p.had /\ p.pc \in {"restore", "open"})

Publish ==
  /\ PublishTarget
  /\ upsets' = upsets \cup
       (IF \E i \in Queries : Underway(q[i]) THEN {"overlap"} ELSE {})
  /\ KeepCaches /\ UNCHANGED q

\* stats() has written the rows of some of its colors.
HalfSaved(p) == p.kind = "stats" /\ p.pc = "save" /\ p.unsaved # DOMAIN p.stats

Torn == IF \E i \in Queries : HalfSaved(q[i]) THEN {"torn"} ELSE {}

\* cache_db is written with a synced log, so its rows are still there.
Restart(b) ==
  /\ b = target \/ Better(b)
  /\ Reopen(b)
  /\ q' = [i \in Queries |-> Idle(q[i].kind)]
  /\ upsets' = upsets \cup Torn
  /\ KeepCaches

-----------------------------------------------------------------------------
(* A query                                                                  *)

Step(i, changes) ==
  /\ q' = [q EXCEPT ![i] =
              [f \in DOMAIN q[i] |-> IF f \in DOMAIN changes THEN changes[f] ELSE q[i][f]]]
  /\ UNCHANGED chainVars

KeepAll == KeepCaches /\ UNCHANGED upsets

NoneSeen == [c \in Colors |-> {}]

Ask(kind) == [pc |-> "open", stats |-> NoStats(kind), seen |-> NoneSeen]

\* cache_db.get of utxo() and of get_colored_stats()
AskUtxo(i) ==
  /\ q[i].kind = "utxo" /\ q[i].pc = "idle"
  /\ Step(i, IF utxoCache.block = NoBlock THEN Ask("utxo")
             ELSE [pc |-> "height", base |-> utxoCache.block,
                   cached |-> utxoCache.utxos])
  /\ KeepAll

AskColored(i) ==
  /\ q[i].kind = "colored" /\ q[i].pc = "idle"
  /\ Step(i, IF coloredCache.block = NoBlock THEN Ask("colored")
             ELSE [pc |-> "height", base |-> coloredCache.block, seen |-> NoneSeen,
                   stats |-> [c \in {Color} |-> coloredCache.stat]])
  /\ KeepAll

\* stats_iter_scan.  Its start key is in another encoding than the keys of the
\* rows, so the rows of other scripts may end the scan before the first of this
\* one: it finds all of them or none.  Each row overwrites blockheight, the last
\* color's stays.
AskStats(i) ==
  /\ q[i].kind = "stats" /\ q[i].pc = "idle"
  /\ LET found == {c \in Colors : statsCache[c].block # NoBlock}
     IN \/ Step(i, Ask("stats")) /\ UNCHANGED upsets
        \/ \E lastColor \in found :
             /\ \A c \in found : c <= lastColor
             /\ upsets' = upsets \cup Torn \cup
                  (IF \E c, d \in found : statsCache[c].block # statsCache[d].block
                   THEN {"torn"} ELSE {})
             /\ Step(i, [pc |-> "height", base |-> statsCache[lastColor].block, seen |-> NoneSeen,
                         stats |-> [c \in found |-> statsCache[c].stat]])
  /\ KeepCaches

UseCache(i, start) ==
  Step(i, [had |-> TRUE, start |-> start,
           pc |-> IF q[i].cached = {} THEN "open" ELSE "restore"])

StartAfresh(i) == Step(i, [pc |-> "open", cached |-> {},
                           stats |-> NoStats(q[i].kind)])

\* Two slips of CheckHeight: an orphan passes for a block of the chain; the scan
\* starts with the cached block itself.
CheckHeight_OrphansToo(i) ==
  /\ q[i].pc = "height"
  /\ UseCache(i, Height(q[i].base) + 1)
  /\ KeepAll

CheckHeight_FromBase(i) ==
  /\ q[i].pc = "height"
  /\ IF q[i].base \in Ancestors(served)
     THEN UseCache(i, Height(q[i].base))
     ELSE StartAfresh(i)
  /\ KeepAll

\* height_by_hash: without it utxo() and get_colored_stats() start afresh;
\* stats() scans from the start too, but adds to the statistics it has read.
CheckHeight(i) ==
  /\ q[i].pc = "height"
  /\ IF q[i].base \in Ancestors(served)
     THEN UseCache(i, Height(q[i].base) + 1) /\ KeepAll
     ELSE IF q[i].kind # "stats" THEN StartAfresh(i) /\ KeepAll
     ELSE /\ Step(i, [pc |-> "open"])
          /\ upsets' = upsets \cup {"orphan"}
          /\ KeepCaches

\* from_utxo_cache: blockid_by_height for one entry, "missing blockheader for
\* valid utxo cache entry" if there is none
Restore(i) ==
  /\ q[i].pc = "restore"
  /\ \E u \in q[i].cached :
       IF u.height > Height(served) THEN Step(i, [pc |-> "panicked"])
       ELSE Step(i, [cached |-> q[i].cached \ {u},
                     utxos  |-> q[i].utxos \cup
                                {[out   |-> u.out,
                                  block |-> ChainOf[served][u.height + 1]]},
                     pc |-> IF q[i].cached = {u} THEN "open" ELSE "restore"])
  /\ KeepAll

\* history_iter_scan, colored_history_iter_scan: the iterator sees the database
\* as it is now
OpenScan(i) ==
  /\ q[i].pc = "open"
  /\ Step(i, [pc   |-> "scan",
              rows |-> {r \in Rows(q[i].kind, indexed) :
                          r.height >= q[i].start}])
  /\ KeepAll

\* One row of utxo_delta
UpdateUtxos(utxos, row, b) ==
  {u \in utxos : u.out # row.out} \cup
  (IF row.act = "Funding" THEN {[out |-> row.out, block |-> b]} ELSE {})

\* Each row counts as a transaction.
UpdateStats_SeenNotKept(p, row, b) ==
  LET stat == IF row.color \in DOMAIN p.stats THEN p.stats[row.color]
              ELSE ZeroStat
  IN [stats |-> Insert(p.stats, row.color, CountRow(stat, row, {})), seen |-> p.seen]

\* One row of update_stats or update_colored_stats.  The transactions seen are
\* forgotten when the block changes.
UpdateStats(p, row, b) ==
  LET seen == IF p.last = b THEN p.seen[row.color] ELSE {}
      stat == IF row.color \in DOMAIN p.stats THEN p.stats[row.color]
              ELSE ZeroStat
  IN [stats |-> Insert(p.stats, row.color, CountRow(stat, row, seen)),
      seen  |-> [p.seen EXCEPT ![row.color] = seen \cup {row.tx}]]

\* The rows of an orphaned block stay in history_db, and those of a chain about to be
\* published are there already.  One is taken when the served chain confirms its
\* transaction at another height: the statistics count it a second time; utxo()
\* puts it right when the row of the chain is still to come, not if it came before.
Misleads(kind, row, b) ==
  /\ b # NoBlock
  /\ IF kind = "utxo" THEN row.height > Height(b) ELSE row.height # Height(b)

\* A row whose transaction the served chain does not confirm is skipped; a set
\* of outputs above the limit ends the query with TooPopular.
ScanRow(i) ==
  /\ q[i].pc = "scan"
  /\ \E row \in NextRows(q[i].rows) :
       LET b     == TxConfirmingBlock(row.tx)
           rest  == q[i].rows \ {row}
           utxos == UpdateUtxos(q[i].utxos, row, b)
       IN /\ upsets' = upsets \cup (IF Misleads(q[i].kind, row, b) THEN {"moved"} ELSE {})
          /\ IF b = NoBlock THEN Step(i, [rows |-> rest])
             ELSE IF q[i].kind # "utxo"
             THEN LET counted == UpdateStats(q[i], row, b)
                  IN Step(i, [rows |-> rest, last |-> b,
                              stats |-> counted.stats, seen |-> counted.seen])
             ELSE IF Cardinality(utxos) > UtxosLimit THEN Step(i, Idle(q[i].kind))
             ELSE Step(i, [rows |-> rest, last |-> b, utxos |-> utxos,
                           items |-> q[i].items + 1])
  /\ KeepCaches

\* The rows the query writes to cache_db: the colors of its StatsMap, or one
RowsToSave(p) ==
  IF \/ p.last = NoBlock
     \/ p.kind = "utxo" /\ ~p.had /\ p.items <= MinItems
     \/ p.kind = "stats" /\ TxoCount(p.stats) <= MinItems
  THEN {}
  ELSE IF p.kind = "stats" THEN DOMAIN p.stats ELSE {Color}

ScanEnd(i) ==
  /\ q[i].pc = "scan" /\ q[i].rows = {}
  /\ Step(i, [unsaved |-> RowsToSave(q[i]),
              pc |-> IF RowsToSave(q[i]) = {} THEN "answered" ELSE "save"])
  /\ KeepAll

\* A height one too high.
SavedUtxos_NextHeight(utxos) ==
  {[out |-> u.out, height |-> Height(u.block) + 1] : u \in utxos}

\* make_utxo_cache
SavedUtxos(utxos) == {[out |-> u.out, height |-> Height(u.block)] : u \in utxos}

\* cache_db.write of one row; stats() writes its colors one by one
Save(i) ==
  /\ q[i].pc = "save"
  /\ upsets' = upsets \cup IF \E j \in Queries \ {i} : HalfSaved(q[j]) THEN {"torn"} ELSE {}
  /\ \E c \in q[i].unsaved :
       LET rest == q[i].unsaved \ {c} IN
       /\ Step(i, [unsaved |-> rest,
                   pc |-> IF rest = {} THEN "answered" ELSE "save"])
       /\ \/ /\ q[i].kind = "utxo"
             /\ utxoCache' = [utxos |-> SavedUtxos(q[i].utxos), block |-> q[i].last]
             /\ UNCHANGED <<statsCache, coloredCache>>
          \/ /\ q[i].kind = "stats"
             /\ statsCache' =
                  [statsCache EXCEPT ![c] = [stat |-> q[i].stats[c], block |-> q[i].last]]
             /\ UNCHANGED <<utxoCache, coloredCache>>
          \/ /\ q[i].kind = "colored"
             /\ coloredCache' = [stat |-> q[i].stats[c], block |-> q[i].last]
             /\ UNCHANGED <<utxoCache, statsCache>>

\* The answer is sent, or the request dropped.
End(i) ==
  /\ q[i].pc \in {"answered", "panicked"}
  /\ Step(i, Idle(q[i].kind))
  /\ KeepAll

Query(i) ==
  \/ AskUtxo(i) \/ AskColored(i) \/ AskStats(i) \/ CheckHeight(i) \/ Restore(i)
  \/ OpenScan(i) \/ ScanRow(i) \/ ScanEnd(i) \/ Save(i) \/ End(i)

Next ==
  \/ \E b \in Blocks : Aim(b) \/ IndexBlock(b) \/ Restart(b)
  \/ Publish
  \/ \E i \in Queries : Query(i)

Spec == Init /\ [][Next]_vars

-----------------------------------------------------------------------------
(* The cached set of outputs is what the chain up to its block leaves       *)
(* unspent, with the heights of that chain: whatever was reorganised since  *)
(* the row was first written, by whichever query it was brought up to date  *)
(* (doc/schema.md: "The cached data is kept next to the blockhash the cache *)
(* is up-to-date for").                                                     *)
UtxoCacheAccurate ==
  utxoCache.block # NoBlock =>
    utxoCache.utxos = SavedUtxos(UtxosAt(utxoCache.block))

(* The same for the statistics of a color ...                               *)
ColoredCacheAccurate ==
  coloredCache.block # NoBlock =>
    [c \in {Color} |-> coloredCache.stat] = StatsAt("colored", coloredCache.block)

(* ... and, color by color, for those of a script.                          *)
StatsCacheAccurate ==
  \A c \in Colors :
    LET row == statsCache[c]
    IN row.block # NoBlock =>
         /\ c \in DOMAIN StatsAt("stats", row.block)
         /\ row.stat = StatsAt("stats", row.block)[c]

Scanned(i, kind) ==
  q[i].pc = "scan" /\ q[i].rows = {} /\ q[i].kind = kind

(* utxo() answers with the unspent outputs of the served chain (doc/API.md: *)
(* "the list of unspent transaction outputs associated with the             *)
(* address/scripthash"), each with the block that confirms it: the same     *)
(* from the cache and the rows above it as from all rows.                   *)
UtxoExact ==
  \A i \in Queries : Scanned(i, "utxo") => q[i].utxos = UtxosAt(served)

ColoredExact ==
  \A i \in Queries :
    Scanned(i, "colored") => q[i].stats = StatsAt("colored", served)

StatsExact ==
  \A i \in Queries :
    Scanned(i, "stats") => q[i].stats = StatsAt("stats", served)

\* No chain was published in the middle of a scan, and no scan was misled.
Undisturbed == upsets \cap {"overlap", "moved"} = {}

(* stats() counts each row of the served chain once, also after its cached  *)
(* block was orphaned (doc/schema.md: "If the blockhash was since orphaned, *)
(* the cache is removed and re-computed").                                  *)
StatsRecomputed == Undisturbed => StatsExact

(* Caches and answers are exact through every reorganisation, restart and   *)
(* interleaving of queries, as long as no chain is published in the middle  *)
(* of a scan: for utxo(), also when transactions are confirmed again at     *)
(* another height, unless a scan comes to a row of another height above it  *)
(* ...                                                                      *)
UtxoCalm ==
  Undisturbed => UtxoCacheAccurate /\ UtxoExact

(* ... for get_colored_stats(), unless a scan comes to any row that is not  *)
(* at the height of its transaction ...                                     *)
ColoredCalm ==
  Undisturbed => ColoredCacheAccurate /\ ColoredExact

(* ... and for stats(), as long as no cached block was orphaned either and  *)
(* nothing came between the rows that it writes one by one.                 *)
StatsCalm ==
  upsets = {} => StatsCacheAccurate /\ StatsExact

(* from_utxo_cache's expect: the cached heights are within the header list, *)
(* although the list may be replaced between the check of the cached block  *)
(* and each of these lookups.                                               *)
NoUtxoPanic == \A i \in Queries : q[i].pc # "panicked"
=============================================================================
