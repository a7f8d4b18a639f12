---------------------------- MODULE MCAlgorithms ----------------------------
(***************************************************************************)
(* The functions without state, on every input up to a length: an input is *)
(* a sequence that grows by one item at a time.                            *)
(***************************************************************************)
EXTENDS Merkle, FeeHistogram, OpenAssets, ColoredHistory, Rows, BlkFiles

CONSTANTS MaxHashes, MaxEntries, MaxAssets, MaxTxs, MaxRows, MaxWrites

VARIABLES about,  \* the function the input is for
          items   \* the input

vars == <<about, items>>

Grow(which, max, choices) ==
  /\ about = which /\ Len(items) < max
  /\ \E x \in choices : items' = Append(items, x)
  /\ UNCHANGED about

\* A hash is a sequence of one number, its place.
GrowHashes == Grow("merkle", MaxHashes, {<<Len(items)>>})

GrowEntries == Grow("fees", MaxEntries, [rate : 1 .. 3, vsize : 1 .. 3])

\* Inputs first, then the quantities of the marker.
InputsOf == SelectSeq(items, LAMBDA x : x.is = "input")
QuantitiesOf == [i \in 1 .. Len(items) - Len(InputsOf) |-> items[Len(InputsOf) + i].units]

GrowAssets ==
  Grow("assets", MaxAssets,
       [is : {"quantity"}, units : 0 .. 3]
       \cup (IF QuantitiesOf # <<>> THEN {}
             ELSE [is : {"input"}, asset : {"gold", "silver"}, units : 1 .. 2]
                  \cup {[is |-> "input", asset |-> NoAsset, units |-> 0]}))

\* A transaction is at the height of the one before it or the next, and spends
\* outputs that are not spent.
Created == UNION {{<<t, k>> : k \in DOMAIN items[t].outs} : t \in DOMAIN items}
Spent   == UNION {items[t].spends : t \in DOMAIN items}
Value(o) == items[o[1]].outs[o[2]]

GrowTxs ==
  LET height == IF items = <<>> THEN 0 ELSE Last(items).height
      some == CHOOSE c \in Colors : TRUE
      outs == BoundedSeq([color : {some}, value : 1 .. 2], 1)
              \cup {<<[color |-> some, value |-> 1], [color |-> c, value |-> 2]>> : c \in Colors \cup {NoColor}}
              \cup {<<[color |-> some, value |-> 0]>>}
  IN Grow("colors", MaxTxs,
          [spends : SUBSET (Created \ Spent), outs : outs, height : {height, height + 1}])

\* The script of a coin, one with a color around it, and one that cannot be spent
Scripts == {"plain", "colored", "return"}
InnerOf == [s \in Scripts |-> IF s = "colored" THEN "plain" ELSE NoScript]

ASSUME ScriptsAssumption == Scripts \subseteq DOMAIN Inner

\* A transaction is in the block of the one before it or in the next.
Outpoints == UNION {{<<t, i - 1>> : i \in DOMAIN items[t].outs} : t \in DOMAIN items}
ScriptOf(o) == items[o[1]].outs[o[2] + 1]
SpentOuts == UNION {Range(items[t].ins) : t \in DOMAIN items}
Unspent == Outpoints \ SpentOuts

GrowRows ==
  LET height == IF items = <<>> THEN 0 ELSE Last(items).height
      ins(S) == IF S = {} THEN <<NoPrevout>> ELSE SetToSeq(S)
  IN Grow("rows", MaxRows,
          [ins : {ins(S) : S \in SUBSET {o \in Unspent : ScriptOf(o) \notin Unspendable}},
           outs : {<<"plain">>, <<"colored">>, <<"colored", "return", "plain">>},
           height : {height, height + 1}])

\* The blocks of the transactions, and the rows of all blocks: what add_blocks() writes,
\* the outputs that index_blocks() looks up in it, and what that writes.
Below(h) == {t \in DOMAIN items : items[t].height < h}
IdsAt(h) == [i \in 1 .. Cardinality(Below(h + 1)) - Cardinality(Below(h)) |-> Cardinality(Below(h)) + i]
BlockAt(h) == [hash |-> h, height |-> h, ids |-> IdsAt(h), txs |-> [i \in DOMAIN IdsAt(h) |-> items[IdsAt(h)[i]]]]
ChainBlocks == {BlockAt(items[t].height) : t \in DOMAIN items}

TxStore(lightMode) == UNION {AddBlock(b, lightMode) : b \in ChainBlocks}
Previous == UNION {PreviousTxos(b) : b \in ChainBlocks}
Prevouts(lightMode) == [o \in Previous |-> CHOOSE v \in LookupTxo(TxStore(lightMode), o) : TRUE]
History(lightMode, indexUnspendables) ==
  UNION {IndexBlockRows(b, Prevouts(lightMode), indexUnspendables) : b \in ChainBlocks}

\* The outputs that a script has rows of
Coins(s, indexUnspendables) ==
  {o \in Outpoints : /\ s \in {ScriptOf(o), Inner[ScriptOf(o)]}
                     /\ indexUnspendables \/ ScriptOf(o) \notin Unspendable}

\* What tapyrusd writes: a block, its magic and size only, a part of it, room for more,
\* or another file.  One body has the magic within.
Bodies == <<<<21>>, <<22, Magic, 23>>>>

GrowWrites ==
  Grow("files", MaxWrites,
       [write : {"block", "failed"}, block : DOMAIN Bodies]
       \cup {[write |-> "cut", block |-> 2], [write |-> "room", block |-> 1], [write |-> "file", block |-> 1]})

Init == about \in {"merkle", "fees", "assets", "colors", "rows", "files"} /\ items = <<>>
Next == GrowHashes \/ GrowEntries \/ GrowAssets \/ GrowTxs \/ GrowRows \/ GrowWrites

Spec == Init /\ [][Next]_vars

-----------------------------------------------------------------------------
(* Properties.                                                             *)

\* create_merkle_branch_and_root() of src/src/util/electrum_merkle.rs: the root is the
\* one consensus defines, for a block or for the headers up to a checkpoint, and a
\* client that climbs from the leaf along the branch, by its position, comes to it;
\* the answers by transaction and by position agree.
BranchesProve ==
  about = "merkle" =>
    \A n \in 1 .. Len(items) : \A pos \in 0 .. n - 1 :
      LET block == SubSeq(items, 1, n)
          proof == BranchAndRoot(block, pos)
      IN /\ proof.root = MerkleRoot(block)
         /\ ClientRoot(block[pos + 1], pos, proof.merkle) = proof.root
         /\ HeaderMerkleProof(items, pos, n - 1) = proof
         /\ TxMerkleProof(block, block[pos + 1]) = [merkle |-> proof.merkle, pos |-> pos]
         /\ IdFromPos(block, pos) = [txid |-> block[pos + 1], merkle |-> proof.merkle]

\* make_fee_histogram() of src/src/util/fees.rs: a bin with rate r weighs what pays at
\* least r and less than the bin before, so rates fall and no rate is in two bins; a
\* bin but the last is wider than the width, and was not before its last rate.
HistogramPartitions ==
  about = "fees" =>
    LET bins == FeeHistogram(items)
        above(k) == IF k = 1 THEN 4 ELSE bins[k - 1].rate
    IN /\ (items = <<>>) = (bins = <<>>)
       /\ \A k \in DOMAIN bins :
            /\ bins[k].rate < above(k)
            /\ bins[k].vsize = VsizeBetween(items, bins[k].rate, above(k))
            /\ bins[k].vsize - VsizeBetween(items, bins[k].rate, bins[k].rate + 1) <= VsizeBinWidth
            /\ k < Len(bins) => bins[k].vsize > VsizeBinWidth
       /\ bins # <<>> => VsizeBetween(items, 0, Last(bins).rate) = 0

\* compute_assets() of src/src/open_assets/mod.rs: when the inputs have the units that
\* the transfer outputs need, and no output gets units of two assets, every output is
\* colored as the units of all inputs, in a row, are shared out; it panics when units
\* of two assets meet before it runs out of them, and otherwise does not end.
OrderBased ==
  about = "assets" /\ InputsOf # <<>> =>
    LET quantities == QuantitiesOf
        n == Len(quantities)
    IN \A marker \in 0 .. n + 1 : \A outputs \in {n + 1, n + 2} :
         LET answer == ComputeAssets(InputsOf, "mint", quantities, marker, outputs)
             share(k) == Share(InputsOf, quantities, marker, k)
             mixed == \E k \in marker + 1 .. n : Cardinality(share(k)) > 1
         IN marker < outputs =>
              /\ answer.ends = IF mixed THEN "panics"
                               ELSE IF Enough(InputsOf, quantities, marker) THEN "returns"
                               ELSE "never"
              /\ answer.ends = "returns" =>
                   \A v \in 0 .. outputs - 1 :
                     answer.result[v + 1] =
                       CASE v < marker /\ v < n /\ quantities[v + 1] > 0 -> Colored("mint", quantities[v + 1])
                         [] v > marker /\ v <= n /\ quantities[v] > 0 ->
                              Colored(CHOOSE asset \in share(v) : TRUE, quantities[v])
                         [] OTHER -> Uncolored

\* colored_tx_history() and update_colored_stats(), src/src/new_index/color.rs:249 and
\* schema.rs:1852: what was issued and not burned is what the unspent outputs of the
\* color hold, whatever was transferred in between; each transaction counts once; and
\* statistics that are resumed after a block are those of the whole history.
Balanced ==
  about = "colors" =>
    \A c \in Colors :
      LET prevouts(t) == LET spends == SetToSeq(items[t].spends) IN [i \in DOMAIN spends |-> Value(spends[i])]
          history(t) == {h \in ColoredTxHistory(prevouts(t), items[t].outs) : h[1] = c}
          rows == SetToSortSeq(UNION {{[height |-> items[t].height, tx |-> t, info |-> h[2]] : h \in history(t)} :
                                        t \in DOMAIN items}, RowBefore)
          stats == UpdateColoredStats(NoStats, rows)
          upto(h) == SelectSeq(rows, LAMBDA r : r.height <= h)
          after(h) == SelectSeq(rows, LAMBDA r : r.height > h)
      IN /\ stats.issued_sum - stats.burned_sum
              = MapThenSumSet(LAMBDA o : Value(o).value, {o \in Created \ Spent : Value(o).color = c})
         /\ stats.tx_count = Cardinality({t \in DOMAIN items :
              \/ \E k \in DOMAIN items[t].outs : items[t].outs[k].color = c
              \/ \E o \in items[t].spends : Value(o).color = c})
         /\ \A h \in 0 .. MaxTxs :
              UpdateColoredStats(UpdateColoredStats(NoStats, upto(h)), after(h)) = stats

\* add_blocks() and index_blocks() of src/src/new_index/schema.rs:997 and 1108: what a
\* block of the chain spends is found, also in the same block; the history of a script
\* has its transactions, and its unspent outputs are left when the rows are read in the
\* order of their keys, for colored scripts and for those within them; every spent
\* output has the edge to its spender.  Outputs beyond u16 are not told apart.
RowsTellChain ==
  about = "rows" =>
    \A lightMode, indexUnspendables \in BOOLEAN :
      LET history == History(lightMode, indexUnspendables)
      IN (\A t \in DOMAIN items : Len(items[t].outs) <= VoutLimit /\ Len(items[t].ins) <= VoutLimit) =>
         /\ \A o \in Previous : LookupTxo(TxStore(lightMode), o) = {ScriptOf(o)}
         /\ \A s \in Scripts :
              /\ UtxoDelta(history, s) = Coins(s, indexUnspendables) \ SpentOuts
              /\ {TxidOf(k) : k \in HistoryKeys(history, s)}
                   = {o[1] : o \in Coins(s, indexUnspendables)}
                     \cup {t \in DOMAIN items : Range(items[t].ins) \cap Coins(s, indexUnspendables) # {}}
         /\ \A o \in Outpoints :
              SpendersOf(history, o) = UNION {{<<t, k - 1>> : k \in {k \in DOMAIN items[t].ins : items[t].ins[k] = o}} :
                                                t \in DOMAIN items}

\* parse_blocks() and blkfiles_fetcher() of src/src/new_index/fetch.rs:193 and 104: from
\* files in which a block that was not written is followed by the next one, every new
\* block is fetched once, wherever it is and however often; from others, or without
\* all new blocks, the update panics and indexes nothing of that file.
FilesGiveBlocks ==
  about = "files" =>
    LET words(i) == LET b == items[i].block IN
          CASE items[i].write = "block"  -> <<Magic, Len(Body[b])>> \o Body[b]
            [] items[i].write = "failed" -> <<Magic, Len(Body[b])>>
            [] items[i].write = "cut"    -> <<Magic, Len(Body[b]), Body[b][1]>>
            [] OTHER                     -> <<0>>
        files == FoldLeft(LAMBDA f, i : IF items[i].write = "file" THEN Append(f, <<>>)
                                        ELSE [f EXCEPT ![Len(f)] = @ \o words(i)],
                          <<<<>>>>, [i \in DOMAIN items |-> i])
        written == {items[i].block : i \in {i \in DOMAIN items : items[i].write = "block"}}
        sound == \A i \in DOMAIN items :
          /\ items[i].write # "cut"
          /\ items[i].write = "failed" => i < Len(items) /\ items[i + 1].write \in {"block", "failed", "cut"}
    IN \A newHeaders \in SUBSET DOMAIN Body :
         LET fetched == FetchFiles(files, newHeaders)
             blocks == FlattenSeq(fetched.batches)
         IN /\ fetched.ends = IF sound /\ newHeaders \subseteq written THEN "returns" ELSE "panics"
            /\ fetched.ends = "returns" => Len(blocks) = Cardinality(newHeaders) /\ Range(blocks) = newHeaders
=============================================================================
