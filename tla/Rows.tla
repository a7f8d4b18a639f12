-------------------------------- MODULE Rows ---------------------------------
(***************************************************************************)
(* The rows of a block: add_blocks() and index_blocks() of                 *)
(* src/src/new_index/schema.rs, and what lookups make of them.  A row is a *)
(* key and a value; the first component of a key is the code of the row.   *)
(*                                                                         *)
(* A transaction is a record of the outpoints it spends and of the scripts *)
(* of its outputs, both in order; an outpoint is a transaction id and an   *)
(* index, from 0.  Values and colors go with the script of an output; the  *)
(* statistics made of them are in ScriptCache and ColoredHistory.          *)
(***************************************************************************)
EXTENDS Integers, Sequences, SequencesExt

CONSTANTS
  Inner,         \* script -> the script within it, if it is colored (split_color), or NoScript
  NoScript,
  Unspendable,   \* the scripts that are provably unspendable
  VoutLimit      \* 2^16: vout and vin are u16

ASSUME RowsAssumption ==
  /\ NoScript \notin DOMAIN Inner /\ Inner \in [DOMAIN Inner -> DOMAIN Inner \cup {NoScript}]
  /\ VoutLimit \in Nat \ {0}

NoPrevout == <<0, 0>>   \* the input of a coinbase: a txid of zeros

AsU16(i) == i % VoutLimit

Put(key, value) == <<key, value>>

\* The values of the rows with a key; there is one unless rows overwrite each other.
Values(rows, key) == {r[2] : r \in {r \in rows : r[1] = key}}
Keys(rows) == {r[1] : r \in rows}

-----------------------------------------------------------------------------
(* txstore_db                                                               *)

AddTransaction(id, tx, hash, lightMode) ==
  {Put(<<"C", id, hash>>, {})}
  \cup (IF lightMode THEN {} ELSE {Put(<<"T", id>>, tx)})
  \cup {Put(<<"O", id, AsU16(i - 1)>>, tx.outs[i]) : i \in {i \in DOMAIN tx.outs : tx.outs[i] \notin Unspendable}}

\* A block is its hash, height and transactions, each with its id.
AddBlock(b, lightMode) ==
  (UNION {AddTransaction(b.ids[i], b.txs[i], b.hash, lightMode) : i \in DOMAIN b.txs})
  \cup (IF lightMode THEN {} ELSE {Put(<<"X", b.hash>>, b.ids), Put(<<"M", b.hash>>, Len(b.ids))})
  \cup {Put(<<"B", b.hash>>, b.height), Put(<<"D", b.hash>>, {})}

HasPrevout(o) == o # NoPrevout

\* get_previous_txos()
PreviousTxos(b) == UNION {{o \in Range(b.txs[i].ins) : HasPrevout(o)} : i \in DOMAIN b.txs}

LookupTxo(txstore, o) == Values(txstore, <<"O", o[1], AsU16(o[2])>>)

-----------------------------------------------------------------------------
(* history_db                                                               *)

\* A colored output has a row for its script and one for the script within.
ScriptsOf(script) == {script, Inner[script]} \ {NoScript}

FundingRows(id, tx, height, indexUnspendables) ==
  UNION {{Put(<<"H", s, height, "F", id, AsU16(i - 1)>>, {}) : s \in ScriptsOf(tx.outs[i])} :
           i \in {i \in DOMAIN tx.outs : indexUnspendables \/ tx.outs[i] \notin Unspendable}}

SpendingRows(id, tx, height, prevouts) ==
  UNION {LET o == tx.ins[i]
             edge == Put(<<"S", o[1], AsU16(o[2]), id, AsU16(i - 1)>>, {})
         IN {edge} \cup {Put(<<"H", s, height, "S", id, AsU16(i - 1), o[1], AsU16(o[2])>>, {}) :
                           s \in ScriptsOf(prevouts[o])} :
           i \in {i \in DOMAIN tx.ins : HasPrevout(tx.ins[i])}}

\* index_blocks() with previous_txos_map
IndexBlockRows(b, prevouts, indexUnspendables) ==
  (UNION {FundingRows(b.ids[i], b.txs[i], b.height, indexUnspendables)
          \cup SpendingRows(b.ids[i], b.txs[i], b.height, prevouts) : i \in DOMAIN b.txs})
  \cup {Put(<<"D", b.hash>>, {})}

-----------------------------------------------------------------------------
(* Lookups                                                                  *)

\* "S" comes before "F".
KeyBefore_SpendingFirst(k, l) ==
  \/ k[3] < l[3]
  \/ k[3] = l[3] /\ k[4] = "S" /\ l[4] = "F"

\* The order of the keys of a script, as far as it matters: by height, then "F" before
\* "S" (the order of the variants of TxHistoryInfo)
KeyBefore(k, l) ==
  \/ k[3] < l[3]
  \/ k[3] = l[3] /\ k[4] = "F" /\ l[4] = "S"

HistoryKeys(history, script) == {k \in Keys(history) : k[1] = "H" /\ k[2] = script}

\* get_txid(), get_funded_outpoint()
TxidOf(key) == key[5]
FundedOutpoint(key) == IF key[4] = "F" THEN <<key[5], key[6]>> ELSE <<key[7], key[8]>>

\* utxo_delta(): outputs are inserted and removed in the order of the keys.
UtxoDelta(history, script) ==
  LET keys == HistoryKeys(history, script)
      removed(k) == \E l \in keys : l[4] = "S" /\ FundedOutpoint(l) = FundedOutpoint(k) /\ KeyBefore(k, l)
  IN {FundedOutpoint(k) : k \in {k \in keys : k[4] = "F" /\ ~removed(k)}}

\* lookup_spend(): the rows with the outpoint as prefix
SpendersOf(history, o) ==
  {<<k[4], k[5]>> : k \in {k \in Keys(history) : k[1] = "S" /\ k[2] = o[1] /\ k[3] = AsU16(o[2])}}
=============================================================================
