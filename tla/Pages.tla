-------------------------------- MODULE Pages --------------------------------
(***************************************************************************)
(* The listings that are read page by page, newest first: the history of a *)
(* script (/address/:a/txs/chain/:last_seen_txid) and the colors           *)
(* (/colors/chain/:last_seen_color_id).  A client asks for one page after  *)
(* the other, each time from the last thing it has seen, until a page is   *)
(* not full; blocks are indexed and chains published between and within    *)
(* pages, and the server restarts.                                         *)
(*                                                                         *)
(* A page reads one snapshot of the rows, in the reverse order of their    *)
(* keys: height, tag, transaction or color.  Rows are never removed, those *)
(* of orphans included.  Transactions and colors are numbered in the order *)
(* of their hashes.                                                        *)
(***************************************************************************)
EXTENDS Reads

CONSTANTS
  Colors,      \* colors
  ColorsOf,    \* transaction -> the colors it has rows of
  TagsOf,      \* transaction -> the tags of its rows in the history asked for
  PageSize     \* CHAIN_TXS_PER_PAGE, COLOR_IDS_PER_PAGE

ASSUME PagesAssumption ==
  /\ Txs \subseteq Nat /\ Colors \subseteq Nat
  /\ ColorsOf \in [Txs -> SUBSET Colors] /\ TagsOf \in [Txs -> SUBSET Nat]
  /\ PageSize \in Nat \ {0}
  \* a block has so many transactions, and these so many rows and colors
  /\ \A b \in Blocks : IsFiniteSet(TxsOf[b])
  /\ \A x \in Txs : IsFiniteSet(TagsOf[x]) /\ IsFiniteSet(ColorsOf[x])

Nothing == -1   \* no last_seen

-----------------------------------------------------------------------------
(* Rows: "id" is a transaction or a color.                                  *)

RowsOf(b) == UNION {[height : {Height(b)}, tag : TagsOf[x], id : {x}] : x \in TxsOf[b]}
ColorRowsOf(b) == [height : {Height(b)}, tag : {0}, id : UNION {ColorsOf[x] : x \in TxsOf[b]}]

TxHistoryRows == UNION {RowsOf(b) : b \in indexed}
ColorIdRows   == UNION {ColorRowsOf(b) : b \in indexed}

Below(r, s) ==
  \/ r.height < s.height
  \/ r.height = s.height /\ r.tag < s.tag
  \/ r.height = s.height /\ r.tag = s.tag /\ r.id < s.id

Top(rows) == CHOOSE r \in rows : \A s \in rows \ {r} : Below(s, r)
RowsWith(rows, id) == {r \in rows : r.id = id}

\* Each row counts: no unique().
AfterLastSeen_NotUnique(rows, last) ==
  IF last = Nothing THEN rows
  ELSE {r \in rows : RowsWith(rows, last) # {} /\ Below(r, Top(RowsWith(rows, last)))}

\* unique(), skip_while() and skip(): the first row of each transaction, after that
\* of the transaction last seen
AfterLastSeen(rows, last) ==
  LET firsts == {Top(RowsWith(rows, r.id)) : r \in rows}
  IN IF last = Nothing THEN firsts
     ELSE {r \in firsts : \E seen \in RowsWith(firsts, last) : Below(r, seen)}

\* get_height_by_color_id(): of the latest row, whether served or not
LatestHeight(c) ==
  LET rows == RowsWith(ColorIdRows, c) IN IF rows = {} THEN Nothing ELSE Top(rows).height

-----------------------------------------------------------------------------
(* The client and the pages                                                 *)

\* "last" is the cursor, "from" and "skip" what a page of colors begins with, "top"
\* the height that the first one had.
Walks ==
  {[kind |-> kind, pc |-> "ask", last |-> Nothing, from |-> Nothing, top |-> Nothing, rows |-> {},
    skip |-> FALSE, page |-> <<>>, listed |-> <<>>] : kind \in {"txs", "colors"}}

Walk == Come(Walks)

\* The page so far.  When it is full, or there is nothing more, the client gets it,
\* and asks on if it was full.
Page(page, rows, skip) ==
  LET full == Len(page) = PageSize
  IN IF ~full /\ rows # {} THEN [pc |-> "scan", page |-> page, rows |-> rows, skip |-> skip]
     ELSE [pc     |-> IF full THEN "ask" ELSE "done",
           last   |-> IF full THEN page[PageSize].id ELSE req.last,
           listed |-> req.listed \o page,
           page   |-> <<>>, rows |-> {}, skip |-> FALSE]

\* _history(), get_colored_txs(): history_iter_scan_reverse
OpenHistory ==
  /\ req.kind = "txs" /\ req.pc = "ask"
  /\ Get(Page(<<>>, AfterLastSeen(TxHistoryRows, req.last), FALSE))

\* The next transaction, if the served chain confirms it
HistoryRow ==
  /\ req.kind = "txs" /\ req.pc = "scan"
  /\ LET row == Top(req.rows)
         confirmed == TxConfirmingBlock(row.id) # NoBlock
     IN Get(Page(IF confirmed THEN Append(req.page, row) ELSE req.page, req.rows \ {row}, FALSE))

\* Query::get_colors(): the height to start from.  The first page takes that of
\* getblockchaininfo(): tapyrusd may be ahead of the index or elsewhere.
AskColors ==
  /\ req.kind = "colors" /\ req.pc = "ask"
  /\ \E from \in IF req.last = Nothing THEN {Height(b) : b \in {b \in Blocks : b = target \/ Elsewhere(b)}}
                 ELSE {LatestHeight(req.last)} :
       Get([pc |-> "colors", from |-> from, top |-> IF req.last = Nothing THEN from ELSE req.top])

\* ChainQuery::get_colors(): iter_scan_reverse from filter_end
OpenColors ==
  /\ req.kind = "colors" /\ req.pc = "colors"
  /\ LET end  == [height |-> req.from, tag |-> 0, id |-> req.last]
         rows == {r \in ColorIdRows : IF req.last = Nothing THEN r.height <= req.from
                                      ELSE r = end \/ Below(r, end)}
     IN Get(Page(<<>>, rows, req.last # Nothing))

\* The check is left out.
IsLatest_NotChecked(row) == TRUE

\* "Ignore color_id, block_height pair if the block_height is not the latest"
IsLatest(row) == LatestHeight(row.id) <= row.height

\* The first color that counts is skipped when the page continues another: it is
\* taken to be the last one seen.
ColorRow ==
  /\ req.kind = "colors" /\ req.pc = "scan"
  /\ LET row    == Top(req.rows)
         latest == IsLatest(row)
     IN Get(Page(IF latest /\ ~req.skip THEN Append(req.page, row) ELSE req.page,
                 req.rows \ {row}, req.skip /\ ~latest))

PageRead == Walk \/ OpenHistory \/ HistoryRow \/ AskColors \/ OpenColors \/ ColorRow

-----------------------------------------------------------------------------
(* Properties                                                               *)

ListedIds == {req.listed[i].id : i \in DOMAIN req.listed}

\* The transaction or color of a row was seen again in a block indexed since.
Again(rows, id) == RowsWith(rows, id) # {}

\* The client went on from this one.
Cursors == {req.listed[i].id : i \in {i \in DOMAIN req.listed : i % PageSize = 0}}

\* Nothing is listed twice, and newest first, unless a cursor moved up.
NewestFirst(rows) ==
  (\A id \in Cursors : ~Again(rows, id)) =>
     \A i, j \in DOMAIN req.listed : i < j => Below(req.listed[j], req.listed[i])
                                             /\ req.listed[j].id # req.listed[i].id

(* A client that has read a history to its end has seen every transaction   *)
(* that stayed confirmed where it was (the row of an orphan may still give  *)
(* it a higher place), whatever was indexed or given up between two pages   *)
(* or two lookups of a page, unless it came up again meanwhile; nothing     *)
(* twice unless a page continued from a transaction that came up again.     *)
HistoryPages ==
  req.kind = "txs" =>
    LET again == UNION {RowsOf(b) : b \in fresh} IN
    /\ Answered => \A b \in Ancestors(came) \ left : \A x \in TxsOf[b] :
         TagsOf[x] # {} /\ ~Again(again, x) => x \in ListedIds
    /\ NewestFirst(again)

(* A client that has read the colors to their end has seen every color with *)
(* a row, up to the height of the first page, unless it was used again      *)
(* meanwhile, or a page continued from one that was used again (the page    *)
(* then skips a color in its place: the height of the last color seen and   *)
(* the rows are read in two steps); nothing twice unless that happened.     *)
ColorPages ==
  req.kind = "colors" =>
    LET again == UNION {ColorRowsOf(b) : b \in fresh}
        old   == UNION {ColorRowsOf(b) : b \in indexed \ fresh}
    IN /\ Answered => \A r \in old :
            ~Again(again, r.id) /\ r = Top(RowsWith(old, r.id)) /\ r.height <= req.top =>
              r.id \in ListedIds \/ \E id \in Cursors : Again(again, id)
       /\ NewestFirst(again)
=============================================================================
