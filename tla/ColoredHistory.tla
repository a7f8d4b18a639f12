--------------------------- MODULE ColoredHistory ---------------------------
(***************************************************************************)
(* What transactions do to a color: the histories and statistics of        *)
(* src/src/new_index/color.rs and update_colored_stats() of schema.rs.     *)
(* An output is a record of its color, or NoColor, and its value.          *)
(***************************************************************************)
EXTENDS Integers, Sequences, SequencesExt, FiniteSetsExt

CONSTANTS Colors, NoColor

ASSUME ColorAssumption == NoColor \notin Colors

Info(kind, value) == [kind |-> kind, value |-> value]

\* What was there before is not counted as transferred.
CreateHistoryInfo_IssueAll(prevAmount, amount) ==
  IF amount > prevAmount THEN {Info("issuing", amount)}
  ELSE IF amount = prevAmount THEN {Info("transferring", amount)}
  ELSE {Info("burning", prevAmount - amount)}
       \cup (IF amount > 0 THEN {Info("transferring", amount)} ELSE {})

\* create_history_info(): of one color in one transaction
CreateHistoryInfo(prevAmount, amount) ==
  IF amount > prevAmount
  THEN {Info("issuing", amount - prevAmount)}
       \cup (IF prevAmount > 0 THEN {Info("transferring", prevAmount)} ELSE {})
  ELSE IF amount = prevAmount THEN {Info("transferring", amount)}
  ELSE {Info("burning", prevAmount - amount)}
       \cup (IF amount > 0 THEN {Info("transferring", amount)} ELSE {})

\* get_amounts(): the values of the outputs of each color
Amounts(outs) ==
  [c \in {outs[i].color : i \in DOMAIN outs} \ {NoColor} |->
     MapThenSumSet(LAMBDA i : outs[i].value, {i \in DOMAIN outs : outs[i].color = c})]

\* colored_tx_history(): of a transaction with these prevouts and outputs
ColoredTxHistory(prevouts, outs) ==
  LET previous == Amounts(prevouts)
      current  == Amounts(outs)
      amount(amounts, c) == IF c \in DOMAIN amounts THEN amounts[c] ELSE 0
  IN UNION {{c} \X CreateHistoryInfo(amount(previous, c), amount(current, c)) :
              c \in DOMAIN previous \cup DOMAIN current}

\* ColoredStats::new()
NoStats == [tx_count |-> 0, issued_tx_count |-> 0, transferred_tx_count |-> 0, burned_tx_count |-> 0,
            issued_sum |-> 0, transferred_sum |-> 0, burned_sum |-> 0]

Count(stats, info) ==
  CASE info.kind = "issuing" ->
         [stats EXCEPT !.issued_tx_count = @ + 1, !.issued_sum = @ + info.value]
    [] info.kind = "transferring" ->
         [stats EXCEPT !.transferred_tx_count = @ + 1, !.transferred_sum = @ + info.value]
    [] info.kind = "burning" ->
         [stats EXCEPT !.burned_tx_count = @ + 1, !.burned_sum = @ + info.value]

\* update_colored_stats(): a row has the height of its block, its transaction and info.
UpdateColoredStats(stats, rows) ==
  LET step(s, row) ==
        LET seen == IF row.height = s.lastblock THEN s.seen ELSE {}
        IN [stats |-> Count(IF row.tx \in seen THEN s.stats ELSE [s.stats EXCEPT !.tx_count = @ + 1],
                            row.info),
            seen |-> seen \cup {row.tx}, lastblock |-> row.height]
  IN FoldLeft(step, [stats |-> stats, seen |-> {}, lastblock |-> -1], rows).stats

\* The order of the keys of colored history rows.
RowBefore(r, s) ==
  LET rank(row) == CASE row.info.kind = "issuing" -> 0
                     [] row.info.kind = "transferring" -> 1
                     [] row.info.kind = "burning" -> 2
  IN \/ r.height < s.height
     \/ r.height = s.height /\ rank(r) < rank(s)
     \/ r.height = s.height /\ rank(r) = rank(s) /\ r.tx < s.tx
=============================================================================
