---------------------------- MODULE FeeHistogram ----------------------------
(***************************************************************************)
(* The histogram of fee rates in the mempool, src/src/util/fees.rs.  A     *)
(* transaction is a record of its rate and its size.                       *)
(***************************************************************************)
EXTENDS Integers, Sequences, SequencesExt, FiniteSetsExt

CONSTANT VsizeBinWidth   \* VSIZE_BIN_WIDTH

ASSUME BinWidthAssumption == VsizeBinWidth \in Nat

Empty == [bins |-> <<>>, binSize |-> 0, lastFeeRate |-> 0]

\* A bin may end between two transactions of the same rate.
Full_SplitsRates(h, e) == h.binSize > VsizeBinWidth

\* Whether a bin ends before this transaction.
Full(h, e) == h.binSize > VsizeBinWidth /\ h.lastFeeRate # e.rate

\* One turn of the loop.
AddEntry(h, e) ==
  [bins        |-> IF Full(h, e) THEN Append(h.bins, [rate |-> h.lastFeeRate, vsize |-> h.binSize])
                   ELSE h.bins,
   binSize     |-> (IF Full(h, e) THEN 0 ELSE h.binSize) + e.vsize,
   lastFeeRate |-> e.rate]

\* make_fee_histogram(): from the highest rate to the lowest.
FeeHistogram(entries) ==
  LET end == FoldLeft(AddEntry, Empty, SortSeq(entries, LAMBDA d, e : d.rate > e.rate))
  IN IF end.binSize > 0 THEN Append(end.bins, [rate |-> end.lastFeeRate, vsize |-> end.binSize])
     ELSE end.bins

\* What the transactions that pay less than one rate, and at least another, weigh.
VsizeBetween(entries, low, below) ==
  MapThenSumSet(LAMBDA i : entries[i].vsize,
                {i \in DOMAIN entries : low <= entries[i].rate /\ entries[i].rate < below})
=============================================================================
