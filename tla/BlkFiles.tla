------------------------------ MODULE BlkFiles -------------------------------
(***************************************************************************)
(* Blocks read from tapyrusd's blk*.dat files in the first update,         *)
(* src/src/new_index/fetch.rs: the scan of a file for blocks and the       *)
(* choice of the blocks that are new.  A file is a sequence of words; a    *)
(* block is written as the magic, its size and its body.  After four bytes *)
(* that are not the magic the code goes on by one byte, this by one word.  *)
(*                                                                         *)
(* A stage that panics takes those before and after it with it, so that a  *)
(* panic anywhere ends the update.                                         *)
(***************************************************************************)
EXTENDS Integers, Sequences, SequencesExt

CONSTANTS
  Magic,   \* the word that blocks begin with
  Body     \* block -> the words it is written as

ASSUME BodyAssumption ==
  \A b \in DOMAIN Body : /\ Body[b] # <<>> /\ Body[b][1] # Magic
                         /\ \A c \in DOMAIN Body \ {b} : Body[c] # Body[b]

Parsed(blocks) == [ends |-> "returns", blocks |-> blocks]
ParsePanics    == [ends |-> "panics", blocks |-> <<>>]

\* deserialize() fails for what is not a block.
Prepend(words, parsed) ==
  IF parsed.ends = "panics" \/ \A b \in DOMAIN Body : Body[b] # words THEN ParsePanics
  ELSE Parsed(<<CHOOSE b \in DOMAIN Body : Body[b] = words>> \o parsed.blocks)

\* The words after the size are always taken for the body.
Unwritten_Never(word) == FALSE

\* "If Core's WriteBlockToDisk ftell fails, only the magic byte and size will be written"
Unwritten(word) == word = Magic

\* parse_blocks(): what is found from a position on
ParseBlocks(blob) ==
  LET from[pos \in 1 .. Len(blob) + 1] ==
        LET start == pos + 2
            end   == start + blob[pos + 1]
        IN IF pos > Len(blob) THEN Parsed(<<>>)
           ELSE IF blob[pos] # Magic THEN from[pos + 1]
           ELSE IF start > Len(blob) THEN ParsePanics   \* "no block size", or no word after it
           ELSE IF Unwritten(blob[start]) THEN from[start]
           ELSE IF end > Len(blob) + 1 THEN ParsePanics
           ELSE Prepend(SubSeq(blob, start, end - 1), from[end])
  IN from[1]

\* entry_map.remove(): a block that is not new, or was found before, is skipped.
Choose(found, blocks) ==
  FoldLeft(LAMBDA f, b : IF b \in f.missing THEN [batch |-> Append(f.batch, b), missing |-> f.missing \ {b}] ELSE f,
           [batch |-> <<>>, missing |-> found.missing], blocks)

\* blkfiles_fetcher(): a batch for each file; new blocks that are in no file panic.
FetchFiles(files, newHeaders) ==
  LET step(found, blob) ==
        LET chosen == Choose(found, ParseBlocks(blob).blocks)
        IN [ends |-> IF ParseBlocks(blob).ends = "panics" THEN "panics" ELSE found.ends,
            batches |-> Append(found.batches, chosen.batch), missing |-> chosen.missing]
      end == FoldLeft(step, [ends |-> "returns", batches |-> <<>>, missing |-> newHeaders], files)
  IN [ends |-> IF end.missing # {} THEN "panics" ELSE end.ends, batches |-> end.batches]
=============================================================================
