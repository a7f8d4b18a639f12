----------------------------- MODULE OpenAssets -----------------------------
(***************************************************************************)
(* The order-based coloring of src/src/open_assets/mod.rs.  An input is    *)
(* the asset it holds, or NoAsset, and its units; metadata is left out.    *)
(***************************************************************************)
EXTENDS Integers, Sequences, SequencesExt

CONSTANT NoAsset

Colored(asset, quantity) == [asset |-> asset, units |-> quantity]
Uncolored == Colored(NoAsset, 0)

\* compute_assets() returns the colored outputs, fails in an assertion or the panic!,
\* or looks for units after the last input for ever.
Returns(result) == [ends |-> "returns", result |-> result]
Panics          == [ends |-> "panics", result |-> <<>>]
Endless         == [ends |-> "never", result |-> <<>>]

\* What is left of an input is not looked at.
Progress_Whole(left, needs) == needs

\* The units that go from an input to an output.
Progress(left, needs) == IF left < needs THEN left ELSE needs

\* One turn of the loop for an output: how many inputs were taken, the units left of
\* the last of them, the units and the asset of the output.
Take(inputs, s) ==
  LET taken == IF s.left = 0 THEN s.taken + 1 ELSE s.taken
      left  == IF s.left = 0 THEN inputs[taken].units ELSE s.left
      asset == inputs[taken].asset
      progress == Progress(left, s.needs)
  IN [taken |-> taken, left |-> left - progress, needs |-> s.needs - progress,
      asset |-> IF asset = NoAsset THEN s.asset ELSE asset,
      mixed |-> NoAsset \notin {s.asset, asset} /\ s.asset # asset]

\* The turns for one output; each but the first takes an input.
Fill(inputs, taken, left, quantity) ==
  LET at[turn \in Nat] ==
        IF turn = 0 THEN [taken |-> taken, left |-> left, needs |-> quantity,
                          asset |-> NoAsset, mixed |-> FALSE]
        ELSE LET s == at[turn - 1]
             IN IF s.needs = 0 \/ s.mixed \/ (s.left = 0 /\ s.taken = Len(inputs)) THEN s
                ELSE Take(inputs, s)
  IN at[Len(inputs) + 1]

\* The outputs after the marker, up to the last quantity; the marker has none.
Transfer(inputs, quantities, marker) ==
  LET after[i \in Nat] ==
        IF i <= marker THEN [taken |-> 0, left |-> 0] @@ Returns(<<>>)
        ELSE LET before == after[i - 1]
                 s == Fill(inputs, before.taken, before.left, quantities[i])
             IN IF before.ends # "returns" THEN before
                ELSE [taken |-> s.taken, left |-> s.left]
                     @@ (IF s.mixed THEN Panics
                         ELSE IF s.needs > 0 THEN Endless
                         ELSE Returns(Append(before.result, Colored(s.asset, quantities[i]))))
  IN after[Len(quantities)]

\* compute_assets(): the issued outputs, the marker (its index starts at 0), the
\* transferred outputs and the rest.
ComputeAssets(inputs, mint, quantities, marker, outputs) ==
  LET issued == [i \in 1 .. marker |-> IF i <= Len(quantities) /\ quantities[i] > 0
                                       THEN Colored(mint, quantities[i]) ELSE Uncolored]
      transfer == Transfer(inputs, quantities, marker)
      rest == [i \in 1 .. outputs - (Len(quantities) + 1) |-> Uncolored]
  IN IF Len(quantities) > outputs - 1 \/ inputs = <<>> THEN Panics
     ELSE IF transfer.ends # "returns" THEN [ends |-> transfer.ends, result |-> <<>>]
     ELSE Returns(issued \o <<Uncolored>> \o transfer.result \o rest)

-----------------------------------------------------------------------------
(* The order-based coloring: the units of all inputs stand in a row, and each    *)
(* transfer output takes as many as it needs from where the one before stopped.  *)

Units(inputs) == FlattenSeq([i \in DOMAIN inputs |-> [u \in 1 .. inputs[i].units |-> inputs[i].asset]])

Needed(quantities, from, to) == FoldLeft(+, 0, SubSeq(quantities, from, to))

\* The assets of the units that the output with the k-th quantity gets.
Share(inputs, quantities, marker, k) ==
  LET units == Units(inputs)
      start == Needed(quantities, marker + 1, k - 1)
  IN {units[u] : u \in DOMAIN units \cap (start + 1 .. start + quantities[k])}

Enough(inputs, quantities, marker) ==
  Needed(quantities, marker + 1, Len(quantities)) <= Len(Units(inputs))
=============================================================================
