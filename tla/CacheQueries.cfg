CONSTANTS
  g = g
  a1 = a1
  a2 = a2
  b1 = b1
  b2 = b2
  b3 = b3
  NoBlock = NoBlock
  Txs <- AllTxs
  Outs <- AllOuts
  Creates <- TxCreates
  Spends <- TxSpends
  ColorOf <- OutColor
  Colors <- TwoColors
  Color = 0
  ColorActs <- TxActs
  UtxosLimit = 3
  MinItems = 1
  Queries = {q1, q2}
  Kinds = {"utxo", "stats", "colored"}
  Blocks <- Tree
  ChainOf <- Chains
  TxsOf <- Confirmed
SYMMETRY Symmetry
CONSTRAINT StatsUntilUpset
SPECIFICATION Spec
INVARIANTS
  UtxoCalm
  ColoredCalm
  StatsCalm
  NoUtxoPanic
