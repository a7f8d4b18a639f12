CONSTANTS
  g = g
  a1 = a1
  a2 = a2
  b1 = b1
  b2 = b2
  b3 = b3
  NoBlock = NoBlock
  Txs <- AllTxs
  Outs <- AllOuts
  Creates <- TxCreates
  Spends <- TxSpends
  ColorOf <- SameColor
  Colors <- OneColor
  Color = 0
  ColorActs <- TxActs
  UtxosLimit = 3
  MinItems = 1
  Queries = {q1}
  Kinds = {"stats"}
  Blocks <- Tree
  ChainOf <- Chains
  TxsOf <- Confirmed
SPECIFICATION Spec
INVARIANT StatsRecomputed
