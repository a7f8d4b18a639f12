CONSTANTS
  g = g
  a1 = a1
  a2 = a2
  b1 = b1
  b2 = b2
  NoBlock = NoBlock
  Txs <- AllTxs
  Blocks <- Tree
  ChainOf <- Chains
  TxsOf <- Confirms
  BLOCK_LIMIT = 2
  CONF_FINAL = 2
  MaxHeight = 2
  MaxCount = 3
  Colors <- AllColors
  ColorsOf <- TxColors
  TagsOf <- TwoTags
  PageSize = 1
SPECIFICATION Spec
INVARIANTS
  FoundUnlessLeft
  HeadersInLine
  ProofOfOneChain
  LongTtlFinal
  HistoryPages
  ColorPages
