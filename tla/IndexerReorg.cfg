SPECIFICATION Spec
CONSTANTS
  g = g
  a1 = a1
  a2 = a2
  b1 = b1
  b2 = b2
  b3 = b3
  NoBlock = NoBlock
  Blocks <- Tree3
  ChainOf <- Chains3
  FetchBatch = 2
  JsonRpcImport = FALSE
  CanRollBack = FALSE
  MaxCrashes = 2
INVARIANTS
  TipDurable
  ServedComplete
  HeaderListCoherent
  NoIndexPanic
PROPERTIES
  ImplementsChainIndex
  CatchesUp
