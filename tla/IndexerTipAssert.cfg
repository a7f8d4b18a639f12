SPECIFICATION Spec
CONSTANTS
  g = g
  a1 = a1
  a2 = a2
  b1 = b1
  b2 = b2
  b3 = b3
  NoBlock = NoBlock
  Blocks <- Tree
  ChainOf <- Chains
  FetchBatch = 2
  JsonRpcImport = TRUE
  CanRollBack = TRUE
  MaxCrashes = 1
INVARIANT
  TipAsserted
