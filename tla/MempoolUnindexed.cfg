CONSTANTS
  old = old
  pay = pay
  rival = rival
  child = child
  Txs <- AllTxs
  Outs <- AllOuts
  Creator <- OutCreator
  Spends <- TxSpends
  OldTxs = {old}
  Handlers = {h1}
SPECIFICATION Spec
INVARIANT SpentInPoolHidden
