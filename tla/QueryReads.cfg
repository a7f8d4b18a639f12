CONSTANTS
  old = old
  pay = pay
  child = child
  Txs <- AllTxs
  Outs <- AllOuts
  Creator <- OutCreator
  Spends <- TxSpends
  OldTxs = {old}
  Handlers = {}
  Own = {"coin", "paid", "change"}
  Marked = {pay, child}
SPECIFICATION QuerySpec
VIEW WhatMatters
INVARIANTS
  TxsMissesNothing
  WrongOnlyIfLate
  CurrentExact
  PrevoutsFound
