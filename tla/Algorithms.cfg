CONSTANTS
  MaxHashes = 9
  MaxEntries = 4
  MaxAssets = 6
  MaxTxs = 3
  VsizeBinWidth = 3
  NoAsset = NoAsset
  Colors = {red, blue}
  NoColor = NoColor
  MaxRows = 3
  Inner <- InnerOf
  NoScript = NoScript
  Unspendable = {"return"}
  VoutLimit = 3
  MaxWrites = 5
  Magic = 9
  Body <- Bodies
SPECIFICATION Spec
CHECK_DEADLOCK FALSE
INVARIANTS
  BranchesProve
  HistogramPartitions
  OrderBased
  Balanced
  RowsTellChain
  FilesGiveBlocks
