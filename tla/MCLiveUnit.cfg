SPECIFICATION LiveSpec
CONSTANTS
  Files <- MCFiles
  FileLen <- MCFileLen
  U64 <- MCU64
  ChainOf <- MCChainOf
  Half <- NarrowHalf
  Signature <- Sig
  MaxNodes = 3
  Growths <- MCGrowths
  MaxChanges = 2
  Ids = {1, 2}
  NoIndex = NoIndex
  Missing = Missing
  NotRegular = NotRegular
INVARIANTS
  LiveTypeOK
  GrowthUndisturbed
  BlockOfOneVersion
  NotFoundIsTrue
  BoundedUnderChange
PROPERTIES
  CallEnds
