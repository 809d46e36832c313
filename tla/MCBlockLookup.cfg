SPECIFICATION Spec
CONSTANTS
  Files <- MCFiles
  FileLen <- MCFileLen
  U64 <- MCU64
  ChainOf <- MCChainOf
  Half <- NarrowHalf
  Signature <- Sig
  Unaligned = 100000
  MaxNodes = 3
  Ids = {1, 2}
  NoIndex = NoIndex
  Missing = Missing
  NotRegular = NotRegular
INVARIANTS
  TypeOK
  WalkBounded
  NodesInside
  RemoteBlockIsLocalBlock
PROPERTIES
  LocalKeepsPromise
  RemoteKeepsPromise
  LookupsEnd
