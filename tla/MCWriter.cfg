SPECIFICATION Spec
CONSTANTS
  Pendings <- MCPendings
  NoId = "none"
  None = None
  HeaderLen <- MCHeaderLen
  MaxHeader = 96
  CodecLimit = 1000
  PlainNames = {"a.xisb"}
  OddNames = {"a/b"}
  CallerBlocks <- MCCallerBlocks
  MaxImages = 2
  FixedText = 73
INVARIANTS
  TypeOK
  AttachmentsPointAtTheirBlocks
  EveryBlockIsWritten
  WrittenIndexIsWellFormed
  IdentifiersNameTheirBlocks
PROPERTIES
  OnlyOutward
  CallReturns
