SPECIFICATION Spec
CONSTANTS
  None = None
  Word = Word
  MaxWord = 1000
  NaN = NaN
  Inf = Inf
  One = 100
  White <- MCWhite
  ByteBits = 1
  FirstBlock = 40
  Empty = Empty
  Spelling <- MCSpelling
  Pendings <- MCPendings
  GivenTables <- MCTables
  GivenProperties <- MCProperties
  Names <- MCNames
  Edits <- MCEdits
  Creator = "xisf-rs"
  Time = "now"
  MaxImages = 2
  MaxOthers = 1
  MaxEdited = 1
INVARIANTS
  ReadBackAsGiven
  WrittenAgainAsRead
CHECK_DEADLOCK FALSE
