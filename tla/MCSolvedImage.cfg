SPECIFICATION Spec
CONSTANTS
  None = None
  Word = Word
  MaxWord = 1000
  NaN = NaN
  Inf = Inf
  One = 100
  White <- MCWhite
  ByteBits = 1
  Misread = 0
  WeightUnit = 32
  Originals <- MCOriginals
  Texts <- MCTexts
  Lists <- MCLists
  Points <- MCPoints
  Alterations <- MCAlterations
INVARIANTS
  LowerLayersStand
  TermsAreWhole
  FallbackCoversTheField
CHECK_DEADLOCK FALSE
