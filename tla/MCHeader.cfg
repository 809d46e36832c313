SPECIFICATION Spec
CONSTANTS
  Kinds <- MCKinds
  Documents <- MCDocuments
  Inks = {"x", "y"}
  Blank = "blank"
  None = None
  MaxDepth = 3
  MaxElements = 6
  MaxAttributes = 7
INVARIANTS
  OneTree
  ReferencesAreUnambiguous
  BudgetsHold
  DataIsPromoted
  SingleDataDescribesBlock
