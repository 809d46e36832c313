SPECIFICATION Spec
CONSTANTS
  MaxLen = 6
  Items = {0, 1, 2, 3}
  Ratio = 2
  Floor = 2
  InputLimit = 5
  None = None
INVARIANTS
  RoundTrip
  NoSilentCorruption
  DamageDetected
  OutputBounded
