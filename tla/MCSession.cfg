SPECIFICATION Spec
CONSTANTS
  None = None
  Preamble = 16
  MaxWord = 1000
  Disk <- MCDisk
  Root <- MCRoot
  Web <- MCWeb
  Files <- MCFiles
  SampleTypes = {"UInt8", "UInt16"}
  Ids = {"v", "s", "w"}
  CommandLines <- MCCommandLines
  Threads = {t1, t2}
  CFiles <- MCCFiles
  Capacities = {0, 3, 4, 9}
INVARIANTS
  TypeOK
  ServedFromItsPlace
  VerifyAgreesWithRead
  ApisAgree
  HandlesStay
  CleanExitMeansVerified
