SPECIFICATION FairSpec
CONSTANTS
  BUF_SIZE = 2
  DevSize = 5
  MaxImage = 6
  Old = Old
INVARIANTS
  TypeOK
  PassIsFullCompare
  FailureHasCause
  CancelStopsReading
  WorkerSettled
PROPERTIES
  CompareSpec
  Terminates
