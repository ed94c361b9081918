SPECIFICATION FairSpec
CONSTANTS
  BUF_SIZE = 2
  DevSize = 7
  MaxImage = 8
  Old = Old
INVARIANTS
  TypeOK
  SuccessIsDurableImage
  FailureHasCause
  CancelStopsWriting
  NeverBothParked
  WorkerSettled
PROPERTIES
  CopySpec
  Terminates
