SPECIFICATION Spec
CONSTANTS
  BUF_SIZE = 2
  DevSize = 7
  MaxImage = 8
  Old = Old
INVARIANTS
  SuccessIsDurableImage
PROPERTIES
  CopySpec
