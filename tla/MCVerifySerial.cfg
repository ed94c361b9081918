SPECIFICATION Spec
CONSTANTS
  BUF_SIZE = 2
  DevSize = 5
  MaxImage = 6
  Old = Old
PROPERTIES
  CompareSpec
