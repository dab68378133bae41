SPECIFICATION Spec
CONSTANTS
  Name <- Names
  Subflows <- Instantiable
  MaxNodes = 3
  MaxRepeat = 1
INVARIANT ValidHasOrder
