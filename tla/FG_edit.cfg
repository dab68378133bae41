SPECIFICATION Spec
CONSTANTS
  Name <- Names
  Subflows <- Instantiable
  MaxNodes = 3
  MaxRepeat = 2
INVARIANTS
  OrderIsTopological
PROPERTIES
  EditsKeepSoundness
  EditsKeepDependencies
