SPECIFICATION Spec
CONSTANTS
  a = a
  b = b
  n1 = n1
  Main = "run"
  Worker = {"node"}
  Caller = {a, b, n1}
  Owner <- TwoThreadsAndANode
  Dir = {"d1", "d2"}
  Asks <- OneUsesBothNames
  MaxAttempts = 1
  Setups <- GitAndHttps
  NoDir = "none"
  NoOne = "free"
  Ghost = "ghost"
INVARIANTS
  OneFetchPerDirectory
  ServedIsComplete
  BudgetBound
  LocksHaveHolders
PROPERTIES
  CompleteIsKept
  GivenUpIsFinal
