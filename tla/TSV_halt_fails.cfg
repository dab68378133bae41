SPECIFICATION Spec
CONSTANTS
  N = 3
  MaxCores = 2
  MaxNodes = 0
  Flows <- HaltFlows
  Halters = {"run", "halt_all"}
INVARIANT HaltAllReturns
