SPECIFICATION FairSpec
CONSTANTS
  N = 3
  MaxCores = 3
  MaxNodes = 2
  Flows <- AllFlows
  Halters = {"run", "halt_all"}
INVARIANTS
  StartedNodesSettle
  UnstartedHasCause
  LocalParallelBound
  LocalThreadBound
  BreakpointIsolated
  NoProcessOutlivesRun
PROPERTIES
  OutcomeIsFinal
  ImplementsDag
  RunReturns
