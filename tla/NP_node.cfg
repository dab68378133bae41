SPECIFICATION FairSpec
CONSTANTS
  Settings <- AllSettings
  MaxInterrupts = 2
INVARIANTS
  OutcomeFits
  SuccessIsEarned
  ToolEndsWithNode
PROPERTIES
  TimedNodeEnds
