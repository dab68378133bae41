SPECIFICATION Spec
CONSTANTS
  N = 4
  StepOf <- StepNames
  Views <- AllViews
  Priors = {"success", "pending"}
  Results = {"success", "skipped"}
INVARIANTS
  ViewIsBetween
  StartingAtIsDownstream
  InputsAreNearest
  FoundInputsSettled
\* A run ends when every node has settled or waits for one outside of the view.
CHECK_DEADLOCK FALSE
