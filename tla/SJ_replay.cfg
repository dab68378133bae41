SPECIFICATION Spec
CONSTANTS
  a = a
  b = b
  i1 = i1
  i2 = i2
  Global = Global
  Unset = Unset
  Order <- TwoNodes
  Items <- TwoItems
  Setups <- SomeSetups
  MaxCalls = 2
  MaxRuns = 3
INVARIANTS TypeOK OwnValuesArrive AddsArrive
PROPERTY RunsStartAfresh
