SPECIFICATION Spec
CONSTANTS
  N = 3
  In <- Chain
  Settings = {"a", "b"}
  SetupSkips = {}
  RunSkips = {}
  Fixed = {}
  Starts <- AnySettings
  Tops = {"t"}
  Views <- WholeOrOne
INVARIANT UpToDate
