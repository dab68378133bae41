SPECIFICATION Spec
CONSTANTS
  N = 4
  In <- Diamond
  Settings = {"a", "b", "s", "r"}
  SetupSkips = {"s"}
  RunSkips = {"r"}
  Fixed = {"s", "r"}
  Starts <- OneSkipped
  Tops = {"t", "u"}
  Views <- WholeOrFrom
INVARIANTS
  TypeOK
  UpToDate
  FromIsRerun
  DownstreamPending
PROPERTY NoNeedlessRerun
