SPECIFICATION Spec
CONSTANTS
  Listeners = {l}
  Tools = {t}
  ToolLines = {"query", "blank", "binary", "huge"}
  l = l
  t = t
  MaxConns = 2
  MaxConnections = 1
  MaxEvents <- MCMaxEvents
  MaxStarts = 2
INVARIANT AtMostOnce
INVARIANT OkMeansRun
INVARIANT PermitsAgree
PROPERTY NothingSentLate
PROPERTY PermitsReturn
CHECK_DEADLOCK FALSE
