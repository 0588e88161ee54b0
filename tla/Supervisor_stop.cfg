SPECIFICATION FairSpec
CONSTANTS
  Names = {n1, n2}
  Known = {n1}
  Explicit <- MCExplicit
  Backoff <- MCBackoff
  GRACE = 1
  None = None
  MaxSpawns = 3
PROPERTY TerminationStopsListeners
CHECK_DEADLOCK FALSE
