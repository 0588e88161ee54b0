SPECIFICATION FairSpec
CONSTANTS
  Names = {n1, n2}
  Known = {n1}
  Explicit <- MCExplicit
  Backoff <- MCBackoff
  GRACE = 1
  None = None
  MaxSpawns = 3
INVARIANT PolicyObeyed
PROPERTY OnlySpawnAllLosesProcesses
PROPERTY NoTightLoop
PROPERTY RunsAgain
CHECK_DEADLOCK FALSE
