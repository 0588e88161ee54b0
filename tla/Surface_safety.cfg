SPECIFICATION Spec
CONSTANTS
  None = None
  Pairs = {p1, p2}
  Anonymous = {}
  MaxTheme = 1
  Timing <- MCTiming
  Animated = {1}
  Overrides <- MCOverrides
  Preempts = {TRUE, FALSE}
  FRAME = 2
  ELEMENT_INTERVAL = 4
  ChanCap = 2
  MaxSends = 3
SYMMETRY PairSymmetry
INVARIANT IdleIsQuiet
INVARIANT DrawsOnlyOnConfiguredLayer
INVARIANT FrameOwedWhenWithheld
INVARIANT SleepsOnFinishedPicture
PROPERTY FramesKeepTime
PROPERTY NeverCutShort
