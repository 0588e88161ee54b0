SPECIFICATION FairSpec
CONSTANTS
  None = None
  Pairs = {p1, p2}
  Anonymous = {anon}
  MaxTheme = 1
  Timing <- MCTiming
  Animated = {}
  Overrides <- NoOverrides
  Preempts = {TRUE, FALSE}
  FRAME = 1
  ELEMENT_INTERVAL = 2
  ChanCap = 2
  MaxSends = 2
PROPERTY EveryCycleEnds
PROPERTY NewestIsDisplayed
PROPERTY ImplementsDisplay
