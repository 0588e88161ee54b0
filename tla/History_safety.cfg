SPECIFICATION Spec
CONSTANTS
  Sources = {1, 2}
  Events = {1, 2}
  Listeners = {l1, l2}
  SourceLen <- MCSourceLen
  EventLen <- MCEventLen
  ListenerLen <- MCListenerLen
  NoListener = NoListener
  Values = {v1}
  TTL = 2
  MaxEntries = 3
  MaxBytes = 10
  MaxTime = 4
INVARIANT IndexesAgree
INVARIANT WithinLimits
PROPERTY EvictsOldestForRoom
PROPERTY WarnsWhenASourceJoins
PROPERTY ReadersAgree
