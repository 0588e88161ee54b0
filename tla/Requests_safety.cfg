SPECIFICATION Spec
CONSTANTS
  None = None
  Broken = Broken
  Clients = {c1, c2}
  Reloader = reloader
  Names = {a}
  Embedded = embedded
  Palettes = {q}
  Start = a
  StartsBroken <- MCStartsBroken
  Headless = {TRUE, FALSE}
  Pairs = {p1, p2}
  Anonymous = {}
  ChanCap = 2
  MaxSends = 2
  MaxChanges = 2
  MaxEdits = 1
SYMMETRY Symmetry
CHECK_DEADLOCK FALSE
INVARIANT PublishedAsQueued
INVARIANT StartsFromPrevious
INVARIANT ThemeInForce
PROPERTY ChangesCompose
