SPECIFICATION FairSpec
CONSTANTS
  None = None
  Broken = Broken
  Clients = {c1, c2}
  Reloader = reloader
  Names = {a}
  Embedded = embedded
  Palettes = {}
  Start = a
  StartsBroken <- MCStartsBroken
  Headless = {FALSE}
  Pairs = {p1}
  Anonymous = {}
  ChanCap = 1
  MaxSends = 1
  MaxChanges = 2
  MaxEdits = 2
CHECK_DEADLOCK FALSE
PROPERTY SignalsAreHonoured
PROPERTY ChangesComplete
