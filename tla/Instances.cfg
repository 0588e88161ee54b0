SPECIFICATION Spec
CONSTANTS
  Daemons = {d1, d2}
  MaxStarts = 2
  MaxEdits = 2
  MaxPersists = 1
  BadEdits = TRUE
PROPERTY LoneStartsSucceed
PROPERTY LiveSocketsSurvive
PROPERTY DaemonsKeepEdits
CHECK_DEADLOCK FALSE
