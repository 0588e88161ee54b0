SPECIFICATION Spec
CONSTANTS
  Kinds = {"backlight", "keyboard", "profile"}
  Devices = {1, 2}
  Levels = {0, 1}
  MaxLevel = 3
  PollInterval = 2
  MaxChanges = 3
  MaxLineBytes = 2
  MaxWritten = 5
  Batteries = {1, 2}
  Weight <- MCWeight
  Capacities = {4, 21}
  Statuses = {"charging", "discharging", "unknown"}
  States = {"charging", "discharging"}
  AlertBands = {"empty", "caution"}
  BurstDuration = 1
  RescanInterval = 2
  MaxReports = 2
  Ids = {1}
  Classes = {"Audio/Sink", "Stream/Input/Audio", "Video/Source"}
  Names = {"a", "b"}
  Volumes = {"soft", "loud"}
  Options <- MCOptions
  MaxEvents = 4
INVARIANT SettledIsShown
INVARIANT EventsAreLines
INVARIANT BatteryAgrees
INVARIANT VolumesAgree
CHECK_DEADLOCK FALSE
