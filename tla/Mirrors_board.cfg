\* Seven budgets: at most two polled events of one field or one and a report of the camera, two
\* connections, two changes or commands, one loss of the broker and two event streams.
SPECIFICATION MirrorsSpec
CONSTANTS
  Fields = {"motion"}
  Reports = {TRUE, FALSE}
  ReportLimit = 1
  TimerLimit = 2
  Budgets <- MCBudgets
  Settings = {"sleep_mode", "night_light_on"}
  Payloads = {"true", "0", "junk"}
  EventCap = 1
INVARIANT FlagIsTimed PageShowsBoard
PROPERTY MotionEnds SettingIsShown
CHECK_DEADLOCK FALSE
