SPECIFICATION Spec
CONSTANTS
  Ids = {i1, i2, i3}
  Requests = {r1, r2}
  NoTask = NoTask
  Forms <- TaskForms
  Marks = {TRUE}
  Overrides <- Nothing
  Schedules <- Nothing
  DayLength = 6
  Hour = 2
  Pause = 1
  Week = 7
  Horizon = 1
  Limit = 1
SYMMETRY Symmetry
INVARIANTS
  BreaksOfTasks
  DailyLimit
  TidyBreaks
  HistoryAgrees
