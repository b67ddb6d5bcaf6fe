SPECIFICATION Spec
CONSTANTS
  Ids = {i1, i2, i3}
  Requests = {r1, r2}
  NoTask = NoTask
  Forms <- ProjectForms
  Marks <- Nothing
  Overrides <- BackwardTimes
  Schedules <- ProjectSchedules
  DayLength = 6
  Hour = 2
  Pause = 1
  Week = 3
  Horizon = 5
  Limit = 1
SYMMETRY Symmetry
INVARIANTS
  TypeOK
  RightDates
  
