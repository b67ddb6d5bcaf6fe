SPECIFICATION Spec
CONSTANTS
  WeekDays = 2
  MonthDays <- ShortMonths
  Requests = {r1, r2}
  Readers = {r1}
  Names = {"fajr", "witr"}
  Prayers <- OnePrayer
  Offered = {"fajr"}
  Dates = {3, 4}
  Sent = {"prayed", "missed", "unsure"}
  Todays = {3}
  Filters = {"week", "month"}
  Ids = {i1, i2}
  MaxMarks = 2
  Nothing = Nothing
SYMMETRY IdSymmetry
INVARIANTS
  TypeOK
  DayAgrees
  CountsFit
  CountsAddUp
PROPERTY
  FollowsBook
CHECK_DEADLOCK FALSE
