---------------------------- MODULE MCPrayerLog ----------------------------
(* An instance of PrayerLog for TLC, and the calendar on real years. *)
EXTENDS PrayerLog, TLC

IdSymmetry == Permutations(Ids)

\* A week of two days, a year of two months: day 3 is in its December.
ShortMonths == <<2, 3>>

OnePrayer == <<"fajr">>

\* Twelve months and weeks of seven days, over three years.
RealMonths == <<31, 28, 31, 30, 31, 30, 31, 31, 30, 31, 30, 31>>

Real == INSTANCE Calendar WITH WeekDays <- 7, MonthDays <- RealMonths

\* The ranges of the statistics are the week and the month of the day.
ASSUME \A today \in 400 .. 800, filter \in {"week", "month"} :
  Real!DateRange(filter, today)
    = {d \in today - 40 .. today + 40 : Real!SamePeriod(filter, today, d)}

\* The six weeks of a month's page begin with a Monday and have all its days;
\* the links to the next and to the previous page undo each other.
ASSUME \A year \in 1 .. 7, month \in 1 .. 12 :
  LET grid == Real!Grid(year, month)
      next == Real!NextMonth(year, month)
      previous == Real!PreviousMonth(year, month)
      first == Real!FirstOf(year, month)
  IN /\ Real!Weekday(grid[1]) = 0
     /\ Real!MonthOf(first) \subseteq {grid[i] : i \in DOMAIN grid}
     /\ Real!PreviousMonth(next[1], next[2]) = <<year, month>>
     /\ Real!NextMonth(previous[1], previous[2]) = <<year, month>>

============================================================================
