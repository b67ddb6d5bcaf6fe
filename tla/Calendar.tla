------------------------------ MODULE Calendar ------------------------------
(***************************************************************************)
(* The arithmetic of dates behind the pages that show a week or a month    *)
(* (scheduler/views/analytics_views.py get_date_range,                     *)
(* scheduler/views/personal_task_views.py calendar_view).                  *)
(*                                                                         *)
(* A date is the number of its day; day 0 is a Monday and the first of a   *)
(* year.  Every year is like the first one: what the code computes of a    *)
(* month does not depend on how long it is.                                *)
(***************************************************************************)
EXTENDS Integers, Sequences

CONSTANTS
  WeekDays,   \* the days of a week, 7
  MonthDays   \* the lengths of the months of a year, in order

ASSUME CalendarAssumption ==
  /\ WeekDays \in Nat \ {0}
  /\ MonthDays \in Seq(Nat \ {0}) /\ MonthDays # <<>>

Months == Len(MonthDays)

\* The day of the year on which a month begins; the last value is its length.
MonthStart[m \in 1 .. Months + 1] ==
  IF m = 1 THEN 0 ELSE MonthStart[m - 1] + MonthDays[m - 1]

YearDays == MonthStart[Months + 1]

-----------------------------------------------------------------------------
(* Python's date, date.year, date.month and date.weekday *)

Year(d) == d \div YearDays

Month(d) ==
  CHOOSE m \in 1 .. Months :
    MonthStart[m] <= d % YearDays /\ d % YearDays < MonthStart[m + 1]

FirstOf(year, month) == year * YearDays + MonthStart[month]

Weekday(d) == d % WeekDays

-----------------------------------------------------------------------------
(* get_date_range *)

NextMonth(year, month) ==
  IF month = Months THEN <<year + 1, 1>> ELSE <<year, month + 1>>

PreviousMonth(year, month) ==
  IF month = 1 THEN <<year - 1, Months>> ELSE <<year, month - 1>>

WeekOf(today) ==
  LET monday == today - Weekday(today) IN monday .. monday + WeekDays - 1

\* From the first of the month to the day before the first of the next one.
MonthOf(today) ==
  LET next == NextMonth(Year(today), Month(today))
  IN FirstOf(Year(today), Month(today)) .. FirstOf(next[1], next[2]) - 1

\* Any other filter is taken for a week.
DateRange(filter, today) ==
  IF filter = "month" THEN MonthOf(today) ELSE WeekOf(today)

-----------------------------------------------------------------------------
(* calendar_view: six weeks from the Monday on or before the first *)

Grid(year, month) ==
  LET first == FirstOf(year, month)
      start == first - Weekday(first)
  IN [i \in 1 .. 6 * WeekDays |-> start + i - 1]

-----------------------------------------------------------------------------
(* What the pages mean by these terms *)

\* The days of the same week, or of the same month of the same year.
SamePeriod(filter, today, d) ==
  IF filter = "month"
  THEN Year(d) = Year(today) /\ Month(d) = Month(today)
  ELSE d \div WeekDays = today \div WeekDays

=============================================================================
