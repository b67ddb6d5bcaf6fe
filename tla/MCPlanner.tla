----------------------------- MODULE MCPlanner -----------------------------
(* Instances of Planner for TLC. *)
EXTENDS Planner, TLC

Entry(date, start, end, nn) ==
  [date |-> date, start |-> start, end |-> end, nn |-> nn]

\* A day of six hours: a long task that gets a break, and a short one where
\* that break would be.
TaskForms == {Entry(1, 1, 3, TRUE), Entry(1, 3, 4, FALSE)}

Nothing == {}

Schedule(weekday, start, duration, weeks, first, last) ==
  [weekday |-> weekday, start |-> start, duration |-> duration,
   weeks |-> weeks, first |-> first, last |-> last]

\* Weeks of three days. The first schedule runs out of weeks before the project
\* ends (on days 4 and 7), the second begins on its weekday, is cut off by the
\* end of the project (days 2 and 5) and crosses midnight.
ProjectSchedules == {Schedule(1, 1, 2, 2, 2, 9), Schedule(2, 4, 3, 3, 2, 5)}

\* A task on the first date of the first schedule, and times the form refuses.
ProjectForms == {Entry(4, 2, 4, TRUE), Entry(4, 4, 3, FALSE)}

\* A copy that ends before it begins.
BackwardTimes == {<<3, 2>>}

Symmetry == Permutations(Ids) \cup Permutations(Requests)

============================================================================
