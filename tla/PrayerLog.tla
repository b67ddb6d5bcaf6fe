----------------------------- MODULE PrayerLog -----------------------------
(***************************************************************************)
(* The prayers of a day and what was said of them: the times of the        *)
(* prayers, a record per prayer and date, the pages that mark and list     *)
(* them and the statistics that count them (scheduler/views/               *)
(* prayer_views.py, the prayers in scheduler/views/analytics_views.py,     *)
(* scheduler/models/personal_task.py).                                     *)
(*                                                                         *)
(* As in Planner, a request is a sequence of statements, each of which     *)
(* commits by itself.  The tables are written by these views only: the     *)
(* forms of the admin site are left out.  is_completed and status are      *)
(* fields of their own; completed_at always goes with status.              *)
(***************************************************************************)
EXTENDS Calendar, FiniteSets

CONSTANTS
  Requests,  \* the requests the server works on at once
  Readers,   \* those of them that may ask for a page (a bound)
  Names,     \* the names requests use: the URL takes any
  Prayers,   \* those of PrayerName, in order
  Offered,   \* those that times are given for
  Dates,     \* the dates requests send
  Sent,      \* what they send as status
  Todays,    \* the day on which a page is asked for
  Filters,   \* "week", "month"
  Ids,       \* the primary keys the table of times may give out (a bound)
  MaxMarks,  \* how many marks are asked for (a bound)
  Nothing    \* no row, no request

Known == {Prayers[i] : i \in 1 .. Len(Prayers)}

ASSUME PrayerLogAssumption ==
  /\ IsFiniteSet(Requests) /\ Readers \subseteq Requests
  /\ IsFiniteSet(Names) /\ IsFiniteSet(Dates) /\ IsFiniteSet(Ids)
  /\ Prayers \in Seq(Names) /\ Offered \subseteq Names
  /\ \A i, j \in 1 .. Len(Prayers) : Prayers[i] = Prayers[j] => i = j
  /\ Dates \subseteq Int /\ Todays \subseteq Int
  /\ Nothing \notin Names /\ Nothing \notin Ids
  /\ MaxMarks \in Nat

VARIABLES
  log,    \* the table of completions: a row, or Nothing, per name and date
  times,  \* the table of prayer times: the prayer of a row, or Nothing
  used,   \* the primary keys that were given out
  pc,     \* the next statement of a request
  mark,   \* the cell and the status a toggle is about
  slot,   \* the row of times that is created, changed or deleted
  day,    \* the page of a day while it is made
  board,  \* the statistics while they are made
  marks   \* how many marks were asked for

vars == <<log, times, used, pc, mark, slot, day, board, marks>>

book == <<log, mark, marks>>
list == <<times, used, slot>>

-----------------------------------------------------------------------------
(* The tables *)

Statuses == {"prayed", "missed", "not_yet"}

Cells == Names \X Dates

RowType == [done : BOOLEAN, status : Statuses]

\* The defaults of PrayerCompletion.
Blank == [done |-> FALSE, status |-> "not_yet"]

Rows == {c \in Cells : log[c] # Nothing}

\* Mutant: whatever is sent and no "prayed" leaves is_completed as it was.
Marked_KeepsDone(row, sent) ==
  IF sent = "prayed" THEN [done |-> TRUE, status |-> "prayed"]
  ELSE IF sent = "missed" THEN [row EXCEPT !.status = "missed"]
  ELSE [row EXCEPT !.status = "not_yet"]

\* The three branches of toggle_prayer_completion; what is neither is not yet.
Marked(row, sent) ==
  IF sent = "prayed" THEN [done |-> TRUE, status |-> "prayed"]
  ELSE IF sent = "missed" THEN [done |-> FALSE, status |-> "missed"]
  ELSE Blank

Goto(r, step) == pc' = [pc EXCEPT ![r] = step]

-----------------------------------------------------------------------------
(* toggle_prayer_completion: get_or_create, then the whole row is saved *)

Toggling == {"get", "insert", "again", "save"}

Toggle(r, c, sent) ==
  /\ pc[r] = "idle" /\ marks < MaxMarks
  /\ mark' = [mark EXCEPT ![r] = <<c, sent>>]
  /\ marks' = marks + 1
  /\ Goto(r, "get")
  /\ UNCHANGED <<log, list, day, board>>

GetRow(r) ==
  /\ pc[r] = "get"
  /\ Goto(r, IF log[mark[r][1]] = Nothing THEN "insert" ELSE "save")
  /\ UNCHANGED <<book, list, day, board>>

\* A new row can be seen in every count from now on, and is in no page's list
\* of marks (what it says is what a page says without it).
Unsettle(b) ==
  [r \in Requests |-> IF b[r] = Nothing THEN Nothing
                      ELSE [b[r] EXCEPT !.quiet = FALSE]]

\* Mutant: the request whose insert comes second gives up.
InsertRow_GivesUp(r) ==
  /\ pc[r] = "insert"
  /\ IF log[mark[r][1]] = Nothing
     THEN /\ log' = [log EXCEPT ![mark[r][1]] = Blank]
          /\ board' = Unsettle(board)
          /\ Goto(r, "save") /\ UNCHANGED mark
     ELSE /\ Goto(r, "idle") /\ mark' = [mark EXCEPT ![r] = Nothing]
          /\ UNCHANGED <<log, board>>
  /\ UNCHANGED <<list, day, marks>>

\* The insert of get_or_create, which unique_together may refuse.
InsertRow(r) ==
  /\ pc[r] = "insert"
  /\ IF log[mark[r][1]] = Nothing
     THEN /\ log' = [log EXCEPT ![mark[r][1]] = Blank]
          /\ board' = Unsettle(board)
          /\ Goto(r, "save")
     ELSE /\ Goto(r, "again") /\ UNCHANGED <<log, board>>
  /\ UNCHANGED <<list, mark, marks, day>>

\* get_or_create's second get, which finds what refused the insert.
GetAgain(r) ==
  /\ pc[r] = "again"
  /\ Goto(r, "save")
  /\ UNCHANGED <<book, list, day, board>>

SaveRow(r) ==
  /\ pc[r] = "save"
  /\ LET c == mark[r][1] IN
     /\ log' = [log EXCEPT ![c] = Marked(@, mark[r][2])]
     /\ day' = [q \in Requests |->
                  IF day[q] # Nothing /\ day[q].date = c[2]
                  THEN [day[q] EXCEPT !.touched = @ \cup {c[1]}] ELSE day[q]]
  /\ board' = Unsettle(board)
  /\ mark' = [mark EXCEPT ![r] = Nothing]
  /\ Goto(r, "idle")
  /\ UNCHANGED <<list, marks>>

-----------------------------------------------------------------------------
(* create_prayer, update_prayer, delete_prayer *)

Scheduling == {"create", "update", "delete"}

Scheduled == {times[i] : i \in Ids} \ {Nothing}

\* prayer_name is unique.
Unique(i, n) == \A j \in Ids \ {i} : times[j] # n

\* The query whether there is such a prayer.
CreatePrayer(r, n) ==
  /\ pc[r] = "idle"
  /\ n \notin Scheduled
  /\ slot' = [slot EXCEPT ![r] = <<Nothing, n>>]
  /\ Goto(r, "create")
  /\ UNCHANGED <<book, times, used, day, board>>

\* Mutant: the column is not unique.
InsertPrayer_Twice(r) ==
  /\ pc[r] = "create"
  /\ \E i \in Ids \ used :
       /\ used' = used \cup {i}
       /\ times' = [times EXCEPT ![i] = slot[r][2]]
  /\ slot' = [slot EXCEPT ![r] = Nothing]
  /\ Goto(r, "idle")
  /\ UNCHANGED <<book, day, board>>

\* The insert; the exception of a second one is shown as a message.
InsertPrayer(r) ==
  /\ pc[r] = "create"
  /\ \E i \in Ids \ used :
       IF Unique(i, slot[r][2])
       THEN /\ used' = used \cup {i}
            /\ times' = [times EXCEPT ![i] = slot[r][2]]
       ELSE UNCHANGED <<used, times>>
  /\ slot' = [slot EXCEPT ![r] = Nothing]
  /\ Goto(r, "idle")
  /\ UNCHANGED <<book, day, board>>

\* get_object_or_404 of the other two.
OpenPrayer(r, i, step) ==
  /\ pc[r] = "idle"
  /\ times[i] # Nothing
  /\ slot' = [slot EXCEPT ![r] = <<i, times[i]>>]
  /\ Goto(r, step)
  /\ UNCHANGED <<book, times, used, day, board>>

\* save() writes the row it has read, again when it is gone, unless the prayer
\* has been given times anew.
UpdatePrayer(r) ==
  /\ pc[r] = "update"
  /\ times' = IF Unique(slot[r][1], slot[r][2])
              THEN [times EXCEPT ![slot[r][1]] = slot[r][2]] ELSE times
  /\ slot' = [slot EXCEPT ![r] = Nothing]
  /\ Goto(r, "idle")
  /\ UNCHANGED <<book, used, day, board>>

DeletePrayer(r) ==
  /\ pc[r] = "delete"
  /\ times' = [times EXCEPT ![slot[r][1]] = Nothing]
  /\ slot' = [slot EXCEPT ![r] = Nothing]
  /\ Goto(r, "idle")
  /\ UNCHANGED <<book, used, day, board>>

-----------------------------------------------------------------------------
(* get_daily_prayer_completions *)

Listing == {"list", "status"}

\* is_completed of every row of the date, in one query.
ReadMarks(r, d) ==
  /\ pc[r] = "idle" /\ r \in Readers
  /\ day' = [day EXCEPT ![r] =
       [date    |-> d,
        done    |-> {n \in Names : log[<<n, d>>] # Nothing /\ log[<<n, d>>].done},
        rest    |-> {},
        shown   |-> {},
        touched |-> {}]]
  /\ Goto(r, "list")
  /\ UNCHANGED <<book, list, board>>

\* The query for the prayers is made when the loop begins.
ListPrayers(r) ==
  /\ pc[r] = "list"
  /\ day' = [day EXCEPT ![r].rest = Scheduled]
  /\ Goto(r, "status")
  /\ UNCHANGED <<book, list, board>>

\* The status of one prayer, in a query of its own.
ReadStatus(r, n) ==
  /\ pc[r] = "status" /\ n \in day[r].rest
  /\ LET row == log[<<n, day[r].date>>]
         entry == [name |-> n, done |-> n \in day[r].done,
                   status |-> IF row = Nothing THEN "not_yet" ELSE row.status]
     IN day' = [day EXCEPT ![r].rest = @ \ {n}, ![r].shown = @ \cup {entry}]
  /\ UNCHANGED <<pc, book, list, board>>

ShowDay(r) ==
  /\ pc[r] = "status" /\ day[r].rest = {}
  /\ day' = [day EXCEPT ![r] = Nothing]
  /\ Goto(r, "idle")
  /\ UNCHANGED <<book, list, board>>

-----------------------------------------------------------------------------
(* The prayers in analytics_dashboard and get_prayer_chart_data_api *)

Views == {"dashboard", "chart"}

Counting == {"completed", "total", "shown"}

Query(names, dates) == [names |-> names, dates |-> dates]

\* calculate_prayer_completion_stats
Whole(range) == <<Query(Names, range)>>

\* get_prayer_stats_by_name
ByName(range) == [i \in 1 .. Len(Prayers) |-> Query({Prayers[i]}, range)]

\* Mutant: the loop ends before the last date.
Daily_Short(range) ==
  LET first == CHOOSE d \in range : \A e \in range : d <= e
  IN [i \in 1 .. Cardinality(range) - 1 |-> Query(Names, {first + i - 1})]

\* get_daily_prayer_stats, from the first date on up to the last.
Daily(range) ==
  LET first == CHOOSE d \in range : \A e \in range : d <= e
  IN [i \in 1 .. Cardinality(range) |-> Query(Names, {first + i - 1})]

Queries(view, range) ==
  IF view = "dashboard"
  THEN Whole(range) \o ByName(range) \o Daily(range)
  ELSE Daily(range)

Matching(q) == {c \in Rows : c[1] \in q.names /\ c[2] \in q.dates}

Completed(q) == {c \in Matching(q) : log[c].done}

\* The query a request is at.
At(r) == board[r].queries[Len(board[r].answers) + 1]

OpenBoard(r, view, filter, today) ==
  /\ pc[r] = "idle" /\ r \in Readers
  /\ board' = [board EXCEPT ![r] =
       [filter  |-> filter, today |-> today, view |-> view,
        queries |-> Queries(view, DateRange(filter, today)),
        answers |-> <<>>, completed |-> 0, was |-> 0, quiet |-> TRUE]]
  /\ Goto(r, "completed")
  /\ UNCHANGED <<book, list, day>>

\* The first of the two counts; "was" notes how many rows there were then.
CountCompleted(r) ==
  /\ pc[r] = "completed"
  /\ board' = [board EXCEPT ![r].completed = Cardinality(Completed(At(r))),
                            ![r].was = Cardinality(Matching(At(r)))]
  /\ Goto(r, "total")
  /\ UNCHANGED <<book, list, day>>

\* Mutant: all the rows are counted first, those that are completed after.
CountTotal_First(r) ==
  /\ pc[r] = "total"
  /\ LET answer == [completed |-> Cardinality(Completed(At(r))),
                    was |-> board[r].was, total |-> board[r].was]
     IN board' = [board EXCEPT ![r].answers = Append(@, answer)]
  /\ Goto(r, IF Len(board[r].answers) + 1 = Len(board[r].queries)
             THEN "shown" ELSE "completed")
  /\ UNCHANGED <<book, list, day>>

CountTotal(r) ==
  /\ pc[r] = "total"
  /\ LET answer == [completed |-> board[r].completed, was |-> board[r].was,
                    total |-> Cardinality(Matching(At(r)))]
     IN board' = [board EXCEPT ![r].answers = Append(@, answer)]
  /\ Goto(r, IF Len(board[r].answers) + 1 = Len(board[r].queries)
             THEN "shown" ELSE "completed")
  /\ UNCHANGED <<book, list, day>>

CloseBoard(r) ==
  /\ pc[r] = "shown"
  /\ board' = [board EXCEPT ![r] = Nothing]
  /\ Goto(r, "idle")
  /\ UNCHANGED <<book, list, day>>

\* incomplete, in every statistic.
Incomplete(answer) == answer.total - answer.completed

\* The alert of the dashboard: below a half, below three quarters.
Alert(completed, total) ==
  IF total = 0 THEN "none"
  ELSE IF 2 * completed < total THEN "danger"
  ELSE IF 4 * completed < 3 * total THEN "info"
  ELSE "none"

-----------------------------------------------------------------------------

\* The process dies, or the database refuses a statement: the request ends.
Abort(r) ==
  /\ pc[r] \notin {"idle", "dead"}
  /\ Goto(r, "dead")
  /\ mark' = [mark EXCEPT ![r] = Nothing]
  /\ slot' = [slot EXCEPT ![r] = Nothing]
  /\ day' = [day EXCEPT ![r] = Nothing]
  /\ board' = [board EXCEPT ![r] = Nothing]
  /\ UNCHANGED <<log, times, used, marks>>

Init ==
  /\ log = [c \in Cells |-> Nothing]
  /\ times = [i \in Ids |-> Nothing] /\ used = {}
  /\ pc = [r \in Requests |-> "idle"]
  /\ mark = [r \in Requests |-> Nothing]
  /\ slot = [r \in Requests |-> Nothing]
  /\ day = [r \in Requests |-> Nothing]
  /\ board = [r \in Requests |-> Nothing]
  /\ marks = 0

ToggleRequest(r) ==
  \/ \E c \in Cells, sent \in Sent : Toggle(r, c, sent)
  \/ GetRow(r) \/ InsertRow(r) \/ GetAgain(r) \/ SaveRow(r)

TimesRequest(r) ==
  \/ \E n \in Offered : CreatePrayer(r, n)
  \/ \E i \in Ids, step \in {"update", "delete"} : OpenPrayer(r, i, step)
  \/ InsertPrayer(r) \/ UpdatePrayer(r) \/ DeletePrayer(r)

DayRequest(r) ==
  \/ \E d \in Dates : ReadMarks(r, d)
  \/ ListPrayers(r) \/ (\E n \in Names : ReadStatus(r, n)) \/ ShowDay(r)

BoardRequest(r) ==
  \/ \E view \in Views, filter \in Filters, today \in Todays :
       OpenBoard(r, view, filter, today)
  \/ CountCompleted(r) \/ CountTotal(r) \/ CloseBoard(r)

Next ==
  \E r \in Requests :
    ToggleRequest(r) \/ TimesRequest(r) \/ DayRequest(r) \/ BoardRequest(r)
    \/ Abort(r)

Spec == Init /\ [][Next]_vars

-----------------------------------------------------------------------------
(* Properties *)

DayType == [date : Dates, done : SUBSET Names, rest : SUBSET Names,
            shown : SUBSET [name : Names, done : BOOLEAN, status : Statuses],
            touched : SUBSET Names]

AnswerType == [completed : Nat, was : Nat, total : Nat]

Plans == {Queries(view, DateRange(filter, today)) :
            view \in Views, filter \in Filters, today \in Todays}

BoardType == [filter : Filters, today : Todays, view : Views, queries : Plans,
              answers : Seq(AnswerType), completed : Nat, was : Nat,
              quiet : BOOLEAN]

SlotType == (Ids \cup {Nothing}) \X Names

ASSUME NothingAssumption ==
  /\ Nothing \notin RowType
  /\ Nothing \notin Cells \X Sent /\ Nothing \notin Cells \X Statuses
  /\ Nothing \notin SlotType /\ Nothing \notin DayType
  /\ Nothing \notin BoardType

\* The types of the variables; a request holds what its next statement needs,
\* and no prayer has two rows of times.
TypeOK ==
  /\ log \in [Cells -> RowType \cup {Nothing}]
  /\ times \in [Ids -> Names \cup {Nothing}]
  /\ used \subseteq Ids
  /\ pc \in [Requests -> {"idle", "dead"} \cup Toggling \cup Scheduling
                           \cup Listing \cup Counting]
  /\ mark \in [Requests -> (Cells \X Sent) \cup {Nothing}]
  /\ slot \in [Requests -> SlotType \cup {Nothing}]
  /\ day \in [Requests -> DayType \cup {Nothing}]
  /\ board \in [Requests -> BoardType \cup {Nothing}]
  /\ marks \in Nat
  /\ \A i \in Ids : times[i] # Nothing => i \in used /\ Unique(i, times[i])
  /\ \A r \in Requests :
       /\ pc[r] \in Toggling <=> mark[r] # Nothing
       /\ pc[r] \in {"again", "save"} => log[mark[r][1]] # Nothing
       /\ pc[r] \in Scheduling <=> slot[r] # Nothing
       /\ slot[r] # Nothing =>
            (pc[r] = "create" <=> slot[r][1] = Nothing)
            /\ slot[r][1] \in used \cup {Nothing}
       /\ pc[r] \in Listing <=> day[r] # Nothing
       /\ pc[r] \in Counting <=> board[r] # Nothing

\* The table as the abstract book: no row says what a blank row says.
Mapped(c) == IF log[c] = Nothing THEN "not_yet" ELSE log[c].status

Wanted(r) ==
  IF mark[r] = Nothing THEN Nothing
  ELSE <<mark[r][1], Marked(Blank, mark[r][2]).status>>

PrayerBook == INSTANCE PrayerBook WITH
  book  <- [c \in Cells |-> Mapped(c)],
  asked <- [r \in Requests |-> Wanted(r)],
  dead  <- {r \in Requests : pc[r] = "dead"}

\* Toggles that race for the first row of a cell, or for a row, are marks made
\* one after the other: none is lost and none made twice, and no insert, no
\* refused insert and no other request changes what the book says.
FollowsBook == PrayerBook!Spec

\* The page of a day takes is_completed and status from different queries.
\* They agree, unless that prayer was marked while the page was made; and a
\* prayer is listed once, however its times were created, changed and deleted
\* meanwhile.
DayAgrees ==
  \A r \in Requests : day[r] # Nothing =>
    /\ \A e \in day[r].shown :
         e.name \in day[r].touched \/ (e.done <=> e.status = "prayed")
    /\ \A n \in day[r].rest : Cardinality({i \in Ids : times[i] = n}) <= 1
    /\ \A e, f \in day[r].shown : e.name = f.name => e = f

\* The two counts of a statistic are made one after the other.  Rows only come,
\* so that the completed ones are never more than all; and a rate is never
\* shown higher than it was at the first count, so a dashboard without an
\* alert was right about it then.
CountsFit ==
  \A r \in Requests : board[r] # Nothing =>
    /\ pc[r] = "total" => board[r].completed <= board[r].was
                         /\ board[r].was <= Cardinality(Matching(At(r)))
    /\ \A i \in 1 .. Len(board[r].answers) :
         LET a == board[r].answers[i] IN
         /\ a.completed <= a.was /\ a.was <= a.total
         /\ Incomplete(a) >= 0
         /\ Alert(a.completed, a.total) = "none" =>
              Alert(a.completed, a.was) = "none"

Sum(f, first, last) ==
  LET upTo[i \in first - 1 .. last] ==
        IF i < first THEN 0 ELSE upTo[i - 1] + f[i]
  IN upTo[last]

\* When nothing is marked while a dashboard is made, its numbers are those of
\* the week or month of today: the days add up to the whole, and so do the
\* prayers by name together with what was recorded under no known name.
CountsAddUp ==
  \A r \in Requests :
    LET b == board[r] IN
    pc[r] = "shown" /\ b.quiet /\ b.view = "dashboard" =>
      LET rows  == {c \in Rows : SamePeriod(b.filter, b.today, c[2])}
          done  == {c \in rows : log[c].done}
          names == Len(Prayers)
          totals == [i \in 1 .. Len(b.answers) |-> b.answers[i].total]
          completed == [i \in 1 .. Len(b.answers) |-> b.answers[i].completed]
      IN /\ totals[1] = Cardinality(rows) /\ completed[1] = Cardinality(done)
         /\ Sum(totals, names + 2, Len(totals)) = totals[1]
         /\ Sum(completed, names + 2, Len(completed)) = completed[1]
         /\ Sum(totals, 2, names + 1)
              = totals[1] - Cardinality({c \in rows : c[1] \notin Known})

=============================================================================
