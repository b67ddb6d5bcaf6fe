------------------------------ MODULE Planner ------------------------------
(***************************************************************************)
(* The daily planner: personal tasks, the breaks put after long ones, and  *)
(* the recurring tasks a project's schedules generate                      *)
(* (scheduler/views/personal_task_views.py, scheduler/views/              *)
(* project_views.py, scheduler/forms.py, scheduler/models/                 *)
(* personal_task.py).                                                      *)
(*                                                                         *)
(* No view opens a transaction, so every statement commits by itself: a    *)
(* request is a sequence of statements, between which the statements of    *)
(* the other requests run, and a request that dies (a killed process, a    *)
(* locked database) leaves what it has written.                            *)
(*                                                                         *)
(* Times of day are numbers below DayLength, dates are numbers from the    *)
(* day of the requests on, and date % Week is the weekday.                 *)
(***************************************************************************)
EXTENDS Integers, FiniteSets

CONSTANTS
  Ids,        \* the primary keys the table may give out (the bound)
  Requests,   \* the requests the server works on at once
  NoTask,     \* no row: a NULL parent, an id that is not in the table
  Forms,      \* what the users type into the task form
  Marks,      \* the values of is_completed they send
  Overrides,  \* the pairs of times a copy may ask for
  Schedules,  \* the active schedules of the project
  DayLength,  \* a day, 1440 minutes in the code
  Hour,       \* the length from which a task gets a break, 60 minutes
  Pause,      \* the length of a break, 10 minutes
  Week,       \* 7 days
  Horizon,    \* the last date a task is copied to (a bound)
  Limit       \* the non-negotiable tasks of a day, 3 in the code

Times == 0 .. DayLength - 1

FormType == [date : Int, start : Times, end : Times, nn : BOOLEAN]

ScheduleType == [weekday : 0 .. Week - 1, start : Times, duration : Nat,
                 weeks : Nat, first : Int, last : Int]

ASSUME PlannerAssumption ==
  /\ IsFiniteSet(Ids) /\ IsFiniteSet(Requests) /\ Requests # {}
  /\ NoTask \notin Ids
  /\ DayLength \in Nat \ {0} /\ Week \in Nat \ {0}
  /\ Hour \in Nat /\ Pause \in Nat /\ Limit \in Nat \ {0} /\ Horizon \in Nat
  /\ Forms \subseteq FormType /\ Marks \subseteq BOOLEAN
  /\ Overrides \subseteq Times \X Times
  /\ Schedules \subseteq ScheduleType

VARIABLES
  db,         \* the table of tasks: a row, or NoTask, for every id
  made,       \* which view gave out an id: none is given out twice
  pc,         \* the next statement of a request
  id,         \* the row a request works on
  copy,       \* the task object a request holds
  plan,       \* the loop of a generation: its schedule, date and week
  scheduled,  \* the schedules whose project task has is_scheduled
  history,    \* is_completed in the last completion record of a task
  disturbed,  \* tasks that two requests had at once, or one left half done
  moved,      \* rows whose fields a form has replaced
  crossed     \* whether two generations have ever run at once

vars == <<db, made, pc, id, copy, plan, scheduled, history,
          disturbed, moved, crossed>>

request == <<pc, id, copy>>
ghosts  == <<disturbed, moved, crossed>>

-----------------------------------------------------------------------------
(* The table *)

RowType == [date : Int, start : Times, end : Times,
            nn : BOOLEAN, done : BOOLEAN, parent : Ids \cup {NoTask}]

Live == {i \in Ids : db[i] # NoTask}

Fresh == {i \in Ids : made[i] = "nothing"}

\* is_break is set where parent_task is, and nothing changes either after.
IsBreak(row) == row.parent # NoTask

BreaksOf(i) == {b \in Live : db[b].parent = i}

NonNegotiable(date) == {i \in Live : db[i].date = date /\ db[i].nn}

\* The filter start_time__lt / end_time__gt of both conflict queries.
Overlapping(date, start, end) ==
  {i \in Live : db[i].date = date /\ db[i].start < end /\ db[i].end > start}

\* Mutant: nothing wraps.
Later_NoWrap(time, length) == time + length

\* What datetime + timedelta leaves of a time of day: it wraps at midnight.
Later(time, length) == (time + length) % DayLength

ASSUME NoTaskAssumption == NoTask \notin RowType

NewRow(date, start, end, nn, parent) ==
  [date |-> date, start |-> start, end |-> end, nn |-> nn,
   done |-> FALSE, parent |-> parent]

-----------------------------------------------------------------------------
(* The requests, and what the auxiliary variables note of them *)

TaskSteps == {"save", "drop", "seek", "room", "pause", "flip", "record"}
PlanSteps == {"scan", "book", "mark"}

\* A task and its breaks are one family, named by the task.
FamilyOf(i, row) == IF IsBreak(row) THEN row.parent ELSE i

InHand(r, family) ==
  /\ pc[r] \in TaskSteps
  /\ id[r] # NoTask
  /\ FamilyOf(id[r], copy[r]) = family

Meets(r, family) == \E q \in Requests \ {r} : InHand(q, family)

Take(r, i, row, step) ==
  /\ id'   = [id EXCEPT ![r] = i]
  /\ copy' = [copy EXCEPT ![r] = row]
  /\ pc'   = [pc EXCEPT ![r] = step]

Goto(r, step) ==
  /\ pc' = [pc EXCEPT ![r] = step]
  /\ UNCHANGED <<id, copy>>

Finish(r) == Take(r, NoTask, NoTask, "idle")

\* Two requests that hold one family are noted, whatever they do with it.
NoteMeeting(r, family) ==
  /\ disturbed' = IF Meets(r, family) THEN disturbed \cup {family} ELSE disturbed
  /\ UNCHANGED <<moved, crossed>>

-----------------------------------------------------------------------------
(* The task form *)

\* Mutant: a day takes one task more.
Clean_OneMore(f) ==
  /\ f.start < f.end
  /\ f.nn => Cardinality(NonNegotiable(f.date)) <= Limit

\* PersonalTaskForm.clean: the task that is edited is counted as well.
Clean(f) ==
  /\ f.start < f.end
  /\ f.nn => Cardinality(NonNegotiable(f.date)) < Limit

\* create_personal_task up to the insert: the form is valid.
NewTask(r, f) ==
  /\ pc[r] = "idle"
  /\ Clean(f)
  /\ Take(r, NoTask, NewRow(f.date, f.start, f.end, f.nn, NoTask), "save")
  /\ UNCHANGED <<db, made, plan, scheduled, history, ghosts>>

\* Mutant: the form builds a new object, which is not completed.
EditTask_Resets(r, i, f) ==
  /\ pc[r] = "idle"
  /\ i \in Live
  /\ Clean(f)
  /\ Take(r, i, NewRow(f.date, f.start, f.end, f.nn, db[i].parent), "save")
  /\ NoteMeeting(r, FamilyOf(i, db[i]))
  /\ UNCHANGED <<db, made, plan, scheduled, history>>

\* edit_personal_task up to the update: the row is read, the form put into it.
EditTask(r, i, f) ==
  /\ pc[r] = "idle"
  /\ i \in Live
  /\ Clean(f)
  /\ Take(r, i, [db[i] EXCEPT !.date = f.date, !.start = f.start,
                              !.end = f.end, !.nn = f.nn], "save")
  /\ NoteMeeting(r, FamilyOf(i, db[i]))
  /\ UNCHANGED <<db, made, plan, scheduled, history>>

\* task.save() of a new task.
Insert(r) ==
  /\ pc[r] = "save" /\ id[r] = NoTask
  /\ \E i \in Fresh :
       /\ db'   = [db EXCEPT ![i] = copy[r]]
       /\ made' = [made EXCEPT ![i] = "form"]
       /\ Take(r, i, copy[r], "seek")
  /\ UNCHANGED <<plan, scheduled, history, ghosts>>

\* save() writes every column, inserts the row again when it is gone, and
\* fails when the parent of a break is.
CanWrite(r) == IsBreak(copy[r]) => copy[r].parent \in Live

\* Mutant: the breaks from before the edit are not deleted.
Update_KeepsBreaks(r) ==
  /\ pc[r] = "save" /\ id[r] # NoTask
  /\ CanWrite(r)
  /\ db' = [db EXCEPT ![id[r]] = copy[r]]
  /\ Goto(r, "seek")
  /\ moved' = moved \cup {id[r]}
  /\ UNCHANGED <<made, plan, scheduled, history, disturbed, crossed>>

\* form.save() of an edit.
Update(r) ==
  /\ pc[r] = "save" /\ id[r] # NoTask
  /\ CanWrite(r)
  /\ db' = [db EXCEPT ![id[r]] = copy[r]]
  /\ Goto(r, "drop")
  /\ moved' = moved \cup {id[r]}
  /\ UNCHANGED <<made, plan, scheduled, history, disturbed, crossed>>

\* A deletion cascades to the completion records of the rows; what was noted
\* of a row is forgotten with it.
Remove(gone) ==
  /\ db' = [i \in Ids |-> IF i \in gone THEN NoTask ELSE db[i]]
  /\ history' = [i \in Ids |-> IF i \in gone THEN FALSE ELSE history[i]]
  /\ moved' = moved \ gone

\* task.breaks.all().delete()
DropBreaks(r) ==
  /\ pc[r] = "drop"
  /\ Remove(BreaksOf(id[r]))
  /\ Goto(r, "seek")
  /\ UNCHANGED <<made, plan, scheduled, disturbed, crossed>>

-----------------------------------------------------------------------------
(* auto_insert_breaks *)

\* Mutant: a break that an edit makes long gets a break, too.
WantsBreak_Any(row) == row.end - row.start >= Hour

WantsBreak(row) == ~IsBreak(row) /\ row.end - row.start >= Hour

\* The first query: is there such a break already?
SeekBreak(r) ==
  /\ pc[r] = "seek"
  /\ LET there == \E b \in BreaksOf(id[r]) :
                    db[b].date = copy[r].date /\ db[b].start = copy[r].end
     IN IF WantsBreak(copy[r]) /\ ~there THEN Goto(r, "room") ELSE Finish(r)
  /\ UNCHANGED <<db, made, plan, scheduled, history, ghosts>>

\* The second query: does another task overlap it?
FindRoom(r) ==
  /\ pc[r] = "room"
  /\ LET end == Later(copy[r].end, Pause)
         busy == Overlapping(copy[r].date, copy[r].end, end) \ {id[r]}
     IN IF busy = {} THEN Goto(r, "pause") ELSE Finish(r)
  /\ UNCHANGED <<db, made, plan, scheduled, history, ghosts>>

InsertBreak(r) ==
  /\ pc[r] = "pause"
  /\ id[r] \in Live
  /\ \E b \in Fresh :
       /\ db' = [db EXCEPT ![b] =
                   NewRow(copy[r].date, copy[r].end, Later(copy[r].end, Pause),
                          FALSE, id[r])]
       /\ made' = [made EXCEPT ![b] = "form"]
  /\ Finish(r)
  /\ UNCHANGED <<plan, scheduled, history, ghosts>>

-----------------------------------------------------------------------------
(* Completion, deletion and copies *)

\* toggle_task_completion reads the row, writes all of it, records the change.
OpenToggle(r, i, done) ==
  /\ pc[r] = "idle"
  /\ i \in Live
  /\ Take(r, i, [db[i] EXCEPT !.done = done], "flip")
  /\ NoteMeeting(r, FamilyOf(i, db[i]))
  /\ UNCHANGED <<db, made, plan, scheduled, history>>

Flip(r) ==
  /\ pc[r] = "flip"
  /\ CanWrite(r)
  /\ db' = [db EXCEPT ![id[r]] = copy[r]]
  /\ Goto(r, "record")
  /\ UNCHANGED <<made, plan, scheduled, history, ghosts>>

Record(r) ==
  /\ pc[r] = "record"
  /\ id[r] \in Live
  /\ history' = [history EXCEPT ![id[r]] = copy[r].done]
  /\ Finish(r)
  /\ UNCHANGED <<db, made, plan, scheduled, ghosts>>

\* delete_personal_task: one transaction, which takes the breaks with it.
DeleteTask(i) ==
  /\ i \in Live
  /\ Remove({i} \cup BreaksOf(i))
  /\ LET family == FamilyOf(i, db[i])
     IN disturbed' = IF \E r \in Requests : InHand(r, family)
                     THEN disturbed \cup {family} ELSE disturbed \ {i}
  /\ UNCHANGED <<made, request, plan, scheduled, crossed>>

\* copy_tasks_from_yesterday, for one id: the times may be overridden, nothing
\* is validated, and a break is copied as a task of its own.
CopyTask(i, times) ==
  /\ i \in Live /\ db[i].date < Horizon
  /\ \E j \in Fresh :
       /\ db' = [db EXCEPT ![j] =
                   NewRow(db[i].date + 1, times[1], times[2], db[i].nn, NoTask)]
       /\ made' = [made EXCEPT ![j] = "copy"]
  /\ UNCHANGED <<request, plan, scheduled, history, ghosts>>

-----------------------------------------------------------------------------
(* generate_schedule *)

Start(s) == [of |-> s, current |-> s.first, week |-> 0, visited |-> {}]

\* target_date: the schedule's weekday on or after the current date, but a
\* week after a current date that is such a day and not the first.
Target(p) ==
  LET ahead == (p.of.weekday - p.current) % Week
  IN p.current + IF ahead = 0 /\ p.current # p.of.first THEN Week ELSE ahead

EndTime(s) == Later(s.start, s.duration)

\* The loop's condition and its break.
GoesOn(p) ==
  /\ p.current <= p.of.last
  /\ p.week < p.of.weeks
  /\ Target(p) <= p.of.last

\* Mutant: the loop goes on from the date it was at.
NextDate_SameDate(p) ==
  [p EXCEPT !.current = Target(p), !.week = p.week + 1,
            !.visited = @ \cup {Target(p)}]

NextDate(p) == [p EXCEPT !.current = Target(p) + 1, !.week = p.week + 1,
                         !.visited = @ \cup {Target(p)}]

\* Mutant: filter() in place of exclude().
Conflicting_OnlyBreaks(p) ==
  {i \in Overlapping(Target(p), p.of.start, EndTime(p.of)) : IsBreak(db[i])}

Conflicting(p) ==
  {i \in Overlapping(Target(p), p.of.start, EndTime(p.of)) : ~IsBreak(db[i])}

Generating(r) == pc[r] \in PlanSteps

Generate(r, s) ==
  /\ pc[r] = "idle"
  /\ plan' = [plan EXCEPT ![r] = Start(s)]
  /\ Goto(r, "scan")
  /\ crossed' = (crossed \/ \E q \in Requests : Generating(q))
  /\ UNCHANGED <<db, made, scheduled, history, disturbed, moved>>

\* The conflict query of a date: it is skipped, or booked by the next statement.
Scan(r) ==
  /\ pc[r] = "scan"
  /\ GoesOn(plan[r])
  /\ IF Conflicting(plan[r]) # {}
     THEN plan' = [plan EXCEPT ![r] = NextDate(@)] /\ UNCHANGED request
     ELSE Goto(r, "book") /\ UNCHANGED plan
  /\ UNCHANGED <<db, made, scheduled, history, ghosts>>

Book(r) ==
  /\ pc[r] = "book"
  /\ LET s == plan[r].of IN
     \E i \in Fresh :
       /\ db' = [db EXCEPT ![i] =
                   NewRow(Target(plan[r]), s.start, EndTime(s), TRUE, NoTask)]
       /\ made' = [made EXCEPT ![i] = "plan"]
  /\ plan' = [plan EXCEPT ![r] = NextDate(@)]
  /\ Goto(r, "scan")
  /\ UNCHANGED <<scheduled, history, ghosts>>

LeaveLoop(r) ==
  /\ pc[r] = "scan"
  /\ ~GoesOn(plan[r])
  /\ Goto(r, "mark")
  /\ UNCHANGED <<db, made, plan, scheduled, history, ghosts>>

\* project_task.is_scheduled = True, whatever has been booked.
MarkScheduled(r) ==
  /\ pc[r] = "mark"
  /\ scheduled' = scheduled \cup {plan[r].of}
  /\ plan' = [plan EXCEPT ![r] = NoTask]
  /\ Finish(r)
  /\ UNCHANGED <<db, made, history, ghosts>>

-----------------------------------------------------------------------------

\* A statement fails, or the process dies before it: the request ends there.
\* It also stands for the IntegrityError of a row whose parent is gone. What
\* it may leave half done are the breaks from before an edit and a change of
\* is_completed without its record.
Abort(r) ==
  /\ pc[r] # "idle"
  /\ plan' = [plan EXCEPT ![r] = NoTask]
  /\ Finish(r)
  /\ disturbed' = IF pc[r] \in {"drop", "record"}
                  THEN disturbed \cup {FamilyOf(id[r], copy[r])} ELSE disturbed
  /\ UNCHANGED <<db, made, scheduled, history, moved, crossed>>

Init ==
  /\ db = [i \in Ids |-> NoTask]
  /\ made = [i \in Ids |-> "nothing"]
  /\ pc = [r \in Requests |-> "idle"]
  /\ id = [r \in Requests |-> NoTask]
  /\ copy = [r \in Requests |-> NoTask]
  /\ plan = [r \in Requests |-> NoTask]
  /\ scheduled = {}
  /\ history = [i \in Ids |-> FALSE]
  /\ disturbed = {} /\ moved = {} /\ crossed = FALSE

TaskRequest(r) ==
  \/ \E f \in Forms : NewTask(r, f) \/ \E i \in Ids : EditTask(r, i, f)
  \/ \E i \in Ids, done \in Marks : OpenToggle(r, i, done)
  \/ Insert(r) \/ Update(r) \/ DropBreaks(r)
  \/ SeekBreak(r) \/ FindRoom(r) \/ InsertBreak(r)
  \/ Flip(r) \/ Record(r)

PlanRequest(r) ==
  \/ \E s \in Schedules : Generate(r, s)
  \/ Scan(r) \/ Book(r) \/ LeaveLoop(r) \/ MarkScheduled(r)

Next ==
  \/ \E r \in Requests : TaskRequest(r) \/ PlanRequest(r) \/ Abort(r)
  \/ \E i \in Ids :
       \/ DeleteTask(i)
       \/ i \in Live /\ \E t \in Overrides \cup {<<db[i].start, db[i].end>>} :
            CopyTask(i, t)

Spec == Init /\ [][Next]_vars

-----------------------------------------------------------------------------
(* Properties *)

PlanType == [of : Schedules, current : Int, week : Nat, visited : SUBSET Int]

\* The types of the variables; a request holds a row while it works on a task,
\* the loop's variables while it generates, and only an id that was given out
\* has a row.
TypeOK ==
  /\ db \in [Ids -> RowType \cup {NoTask}]
  /\ made \in [Ids -> {"nothing", "form", "copy", "plan"}]
  /\ pc \in [Requests -> {"idle"} \cup TaskSteps \cup PlanSteps]
  /\ id \in [Requests -> Ids \cup {NoTask}]
  /\ copy \in [Requests -> RowType \cup {NoTask}]
  /\ plan \in [Requests -> PlanType \cup {NoTask}]
  /\ scheduled \subseteq Schedules
  /\ history \in [Ids -> BOOLEAN]
  /\ disturbed \subseteq Ids /\ moved \subseteq Ids /\ crossed \in BOOLEAN
  /\ \A i \in Live : made[i] # "nothing"
  /\ \A r \in Requests :
       /\ pc[r] \in TaskSteps => copy[r] \in RowType
       /\ pc[r] \in TaskSteps \ {"save"} => id[r] # NoTask
       /\ pc[r] \in PlanSteps => plan[r] \in PlanType
       /\ id[r] # NoTask => pc[r] \in TaskSteps /\ made[id[r]] # "nothing"

\* A break always belongs to a task that is there and is no break itself: not
\* a deletion, nor an edit of a break, nor a row written again from a stale
\* object leaves a break behind or puts a break on a break (the foreign key,
\* the cascade, and the first test of auto_insert_breaks).
BreaksOfTasks ==
  \A b \in Live : IsBreak(db[b]) =>
    /\ db[b].parent \in Live
    /\ ~IsBreak(db[db[b].parent])

\* The tasks no form has checked: copy_tasks_from_yesterday and
\* generate_schedule insert them.
Unchecked == {i \in Ids : made[i] \in {"copy", "plan"}}

\* PersonalTaskForm.clean counts the non-negotiable tasks of the day some time
\* before the row is written, and a toggle may write an old row again: of the
\* tasks that came through the form, a day has never more than one too many
\* for every further request at work.
DailyLimit ==
  \A i \in Live :
    Cardinality(NonNegotiable(db[i].date) \ Unchecked)
      <= Limit - 1 + Cardinality(Requests)

\* Requests that leave a task alone see it with one break at most, which is as
\* long as auto_insert_breaks makes it and begins where the task ends, however
\* often the task was edited, completed or its break deleted; only a break
\* that was itself edited stands elsewhere.
TidyBreaks ==
  \A i \in Live \ disturbed :
    ~(\E r \in Requests : InHand(r, i)) =>
      /\ Cardinality(BreaksOf(i)) <= 1
      /\ \A b \in BreaksOf(i) \ moved :
           /\ WantsBreak(db[i])
           /\ db[b].date = db[i].date
           /\ db[b].start = db[i].end
           /\ db[b].end = Later(db[i].end, Pause)

\* is_completed is what the last completion record says, though edits write the
\* whole row and the record is a statement of its own.
HistoryAgrees ==
  \A i \in Live :
    LET family == FamilyOf(i, db[i]) IN
      \/ family \in disturbed
      \/ \E r \in Requests : InHand(r, family)
      \/ db[i].done = history[i]

\* A generation has visited the first "weeks" dates of its weekday within the
\* project, no other date and none twice, when it marks the task as scheduled.
RightDates ==
  \A r \in Requests : pc[r] = "mark" =>
    LET s == plan[r].of
        weekdays == {d \in s.first .. s.last : d % Week = s.weekday}
    IN plan[r].visited =
         {d \in weekdays : Cardinality({e \in weekdays : e < d}) < s.weeks}

\* As long as generations run one after the other they never book two tasks
\* over one another, however often a schedule is generated, whatever is
\* booked, deleted or completed in between.
BookedApart ==
  \A i, j \in Live :
    /\ i # j /\ ~crossed
    /\ {i, j} \cap (moved \cup disturbed) = {}
    /\ made[i] = "plan" /\ made[j] = "plan"
    => j \notin Overlapping(db[i].date, db[i].start, db[i].end)

=============================================================================
