----------------------------- MODULE Checklist -----------------------------
(***************************************************************************)
(* The subtasks of the personal tasks, the rating they give a task, and    *)
(* the statistics that count tasks and subtasks (scheduler/views/          *)
(* personal_task_views.py, the tasks in scheduler/views/                   *)
(* analytics_views.py, scheduler/models/personal_task.py).                 *)
(*                                                                         *)
(* As in Planner, a request is a sequence of statements, each of which     *)
(* commits by itself.  What Planner has of a task - times, breaks, the     *)
(* limit of a day, the record of a completion - is left out here.          *)
(***************************************************************************)
EXTENDS Integers, Sequences, FiniteSets

CONSTANTS
  Requests,    \* the requests the server works on at once
  Tasks,       \* the primary keys the table of tasks may give out (a bound)
  Subs,        \* the same of the table of subtasks
  Dates,       \* the dates of tasks
  Categories,  \* the categories of tasks
  Lists,       \* the subtasks a form posts: their orders, as the page numbers them
  Periods,     \* the days, weeks and months a statistic is made of
  MaxAsked,    \* how many requests there are (a bound)
  Nothing      \* no row, no list, no request

ASSUME ChecklistAssumption ==
  /\ IsFiniteSet(Tasks) /\ IsFiniteSet(Subs) /\ Tasks \cap Subs = {}
  /\ IsFiniteSet(Dates) /\ Dates \subseteq Int
  /\ Lists \subseteq Seq(Nat)
  /\ \A list \in Lists : \A i, j \in DOMAIN list : list[i] = list[j] => i = j
  /\ Periods \subseteq SUBSET Dates
  /\ MaxAsked \in Nat
  /\ Nothing \notin Tasks \cup Subs

VARIABLES
  task,    \* the table of tasks: a row, or Nothing
  sub,     \* the table of subtasks: a row, or Nothing
  given,   \* the primary keys that were given out
  pc,      \* the next statement of a request
  at,      \* the task it works on
  item,    \* the subtask it works on, or the task it copies
  row,     \* the row it holds in memory
  todo,    \* the orders of the subtasks it has to insert
  count,   \* the counts of a rating or of a statistic
  asked,   \* how many requests there were
  posted,  \* auxiliary: the orders of the subtasks it has inserted
  mixed    \* auxiliary: tasks whose list was written while another request
           \* was about to write it, too

vars == <<task, sub, given, pc, at, item, row, todo, count, asked, posted, mixed>>

tables == <<task, sub, given>>
work == <<at, item, row, todo, posted>>

-----------------------------------------------------------------------------
(* The tables *)

TaskRow == [date : Dates, category : Categories, done : BOOLEAN]

SubRow == [task : Tasks, done : BOOLEAN, order : Nat]

Live == {t \in Tasks : task[t] # Nothing}

ListOf(t) == {s \in Subs : sub[s] # Nothing /\ sub[s].task = t}

Orders(t) == {sub[s].order : s \in ListOf(t)}

\* Without the rows of these keys.
Without(table, keys) ==
  [k \in DOMAIN table |-> IF k \in keys THEN Nothing ELSE table[k]]

\* The orders of the subtasks of a task, as a query returns them.
Listings(t) ==
  {list \in [1 .. Cardinality(ListOf(t)) -> Orders(t)] :
     /\ \A i, j \in DOMAIN list : i < j => list[i] <= list[j]
     /\ \A n \in Orders(t) : Cardinality({i \in DOMAIN list : list[i] = n})
                               = Cardinality({s \in ListOf(t) : sub[s].order = n})}

-----------------------------------------------------------------------------
(* The queries of the counts *)

\* The tasks among some, of some dates and categories, or their subtasks.
Query(rows, tasks, dates, categories) ==
  [rows |-> rows, tasks |-> tasks, dates |-> dates, categories |-> categories]

\* get_performance_rating
RatingOf(t) == Query("subs", {t}, Dates, Categories)

\* calculate_completion_stats, get_daily_stats
TaskCounts ==
  UNION {{Query("tasks", Tasks, p, {c}) : p \in Periods} : c \in Categories}

\* calculate_subtask_completion_stats, get_daily_subtask_stats
SubCounts == {Query("subs", Tasks, p, Categories) : p \in Periods}

\* calendar_view
DayCounts == {Query("tasks", Tasks, {d}, Categories) : d \in Dates}

\* What a query finds in given tables.
Found(tasks, subs, q) ==
  LET selected == {t \in q.tasks : /\ tasks[t] # Nothing
                                   /\ tasks[t].date \in q.dates
                                   /\ tasks[t].category \in q.categories}
  IN IF q.rows = "tasks" THEN selected
     ELSE {s \in Subs : subs[s] # Nothing /\ subs[s].task \in selected}

Matching(q) == Found(task, sub, q)

Completed(q) ==
  {k \in Matching(q) : IF q.rows = "tasks" THEN task[k].done ELSE sub[k].done}

\* The label of a rating, from "No Performance" to "Fully Successful".
Grade(completed, total) ==
  IF completed = 0 THEN 0
  ELSE 1 + Cardinality({k \in 5 .. 9 : 10 * completed >= k * total})

\* The alert of the dashboard about a category.
Alarm(completed, total) == total > 0 /\ total - completed > completed

NewCount(q) == [query |-> q, completed |-> 0, was |-> 0, total |-> 0, lost |-> 0]

\* Noted of every count that is being made: the rows its query has lost.
NoteLosses ==
  count' = [r \in Requests |->
    IF count[r] = Nothing THEN Nothing
    ELSE LET q == count[r].query
             gone == Matching(q) \ Found(task', sub', q)
         IN [count[r] EXCEPT !.lost = @ + Cardinality(gone)]]

-----------------------------------------------------------------------------
(* The requests *)

Idle == {"idle", "dead"}
TaskSteps == {"insert", "copy", "collect", "update", "mark"}
ListSteps == {"drop", "post", "top", "add", "flip", "remove"}
RatingSteps == {"fetch", "exists", "completed", "total", "rated"}

Goto(r, step) == pc' = [pc EXCEPT ![r] = step]

Begin(r, step) ==
  /\ pc[r] = "idle" /\ asked < MaxAsked
  /\ asked' = asked + 1
  /\ Goto(r, step)

\* The answer is sent; nothing of the request is left.
End(r, step) ==
  /\ Goto(r, step)
  /\ at' = [at EXCEPT ![r] = Nothing] /\ item' = [item EXCEPT ![r] = Nothing]
  /\ row' = [row EXCEPT ![r] = Nothing] /\ todo' = [todo EXCEPT ![r] = Nothing]
  /\ posted' = [posted EXCEPT ![r] = Nothing]
  /\ count' = [count EXCEPT ![r] = Nothing]

Finish(r) == End(r, "idle")

\* A request that has read of a list what its next statements rely on.
Holds(r, t) == at[r] = t /\ pc[r] \in {"collect", "post", "add", "flip"}

Held(t, others) == \E q \in others : Holds(q, t)

NoteWrite(r, t) ==
  mixed' = IF Held(t, Requests \ {r}) THEN mixed \cup {t} ELSE mixed

\* An empty list is nobody's, unless somebody is about to write to it.
NoteEmpty(t, others) ==
  mixed' = IF Held(t, others) THEN mixed \cup {t} ELSE mixed \ {t}

-----------------------------------------------------------------------------
(* The task of the list *)

\* create_personal_task up to task.save(); without a list none is posted.
NewTask(r, date, category, list) ==
  /\ Begin(r, "insert")
  /\ row' = [row EXCEPT ![r] = [date |-> date, category |-> category, done |-> FALSE]]
  /\ todo' = [todo EXCEPT ![r] = IF list = Nothing THEN <<>> ELSE list]
  /\ UNCHANGED <<tables, at, item, posted, count, mixed>>

\* copy_tasks_from_yesterday, for one id.
CopyTask(r, t) ==
  /\ t \in Live /\ task[t].date + 1 \in Dates
  /\ Begin(r, "copy")
  /\ item' = [item EXCEPT ![r] = t]
  /\ row' = [row EXCEPT ![r] = [task[t] EXCEPT !.date = @ + 1, !.done = FALSE]]
  /\ UNCHANGED <<tables, at, todo, posted, count, mixed>>

InsertTask(r) ==
  /\ pc[r] \in {"insert", "copy"}
  /\ \E t \in Tasks \ given :
       /\ given' = given \cup {t}
       /\ task' = [task EXCEPT ![t] = row[r]]
       /\ at' = [at EXCEPT ![r] = t]
  /\ row' = [row EXCEPT ![r] = Nothing]
  /\ posted' = [posted EXCEPT ![r] = <<>>]
  /\ Goto(r, IF pc[r] = "insert" THEN "post" ELSE "collect")
  /\ UNCHANGED <<sub, item, todo, count, asked, mixed>>

\* original_task.subtasks.all(), when the loop begins.
CollectList(r) ==
  /\ pc[r] = "collect"
  /\ \E list \in Listings(item[r]) : todo' = [todo EXCEPT ![r] = list]
  /\ item' = [item EXCEPT ![r] = Nothing]
  /\ mixed' = IF item[r] \in mixed THEN mixed \cup {at[r]} ELSE mixed
  /\ Goto(r, "post")
  /\ UNCHANGED <<tables, at, row, posted, count, asked>>

\* edit_personal_task up to form.save(), toggle_task_completion up to save().
OpenTask(r, t, new, list, step) ==
  /\ t \in Live
  /\ Begin(r, step)
  /\ at' = [at EXCEPT ![r] = t]
  /\ row' = [row EXCEPT ![r] = new]
  /\ todo' = [todo EXCEPT ![r] = list]
  /\ UNCHANGED <<tables, item, posted, count, mixed>>

EditTask(r, t, date, category, list) ==
  OpenTask(r, t, [task[t] EXCEPT !.date = date, !.category = category], list, "update")

ToggleTask(r, t, done) ==
  OpenTask(r, t, [task[t] EXCEPT !.done = done], Nothing, "mark")

\* save() writes all of the row, and inserts it again when it is gone.
SaveTask(r) ==
  /\ pc[r] \in {"update", "mark"}
  /\ task' = [task EXCEPT ![at[r]] = row[r]]
  /\ row' = [row EXCEPT ![r] = Nothing]
  /\ Goto(r, IF pc[r] = "mark" THEN "exists" ELSE "drop")
  /\ UNCHANGED <<sub, given, at, item, todo, asked, posted, mixed>>
  /\ NoteLosses

\* Mutant: nothing cascades.
DeleteTask_KeepsList(t) ==
  /\ t \in Live /\ asked < MaxAsked
  /\ asked' = asked + 1
  /\ task' = Without(task, {t})
  /\ UNCHANGED sub
  /\ NoteEmpty(t, Requests)
  /\ UNCHANGED <<given, pc, work>>
  /\ NoteLosses

\* delete_personal_task: one transaction, which takes the subtasks with it.
DeleteTask(t) ==
  /\ t \in Live /\ asked < MaxAsked
  /\ asked' = asked + 1
  /\ task' = Without(task, {t})
  /\ sub' = Without(sub, ListOf(t))
  /\ NoteEmpty(t, Requests)
  /\ UNCHANGED <<given, pc, work>>
  /\ NoteLosses

-----------------------------------------------------------------------------
(* The list *)

\* Mutant: the new subtasks are put beside the old ones.
DropList_Keeps(r) ==
  /\ pc[r] = "drop" /\ todo[r] # Nothing
  /\ posted' = [posted EXCEPT ![r] = <<>>]
  /\ Goto(r, "post")
  /\ NoteEmpty(at[r], Requests \ {r})
  /\ UNCHANGED <<tables, at, item, row, todo, asked, count>>

\* An edit that posts a list deletes the one there is.
DropList(r) ==
  /\ pc[r] = "drop" /\ todo[r] # Nothing
  /\ sub' = Without(sub, ListOf(at[r]))
  /\ posted' = [posted EXCEPT ![r] = <<>>]
  /\ Goto(r, "post")
  /\ NoteEmpty(at[r], Requests \ {r})
  /\ UNCHANGED <<task, given, at, item, row, todo, asked>>
  /\ NoteLosses

KeepList(r) ==
  /\ pc[r] = "drop" /\ todo[r] = Nothing
  /\ Finish(r)
  /\ UNCHANGED <<tables, asked, mixed>>

\* SubTask.objects.create of the form, of a copy and of create_subtask.
InsertSub(r) ==
  /\ pc[r] \in {"post", "add"} /\ todo[r] # <<>>
  /\ at[r] \in Live
  /\ \E s \in Subs \ given :
       /\ given' = given \cup {s}
       /\ sub' = [sub EXCEPT ![s] =
            [task |-> at[r], done |-> FALSE, order |-> Head(todo[r])]]
  /\ todo' = [todo EXCEPT ![r] = Tail(@)]
  /\ posted' = [posted EXCEPT ![r] = Append(@, Head(todo[r]))]
  /\ NoteWrite(r, at[r])
  /\ UNCHANGED <<task, pc, at, item, row, count, asked>>

\* The task is gone: the foreign key refuses the row, and the request fails.
RefuseSub(r) ==
  /\ pc[r] \in {"post", "add"} /\ todo[r] # <<>>
  /\ at[r] \notin Live
  /\ Finish(r)
  /\ UNCHANGED <<tables, asked, mixed>>

EndList(r) ==
  /\ pc[r] \in {"post", "add"} /\ todo[r] = <<>>
  /\ Finish(r)
  /\ UNCHANGED <<tables, asked, mixed>>

\* create_subtask
AddSub(r, t) ==
  /\ t \in Live
  /\ Begin(r, "top")
  /\ at' = [at EXCEPT ![r] = t]
  /\ UNCHANGED <<tables, item, row, todo, posted, count, mixed>>

\* Mutant: the subtasks are counted.
ReadTop_Count(r) ==
  /\ pc[r] = "top"
  /\ todo' = [todo EXCEPT ![r] = <<Cardinality(ListOf(at[r])) + 1>>]
  /\ posted' = [posted EXCEPT ![r] = <<>>]
  /\ Goto(r, "add")
  /\ UNCHANGED <<tables, at, item, row, count, asked, mixed>>

\* The highest order, or 0, and one more.
ReadTop(r) ==
  /\ pc[r] = "top"
  /\ \E top \in {0} \cup Orders(at[r]) :
       /\ \A n \in Orders(at[r]) : n <= top
       /\ todo' = [todo EXCEPT ![r] = <<top + 1>>]
  /\ posted' = [posted EXCEPT ![r] = <<>>]
  /\ Goto(r, "add")
  /\ UNCHANGED <<tables, at, item, row, count, asked, mixed>>

\* get_object_or_404 of toggle_subtask_completion and delete_subtask.
OpenSub(r, s, new, step) ==
  /\ sub[s] # Nothing
  /\ Begin(r, step)
  /\ item' = [item EXCEPT ![r] = s]
  /\ at' = [at EXCEPT ![r] = sub[s].task]
  /\ row' = [row EXCEPT ![r] = new]
  /\ UNCHANGED <<tables, todo, posted, count, mixed>>

ToggleSub(r, s, done) == OpenSub(r, s, [sub[s] EXCEPT !.done = done], "flip")

DeleteSub(r, s) == OpenSub(r, s, Nothing, "remove")

\* save() inserts a row that is gone again, unless its task is gone, too.
SaveSub(r) ==
  /\ pc[r] = "flip" /\ at[r] \in Live
  /\ sub' = [sub EXCEPT ![item[r]] = row[r]]
  /\ NoteWrite(r, at[r])
  /\ item' = [item EXCEPT ![r] = Nothing] /\ row' = [row EXCEPT ![r] = Nothing]
  /\ Goto(r, "fetch")
  /\ UNCHANGED <<task, given, at, todo, posted, count, asked>>

RefuseSave(r) ==
  /\ pc[r] = "flip" /\ at[r] \notin Live
  /\ Finish(r)
  /\ UNCHANGED <<tables, asked, mixed>>

RemoveSub(r) ==
  /\ pc[r] = "remove"
  /\ sub' = Without(sub, {item[r]})
  /\ NoteWrite(r, at[r])
  /\ item' = [item EXCEPT ![r] = Nothing]
  /\ Goto(r, "fetch")
  /\ UNCHANGED <<task, given, at, row, todo, posted, asked>>
  /\ NoteLosses

-----------------------------------------------------------------------------
(* Ratings and statistics *)

\* The task of the subtask is fetched, which fails when it is gone.
FetchTask(r) ==
  /\ pc[r] = "fetch"
  /\ IF at[r] \in Live
     THEN Goto(r, "exists") /\ UNCHANGED <<work, count>>
     ELSE Finish(r)
  /\ UNCHANGED <<tables, asked, mixed>>

\* get_task_subtasks
ShowList(r, t) ==
  /\ t \in Live
  /\ Begin(r, "exists")
  /\ at' = [at EXCEPT ![r] = t]
  /\ UNCHANGED <<tables, item, row, todo, posted, count, mixed>>

\* get_performance_rating: are there subtasks at all?
Exists(r) ==
  /\ pc[r] = "exists"
  /\ IF ListOf(at[r]) = {} THEN Goto(r, "rated") /\ UNCHANGED count
     ELSE /\ Goto(r, "completed")
          /\ count' = [count EXCEPT ![r] = NewCount(RatingOf(at[r]))]
  /\ UNCHANGED <<tables, work, asked, mixed>>

\* One of the statistics of a page; a page has one after the other.
Statistic(r, q) ==
  /\ Begin(r, "completed")
  /\ count' = [count EXCEPT ![r] = NewCount(q)]
  /\ UNCHANGED <<tables, work, mixed>>

CountCompleted(r) ==
  /\ pc[r] = "completed"
  /\ LET q == count[r].query IN
     count' = [count EXCEPT ![r].completed = Cardinality(Completed(q)),
                            ![r].was = Cardinality(Matching(q))]
  /\ Goto(r, "total")
  /\ UNCHANGED <<tables, work, asked, mixed>>

\* Mutant: all the rows are counted first, those that are completed after.
CountTotal_First(r) ==
  /\ pc[r] = "total"
  /\ count' = [count EXCEPT
       ![r].completed = Cardinality(Completed(count[r].query)),
       ![r].total = count[r].was]
  /\ Goto(r, "rated")
  /\ UNCHANGED <<tables, work, asked, mixed>>

\* A rating divides by the second count; a statistic looks at it first.
CountTotal(r) ==
  /\ pc[r] = "total"
  /\ LET total == Cardinality(Matching(count[r].query)) IN
     IF at[r] # Nothing /\ total = 0 THEN Finish(r)
     ELSE /\ count' = [count EXCEPT ![r].total = total]
          /\ Goto(r, "rated") /\ UNCHANGED work
  /\ UNCHANGED <<tables, asked, mixed>>

\* What is left of a request reads, and records the completion of a task.
Reply(r) ==
  /\ pc[r] = "rated"
  /\ Finish(r)
  /\ UNCHANGED <<tables, asked, mixed>>

-----------------------------------------------------------------------------

\* The process dies, or the database refuses a statement: the request ends.
Abort(r) ==
  /\ pc[r] \notin Idle
  /\ End(r, "dead")
  /\ UNCHANGED <<tables, asked, mixed>>

Init ==
  /\ task = [t \in Tasks |-> Nothing] /\ sub = [s \in Subs |-> Nothing]
  /\ given = {}
  /\ pc = [r \in Requests |-> "idle"]
  /\ at = [r \in Requests |-> Nothing] /\ item = [r \in Requests |-> Nothing]
  /\ row = [r \in Requests |-> Nothing] /\ todo = [r \in Requests |-> Nothing]
  /\ posted = [r \in Requests |-> Nothing]
  /\ count = [r \in Requests |-> Nothing]
  /\ asked = 0 /\ mixed = {}

TaskRequest(r) ==
  \/ \E d \in Dates, c \in Categories, list \in Lists \cup {Nothing} :
       \/ NewTask(r, d, c, list)
       \/ \E t \in Tasks : EditTask(r, t, d, c, list)
  \/ \E t \in Tasks : CopyTask(r, t) \/ \E done \in BOOLEAN : ToggleTask(r, t, done)
  \/ InsertTask(r) \/ CollectList(r) \/ SaveTask(r)

ListRequest(r) ==
  \/ DropList(r) \/ KeepList(r) \/ InsertSub(r) \/ RefuseSub(r) \/ EndList(r)
  \/ (\E t \in Tasks : AddSub(r, t)) \/ ReadTop(r)
  \/ \E s \in Subs : DeleteSub(r, s) \/ \E done \in BOOLEAN : ToggleSub(r, s, done)
  \/ SaveSub(r) \/ RefuseSave(r) \/ RemoveSub(r)

CountRequest(r) ==
  \/ FetchTask(r) \/ (\E t \in Tasks : ShowList(r, t)) \/ Exists(r)
  \/ \E q \in TaskCounts \cup SubCounts \cup DayCounts : Statistic(r, q)
  \/ CountCompleted(r) \/ CountTotal(r) \/ Reply(r)

Next ==
  \/ \E r \in Requests :
       TaskRequest(r) \/ ListRequest(r) \/ CountRequest(r) \/ Abort(r)
  \/ \E t \in Tasks : DeleteTask(t)

Spec == Init /\ [][Next]_vars

-----------------------------------------------------------------------------
(* Properties *)

QueryType == [rows : {"tasks", "subs"}, tasks : SUBSET Tasks,
              dates : SUBSET Dates, categories : SUBSET Categories]

CountType == [query : QueryType, completed : Nat, was : Nat, total : Nat, lost : Nat]

ASSUME NothingAssumption ==
  /\ Nothing \notin TaskRow /\ Nothing \notin SubRow
  /\ Nothing \notin Seq(Nat) /\ Nothing \notin CountType

\* The types of the variables; no subtask is without its task, and a request
\* holds what its next statement needs.
TypeOK ==
  /\ task \in [Tasks -> TaskRow \cup {Nothing}]
  /\ sub \in [Subs -> SubRow \cup {Nothing}]
  /\ given \subseteq Tasks \cup Subs
  /\ pc \in [Requests -> Idle \cup TaskSteps \cup ListSteps \cup RatingSteps]
  /\ at \in [Requests -> Tasks \cup {Nothing}]
  /\ item \in [Requests -> Tasks \cup Subs \cup {Nothing}]
  /\ row \in [Requests -> TaskRow \cup SubRow \cup {Nothing}]
  /\ todo \in [Requests -> Seq(Nat) \cup {Nothing}]
  /\ posted \in [Requests -> Seq(Nat) \cup {Nothing}]
  /\ count \in [Requests -> CountType \cup {Nothing}]
  /\ asked \in Nat /\ mixed \subseteq Tasks \cap given
  /\ \A t \in Live : t \in given
  /\ \A s \in Subs : sub[s] # Nothing => s \in given /\ sub[s].task \in Live
  /\ \A r \in Requests :
       /\ at[r] \in given \cup {Nothing} /\ item[r] \in given \cup {Nothing}
       /\ pc[r] \in {"insert", "copy", "update", "mark"} => row[r] \in TaskRow
       /\ pc[r] \in {"collect", "update", "mark", "exists", "fetch"} \cup ListSteps
            => at[r] \in Tasks
       /\ pc[r] \in {"copy", "collect"} => item[r] \in Tasks
       /\ pc[r] \in {"flip", "remove"} => item[r] \in Subs
       /\ pc[r] = "flip" => row[r] \in SubRow /\ row[r].task = at[r]
       /\ pc[r] \in {"insert", "post", "add"} => todo[r] \in Seq(Nat)
       /\ pc[r] \in {"collect", "post", "add"} => posted[r] \in Seq(Nat)
       /\ pc[r] \in {"completed", "total"} => count[r] # Nothing

\* While no other request writes to the list of a task, a form that posts a
\* list leaves exactly that list, from the top and with nothing completed:
\* nothing of the old list, and none of it twice.
ListAsPosted ==
  \A r \in Requests : pc[r] = "post" /\ at[r] \notin mixed =>
    LET list == ListOf(at[r]) IN
    /\ Cardinality(list) = Len(posted[r])
    /\ {sub[s].order : s \in list} = {posted[r][i] : i \in DOMAIN posted[r]}
    /\ \A s \in list : ~sub[s].done

\* The subtasks of a task have orders of their own, whatever was added, deleted,
\* posted and copied, unless two requests wrote to its list at once.
OrdersDistinct ==
  \A t \in Tasks \ mixed :
    \A s, u \in ListOf(t) : sub[s].order = sub[u].order => s = u

\* A rating and a statistic are made of two counts, one after the other.  Unless
\* rows were taken away in between, the completed ones are never more than all,
\* no rating is divided by zero or better than it was at the first count, and no
\* alert is left out that was due then.
CountsFit ==
  \A r \in Requests : count[r] # Nothing =>
    LET c == count[r] IN
    /\ pc[r] \in {"completed", "total"} /\ at[r] # Nothing /\ c.lost = 0
         => Matching(c.query) # {}
    /\ pc[r] = "total" => c.completed <= c.was
                          /\ c.was <= Cardinality(Matching(c.query)) + c.lost
    /\ pc[r] = "rated" =>
         /\ c.completed <= c.was /\ c.was <= c.total + c.lost
         /\ c.lost = 0 =>
              /\ c.completed <= c.total
              /\ Grade(c.completed, c.total) <= Grade(c.completed, c.was)
              /\ Alarm(c.completed, c.was) => Alarm(c.completed, c.total)

=============================================================================
