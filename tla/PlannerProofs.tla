--------------------------- MODULE PlannerProofs ---------------------------
(* What holds of the planner for every value of its constants. *)
EXTENDS Planner, TLAPS, FiniteSetTheorems

-----------------------------------------------------------------------------
(* Types *)

\* A request that takes a row holds it by the types.
LEMMA TakeType ==
  ASSUME TypeOK, NEW r \in Requests, NEW i \in Ids \cup {NoTask},
         NEW row \in RowType, NEW step \in TaskSteps, Take(r, i, row, step)
  PROVE  /\ pc' \in [Requests -> {"idle"} \cup TaskSteps \cup PlanSteps]
         /\ id' \in [Requests -> Ids \cup {NoTask}]
         /\ copy' \in [Requests -> RowType \cup {NoTask}]
  BY DEF Take, TypeOK

\* What a new row is made of.
LEMMA NewRowType ==
  ASSUME NEW date \in Int, NEW start \in Times, NEW end \in Times,
         NEW nn \in BOOLEAN, NEW parent \in Ids \cup {NoTask}
  PROVE  NewRow(date, start, end, nn, parent) \in RowType
  BY DEF NewRow, RowType

\* Times of day stay times of day.
LEMMA LaterType ==
  ASSUME NEW time \in Int, NEW length \in Int
  PROVE  Later(time, length) \in Times
  BY PlannerAssumption DEF Later, Times

\* The date a loop is at, and the one it goes on to.
LEMMA NextDateType ==
  ASSUME NEW p \in PlanType
  PROVE  Target(p) \in Int /\ NextDate(p) \in PlanType
<1>1. p.of \in ScheduleType /\ p.current \in Int /\ p.week \in Nat
      /\ p.visited \subseteq Int
  BY PlannerAssumption DEF PlanType
<1>2. p.of.weekday \in Int /\ p.of.first \in Int
  BY <1>1, PlannerAssumption DEF ScheduleType
<1>3. (p.of.weekday - p.current) % Week \in Int
  BY <1>1, <1>2, PlannerAssumption
<1>4. Target(p) \in Int
  BY <1>1, <1>2, <1>3, PlannerAssumption DEF Target
<1>5. /\ Target(p) + 1 \in Int /\ p.week + 1 \in Nat
      /\ p.visited \cup {Target(p)} \in SUBSET Int
  BY <1>1, <1>4
<1>6. NextDate(p) \in PlanType
  <2> DEFINE date == Target(p)
  <2> HIDE DEF date
  <2>1. date + 1 \in Int /\ p.visited \cup {date} \in SUBSET Int
    BY <1>5 DEF date
  <2>2. [p EXCEPT !.current = date + 1, !.week = p.week + 1,
                  !.visited = @ \cup {date}] \in PlanType
    BY <1>5, <2>1 DEF PlanType
  <2> QED
    BY <2>2 DEF NextDate, date
<1> QED
  BY <1>4, <1>6

\* Every step of a request that works on a task keeps the types.
LEMMA TaskRequestType ==
  ASSUME TypeOK, NEW r \in Requests, TaskRequest(r)
  PROVE  TypeOK'
<1> USE PlannerAssumption, NoTaskAssumption
<1>1. ASSUME NEW f \in Forms, NewTask(r, f) PROVE TypeOK'
  <2>1. NewRow(f.date, f.start, f.end, f.nn, NoTask) \in RowType
    BY NewRowType DEF FormType
  <2> QED
    BY <1>1, <2>1 DEF NewTask, Take, TypeOK, TaskSteps, PlanSteps, Live, ghosts
<1>2. ASSUME NEW f \in Forms, NEW i \in Ids, EditTask(r, i, f) PROVE TypeOK'
  <2>1. db[i] \in RowType /\ made[i] # "nothing"
    BY <1>2 DEF EditTask, Live, TypeOK
  <2>2. [db[i] EXCEPT !.date = f.date, !.start = f.start,
                      !.end = f.end, !.nn = f.nn] \in RowType
    BY <2>1 DEF RowType, FormType
  <2>3. FamilyOf(i, db[i]) \in Ids
    BY <2>1 DEF FamilyOf, IsBreak, RowType
  <2> QED
    BY <1>2, <2>1, <2>2, <2>3
    DEF EditTask, Take, NoteMeeting, TypeOK, TaskSteps, PlanSteps, Live
<1>3. ASSUME NEW i \in Ids, NEW done \in Marks, OpenToggle(r, i, done) PROVE TypeOK'
  <2>1. db[i] \in RowType /\ made[i] # "nothing"
    BY <1>3 DEF OpenToggle, Live, TypeOK
  <2>2. [db[i] EXCEPT !.done = done] \in RowType
    BY <2>1 DEF RowType
  <2>3. FamilyOf(i, db[i]) \in Ids
    BY <2>1 DEF FamilyOf, IsBreak, RowType
  <2> QED
    BY <1>3, <2>1, <2>2, <2>3
    DEF OpenToggle, Take, NoteMeeting, TypeOK, TaskSteps, PlanSteps, Live
<1>4. CASE Insert(r)
  BY <1>4 DEF Insert, Take, TypeOK, TaskSteps, PlanSteps, Live, Fresh, ghosts
<1>5. CASE Update(r)
  BY <1>5 DEF Update, Goto, TypeOK, TaskSteps, PlanSteps, Live
<1>6. CASE DropBreaks(r)
  BY <1>6 DEF DropBreaks, Remove, Goto, TypeOK, TaskSteps, PlanSteps, Live
<1>7. CASE SeekBreak(r)
  BY <1>7 DEF SeekBreak, Goto, Finish, Take, TypeOK, TaskSteps, PlanSteps, Live, ghosts
<1>8. CASE FindRoom(r)
  BY <1>8 DEF FindRoom, Goto, Finish, Take, TypeOK, TaskSteps, PlanSteps, Live, ghosts
<1>9. CASE InsertBreak(r)
  <2>1. copy[r] \in RowType /\ id[r] \in Ids
    BY <1>9 DEF InsertBreak, TypeOK, TaskSteps
  <2>2. copy[r].date \in Int /\ copy[r].end \in Times /\ copy[r].end \in Int
    BY <2>1 DEF RowType, Times
  <2>3. Later(copy[r].end, Pause) \in Times
    BY <2>2, LaterType
  <2>4. NewRow(copy[r].date, copy[r].end, Later(copy[r].end, Pause), FALSE, id[r])
          \in RowType
    BY <2>1, <2>2, <2>3, NewRowType
  <2>5. PICK b \in Fresh, row \in RowType :
          db' = [db EXCEPT ![b] = row] /\ made' = [made EXCEPT ![b] = "form"]
    BY <1>9, <2>4 DEF InsertBreak
  <2>6. Finish(r) /\ UNCHANGED <<plan, scheduled, history, ghosts>>
    BY <1>9 DEF InsertBreak
  <2> QED
    BY <2>5, <2>6 DEF Finish, Take, TypeOK, TaskSteps, PlanSteps, Live, Fresh, ghosts
<1>10. CASE Flip(r)
  BY <1>10 DEF Flip, Goto, TypeOK, TaskSteps, PlanSteps, Live, ghosts
<1>11. CASE Record(r)
  <2>1. copy[r].done \in BOOLEAN
    BY <1>11 DEF Record, TypeOK, TaskSteps, RowType
  <2> QED
    BY <1>11, <2>1 DEF Record, Finish, Take, TypeOK, TaskSteps, PlanSteps, Live, ghosts
<1> QED
  BY <1>1, <1>2, <1>3, <1>4, <1>5, <1>6, <1>7, <1>8, <1>9, <1>10, <1>11
  DEF TaskRequest

\* Every step of a generation keeps the types.
LEMMA PlanRequestType ==
  ASSUME TypeOK, NEW r \in Requests, PlanRequest(r)
  PROVE  TypeOK'
<1> USE PlannerAssumption, NoTaskAssumption
<1>1. ASSUME NEW s \in Schedules, Generate(r, s) PROVE TypeOK'
  <2>1. Start(s) \in PlanType
    BY DEF Start, PlanType, ScheduleType
  <2> QED
    BY <1>1, <2>1
    DEF Generate, Goto, Generating, TypeOK, TaskSteps, PlanSteps, Live
<1>2. CASE Scan(r)
  <2>1. NextDate(plan[r]) \in PlanType
    BY <1>2, NextDateType DEF Scan, TypeOK, PlanSteps
  <2> QED
    BY <1>2, <2>1
    DEF Scan, Goto, TypeOK, TaskSteps, PlanSteps, Live, ghosts, request
<1>3. CASE Book(r)
  <2>1. plan[r] \in PlanType
    BY <1>3 DEF Book, TypeOK, PlanSteps
  <2>2. NextDate(plan[r]) \in PlanType /\ Target(plan[r]) \in Int
    BY <2>1, NextDateType
  <2>3. plan[r].of.start \in Times /\ plan[r].of.duration \in Nat
    BY <2>1 DEF PlanType, ScheduleType
  <2>4. EndTime(plan[r].of) \in Times
    <3>1. plan[r].of.start \in Int /\ plan[r].of.duration \in Int
      BY <2>3 DEF Times
    <3> QED
      BY <3>1, LaterType DEF EndTime
  <2>5. NewRow(Target(plan[r]), plan[r].of.start, EndTime(plan[r].of), TRUE, NoTask)
          \in RowType
    BY <2>2, <2>3, <2>4, NewRowType
  <2>6. PICK i \in Fresh, row \in RowType :
          db' = [db EXCEPT ![i] = row] /\ made' = [made EXCEPT ![i] = "plan"]
    BY <1>3, <2>5 DEF Book
  <2>7. PICK p \in PlanType : plan' = [plan EXCEPT ![r] = p]
    BY <1>3, <2>2 DEF Book
  <2>8. Goto(r, "scan") /\ UNCHANGED <<scheduled, history, ghosts>> /\ pc[r] = "book"
    BY <1>3 DEF Book
  <2> QED
    BY <2>6, <2>7, <2>8
    DEF Goto, TypeOK, TaskSteps, PlanSteps, Live, Fresh, ghosts
<1>4. CASE LeaveLoop(r)
  BY <1>4 DEF LeaveLoop, Goto, TypeOK, TaskSteps, PlanSteps, Live, ghosts
<1>5. CASE MarkScheduled(r)
  <2>1. plan[r].of \in Schedules
    BY <1>5 DEF MarkScheduled, TypeOK, PlanSteps, PlanType
  <2> QED
    BY <1>5, <2>1
    DEF MarkScheduled, Finish, Take, TypeOK, TaskSteps, PlanSteps, Live, ghosts
<1> QED
  BY <1>1, <1>2, <1>3, <1>4, <1>5 DEF PlanRequest

\* The steps that belong to no request, or end one, keep the types.
LEMMA OtherType ==
  ASSUME TypeOK,
         \/ \E r \in Requests : Abort(r)
         \/ \E i \in Ids : DeleteTask(i)
         \/ \E i \in Live : \E t \in Overrides \cup {<<db[i].start, db[i].end>>} :
              CopyTask(i, t)
  PROVE  TypeOK'
<1> USE PlannerAssumption, NoTaskAssumption
<1>1. ASSUME NEW r \in Requests, Abort(r) PROVE TypeOK'
  <2>1. pc[r] \in {"drop", "record"} => FamilyOf(id[r], copy[r]) \in Ids
    BY DEF TypeOK, TaskSteps, FamilyOf, IsBreak, RowType
  <2> QED
    BY <1>1, <2>1 DEF Abort, Finish, Take, TypeOK, TaskSteps, PlanSteps, Live
<1>2. ASSUME NEW i \in Ids, DeleteTask(i) PROVE TypeOK'
  <2>1. FamilyOf(i, db[i]) \in Ids
    BY <1>2 DEF DeleteTask, Live, TypeOK, FamilyOf, IsBreak, RowType
  <2> QED
    BY <1>2, <2>1 DEF DeleteTask, Remove, TypeOK, TaskSteps, PlanSteps, Live, request
<1>3. ASSUME NEW i \in Live,
             NEW t \in Overrides \cup {<<db[i].start, db[i].end>>}, CopyTask(i, t)
      PROVE  TypeOK'
  <2>1. db[i] \in RowType
    BY DEF Live, TypeOK
  <2>2. t[1] \in Times /\ t[2] \in Times
    BY <2>1 DEF RowType
  <2>3. db[i].date + 1 \in Int /\ db[i].nn \in BOOLEAN
    BY <2>1 DEF RowType
  <2>4. NewRow(db[i].date + 1, t[1], t[2], db[i].nn, NoTask) \in RowType
    BY <2>2, <2>3, NewRowType
  <2> QED
    BY <1>3, <2>4
    DEF CopyTask, TypeOK, TaskSteps, PlanSteps, Live, Fresh, request, ghosts
<1> QED
  BY <1>1, <1>2, <1>3

LEMMA TypeStep == ASSUME TypeOK, [Next]_vars PROVE TypeOK'
<1>1. CASE UNCHANGED vars
  BY <1>1 DEF vars, TypeOK, Live
<1> QED
  BY <1>1, TaskRequestType, PlanRequestType, OtherType DEF Next, Live

LEMMA TypeInit == Init => TypeOK
  BY PlannerAssumption, NoTaskAssumption
  DEF Init, TypeOK, TaskSteps, PlanSteps, Live

\* The variables keep their types: no time of day leaves the day, whatever
\* length a schedule or a break has, and no row has an id that was not given out.
THEOREM TypeCorrect == Spec => []TypeOK
<1> QED
  BY TypeInit, TypeStep, PTL DEF Spec

-----------------------------------------------------------------------------
(* Breaks *)

\* What the row of a task, or an object some request holds of it, says of its
\* parent: a deleted row may come back from such an object.
Says(i, p) ==
  \/ i \in Live /\ db[i].parent = p
  \/ \E r \in Requests : id[r] = i /\ copy[r].parent = p

\* Rows and objects of one task agree on its parent, and that a parent has none
\* is true of its row and of every object of it.
FamilyInv ==
  /\ \A i \in Ids, p, q \in Ids \cup {NoTask} : Says(i, p) /\ Says(i, q) => p = q
  /\ \A i, p \in Ids : Says(i, p) => /\ made[p] # "nothing"
                                    /\ \A q \in Ids : ~Says(p, q)

ParentsLive == \A b \in Live : IsBreak(db[b]) => db[b].parent \in Live

\* Only a task that is no break goes on to get one.
PlainInv ==
  \A r \in Requests :
    pc[r] \in {"room", "pause"} \/ (pc[r] = "save" /\ id[r] = NoTask)
      => copy[r].parent = NoTask

BreakInv == FamilyInv /\ ParentsLive /\ PlainInv

\* The invariant says what it is for.
LEMMA BreakInvImplies == ASSUME TypeOK, BreakInv PROVE BreaksOfTasks
<1> SUFFICES ASSUME NEW b \in Live, IsBreak(db[b])
             PROVE  db[b].parent \in Live /\ ~IsBreak(db[db[b].parent])
  BY DEF BreaksOfTasks
<1>1. db[b].parent \in Live
  BY DEF BreakInv, ParentsLive
<1>2. Says(b, db[b].parent) /\ Says(db[b].parent, db[db[b].parent].parent)
  BY <1>1 DEF Says
<1>3. db[db[b].parent] \in RowType
  BY <1>1 DEF Live, TypeOK
<1>4. db[db[b].parent].parent \in Ids \cup {NoTask}
  BY <1>3 DEF RowType
<1> QED
  BY <1>1, <1>2, <1>4 DEF BreakInv, FamilyInv, IsBreak, Live

\* A step after which nothing new is said of any parent keeps the families.
LEMMA FamilyKept ==
  ASSUME FamilyInv,
         \A i \in Ids, p \in Ids \cup {NoTask} : Says(i, p)' => Says(i, p),
         \A p \in Ids : made[p] # "nothing" => made'[p] # "nothing"
  PROVE  FamilyInv'
  BY DEF FamilyInv

\* Nor does a step that inserts one row, without a parent or below a task that
\* has none: no object speaks of an id before it is given out.
LEMMA FamilyGrows ==
  ASSUME TypeOK, FamilyInv, NEW new \in Fresh, NEW parent \in Ids \cup {NoTask},
         parent # NoTask => /\ made[parent] # "nothing"
                            /\ \A q \in Ids : ~Says(parent, q),
         \A i \in Ids, p \in Ids \cup {NoTask} :
           Says(i, p)' => Says(i, p) \/ (i = new /\ p = parent),
         \A p \in Ids : made[p] # "nothing" => made'[p] # "nothing"
  PROVE  FamilyInv'
<1>1. \A p \in Ids \cup {NoTask} : ~Says(new, p)
  BY PlannerAssumption DEF Says, Fresh, TypeOK
<1>2. \A i \in Ids : ~Says(i, new)
  BY DEF FamilyInv, Fresh
<1>3. new \in Ids /\ new # NoTask /\ parent # new
  BY PlannerAssumption DEF Fresh
<1>4. \A i \in Ids, p, q \in Ids \cup {NoTask} : Says(i, p)' /\ Says(i, q)' => p = q
  BY <1>1, <1>3 DEF FamilyInv
<1>5. \A i, p \in Ids : Says(i, p)' => made'[p] # "nothing"
  BY PlannerAssumption DEF FamilyInv
<1>6. \A i, p, q \in Ids : Says(i, p)' => ~Says(p, q)'
  BY <1>2, <1>3, PlannerAssumption DEF FamilyInv
<1> QED
  BY <1>4, <1>5, <1>6 DEF FamilyInv

\* A task and its breaks go together: no break loses its parent.
LEMMA RemoveKeepsParents ==
  ASSUME TypeOK, BreakInv, NEW i \in Ids, NEW gone \in SUBSET Ids,
         gone = BreaksOf(i) \/ gone = {i} \cup BreaksOf(i), Remove(gone)
  PROVE  ParentsLive'
<1> SUFFICES ASSUME NEW b \in Live', IsBreak(db'[b])
             PROVE  db'[b].parent \in Live'
  BY DEF ParentsLive
<1>1. b \in Live /\ b \notin gone /\ db'[b] = db[b] /\ db[b] \in RowType
  BY DEF Remove, Live, TypeOK
<1>2. db[b].parent \in Live /\ db[b].parent \in Ids
  BY <1>1 DEF BreakInv, ParentsLive, Live
<1>3. db[b].parent \notin BreaksOf(i)
  <2>1. Says(b, db[b].parent)
    BY <1>1 DEF Says
  <2>2. \A q \in Ids : ~Says(db[b].parent, q)
    BY <1>1, <1>2, <2>1 DEF BreakInv, FamilyInv, Live
  <2> QED
    BY <2>2 DEF Says, BreaksOf
<1>4. db[b].parent # i \/ gone = BreaksOf(i)
  BY <1>1 DEF BreaksOf
<1> QED
  BY <1>1, <1>2, <1>3, <1>4 DEF Remove, Live, BreaksOf

LEMMA BreakInit == Init => BreakInv
  BY PlannerAssumption
  DEF Init, BreakInv, FamilyInv, ParentsLive, PlainInv, Says, Live

\* The steps that work on a task or toggle it keep the breaks in order.
LEMMA TaskRequestBreaks ==
  ASSUME TypeOK, BreakInv, NEW r \in Requests, TaskRequest(r)
  PROVE  BreakInv'
<1> USE PlannerAssumption, NoTaskAssumption
<1>1. ASSUME NEW f \in Forms, NewTask(r, f) PROVE BreakInv'
  <2>1. \A i \in Ids, p \in Ids \cup {NoTask} : Says(i, p)' => Says(i, p)
    BY <1>1 DEF NewTask, Take, TypeOK, Says, Live
  <2>2. FamilyInv'
    BY <1>1, <2>1, FamilyKept DEF NewTask, BreakInv
  <2>3. ParentsLive' /\ PlainInv'
    BY <1>1 DEF NewTask, Take, NewRow, BreakInv, ParentsLive, PlainInv, TypeOK, Live
  <2> QED
    BY <2>2, <2>3 DEF BreakInv
<1>2. ASSUME NEW i \in Live, NEW row, row.parent = db[i].parent,
             NEW step \in {"save", "flip"},
             Take(r, i, row, step), UNCHANGED <<db, made>>
      PROVE  BreakInv'
  <2>1. \A j \in Ids, p \in Ids \cup {NoTask} : Says(j, p)' => Says(j, p)
    BY <1>2 DEF Take, TypeOK, Says, Live
  <2>2. FamilyInv'
    BY <1>2, <2>1, FamilyKept DEF BreakInv
  <2>3. ParentsLive' /\ PlainInv'
    BY <1>2 DEF Take, BreakInv, ParentsLive, PlainInv, TypeOK, Live
  <2> QED
    BY <2>2, <2>3 DEF BreakInv
<1>3. ASSUME NEW f \in Forms, NEW i \in Ids, EditTask(r, i, f) PROVE BreakInv'
  <2>1. db[i] \in RowType /\ i \in Live
    BY <1>3 DEF EditTask, Live, TypeOK
  <2>2. [db[i] EXCEPT !.date = f.date, !.start = f.start,
                      !.end = f.end, !.nn = f.nn].parent = db[i].parent
    BY <2>1 DEF RowType
  <2> QED
    BY <1>2, <1>3, <2>1, <2>2 DEF EditTask
<1>4. ASSUME NEW i \in Ids, NEW done \in Marks, OpenToggle(r, i, done)
      PROVE  BreakInv'
  <2>1. db[i] \in RowType /\ i \in Live
    BY <1>4 DEF OpenToggle, Live, TypeOK
  <2>2. [db[i] EXCEPT !.done = done].parent = db[i].parent
    BY <2>1 DEF RowType
  <2> QED
    BY <1>2, <1>4, <2>1, <2>2 DEF OpenToggle
<1>5. CASE Insert(r)
  <2>1. PICK i \in Fresh : /\ db' = [db EXCEPT ![i] = copy[r]]
                           /\ made' = [made EXCEPT ![i] = "form"]
                           /\ Take(r, i, copy[r], "seek")
    BY <1>5 DEF Insert
  <2>2. copy[r].parent = NoTask /\ copy[r] \in RowType
    BY <1>5 DEF Insert, BreakInv, PlainInv, TypeOK, TaskSteps
  <2>3. \A j \in Ids, p \in Ids \cup {NoTask} :
          Says(j, p)' => Says(j, p) \/ (j = i /\ p = NoTask)
    BY <2>1, <2>2 DEF Take, TypeOK, Says, Live, Fresh
  <2>4. \A p \in Ids : made[p] # "nothing" => made'[p] # "nothing"
    BY <2>1 DEF TypeOK
  <2>5. FamilyInv'
    BY <2>3, <2>4, FamilyGrows DEF BreakInv
  <2>6. ParentsLive' /\ PlainInv'
    BY <2>1, <2>2
    DEF Take, BreakInv, ParentsLive, PlainInv, IsBreak, TypeOK, Live, Fresh
  <2> QED
    BY <2>5, <2>6 DEF BreakInv
<1>6. ASSUME CanWrite(r), NEW step \in {"drop", "record"}, id[r] \in Ids,
             pc[r] \in TaskSteps, db' = [db EXCEPT ![id[r]] = copy[r]],
             Goto(r, step), UNCHANGED made
      PROVE  BreakInv'
  <2>1. copy[r] \in RowType
    BY <1>6 DEF TypeOK
  <2>2. \A i \in Ids, p \in Ids \cup {NoTask} : Says(i, p)' => Says(i, p)
    BY <1>6, <2>1 DEF Goto, TypeOK, Says, Live
  <2>3. FamilyInv'
    BY <1>6, <2>2, FamilyKept DEF BreakInv
  <2>4. ParentsLive' /\ PlainInv'
    BY <1>6, <2>1
    DEF CanWrite, Goto, BreakInv, ParentsLive, PlainInv, TypeOK, Live
  <2> QED
    BY <2>3, <2>4 DEF BreakInv
<1>7. CASE Update(r)
  BY <1>6, <1>7 DEF Update, TypeOK, TaskSteps
<1>8. CASE Flip(r)
  BY <1>6, <1>8 DEF Flip, TypeOK, TaskSteps
<1>9. CASE DropBreaks(r)
  <2>1. id[r] \in Ids
    BY <1>9 DEF DropBreaks, TypeOK, TaskSteps
  <2>2. ParentsLive'
    BY <1>9, <2>1, RemoveKeepsParents DEF DropBreaks, BreaksOf, Live
  <2>3. \A i \in Ids, p \in Ids \cup {NoTask} : Says(i, p)' => Says(i, p)
    BY <1>9 DEF DropBreaks, Remove, Goto, TypeOK, Says, Live
  <2>4. FamilyInv'
    BY <1>9, <2>3, FamilyKept DEF DropBreaks, BreakInv
  <2>5. PlainInv'
    BY <1>9 DEF DropBreaks, Goto, BreakInv, PlainInv, TypeOK
  <2> QED
    BY <2>2, <2>4, <2>5 DEF BreakInv
<1>10. ASSUME UNCHANGED <<db, made>>,
              \/ Finish(r)
              \/ Goto(r, "pause") /\ pc[r] = "room"
              \/ Goto(r, "room") /\ WantsBreak(copy[r])
       PROVE  BreakInv'
  <2>1. \A i \in Ids, p \in Ids \cup {NoTask} : Says(i, p)' => Says(i, p)
    BY <1>10 DEF Finish, Take, Goto, TypeOK, Says, Live
  <2>2. FamilyInv'
    BY <1>10, <2>1, FamilyKept DEF BreakInv
  <2>3. ParentsLive'
    BY <1>10 DEF BreakInv, ParentsLive, Live
  <2>4. PlainInv'
    BY <1>10 DEF Finish, Take, Goto, BreakInv, PlainInv, WantsBreak, IsBreak, TypeOK
  <2> QED
    BY <2>2, <2>3, <2>4 DEF BreakInv
<1>11. CASE SeekBreak(r) \/ FindRoom(r) \/ Record(r)
  <2>1. CASE SeekBreak(r)
    BY <1>10, <2>1 DEF SeekBreak
  <2>2. CASE FindRoom(r)
    BY <1>10, <2>2 DEF FindRoom
  <2>3. CASE Record(r)
    BY <1>10, <2>3 DEF Record
  <2> QED
    BY <1>11, <2>1, <2>2, <2>3
<1>12. CASE InsertBreak(r)
  <2> DEFINE row == NewRow(copy[r].date, copy[r].end, Later(copy[r].end, Pause),
                           FALSE, id[r])
  <2>1. PICK b \in Fresh : /\ db' = [db EXCEPT ![b] = row]
                           /\ made' = [made EXCEPT ![b] = "form"]
    BY <1>12 DEF InsertBreak
  <2>2. row.parent = id[r]
    BY DEF NewRow
  <2>3. Finish(r) /\ id[r] \in Live /\ pc[r] = "pause" /\ made[id[r]] # "nothing"
    BY <1>12 DEF InsertBreak, TypeOK
  <2> HIDE DEF row
  <2>4. \A q \in Ids : ~Says(id[r], q)
    <3>1. Says(id[r], NoTask)
      BY <2>3 DEF Says, BreakInv, PlainInv
    <3> QED
      BY <2>3, <3>1 DEF BreakInv, FamilyInv, Live
  <2>5. \A j \in Ids, p \in Ids \cup {NoTask} :
          Says(j, p)' => Says(j, p) \/ (j = b /\ p = id[r])
    BY <2>1, <2>2, <2>3 DEF Finish, Take, TypeOK, Says, Live, Fresh
  <2>6. \A p \in Ids : made[p] # "nothing" => made'[p] # "nothing"
    BY <2>1 DEF TypeOK
  <2>7. FamilyInv'
    BY <2>3, <2>4, <2>5, <2>6, FamilyGrows DEF BreakInv, Live
  <2>8. ParentsLive'
    <3>1. b \notin Live
      BY DEF Fresh, TypeOK
    <3> QED
      BY <2>1, <2>2, <2>3, <3>1 DEF BreakInv, ParentsLive, TypeOK, Live, Fresh
  <2>9. PlainInv'
    BY <2>3 DEF Finish, Take, BreakInv, PlainInv, TypeOK
  <2> QED
    BY <2>7, <2>8, <2>9 DEF BreakInv
<1> QED
  BY <1>1, <1>3, <1>4, <1>5, <1>7, <1>8, <1>9, <1>11, <1>12 DEF TaskRequest

\* So do the steps of a generation and those of no request: a booked row and a
\* copied one have no parent, whatever they were made from.
LEMMA RowWithoutParent ==
  ASSUME TypeOK, BreakInv, NEW new \in Fresh, NEW row, row.parent = NoTask,
         NEW kind, kind # "nothing", UNCHANGED <<id, copy>>,
         db' = [db EXCEPT ![new] = row], made' = [made EXCEPT ![new] = kind]
  PROVE  FamilyInv' /\ ParentsLive'
<1> USE PlannerAssumption, NoTaskAssumption
<1>1. \A j \in Ids, p \in Ids \cup {NoTask} :
        Says(j, p)' => Says(j, p) \/ (j = new /\ p = NoTask)
  BY DEF TypeOK, Says, Live, Fresh
<1>2. \A p \in Ids : made[p] # "nothing" => made'[p] # "nothing"
  BY DEF TypeOK
<1>3. FamilyInv'
  BY <1>1, <1>2, FamilyGrows DEF BreakInv
<1>4. new \notin Live
  BY DEF Fresh, TypeOK
<1>5. ParentsLive'
  BY <1>4 DEF BreakInv, ParentsLive, IsBreak, TypeOK, Live, Fresh
<1> QED
  BY <1>3, <1>5

LEMMA PlanRequestBreaks ==
  ASSUME TypeOK, BreakInv, NEW r \in Requests, PlanRequest(r)
  PROVE  BreakInv'
<1> USE PlannerAssumption, NoTaskAssumption
<1>1. ASSUME UNCHANGED <<db, made>>,
             UNCHANGED request \/ Finish(r)
               \/ \E step \in PlanSteps : pc[r] \in {"idle"} \cup PlanSteps /\ Goto(r, step)
      PROVE  BreakInv'
  <2>1. \A i \in Ids, p \in Ids \cup {NoTask} : Says(i, p)' => Says(i, p)
    BY <1>1 DEF Finish, Take, Goto, TypeOK, Says, Live, request
  <2>2. FamilyInv'
    BY <1>1, <2>1, FamilyKept DEF BreakInv
  <2>3. ParentsLive' /\ PlainInv'
    BY <1>1
    DEF Finish, Take, Goto, request, BreakInv, ParentsLive, PlainInv, TypeOK,
        PlanSteps, Live
  <2> QED
    BY <2>2, <2>3 DEF BreakInv
<1>2. ASSUME NEW s \in Schedules, Generate(r, s) PROVE BreakInv'
  BY <1>1, <1>2 DEF Generate, PlanSteps
<1>3. CASE Scan(r)
  BY <1>1, <1>3 DEF Scan, PlanSteps
<1>4. CASE LeaveLoop(r)
  BY <1>1, <1>4 DEF LeaveLoop, PlanSteps
<1>5. CASE MarkScheduled(r)
  BY <1>1, <1>5 DEF MarkScheduled
<1>6. CASE Book(r)
  <2> DEFINE row == NewRow(Target(plan[r]), plan[r].of.start,
                           EndTime(plan[r].of), TRUE, NoTask)
  <2>1. PICK i \in Fresh : /\ db' = [db EXCEPT ![i] = row]
                           /\ made' = [made EXCEPT ![i] = "plan"]
    BY <1>6 DEF Book
  <2>2. row.parent = NoTask
    BY DEF NewRow
  <2>3. Goto(r, "scan") /\ pc[r] = "book"
    BY <1>6 DEF Book
  <2> HIDE DEF row
  <2>4. FamilyInv' /\ ParentsLive'
    BY <2>1, <2>2, <2>3, RowWithoutParent DEF Goto
  <2>5. PlainInv'
    BY <2>3 DEF Goto, BreakInv, PlainInv, TypeOK
  <2> QED
    BY <2>4, <2>5 DEF BreakInv
<1> QED
  BY <1>2, <1>3, <1>4, <1>5, <1>6 DEF PlanRequest

LEMMA OtherBreaks ==
  ASSUME TypeOK, BreakInv,
         \/ \E r \in Requests : Abort(r)
         \/ \E i \in Ids : DeleteTask(i)
         \/ \E i \in Live : \E t \in Overrides \cup {<<db[i].start, db[i].end>>} :
              CopyTask(i, t)
  PROVE  BreakInv'
<1> USE PlannerAssumption, NoTaskAssumption
<1>1. ASSUME NEW r \in Requests, Abort(r) PROVE BreakInv'
  <2>1. \A i \in Ids, p \in Ids \cup {NoTask} : Says(i, p)' => Says(i, p)
    BY <1>1 DEF Abort, Finish, Take, TypeOK, Says, Live
  <2>2. FamilyInv'
    BY <1>1, <2>1, FamilyKept DEF Abort, BreakInv
  <2>3. ParentsLive' /\ PlainInv'
    BY <1>1 DEF Abort, Finish, Take, BreakInv, ParentsLive, PlainInv, TypeOK, Live
  <2> QED
    BY <2>2, <2>3 DEF BreakInv
<1>2. ASSUME NEW i \in Ids, DeleteTask(i) PROVE BreakInv'
  <2>1. ParentsLive'
    BY <1>2, RemoveKeepsParents DEF DeleteTask, BreaksOf, Live
  <2>2. \A j \in Ids, p \in Ids \cup {NoTask} : Says(j, p)' => Says(j, p)
    BY <1>2 DEF DeleteTask, Remove, request, TypeOK, Says, Live
  <2>3. FamilyInv'
    BY <1>2, <2>2, FamilyKept DEF DeleteTask, BreakInv
  <2>4. PlainInv'
    BY <1>2 DEF DeleteTask, request, BreakInv, PlainInv
  <2> QED
    BY <2>1, <2>3, <2>4 DEF BreakInv
<1>3. ASSUME NEW i \in Live,
             NEW t \in Overrides \cup {<<db[i].start, db[i].end>>}, CopyTask(i, t)
      PROVE  BreakInv'
  <2> DEFINE row == NewRow(db[i].date + 1, t[1], t[2], db[i].nn, NoTask)
  <2>1. PICK j \in Fresh : /\ db' = [db EXCEPT ![j] = row]
                           /\ made' = [made EXCEPT ![j] = "copy"]
    BY <1>3 DEF CopyTask
  <2>2. row.parent = NoTask
    BY DEF NewRow
  <2> HIDE DEF row
  <2>3. FamilyInv' /\ ParentsLive'
    BY <1>3, <2>1, <2>2, RowWithoutParent DEF CopyTask, request
  <2>4. PlainInv'
    BY <1>3 DEF CopyTask, request, BreakInv, PlainInv
  <2> QED
    BY <2>3, <2>4 DEF BreakInv
<1> QED
  BY <1>1, <1>2, <1>3

LEMMA BreakStep == ASSUME TypeOK, BreakInv, [Next]_vars PROVE BreakInv'
<1>1. CASE UNCHANGED vars
  BY <1>1 DEF vars, BreakInv, FamilyInv, ParentsLive, PlainInv, Says, Live
<1> QED
  BY <1>1, TaskRequestBreaks, PlanRequestBreaks, OtherBreaks DEF Next, Live

\* No interleaving of edits, toggles, deletions and failures leaves a break
\* without its task or puts a break on a break.
THEOREM BreaksInOrder == Spec => []BreaksOfTasks
<1>1. Init => TypeOK /\ BreakInv
  BY TypeInit, BreakInit
<1>2. TypeOK /\ BreakInv /\ [Next]_vars => TypeOK' /\ BreakInv'
  BY TypeStep, BreakStep
<1>3. TypeOK /\ BreakInv => BreaksOfTasks
  BY BreakInvImplies
<1> QED
  BY <1>1, <1>2, <1>3, PTL DEF Spec

-----------------------------------------------------------------------------
(* The non-negotiable tasks of a day *)

\* The requests about to write a non-negotiable task of the date: over the row
\* of an id, or as a new row.
Writing(r, date) ==
  pc[r] \in {"save", "flip"} /\ copy[r].nn /\ copy[r].date = date

Writes(date)  == {r \in Requests : Writing(r, date) /\ id[r] # NoTask}
Inserts(date) == {r \in Requests : Writing(r, date) /\ id[r] = NoTask}

\* The ids that have a place on the date, or will have one when they are written.
Claimed(date) ==
  (NonNegotiable(date) \cup {id[r] : r \in Writes(date)}) \ Unchecked

Bound == Limit - 1 + Cardinality(Requests)

\* A place is claimed from the check of the form on: what is claimed is bounded,
\* and not only what is written.
LimitInv ==
  \A date \in Int :
    Cardinality(Claimed(date)) + Cardinality(Inserts(date)) <= Bound

LEMMA BoundType == Bound \in Nat /\ Cardinality(Requests) \in Nat
  BY FS_CardinalityType, PlannerAssumption DEF Bound

LEMMA ClaimsFinite ==
  ASSUME TypeOK, NEW date
  PROVE  /\ IsFiniteSet(Claimed(date)) /\ IsFiniteSet(Inserts(date))
         /\ Cardinality(Claimed(date)) \in Nat /\ Cardinality(Inserts(date)) \in Nat
<1>1. Claimed(date) \in SUBSET Ids /\ Inserts(date) \in SUBSET Requests
  BY PlannerAssumption DEF Claimed, Inserts, Writes, NonNegotiable, Live, TypeOK
<1>2. IsFiniteSet(Claimed(date)) /\ IsFiniteSet(Inserts(date))
  BY <1>1, FS_Subset, PlannerAssumption
<1> QED
  BY <1>2, FS_CardinalityType

\* The image of a set of requests under any function is no larger than the set.
LEMMA ImageBound ==
  ASSUME NEW f, NEW W \in SUBSET Requests
  PROVE  /\ IsFiniteSet({f[q] : q \in W})
         /\ Cardinality({f[q] : q \in W}) <= Cardinality(W)
<1> DEFINE g == [q \in W |-> f[q]]
<1>1. IsFiniteSet(W)
  BY FS_Subset, PlannerAssumption
<1>2. g \in Surjection(W, {f[q] : q \in W})
  BY DEF Surjection
<1> HIDE DEF g
<1> QED
  BY <1>1, <1>2, FS_Surjection

\* Below the limit there is room for one task of every request, whichever of
\* them are about to write which rows.
LEMMA RoomBelowLimit ==
  ASSUME NEW N, IsFiniteSet(N), Cardinality(N) < Limit, NEW U,
         NEW W \in SUBSET Requests, NEW I \in SUBSET Requests, W \cap I = {},
         NEW F, IsFiniteSet(F), Cardinality(F) <= Cardinality(W)
  PROVE  Cardinality((N \cup F) \ U) + Cardinality(I) <= Bound
<1>2. IsFiniteSet(W) /\ IsFiniteSet(I)
  BY FS_Subset, PlannerAssumption
<1>3. Cardinality(W \cup I) = Cardinality(W) + Cardinality(I)
  <2>1. Cardinality(W \cap I) = 0
    BY FS_EmptySet
  <2>2. Cardinality(W \cup I)
          = Cardinality(W) + Cardinality(I) - Cardinality(W \cap I)
    BY <1>2, FS_Union
  <2>3. Cardinality(W) \in Nat /\ Cardinality(I) \in Nat
    BY <1>2, FS_CardinalityType
  <2> QED
    BY <2>1, <2>2, <2>3
<1>4. Cardinality(W \cup I) <= Cardinality(Requests)
  <2>1. W \cup I \in SUBSET Requests
    OBVIOUS
  <2> QED
    BY <2>1, FS_Subset, PlannerAssumption
<1>5. IsFiniteSet(N \cup F) /\ Cardinality(N \cup F) <= Cardinality(N) + Cardinality(F)
  <2>1. IsFiniteSet(N \cap F)
    BY FS_Intersection
  <2>2. Cardinality(N \cap F) \in Nat /\ Cardinality(N) \in Nat /\ Cardinality(F) \in Nat
    BY <2>1, FS_CardinalityType
  <2>3. /\ IsFiniteSet(N \cup F)
        /\ Cardinality(N \cup F)
             = Cardinality(N) + Cardinality(F) - Cardinality(N \cap F)
    BY FS_Union
  <2> QED
    BY <2>2, <2>3
<1>6. IsFiniteSet((N \cup F) \ U) /\ Cardinality((N \cup F) \ U) <= Cardinality(N \cup F)
  <2>1. (N \cup F) \ U \in SUBSET (N \cup F)
    OBVIOUS
  <2> QED
    BY <1>5, <2>1, FS_Subset
<1>7. /\ Cardinality(N) \in Nat /\ Cardinality(F) \in Nat /\ Cardinality(W) \in Nat
      /\ Cardinality(I) \in Nat /\ Cardinality(N \cup F) \in Nat
      /\ Cardinality((N \cup F) \ U) \in Nat
  BY <1>2, <1>5, <1>6, FS_CardinalityType
<1> QED
  BY <1>3, <1>4, <1>5, <1>6, <1>7, BoundType, PlannerAssumption DEF Bound

\* On a date on which nothing more is claimed the bound is kept.
LEMMA DateKept ==
  ASSUME TypeOK, LimitInv, NEW date \in Int,
         Claimed(date)' \subseteq Claimed(date),
         Inserts(date)' \subseteq Inserts(date)
  PROVE  (Cardinality(Claimed(date)) + Cardinality(Inserts(date)) <= Bound)'
<1>1. /\ Cardinality(Claimed(date)') <= Cardinality(Claimed(date))
      /\ Cardinality(Inserts(date)') <= Cardinality(Inserts(date))
      /\ IsFiniteSet(Claimed(date)') /\ IsFiniteSet(Inserts(date)')
  BY ClaimsFinite, FS_Subset
<1>2. Cardinality(Claimed(date)') \in Nat /\ Cardinality(Inserts(date)') \in Nat
  BY <1>1, FS_CardinalityType
<1>3. Cardinality(Claimed(date)') + Cardinality(Inserts(date)') <= Bound
  BY <1>1, <1>2, ClaimsFinite, BoundType DEF LimitInv
<1> QED
  BY <1>3 DEF Bound

LEMMA LimitInit == Init => LimitInv
<1> SUFFICES ASSUME Init, NEW date \in Int
             PROVE  Cardinality(Claimed(date)) + Cardinality(Inserts(date)) <= Bound
  BY DEF LimitInv
<1>1. Claimed(date) = {} /\ Inserts(date) = {}
  BY DEF Init, Claimed, Inserts, Writes, Writing, NonNegotiable, Live
<1> QED
  BY <1>1, FS_EmptySet, BoundType

\* The tasks of every date are among the rows, so they can be counted.
LEMMA DayFinite ==
  ASSUME TypeOK, NEW date
  PROVE  IsFiniteSet(NonNegotiable(date)) /\ Cardinality(NonNegotiable(date)) \in Nat
<1>1. NonNegotiable(date) \in SUBSET Ids
  BY DEF NonNegotiable, Live
<1>2. IsFiniteSet(NonNegotiable(date))
  BY <1>1, FS_Subset, PlannerAssumption
<1> QED
  BY <1>2, FS_CardinalityType

\* A request that takes a row from the form claims a place only on a date that
\* is below the limit.
LEMMA CheckedKeepsLimit ==
  ASSUME TypeOK, LimitInv, NEW r \in Requests, NEW i \in Ids \cup {NoTask},
         NEW row \in RowType, pc[r] = "idle", Take(r, i, row, "save"),
         UNCHANGED <<db, made>>,
         row.nn => Cardinality(NonNegotiable(row.date)) < Limit
  PROVE  LimitInv'
<1> SUFFICES ASSUME NEW date \in Int
             PROVE  (Cardinality(Claimed(date)) + Cardinality(Inserts(date)) <= Bound)'
  BY DEF LimitInv
<1>1. CASE row.nn /\ row.date = date
  <2>1. IsFiniteSet(NonNegotiable(date)) /\ Cardinality(NonNegotiable(date)) < Limit
    BY <1>1, DayFinite
  <2>2. NonNegotiable(date)' = NonNegotiable(date)
    BY DEF NonNegotiable, Live
  <2>3. /\ Writes(date)' \in SUBSET Requests /\ Inserts(date)' \in SUBSET Requests
        /\ Writes(date)' \cap Inserts(date)' = {}
    BY DEF Writes, Inserts
  <2> DEFINE N == NonNegotiable(date)'
             W == Writes(date)'
             I == Inserts(date)'
             f == id'
             F == {f[q] : q \in W}
             U == Unchecked'
  <2>4. Claimed(date)' = (N \cup F) \ U
    BY DEF Claimed
  <2>5. /\ IsFiniteSet(N) /\ Cardinality(N) < Limit
        /\ W \in SUBSET Requests /\ I \in SUBSET Requests /\ W \cap I = {}
        /\ F = {f[q] : q \in W}
    BY <2>1, <2>2, <2>3
  <2> HIDE DEF N, W, F, U, f
  <2>6. IsFiniteSet(F) /\ Cardinality(F) <= Cardinality(W)
    BY <2>5, ImageBound
  <2>7. Cardinality((N \cup F) \ U) + Cardinality(I) <= Bound
    <3> HIDE DEF I
    <3> QED
      BY <2>5, <2>6, RoomBelowLimit
  <2> QED
    BY <2>4, <2>7 DEF Bound
<1>2. CASE ~(row.nn /\ row.date = date)
  <2>1. Writes(date)' = Writes(date) /\ Inserts(date)' = Inserts(date)
    BY <1>2 DEF Take, Writes, Inserts, Writing, TypeOK
  <2>2. r \notin Writes(date)
    BY DEF Writes, Writing
  <2>3. Claimed(date)' = Claimed(date)
    BY <2>1, <2>2 DEF Take, Claimed, NonNegotiable, Live, Unchecked, TypeOK, Writes
  <2> QED
    BY <2>1, <2>3, DateKept
<1> QED
  BY <1>1, <1>2

\* A request that goes on without writing claims nothing more.
LEMMA GoingOnKeepsLimit ==
  ASSUME TypeOK, LimitInv, NEW r \in Requests, UNCHANGED <<db, made>>,
         \/ UNCHANGED request
         \/ Finish(r)
         \/ \E step \in {"room", "pause"} \cup PlanSteps : Goto(r, step)
  PROVE  LimitInv'
<1> SUFFICES ASSUME NEW date \in Int
             PROVE  (Cardinality(Claimed(date)) + Cardinality(Inserts(date)) <= Bound)'
  BY DEF LimitInv
<1>1. Writes(date)' \subseteq Writes(date) /\ Inserts(date)' \subseteq Inserts(date)
  BY DEF Finish, Take, Goto, request, Writes, Inserts, Writing, PlanSteps, TypeOK
<1>2. \A q \in Writes(date)' : id'[q] = id[q]
  BY DEF Finish, Take, Goto, request, Writes, Writing, PlanSteps, TypeOK
<1>3. Claimed(date)' \subseteq Claimed(date)
  BY <1>1, <1>2 DEF Claimed, NonNegotiable, Live, Unchecked
<1> QED
  BY <1>1, <1>3, DateKept

\* Nor does a request that writes what it has claimed over a row, inserts a row
\* no day counts, or removes rows.
LEMMA WritingKeepsLimit ==
  ASSUME TypeOK, LimitInv, NEW r \in Requests, id[r] \in Ids,
         pc[r] \in {"save", "flip"}, NEW step \in {"drop", "record"}, Goto(r, step),
         db' = [db EXCEPT ![id[r]] = copy[r]], UNCHANGED made
  PROVE  LimitInv'
<1> USE PlannerAssumption, NoTaskAssumption
<1> SUFFICES ASSUME NEW date \in Int
             PROVE  (Cardinality(Claimed(date)) + Cardinality(Inserts(date)) <= Bound)'
  BY DEF LimitInv
<1>1. Writes(date)' \subseteq Writes(date) /\ Inserts(date)' \subseteq Inserts(date)
  BY DEF Goto, Writes, Inserts, Writing, TypeOK
<1>2. \A j \in NonNegotiable(date)' :
        j \in NonNegotiable(date) \/ (j = id[r] /\ r \in Writes(date))
  BY DEF NonNegotiable, Live, Writes, Writing, TypeOK
<1>3. \A q \in Requests : id'[q] = id[q]
  BY DEF Goto
<1>4. Claimed(date)' \subseteq Claimed(date)
  BY <1>1, <1>2, <1>3 DEF Claimed, Unchecked, Writes
<1> QED
  BY <1>1, <1>4, DateKept

LEMMA UncountedKeepsLimit ==
  ASSUME TypeOK, LimitInv, NEW new \in Fresh, NEW row, NEW kind,
         ~row.nn \/ kind \in {"copy", "plan"}, kind # "nothing",
         db' = [db EXCEPT ![new] = row], made' = [made EXCEPT ![new] = kind],
         UNCHANGED request \/ \E r \in Requests : Finish(r) \/ Goto(r, "scan")
  PROVE  LimitInv'
<1> USE PlannerAssumption
<1> SUFFICES ASSUME NEW date \in Int
             PROVE  (Cardinality(Claimed(date)) + Cardinality(Inserts(date)) <= Bound)'
  BY DEF LimitInv
<1>1. Writes(date)' \subseteq Writes(date) /\ Inserts(date)' \subseteq Inserts(date)
  BY DEF Finish, Take, Goto, request, Writes, Inserts, Writing, TypeOK
<1>2. \A q \in Writes(date)' : id'[q] = id[q]
  BY DEF Finish, Take, Goto, request, Writes, Writing, TypeOK
<1>3. \A j \in NonNegotiable(date)' :
        j \in NonNegotiable(date) \/ j \in Unchecked'
  BY DEF NonNegotiable, Live, Unchecked, Fresh, TypeOK
<1>4. Unchecked \subseteq Unchecked'
  BY DEF Unchecked, Fresh, TypeOK
<1>5. Claimed(date)' \subseteq Claimed(date)
  BY <1>1, <1>2, <1>3, <1>4 DEF Claimed
<1> QED
  BY <1>1, <1>5, DateKept

LEMMA RemovingKeepsLimit ==
  ASSUME TypeOK, LimitInv, NEW gone, Remove(gone), UNCHANGED made,
         UNCHANGED request \/ \E r \in Requests : Goto(r, "seek")
  PROVE  LimitInv'
<1> SUFFICES ASSUME NEW date \in Int
             PROVE  (Cardinality(Claimed(date)) + Cardinality(Inserts(date)) <= Bound)'
  BY DEF LimitInv
<1>1. Writes(date)' \subseteq Writes(date) /\ Inserts(date)' \subseteq Inserts(date)
  BY DEF Goto, request, Writes, Inserts, Writing, TypeOK
<1>2. \A q \in Requests : id'[q] = id[q]
  BY DEF Goto, request
<1>3. NonNegotiable(date)' \subseteq NonNegotiable(date)
  BY DEF Remove, NonNegotiable, Live, TypeOK
<1>4. Claimed(date)' \subseteq Claimed(date)
  BY <1>1, <1>2, <1>3 DEF Claimed, Unchecked, Writes
<1> QED
  BY <1>1, <1>4, DateKept

\* A new row takes the place its request has claimed.
LEMMA InsertKeepsLimit ==
  ASSUME TypeOK, LimitInv, NEW r \in Requests, Insert(r)
  PROVE  LimitInv'
<1> USE PlannerAssumption
<1> SUFFICES ASSUME NEW date \in Int
             PROVE  (Cardinality(Claimed(date)) + Cardinality(Inserts(date)) <= Bound)'
  BY DEF LimitInv
<1>1. PICK i \in Fresh : /\ db' = [db EXCEPT ![i] = copy[r]]
                         /\ made' = [made EXCEPT ![i] = "form"]
                         /\ Take(r, i, copy[r], "seek")
  BY DEF Insert
<1>2. pc[r] = "save" /\ id[r] = NoTask
  BY DEF Insert
<1>3. Inserts(date)' = Inserts(date) \ {r} /\ Writes(date)' = Writes(date)
  BY <1>1, <1>2 DEF Take, Inserts, Writes, Writing, TypeOK
<1>4. \A q \in Writes(date) : id'[q] = id[q]
  BY <1>1, <1>2 DEF Take, Writes, TypeOK
<1>5. Unchecked' = Unchecked
  BY <1>1 DEF Unchecked, Fresh, TypeOK
<1>6. CASE r \in Inserts(date)
  <2>1. NonNegotiable(date)' \subseteq NonNegotiable(date) \cup {i}
    BY <1>1 DEF NonNegotiable, Live, TypeOK
  <2>2. Claimed(date)' \in SUBSET (Claimed(date) \cup {i})
    BY <1>3, <1>4, <1>5, <2>1 DEF Claimed
  <2>3. /\ IsFiniteSet(Claimed(date) \cup {i})
        /\ Cardinality(Claimed(date) \cup {i}) <= Cardinality(Claimed(date)) + 1
    <3>1. IsFiniteSet(Claimed(date)) /\ Cardinality(Claimed(date)) \in Nat
      BY ClaimsFinite
    <3>2. /\ IsFiniteSet(Claimed(date) \cup {i})
          /\ Cardinality(Claimed(date) \cup {i})
               = IF i \in Claimed(date) THEN Cardinality(Claimed(date))
                                        ELSE Cardinality(Claimed(date)) + 1
      BY <3>1, FS_AddElement
    <3> QED
      BY <3>1, <3>2
  <2>4. /\ Cardinality(Claimed(date)') <= Cardinality(Claimed(date) \cup {i})
        /\ IsFiniteSet(Claimed(date)')
    BY <2>2, <2>3, FS_Subset
  <2>5. Cardinality(Inserts(date)') = Cardinality(Inserts(date)) - 1
    BY <1>3, <1>6, ClaimsFinite, FS_RemoveElement
  <2>6. /\ Cardinality(Claimed(date)') \in Nat
        /\ Cardinality(Claimed(date) \cup {i}) \in Nat
    BY <2>3, <2>4, FS_CardinalityType
  <2>7. Cardinality(Claimed(date)') + Cardinality(Inserts(date)') <= Bound
    BY <2>3, <2>4, <2>5, <2>6, ClaimsFinite, BoundType DEF LimitInv
  <2> QED
    BY <2>7 DEF Bound
<1>7. CASE r \notin Inserts(date)
  <2>1. NonNegotiable(date)' \subseteq NonNegotiable(date)
    BY <1>1, <1>2, <1>7 DEF NonNegotiable, Inserts, Writing, Live, TypeOK
  <2>2. Claimed(date)' \subseteq Claimed(date)
    BY <1>3, <1>4, <1>5, <2>1 DEF Claimed
  <2> QED
    BY <1>3, <2>2, DateKept
<1> QED
  BY <1>6, <1>7

\* A toggle writes the day and the category of the row it has read: it claims a
\* place the row has.
LEMMA ToggleKeepsLimit ==
  ASSUME TypeOK, LimitInv, NEW r \in Requests, NEW i \in Ids, NEW done \in Marks,
         OpenToggle(r, i, done)
  PROVE  LimitInv'
<1> USE PlannerAssumption
<1> SUFFICES ASSUME NEW date \in Int
             PROVE  (Cardinality(Claimed(date)) + Cardinality(Inserts(date)) <= Bound)'
  BY DEF LimitInv
<1>1. db[i] \in RowType /\ i \in Live /\ pc[r] = "idle"
  BY DEF OpenToggle, Live, TypeOK
<1>2. PICK row \in RowType : /\ row.date = db[i].date /\ row.nn = db[i].nn
                             /\ Take(r, i, row, "flip")
  <2>1. [db[i] EXCEPT !.done = done] \in RowType
    BY <1>1 DEF RowType
  <2>2. /\ [db[i] EXCEPT !.done = done].date = db[i].date
        /\ [db[i] EXCEPT !.done = done].nn = db[i].nn
    BY <1>1 DEF RowType
  <2> QED
    BY <2>1, <2>2 DEF OpenToggle
<1>3. UNCHANGED <<db, made>>
  BY DEF OpenToggle
<1>4. Inserts(date)' = Inserts(date)
  BY <1>1, <1>2 DEF Take, Inserts, Writing, TypeOK
<1>5. \A q \in Writes(date)' :
        (q \in Writes(date) /\ id'[q] = id[q])
          \/ (q = r /\ id'[q] = i /\ i \in NonNegotiable(date))
  BY <1>1, <1>2 DEF Take, Writes, Writing, NonNegotiable, TypeOK
<1>6. Claimed(date)' \subseteq Claimed(date)
  BY <1>3, <1>5 DEF Claimed, NonNegotiable, Live, Unchecked
<1> QED
  BY <1>4, <1>6, DateKept

LEMMA LimitStep ==
  ASSUME TypeOK, LimitInv, [Next]_vars
  PROVE  LimitInv'
<1> USE PlannerAssumption
<1>1. CASE UNCHANGED vars
  <2>1. ASSUME NEW date \in Int
        PROVE  (Cardinality(Claimed(date)) + Cardinality(Inserts(date)) <= Bound)'
    <3>1. Claimed(date)' = Claimed(date) /\ Inserts(date)' = Inserts(date)
      BY <1>1 DEF vars, Claimed, Inserts, Writes, Writing, NonNegotiable, Live, Unchecked
    <3> QED
      BY <3>1, DateKept
  <2> QED
    BY <2>1 DEF LimitInv
<1>2. ASSUME NEW r \in Requests, TaskRequest(r) PROVE LimitInv'
  <2>1. ASSUME NEW f \in Forms, NewTask(r, f) PROVE LimitInv'
    <3> DEFINE row == NewRow(f.date, f.start, f.end, f.nn, NoTask)
    <3>1. row \in RowType /\ row.nn = f.nn /\ row.date = f.date
      BY NewRowType DEF FormType, NewRow
    <3>2. /\ Take(r, NoTask, row, "save") /\ pc[r] = "idle" /\ UNCHANGED <<db, made>>
          /\ f.nn => Cardinality(NonNegotiable(f.date)) < Limit
      BY <2>1 DEF NewTask, Clean
    <3> HIDE DEF row
    <3> QED
      BY <3>1, <3>2, CheckedKeepsLimit
  <2>2. ASSUME NEW f \in Forms, NEW i \in Ids, EditTask(r, i, f) PROVE LimitInv'
    <3> DEFINE row == [db[i] EXCEPT !.date = f.date, !.start = f.start,
                                    !.end = f.end, !.nn = f.nn]
    <3>1. db[i] \in RowType
      BY <2>2 DEF EditTask, Live, TypeOK
    <3>2. row \in RowType /\ row.nn = f.nn /\ row.date = f.date
      BY <3>1 DEF RowType, FormType
    <3>3. /\ Take(r, i, row, "save") /\ pc[r] = "idle" /\ UNCHANGED <<db, made>>
          /\ f.nn => Cardinality(NonNegotiable(f.date)) < Limit
      BY <2>2 DEF EditTask, Clean
    <3> HIDE DEF row
    <3> QED
      BY <3>2, <3>3, CheckedKeepsLimit
  <2>3. CASE \E i \in Ids, done \in Marks : OpenToggle(r, i, done)
    BY <2>3, ToggleKeepsLimit
  <2>4. CASE Insert(r)
    BY <2>4, InsertKeepsLimit
  <2>5. CASE Update(r)
    BY <2>5, WritingKeepsLimit DEF Update, TypeOK
  <2>6. CASE Flip(r)
    BY <2>6, WritingKeepsLimit DEF Flip, TypeOK, TaskSteps
  <2>7. CASE DropBreaks(r)
    BY <2>7, RemovingKeepsLimit DEF DropBreaks
  <2>8. CASE SeekBreak(r)
    BY <2>8, GoingOnKeepsLimit DEF SeekBreak
  <2>9. CASE FindRoom(r)
    BY <2>9, GoingOnKeepsLimit DEF FindRoom
  <2>10. CASE InsertBreak(r)
    <3> DEFINE row == NewRow(copy[r].date, copy[r].end,
                             Later(copy[r].end, Pause), FALSE, id[r])
    <3>1. PICK b \in Fresh : /\ db' = [db EXCEPT ![b] = row]
                             /\ made' = [made EXCEPT ![b] = "form"]
      BY <2>10 DEF InsertBreak
    <3>2. Finish(r) /\ ~row.nn
      BY <2>10 DEF InsertBreak, NewRow
    <3> HIDE DEF row
    <3> QED
      BY <3>1, <3>2, UncountedKeepsLimit
  <2>11. CASE Record(r)
    BY <2>11, GoingOnKeepsLimit DEF Record
  <2> QED
    BY <1>2, <2>1, <2>2, <2>3, <2>4, <2>5, <2>6, <2>7, <2>8, <2>9, <2>10, <2>11
    DEF TaskRequest
<1>3. ASSUME NEW r \in Requests, PlanRequest(r) PROVE LimitInv'
  <2>1. CASE \E s \in Schedules : Generate(r, s)
    BY <2>1, GoingOnKeepsLimit DEF Generate, PlanSteps
  <2>2. CASE Scan(r)
    BY <2>2, GoingOnKeepsLimit DEF Scan, PlanSteps
  <2>3. CASE Book(r)
    <3> DEFINE row == NewRow(Target(plan[r]), plan[r].of.start,
                             EndTime(plan[r].of), TRUE, NoTask)
    <3>1. PICK i \in Fresh : /\ db' = [db EXCEPT ![i] = row]
                             /\ made' = [made EXCEPT ![i] = "plan"]
      BY <2>3 DEF Book
    <3>2. Goto(r, "scan")
      BY <2>3 DEF Book
    <3> HIDE DEF row
    <3> QED
      BY <3>1, <3>2, UncountedKeepsLimit
  <2>4. CASE LeaveLoop(r)
    BY <2>4, GoingOnKeepsLimit DEF LeaveLoop, PlanSteps
  <2>5. CASE MarkScheduled(r)
    BY <2>5, GoingOnKeepsLimit DEF MarkScheduled
  <2> QED
    BY <1>3, <2>1, <2>2, <2>3, <2>4, <2>5 DEF PlanRequest
<1>4. ASSUME NEW r \in Requests, Abort(r) PROVE LimitInv'
  BY <1>4, GoingOnKeepsLimit DEF Abort
<1>5. ASSUME NEW i \in Ids, DeleteTask(i) PROVE LimitInv'
  BY <1>5, RemovingKeepsLimit DEF DeleteTask
<1>6. ASSUME NEW i \in Live, NEW t, CopyTask(i, t) PROVE LimitInv'
  <2> DEFINE row == NewRow(db[i].date + 1, t[1], t[2], db[i].nn, NoTask)
  <2>1. PICK j \in Fresh : /\ db' = [db EXCEPT ![j] = row]
                           /\ made' = [made EXCEPT ![j] = "copy"]
    BY <1>6 DEF CopyTask
  <2> HIDE DEF row
  <2> QED
    BY <1>6, <2>1, UncountedKeepsLimit DEF CopyTask
<1> QED
  BY <1>1, <1>2, <1>3, <1>4, <1>5, <1>6 DEF Next, Live

LEMMA LimitImplies == ASSUME TypeOK, LimitInv PROVE DailyLimit
<1> SUFFICES ASSUME NEW i \in Live
             PROVE  Cardinality(NonNegotiable(db[i].date) \ Unchecked)
                      <= Limit - 1 + Cardinality(Requests)
  BY DEF DailyLimit
<1> DEFINE date == db[i].date
<1>1. date \in Int
  BY DEF Live, TypeOK, RowType
<1> HIDE DEF date
<1>2. NonNegotiable(date) \ Unchecked \in SUBSET Claimed(date)
  BY DEF Claimed
<1>3. /\ Cardinality(NonNegotiable(date) \ Unchecked) <= Cardinality(Claimed(date))
      /\ IsFiniteSet(NonNegotiable(date) \ Unchecked)
  BY <1>2, ClaimsFinite, FS_Subset
<1>4. Cardinality(NonNegotiable(date) \ Unchecked) \in Nat
  BY <1>3, FS_CardinalityType
<1>5. Cardinality(NonNegotiable(date) \ Unchecked) <= Bound
  BY <1>1, <1>3, <1>4, ClaimsFinite, BoundType DEF LimitInv
<1> QED
  BY <1>5 DEF Bound, date

\* The check of the form and the write are two statements, and still a day has
\* at most one task too many for every request but one.
THEOREM LimitHolds == Spec => []DailyLimit
<1>1. Init => TypeOK /\ LimitInv
  BY TypeInit, LimitInit
<1>2. TypeOK /\ LimitInv /\ [Next]_vars => TypeOK' /\ LimitInv'
  BY TypeStep, LimitStep
<1>3. TypeOK /\ LimitInv => DailyLimit
  BY LimitImplies
<1> QED
  BY <1>1, <1>2, <1>3, PTL DEF Spec

-----------------------------------------------------------------------------
(* BookedApart *)

\* Two rows or objects that say the same of the time of a task.
SamePlace(a, b) == a.date = b.date /\ a.start = b.start /\ a.end = b.end

\* A generated task has no parent.  Unless it is disturbed, the one request that
\* may have it in hand has it from the table, and a toggle has its times as
\* they are.
HandInv ==
  \A i \in Ids : made[i] = "plan" =>
    /\ i \in Live => db[i].parent = NoTask
    /\ \A r \in Requests : id[r] = i =>
         /\ copy[r].parent = NoTask
         /\ i \notin disturbed =>
              /\ i \in Live
              /\ \A q \in Requests : id[q] = i => q = r
              /\ pc[r] = "flip" /\ i \notin moved => SamePlace(copy[r], db[i])

\* A generated task that still is where the generation put it.
Booked(i) == i \in Live /\ made[i] = "plan" /\ i \notin moved \cup disturbed

\* As long as no two generations cross, one request is at work on them, and what
\* it found free is free of generated tasks until it books it.
BookInv ==
  ~crossed =>
    /\ \A q, r \in Requests : Generating(q) /\ Generating(r) => q = r
    /\ \A r \in Requests, i \in Ids : pc[r] = "book" /\ Booked(i) =>
         i \notin Overlapping(Target(plan[r]), plan[r].of.start, EndTime(plan[r].of))
    /\ \A i, j \in Ids : Booked(i) /\ Booked(j) /\ i # j =>
         j \notin Overlapping(db[i].date, db[i].start, db[i].end)

\* A step that moves no generated task, and takes no generation further.
LEMMA PlacesKept ==
  ASSUME BookInv, crossed' = crossed, db' \in [Ids -> RowType \cup {NoTask}],
         \A i \in Ids : Booked(i)' => Booked(i) /\ SamePlace(db'[i], db[i]),
         \A r \in Requests : /\ Generating(r)' => Generating(r)
                             /\ pc'[r] = "book" => pc[r] = "book" /\ plan'[r] = plan[r]
  PROVE  BookInv'
<1> SUFFICES ASSUME ~crossed PROVE BookInv'
  BY DEF BookInv
<1>1. \A q, r \in Requests : Generating(q)' /\ Generating(r)' => q = r
  BY DEF BookInv
<1>2. \A i \in Ids : Booked(i)' => i \in Live /\ i \in Live'
  BY DEF Booked
<1>3. \A i, date, start, end : i \in Ids /\ Booked(i)' /\ (i \in Overlapping(date, start, end))'
        => i \in Overlapping(date, start, end)
  BY <1>2 DEF Overlapping, SamePlace
<1>4. ASSUME NEW r \in Requests, NEW i \in Ids, pc'[r] = "book", Booked(i)'
      PROVE  i \notin Overlapping(Target(plan[r]), plan[r].of.start, EndTime(plan[r].of))'
  <2>1. pc[r] = "book" /\ plan'[r] = plan[r] /\ Booked(i)
    BY <1>4
  <2>2. i \notin Overlapping(Target(plan[r]), plan[r].of.start, EndTime(plan[r].of))
    BY <2>1 DEF BookInv
  <2> QED
    BY <1>2, <1>4, <2>1, <2>2 DEF Overlapping, SamePlace
<1>5. ASSUME NEW i \in Ids, NEW j \in Ids, Booked(i)', Booked(j)', i # j
      PROVE  j \notin Overlapping(db[i].date, db[i].start, db[i].end)'
  <2>1. j \notin Overlapping(db[i].date, db[i].start, db[i].end)
    BY <1>5 DEF BookInv
  <2> QED
    BY <1>2, <1>5, <2>1 DEF Overlapping, SamePlace
<1> QED
  BY <1>1, <1>4, <1>5 DEF BookInv

\* A row whose id is given out to somebody else's task is not a generated one.
LEMMA NewRowPlaces ==
  ASSUME TypeOK, HandInv, NEW new \in Fresh, NEW row \in RowType, NEW kind \in {"form", "copy"},
         db' = [db EXCEPT ![new] = row], made' = [made EXCEPT ![new] = kind],
         UNCHANGED <<disturbed, moved>>
  PROVE  /\ \A i \in Ids : Booked(i)' => Booked(i) /\ SamePlace(db'[i], db[i])
         /\ \A i \in Ids : made'[i] = "plan" =>
              made[i] = "plan" /\ db'[i] = db[i] /\ (i \in Live' <=> i \in Live)
  BY DEF TypeOK, Fresh, Booked, SamePlace, Live

\* What a request does to the task it has in hand, and to the table.
LEMMA TaskRequestHand ==
  ASSUME TypeOK, TypeOK', HandInv, BookInv, NEW r \in Requests, TaskRequest(r)
  PROVE  HandInv' /\ BookInv'
<1> USE PlannerAssumption, NoTaskAssumption
<1>0. /\ r \in Requests
      /\ \A q \in Requests : pc[q] = "idle" => id[q] = NoTask
      /\ \A i \in Fresh, q \in Requests : id[q] # i
  BY DEF TypeOK, TaskSteps, Fresh
<1>a. ASSUME NEW step, pc' = [pc EXCEPT ![r] = step], step \notin PlanSteps, UNCHANGED <<plan, crossed>>,
             \A i \in Ids : Booked(i)' => Booked(i) /\ SamePlace(db'[i], db[i])
      PROVE  BookInv'
  <2>1. \A q \in Requests : /\ Generating(q)' => Generating(q)
                            /\ pc'[q] = "book" => pc[q] = "book" /\ plan'[q] = plan[q]
    BY <1>a DEF TypeOK, Generating, PlanSteps
  <2>2. db' \in [Ids -> RowType \cup {NoTask}]
    BY DEF TypeOK
  <2> QED
    BY <1>a, <2>1, <2>2, PlacesKept
<1>b. UNCHANGED <<db, made, moved, disturbed>> =>
        \A i \in Ids : Booked(i)' => Booked(i) /\ SamePlace(db'[i], db[i])
  BY DEF Booked, Live, SamePlace
<1>1. ASSUME NEW f \in Forms, NewTask(r, f) PROVE HandInv' /\ BookInv'
  <2>1. HandInv'
    BY <1>0, <1>1 DEF NewTask, Take, ghosts, HandInv, TypeOK, Live
  <2> QED
    BY <1>1, <1>a, <1>b, <2>1 DEF NewTask, Take, ghosts, PlanSteps
<1>2. ASSUME NEW i \in Live, NEW row \in RowType, row.parent = db[i].parent,
             NEW step \in {"save", "flip"}, step = "flip" => SamePlace(row, db[i]),
             pc[r] = "idle", Take(r, i, row, step), NoteMeeting(r, FamilyOf(i, db[i])),
             UNCHANGED <<db, made, plan>>
      PROVE  HandInv' /\ BookInv'
  <2>1. i \in Ids /\ id[r] = NoTask /\ UNCHANGED <<moved, crossed>> /\ disturbed \subseteq disturbed'
    BY <1>0, <1>2 DEF Live, NoteMeeting
  <2>2. ASSUME made[i] = "plan", NEW q \in Requests, q # r, id[q] = i
        PROVE  i \in disturbed'
    <3>1. copy[q].parent = NoTask /\ db[i].parent = NoTask
      BY <2>1, <2>2 DEF HandInv
    <3>2. pc[q] \in TaskSteps
      BY <2>1, <2>2 DEF TypeOK
    <3>3. InHand(q, i) /\ FamilyOf(i, db[i]) = i
      BY <2>1, <2>2, <3>1, <3>2 DEF InHand, FamilyOf, IsBreak
    <3> QED
      BY <1>2, <2>2, <3>3 DEF NoteMeeting, Meets
  <2>3. /\ id' = [id EXCEPT ![r] = i] /\ copy' = [copy EXCEPT ![r] = row]
        /\ pc' = [pc EXCEPT ![r] = step] /\ Live' = Live
    BY <1>2 DEF Take, Live
  <2>4. ASSUME NEW k \in Ids, made'[k] = "plan"
        PROVE  /\ k \in Live' => db'[k].parent = NoTask
               /\ \A q \in Requests : id'[q] = k =>
                    /\ copy'[q].parent = NoTask
                    /\ k \notin disturbed' =>
                         /\ k \in Live'
                         /\ \A p \in Requests : id'[p] = k => p = q
                         /\ pc'[q] = "flip" /\ k \notin moved' => SamePlace(copy'[q], db'[k])
    <3>1. made[k] = "plan" /\ db'[k] = db[k]
      BY <1>2, <2>4
    <3>2. \A q \in Requests \ {r} : id'[q] = id[q] /\ copy'[q] = copy[q] /\ pc'[q] = pc[q]
      BY <2>3 DEF TypeOK
    <3>3. id'[r] = i /\ copy'[r] = row /\ pc'[r] = step
      BY <2>3 DEF TypeOK
    <3>4. CASE k = i
      BY <1>2, <2>1, <2>2, <2>3, <3>1, <3>2, <3>3, <3>4 DEF HandInv
    <3>5. CASE k # i
      BY <1>2, <2>1, <2>3, <3>1, <3>2, <3>3, <3>5 DEF HandInv
    <3> QED
      BY <3>4, <3>5
  <2>5. HandInv'
    BY <2>4 DEF HandInv
  <2>6. \A k \in Ids : Booked(k)' => Booked(k) /\ SamePlace(db'[k], db[k])
    BY <1>2, <2>1, <2>3 DEF Booked, SamePlace
  <2> QED
    BY <1>2, <1>a, <2>1, <2>3, <2>5, <2>6 DEF PlanSteps
<1>3. ASSUME NEW f \in Forms, NEW i \in Ids, EditTask(r, i, f) PROVE HandInv' /\ BookInv'
  <2> DEFINE row == [db[i] EXCEPT !.date = f.date, !.start = f.start,
                                  !.end = f.end, !.nn = f.nn]
  <2>1. i \in Live /\ db[i] \in RowType
    BY <1>3 DEF EditTask, Live, TypeOK
  <2>2. row \in RowType /\ row.parent = db[i].parent
    BY <2>1 DEF RowType, FormType
  <2> QED
    BY <1>2, <1>3, <2>1, <2>2 DEF EditTask
<1>4. ASSUME NEW i \in Ids, NEW done \in Marks, OpenToggle(r, i, done) PROVE HandInv' /\ BookInv'
  <2> DEFINE row == [db[i] EXCEPT !.done = done]
  <2>1. i \in Live /\ db[i] \in RowType
    BY <1>4 DEF OpenToggle, Live, TypeOK
  <2>2. row \in RowType /\ row.parent = db[i].parent /\ SamePlace(row, db[i])
    BY <2>1 DEF RowType, SamePlace
  <2> QED
    BY <1>2, <1>4, <2>1, <2>2 DEF OpenToggle
<1>5. CASE Insert(r)
  <2>1. PICK i \in Fresh : /\ db' = [db EXCEPT ![i] = copy[r]]
                           /\ made' = [made EXCEPT ![i] = "form"]
                           /\ Take(r, i, copy[r], "seek")
    BY <1>5 DEF Insert
  <2>2. copy[r] \in RowType /\ id[r] = NoTask /\ UNCHANGED <<plan, disturbed, moved, crossed>>
    BY <1>5 DEF Insert, TypeOK, TaskSteps, ghosts
  <2>3. /\ \A k \in Ids : Booked(k)' => Booked(k) /\ SamePlace(db'[k], db[k])
        /\ \A k \in Ids : made'[k] = "plan" =>
             k # i /\ made[k] = "plan" /\ db'[k] = db[k] /\ (k \in Live' <=> k \in Live)
    BY <2>1, <2>2, NewRowPlaces DEF TypeOK, Fresh
  <2>4. HandInv'
    BY <2>1, <2>2, <2>3 DEF Take, HandInv, TypeOK
  <2> QED
    BY <2>1, <2>2, <2>3, <2>4, <1>a DEF Take, PlanSteps
<1>6. ASSUME NEW step \in {"drop", "record"}, id[r] \in Ids, copy[r] \in RowType,
             step = "record" => pc[r] = "flip" /\ moved' = moved,
             step = "drop" => moved' = moved \cup {id[r]},
             db' = [db EXCEPT ![id[r]] = copy[r]],
             Goto(r, step), UNCHANGED <<made, plan, disturbed, crossed>>
      PROVE  HandInv' /\ BookInv'
  <2>1. /\ UNCHANGED <<id, copy>> /\ pc' = [pc EXCEPT ![r] = step]
        /\ db'[id[r]] = copy[r] /\ \A k \in Ids \ {id[r]} : db'[k] = db[k]
    BY <1>6 DEF Goto, TypeOK
  <2>2. moved \subseteq moved' /\ (step = "record" => moved' = moved)
    BY <1>6
  <2>3. Live' = Live \cup {id[r]}
    BY <1>6, <2>1 DEF Live
  <2>4. \A q \in Requests : pc'[q] = "flip" => q # r /\ pc[q] = "flip"
    BY <1>6, <2>1 DEF TypeOK
  <2>5. HandInv'
    BY <1>6, <2>1, <2>2, <2>3, <2>4 DEF HandInv
  <2>6. ASSUME NEW k \in Ids, Booked(k)' PROVE Booked(k) /\ SamePlace(db'[k], db[k])
    <3>1. CASE k # id[r]
      BY <1>6, <2>1, <2>2, <2>3, <2>6, <3>1 DEF Booked, SamePlace
    <3>2. CASE k = id[r]
      <4>1. made[k] = "plan" /\ k \notin disturbed /\ k \notin moved' /\ step = "record"
        BY <1>6, <2>6, <3>2 DEF Booked
      <4>2. k \in Live /\ SamePlace(copy[r], db[k])
        BY <1>6, <3>2, <4>1 DEF HandInv
      <4> QED
        BY <1>6, <2>1, <3>2, <4>1, <4>2 DEF Booked
    <3> QED
      BY <3>1, <3>2
  <2> QED
    BY <1>6, <1>a, <2>1, <2>5, <2>6 DEF PlanSteps
<1>7. CASE Update(r)
  BY <1>6, <1>7 DEF Update, TypeOK, TaskSteps
<1>8. CASE Flip(r)
  BY <1>6, <1>8 DEF Flip, TypeOK, TaskSteps, ghosts
<1>9. CASE DropBreaks(r)
  <2>1. id[r] \in Ids /\ UNCHANGED <<made, plan, disturbed, crossed, id, copy>>
        /\ pc' = [pc EXCEPT ![r] = "seek"] /\ Remove(BreaksOf(id[r]))
    BY <1>9 DEF DropBreaks, TypeOK, TaskSteps, Goto
  <2>2. \A k \in Ids : made[k] = "plan" => k \notin BreaksOf(id[r])
    BY <2>1 DEF HandInv, BreaksOf
  <2>3. \A k \in Ids : made[k] = "plan" =>
          db'[k] = db[k] /\ (k \in moved' <=> k \in moved) /\ (k \in Live' <=> k \in Live)
    BY <2>1, <2>2 DEF Remove, Live
  <2>4. HandInv'
    BY <2>1, <2>3 DEF HandInv, TypeOK
  <2>5. \A k \in Ids : Booked(k)' => Booked(k) /\ SamePlace(db'[k], db[k])
    BY <2>1, <2>3 DEF Booked, SamePlace
  <2> QED
    BY <1>a, <2>1, <2>4, <2>5 DEF PlanSteps
<1>10. ASSUME UNCHANGED <<db, made, plan, ghosts>>,
              Finish(r) \/ \E step \in {"room", "pause"} : Goto(r, step)
       PROVE  HandInv' /\ BookInv'
  <2>1. PICK step \in {"idle", "room", "pause"} : pc' = [pc EXCEPT ![r] = step]
    BY <1>10 DEF Finish, Take, Goto
  <2>2. \A q \in Requests : id'[q] # NoTask => id'[q] = id[q] /\ copy'[q] = copy[q]
    BY <1>10 DEF Finish, Take, Goto, TypeOK
  <2>3. \A q \in Requests : pc'[q] = "flip" => pc[q] = "flip"
    BY <2>1 DEF TypeOK
  <2>4. HandInv'
    BY <1>10, <2>2, <2>3 DEF HandInv, Live, ghosts
  <2> QED
    BY <1>10, <1>a, <1>b, <2>1, <2>4 DEF PlanSteps, ghosts
<1>11. CASE SeekBreak(r) \/ FindRoom(r) \/ Record(r)
  BY <1>10, <1>11 DEF SeekBreak, FindRoom, Record
<1>12. CASE InsertBreak(r)
  <2> DEFINE row == NewRow(copy[r].date, copy[r].end, Later(copy[r].end, Pause),
                           FALSE, id[r])
  <2>1. PICK b \in Fresh : /\ db' = [db EXCEPT ![b] = row]
                           /\ made' = [made EXCEPT ![b] = "form"]
    BY <1>12 DEF InsertBreak
  <2>2. row \in RowType
    <3>1. copy[r] \in RowType /\ id[r] \in Ids
      BY <1>12 DEF InsertBreak, TypeOK, TaskSteps
    <3>2. copy[r].date \in Int /\ copy[r].end \in Times /\ copy[r].end \in Int
      BY <3>1 DEF RowType, Times
    <3>3. Later(copy[r].end, Pause) \in Times
      BY <3>2, LaterType
    <3> QED
      BY <3>1, <3>2, <3>3, NewRowType
  <2>3. Finish(r) /\ UNCHANGED <<plan, disturbed, moved, crossed>>
    BY <1>12 DEF InsertBreak, ghosts
  <2> HIDE DEF row
  <2>4. /\ \A k \in Ids : Booked(k)' => Booked(k) /\ SamePlace(db'[k], db[k])
        /\ \A k \in Ids : made'[k] = "plan" =>
             made[k] = "plan" /\ db'[k] = db[k] /\ (k \in Live' <=> k \in Live)
    BY <2>1, <2>2, <2>3, NewRowPlaces
  <2>5. HandInv'
    BY <2>3, <2>4 DEF Finish, Take, HandInv, TypeOK
  <2> QED
    BY <1>a, <2>3, <2>4, <2>5 DEF Finish, Take, PlanSteps
<1> QED
  BY <1>1, <1>3, <1>4, <1>5, <1>7, <1>8, <1>9, <1>11, <1>12 DEF TaskRequest

\* What one generation finds free it books, before any other generation runs.
LEMMA PlanRequestHand ==
  ASSUME TypeOK, TypeOK', HandInv, BookInv, NEW r \in Requests, PlanRequest(r)
  PROVE  HandInv' /\ BookInv'
<1> USE PlannerAssumption, NoTaskAssumption
<1>0. id[r] = NoTask \/ pc[r] \notin PlanSteps \cup {"idle"}
  BY DEF TypeOK, TaskSteps, PlanSteps
<1>a. ASSUME UNCHANGED <<db, made, disturbed, moved>>, NEW step \in PlanSteps \cup {"idle"},
             pc[r] \in PlanSteps \cup {"idle"}, Goto(r, step) \/ (Finish(r) /\ step = "idle")
      PROVE  /\ HandInv'
             /\ pc' = [pc EXCEPT ![r] = step]
             /\ \A i \in Ids : Booked(i)' => Booked(i) /\ SamePlace(db'[i], db[i])
  <2>1. pc' = [pc EXCEPT ![r] = step]
    BY <1>a DEF Goto, Finish, Take
  <2>2. \A q \in Requests : id'[q] # NoTask => id'[q] = id[q] /\ copy'[q] = copy[q]
    BY <1>a DEF Finish, Take, Goto, TypeOK
  <2>3. \A q \in Requests : pc'[q] = "flip" => pc[q] = "flip"
    BY <2>1 DEF TypeOK, PlanSteps
  <2>4. HandInv'
    BY <1>a, <2>2, <2>3 DEF HandInv, Live
  <2> QED
    BY <1>a, <2>1, <2>4 DEF Booked, Live, SamePlace
<1>1. ASSUME NEW s \in Schedules, Generate(r, s) PROVE HandInv' /\ BookInv'
  <2>1. /\ HandInv' /\ pc' = [pc EXCEPT ![r] = "scan"]
        /\ \A i \in Ids : Booked(i)' => Booked(i) /\ SamePlace(db'[i], db[i])
    BY <1>1, <1>a DEF Generate, PlanSteps
  <2>2. CASE crossed'
    BY <2>1, <2>2 DEF BookInv
  <2>3. CASE ~crossed'
    <3>1. ~crossed /\ \A q \in Requests : ~Generating(q)
      BY <1>1, <2>3 DEF Generate
    <3>2. \A q \in Requests : (Generating(q)' => q = r) /\ pc'[q] # "book"
      BY <2>1, <3>1 DEF Generating, TypeOK, PlanSteps
    <3>3. ASSUME NEW i \in Ids, NEW j \in Ids, Booked(i)', Booked(j)', i # j
          PROVE  j \notin Overlapping(db[i].date, db[i].start, db[i].end)'
      <4>1. Booked(i) /\ Booked(j) /\ db' = db
        BY <1>1, <2>1, <3>3 DEF Generate
      <4> QED
        BY <3>1, <3>3, <4>1 DEF BookInv, Overlapping, Live
    <3>4. \A q, p \in Requests : Generating(q)' /\ Generating(p)' => q = p
      BY <3>2
    <3>5. \A q \in Requests, i \in Ids : ~(pc'[q] = "book" /\ Booked(i)')
      BY <3>2
    <3> QED
      BY <2>1, <3>3, <3>4, <3>5 DEF BookInv
  <2> QED
    BY <2>2, <2>3
<1>2. CASE Scan(r) /\ Conflicting(plan[r]) # {}
  <2>1. pc[r] = "scan" /\ UNCHANGED <<db, made, request, ghosts>>
        /\ \A q \in Requests \ {r} : plan'[q] = plan[q]
    BY <1>2 DEF Scan, TypeOK
  <2>2. HandInv'
    BY <2>1 DEF HandInv, request, ghosts, Live
  <2>3. \A i \in Ids : Booked(i)' => Booked(i) /\ SamePlace(db'[i], db[i])
    BY <2>1 DEF Booked, Live, SamePlace, ghosts
  <2>4. \A q \in Requests : /\ Generating(q)' => Generating(q)
                            /\ pc'[q] = "book" => pc[q] = "book" /\ plan'[q] = plan[q]
    BY <2>1 DEF request, Generating
  <2>5. BookInv'
    BY <2>1, <2>3, <2>4, PlacesKept DEF ghosts, TypeOK
  <2> QED
    BY <2>2, <2>5
<1>3. CASE Scan(r) /\ Conflicting(plan[r]) = {}
  <2>1. /\ pc[r] = "scan" /\ Goto(r, "book") /\ UNCHANGED <<db, made, plan, disturbed, moved, crossed>>
    BY <1>3 DEF Scan, ghosts
  <2>2. HandInv' /\ pc' = [pc EXCEPT ![r] = "book"]
        /\ \A i \in Ids : Booked(i)' => Booked(i)
    BY <2>1, <1>a DEF PlanSteps
  <2>3. ASSUME ~crossed PROVE BookInv'
    <3>1. \A q \in Requests : Generating(q)' => Generating(q)
      BY <2>1, <2>2 DEF Generating, TypeOK, PlanSteps
    <3>2. \A q \in Requests : pc'[q] = "book" => q = r
      BY <2>1, <2>2, <2>3 DEF BookInv, Generating, TypeOK, PlanSteps
    <3>3. ASSUME NEW i \in Ids, Booked(i)'
          PROVE  i \notin Overlapping(Target(plan[r]), plan[r].of.start, EndTime(plan[r].of))'
      <4>1. i \in Live /\ db[i].parent = NoTask
        BY <2>2, <3>3 DEF Booked, HandInv
      <4>2. i \notin Overlapping(Target(plan[r]), plan[r].of.start, EndTime(plan[r].of))
        BY <1>3, <4>1 DEF Conflicting, IsBreak
      <4>3. UNCHANGED <<db, plan>>
        BY <2>1
      <4> QED
        BY <4>2, <4>3 DEF Overlapping, Live
    <3>4. ASSUME NEW i \in Ids, NEW j \in Ids, Booked(i)', Booked(j)', i # j
          PROVE  j \notin Overlapping(db[i].date, db[i].start, db[i].end)'
      BY <2>1, <2>2, <2>3, <3>4 DEF BookInv, Overlapping, Live
    <3> QED
      BY <2>1, <3>1, <3>2, <3>3, <3>4, <2>3 DEF BookInv
  <2> QED
    BY <2>1, <2>2, <2>3 DEF BookInv
<1>4. CASE Book(r)
  <2> DEFINE s == plan[r].of
             row == NewRow(Target(plan[r]), s.start, EndTime(s), TRUE, NoTask)
  <2>1. PICK n \in Fresh : /\ db' = [db EXCEPT ![n] = row]
                           /\ made' = [made EXCEPT ![n] = "plan"]
    BY <1>4 DEF Book
  <2>2. /\ pc[r] = "book" /\ pc' = [pc EXCEPT ![r] = "scan"]
        /\ UNCHANGED <<id, copy, disturbed, moved, crossed>>
        /\ \A q \in Requests \ {r} : plan'[q] = plan[q]
    BY <1>4 DEF Book, Goto, ghosts, TypeOK
  <2>3. /\ row.parent = NoTask /\ row.date = Target(plan[r])
        /\ row.start = s.start /\ row.end = EndTime(s)
    BY DEF NewRow
  <2> HIDE DEF row
  <2>4. /\ n \in Ids /\ n \notin Live /\ made[n] = "nothing"
        /\ \A q \in Requests : id[q] # n
    BY DEF Fresh, TypeOK
  <2>5. /\ db'[n] = row /\ \A i \in Ids \ {n} : db'[i] = db[i] /\ made'[i] = made[i]
        /\ \A i \in Ids \ {n} : i \in Live' <=> i \in Live
    BY <2>1, <2>4 DEF TypeOK, Live
  <2>6. HandInv'
    <3>1. \A q \in Requests : pc'[q] = "flip" => pc[q] = "flip"
      BY <2>2 DEF TypeOK
    <3> QED
      BY <2>2, <2>3, <2>4, <2>5, <3>1 DEF HandInv
  <2>7. ASSUME ~crossed PROVE BookInv'
    <3>1. \A q \in Requests : Generating(q)' => Generating(q)
      BY <2>2 DEF Generating, TypeOK, PlanSteps
    <3>2. \A q \in Requests : pc'[q] # "book"
      BY <2>2, <2>7 DEF BookInv, Generating, TypeOK, PlanSteps
    <3>3. \A i \in Ids \ {n} : Booked(i)' => Booked(i)
      BY <2>2, <2>5 DEF Booked
    <3>4. ASSUME NEW i \in Ids \ {n}, Booked(i)'
          PROVE  ~(db[i].date = row.date /\ db[i].start < row.end /\ db[i].end > row.start)
      BY <2>2, <2>3, <2>7, <3>3, <3>4 DEF BookInv, Overlapping, Booked
    <3>5. ASSUME NEW i \in Ids, NEW j \in Ids, Booked(i)', Booked(j)', i # j
          PROVE  j \notin Overlapping(db[i].date, db[i].start, db[i].end)'
      <4>0. db' \in [Ids -> RowType \cup {NoTask}] /\ i \in Live' /\ j \in Live'
        BY <3>5 DEF TypeOK, Booked
      <4>1. db'[i] \in RowType /\ db'[j] \in RowType
        BY <4>0 DEF Live
      <4>2. /\ db'[i].start \in Int /\ db'[i].end \in Int
            /\ db'[j].start \in Int /\ db'[j].end \in Int
        BY <4>1 DEF RowType, Times
      <4>3. CASE i = n
        BY <2>5, <3>4, <3>5, <4>2, <4>3 DEF Overlapping
      <4>4. CASE j = n
        BY <2>5, <3>4, <3>5, <4>2, <4>4 DEF Overlapping
      <4>5. CASE i # n /\ j # n
        BY <2>5, <2>7, <3>3, <3>5, <4>5 DEF BookInv, Overlapping, Booked
      <4> QED
        BY <4>3, <4>4, <4>5
    <3> QED
      BY <2>2, <2>7, <3>1, <3>2, <3>5 DEF BookInv
  <2> QED
    BY <2>2, <2>6, <2>7 DEF BookInv
<1>5. CASE LeaveLoop(r) \/ MarkScheduled(r)
  <2>1. PICK step \in {"mark", "idle"} :
          Goto(r, step) \/ (Finish(r) /\ step = "idle")
    BY <1>5 DEF LeaveLoop, MarkScheduled
  <2>2. /\ UNCHANGED <<db, made, disturbed, moved, crossed>> /\ pc[r] \in {"scan", "mark"}
        /\ \A q \in Requests \ {r} : plan'[q] = plan[q]
    BY <1>5 DEF LeaveLoop, MarkScheduled, ghosts, TypeOK
  <2>3. /\ HandInv' /\ pc' = [pc EXCEPT ![r] = step]
        /\ \A i \in Ids : Booked(i)' => Booked(i) /\ SamePlace(db'[i], db[i])
    BY <2>1, <2>2, <1>a DEF PlanSteps
  <2>4. \A q \in Requests : /\ Generating(q)' => Generating(q)
                            /\ pc'[q] = "book" => pc[q] = "book" /\ plan'[q] = plan[q]
    BY <2>2, <2>3 DEF Generating, TypeOK, PlanSteps
  <2> QED
    BY <2>2, <2>3, <2>4, PlacesKept DEF TypeOK
<1> QED
  BY <1>1, <1>2, <1>3, <1>4, <1>5 DEF PlanRequest

\* A task that somebody has in hand is disturbed when it is deleted.
LEMMA OtherHand ==
  ASSUME TypeOK, TypeOK', HandInv, BookInv,
         \/ \E r \in Requests : Abort(r)
         \/ \E i \in Ids : DeleteTask(i)
         \/ \E i \in Live : \E t \in Overrides \cup {<<db[i].start, db[i].end>>} :
              CopyTask(i, t)
  PROVE  HandInv' /\ BookInv'
<1> USE PlannerAssumption, NoTaskAssumption
<1>a. ASSUME UNCHANGED crossed, \A i \in Ids : Booked(i)' => Booked(i) /\ SamePlace(db'[i], db[i]),
             \A q \in Requests : pc'[q] \in PlanSteps => pc'[q] = pc[q] /\ plan'[q] = plan[q]
      PROVE  BookInv'
  BY <1>a, PlacesKept DEF TypeOK, Generating, PlanSteps
<1>1. ASSUME NEW r \in Requests, Abort(r) PROVE HandInv' /\ BookInv'
  <2>1. /\ UNCHANGED <<db, made, moved, crossed>> /\ disturbed \subseteq disturbed'
        /\ \A q \in Requests \ {r} :
             pc'[q] = pc[q] /\ plan'[q] = plan[q] /\ id'[q] = id[q] /\ copy'[q] = copy[q]
        /\ pc'[r] = "idle" /\ id'[r] = NoTask
    BY <1>1 DEF Abort, Finish, Take, TypeOK
  <2>2. HandInv'
    BY <2>1 DEF HandInv, Live
  <2>3. \A i \in Ids : Booked(i)' => Booked(i) /\ SamePlace(db'[i], db[i])
    BY <2>1 DEF Booked, Live, SamePlace
  <2> QED
    BY <2>1, <2>2, <2>3, <1>a DEF PlanSteps
<1>2. ASSUME NEW i \in Ids, DeleteTask(i) PROVE HandInv' /\ BookInv'
  <2>1. /\ UNCHANGED <<made, pc, id, copy, plan, crossed>> /\ i \in Live
        /\ Remove({i} \cup BreaksOf(i))
    BY <1>2 DEF DeleteTask, request
  <2>2. \A k \in Ids : made[k] = "plan" => k \notin BreaksOf(i)
    BY DEF HandInv, BreaksOf
  <2>3. \A k \in Ids \ {i} : made[k] = "plan" =>
          db'[k] = db[k] /\ (k \in moved' <=> k \in moved) /\ (k \in Live' <=> k \in Live)
    BY <2>1, <2>2 DEF Remove, Live
  <2>4. \A k \in Ids \ {i} : k \in disturbed => k \in disturbed'
    BY <1>2 DEF DeleteTask
  <2>5. i \notin Live'
    BY <2>1 DEF Remove, Live
  <2>6. ASSUME made[i] = "plan", NEW q \in Requests, id[q] = i
        PROVE  i \in disturbed'
    <3>1. copy[q].parent = NoTask /\ db[i].parent = NoTask
      BY <2>1, <2>6 DEF HandInv
    <3>2. pc[q] \in TaskSteps
      BY <2>6 DEF TypeOK
    <3>3. InHand(q, i) /\ FamilyOf(i, db[i]) = i
      BY <2>6, <3>1, <3>2 DEF InHand, FamilyOf, IsBreak
    <3> QED
      BY <1>2, <3>3 DEF DeleteTask
  <2>7. ASSUME NEW k \in Ids, made'[k] = "plan"
        PROVE  /\ k \in Live' => db'[k].parent = NoTask
               /\ \A q \in Requests : id'[q] = k =>
                    /\ copy'[q].parent = NoTask
                    /\ k \notin disturbed' =>
                         /\ k \in Live'
                         /\ \A p \in Requests : id'[p] = k => p = q
                         /\ pc'[q] = "flip" /\ k \notin moved' => SamePlace(copy'[q], db'[k])
    <3>1. CASE k = i
      BY <2>1, <2>5, <2>6, <2>7, <3>1 DEF HandInv
    <3>2. CASE k # i
      BY <2>1, <2>3, <2>4, <2>7, <3>2 DEF HandInv
    <3> QED
      BY <3>1, <3>2
  <2>8. HandInv'
    BY <2>7 DEF HandInv
  <2>9. \A k \in Ids : Booked(k)' => Booked(k) /\ SamePlace(db'[k], db[k])
    BY <2>1, <2>3, <2>4, <2>5 DEF Booked, SamePlace
  <2> QED
    BY <2>1, <2>8, <2>9, <1>a
<1>3. ASSUME NEW i \in Live,
             NEW t \in Overrides \cup {<<db[i].start, db[i].end>>}, CopyTask(i, t)
      PROVE  HandInv' /\ BookInv'
  <2> DEFINE row == NewRow(db[i].date + 1, t[1], t[2], db[i].nn, NoTask)
  <2>1. PICK j \in Fresh : /\ db' = [db EXCEPT ![j] = row]
                           /\ made' = [made EXCEPT ![j] = "copy"]
    BY <1>3 DEF CopyTask
  <2>2. row \in RowType
    <3>1. db[i] \in RowType
      BY DEF Live, TypeOK
    <3>2. t[1] \in Times /\ t[2] \in Times
      BY <3>1 DEF RowType
    <3>3. db[i].date + 1 \in Int /\ db[i].nn \in BOOLEAN
      BY <3>1 DEF RowType
    <3> QED
      BY <3>2, <3>3, NewRowType
  <2>3. UNCHANGED <<pc, id, copy, plan, disturbed, moved, crossed>>
    BY <1>3 DEF CopyTask, request, ghosts
  <2> HIDE DEF row
  <2>4. /\ \A k \in Ids : Booked(k)' => Booked(k) /\ SamePlace(db'[k], db[k])
        /\ \A k \in Ids : made'[k] = "plan" =>
             made[k] = "plan" /\ db'[k] = db[k] /\ (k \in Live' <=> k \in Live)
    BY <2>1, <2>2, <2>3, NewRowPlaces
  <2>5. HandInv'
    BY <2>3, <2>4 DEF HandInv
  <2> QED
    BY <1>a, <2>3, <2>4, <2>5
<1> QED
  BY <1>1, <1>2, <1>3

\* No generation books a task over another one that was generated, for any rows,
\* requests and schedules, as long as no two generations cross (the conflict
\* query of generate_schedule and its insert are two statements).
THEOREM BookingsApart == Spec => []BookedApart
<1>1. Init => HandInv /\ BookInv
  BY PlannerAssumption DEF Init, HandInv, BookInv, Booked, Generating, PlanSteps, Live
<1>2. ASSUME TypeOK, TypeOK', HandInv, BookInv, [Next]_vars
      PROVE  HandInv' /\ BookInv'
  <2>1. CASE UNCHANGED vars
    <3>1. UNCHANGED <<db, made, pc, id, copy, plan, disturbed, moved, crossed>>
      BY <2>1 DEF vars
    <3>2. HandInv'
      BY <1>2, <3>1 DEF HandInv, Live
    <3>3. \A i \in Ids : Booked(i)' => Booked(i) /\ SamePlace(db'[i], db[i])
      BY <3>1 DEF Booked, Live, SamePlace
    <3>4. \A r \in Requests : /\ Generating(r)' => Generating(r)
                              /\ pc'[r] = "book" => pc[r] = "book" /\ plan'[r] = plan[r]
      BY <3>1 DEF Generating
    <3>5. db' \in [Ids -> RowType \cup {NoTask}] /\ crossed' = crossed
      BY <1>2, <3>1 DEF TypeOK
    <3>6. BookInv'
      BY <1>2, <3>3, <3>4, <3>5, PlacesKept
    <3> QED
      BY <3>2, <3>6
  <2>2. CASE \E r \in Requests : TaskRequest(r)
    BY <1>2, <2>2, TaskRequestHand
  <2>3. CASE \E r \in Requests : PlanRequest(r)
    BY <1>2, <2>3, PlanRequestHand
  <2>4. CASE \/ \E r \in Requests : Abort(r)
             \/ \E i \in Ids : DeleteTask(i)
             \/ \E i \in Live : \E t \in Overrides \cup {<<db[i].start, db[i].end>>} :
                  CopyTask(i, t)
    BY <1>2, <2>4, OtherHand
  <2> QED
    BY <1>2, <2>1, <2>2, <2>3, <2>4 DEF Next, Live
<1>3. BookInv => BookedApart
  BY DEF BookInv, Booked, BookedApart, Live
<1> QED
  BY TypeCorrect, <1>1, <1>2, <1>3, PTL DEF Spec
-----------------------------------------------------------------------------
(* RightDates *)

\* A number is its quotient times the divisor and its residue.
LEMMA Division ==
  ASSUME NEW W \in Nat \ {0}, NEW x \in Int
  PROVE  /\ x = W * (x \div W) + (x % W)
         /\ x \div W \in Int
         /\ x % W \in 0..W-1
<1>1. x % W \in 0..W-1
  OBVIOUS
<1>2. x \div W \in Int
  OBVIOUS
<1>3. x = W * (x \div W) + (x % W)
  OBVIOUS
<1> QED
  BY <1>1, <1>2, <1>3

\* Two residues do not differ by a multiple of the divisor.
LEMMA NoMultipleBetween ==
  ASSUME NEW W \in Nat \ {0}, NEW k \in Int, NEW a \in 0..W-1, NEW b \in 0..W-1,
         a - b = W * k
  PROVE  a = b
<1>1. CASE k >= 1
  <2>1. W * k >= W
    BY <1>1
  <2> QED
    BY <2>1
<1>2. CASE k <= -1
  <2>1. W * k <= -W
    BY <1>2
  <2> QED
    BY <2>1
<1>3. CASE k = 0
  BY <1>3
<1> QED
  BY <1>1, <1>2, <1>3

\* Multiples do not change the residue.
LEMMA Residue ==
  ASSUME NEW W \in Nat \ {0}, NEW q \in Int, NEW r \in 0..W-1
  PROVE  (W * q + r) % W = r
<1> DEFINE x == W * q + r
           p == x \div W
           a == x % W
<1>1. x \in Int /\ x = W * q + r
  OBVIOUS
<1> HIDE DEF x
<1>2. x = W * p + a /\ a \in 0..W-1 /\ p \in Int
  BY <1>1, Division
<1> HIDE DEF a, p
<1>3. a - r = W * (q - p)
  BY <1>1, <1>2
<1>4. a = r
  BY <1>2, <1>3, NoMultipleBetween
<1> QED
  BY <1>4 DEF a, x

\* (w - c) % W days after c is the first day from c on that is the w-th of W.
LEMMA DaysAhead ==
  ASSUME NEW W \in Nat \ {0}, NEW w \in 0..W-1, NEW c \in Int
  PROVE  LET ahead == (w - c) % W
         IN /\ ahead \in 0..W-1
            /\ (c + ahead) % W = w
            /\ \A d \in c..c+ahead-1 : d % W # w
<1> DEFINE x == w - c
           ahead == x % W
           q == x \div W
<1>0. x \in Int /\ x = w - c
  OBVIOUS
<1> HIDE DEF x
<1>a. x = W * q + ahead /\ q \in Int /\ ahead \in 0..W-1
  BY <1>0, Division
<1> HIDE DEF ahead, q
<1>1. w - c = W * q + ahead /\ q \in Int /\ ahead \in 0..W-1
  BY <1>0, <1>a
<1>2. (c + ahead) % W = w
  <2>1. c + ahead = W * (-q) + w /\ -q \in Int
    BY <1>1
  <2> QED
    BY <2>1, Residue
<1>3. ASSUME NEW d \in c..c+ahead-1, d % W = w PROVE FALSE
  <2> DEFINE k == d \div W
  <2>1. d = W * k + w /\ k \in Int
    BY <1>3, Division
  <2> HIDE DEF k
  <2>2. (d - c) - ahead = W * (k + q)
    <3>1. d - c - ahead = W * k + W * q
      BY <1>1, <2>1
    <3>2. W * (k + q) = W * k + W * q
      BY <1>1, <2>1
    <3> QED
      BY <3>1, <3>2
  <2>3. d - c \in 0..W-1 /\ d - c < ahead
    BY <1>1, <1>3
  <2>4. d - c = ahead
    <3> DEFINE e == d - c
               m == k + q
    <3>1. e - ahead = W * m /\ e \in 0..W-1 /\ m \in Int
      BY <1>1, <2>1, <2>2, <2>3
    <3> HIDE DEF e, m
    <3>2. e = ahead
      BY <1>1, <3>1, NoMultipleBetween
    <3> QED
      BY <3>2 DEF e
  <2> QED
    BY <1>1, <2>3, <2>4
<1> QED
  BY <1>1, <1>2, <1>3 DEF ahead, x

\* The days of a schedule that come before a date.
DaysBefore(s, date) ==
  {d \in s.first .. s.last : d % Week = s.weekday /\ d < date}

\* A loop has looked at every day of its schedule before the date it is at: the
\* day before that date is the last of them.
LoopInv(p) ==
  /\ p.current >= p.of.first
  /\ p.current > p.of.first => (p.current - 1) % Week = p.of.weekday
  /\ p.visited = DaysBefore(p.of, p.current)
  /\ p.week = Cardinality(p.visited) /\ p.week <= p.of.weeks

DatesInv ==
  \A r \in Requests :
    /\ pc[r] \in PlanSteps => LoopInv(plan[r])
    /\ pc[r] = "book" => GoesOn(plan[r])
    /\ pc[r] = "mark" => ~GoesOn(plan[r])

\* The target date is the first day of the schedule from the current date on.
LEMMA TargetIsNext ==
  ASSUME Week > 1, NEW p \in PlanType, LoopInv(p)
  PROVE  /\ Target(p) \in Int /\ Target(p) >= p.current
         /\ Target(p) % Week = p.of.weekday
         /\ \A d \in Int : p.current <= d /\ d < Target(p) => d % Week # p.of.weekday
<1> DEFINE c == p.current
           w == p.of.weekday
           ahead == (w - c) % Week
<1>1. p.of \in ScheduleType /\ c \in Int
  BY PlannerAssumption DEF PlanType
<1>2. w \in 0..Week-1 /\ p.of.first \in Int /\ Week \in Nat \ {0}
  BY <1>1, PlannerAssumption DEF ScheduleType
<1>3. c > p.of.first => (c - 1) % Week = w
  BY DEF LoopInv
<1>4. c >= p.of.first
  BY DEF LoopInv
<1>5. Target(p) = c + IF ahead = 0 /\ c # p.of.first THEN Week ELSE ahead
  BY DEF Target
<1> HIDE DEF c, w
<1>6. /\ ahead \in 0..Week-1 /\ (c + ahead) % Week = w
      /\ \A d \in c..c+ahead-1 : d % Week # w
  BY <1>1, <1>2, DaysAhead
<1> HIDE DEF ahead
<1>7. ASSUME ahead = 0, c # p.of.first PROVE FALSE
  <2> DEFINE x == c - 1
             k == x \div Week
             m == c \div Week
  <2>1. x % Week = w /\ x \in Int
    BY <1>1, <1>2, <1>3, <1>4, <1>7
  <2>2. c % Week = w
    BY <1>1, <1>6, <1>7
  <2> HIDE DEF x
  <2>3. x = Week * k + w /\ k \in Int
    BY <1>2, <2>1, Division
  <2>4. c = Week * m + w /\ m \in Int
    BY <1>1, <1>2, <2>2, Division
  <2> HIDE DEF k, m
  <2>5. 1 = Week * m - Week * k
    BY <1>1, <1>2, <2>3, <2>4 DEF x
  <2>6. Week * m - Week * k = Week * (m - k)
    BY <1>2, <2>3, <2>4
  <2>7. 1 - 0 = Week * (m - k) /\ m - k \in Int /\ 1 \in 0..Week-1 /\ 0 \in 0..Week-1
    BY <1>2, <2>3, <2>4, <2>5, <2>6
  <2> QED
    BY <1>2, <2>7, NoMultipleBetween
<1>8. Target(p) = c + ahead
  BY <1>5, <1>7
<1> QED
  BY <1>1, <1>6, <1>8 DEF c, w

\* The days of a schedule that come before a date are finitely many.
LEMMA DaysBeforeFinite ==
  ASSUME NEW s \in ScheduleType, NEW date \in Int
  PROVE  /\ IsFiniteSet(DaysBefore(s, date)) /\ DaysBefore(s, date) \subseteq Int
         /\ Cardinality(DaysBefore(s, date)) \in Nat
<1>1. s.first \in Int /\ s.last \in Int
  BY DEF ScheduleType
<1>2. IsFiniteSet(s.first .. s.last)
  BY <1>1, FS_Interval
<1>3. DaysBefore(s, date) \in SUBSET (s.first .. s.last)
  BY DEF DaysBefore
<1> QED
  BY <1>1, <1>2, <1>3, FS_Subset, FS_CardinalityType

\* The loop begins with the first date.
LEMMA LoopBegins == ASSUME NEW s \in Schedules PROVE LoopInv(Start(s))
<1>1. s \in ScheduleType
  BY PlannerAssumption
<1>2. s.first \in Int /\ s.last \in Int /\ s.weeks \in Nat
  BY <1>1 DEF ScheduleType
<1>3. DaysBefore(s, s.first) = {}
  BY <1>2 DEF DaysBefore
<1> QED
  BY <1>2, <1>3, FS_EmptySet DEF LoopInv, Start

\* It goes on from a day of the schedule to the date after it.
LEMMA LoopContinues ==
  ASSUME Week > 1, NEW p \in PlanType, LoopInv(p), GoesOn(p)
  PROVE  LoopInv(NextDate(p))
<1> DEFINE T == Target(p)
           n == NextDate(p)
<1>1. p.of \in ScheduleType /\ p.current \in Int /\ p.week \in Nat
  BY PlannerAssumption DEF PlanType
<1>2. p.of.first \in Int /\ p.of.last \in Int /\ p.of.weeks \in Nat
  BY <1>1 DEF ScheduleType
<1>3. /\ T \in Int /\ T >= p.current /\ T % Week = p.of.weekday
      /\ \A d \in Int : p.current <= d /\ d < T => d % Week # p.of.weekday
  BY TargetIsNext
<1>4. T <= p.of.last /\ p.week < p.of.weeks
  BY DEF GoesOn
<1>5. /\ n.of = p.of /\ n.current = T + 1 /\ n.week = p.week + 1
      /\ n.visited = p.visited \cup {T}
  BY DEF NextDate, PlanType
<1> HIDE DEF T, n
<1>6. p.current >= p.of.first /\ p.visited = DaysBefore(p.of, p.current)
      /\ p.week = Cardinality(p.visited)
  BY DEF LoopInv
<1>7. p.visited \cup {T} = DaysBefore(p.of, T + 1)
  BY <1>1, <1>2, <1>3, <1>4, <1>6 DEF DaysBefore
<1>8. T \notin p.visited
  BY <1>1, <1>3, <1>6 DEF DaysBefore
<1>9. Cardinality(n.visited) = p.week + 1
  <2>1. IsFiniteSet(p.visited)
    BY <1>1, <1>6, DaysBeforeFinite
  <2>2. Cardinality(p.visited \cup {T}) = Cardinality(p.visited) + 1
    BY <1>8, <2>1, FS_AddElement
  <2> QED
    BY <1>5, <1>6, <2>2
<1>10. n.current - 1 = T /\ n.current >= n.of.first /\ n.week <= n.of.weeks
  BY <1>1, <1>2, <1>3, <1>4, <1>5, <1>6
<1> QED
  BY <1>3, <1>5, <1>7, <1>9, <1>10 DEF LoopInv, n

\* Of the days of the schedule, it has looked at the first ones when it ends.
LEMMA LoopEnds ==
  ASSUME Week > 1, NEW p \in PlanType, LoopInv(p), ~GoesOn(p)
  PROVE  LET s == p.of
             weekdays == {d \in s.first .. s.last : d % Week = s.weekday}
         IN p.visited = {d \in weekdays : Cardinality({e \in weekdays : e < d}) < s.weeks}
<1> DEFINE s == p.of
           weekdays == {d \in s.first .. s.last : d % Week = s.weekday}
<1>1. s \in ScheduleType /\ p.current \in Int /\ p.week \in Nat
  BY PlannerAssumption DEF PlanType
<1>2. s.first \in Int /\ s.last \in Int /\ s.weeks \in Nat
  BY <1>1 DEF ScheduleType
<1>3. /\ p.visited = DaysBefore(s, p.current) /\ p.week = Cardinality(p.visited)
      /\ p.week <= s.weeks
  BY DEF LoopInv
<1>4. \A d \in Int : {e \in weekdays : e < d} = DaysBefore(s, d)
  BY DEF DaysBefore
<1>5. /\ weekdays \subseteq Int
      /\ \A d \in Int : d \in p.visited <=> d \in weekdays /\ d < p.current
  BY <1>2, <1>3 DEF DaysBefore
<1>6. \A d \in Int : /\ IsFiniteSet(DaysBefore(s, d)) /\ Cardinality(DaysBefore(s, d)) \in Nat
                     /\ \A e \in Int : e \in DaysBefore(s, d) <=> e \in weekdays /\ e < d
                     /\ DaysBefore(s, d) \subseteq Int
  BY <1>1, <1>2, DaysBeforeFinite DEF DaysBefore
<1>7. (\A d \in weekdays : d < p.current) \/ p.week = s.weeks
  <2>1. CASE p.current > s.last
    BY <1>1, <1>2, <2>1
  <2>2. CASE p.week >= s.weeks
    BY <1>1, <1>2, <1>3, <2>2
  <2>3. CASE Target(p) > s.last
    BY <1>1, <1>2, <2>3, TargetIsNext
  <2>4. Target(p) \in Int
    BY TargetIsNext
  <2> QED
    BY <1>1, <1>2, <2>1, <2>2, <2>3, <2>4 DEF GoesOn
<1> HIDE DEF weekdays
<1>8. ASSUME NEW d \in p.visited PROVE Cardinality(DaysBefore(s, d)) < s.weeks
  <2>1. d \in Int /\ IsFiniteSet(p.visited) /\ Cardinality(p.visited) \in Nat
    BY <1>1, <1>3, <1>6
  <2>2. DaysBefore(s, d) \in SUBSET p.visited /\ d \notin DaysBefore(s, d)
    BY <1>1, <1>3, <1>5, <1>6, <2>1
  <2>3. Cardinality(DaysBefore(s, d)) < Cardinality(p.visited)
    <3>1. /\ Cardinality(DaysBefore(s, d)) <= Cardinality(p.visited)
          /\ Cardinality(p.visited) = Cardinality(DaysBefore(s, d))
               => p.visited = DaysBefore(s, d)
      BY <2>1, <2>2, FS_Subset
    <3>2. Cardinality(DaysBefore(s, d)) \in Nat /\ p.visited # DaysBefore(s, d)
      BY <1>6, <2>1, <2>2
    <3> QED
      BY <2>1, <3>1, <3>2
  <2> QED
    <3>1. /\ Cardinality(DaysBefore(s, d)) \in Nat
          /\ Cardinality(p.visited) <= s.weeks
      BY <1>3, <1>6, <2>1
    <3> QED
      BY <1>2, <2>1, <2>3, <3>1
<1>9. ASSUME NEW d \in weekdays, d \notin p.visited
      PROVE  Cardinality(DaysBefore(s, d)) >= s.weeks
  <2>1. d \in Int /\ d >= p.current /\ p.week = s.weeks
    BY <1>1, <1>5, <1>7, <1>9
  <2>2. p.visited \in SUBSET DaysBefore(s, d)
    BY <1>1, <1>3, <1>5, <1>6, <2>1
  <2>3. Cardinality(p.visited) <= Cardinality(DaysBefore(s, d))
    BY <1>6, <2>1, <2>2, FS_Subset
  <2> QED
    BY <1>3, <2>1, <2>3
<1>10. \A d \in weekdays : d \in p.visited <=> Cardinality(DaysBefore(s, d)) < s.weeks
  BY <1>2, <1>5, <1>6, <1>8, <1>9
<1>11. p.visited = {d \in weekdays : Cardinality({e \in weekdays : e < d}) < s.weeks}
  <2> DEFINE rank(d) == Cardinality({e \in weekdays : e < d})
  <2>1. \A d \in weekdays : rank(d) = Cardinality(DaysBefore(s, d))
    BY <1>4, <1>5
  <2> HIDE DEF rank
  <2>2. p.visited \subseteq weekdays
    BY <1>1, <1>3, <1>5, <1>6
  <2>3. p.visited = {d \in weekdays : rank(d) < s.weeks}
    BY <1>10, <2>1, <2>2
  <2> QED
    BY <2>3 DEF rank
<1> QED
  BY <1>11 DEF weekdays

\* A step that leaves the loops alone, or ends one.
LEMMA DatesKept ==
  ASSUME DatesInv,
         \A r \in Requests : pc'[r] \in PlanSteps => pc'[r] = pc[r] /\ plan'[r] = plan[r]
  PROVE  DatesInv'
BY DEF DatesInv, PlanSteps, LoopInv, GoesOn, Target, DaysBefore

\* A generation looks at the first `weeks` days of its schedule, no other date
\* and none twice, whatever the dates and the weekday, however many requests
\* run: the arithmetic of target_date and of the step to the next week.
THEOREM DatesHold == ASSUME Week > 1 PROVE Spec => []RightDates
<1> USE PlannerAssumption, NoTaskAssumption
<1>1. Init => DatesInv
  BY DEF Init, DatesInv, PlanSteps
<1>2. ASSUME TypeOK, DatesInv, [Next]_vars PROVE DatesInv'
  <2>1. CASE \E r \in Requests : PlanRequest(r)
    <3>1. PICK r \in Requests : PlanRequest(r)
      BY <2>1
    <3>a. ASSUME NEW step \in PlanSteps, pc' = [pc EXCEPT ![r] = step],
                 \A q \in Requests \ {r} : plan'[q] = plan[q],
                 LoopInv(plan'[r]), step = "book" => GoesOn(plan'[r]),
                 step = "mark" => ~GoesOn(plan'[r])
          PROVE  DatesInv'
      <4>1. ASSUME NEW q \in Requests
            PROVE  /\ pc'[q] \in PlanSteps => LoopInv(plan'[q])
                   /\ pc'[q] = "book" => GoesOn(plan'[q])
                   /\ pc'[q] = "mark" => ~GoesOn(plan'[q])
        BY <1>2, <3>a DEF DatesInv, TypeOK
      <4> QED
        BY <4>1 DEF DatesInv, LoopInv, GoesOn, Target, DaysBefore
    <3>2. pc[r] \in PlanSteps => plan[r] \in PlanType
      BY <1>2 DEF TypeOK, PlanSteps
    <3>3. ASSUME NEW s \in Schedules, Generate(r, s) PROVE DatesInv'
      <4>1. plan' = [plan EXCEPT ![r] = Start(s)] /\ pc' = [pc EXCEPT ![r] = "scan"]
        BY <3>3 DEF Generate, Goto
      <4>2. plan'[r] = Start(s) /\ \A q \in Requests \ {r} : plan'[q] = plan[q]
        BY <1>2, <4>1 DEF TypeOK
      <4> QED
        BY <3>a, <4>1, <4>2, LoopBegins DEF PlanSteps
    <3>4. ASSUME pc[r] \in {"scan", "book"}, GoesOn(plan[r]), pc' = [pc EXCEPT ![r] = "scan"],
                 plan' = [plan EXCEPT ![r] = NextDate(plan[r])]
          PROVE  DatesInv'
      <4>1. plan'[r] = NextDate(plan[r]) /\ \A q \in Requests \ {r} : plan'[q] = plan[q]
        BY <1>2, <3>4 DEF TypeOK
      <4>2. LoopInv(plan[r]) /\ plan[r] \in PlanType
        BY <1>2, <3>2, <3>4 DEF DatesInv, PlanSteps
      <4> QED
        BY <3>4, <3>a, <4>1, <4>2, LoopContinues DEF PlanSteps
    <3>5. ASSUME pc[r] = "scan", NEW step \in {"book", "mark"}, pc' = [pc EXCEPT ![r] = step],
                 plan' = plan, step = "book" <=> GoesOn(plan[r])
          PROVE  DatesInv'
      <4>1. LoopInv(plan[r])
        BY <1>2, <3>5 DEF DatesInv, PlanSteps
      <4> QED
        BY <3>5, <3>a, <4>1 DEF PlanSteps
    <3>6. CASE Scan(r)
      <4>1. CASE Conflicting(plan[r]) # {}
        <5>1. pc' = [pc EXCEPT ![r] = "scan"] /\ pc[r] = "scan" /\ GoesOn(plan[r])
              /\ plan' = [plan EXCEPT ![r] = NextDate(plan[r])]
          BY <1>2, <3>6, <4>1 DEF Scan, request, TypeOK
        <5> QED
          BY <3>4, <5>1
      <4>2. CASE Conflicting(plan[r]) = {}
        BY <3>5, <3>6, <4>2 DEF Scan, Goto
      <4> QED
        BY <4>1, <4>2
    <3>7. CASE Book(r)
      <4>1. pc[r] = "book" /\ pc' = [pc EXCEPT ![r] = "scan"]
            /\ plan' = [plan EXCEPT ![r] = NextDate(plan[r])]
        BY <3>7 DEF Book, Goto
      <4>2. GoesOn(plan[r])
        BY <1>2, <4>1 DEF DatesInv
      <4> QED
        BY <3>4, <4>1, <4>2
    <3>8. CASE LeaveLoop(r)
      BY <3>5, <3>8 DEF LeaveLoop, Goto
    <3>9. CASE MarkScheduled(r)
      <4>1. \A q \in Requests : pc'[q] \in PlanSteps => pc'[q] = pc[q] /\ plan'[q] = plan[q]
        BY <1>2, <3>9 DEF MarkScheduled, Finish, Take, TypeOK, PlanSteps
      <4> QED
        BY <1>2, <4>1, DatesKept
    <3> QED
      BY <3>1, <3>3, <3>6, <3>7, <3>8, <3>9 DEF PlanRequest
  <2>2. CASE \E r \in Requests : TaskRequest(r)
    <3>1. PICK r \in Requests : TaskRequest(r)
      BY <2>2
    <3>2. plan' = plan /\ \E step \in {"idle"} \cup TaskSteps : pc' = [pc EXCEPT ![r] = step]
      <4>1. ASSUME NEW f \in Forms, NEW i \in Ids, EditTask(r, i, f)
            PROVE  plan' = plan /\ pc' = [pc EXCEPT ![r] = "save"]
        BY <4>1 DEF EditTask, Take
      <4>2. ASSUME NEW f \in Forms, NewTask(r, f)
            PROVE  plan' = plan /\ pc' = [pc EXCEPT ![r] = "save"]
        BY <4>2 DEF NewTask, Take
      <4>3. ASSUME NEW i \in Ids, NEW done \in Marks, OpenToggle(r, i, done)
            PROVE  plan' = plan /\ pc' = [pc EXCEPT ![r] = "flip"]
        BY <4>3 DEF OpenToggle, Take
      <4>4. CASE Insert(r) \/ Update(r) \/ DropBreaks(r)
        BY <4>4 DEF Insert, Update, DropBreaks, Take, Goto, TaskSteps
      <4>5. CASE SeekBreak(r)
        BY <4>5 DEF SeekBreak, Take, Goto, Finish, TaskSteps
      <4>6. CASE FindRoom(r)
        BY <4>6 DEF FindRoom, Take, Goto, Finish, TaskSteps
      <4>7. CASE InsertBreak(r) \/ Flip(r) \/ Record(r)
        BY <4>7 DEF InsertBreak, Flip, Record, Take, Goto, Finish, TaskSteps
      <4> QED
        BY <3>1, <4>1, <4>2, <4>3, <4>4, <4>5, <4>6, <4>7 DEF TaskRequest, TaskSteps
    <3>3. \A q \in Requests : pc'[q] \in PlanSteps => pc'[q] = pc[q] /\ plan'[q] = plan[q]
      BY <1>2, <3>2 DEF TypeOK, PlanSteps, TaskSteps
    <3> QED
      BY <1>2, <3>3, DatesKept
  <2>3. CASE \E r \in Requests : Abort(r)
    <3>1. \A q \in Requests : pc'[q] \in PlanSteps => pc'[q] = pc[q] /\ plan'[q] = plan[q]
      BY <1>2, <2>3 DEF Abort, Finish, Take, TypeOK, PlanSteps
    <3> QED
      BY <1>2, <3>1, DatesKept
  <2>4. ASSUME UNCHANGED <<pc, plan>> PROVE DatesInv'
    BY <1>2, <2>4, DatesKept
  <2>5. CASE UNCHANGED vars
    BY <2>4, <2>5 DEF vars
  <2>6. ASSUME NEW i \in Ids, DeleteTask(i) PROVE DatesInv'
    BY <2>4, <2>6 DEF DeleteTask, request
  <2>7. ASSUME NEW i \in Live, NEW t \in Overrides \cup {<<db[i].start, db[i].end>>},
               CopyTask(i, t)
        PROVE  DatesInv'
    BY <2>4, <2>7 DEF CopyTask, request
  <2> QED
    BY <1>2, <2>1, <2>2, <2>3, <2>5, <2>6, <2>7 DEF Next, Live
<1>3. TypeOK /\ DatesInv => RightDates
  BY LoopEnds DEF DatesInv, RightDates, TypeOK, PlanSteps
<1> QED
  BY TypeCorrect, <1>1, <1>2, <1>3, PTL DEF Spec

-----------------------------------------------------------------------------
(* HistoryAgrees *)

\* The family of a row and of the object in a request's hands.
RowFamily(i) == FamilyOf(i, db[i])
HandFamily(r) == FamilyOf(id[r], copy[r])
Holds(r) == id[r] # NoTask

\* Two requests that hold one family are known.
OneHand == \A q, r \in Requests : Holds(q) /\ Holds(r) /\ q # r /\ HandFamily(q) = HandFamily(r)
             => HandFamily(r) \in disturbed

\* The object in the hands of the only one that works on a family says what the
\* last record says; a toggle has written its row before it writes the record.
HeldInv == \A r \in Requests : Holds(r) /\ HandFamily(r) \notin disturbed =>
  /\ id[r] \in Live
  /\ pc[r] \notin {"flip", "record"} => copy[r].done = history[id[r]]
  /\ pc[r] = "record" => db[id[r]].done = copy[r].done

\* So does a row, unless its toggle has its record to write.
RowInv == \A i \in Live : RowFamily(i) \notin disturbed =>
  \/ db[i].done = history[i]
  \/ \E r \in Requests : id[r] = i /\ pc[r] = "record"

\* An id without a row has no record, and a new task is not completed.
BlankInv ==
  /\ \A i \in Ids \ Live : history[i] = FALSE
  /\ \A r \in Requests : pc[r] = "save" /\ ~Holds(r) => copy[r].done = FALSE

HistoryInv == OneHand /\ HeldInv /\ RowInv /\ BlankInv

\* What the families are made of.
LEMMA Families ==
  ASSUME TypeOK, BreakInv
  PROVE  /\ \A r \in Requests : Holds(r) => /\ id[r] \in Ids /\ pc[r] \in TaskSteps
                                            /\ copy[r] \in RowType /\ made[id[r]] # "nothing"
         /\ \A i \in Live : i \in Ids /\ db[i] \in RowType /\ made[i] # "nothing"
         /\ \A r \in Requests : id[r] \in Live => HandFamily(r) = RowFamily(id[r])
         /\ \A q, r \in Requests : Holds(r) /\ id[q] = id[r] => HandFamily(q) = HandFamily(r)
         /\ \A r \in Requests : Holds(r) => made[HandFamily(r)] # "nothing" /\ HandFamily(r) \in Ids
         /\ \A i \in Live : made[RowFamily(i)] # "nothing"
<1> USE NoTaskAssumption, PlannerAssumption
<1>1. \A r \in Requests : Holds(r) => /\ id[r] \in Ids /\ pc[r] \in TaskSteps
                                      /\ copy[r] \in RowType /\ made[id[r]] # "nothing"
  BY DEF TypeOK, Holds
<1>2. \A i \in Live : i \in Ids /\ db[i] \in RowType /\ made[i] # "nothing"
  BY DEF TypeOK, Live
<1>3. /\ \A r \in Requests : Holds(r) => Says(id[r], copy[r].parent)
      /\ \A i \in Live : Says(i, db[i].parent)
  BY DEF Says
<1>4. /\ \A r \in Requests : Holds(r) => copy[r].parent \in Ids \cup {NoTask}
      /\ \A i \in Live : db[i].parent \in Ids \cup {NoTask}
  BY <1>1, <1>2 DEF RowType
<1>5. /\ \A i \in Ids, p, q \in Ids \cup {NoTask} : Says(i, p) /\ Says(i, q) => p = q
      /\ \A i, p \in Ids : Says(i, p) => made[p] # "nothing"
  BY DEF BreakInv, FamilyInv
<1>6. \A r \in Requests : id[r] \in Live => copy[r].parent = db[id[r]].parent
  BY <1>1, <1>2, <1>3, <1>4, <1>5 DEF Holds
<1>7. \A q, r \in Requests : Holds(r) /\ id[q] = id[r] => copy[q].parent = copy[r].parent
  BY <1>1, <1>3, <1>4, <1>5 DEF Holds
<1>8. \A r \in Requests : Holds(r) => made[HandFamily(r)] # "nothing" /\ HandFamily(r) \in Ids
  BY <1>1, <1>3, <1>4, <1>5 DEF HandFamily, FamilyOf, IsBreak
<1>9. \A i \in Live : made[RowFamily(i)] # "nothing"
  BY <1>2, <1>3, <1>4, <1>5 DEF RowFamily, FamilyOf, IsBreak
<1> QED
  BY <1>1, <1>2, <1>6, <1>7, <1>8, <1>9 DEF HandFamily, RowFamily, FamilyOf, IsBreak

\* A break of a task belongs to its family, and the task is no break: nobody
\* takes it for one.
LEMMA BreakFamily ==
  ASSUME TypeOK, BreakInv, NEW i \in Ids, NEW b \in BreaksOf(i)
  PROVE  /\ b \in Live /\ b # i /\ RowFamily(b) = i
         /\ i \in Live => RowFamily(i) = i
         /\ \A r \in Requests : id[r] = i => HandFamily(r) = i
<1> USE NoTaskAssumption, PlannerAssumption
<1>1. b \in Live /\ b \in Ids /\ db[b].parent = i /\ Says(b, i)
  BY DEF BreaksOf, Live, Says
<1>2. \A q \in Ids : ~Says(i, q)
  BY <1>1 DEF BreakInv, FamilyInv
<1>3. i \in Live => db[i].parent = NoTask
  BY <1>2 DEF Says, TypeOK, Live, RowType
<1>4. \A r \in Requests : id[r] = i => copy[r].parent = NoTask
  BY <1>2, Families DEF Says, Holds, RowType
<1> QED
  BY <1>1, <1>2, <1>3, <1>4 DEF RowFamily, HandFamily, FamilyOf, IsBreak

\* A step that changes no row, object or record: requests end, go on, or have
\* nothing in hand.
LEMMA HistoryKept ==
  ASSUME TypeOK, BreakInv, HistoryInv, UNCHANGED <<db, history>>, disturbed \subseteq disturbed',
         \A r \in Requests :
           /\ Holds(r)' =>
                /\ id'[r] = id[r] /\ copy'[r] = copy[r]
                /\ pc'[r] = pc[r] \/ {pc[r], pc'[r]} \cap {"flip", "record"} = {}
           /\ pc'[r] = "save" /\ ~Holds(r)' => copy'[r].done = FALSE
           /\ pc[r] = "record" /\ Holds(r) /\ id[r] \in Live =>
                (id'[r] = id[r] /\ pc'[r] = "record") \/ HandFamily(r) \in disturbed'
  PROVE  HistoryInv'
<1>1. OneHand'
  BY DEF HistoryInv, OneHand, Holds, HandFamily
<1>2. HeldInv'
  BY DEF HistoryInv, HeldInv, Holds, HandFamily, Live
<1>3. RowInv'
  <2> SUFFICES ASSUME NEW i \in Live, RowFamily(i) \notin disturbed', db[i].done # history[i]
               PROVE  \E r \in Requests : id'[r] = i /\ pc'[r] = "record"
    BY DEF RowInv, RowFamily, Live
  <2>1. PICK r \in Requests : id[r] = i /\ pc[r] = "record"
    BY DEF HistoryInv, RowInv
  <2>2. Holds(r) /\ HandFamily(r) = RowFamily(i)
    BY <2>1, Families, NoTaskAssumption, PlannerAssumption DEF Holds, Live
  <2> QED
    BY <2>1, <2>2
<1>4. BlankInv'
  BY DEF HistoryInv, BlankInv, Live
<1> QED
  BY <1>1, <1>2, <1>3, <1>4 DEF HistoryInv

\* A new row is not completed, and has no record.
LEMMA HistoryGrows ==
  ASSUME TypeOK, BreakInv, HistoryInv, NEW new \in Fresh, NEW row \in RowType, ~row.done,
         db' = [db EXCEPT ![new] = row], UNCHANGED <<history, disturbed>>,
         \A r \in Requests :
           /\ Holds(r)' => id'[r] = id[r] /\ copy'[r] = copy[r] /\ pc'[r] = pc[r]
           /\ pc'[r] = "save" /\ ~Holds(r)' => pc[r] = "save" /\ ~Holds(r) /\ copy'[r] = copy[r]
           /\ pc[r] = "record" => id'[r] = id[r] /\ pc'[r] = "record"
  PROVE  HistoryInv'
<1> USE NoTaskAssumption, PlannerAssumption
<1>1. new \in Ids /\ new \notin Live /\ \A r \in Requests : id[r] # new
  BY Families DEF Fresh, Holds
<1>2. db'[new] = row /\ \A i \in Ids \ {new} : db'[i] = db[i]
  BY <1>1 DEF TypeOK
<1>3. Live' = Live \cup {new}
  BY <1>1, <1>2 DEF Live, RowType
<1>4. history[new] = FALSE /\ row.done = FALSE
  BY <1>1 DEF HistoryInv, BlankInv, RowType
<1>5. OneHand'
  BY DEF HistoryInv, OneHand, Holds, HandFamily
<1>6. HeldInv'
  BY <1>1, <1>2, <1>3 DEF HistoryInv, HeldInv, Holds, HandFamily
<1>7. RowInv'
  <2> SUFFICES ASSUME NEW i \in Live', RowFamily(i)' \notin disturbed,
                      db'[i].done # history[i]
               PROVE  \E r \in Requests : id'[r] = i /\ pc'[r] = "record"
    BY DEF RowInv
  <2>1. i \in Live /\ db'[i] = db[i]
    BY <1>2, <1>3, <1>4 DEF Live
  <2>2. PICK r \in Requests : id[r] = i /\ pc[r] = "record"
    BY <2>1 DEF HistoryInv, RowInv, RowFamily
  <2> QED
    BY <2>2
<1>8. BlankInv'
  BY <1>3 DEF HistoryInv, BlankInv
<1> QED
  BY <1>5, <1>6, <1>7, <1>8 DEF HistoryInv

\* A step of a request that works on a task.
LEMMA TaskRequestHistory ==
  ASSUME TypeOK, TypeOK', BreakInv, HistoryInv, NEW r \in Requests, TaskRequest(r)
  PROVE  HistoryInv'
<1> USE NoTaskAssumption, PlannerAssumption
<1>1. ASSUME NEW f \in Forms, NewTask(r, f) PROVE HistoryInv'
  <2>1. /\ id[r] = NoTask /\ UNCHANGED <<db, history, disturbed>>
        /\ \A q \in Requests \ {r} : id'[q] = id[q] /\ copy'[q] = copy[q] /\ pc'[q] = pc[q]
        /\ pc'[r] = "save" /\ id'[r] = NoTask /\ copy'[r].done = FALSE /\ pc[r] = "idle"
    BY <1>1 DEF NewTask, Take, TypeOK, NewRow, TaskSteps, ghosts
  <2>2. \A q \in Requests :
          /\ Holds(q)' => id'[q] = id[q] /\ copy'[q] = copy[q] /\ pc'[q] = pc[q]
          /\ pc'[q] = "save" /\ ~Holds(q)' => copy'[q].done = FALSE
          /\ pc[q] = "record" => id'[q] = id[q] /\ pc'[q] = "record"
    BY <2>1 DEF HistoryInv, BlankInv, Holds
  <2>3. OneHand'
    BY <2>1, <2>2 DEF HistoryInv, OneHand, Holds, HandFamily
  <2>4. HeldInv'
    BY <2>1, <2>2 DEF HistoryInv, HeldInv, Holds, HandFamily, Live
  <2>5. RowInv'
    BY <2>1, <2>2 DEF HistoryInv, RowInv, RowFamily, Live
  <2>6. BlankInv'
    BY <2>1, <2>2 DEF HistoryInv, BlankInv, Live
  <2> QED
    BY <2>3, <2>4, <2>5, <2>6 DEF HistoryInv
<1>2. ASSUME NEW i \in Live, NEW row \in RowType, row.parent = db[i].parent,
             NEW step \in {"save", "flip"}, step = "save" => row.done = db[i].done,
             pc[r] = "idle", Take(r, i, row, step), NoteMeeting(r, FamilyOf(i, db[i])),
             UNCHANGED <<db, made, history>>
      PROVE  HistoryInv'
  <2>1. /\ i \in Ids /\ id[r] = NoTask /\ disturbed \subseteq disturbed' /\ Live' = Live
        /\ \A q \in Requests \ {r} : id'[q] = id[q] /\ copy'[q] = copy[q] /\ pc'[q] = pc[q]
        /\ id'[r] = i /\ copy'[r] = row /\ pc'[r] = step
    BY <1>2 DEF Take, Live, NoteMeeting, TypeOK, TaskSteps
  <2>2. HandFamily(r)' = RowFamily(i)
    BY <1>2, <2>1 DEF HandFamily, RowFamily, FamilyOf, IsBreak
  <2>3. \A q \in Requests \ {r} : Holds(q) /\ HandFamily(q) = RowFamily(i) => RowFamily(i) \in disturbed'
    BY <1>2, Families DEF NoteMeeting, Meets, InHand, Holds, HandFamily, RowFamily
  <2>4. \A q \in Requests : Holds(q)' => q = r \/ (Holds(q) /\ HandFamily(q)' = HandFamily(q))
    BY <2>1 DEF Holds, HandFamily
  <2>5. OneHand'
    BY <2>1, <2>2, <2>3, <2>4 DEF HistoryInv, OneHand
  <2>6. RowFamily(i) \notin disturbed' => db[i].done = history[i]
    <3>1. \A q \in Requests : id[q] = i => Holds(q) /\ q # r /\ HandFamily(q) = RowFamily(i)
      BY <2>1, Families DEF Holds
    <3> QED
      BY <2>1, <2>3, <3>1 DEF HistoryInv, RowInv
  <2>7. HeldInv'
    BY <1>2, <2>1, <2>2, <2>4, <2>6 DEF HistoryInv, HeldInv, Holds
  <2>8. RowInv'
    BY <1>2, <2>1 DEF HistoryInv, RowInv, RowFamily, TaskSteps
  <2>9. BlankInv'
    BY <1>2, <2>1 DEF HistoryInv, BlankInv, Holds
  <2> QED
    BY <2>5, <2>7, <2>8, <2>9 DEF HistoryInv
<1>3. ASSUME NEW f \in Forms, NEW i \in Ids, EditTask(r, i, f) PROVE HistoryInv'
  <2> DEFINE row == [db[i] EXCEPT !.date = f.date, !.start = f.start,
                                  !.end = f.end, !.nn = f.nn]
  <2>1. i \in Live /\ db[i] \in RowType
    BY <1>3 DEF EditTask, Live, TypeOK
  <2>2. row \in RowType /\ row.parent = db[i].parent /\ row.done = db[i].done
    BY <2>1 DEF RowType, FormType
  <2> QED
    BY <1>2, <1>3, <2>1, <2>2 DEF EditTask
<1>4. ASSUME NEW i \in Ids, NEW done \in Marks, OpenToggle(r, i, done) PROVE HistoryInv'
  <2> DEFINE row == [db[i] EXCEPT !.done = done]
  <2>1. i \in Live /\ db[i] \in RowType
    BY <1>4 DEF OpenToggle, Live, TypeOK
  <2>2. row \in RowType /\ row.parent = db[i].parent
    BY <2>1 DEF RowType
  <2> QED
    BY <1>2, <1>4, <2>1, <2>2 DEF OpenToggle
<1>5. CASE Insert(r)
  <2>1. PICK i \in Fresh : db' = [db EXCEPT ![i] = copy[r]] /\ Take(r, i, copy[r], "seek")
    BY <1>5 DEF Insert
  <2>2. /\ i \in Ids /\ i \notin Live /\ copy[r] \in RowType /\ id[r] = NoTask
        /\ copy[r].parent = NoTask /\ copy[r].done = FALSE /\ history[i] = FALSE
        /\ UNCHANGED <<history, disturbed>> /\ pc[r] = "save"
    BY <1>5, Families DEF Insert, Fresh, TypeOK, TaskSteps, ghosts, HistoryInv, BlankInv, Holds,
                          BreakInv, PlainInv
  <2>3. /\ \A q \in Requests \ {r} : id'[q] = id[q] /\ copy'[q] = copy[q] /\ pc'[q] = pc[q]
        /\ id'[r] = i /\ copy'[r] = copy[r] /\ pc'[r] = "seek"
        /\ db'[i] = copy[r] /\ \A k \in Ids \ {i} : db'[k] = db[k]
    BY <2>1, <2>2 DEF Take, TypeOK
  <2>4. Live' = Live \cup {i}
    BY <2>2, <2>3 DEF Live, RowType
  <2>5. HandFamily(r)' = i /\ \A q \in Requests : Holds(q) => HandFamily(q) # i
    BY <2>2, <2>3, Families DEF HandFamily, FamilyOf, IsBreak, Fresh
  <2>6. \A q \in Requests : Holds(q)' => q = r \/ (Holds(q) /\ HandFamily(q)' = HandFamily(q))
    BY <2>3 DEF Holds, HandFamily
  <2>7. OneHand'
    BY <2>2, <2>5, <2>6 DEF HistoryInv, OneHand
  <2>8. HeldInv'
    <3> SUFFICES ASSUME NEW q \in Requests, Holds(q)', HandFamily(q)' \notin disturbed
                 PROVE  /\ id'[q] \in Live'
                        /\ pc'[q] \notin {"flip", "record"} => copy'[q].done = history[id'[q]]
                        /\ pc'[q] = "record" => db'[id'[q]].done = copy'[q].done
      BY <2>2 DEF HeldInv
    <3>1. CASE q = r
      BY <2>2, <2>3, <2>4, <3>1
    <3>2. CASE q # r
      <4>1. Holds(q) /\ HandFamily(q) \notin disturbed
        BY <2>6, <3>2
      <4>2. id[q] \in Live /\ id[q] \in Ids /\ id[q] # i
        BY <2>2, <4>1 DEF HistoryInv, HeldInv, Live
      <4> QED
        BY <2>3, <2>4, <3>2, <4>1, <4>2 DEF HistoryInv, HeldInv
    <3> QED
      BY <3>1, <3>2
  <2>9. RowInv'
    <3> SUFFICES ASSUME NEW k \in Live', RowFamily(k)' \notin disturbed,
                        db'[k].done # history[k]
                 PROVE  \E q \in Requests : id'[q] = k /\ pc'[q] = "record"
      BY <2>2 DEF RowInv
    <3>1. k \in Live /\ db'[k] = db[k]
      BY <2>2, <2>3, <2>4 DEF Live
    <3>2. PICK q \in Requests : id[q] = k /\ pc[q] = "record"
      BY <3>1 DEF HistoryInv, RowInv, RowFamily
    <3> QED
      BY <2>2, <2>3, <3>2
  <2>10. BlankInv'
    BY <2>2, <2>3, <2>4 DEF HistoryInv, BlankInv, Holds
  <2> QED
    BY <2>7, <2>8, <2>9, <2>10 DEF HistoryInv
<1>6. ASSUME NEW step \in {"drop", "record"}, Holds(r),
             pc[r] = IF step = "drop" THEN "save" ELSE "flip",
             db' = [db EXCEPT ![id[r]] = copy[r]],
             Goto(r, step), UNCHANGED <<history, disturbed>>
      PROVE  HistoryInv'
  <2> DEFINE i == id[r]
  <2>1. i \in Ids /\ copy[r] \in RowType
    BY <1>6, Families
  <2>2. /\ UNCHANGED <<id, copy>> /\ pc'[r] = step
        /\ \A q \in Requests \ {r} : pc'[q] = pc[q]
        /\ db'[i] = copy[r] /\ \A k \in Ids \ {i} : db'[k] = db[k]
    BY <1>6, <2>1 DEF Goto, TypeOK
  <2>3. Live' = Live \cup {i}
    BY <2>1, <2>2 DEF Live, RowType
  <2>4. RowFamily(i)' = HandFamily(r)
    BY <2>2 DEF RowFamily, HandFamily
  <2>5. \A q \in Requests \ {r} : id[q] = i => HandFamily(q) = HandFamily(r) /\ Holds(q)
    BY <1>6, Families DEF Holds
  <2>6. OneHand'
    BY <1>6, <2>2 DEF HistoryInv, OneHand, Holds, HandFamily
  <2>7. ASSUME NEW q \in Requests, Holds(q), HandFamily(q) \notin disturbed
        PROVE  /\ id[q] \in Live'
               /\ pc'[q] \notin {"flip", "record"} => copy[q].done = history[id[q]]
               /\ pc'[q] = "record" => db'[id[q]].done = copy[q].done
    <3>1. CASE q = r
      BY <1>6, <2>2, <2>3, <2>7, <3>1 DEF HistoryInv, HeldInv
    <3>2. CASE q # r
      <4>1. id[q] # i
        BY <1>6, <2>5, <2>7, <3>2 DEF HistoryInv, OneHand
      <4>2. id[q] \in Live /\ id[q] \in Ids
        BY <2>7, Families DEF HistoryInv, HeldInv
      <4> QED
        BY <2>2, <2>3, <2>7, <3>2, <4>1, <4>2 DEF HistoryInv, HeldInv
    <3> QED
      BY <3>1, <3>2
  <2>8. HeldInv'
    BY <1>6, <2>2, <2>7 DEF HeldInv, Holds, HandFamily
  <2>9. RowInv'
    <3> SUFFICES ASSUME NEW k \in Live', RowFamily(k)' \notin disturbed,
                        db'[k].done # history[k]
                 PROVE  \E q \in Requests : id[q] = k /\ pc'[q] = "record"
      BY <1>6, <2>2 DEF RowInv
    <3>1. CASE k = i
      <4>1. HandFamily(r) \notin disturbed
        BY <2>2, <2>4, <3>1 DEF RowFamily
      <4>2. step = "drop" => copy[r].done = history[i]
        BY <1>6, <4>1 DEF HistoryInv, HeldInv
      <4> QED
        BY <1>6, <2>2, <3>1, <4>2
    <3>2. CASE k # i
      <4>1. k \in Live /\ db'[k] = db[k]
        BY <2>2, <2>3, <3>2 DEF Live
      <4>2. PICK q \in Requests : id[q] = k /\ pc[q] = "record"
        BY <4>1 DEF HistoryInv, RowInv, RowFamily
      <4> QED
        BY <2>2, <3>2, <4>2
    <3> QED
      BY <3>1, <3>2
  <2>10. BlankInv'
    BY <1>6, <2>2, <2>3 DEF HistoryInv, BlankInv, Holds
  <2> QED
    BY <2>6, <2>8, <2>9, <2>10 DEF HistoryInv
<1>7. CASE Update(r)
  BY <1>6, <1>7 DEF Update, Holds
<1>8. CASE Flip(r)
  BY <1>6, <1>8 DEF Flip, TypeOK, TaskSteps, ghosts, Holds
<1>9. CASE DropBreaks(r)
  <2> DEFINE i == id[r]
             gone == BreaksOf(i)
  <2>1. /\ i \in Ids /\ Holds(r) /\ pc[r] = "drop" /\ UNCHANGED <<id, copy, disturbed>>
        /\ pc'[r] = "seek" /\ \A q \in Requests \ {r} : pc'[q] = pc[q]
    BY <1>9 DEF DropBreaks, Goto, TypeOK, TaskSteps, Holds
  <2>2. \A k \in Ids : /\ k \in gone => db'[k] = NoTask /\ history'[k] = FALSE
                       /\ k \notin gone => db'[k] = db[k] /\ history'[k] = history[k]
    BY <1>9 DEF DropBreaks, Remove
  <2>3. Live' = Live \ gone
    BY <2>2 DEF Live
  <2>4. \A k \in gone : k \in Live /\ k # i /\ RowFamily(k) = HandFamily(r)
    BY <2>1, BreakFamily
  <2> HIDE DEF gone
  <2>5. OneHand'
    BY <2>1 DEF HistoryInv, OneHand, Holds, HandFamily
  <2>6. \A q \in Requests : Holds(q) /\ id[q] \in gone => HandFamily(q) \in disturbed
    BY <2>1, <2>4, Families DEF HistoryInv, OneHand
  <2>7. \A q \in Requests : Holds(q) => id[q] \in Ids
    BY Families
  <2>8. HeldInv'
    BY <2>1, <2>2, <2>3, <2>6, <2>7 DEF HistoryInv, HeldInv, Holds, HandFamily
  <2>9. RowInv'
    BY <2>1, <2>2, <2>3 DEF HistoryInv, RowInv, RowFamily, Live
  <2>10. BlankInv'
    BY <2>1, <2>2, <2>3 DEF HistoryInv, BlankInv, Holds
  <2> QED
    BY <2>5, <2>8, <2>9, <2>10 DEF HistoryInv
<1>10. ASSUME UNCHANGED <<db, history, ghosts>>, pc[r] \in {"seek", "room"},
              Finish(r) \/ \E step \in {"room", "pause"} : Goto(r, step)
       PROVE  HistoryInv'
  <2>1. /\ pc'[r] \in {"room", "pause", "idle"} /\ id'[r] \in {id[r], NoTask}
        /\ id'[r] # NoTask => copy'[r] = copy[r]
        /\ \A q \in Requests \ {r} : id'[q] = id[q] /\ copy'[q] = copy[q] /\ pc'[q] = pc[q]
    BY <1>10 DEF Finish, Take, Goto, TypeOK
  <2>2. ASSUME NEW q \in Requests
        PROVE  /\ Holds(q)' =>
                    /\ id'[q] = id[q] /\ copy'[q] = copy[q]
                    /\ pc'[q] = pc[q] \/ {pc[q], pc'[q]} \cap {"flip", "record"} = {}
               /\ pc'[q] = "save" /\ ~Holds(q)' => copy'[q].done = FALSE
               /\ pc[q] = "record" => id'[q] = id[q] /\ pc'[q] = "record"
    <3>1. CASE q = r
      <4>1. /\ Holds(r)' => id'[r] = id[r] /\ copy'[r] = copy[r]
            /\ pc'[r] \notin {"flip", "record", "save"} /\ pc[r] \notin {"flip", "record"}
        BY <1>10, <2>1 DEF Holds
      <4> QED
        BY <3>1, <4>1 DEF Holds
    <3>2. CASE q # r
      <4>1. id'[q] = id[q] /\ copy'[q] = copy[q] /\ pc'[q] = pc[q]
        BY <2>1, <3>2
      <4>2. pc[q] = "save" /\ ~Holds(q) => copy[q].done = FALSE
        BY DEF HistoryInv, BlankInv
      <4> QED
        BY <4>1, <4>2 DEF Holds
    <3> QED
      BY <3>1, <3>2
  <2>3. UNCHANGED <<db, history, disturbed>>
    BY <1>10 DEF ghosts
  <2> QED
    BY <2>2, <2>3, HistoryKept
<1>11. CASE SeekBreak(r) \/ FindRoom(r)
  BY <1>10, <1>11 DEF SeekBreak, FindRoom
<1>12. CASE InsertBreak(r)
  <2> DEFINE row == NewRow(copy[r].date, copy[r].end, Later(copy[r].end, Pause),
                           FALSE, id[r])
  <2>1. PICK b \in Fresh : db' = [db EXCEPT ![b] = row]
    BY <1>12 DEF InsertBreak
  <2>2. row \in RowType /\ ~row.done
    <3>1. copy[r] \in RowType /\ id[r] \in Ids
      BY <1>12 DEF InsertBreak, TypeOK, TaskSteps
    <3>2. copy[r].date \in Int /\ copy[r].end \in Times /\ copy[r].end \in Int
      BY <3>1 DEF RowType, Times
    <3>3. Later(copy[r].end, Pause) \in Times
      BY <3>2, LaterType
    <3> QED
      BY <3>1, <3>2, <3>3, NewRowType DEF NewRow
  <2> HIDE DEF row
  <2>3. /\ UNCHANGED <<history, disturbed>> /\ id'[r] = NoTask /\ pc'[r] = "idle" /\ pc[r] = "pause"
        /\ \A q \in Requests \ {r} : id'[q] = id[q] /\ copy'[q] = copy[q] /\ pc'[q] = pc[q]
    BY <1>12 DEF InsertBreak, Finish, Take, TypeOK, ghosts
  <2> QED
    BY <2>1, <2>2, <2>3, HistoryGrows DEF Holds
<1>13. CASE Record(r)
  <2> DEFINE i == id[r]
  <2>1. /\ i \in Live /\ i \in Ids /\ Holds(r) /\ pc[r] = "record" /\ UNCHANGED <<db, disturbed>>
        /\ history'[i] = copy[r].done /\ \A k \in Ids \ {i} : history'[k] = history[k]
        /\ id'[r] = NoTask /\ pc'[r] = "idle"
        /\ \A q \in Requests \ {r} : id'[q] = id[q] /\ copy'[q] = copy[q] /\ pc'[q] = pc[q]
    BY <1>13 DEF Record, Finish, Take, TypeOK, ghosts, Live, Holds
  <2>2. HandFamily(r) = RowFamily(i)
    BY <2>1, Families
  <2>3. \A q \in Requests \ {r} : id[q] = i => Holds(q) /\ HandFamily(q) = HandFamily(r)
    BY <2>1, Families DEF Holds
  <2>4. \A q \in Requests : Holds(q)' => q # r /\ Holds(q) /\ HandFamily(q)' = HandFamily(q)
    BY <2>1 DEF Holds, HandFamily
  <2>5. \A q \in Requests : Holds(q) => id[q] \in Ids
    BY Families
  <2>6. OneHand'
    BY <2>1, <2>4 DEF HistoryInv, OneHand
  <2>7. HeldInv'
    <3> SUFFICES ASSUME NEW q \in Requests, Holds(q)', HandFamily(q)' \notin disturbed
                 PROVE  /\ id'[q] \in Live'
                        /\ pc'[q] \notin {"flip", "record"} => copy'[q].done = history'[id'[q]]
                        /\ pc'[q] = "record" => db'[id'[q]].done = copy'[q].done
      BY <2>1 DEF HeldInv
    <3>1. q # r /\ Holds(q) /\ HandFamily(q) \notin disturbed
      BY <2>4
    <3>2. id[q] # i
      BY <2>1, <2>3, <3>1 DEF HistoryInv, OneHand
    <3> QED
      BY <2>1, <2>5, <3>1, <3>2 DEF HistoryInv, HeldInv, Live
  <2>8. RowInv'
    <3> SUFFICES ASSUME NEW k \in Live, RowFamily(k) \notin disturbed,
                        db[k].done # history'[k]
                 PROVE  \E q \in Requests : id'[q] = k /\ pc'[q] = "record"
      BY <2>1 DEF RowInv, Live, RowFamily
    <3>1. k # i
      BY <2>1, <2>2 DEF HistoryInv, HeldInv
    <3>2. PICK q \in Requests : id[q] = k /\ pc[q] = "record"
      BY <2>1, <3>1 DEF HistoryInv, RowInv, Live
    <3> QED
      BY <2>1, <3>1, <3>2
  <2>9. BlankInv'
    BY <2>1 DEF HistoryInv, BlankInv, Holds, Live
  <2> QED
    BY <2>6, <2>7, <2>8, <2>9 DEF HistoryInv
<1> QED
  BY <1>1, <1>3, <1>4, <1>5, <1>7, <1>8, <1>9, <1>11, <1>12, <1>13 DEF TaskRequest

\* A step of a generation adds a row at most.
LEMMA PlanRequestHistory ==
  ASSUME TypeOK, TypeOK', BreakInv, HistoryInv, NEW r \in Requests, PlanRequest(r)
  PROVE  HistoryInv'
<1> USE NoTaskAssumption, PlannerAssumption
<1>1. ASSUME pc[r] \notin TaskSteps, UNCHANGED <<history, disturbed>>,
             db' = db \/ \E new \in Fresh, row \in RowType :
                           ~row.done /\ db' = [db EXCEPT ![new] = row],
             UNCHANGED request \/ Finish(r) \/ \E step \in PlanSteps : Goto(r, step)
      PROVE  HistoryInv'
  <2>1. /\ id[r] = NoTask /\ id'[r] = NoTask /\ pc'[r] \notin TaskSteps
        /\ \A q \in Requests \ {r} : id'[q] = id[q] /\ copy'[q] = copy[q] /\ pc'[q] = pc[q]
    BY <1>1 DEF request, Finish, Take, Goto, TypeOK, TaskSteps, PlanSteps
  <2>2. \A q \in Requests :
          /\ Holds(q)' => id'[q] = id[q] /\ copy'[q] = copy[q] /\ pc'[q] = pc[q]
          /\ pc'[q] = "save" /\ ~Holds(q)' =>
               pc[q] = "save" /\ ~Holds(q) /\ copy'[q] = copy[q]
          /\ pc[q] = "record" => id'[q] = id[q] /\ pc'[q] = "record"
    BY <1>1, <2>1 DEF Holds, TaskSteps
  <2>3. CASE db' = db
    <3>1. OneHand'
      BY <1>1, <2>2 DEF HistoryInv, OneHand, Holds, HandFamily
    <3>2. HeldInv'
      BY <1>1, <2>2, <2>3 DEF HistoryInv, HeldInv, Holds, HandFamily, Live
    <3>3. RowInv'
      BY <1>1, <2>2, <2>3 DEF HistoryInv, RowInv, RowFamily, Live
    <3>4. BlankInv'
      BY <1>1, <2>2, <2>3 DEF HistoryInv, BlankInv, Live
    <3> QED
      BY <3>1, <3>2, <3>3, <3>4 DEF HistoryInv
  <2> QED
    BY <1>1, <2>2, <2>3, HistoryGrows
<1>2. CASE Book(r)
  <2> DEFINE s == plan[r].of
             row == NewRow(Target(plan[r]), s.start, EndTime(s), TRUE, NoTask)
  <2>1. PICK new \in Fresh : db' = [db EXCEPT ![new] = row]
    BY <1>2 DEF Book
  <2>2. new \in Ids /\ row.done = FALSE
    BY DEF Fresh, NewRow
  <2> HIDE DEF row
  <2>3. row # NoTask => row \in RowType
    BY <2>1, <2>2 DEF TypeOK
  <2>4. row # NoTask
    <3>1. plan[r] \in PlanType
      BY <1>2 DEF Book, TypeOK, PlanSteps
    <3>2. plan[r].of.start \in Times /\ plan[r].of.start \in Int /\ plan[r].of.duration \in Int
      BY <3>1 DEF PlanType, ScheduleType, Times
    <3>3. EndTime(plan[r].of) \in Times /\ Target(plan[r]) \in Int
      BY <3>1, <3>2, LaterType, NextDateType DEF EndTime
    <3>4. row \in RowType
      BY <3>2, <3>3, NewRowType DEF row
    <3> QED
      BY <3>4 DEF RowType
  <2>5. pc[r] \notin TaskSteps /\ UNCHANGED <<history, disturbed>> /\ Goto(r, "scan")
    BY <1>2 DEF Book, TaskSteps, ghosts
  <2> QED
    BY <1>1, <2>1, <2>2, <2>3, <2>4, <2>5 DEF PlanSteps
<1>3. ASSUME NEW s \in Schedules, Generate(r, s) PROVE HistoryInv'
  BY <1>1, <1>3 DEF Generate, TaskSteps, PlanSteps
<1>4. CASE Scan(r)
  BY <1>1, <1>4 DEF Scan, TaskSteps, PlanSteps, ghosts
<1>5. CASE LeaveLoop(r) \/ MarkScheduled(r)
  BY <1>1, <1>5 DEF LeaveLoop, MarkScheduled, TaskSteps, PlanSteps, ghosts
<1> QED
  BY <1>2, <1>3, <1>4, <1>5 DEF PlanRequest

\* A deletion disturbs the family it finds in a request's hands, and is forgotten
\* of a family that nobody has.
LEMMA DeletedFamily ==
  ASSUME TypeOK, BreakInv, NEW i \in Ids, DeleteTask(i)
  PROVE  /\ \A q \in Requests : Holds(q) /\ HandFamily(q) \notin disturbed' =>
              HandFamily(q) \notin disturbed /\ id[q] \notin {i} \cup BreaksOf(i)
         /\ \A k \in Live \ ({i} \cup BreaksOf(i)) :
              RowFamily(k) \notin disturbed' => RowFamily(k) \notin disturbed
         /\ disturbed \subseteq disturbed' \cup {i}
<1> USE NoTaskAssumption, PlannerAssumption
<1> DEFINE gone == {i} \cup BreaksOf(i)
           f == RowFamily(i)
<1>1. i \in Live
  BY DEF DeleteTask
<1>2. \A k \in gone : k \in Live /\ RowFamily(k) = f
  BY <1>1, BreakFamily
<1>3. \A k \in Live : RowFamily(k) = i => k \in gone
  BY DEF RowFamily, FamilyOf, IsBreak, BreaksOf
<1>4. \A q \in Requests : Holds(q) /\ id[q] \in gone => HandFamily(q) = f
  BY <1>2, Families
<1>5. \A q \in Requests : Holds(q) /\ HandFamily(q) = i => f = i
  <2> SUFFICES ASSUME NEW q \in Requests, Holds(q), HandFamily(q) = i, f # i PROVE FALSE
    OBVIOUS
  <2>1. db[i].parent = f /\ f \in Ids /\ Says(i, f)
    BY <1>1, BreakFamily DEF RowFamily, FamilyOf, IsBreak, TypeOK, Live, RowType, Says
  <2>2. id[q] # i
    BY <1>4
  <2>3. copy[q].parent = i /\ Says(id[q], i)
    BY <2>2 DEF HandFamily, FamilyOf, IsBreak, Says
  <2> QED
    BY <2>1, <2>3, Families DEF BreakInv, FamilyInv
<1>6. \/ disturbed' = disturbed \cup {f}
      \/ disturbed' = disturbed \ {i} /\ \A q \in Requests : Holds(q) => HandFamily(q) # f
  BY Families DEF DeleteTask, InHand, RowFamily, HandFamily, Holds
<1> HIDE DEF f
<1>7. ASSUME NEW q \in Requests, Holds(q), HandFamily(q) \notin disturbed'
      PROVE  HandFamily(q) \notin disturbed /\ id[q] \notin gone
  BY <1>4, <1>5, <1>6, <1>7
<1>8. \A k \in Live \ gone : RowFamily(k) \notin disturbed' => RowFamily(k) \notin disturbed
  BY <1>3, <1>6
<1> QED
  BY <1>6, <1>7, <1>8

\* A failure may leave a record unwritten, which disturbs the family; a deletion
\* takes the records with it.
LEMMA OtherHistory ==
  ASSUME TypeOK, TypeOK', BreakInv, HistoryInv,
         \/ \E r \in Requests : Abort(r)
         \/ \E i \in Ids : DeleteTask(i)
         \/ \E i \in Live : \E t \in Overrides \cup {<<db[i].start, db[i].end>>} :
              CopyTask(i, t)
  PROVE  HistoryInv'
<1> USE NoTaskAssumption, PlannerAssumption
<1>1. ASSUME NEW r \in Requests, Abort(r) PROVE HistoryInv'
  <2>1. /\ UNCHANGED <<db, history>> /\ disturbed \subseteq disturbed'
        /\ pc[r] = "record" => HandFamily(r) \in disturbed'
        /\ id'[r] = NoTask /\ pc'[r] = "idle"
        /\ \A q \in Requests \ {r} : id'[q] = id[q] /\ copy'[q] = copy[q] /\ pc'[q] = pc[q]
    BY <1>1 DEF Abort, Finish, Take, TypeOK, HandFamily
  <2>2. \A q \in Requests :
          /\ Holds(q)' => id'[q] = id[q] /\ copy'[q] = copy[q] /\ pc'[q] = pc[q]
          /\ pc'[q] = "save" /\ ~Holds(q)' => copy'[q].done = FALSE
          /\ pc[q] = "record" => (id'[q] = id[q] /\ pc'[q] = "record") \/ HandFamily(q) \in disturbed'
    BY <2>1 DEF Holds, HistoryInv, BlankInv
  <2> QED
    BY <2>1, <2>2, HistoryKept
<1>2. ASSUME NEW i \in Ids, DeleteTask(i) PROVE HistoryInv'
  <2> DEFINE gone == {i} \cup BreaksOf(i)
  <2>1. i \in Live /\ UNCHANGED <<pc, id, copy>> /\ Remove(gone)
    BY <1>2 DEF DeleteTask, request
  <2>2. \A k \in Ids : /\ k \in gone => db'[k] = NoTask /\ history'[k] = FALSE
                       /\ k \notin gone => db'[k] = db[k] /\ history'[k] = history[k]
    BY <2>1 DEF Remove
  <2>3. Live' = Live \ gone
    BY <2>2 DEF Live
  <2>4. /\ \A q \in Requests : Holds(q) /\ HandFamily(q) \notin disturbed' =>
             HandFamily(q) \notin disturbed /\ id[q] \notin gone
        /\ \A k \in Live \ gone : RowFamily(k) \notin disturbed' => RowFamily(k) \notin disturbed
    BY <1>2, DeletedFamily
  <2> HIDE DEF gone
  <2>5. OneHand'
    BY <2>1, <2>4 DEF HistoryInv, OneHand, Holds, HandFamily
  <2>6. HeldInv'
    BY <2>1, <2>2, <2>3, <2>4, Families DEF HistoryInv, HeldInv, Holds, HandFamily
  <2>7. RowInv'
    BY <2>1, <2>2, <2>3, <2>4 DEF HistoryInv, RowInv, RowFamily, Live
  <2>8. BlankInv'
    BY <2>1, <2>2, <2>3 DEF HistoryInv, BlankInv, Holds
  <2> QED
    BY <2>5, <2>6, <2>7, <2>8 DEF HistoryInv
<1>3. ASSUME NEW i \in Live,
             NEW t \in Overrides \cup {<<db[i].start, db[i].end>>}, CopyTask(i, t)
      PROVE  HistoryInv'
  <2> DEFINE row == NewRow(db[i].date + 1, t[1], t[2], db[i].nn, NoTask)
  <2>1. PICK j \in Fresh : db' = [db EXCEPT ![j] = row]
    BY <1>3 DEF CopyTask
  <2>2. row \in RowType
    <3>1. db[i] \in RowType
      BY DEF Live, TypeOK
    <3>2. t[1] \in Times /\ t[2] \in Times
      BY <3>1 DEF RowType
    <3>3. db[i].date + 1 \in Int /\ db[i].nn \in BOOLEAN
      BY <3>1 DEF RowType
    <3> QED
      BY <3>2, <3>3, NewRowType
  <2>3. UNCHANGED <<pc, id, copy, history, disturbed>> /\ ~row.done
    BY <1>3 DEF CopyTask, request, ghosts, NewRow
  <2> HIDE DEF row
  <2> QED
    BY <2>1, <2>2, <2>3, HistoryGrows DEF Holds
<1> QED
  BY <1>1, <1>2, <1>3

LEMMA HistoryInit == Init => TypeOK /\ BreakInv /\ HistoryInv
<1> SUFFICES ASSUME Init PROVE TypeOK /\ BreakInv /\ HistoryInv
  OBVIOUS
<1>1. OneHand /\ HeldInv /\ RowInv /\ BlankInv
  BY DEF Init, OneHand, HeldInv, RowInv, BlankInv, Holds, Live
<1> QED
  BY <1>1, TypeInit, BreakInit DEF HistoryInv

LEMMA HistoryStep ==
  TypeOK /\ BreakInv /\ HistoryInv /\ [Next]_vars => TypeOK' /\ BreakInv' /\ HistoryInv'
<1> SUFFICES ASSUME TypeOK, BreakInv, HistoryInv, [Next]_vars
             PROVE  TypeOK' /\ BreakInv' /\ HistoryInv'
  OBVIOUS
<1>1. TypeOK' /\ BreakInv'
  BY TypeStep, BreakStep
<1>2. CASE UNCHANGED vars
  <2>1. UNCHANGED <<db, pc, id, copy, history, disturbed>>
    BY <1>2 DEF vars
  <2>2. OneHand' /\ HeldInv'
    BY <2>1 DEF HistoryInv, OneHand, HeldInv, Holds, HandFamily, Live
  <2>3. RowInv' /\ BlankInv'
    BY <2>1 DEF HistoryInv, RowInv, BlankInv, Holds, RowFamily, Live
  <2> QED
    BY <1>1, <2>2, <2>3 DEF HistoryInv
<1>3. CASE \E r \in Requests : TaskRequest(r)
  BY <1>1, <1>3, TaskRequestHistory
<1>4. CASE \E r \in Requests : PlanRequest(r)
  BY <1>1, <1>4, PlanRequestHistory
<1>5. CASE \/ \E r \in Requests : Abort(r)
           \/ \E i \in Ids : DeleteTask(i)
           \/ \E i \in Live : \E t \in Overrides \cup {<<db[i].start, db[i].end>>} :
                CopyTask(i, t)
  BY <1>1, <1>5, OtherHistory
<1> QED
  BY <1>1, <1>2, <1>3, <1>4, <1>5 DEF Next, Live

\* The completion of a task is what its last record says, for any rows, forms
\* and requests: a toggle is two statements, and an edit writes every column
\* of the row it read.
THEOREM RecordsAgree == Spec => []HistoryAgrees
<1>1. TypeOK /\ BreakInv /\ HistoryInv => HistoryAgrees
  <2> USE NoTaskAssumption, PlannerAssumption
  <2> SUFFICES ASSUME TypeOK, BreakInv, HistoryInv, NEW i \in Live,
                      RowFamily(i) \notin disturbed, db[i].done # history[i]
               PROVE  \E r \in Requests : InHand(r, RowFamily(i))
    BY DEF HistoryAgrees, RowFamily
  <2>1. PICK r \in Requests : id[r] = i /\ pc[r] = "record"
    BY DEF HistoryInv, RowInv
  <2>2. Holds(r) /\ HandFamily(r) = RowFamily(i)
    BY <2>1, Families DEF Holds, Live
  <2> QED
    BY <2>1, <2>2, Families DEF InHand, Holds, HandFamily
<1> QED
  BY <1>1, HistoryInit, HistoryStep, PTL DEF Spec

-----------------------------------------------------------------------------
(* TidyBreaks *)

\* A row is the break that auto_insert_breaks puts after another one.
Follows(b, row) ==
  /\ WantsBreak(row)
  /\ b.date = row.date /\ b.start = row.end /\ b.end = Later(row.end, Pause)

\* One break at most, in its place unless a form has replaced it.
Tidy(i) ==
  /\ \A a, b \in BreaksOf(i) : a = b
  /\ \A b \in BreaksOf(i) \ moved : Follows(db[b], db[i])

\* A form has replaced the row and has yet to delete the breaks of the old one.
Replaced(i) == \E r \in Requests : id[r] = i /\ pc[r] = "drop"

TasksTidy == \A i \in Live \ disturbed : Tidy(i) \/ Replaced(i)

\* What auto_insert_breaks relies on: nobody but the one request at work on the
\* family changes the times of its task or puts a break after it.
Careful(r) ==
  /\ pc[r] # "save" => SamePlace(copy[r], db[id[r]])
  /\ pc[r] \in {"seek", "room", "pause"} => BreaksOf(id[r]) = {}
  /\ pc[r] \in {"room", "pause"} => WantsBreak(copy[r])

HandsTidy == \A r \in Requests : Holds(r) /\ HandFamily(r) \notin disturbed => Careful(r)

TidyInv == TasksTidy /\ HandsTidy

\* An object and the row it is written to say the same of their parent.
LEMMA SameParent ==
  ASSUME TypeOK, BreakInv
  PROVE  /\ \A r \in Requests : id[r] \in Live => copy[r].parent = db[id[r]].parent
         /\ \A r \in Requests : Holds(r) /\ copy[r].parent \in Ids =>
              HandFamily(r) = copy[r].parent /\ BreaksOf(id[r]) = {}
         /\ \A r \in Requests : Holds(r) /\ copy[r].parent \notin Ids => HandFamily(r) = id[r]
<1> USE NoTaskAssumption, PlannerAssumption
<1>1. \A r \in Requests : Holds(r) => /\ id[r] \in Ids /\ copy[r].parent \in Ids \cup {NoTask}
                                      /\ Says(id[r], copy[r].parent)
  BY Families DEF RowType, Says
<1>2. \A i \in Live : i \in Ids /\ db[i].parent \in Ids \cup {NoTask} /\ Says(i, db[i].parent)
  BY Families DEF RowType, Says
<1>3. /\ \A i \in Ids, p, q \in Ids \cup {NoTask} : Says(i, p) /\ Says(i, q) => p = q
      /\ \A i, p \in Ids : Says(i, p) => \A q \in Ids : ~Says(p, q)
  BY DEF BreakInv, FamilyInv
<1>4. \A r \in Requests : id[r] \in Live => copy[r].parent = db[id[r]].parent
  BY <1>1, <1>2, <1>3 DEF Holds
<1>5. ASSUME NEW r \in Requests, Holds(r), copy[r].parent \in Ids, NEW b \in BreaksOf(id[r])
      PROVE  FALSE
  <2>1. b \in Ids /\ Says(b, id[r])
    BY <1>2 DEF BreaksOf
  <2> QED
    BY <1>1, <1>3, <1>5, <2>1
<1>6. \A r \in Requests : Holds(r) => HandFamily(r) = IF copy[r].parent \in Ids
                                                     THEN copy[r].parent ELSE id[r]
  BY <1>1 DEF HandFamily, FamilyOf, IsBreak
<1> QED
  BY <1>4, <1>5, <1>6

\* A task stays tidy when its breaks become no more and stay where they are.
LEMMA TidyStays ==
  ASSUME NEW i, Tidy(i), BreaksOf(i)' \subseteq BreaksOf(i),
         SamePlace(db'[i], db[i]), db'[i].parent = db[i].parent,
         \A b \in BreaksOf(i)' :
           /\ b \in moved => b \in moved'
           /\ b \in moved' \/ SamePlace(db'[b], db[b])
  PROVE  Tidy(i)'
<1>1. \A b \in BreaksOf(i) : Follows(db[b], db[i]) /\ SamePlace(db'[b], db[b])
        => Follows(db'[b], db'[i])
  BY DEF Follows, SamePlace, WantsBreak, IsBreak
<1> QED
  BY <1>1 DEF Tidy

\* A step that changes no row: every request goes on as it does or is careful
\* where it has come to, and none leaves an edit half done.
LEMMA TidyGoesOn ==
  ASSUME TypeOK, BreakInv, TidyInv, UNCHANGED <<db, moved>>, disturbed \subseteq disturbed',
         \A r \in Requests :
           /\ Holds(r)' /\ HandFamily(r)' \notin disturbed' =>
                \/ Holds(r) /\ id'[r] = id[r] /\ copy'[r] = copy[r] /\ pc'[r] = pc[r]
                \/ Careful(r)'
           /\ Holds(r) /\ pc[r] = "drop" =>
                \/ id'[r] = id[r] /\ pc'[r] = "drop"
                \/ HandFamily(r) \in disturbed'
  PROVE  TidyInv'
<1> USE NoTaskAssumption, PlannerAssumption
<1>1. Live' = Live /\ \A i : BreaksOf(i)' = BreaksOf(i)
  BY DEF Live, BreaksOf
<1>2. \A i \in Live : Tidy(i) => Tidy(i)'
  BY <1>1 DEF Tidy
<1>3. ASSUME NEW i \in Live \ disturbed' PROVE Tidy(i)' \/ Replaced(i)'
  <2>1. CASE Tidy(i)
    BY <1>2, <2>1
  <2>2. CASE Replaced(i)
    <3>1. PICK r \in Requests : id[r] = i /\ pc[r] = "drop"
      BY <2>2 DEF Replaced
    <3>2. Holds(r)
      BY <3>1 DEF Holds, Live
    <3>3. CASE HandFamily(r) = i
      BY <3>1, <3>2, <3>3 DEF Replaced
    <3>4. CASE HandFamily(r) # i
      <4>1. BreaksOf(i) = {}
        BY <3>1, <3>2, <3>4, SameParent
      <4> QED
        BY <1>2, <4>1 DEF Tidy
    <3> QED
      BY <3>3, <3>4
  <2> QED
    BY <2>1, <2>2 DEF TidyInv, TasksTidy
<1>4. ASSUME NEW r \in Requests, Holds(r)', HandFamily(r)' \notin disturbed' PROVE Careful(r)'
  <2> SUFFICES ASSUME Holds(r), id'[r] = id[r], copy'[r] = copy[r], pc'[r] = pc[r]
               PROVE  Careful(r)'
    BY <1>4
  <2>1. HandFamily(r)' = HandFamily(r)
    BY DEF HandFamily
  <2>2. Careful(r)
    BY <1>4, <2>1 DEF TidyInv, HandsTidy
  <2>3. BreaksOf(id[r])' = BreaksOf(id[r])
    BY DEF BreaksOf, Live
  <2> QED
    BY <2>2, <2>3 DEF Careful
<1> QED
  BY <1>1, <1>3, <1>4 DEF TidyInv, TasksTidy, HandsTidy

\* A new task has no breaks, and is nobody's.
LEMMA TidyGrows ==
  ASSUME TypeOK, BreakInv, TidyInv, NEW new \in Fresh, NEW row \in RowType, row.parent = NoTask,
         db' = [db EXCEPT ![new] = row], UNCHANGED <<moved, disturbed>>,
         \A r \in Requests :
           /\ Holds(r)' =>
                \/ Holds(r) /\ id'[r] = id[r] /\ copy'[r] = copy[r] /\ pc'[r] = pc[r]
                \/ id'[r] = new /\ copy'[r] = row /\ pc'[r] = "seek"
           /\ pc[r] = "drop" => id'[r] = id[r] /\ pc'[r] = "drop"
  PROVE  TidyInv'
<1> USE NoTaskAssumption, PlannerAssumption
<1>1. new \in Ids /\ new \notin Live /\ \A r \in Requests : id[r] # new
  BY Families DEF Fresh, Holds
<1>2. db'[new] = row /\ \A i \in Ids \ {new} : db'[i] = db[i]
  BY <1>1 DEF TypeOK
<1>3. Live' = Live \cup {new}
  BY <1>1, <1>2 DEF Live
<1>4. \A i \in Ids : BreaksOf(i)' = BreaksOf(i)
  BY <1>1, <1>2, <1>3 DEF BreaksOf, Live
<1>5. BreaksOf(new) = {}
  BY <1>1, Families DEF BreakInv, ParentsLive, BreaksOf, IsBreak
<1>6. ASSUME NEW i \in Live' \ disturbed PROVE Tidy(i)' \/ Replaced(i)'
  <2>1. CASE i = new
    BY <1>1, <1>4, <1>5, <2>1 DEF Tidy
  <2>2. CASE i # new
    <3>1. i \in Live /\ i \in Ids /\ db'[i] = db[i]
      BY <1>2, <1>3, <2>2 DEF Live
    <3>2. \A b \in BreaksOf(i) : db'[b] = db[b]
      BY <1>1, <1>2 DEF BreaksOf, Live
    <3>3. Tidy(i) => Tidy(i)'
      BY <1>4, <3>1, <3>2 DEF Tidy
    <3>4. Replaced(i) => Replaced(i)'
      BY DEF Replaced
    <3> QED
      BY <1>6, <3>1, <3>3, <3>4 DEF TidyInv, TasksTidy
  <2> QED
    BY <2>1, <2>2
<1>7. ASSUME NEW r \in Requests, Holds(r)', HandFamily(r)' \notin disturbed PROVE Careful(r)'
  <2>1. CASE id'[r] = new /\ copy'[r] = row /\ pc'[r] = "seek"
    <3>1. BreaksOf(id[r])' = {}
      BY <1>1, <1>2, <1>5, <2>1 DEF BreaksOf, Live
    <3> QED
      BY <1>2, <2>1, <3>1 DEF Careful, SamePlace
  <2>2. CASE Holds(r) /\ id'[r] = id[r] /\ copy'[r] = copy[r] /\ pc'[r] = pc[r]
    <3>1. id[r] \in Ids /\ id[r] # new /\ HandFamily(r)' = HandFamily(r)
      BY <1>1, <2>2, Families DEF HandFamily
    <3>2. Careful(r)
      BY <1>7, <2>2, <3>1 DEF TidyInv, HandsTidy
    <3>3. BreaksOf(id[r])' = BreaksOf(id[r])
      BY <1>1, <1>2, <2>2, <3>1 DEF BreaksOf, Live
    <3> QED
      BY <1>2, <2>2, <3>1, <3>2, <3>3 DEF Careful
  <2> QED
    BY <1>7, <2>1, <2>2
<1> QED
  BY <1>6, <1>7 DEF TidyInv, TasksTidy, HandsTidy

\* A step that takes rows away: those of a task and its breaks, or the breaks.
LEMMA TidyShrinks ==
  ASSUME TypeOK, BreakInv, TidyInv, NEW gone \in SUBSET Live, Remove(gone),
         \A i \in Live \ gone : i \notin disturbed' => i \notin disturbed,
         \A i \in Live \ gone : Replaced(i) => Replaced(i)' \/ BreaksOf(i) \subseteq gone,
         \A r \in Requests : Holds(r)' /\ HandFamily(r)' \notin disturbed' =>
           /\ Holds(r) /\ id'[r] = id[r] /\ copy'[r] = copy[r]
           /\ HandFamily(r) \notin disturbed /\ id[r] \notin gone
           /\ pc'[r] = pc[r] \/ (pc'[r] = "seek" /\ pc[r] = "drop" /\ BreaksOf(id[r]) = gone)
  PROVE  TidyInv'
<1> USE NoTaskAssumption, PlannerAssumption
<1>1. \A i \in Ids : db'[i] = IF i \in gone THEN NoTask ELSE db[i]
  BY DEF Remove
<1>2. Live' = Live \ gone /\ moved' = moved \ gone
  BY <1>1 DEF Live, Remove
<1>3. \A i : BreaksOf(i)' = BreaksOf(i) \ gone
  BY <1>1, <1>2 DEF BreaksOf, Live
<1>4. ASSUME NEW i \in Live' \ disturbed' PROVE Tidy(i)' \/ Replaced(i)'
  <2>1. i \in Live \ gone /\ i \notin disturbed /\ db'[i] = db[i]
    BY <1>1, <1>2, <1>4 DEF Live
  <2>2. \A b \in BreaksOf(i)' : b \notin gone /\ db'[b] = db[b]
    BY <1>1, <1>3 DEF BreaksOf, Live
  <2>3. Tidy(i) => Tidy(i)'
    BY <1>2, <1>3, <2>1, <2>2, TidyStays DEF SamePlace
  <2>4. BreaksOf(i) \subseteq gone => Tidy(i)'
    BY <1>3 DEF Tidy
  <2> QED
    BY <2>1, <2>3, <2>4 DEF TidyInv, TasksTidy
<1>5. ASSUME NEW r \in Requests, Holds(r)', HandFamily(r)' \notin disturbed' PROVE Careful(r)'
  <2>1. /\ Holds(r) /\ id'[r] = id[r] /\ copy'[r] = copy[r]
        /\ HandFamily(r) \notin disturbed /\ id[r] \notin gone
        /\ pc'[r] = pc[r] \/ (pc'[r] = "seek" /\ pc[r] = "drop" /\ BreaksOf(id[r]) = gone)
    BY <1>5
  <2>2. Careful(r) /\ id[r] \in Ids /\ db'[id[r]] = db[id[r]]
    BY <1>1, <2>1, Families DEF TidyInv, HandsTidy
  <2>3. BreaksOf(id[r])' = BreaksOf(id[r]) \ gone
    BY <1>1, <2>1 DEF BreaksOf, Live
  <2> QED
    BY <2>1, <2>2, <2>3 DEF Careful
<1> QED
  BY <1>4, <1>5 DEF TidyInv, TasksTidy, HandsTidy

\* An object is written over its row: by a form, which moves it and deletes the
\* breaks next, or by a toggle, which leaves it in its place.
LEMMA TidyWrites ==
  ASSUME TypeOK, BreakInv, HistoryInv, TidyInv, NEW r \in Requests, Holds(r),
         NEW step \in {"drop", "record"}, Goto(r, step),
         db' = [db EXCEPT ![id[r]] = copy[r]], UNCHANGED disturbed, pc[r] \in {"save", "flip"},
         step = "drop" => moved' = moved \cup {id[r]},
         step = "record" => moved' = moved /\ pc[r] = "flip"
  PROVE  TidyInv'
<1> USE NoTaskAssumption, PlannerAssumption
<1> PICK mine : mine = id[r]
  OBVIOUS
<1>1. /\ mine \in Ids /\ db'[mine] = copy[r] /\ \A i \in Ids \ {mine} : db'[i] = db[i]
      /\ copy[r] \in RowType
  BY Families DEF TypeOK
<1>2. /\ UNCHANGED <<id, copy>> /\ pc'[r] = step
      /\ \A q \in Requests \ {r} : pc'[q] = pc[q]
  BY DEF Goto, TypeOK
<1>3. Live' = Live \cup {mine}
  BY <1>1 DEF Live
<1>4. \A i : BreaksOf(i)' = (BreaksOf(i) \ {mine}) \cup {b \in {mine} : copy[r].parent = i}
  BY <1>1, <1>3 DEF BreaksOf, Live
<1>5. HandFamily(r) \notin disturbed =>
        /\ mine \in Live /\ copy[r].parent = db[mine].parent
        /\ step = "record" => SamePlace(copy[r], db[mine])
  BY SameParent DEF HistoryInv, HeldInv, TidyInv, HandsTidy, Careful
<1>6. \A i \in Ids : copy[r].parent = i => HandFamily(r) = i
  BY SameParent
<1>7. Says(mine, copy[r].parent) /\ copy[r].parent \in Ids \cup {NoTask}
  BY <1>1 DEF Says, RowType
<1>8. /\ \A i, p \in Ids : Says(i, p) => \A q \in Ids : ~Says(p, q)
      /\ \A i \in Ids, p, q \in Ids \cup {NoTask} : Says(i, p) /\ Says(i, q) => p = q
  BY DEF BreakInv, FamilyInv
<1>9. ASSUME NEW i \in Live' \ disturbed PROVE Tidy(i)' \/ Replaced(i)'
  <2>1. i \in Ids
    BY DEF Live
  <2>2. CASE i = mine /\ step = "drop"
    BY <1>2, <2>2 DEF Replaced
  <2>3. CASE i = mine /\ step = "record"
    <3>1. CASE HandFamily(r) = i
      <4>1. mine \in Live /\ copy[r].parent = db[mine].parent /\ SamePlace(copy[r], db[mine])
        BY <1>5, <1>9, <2>3, <3>1
      <4>2. mine # copy[r].parent
        BY <1>1, <1>7, <1>8
      <4>3. BreaksOf(i)' = BreaksOf(i)
        BY <1>4, <2>3, <4>1, <4>2 DEF BreaksOf
      <4>4. \A b \in BreaksOf(i) : db'[b] = db[b]
        BY <1>1, <2>3, <4>1, <4>2 DEF BreaksOf, Live
      <4>5. Tidy(i) \/ Replaced(i)
        BY <1>9, <2>3, <4>1 DEF TidyInv, TasksTidy
      <4>6. Tidy(i) => Tidy(i)'
        BY <1>1, <2>3, <4>1, <4>3, <4>4, TidyStays DEF SamePlace
      <4>7. Replaced(i) => Replaced(i)'
        BY <1>2 DEF Replaced
      <4> QED
        BY <4>5, <4>6, <4>7
    <3>2. CASE HandFamily(r) # i
      <4>1. copy[r].parent \in Ids /\ BreaksOf(i) = {}
        BY <2>3, <3>2, SameParent
      <4>2. BreaksOf(i)' = {}
        BY <1>4, <1>6, <3>2, <4>1
      <4> QED
        BY <4>2 DEF Tidy
    <3> QED
      BY <3>1, <3>2
  <2>4. CASE i # mine
    <3>1. i \in Live /\ db'[i] = db[i]
      BY <1>1, <1>3, <2>1, <2>4
    <3>2. Replaced(i) => Replaced(i)'
      BY <1>2, <2>4 DEF Replaced
    <3>3. mine \in BreaksOf(i)' =>
            mine \in BreaksOf(i) /\ (mine \in moved' \/ SamePlace(db'[mine], db[mine]))
      <4>1. mine \in BreaksOf(i)' => copy[r].parent = i
        BY <1>4
      <4> QED
        BY <1>1, <1>5, <1>6, <1>9, <2>1, <4>1 DEF BreaksOf
    <3>4. \A b \in BreaksOf(i)' : b # mine => b \in BreaksOf(i) /\ db'[b] = db[b]
      BY <1>1, <1>4 DEF BreaksOf, Live
    <3>5. \A b : b \in moved => b \in moved'
      OBVIOUS
    <3>6. Tidy(i) => Tidy(i)'
      BY <3>1, <3>3, <3>4, <3>5, TidyStays DEF SamePlace
    <3> QED
      BY <1>9, <3>1, <3>2, <3>6 DEF TidyInv, TasksTidy
  <2> QED
    BY <2>2, <2>3, <2>4
<1>10. ASSUME NEW q \in Requests, Holds(q), HandFamily(q) \notin disturbed PROVE Careful(q)'
  <2>1. CASE q = r
    BY <1>1, <1>2, <2>1 DEF Careful, SamePlace
  <2>2. CASE q # r
    <3>1. HandFamily(q) # HandFamily(r)
      BY <1>10, <2>2 DEF HistoryInv, OneHand
    <3>2. id[q] # mine /\ id[q] \in Ids
      BY <1>10, <3>1, Families
    <3>3. copy[r].parent # id[q]
      <4>1. SUFFICES ASSUME copy[r].parent = id[q] PROVE FALSE
        OBVIOUS
      <4>2. Says(mine, id[q]) /\ Says(id[q], copy[q].parent)
        BY <1>7, <4>1 DEF Says
      <4>3. copy[q].parent \notin Ids
        BY <1>1, <1>8, <3>2, <4>2
      <4> QED
        BY <1>6, <1>10, <3>1, <3>2, <4>1, <4>3, SameParent
    <3>4. BreaksOf(id[q])' \subseteq BreaksOf(id[q]) /\ id'[q] = id[q]
      <4>1. id'[q] = id[q] /\ copy[r].parent # id'[q]
        BY <1>2, <3>3
      <4> QED
        BY <1>1, <1>3, <4>1 DEF BreaksOf, Live
    <3>5. Careful(q)
      BY <1>10 DEF TidyInv, HandsTidy
    <3> QED
      BY <1>1, <1>2, <2>2, <3>2, <3>4, <3>5 DEF Careful
  <2> QED
    BY <2>1, <2>2
<1> QED
  BY <1>2, <1>9, <1>10 DEF TidyInv, TasksTidy, HandsTidy, Holds, HandFamily

\* The break is put after a task that has none, and where the task ends.
LEMMA TidyInsertBreak ==
  ASSUME TypeOK, BreakInv, HistoryInv, TidyInv, NEW r \in Requests, InsertBreak(r)
  PROVE  TidyInv'
<1> USE NoTaskAssumption, PlannerAssumption
<1> PICK mine : mine = id[r]
  OBVIOUS
<1> DEFINE row == NewRow(copy[r].date, copy[r].end, Later(copy[r].end, Pause), FALSE, mine)
<1>1. PICK new \in Fresh : db' = [db EXCEPT ![new] = row]
  BY DEF InsertBreak
<1>2. /\ mine \in Live /\ pc[r] = "pause" /\ id'[r] = NoTask /\ UNCHANGED <<moved, disturbed>>
      /\ \A q \in Requests \ {r} : id'[q] = id[q] /\ copy'[q] = copy[q] /\ pc'[q] = pc[q]
  BY DEF InsertBreak, Finish, Take, TypeOK, ghosts
<1>3. /\ new \in Ids /\ new \notin Live /\ \A q \in Requests : id[q] # new
      /\ mine \in Ids /\ new # mine /\ Holds(r) /\ copy[r] \in RowType
  BY <1>2, Families DEF Fresh, Holds, Live
<1>4. row.parent = mine /\ row \in RowType
  <2>1. copy[r].date \in Int /\ copy[r].end \in Times
    BY <1>3 DEF RowType
  <2>2. copy[r].end \in Int /\ Pause \in Int
    BY <2>1 DEF Times
  <2>3. Later(copy[r].end, Pause) \in Times
    BY <2>2, LaterType
  <2> QED
    BY <1>3, <2>1, <2>3, NewRowType DEF NewRow
<1>5. /\ row.date = copy[r].date /\ row.start = copy[r].end
      /\ row.end = Later(copy[r].end, Pause)
  BY DEF NewRow
<1> HIDE DEF row
<1>6. db'[new] = row /\ \A i \in Ids \ {new} : db'[i] = db[i]
  BY <1>1, <1>3 DEF TypeOK
<1>7. Live' = Live \cup {new}
  BY <1>3, <1>4, <1>6 DEF Live
<1>8. \A i \in Ids : BreaksOf(i)' = BreaksOf(i) \cup {b \in {new} : mine = i}
  BY <1>3, <1>4, <1>6, <1>7 DEF BreaksOf, Live
<1>9. copy[r].parent = NoTask /\ HandFamily(r) = mine /\ db[mine].parent = NoTask
  <2>1. copy[r].parent = NoTask
    BY <1>2 DEF BreakInv, PlainInv
  <2> QED
    BY <1>2, <1>3, <2>1, SameParent
<1>10. BreaksOf(new) = {}
  BY <1>3, Families DEF BreakInv, ParentsLive, BreaksOf, IsBreak
<1>11. ASSUME NEW i \in Live' \ disturbed PROVE Tidy(i)' \/ Replaced(i)'
  <2>1. CASE i = new
    BY <1>3, <1>8, <1>10, <2>1 DEF Tidy
  <2>2. CASE i = mine
    <3>1. BreaksOf(i) = {} /\ WantsBreak(copy[r]) /\ SamePlace(copy[r], db[i])
      BY <1>2, <1>3, <1>9, <1>11, <2>2 DEF TidyInv, HandsTidy, Careful
    <3>2. BreaksOf(i)' = {new}
      BY <1>3, <1>8, <2>2, <3>1
    <3>3. Follows(db'[new], db'[i])
      BY <1>3, <1>5, <1>6, <1>9, <2>2, <3>1 DEF Follows, SamePlace, WantsBreak, IsBreak
    <3> QED
      BY <3>2, <3>3 DEF Tidy
  <2>3. CASE i \notin {new, mine}
    <3>1. i \in Live /\ i \in Ids /\ db'[i] = db[i] /\ BreaksOf(i)' = BreaksOf(i)
      BY <1>6, <1>7, <1>8, <2>3 DEF Live
    <3>2. \A b \in BreaksOf(i) : db'[b] = db[b]
      BY <1>3, <1>6 DEF BreaksOf, Live
    <3>3. Tidy(i) => Tidy(i)'
      BY <1>2, <3>1, <3>2 DEF Tidy
    <3>4. Replaced(i) => Replaced(i)'
      BY <1>2 DEF Replaced
    <3> QED
      BY <1>11, <3>1, <3>3, <3>4 DEF TidyInv, TasksTidy
  <2> QED
    BY <2>1, <2>2, <2>3
<1>12. ASSUME NEW q \in Requests, Holds(q)', HandFamily(q)' \notin disturbed
       PROVE  Careful(q)'
  <2>1. q # r /\ Holds(q) /\ id'[q] = id[q] /\ copy'[q] = copy[q] /\ pc'[q] = pc[q]
    BY <1>2, <1>12 DEF Holds
  <2>2. id[q] \in Ids /\ id[q] # new /\ HandFamily(q)' = HandFamily(q) /\ Careful(q)
    BY <1>3, <1>12, <2>1, Families DEF HandFamily, TidyInv, HandsTidy
  <2>3. id[q] # mine
    BY <1>3, <1>12, <2>1, <2>2, Families DEF HistoryInv, OneHand
  <2>4. BreaksOf(id[q])' = BreaksOf(id[q])
    BY <1>3, <1>4, <1>6, <1>7, <2>1, <2>3 DEF BreaksOf, Live
  <2> QED
    BY <1>6, <2>1, <2>2, <2>4 DEF Careful
<1> QED
  BY <1>2, <1>11, <1>12 DEF TidyInv, TasksTidy, HandsTidy

\* What a request on a task does to it and to its breaks.
LEMMA TaskRequestTidy ==
  ASSUME TypeOK, BreakInv, HistoryInv, TidyInv, NEW r \in Requests, TaskRequest(r)
  PROVE  TidyInv'
<1> USE NoTaskAssumption, PlannerAssumption
<1>1. ASSUME NEW f \in Forms, NewTask(r, f) PROVE TidyInv'
  <2>1. /\ UNCHANGED <<db, moved, disturbed>> /\ pc[r] = "idle" /\ id'[r] = NoTask
        /\ \A q \in Requests \ {r} : id'[q] = id[q] /\ copy'[q] = copy[q] /\ pc'[q] = pc[q]
    BY <1>1 DEF NewTask, Take, TypeOK, ghosts
  <2> QED
    BY <2>1, TidyGoesOn DEF Holds
<1>2. ASSUME NEW i \in Live, NEW row \in RowType, NEW step \in {"save", "flip"},
             step = "flip" => SamePlace(row, db[i]),
             pc[r] = "idle", Take(r, i, row, step), NoteMeeting(r, FamilyOf(i, db[i])),
             UNCHANGED db
      PROVE  TidyInv'
  <2>1. /\ UNCHANGED moved /\ disturbed \subseteq disturbed'
        /\ id'[r] = i /\ copy'[r] = row /\ pc'[r] = step
        /\ \A q \in Requests \ {r} : id'[q] = id[q] /\ copy'[q] = copy[q] /\ pc'[q] = pc[q]
    BY <1>2 DEF Take, NoteMeeting, TypeOK
  <2>2. Careful(r)'
    BY <1>2, <2>1 DEF Careful
  <2> QED
    BY <1>2, <2>1, <2>2, TidyGoesOn DEF Holds
<1>3. ASSUME NEW f \in Forms, NEW i \in Ids, EditTask(r, i, f) PROVE TidyInv'
  <2> DEFINE row == [db[i] EXCEPT !.date = f.date, !.start = f.start,
                                  !.end = f.end, !.nn = f.nn]
  <2>1. i \in Live /\ db[i] \in RowType /\ f \in FormType
    BY <1>3 DEF EditTask, Live, TypeOK
  <2>2. row \in RowType
    BY <2>1 DEF RowType, FormType
  <2> QED
    BY <1>2, <1>3, <2>1, <2>2 DEF EditTask
<1>4. ASSUME NEW i \in Ids, NEW done \in Marks, OpenToggle(r, i, done) PROVE TidyInv'
  <2> DEFINE row == [db[i] EXCEPT !.done = done]
  <2>1. i \in Live /\ db[i] \in RowType /\ done \in BOOLEAN
    BY <1>4 DEF OpenToggle, Live, TypeOK
  <2>2. row \in RowType /\ SamePlace(row, db[i])
    BY <2>1 DEF RowType, SamePlace
  <2> QED
    BY <1>2, <1>4, <2>1, <2>2 DEF OpenToggle
<1>5. CASE Insert(r)
  <2>1. PICK new \in Fresh : db' = [db EXCEPT ![new] = copy[r]] /\ Take(r, new, copy[r], "seek")
    BY <1>5 DEF Insert
  <2>2. copy[r] \in RowType /\ copy[r].parent = NoTask
    BY <1>5 DEF Insert, TypeOK, TaskSteps, BreakInv, PlainInv
  <2>3. /\ UNCHANGED <<moved, disturbed>> /\ pc[r] = "save"
        /\ id'[r] = new /\ copy'[r] = copy[r] /\ pc'[r] = "seek"
        /\ \A q \in Requests \ {r} : id'[q] = id[q] /\ copy'[q] = copy[q] /\ pc'[q] = pc[q]
    BY <1>5, <2>1 DEF Insert, Take, TypeOK, ghosts
  <2>4. PICK row \in RowType : row = copy[r]
    BY <2>2
  <2>5. \A q \in Requests :
          /\ Holds(q)' =>
               \/ Holds(q) /\ id'[q] = id[q] /\ copy'[q] = copy[q] /\ pc'[q] = pc[q]
               \/ id'[q] = new /\ copy'[q] = row /\ pc'[q] = "seek"
          /\ pc[q] = "drop" => id'[q] = id[q] /\ pc'[q] = "drop"
    BY <2>3, <2>4 DEF Holds
  <2>6. db' = [db EXCEPT ![new] = row] /\ row.parent = NoTask
    BY <2>1, <2>2, <2>4
  <2> QED
    BY <2>3, <2>5, <2>6, TidyGrows DEF Holds
<1>6. CASE Update(r)
  BY <1>6, TidyWrites DEF Update, Holds
<1>7. CASE DropBreaks(r)
  <2>1. /\ Remove(BreaksOf(id[r])) /\ UNCHANGED <<id, copy, disturbed>>
        /\ pc[r] = "drop" /\ pc'[r] = "seek" /\ \A q \in Requests \ {r} : pc'[q] = pc[q]
    BY <1>7 DEF DropBreaks, Goto, TypeOK
  <2>2. Holds(r) /\ id[r] \in Ids
    BY <2>1 DEF TypeOK, Holds, TaskSteps
  <2>3. \A i \in Live : Replaced(i) => Replaced(i)' \/ BreaksOf(i) \subseteq BreaksOf(id[r])
    BY <2>1 DEF Replaced
  <2>4. ASSUME NEW q \in Requests, Holds(q), HandFamily(q) \notin disturbed
        PROVE  id[q] \notin BreaksOf(id[r])
    <3>1. SUFFICES ASSUME id[q] \in BreaksOf(id[r]) PROVE FALSE
      OBVIOUS
    <3>2. HandFamily(r) = id[r] /\ HandFamily(q) = id[r] /\ id[q] # id[r]
      BY <2>2, <3>1, BreakFamily, Families
    <3> QED
      BY <2>2, <2>4, <3>2 DEF HistoryInv, OneHand
  <2>5. HandFamily(r)' = HandFamily(r) /\ \A q \in Requests : HandFamily(q)' = HandFamily(q)
    BY <2>1 DEF HandFamily
  <2>6. BreaksOf(id[r]) \in SUBSET Live
    BY DEF BreaksOf
  <2>7. \A q \in Requests : Holds(q)' /\ HandFamily(q)' \notin disturbed' =>
           /\ Holds(q) /\ id'[q] = id[q] /\ copy'[q] = copy[q]
           /\ HandFamily(q) \notin disturbed /\ id[q] \notin BreaksOf(id[r])
           /\ \/ pc'[q] = pc[q]
              \/ pc'[q] = "seek" /\ pc[q] = "drop" /\ BreaksOf(id[q]) = BreaksOf(id[r])
    BY <2>1, <2>4, <2>5 DEF Holds
  <2> QED
    BY <2>1, <2>3, <2>6, <2>7, TidyShrinks
<1>8. ASSUME Finish(r), pc[r] # "drop", UNCHANGED <<db, ghosts>> PROVE TidyInv'
  <2>1. /\ id'[r] = NoTask /\ UNCHANGED <<moved, disturbed>>
        /\ \A q \in Requests \ {r} : id'[q] = id[q] /\ copy'[q] = copy[q] /\ pc'[q] = pc[q]
    BY <1>8 DEF Finish, Take, TypeOK, ghosts
  <2> QED
    BY <1>8, <2>1, TidyGoesOn DEF Holds
<1>9. ASSUME NEW step \in {"room", "pause"}, Goto(r, step),
             HandFamily(r) \notin disturbed => WantsBreak(copy[r]),
             pc[r] \in {"seek", "room"}, UNCHANGED <<db, ghosts>>
      PROVE  TidyInv'
  <2>1. /\ UNCHANGED <<id, copy, moved, disturbed>> /\ pc'[r] = step
        /\ \A q \in Requests \ {r} : pc'[q] = pc[q]
    BY <1>9 DEF Goto, TypeOK, ghosts
  <2>2. Holds(r)
    BY <1>9 DEF TypeOK, Holds, TaskSteps
  <2>3. ASSUME HandFamily(r)' \notin disturbed' PROVE Careful(r)'
    <3>1. Careful(r)
      BY <2>1, <2>2, <2>3 DEF TidyInv, HandsTidy, HandFamily
    <3>2. BreaksOf(id[r])' = BreaksOf(id[r])
      BY <1>9, <2>1 DEF BreaksOf, Live
    <3> QED
      BY <1>9, <2>1, <2>3, <3>1, <3>2 DEF Careful, HandFamily
  <2> QED
    BY <1>9, <2>1, <2>3, TidyGoesOn DEF Holds
<1>10. CASE SeekBreak(r)
  BY <1>8, <1>9, <1>10 DEF SeekBreak
<1>11. CASE FindRoom(r)
  <2>1. pc[r] = "room" /\ (Goto(r, "pause") \/ Finish(r)) /\ UNCHANGED <<db, ghosts>>
    BY <1>11 DEF FindRoom
  <2>2. HandFamily(r) \notin disturbed => WantsBreak(copy[r])
    BY <2>1 DEF TidyInv, HandsTidy, Careful, TypeOK, Holds, TaskSteps
  <2> QED
    BY <1>8, <1>9, <2>1, <2>2
<1>12. CASE InsertBreak(r)
  BY <1>12, TidyInsertBreak
<1>13. CASE Flip(r)
  <2>1. Holds(r)
    BY <1>13 DEF Flip, TypeOK, Holds, TaskSteps
  <2> QED
    BY <1>13, <2>1, TidyWrites DEF Flip, ghosts
<1>14. CASE Record(r)
  BY <1>8, <1>14 DEF Record
<1> QED
  BY <1>1, <1>3, <1>4, <1>5, <1>6, <1>7, <1>10, <1>11, <1>12, <1>13, <1>14 DEF TaskRequest

\* A generation adds a task at most.
LEMMA PlanRequestTidy ==
  ASSUME TypeOK, BreakInv, TidyInv, NEW r \in Requests, PlanRequest(r)
  PROVE  TidyInv'
<1> USE NoTaskAssumption, PlannerAssumption
<1>1. ASSUME pc[r] \notin TaskSteps,
             UNCHANGED request \/ Finish(r) \/ \E step \in PlanSteps : Goto(r, step)
      PROVE  /\ id[r] = NoTask /\ id'[r] = NoTask
             /\ \A q \in Requests \ {r} :
                  id'[q] = id[q] /\ copy'[q] = copy[q] /\ pc'[q] = pc[q]
  BY <1>1 DEF request, Finish, Take, Goto, TypeOK
<1>2. ASSUME pc[r] \notin TaskSteps, UNCHANGED <<db, moved, disturbed>>,
             UNCHANGED request \/ Finish(r) \/ \E step \in PlanSteps : Goto(r, step)
      PROVE  TidyInv'
  BY <1>1, <1>2, TidyGoesOn DEF Holds
<1>3. CASE Book(r)
  <2>1. PICK new \in Fresh, row \in RowType :
          row.parent = NoTask /\ db' = [db EXCEPT ![new] = row]
    <3>1. plan[r] \in PlanType
      BY <1>3 DEF Book, TypeOK, PlanSteps
    <3>2. plan[r].of.start \in Times /\ plan[r].of.start \in Int /\ plan[r].of.duration \in Int
      BY <3>1 DEF PlanType, ScheduleType, Times
    <3>3. EndTime(plan[r].of) \in Times /\ Target(plan[r]) \in Int
      BY <3>1, <3>2, LaterType, NextDateType DEF EndTime
    <3> DEFINE new == NewRow(Target(plan[r]), plan[r].of.start, EndTime(plan[r].of), TRUE, NoTask)
    <3>4. new \in RowType /\ new.parent = NoTask
      BY <3>2, <3>3, NewRowType DEF NewRow
    <3> HIDE DEF new
    <3>5. \E i \in Fresh : db' = [db EXCEPT ![i] = new]
      BY <1>3 DEF Book, new
    <3> QED
      BY <3>4, <3>5
  <2>2. pc[r] = "book" /\ UNCHANGED <<moved, disturbed>> /\ Goto(r, "scan")
    BY <1>3 DEF Book, ghosts
  <2>3. /\ id[r] = NoTask /\ id'[r] = NoTask
        /\ \A q \in Requests \ {r} : id'[q] = id[q] /\ copy'[q] = copy[q] /\ pc'[q] = pc[q]
    BY <1>1, <2>2 DEF TaskSteps, PlanSteps
  <2> QED
    BY <2>1, <2>2, <2>3, TidyGrows DEF Holds
<1>4. ASSUME NEW s \in Schedules, Generate(r, s) PROVE TidyInv'
  BY <1>2, <1>4 DEF Generate, TaskSteps, PlanSteps
<1>5. CASE Scan(r)
  BY <1>2, <1>5 DEF Scan, TaskSteps, PlanSteps, ghosts
<1>6. CASE LeaveLoop(r) \/ MarkScheduled(r)
  BY <1>2, <1>6 DEF LeaveLoop, MarkScheduled, TaskSteps, PlanSteps, ghosts
<1> QED
  BY <1>3, <1>4, <1>5, <1>6 DEF PlanRequest

\* An edit that fails between its two statements disturbs the family, and a task
\* that is deleted takes its breaks with it.
LEMMA OtherTidy ==
  ASSUME TypeOK, BreakInv, HistoryInv, TidyInv,
         \/ \E r \in Requests : Abort(r)
         \/ \E i \in Ids : DeleteTask(i)
         \/ \E i \in Live : \E t \in Overrides \cup {<<db[i].start, db[i].end>>} :
              CopyTask(i, t)
  PROVE  TidyInv'
<1> USE NoTaskAssumption, PlannerAssumption
<1>1. ASSUME NEW r \in Requests, Abort(r) PROVE TidyInv'
  <2>1. /\ UNCHANGED <<db, moved>> /\ disturbed \subseteq disturbed'
        /\ pc[r] = "drop" => HandFamily(r) \in disturbed'
        /\ id'[r] = NoTask
        /\ \A q \in Requests \ {r} : id'[q] = id[q] /\ copy'[q] = copy[q] /\ pc'[q] = pc[q]
    BY <1>1 DEF Abort, Finish, Take, TypeOK, HandFamily
  <2> QED
    BY <2>1, TidyGoesOn DEF Holds
<1>2. ASSUME NEW i \in Ids, DeleteTask(i) PROVE TidyInv'
  <2> DEFINE gone == {i} \cup BreaksOf(i)
  <2>1. i \in Live /\ UNCHANGED <<pc, id, copy>> /\ Remove(gone)
    BY <1>2 DEF DeleteTask, request
  <2>2. gone \in SUBSET Live
    BY <2>1 DEF BreaksOf
  <2>3. i \in gone
    OBVIOUS
  <2>4. /\ \A q \in Requests : Holds(q) /\ HandFamily(q) \notin disturbed' =>
             HandFamily(q) \notin disturbed /\ id[q] \notin gone
        /\ disturbed \subseteq disturbed' \cup {i}
    BY <1>2, DeletedFamily
  <2> HIDE DEF gone
  <2>5. \A k \in Live \ gone : k \notin disturbed' => k \notin disturbed
    BY <2>3, <2>4
  <2>6. \A k \in Live : Replaced(k) => Replaced(k)'
    BY <2>1 DEF Replaced
  <2>7. \A q \in Requests : (Holds(q)' <=> Holds(q)) /\ HandFamily(q)' = HandFamily(q)
    BY <2>1 DEF Holds, HandFamily
  <2> QED
    BY <2>1, <2>2, <2>4, <2>5, <2>6, <2>7, TidyShrinks
<1>3. ASSUME NEW i \in Live,
             NEW t \in Overrides \cup {<<db[i].start, db[i].end>>}, CopyTask(i, t)
      PROVE  TidyInv'
  <2> DEFINE row == NewRow(db[i].date + 1, t[1], t[2], db[i].nn, NoTask)
  <2>1. PICK j \in Fresh : db' = [db EXCEPT ![j] = row]
    BY <1>3 DEF CopyTask
  <2>2. row \in RowType
    <3>1. db[i] \in RowType
      BY DEF Live, TypeOK
    <3>2. t[1] \in Times /\ t[2] \in Times
      BY <3>1 DEF RowType
    <3>3. db[i].date + 1 \in Int /\ db[i].nn \in BOOLEAN
      BY <3>1 DEF RowType
    <3> QED
      BY <3>2, <3>3, NewRowType
  <2>3. UNCHANGED <<pc, id, copy, moved, disturbed>> /\ row.parent = NoTask
    BY <1>3 DEF CopyTask, request, ghosts, NewRow
  <2> HIDE DEF row
  <2> QED
    BY <2>1, <2>2, <2>3, TidyGrows DEF Holds
<1> QED
  BY <1>1, <1>2, <1>3

LEMMA TidyInit == Init => TidyInv
BY PlannerAssumption DEF Init, TidyInv, TasksTidy, HandsTidy, Live, Holds

LEMMA TidyStep == TypeOK /\ BreakInv /\ HistoryInv /\ TidyInv /\ [Next]_vars => TidyInv'
<1> SUFFICES ASSUME TypeOK, BreakInv, HistoryInv, TidyInv, [Next]_vars PROVE TidyInv'
  OBVIOUS
<1>1. CASE UNCHANGED vars
  <2>1. UNCHANGED <<db, moved, disturbed, pc, id, copy>>
    BY <1>1 DEF vars
  <2> QED
    BY <2>1, TidyGoesOn DEF Holds
<1>2. ASSUME NEW r \in Requests, TaskRequest(r) \/ PlanRequest(r) PROVE TidyInv'
  BY <1>2, TaskRequestTidy, PlanRequestTidy
<1> QED
  BY <1>1, <1>2, OtherTidy DEF Next

\* However requests edit, toggle, delete and copy tasks, the one that was left
\* alone has one break at most, where the task ends and as long as breaks are:
\* an edit writes the row, deletes the breaks and inserts the new one in five
\* statements (edit_personal_task, auto_insert_breaks).
THEOREM BreaksTidy == Spec => []TidyBreaks
<1> USE NoTaskAssumption, PlannerAssumption
<1>1. TypeOK /\ BreakInv /\ TidyInv => TidyBreaks
  <2> SUFFICES ASSUME TypeOK, BreakInv, TidyInv, NEW i \in Live \ disturbed,
                      ~(\E r \in Requests : InHand(r, i))
               PROVE  /\ Cardinality(BreaksOf(i)) <= 1
                      /\ \A b \in BreaksOf(i) \ moved :
                           /\ WantsBreak(db[i])
                           /\ db[b].date = db[i].date
                           /\ db[b].start = db[i].end
                           /\ db[b].end = Later(db[i].end, Pause)
    BY DEF TidyBreaks
  <2>1. Tidy(i)
    <3>1. ASSUME NEW r \in Requests, id[r] = i, pc[r] = "drop" PROVE BreaksOf(i) = {}
      <4>1. Holds(r)
        BY <3>1 DEF Holds, Live
      <4>2. HandFamily(r) # i
        BY <3>1, <4>1 DEF InHand, HandFamily, Holds, TaskSteps
      <4> QED
        BY <3>1, <4>1, <4>2, SameParent
    <3> QED
      BY <3>1 DEF TidyInv, TasksTidy, Tidy, Replaced
  <2>2. BreaksOf(i) = {} \/ \E b \in BreaksOf(i) : BreaksOf(i) = {b}
    BY <2>1 DEF Tidy
  <2>3. Cardinality(BreaksOf(i)) <= 1
    <3>1. CASE BreaksOf(i) = {}
      <4>1. Cardinality(BreaksOf(i)) = 0
        BY <3>1, FS_EmptySet
      <4> QED
        BY <4>1
    <3>2. ASSUME NEW b \in BreaksOf(i), BreaksOf(i) = {b} PROVE Cardinality(BreaksOf(i)) <= 1
      <4>1. Cardinality(BreaksOf(i)) = 1
        BY <3>2, FS_Singleton
      <4> QED
        BY <4>1
    <3> QED
      BY <2>2, <3>1, <3>2
  <2> QED
    BY <2>1, <2>3 DEF Tidy, Follows
<1> QED
  BY <1>1, HistoryInit, HistoryStep, TidyInit, TidyStep, PTL DEF Spec
=============================================================================
