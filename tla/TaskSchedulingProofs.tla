----------------------- MODULE TaskSchedulingProofs ------------------------
(***************************************************************************)
(* Theorems about TaskScheduling.tla, for any numbers of savers, workers   *)
(* and jobs, any interval and any repeat count.                            *)
(*                                                                         *)
(* A copy of the task may be as old as it likes, but what it says about    *)
(* the schedule was true once: scheduled_time and repeat have always been  *)
(* changed together.  Grid is that relation, and it holds of the row, of   *)
(* every copy, and so of every job that is made from one.                  *)
(***************************************************************************)
EXTENDS TaskScheduling, TLAPS

\* As many intervals have gone by as the repeat count has lost.
Grid(c) ==
  /\ c.repeat \in 0..Repeat
  /\ c.time = Start + Interval * (Repeat - c.repeat)

GridInv ==
  /\ TypeOK
  /\ kind = "repeatable" =>
       /\ row # NoRow => Grid(row)
       /\ \A a \in Actors : Grid(copy[a])
  /\ OnSchedule

-----------------------------------------------------------------------------
\* The task is inserted with its first time and all of its repeats.
LEMMA GridInit == Init => GridInv
<1> SUFFICES ASSUME Init PROVE GridInv
  OBVIOUS
<1> USE TaskSchedulingAssumption DEF Init
<1>1. row \in Rows
  BY DEF Rows, Repeats
<1>2. TypeOK
  BY <1>1 DEF TypeOK, Actors, Pcs, SavePcs
<1>3. kind = "repeatable" => Grid(row)
  BY DEF Grid
<1>4. OnSchedule
  BY DEF OnSchedule
<1> QED
  BY <1>1, <1>2, <1>3, <1>4 DEF GridInv

\* Skipping the runs that were missed keeps a copy on the grid.
LEMMA PostponeKeepsGrid ==
  ASSUME NEW a \in Actors, NEW gap \in 1..MaxTime, copy \in [Actors -> Rows],
         copy[a].repeat = NoLimit \/ copy[a].repeat >= gap, Postpone(a, gap)
  PROVE  /\ copy' \in [Actors -> Rows]
         /\ \A b \in Actors : b # a => copy'[b] = copy[b]
         /\ Grid(copy[a]) => Grid(copy'[a])
<1> DEFINE c == copy[a]
           d == [c EXCEPT !.time = @ + Interval * gap,
                          !.repeat = IF @ = NoLimit THEN NoLimit ELSE @ - gap]
<1> USE TaskSchedulingAssumption
<1>1. c \in Rows /\ c.time \in Nat /\ c.repeat \in Repeats
  BY DEF Rows
<1>2. copy' = [copy EXCEPT ![a] = d]
  BY DEF Postpone
<1>3. Interval * gap \in Nat
  OBVIOUS
<1>4. d.time = c.time + Interval * gap
  BY <1>1 DEF Rows
<1>5. d.repeat = IF c.repeat = NoLimit THEN NoLimit ELSE c.repeat - gap
  BY <1>1 DEF Rows
<1>6. d.time \in Nat /\ d.repeat \in Repeats
  BY <1>1, <1>3, <1>4, <1>5 DEF Repeats
<1>7. d \in Rows
  BY <1>1, <1>6 DEF Rows
<1>8. ASSUME Grid(c) PROVE Grid(d)
  <2>1. c.repeat \in Nat /\ c.repeat <= Repeat /\ c.repeat >= gap
    BY <1>8 DEF Grid
  <2>2. d.repeat = c.repeat - gap
    BY <1>5, <2>1
  <2>3. Interval * (Repeat - d.repeat) = Interval * (Repeat - c.repeat) + Interval * gap
    BY <2>1, <2>2
  <2>4. d.time = Start + Interval * (Repeat - d.repeat)
    BY <1>4, <1>8, <2>1, <2>3 DEF Grid
  <2>5. d.repeat \in 0..Repeat
    BY <2>1, <2>2
  <2> QED
    BY <2>4, <2>5 DEF Grid
<1> QED
  BY <1>2, <1>7, <1>8

\* Every plan keeps the copies on the grid.
LEMMA PlanKeepsGrid ==
  ASSUME TypeOK, NEW a \in Actors, PlanTime(a)
  PROVE  /\ copy' \in [Actors -> Rows]
         /\ kind = "repeatable" =>
              \A b \in Actors : Grid(copy[b]) => Grid(copy'[b])
<1> USE TaskSchedulingAssumption DEF TypeOK
<1>1. CASE kind = "cron"
  <2>1. PICK k \in 1..(MaxTime + 1) : copy' = [copy EXCEPT ![a].time = Interval * k]
    BY <1>1 DEF PlanTime
  <2>2. Interval * k \in Nat
    OBVIOUS
  <2>3. [copy[a] EXCEPT !.time = Interval * k] \in Rows
    BY <2>2 DEF Rows
  <2> QED
    BY <1>1, <2>1, <2>3
<1>2. CASE kind \in {"repeatable", "endless"} /\ copy[a].time < now
  <2>1. PICK gap \in 1..MaxTime :
          IF copy[a].repeat = NoLimit \/ copy[a].repeat >= gap
          THEN Postpone(a, gap) ELSE UNCHANGED copy
    BY <1>2 DEF PlanTime
  <2>2. CASE copy[a].repeat = NoLimit \/ copy[a].repeat >= gap
    BY <2>1, <2>2, PostponeKeepsGrid
  <2>3. CASE ~(copy[a].repeat = NoLimit \/ copy[a].repeat >= gap)
    BY <2>1, <2>3
  <2> QED
    BY <2>2, <2>3
<1>3. CASE ~(kind = "cron") /\ ~(kind \in {"repeatable", "endless"} /\ copy[a].time < now)
  BY <1>3 DEF PlanTime
<1> QED
  BY <1>1, <1>2, <1>3

\* A step that changes neither the row nor the copies, and schedules no job,
\* needs only a type.
LEMMA UntouchedTask ==
  ASSUME GridInv, TypeOK', UNCHANGED task, UNCHANGED at,
         \A j \in Jobs : reg'[j] = "scheduled" => reg[j] = "scheduled"
  PROVE  GridInv'
<1>1. kind' = kind /\ row' = row /\ copy' = copy /\ at' = at
  BY DEF task
<1>2. OnSchedule'
  BY <1>1 DEF GridInv, OnSchedule
<1> QED
  BY <1>1, <1>2 DEF GridInv, Grid

\* An actor that goes on to another place leaves pc typed.
LEMMA PcTyped ==
  ASSUME TypeOK, NEW a \in Actors, NEW from \in Pcs, NEW to \in Pcs, At(a, from, to)
  PROVE  pc' \in [Actors -> Pcs] /\ \A b \in Actors : b # a => pc'[b] = pc[b]
  BY DEF TypeOK, At

\* A step of a save keeps the invariant.
LEMMA SaveKeepsGrid ==
  ASSUME GridInv, NEW a \in Actors, SaveStep(a)
  PROVE  GridInv'
<1> USE TaskSchedulingAssumption DEF GridInv, TypeOK, At, Pcs, SavePcs, OffPcs, WriteRow
<1>1. CASE Write(a)
  BY <1>1 DEF Write, jobVars, OnSchedule, Grid
<1>2. CASE Check(a)
  <2>1. PICK to \in {"final", "plan", "forget"} : At(a, "check", to)
    BY <1>2 DEF Check
  <2>2. UNCHANGED <<now, kind, row, copy, reg, at, holds, shaken>>
    BY <1>2 DEF Check, task, jobVars
  <2>3. TypeOK'
    BY <2>1, <2>2
  <2> QED
    BY <2>2, <2>3, UntouchedTask DEF task
<1>3. CASE Forget(a)
  <2>1. [copy[a] EXCEPT !.job = NoJob] \in Rows
    BY DEF Rows
  <2>2. copy' = [copy EXCEPT ![a] = [copy[a] EXCEPT !.job = NoJob]] /\ row' = copy'[a]
    BY <1>3 DEF Forget
  <2>3. copy'[a].time = copy[a].time /\ copy'[a].repeat = copy[a].repeat
    BY <2>2 DEF Rows
  <2>4. TypeOK'
    BY <1>3, <2>1, <2>2 DEF Forget, jobVars
  <2>5. kind = "repeatable" => \A b \in Actors : Grid(copy'[b])
    BY <2>2, <2>3 DEF Grid
  <2>6. OnSchedule'
    BY <1>3 DEF Forget, jobVars, OnSchedule
  <2> QED
    BY <1>3, <2>2, <2>4, <2>5, <2>6 DEF Forget, Grid
<1>4. CASE Plan(a)
  <2>1. /\ copy' \in [Actors -> Rows]
        /\ kind = "repeatable" => \A b \in Actors : Grid(copy[b]) => Grid(copy'[b])
    <3>1. CASE UNCHANGED copy
      BY <3>1 DEF Grid
    <3>2. CASE PlanTime(a)
      BY <3>2, PlanKeepsGrid
    <3> QED
      BY <1>4, <3>1, <3>2 DEF Plan
  <2>2. TypeOK'
    <3>1. PICK to \in {"final", "create"} : At(a, "plan", to)
      BY <1>4 DEF Plan
    <3>2. UNCHANGED <<now, kind, row, reg, at, holds, shaken>>
      BY <1>4 DEF Plan, jobVars
    <3> QED
      BY <2>1, <3>1, <3>2
  <2>3. OnSchedule'
    BY <1>4 DEF Plan, jobVars, OnSchedule
  <2> QED
    BY <1>4, <2>1, <2>2, <2>3 DEF Plan, Grid
<1>5. CASE TooLate(a)
  BY <1>5 DEF TooLate, task, jobVars, OnSchedule, Grid
<1>6. CASE \E j \in Jobs : CreateJob(a, j)
  <2>1. PICK j \in Jobs : CreateJob(a, j)
    BY <1>6
  <2>2. [copy[a] EXCEPT !.job = j] \in Rows
    BY DEF Rows
  <2>3. copy' = [copy EXCEPT ![a] = [copy[a] EXCEPT !.job = j]]
    BY <2>1 DEF CreateJob
  <2>4. copy'[a].time = copy[a].time /\ copy'[a].repeat = copy[a].repeat
    BY <2>3 DEF Rows
  <2>5. copy[a].time \in Nat
    BY DEF Rows
  <2>6. TypeOK'
    BY <2>1, <2>2, <2>3, <2>5 DEF CreateJob
  <2>7. kind = "repeatable" => \A b \in Actors : Grid(copy'[b])
    BY <2>3, <2>4 DEF Grid
  <2>8. OnSchedule'
    <3> SUFFICES ASSUME kind = "repeatable", NEW i \in Jobs, reg'[i] = "scheduled"
                 PROVE  \E k \in 0..Repeat : at'[i] = Start + Interval * k
      BY <2>1 DEF OnSchedule, CreateJob
    <3>1. CASE i = j
      <4>1. at'[i] = copy[a].time
        BY <2>1, <3>1 DEF CreateJob
      <4>2. copy[a].repeat \in 0..Repeat
            /\ copy[a].time = Start + Interval * (Repeat - copy[a].repeat)
        BY DEF Grid
      <4>3. Repeat - copy[a].repeat \in 0..Repeat
        BY <4>2
      <4> QED
        BY <4>1, <4>2, <4>3
    <3>2. CASE i # j
      <4>1. at'[i] = at[i] /\ reg[i] = "scheduled"
        BY <2>1, <3>2 DEF CreateJob
      <4> QED
        BY <4>1 DEF OnSchedule
    <3> QED
      BY <3>1, <3>2
  <2> QED
    BY <2>1, <2>6, <2>7, <2>8 DEF CreateJob, Grid
<1>7. CASE Final(a)
  BY <1>7 DEF Final, jobVars, OnSchedule, Grid
<1> QED
  BY <1>1, <1>2, <1>3, <1>4, <1>5, <1>6, <1>7 DEF SaveStep

\* A step of the admin keeps the invariant.
LEMMA SaverKeepsGrid ==
  ASSUME GridInv, NEW s \in Savers, SaverStep(s)
  PROVE  GridInv'
<1> USE TaskSchedulingAssumption DEF GridInv, TypeOK, At, Pcs, SavePcs, OffPcs, WriteRow
<1>a. s \in Actors /\ s \notin Workers
  BY DEF Actors
<1>1. ASSUME NEW to \in {"write", "drop", "d-drop"}, NEW on \in BOOLEAN,
             ReadRow(s, to, on), shaken' \in BOOLEAN
      PROVE  GridInv'
  <2>1. row \in Rows /\ [row EXCEPT !.enabled = on] \in Rows
    BY <1>1 DEF ReadRow, Rows
  <2>2. copy' = [copy EXCEPT ![s] = [row EXCEPT !.enabled = on]] /\ row # NoRow
    BY <1>1 DEF ReadRow
  <2>3. copy'[s].time = row.time /\ copy'[s].repeat = row.repeat
    BY <1>a, <2>1, <2>2 DEF Rows
  <2>4. TypeOK'
    BY <1>1, <1>a, <2>1, <2>2 DEF ReadRow, jobVars
  <2>5. kind = "repeatable" => \A b \in Actors : Grid(copy'[b])
    BY <1>a, <2>2, <2>3 DEF Grid
  <2>6. OnSchedule'
    BY <1>1 DEF ReadRow, jobVars, OnSchedule
  <2> QED
    BY <1>1, <2>4, <2>5, <2>6 DEF ReadRow, Grid
<1>2. CASE Save(s) \/ Edit(s) \/ Disable(s) \/ Delete(s)
  <2>1. row # NoRow => row.enabled \in BOOLEAN
    BY DEF Rows
  <2> QED
    BY <1>1, <1>2, <2>1 DEF Save, Edit, Disable, Delete, ReadRow
<1>3. CASE Drop(s)
  <2>1. [copy[s] EXCEPT !.job = NoJob] \in Rows
    BY <1>a DEF Rows
  <2>2. copy' = [copy EXCEPT ![s] = [copy[s] EXCEPT !.job = NoJob]]
    BY <1>3 DEF Drop
  <2>3. copy'[s].time = copy[s].time /\ copy'[s].repeat = copy[s].repeat
    BY <1>a, <2>2 DEF Rows
  <2>4. TypeOK'
    <3>1. PICK to \in {"off", "d-off"} : \E from \in Pcs : At(s, from, to)
      BY <1>3 DEF Drop
    <3>2. UNCHANGED <<now, kind, row, at, holds, shaken>>
      BY <1>3 DEF Drop
    <3>3. reg' \in [Jobs -> {"none", "scheduled", "queued", "active"}]
      BY <1>3 DEF Drop
    <3>4. copy' \in [Actors -> Rows]
      BY <2>1, <2>2
    <3>5. pc' \in [Actors -> Pcs] /\ \A w \in Workers : pc'[w] = pc[w]
      BY <1>a, <3>1, PcTyped DEF Actors
    <3> QED
      BY <3>2, <3>3, <3>4, <3>5
  <2>5. kind = "repeatable" => \A b \in Actors : Grid(copy'[b])
    BY <1>a, <2>2, <2>3 DEF Grid
  <2>6. OnSchedule'
    BY <1>3 DEF Drop, OnSchedule
  <2> QED
    BY <1>3, <2>4, <2>5, <2>6 DEF Drop, Grid
<1>4. CASE WriteOff(s)
  <2>1. PICK to \in {"idle", "d-again", "d-remove"} : \E from \in Pcs : At(s, from, to)
    BY <1>4 DEF WriteOff
  <2>2. row' = copy[s] /\ UNCHANGED <<now, kind, copy, reg, at, holds, shaken>>
    BY <1>4 DEF WriteOff, jobVars
  <2>3. pc' \in [Actors -> Pcs] /\ \A w \in Workers : pc'[w] = pc[w]
    BY <1>a, <2>1, PcTyped DEF Actors
  <2>4. TypeOK'
    BY <1>a, <2>2, <2>3
  <2>5. OnSchedule'
    BY <2>2 DEF OnSchedule
  <2> QED
    BY <1>a, <2>2, <2>4, <2>5 DEF Grid
<1>5. CASE Remove(s)
  BY <1>5, <1>a DEF Remove, jobVars, OnSchedule, Grid
<1>6. ASSUME NEW j \in Jobs, RunNow(s, j) PROVE GridInv'
  <2>1. /\ UNCHANGED <<now, kind, row, copy, pc, at, holds, shaken>>
        /\ reg' = [reg EXCEPT ![j] = "queued"]
    BY <1>6 DEF RunNow, task
  <2>2. TypeOK'
    BY <2>1
  <2>3. \A i \in Jobs : reg'[i] = "scheduled" => reg[i] = "scheduled" /\ at'[i] = at[i]
    BY <2>1
  <2>4. OnSchedule'
    BY <2>1, <2>3 DEF OnSchedule
  <2> QED
    BY <2>1, <2>2, <2>4 DEF Grid
<1> QED
  BY <1>2, <1>3, <1>4, <1>5, <1>6 DEF SaverStep

\* A step of a worker keeps the invariant.
LEMMA WorkerKeepsGrid ==
  ASSUME GridInv, NEW w \in Workers, WorkerStep(w)
  PROVE  GridInv'
<1> USE TaskSchedulingAssumption DEF GridInv, TypeOK, At, Pcs, SavePcs, OffPcs
<1>a. w \in Actors
  BY DEF Actors
<1>1. CASE Begin(w)
  <2>1. At(w, "popped", "running") /\ UNCHANGED <<now, kind, row, copy, at, holds, shaken>>
    BY <1>1 DEF Begin, task
  <2>2. holds[w] \in Jobs
    BY <2>1
  <2>3. reg' = [reg EXCEPT ![holds[w]] = "active"]
    BY <1>1 DEF Begin
  <2>4. /\ reg' \in [Jobs -> {"none", "scheduled", "queued", "active"}]
        /\ \A j \in Jobs : reg'[j] = "scheduled" => reg[j] = "scheduled"
    BY <2>2, <2>3
  <2>5. TypeOK'
    BY <1>a, <2>1, <2>4
  <2> QED
    BY <2>1, <2>4, <2>5, UntouchedTask DEF task
<1>2. CASE Callback(w)
  <2>1. row \in Rows /\ [row EXCEPT !.job = NoJob] \in Rows
    BY <1>2 DEF Callback, Rows
  <2>2. copy' = [copy EXCEPT ![w] = [row EXCEPT !.job = NoJob]] /\ row # NoRow
    BY <1>2 DEF Callback
  <2>3. copy'[w].time = row.time /\ copy'[w].repeat = row.repeat
    BY <1>a, <2>1, <2>2 DEF Rows
  <2>4. TypeOK'
    BY <1>2, <1>a, <2>1, <2>2 DEF Callback, jobVars
  <2>5. kind = "repeatable" => \A b \in Actors : Grid(copy'[b])
    BY <1>a, <2>2, <2>3 DEF Grid
  <2>6. OnSchedule'
    BY <1>2 DEF Callback, jobVars, OnSchedule
  <2> QED
    BY <1>2, <2>4, <2>5, <2>6 DEF Callback, Grid
<1>3. CASE Orphan(w)
  BY <1>3, <1>a DEF Orphan, task, jobVars, OnSchedule, Grid
<1>b. ASSUME EndJob(w), pc[w] # "idle", pc' = [pc EXCEPT ![w] = "idle"],
             shaken' \in BOOLEAN, UNCHANGED <<now, kind, row, copy, at>>
      PROVE  GridInv'
  <2>1. holds[w] \in Jobs
    BY <1>b
  <2>2. reg' = [reg EXCEPT ![holds[w]] = "none"] /\ holds' = [holds EXCEPT ![w] = NoJob]
    BY <1>b DEF EndJob
  <2>3. /\ reg' \in [Jobs -> {"none", "scheduled", "queued", "active"}]
        /\ \A j \in Jobs : reg'[j] = "scheduled" => reg[j] = "scheduled"
    BY <2>1, <2>2
  <2>4. pc' \in [Actors -> Pcs] /\ pc'[w] = "idle"
    BY <1>a, <1>b
  <2>5. holds' \in [Workers -> Jobs \cup {NoJob}]
    BY <2>2
  <2>6. \A v \in Workers : pc'[v] # "idle" => holds'[v] \in Jobs
    <3> SUFFICES ASSUME NEW v \in Workers, pc'[v] # "idle" PROVE holds'[v] \in Jobs
      OBVIOUS
    <3>1. v # w
      BY <2>4
    <3>2. v \in Actors /\ pc'[v] = pc[v] /\ holds'[v] = holds[v]
      BY <1>b, <2>2, <3>1 DEF Actors
    <3> QED
      BY <3>2
  <2>7. TypeOK'
    BY <1>b, <2>3, <2>4, <2>5, <2>6
  <2> QED
    BY <1>b, <2>3, <2>7, UntouchedTask DEF task
<1>4. CASE Finish(w)
  <2>1. pc[w] # "idle" /\ pc' = [pc EXCEPT ![w] = "idle"]
    BY <1>4 DEF Finish
  <2>2. EndJob(w) /\ UNCHANGED <<now, kind, row, copy, at, shaken>>
    BY <1>4 DEF Finish, task
  <2> QED
    BY <1>b, <2>1, <2>2
<1>5. CASE Kill(w)
  <2>1. pc[w] # "idle" /\ pc' = [pc EXCEPT ![w] = "idle"] /\ shaken' = TRUE
    BY <1>5 DEF Kill
  <2>2. EndJob(w) /\ UNCHANGED <<now, kind, row, copy, at>>
    BY <1>5 DEF Kill, task
  <2> QED
    BY <1>b, <2>1, <2>2
<1>6. CASE \E j \in Jobs : Pop(w, j)
  <2>1. PICK j \in Jobs : Pop(w, j)
    BY <1>6
  <2>2. At(w, "idle", "popped") /\ UNCHANGED <<now, kind, row, copy, at, shaken>>
    BY <2>1 DEF Pop, task
  <2>3. reg' = [reg EXCEPT ![j] = "none"] /\ holds' = [holds EXCEPT ![w] = j]
    BY <2>1 DEF Pop
  <2>4. /\ reg' \in [Jobs -> {"none", "scheduled", "queued", "active"}]
        /\ \A i \in Jobs : reg'[i] = "scheduled" => reg[i] = "scheduled"
    BY <2>3
  <2>5. /\ holds' \in [Workers -> Jobs \cup {NoJob}]
        /\ holds'[w] = j /\ \A v \in Workers : v # w => holds'[v] = holds[v]
    BY <2>3
  <2>6. pc' \in [Actors -> Pcs] /\ \A b \in Actors : b # w => pc'[b] = pc[b]
    BY <1>a, <2>2, PcTyped
  <2>7. \A v \in Workers : pc'[v] # "idle" => holds'[v] \in Jobs
    BY <2>5, <2>6 DEF Actors
  <2>8. TypeOK'
    BY <2>2, <2>4, <2>5, <2>6, <2>7
  <2> QED
    BY <2>2, <2>4, <2>8, UntouchedTask DEF task
<1> QED
  BY <1>1, <1>2, <1>3, <1>4, <1>5, <1>6 DEF WorkerStep

\* Every step keeps the invariant.
LEMMA GridStep == GridInv /\ [Next]_vars => GridInv'
<1> SUFFICES ASSUME GridInv, [Next]_vars PROVE GridInv'
  OBVIOUS
<1>1. CASE UNCHANGED vars
  BY <1>1 DEF GridInv, TypeOK, OnSchedule, Grid, vars, task, jobVars
<1>2. CASE Tick
  BY <1>2 DEF Tick, GridInv, TypeOK, OnSchedule, Grid, task, jobVars
<1>3. CASE \E j \in Jobs : Promote(j)
  BY <1>3 DEF Promote, GridInv, TypeOK, OnSchedule, Grid, task
<1> QED
  BY <1>1, <1>2, <1>3, SaveKeepsGrid, SaverKeepsGrid, WorkerKeepsGrid DEF Next

\* The invariant holds in every state.
THEOREM GridCorrect == Spec => []GridInv
  BY GridInit, GridStep, PTL DEF Spec

\* Every variable has its type, for any constants (save, callbacks, unschedule).
THEOREM TypeCorrect == Spec => []TypeOK
<1>1. GridInv => TypeOK
  BY DEF GridInv
<1> QED
  BY <1>1, GridCorrect, PTL

\* A repeatable task is scheduled only at its first time and the Repeat whole
\* intervals after it, through any number of stale saves, callbacks and extra
\* runs at once (_schedule_time, save).
THEOREM KeepsToSchedule == Spec => []OnSchedule
<1>1. GridInv => OnSchedule
  BY DEF GridInv
<1> QED
  BY <1>1, GridCorrect, PTL

-----------------------------------------------------------------------------
(* NeverForgotten.  That a cron task goes on is in one place at a time or in *)
(* several, but in one at least: a job that waits or is executed, a callback *)
(* or a save that is going to create one.  It is handed on from one to the  *)
(* next, and a job that is over is no such place.                            *)

\* Actor a is going to create the next job.
Creates(a) ==
  \/ pc[a] \in {"forget", "plan", "create"}
  \/ pc[a] \in {"write", "check"} /\ copy[a].job = NoJob

Carried ==
  \/ \E j \in Jobs : reg[j] \in {"scheduled", "queued"}
  \/ \E w \in Workers : pc[w] \in {"popped", "running"}
  \/ \E a \in Actors : Creates(a)

\* Unless it was shaken, the task is enabled in the row and in every copy that
\* may be written over it.
Enabled ==
  /\ row # NoRow /\ row.enabled
  /\ \A a \in Actors : Busy(a) => copy[a].enabled /\ pc[a] \notin OffPcs

CarryInv ==
  /\ \A w \in Workers : holds[w] # NoJob => reg[holds[w]] \notin {"scheduled", "queued"}
  /\ ~shaken => Enabled /\ (kind = "cron" => Carried)

\* Planning changes the time and the repeats of one copy.
LEMMA PlanOthers ==
  ASSUME TypeOK, NEW a \in Actors, Plan(a)
  PROVE  /\ \A b \in Actors \ {a} : pc'[b] = pc[b] /\ copy'[b] = copy[b]
         /\ copy'[a].enabled = copy[a].enabled /\ copy'[a].job = copy[a].job
         /\ copy' \in [Actors -> Rows]
<1>1. UNCHANGED copy \/ PlanTime(a)
  BY DEF Plan
<1>2. copy' \in [Actors -> Rows]
  BY <1>1, PlanKeepsGrid DEF TypeOK
<1>3. \/ UNCHANGED copy
      \/ \E t : copy' = [copy EXCEPT ![a].time = t]
      \/ \E t, n : copy' = [copy EXCEPT ![a].time = t, ![a].repeat = n]
  BY <1>1 DEF PlanTime, Postpone
<1>4. copy[a] \in Rows
  BY DEF TypeOK
<1>5. \A b \in Actors \ {a} : copy'[b] = copy[b]
  BY <1>3 DEF TypeOK
<1>6. copy'[a].enabled = copy[a].enabled /\ copy'[a].job = copy[a].job
  <2>1. CASE UNCHANGED copy
    BY <2>1
  <2>2. ASSUME NEW t, copy' = [copy EXCEPT ![a].time = t]
        PROVE  copy'[a].enabled = copy[a].enabled /\ copy'[a].job = copy[a].job
    BY <2>2, <1>4 DEF TypeOK, Rows
  <2>3. ASSUME NEW t, NEW n, copy' = [copy EXCEPT ![a].time = t, ![a].repeat = n]
        PROVE  copy'[a].enabled = copy[a].enabled /\ copy'[a].job = copy[a].job
    BY <2>3, <1>4 DEF TypeOK, Rows
  <2> QED
    BY <1>3, <2>1, <2>2, <2>3
<1>7. \A b \in Actors \ {a} : pc'[b] = pc[b]
  BY DEF Plan, At, TypeOK
<1> QED
  BY <1>2, <1>5, <1>6, <1>7

\* The first save is going to create the first job.
LEMMA CarryInit == Init => CarryInv
<1> SUFFICES ASSUME Init PROVE CarryInv
  OBVIOUS
<1>1. PICK s \in Savers : pc = [a \in Actors |-> IF a = s THEN "check" ELSE "idle"]
  BY DEF Init
<1>2. s \in Actors /\ pc[s] = "check" /\ copy[s].job = NoJob
  BY <1>1 DEF Init, Actors
<1>3. Carried
  BY <1>2 DEF Carried, Creates
<1>4. row \in Rows /\ row # NoRow
  <2>1. row \in Rows
    BY TaskSchedulingAssumption DEF Init, Rows, Repeats
  <2> QED
    BY <2>1, NoRowAssumption
<1>5. \A a \in Actors : copy[a] = row /\ pc[a] \notin OffPcs
  BY <1>1 DEF Init, OffPcs
<1>6. Enabled
  BY <1>4, <1>5 DEF Init, Enabled
<1> QED
  BY <1>3, <1>6 DEF Init, CarryInv

\* Whoever saves hands the task on to the job he creates.
LEMMA SaveCarries ==
  ASSUME TypeOK, CarryInv, NEW a \in Actors, SaveStep(a)
  PROVE  CarryInv'
<1> USE TaskSchedulingAssumption DEF TypeOK, CarryInv, At, Pcs, SavePcs, OffPcs
<1>1. CASE \E j \in Jobs : CreateJob(a, j)
  <2>1. PICK j \in Jobs : CreateJob(a, j)
    BY <1>1
  <2>2. reg' = [reg EXCEPT ![j] = "scheduled"] /\ UNCHANGED <<kind, row, holds, shaken>>
    BY <2>1 DEF CreateJob
  <2>3. \A w \in Workers : holds[w] # j
    BY <2>1 DEF CreateJob, Fresh
  <2>4. Carried'
    BY <2>2 DEF Carried
  <2>5. Enabled => Enabled'
    BY <2>1, <2>2 DEF CreateJob, Enabled, Busy, Rows
  <2> QED
    BY <2>2, <2>3, <2>4, <2>5
<1>2. CASE ~\E j \in Jobs : CreateJob(a, j)
  <2>1. UNCHANGED <<kind, reg, holds, shaken>>
    BY <1>2 DEF SaveStep, Write, Check, Forget, Plan, TooLate, Final, task, jobVars
  <2>2. \A b \in Actors \ {a} : pc'[b] = pc[b] /\ copy'[b] = copy[b]
    <3>1. CASE Plan(a)
      BY <3>1, PlanOthers DEF Plan
    <3>2. CASE ~Plan(a)
      BY <3>2, <1>2 DEF SaveStep, Write, Check, Forget, TooLate, Final, task
    <3> QED
      BY <3>1, <3>2
  <2>3. copy'[a].enabled = copy[a].enabled
    <3>1. CASE Plan(a)
      BY <3>1, PlanOthers DEF Plan
    <3>2. CASE ~Plan(a)
      BY <3>2, <1>2 DEF SaveStep, Write, Check, Forget, TooLate, Final, task, Rows
    <3> QED
      BY <3>1, <3>2
  <2>4. row' = row \/ row' = copy'[a]
    BY <1>2 DEF SaveStep, Write, Check, Forget, Plan, TooLate, Final, task, WriteRow
  <2>5. pc[a] \in SavePcs /\ pc'[a] \notin OffPcs
    BY <1>2 DEF SaveStep, Write, Check, Forget, Plan, TooLate, Final
  <2>a. copy' \in [Actors -> Rows]
    <3>1. CASE Plan(a)
      BY <3>1, PlanOthers
    <3>2. CASE ~Plan(a)
      BY <3>2, <1>2 DEF SaveStep, Write, Check, Forget, TooLate, Final, task, Rows
    <3> QED
      BY <3>1, <3>2
  <2>6. Enabled => Enabled'
    <3> SUFFICES ASSUME Enabled PROVE Enabled'
      OBVIOUS
    <3>1. copy'[a].enabled
      BY <2>3, <2>5 DEF Enabled, Busy
    <3>2. row' # NoRow /\ row'.enabled
      BY <2>4, <2>a, <3>1, NoRowAssumption DEF Enabled
    <3>3. \A b \in Actors : Busy(b)' => copy'[b].enabled /\ pc'[b] \notin OffPcs
      BY <2>2, <2>5, <3>1 DEF Enabled, Busy
    <3> QED
      BY <3>2, <3>3 DEF Enabled
  <2>7. kind = "cron" /\ Enabled /\ Creates(a) => Creates(a)'
    BY <1>2, <2>5 DEF SaveStep, Write, Check, Forget, Plan, TooLate, Final, task, Creates, Enabled,
       Busy, IsScheduled
  <2>8. \A b \in Actors \ {a} : Creates(b) => Creates(b)'
    BY <2>2 DEF Creates
  <2>9. \A w \in Workers : pc[w] \in {"popped", "running"} => pc'[w] = pc[w]
    BY <2>2, <2>5 DEF Actors
  <2>10. kind = "cron" /\ Enabled /\ Carried => Carried'
    BY <2>1, <2>7, <2>8, <2>9 DEF Carried
  <2> QED
    BY <2>1, <2>6, <2>10
<1> QED
  BY <1>1, <1>2

\* As long as nothing shakes the task, an admin and a starting scheduler only
\* save it as they read it.
LEMMA SaverCarries ==
  ASSUME TypeOK, CarryInv, NEW s \in Savers, SaverStep(s)
  PROVE  CarryInv'
<1> USE TaskSchedulingAssumption DEF TypeOK, CarryInv, At, Pcs, SavePcs, OffPcs
<1>a. s \in Actors /\ s \notin Workers
  BY DEF Actors
<1>1. CASE \E j \in Jobs : RunNow(s, j)
  <2>1. PICK j \in Jobs : RunNow(s, j)
    BY <1>1
  <2>2. reg' = [reg EXCEPT ![j] = "queued"] /\ UNCHANGED <<kind, row, copy, pc, holds, shaken>>
    BY <2>1 DEF RunNow, task
  <2>3. \A w \in Workers : holds[w] # j
    BY <2>1 DEF RunNow, Fresh
  <2>4. Carried' /\ (Enabled => Enabled')
    BY <2>2 DEF Carried, Enabled, Busy
  <2> QED
    BY <2>2, <2>3, <2>4
<1>2. CASE Drop(s) \/ WriteOff(s) \/ Remove(s)
  <2>1. Busy(s) /\ pc[s] \in OffPcs
    BY <1>2 DEF Drop, WriteOff, Remove, Busy
  <2>2. shaken /\ shaken'
    BY <1>2, <1>a, <2>1 DEF Enabled, Drop, WriteOff, Remove
  <2>3. holds' = holds /\ \A j \in Jobs : reg'[j] \in {reg[j], "none"}
    BY <1>2 DEF Drop, WriteOff, Remove, jobVars
  <2> QED
    BY <2>2, <2>3
<1>3. ASSUME NEW to, NEW on, ReadRow(s, to, on), shaken' \/ (~shaken /\ to = "write" /\ on = TRUE)
      PROVE  CarryInv'
  <2>1. /\ pc[s] = "idle" /\ pc' = [pc EXCEPT ![s] = to]
        /\ copy' = [copy EXCEPT ![s] = [row EXCEPT !.enabled = on]]
        /\ UNCHANGED <<kind, row, reg, holds>> /\ row \in Rows
    BY <1>3 DEF ReadRow, jobVars
  <2>2. CASE shaken'
    BY <2>1, <2>2
  <2>3. CASE ~shaken /\ to = "write" /\ on = TRUE
    <3>1. Enabled'
      BY <2>1, <2>3, <1>a DEF Enabled, Busy, Rows
    <3>2. Carried => Carried'
      <4>1. \A b \in Actors : Creates(b) => Creates(b)'
        BY <2>1 DEF Creates
      <4>2. \A w \in Workers : pc'[w] = pc[w]
        BY <2>1, <1>a DEF Actors
      <4> QED
        BY <2>1, <4>1, <4>2 DEF Carried
    <3> QED
      BY <2>1, <2>3, <3>1, <3>2
  <2> QED
    BY <1>3, <2>2, <2>3
<1>4. CASE Save(s) \/ Edit(s) \/ Disable(s) \/ Delete(s)
  <2>1. \/ shaken
        \/ row.enabled = TRUE
    BY DEF Enabled, Rows
  <2> QED
    BY <1>3, <1>4, <2>1 DEF Save, Edit, Disable, Delete
<1> QED
  BY <1>1, <1>2, <1>3, <1>4 DEF SaverStep

\* A worker hands the task on from the job to its callback, which comes before
\* the job is filed.
LEMMA WorkerCarries ==
  ASSUME TypeOK, CarryInv, NEW w \in Workers, WorkerStep(w)
  PROVE  CarryInv'
<1> USE TaskSchedulingAssumption DEF TypeOK, CarryInv, At, Pcs, SavePcs, OffPcs
<1>a. w \in Actors
  BY DEF Actors
<1>b. ASSUME UNCHANGED <<kind, row, shaken>>, NEW to, pc' = [pc EXCEPT ![w] = to],
             to \notin SavePcs \cup OffPcs, UNCHANGED copy
      PROVE  /\ Enabled => Enabled'
             /\ \A b \in Actors : b # w => Creates(b) = Creates(b)'
             /\ \A v \in Workers : v # w => pc'[v] = pc[v]
  BY <1>b, <1>a DEF Enabled, Busy, Creates, Actors
<1>1. CASE \E j \in Jobs : Pop(w, j)
  <2>1. PICK j \in Jobs : Pop(w, j)
    BY <1>1
  <2>2. /\ reg' = [reg EXCEPT ![j] = "none"] /\ holds' = [holds EXCEPT ![w] = j]
        /\ pc' = [pc EXCEPT ![w] = "popped"] /\ UNCHANGED <<kind, row, copy, shaken>>
    BY <2>1 DEF Pop, task
  <2>3. Enabled => Enabled'
    BY <2>2, <1>b
  <2>4. Carried'
    BY <2>2, <1>a DEF Carried
  <2> QED
    BY <2>2, <2>3, <2>4
<1>2. CASE Begin(w)
  <2>1. /\ reg' = [reg EXCEPT ![holds[w]] = "active"] /\ holds' = holds
        /\ pc' = [pc EXCEPT ![w] = "running"] /\ UNCHANGED <<kind, row, copy, shaken>>
    BY <1>2 DEF Begin, task
  <2>2. Enabled => Enabled'
    BY <2>1, <1>b
  <2>3. Carried'
    BY <2>1, <1>a DEF Carried
  <2> QED
    BY <2>1, <2>2, <2>3
<1>3. CASE Callback(w)
  <2>1. /\ pc[w] = "running" /\ pc' = [pc EXCEPT ![w] = "write"]
        /\ copy' = [copy EXCEPT ![w] = [row EXCEPT !.job = NoJob]]
        /\ UNCHANGED <<kind, row, reg, holds, shaken>> /\ row \in Rows
    BY <1>3 DEF Callback, jobVars
  <2>2. Enabled => Enabled'
    BY <2>1, <1>a DEF Enabled, Busy, Rows
  <2>3. pc'[w] = "write" /\ copy'[w].job = NoJob
    BY <2>1, <1>a DEF Rows
  <2>4. Carried'
    BY <2>3, <1>a DEF Carried, Creates
  <2> QED
    BY <2>1, <2>2, <2>4
<1>4. CASE Orphan(w)
  <2>1. row = NoRow /\ UNCHANGED <<reg, holds, shaken>>
    BY <1>4 DEF Orphan, jobVars
  <2> QED
    BY <2>1 DEF Enabled
<1>5. CASE Kill(w)
  <2>1. shaken' /\ EndJob(w)
    BY <1>5 DEF Kill
  <2>2. \A v \in Workers : holds'[v] # NoJob => holds'[v] = holds[v]
    BY <2>1 DEF EndJob
  <2>3. \A j \in Jobs : reg'[j] \in {reg[j], "none"}
    BY <2>1 DEF EndJob
  <2> QED
    BY <2>1, <2>2, <2>3
<1>6. CASE Finish(w)
  <2>1. /\ pc[w] = "done" /\ pc' = [pc EXCEPT ![w] = "idle"] /\ EndJob(w)
        /\ UNCHANGED <<kind, row, copy, shaken>> /\ holds[w] \in Jobs
    BY <1>6 DEF Finish, task
  <2>2. /\ \A v \in Workers : holds'[v] # NoJob => holds'[v] = holds[v]
        /\ \A j \in Jobs : reg'[j] \in {reg[j], "none"}
        /\ \A j \in Jobs : j # holds[w] => reg'[j] = reg[j]
    BY <2>1 DEF EndJob
  <2>3. Enabled => Enabled'
    BY <2>1, <1>b
  <2>4. reg[holds[w]] \notin {"scheduled", "queued"}
    BY <2>1
  <2>5. Carried => Carried'
    <3>1. ~Creates(w)
      BY <2>1 DEF Creates
    <3>2. \A b \in Actors : Creates(b) => Creates(b)'
      BY <3>1, <2>1, <1>b
    <3>3. \A v \in Workers : pc[v] \in {"popped", "running"} => pc'[v] = pc[v]
      BY <2>1, <1>b
    <3> QED
      BY <2>2, <2>4, <3>2, <3>3 DEF Carried
  <2> QED
    BY <2>1, <2>2, <2>3, <2>5
<1> QED
  BY <1>1, <1>2, <1>3, <1>4, <1>5, <1>6 DEF WorkerStep

\* Every step keeps the task carried.
LEMMA CarryStep == TypeOK /\ CarryInv /\ [Next]_vars => CarryInv'
<1> SUFFICES ASSUME TypeOK, CarryInv, [Next]_vars PROVE CarryInv'
  OBVIOUS
<1>1. CASE UNCHANGED vars \/ Tick
  <2>1. UNCHANGED <<kind, row, copy, pc, reg, holds, shaken>>
    BY <1>1 DEF vars, Tick, task, jobVars
  <2> QED
    BY <2>1 DEF CarryInv, Carried, Creates, Enabled, Busy
<1>2. CASE \E j \in Jobs : Promote(j)
  <2>1. PICK j \in Jobs : Promote(j)
    BY <1>2
  <2>2. /\ reg[j] = "scheduled" /\ reg' = [reg EXCEPT ![j] = "queued"]
        /\ UNCHANGED <<kind, row, copy, pc, holds, shaken>>
    BY <2>1 DEF Promote, task
  <2>3. Carried' /\ (Enabled => Enabled')
    BY <2>2 DEF TypeOK, Carried, Enabled, Busy
  <2> QED
    BY <2>2, <2>3 DEF TypeOK, CarryInv
<1> QED
  BY <1>1, <1>2, SaveCarries, SaverCarries, WorkerCarries DEF Next

\* A cron task that nobody disabled or deleted, and none of whose jobs was killed,
\* has its next job whenever nobody is busy with it, for any numbers of savers,
\* workers and jobs at once (save, _schedule, the callbacks).
THEOREM GoesOn == Spec => []NeverForgotten
<1>1. TypeOK /\ CarryInv => NeverForgotten
  BY TaskSchedulingAssumption DEF TypeOK, CarryInv, Carried, Creates, NeverForgotten, AtRest, Busy, SavePcs
<1> QED
  BY TypeCorrect, CarryInit, CarryStep, <1>1, PTL DEF Spec
=============================================================================
