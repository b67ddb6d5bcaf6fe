--------------------------- MODULE TaskScheduling ---------------------------
(***************************************************************************)
(* One task of the database (models/task.py) and the jobs it puts into the *)
(* broker.  Everybody who touches the task - the admin, the start of a     *)
(* scheduler, the callback of a finished job - works on a copy of the row  *)
(* that it read earlier, and saves the whole copy: save() writes the row,  *)
(* asks the broker whether the job of the copy is still there, creates the *)
(* next job if not, and writes the row again.                              *)
(*                                                                         *)
(* The jobs are here what is_scheduled sees of them: the registry they are *)
(* in.  What JobQueue.tla shows in detail is one step of this module.      *)
(***************************************************************************)
EXTENDS Integers

CONSTANTS
  Jobs,      \* names of jobs
  Savers,    \* web requests and schedulers that start
  Workers,   \* processes that execute jobs
  NoJob,     \* job_name None; a worker without a job
  NoRow,     \* the row does not exist
  NoLimit,   \* repeat None
  Kinds,     \* which kinds of task there may be
  Ops,       \* which optional operations and faults take place
  Start,     \* scheduled_time of the new task
  Interval,  \* interval_seconds(), and the period of a cron task
  Repeat,    \* repeat of the new task
  MaxTime    \* bound: the clock stops there

Actors == Savers \cup Workers

ASSUME TaskSchedulingAssumption ==
  /\ NoJob \notin Jobs
  /\ Savers \cap Workers = {}
  /\ NoLimit \notin Int
  /\ Kinds \subseteq {"cron", "once", "repeatable", "endless"}
  /\ Ops \subseteq {"runnow", "save", "edit", "disable", "delete", "kill"}
  /\ Start \in Nat /\ Interval \in Nat \ {0} /\ Repeat \in Nat /\ MaxTime \in Nat

VARIABLES
  kind,   \* task_type; "endless" is a repeatable task without a repeat count
  now,    \* the clock
  row,    \* the task in the database
  pc,     \* where each actor is
  copy,   \* the Task object each actor has in memory
  reg,    \* the registry of each job, "none" when it is in no registry
  at,     \* the time a job is scheduled for
  holds,  \* the job each worker has popped
  shaken  \* auxiliary: the task has been disabled or deleted, or a job of it killed

task == <<kind, row, copy>>
jobVars == <<reg, at, holds>>
vars == <<now, task, pc, jobVars, shaken>>

Repeats == Nat \cup {NoLimit}
Rows == [job : Jobs \cup {NoJob}, enabled : BOOLEAN, time : Nat, repeat : Repeats]

ASSUME NoRowAssumption == NoRow \notin Rows

SavePcs == {"write", "check", "forget", "plan", "create", "final"}
OffPcs == {"drop", "off", "d-drop", "d-off", "d-again", "d-remove"}
Pcs == {"idle", "popped", "running", "done"} \cup SavePcs \cup OffPcs

At(a, from, to) ==
  /\ pc[a] = from
  /\ pc' = [pc EXCEPT ![a] = to]

WriteRow(a) == row' = copy[a]

\* is_scheduled: a rank in the scheduled, queued or active registry.
IsScheduled(j) == j # NoJob /\ reg[j] # "none"

\* Actor a works on its copy.
Busy(a) == pc[a] \in SavePcs \cup OffPcs

\* A name that nothing refers to: the names of jobs carry a time stamp.
Fresh(j) ==
  /\ reg[j] = "none"
  /\ \A w \in Workers : holds[w] # j
  /\ \A a \in Actors : Busy(a) => copy[a].job # j
  /\ row # NoRow => row.job # j

\* The task has just been inserted, and its first save goes on.
Init ==
  /\ kind \in Kinds
  /\ now = 0
  /\ row = [job |-> NoJob, enabled |-> TRUE, time |-> Start,
            repeat |-> IF kind = "endless" THEN NoLimit ELSE Repeat]
  /\ \E s \in Savers : pc = [a \in Actors |-> IF a = s THEN "check" ELSE "idle"]
  /\ copy = [a \in Actors |-> row]
  /\ reg = [j \in Jobs |-> "none"]
  /\ at = [j \in Jobs |-> 0]
  /\ holds = [w \in Workers |-> NoJob]
  /\ shaken = FALSE

-----------------------------------------------------------------------------
(* save(): clean() and the interval are left out, they change nothing here. *)

\* super().save(): the whole copy, inserted again if the row is gone.
Write(a) ==
  /\ At(a, "write", "check")
  /\ WriteRow(a)
  /\ UNCHANGED <<kind, now, copy, jobVars, shaken>>

\* _schedule: is there a job already?
Check(a) ==
  /\ \/ IsScheduled(copy[a].job) /\ At(a, "check", "final")
     \/ ~IsScheduled(copy[a].job) /\ At(a, "check", IF copy[a].job = NoJob THEN "plan" ELSE "forget")
  /\ UNCHANGED <<now, task, jobVars, shaken>>

\* is_scheduled drops a job that is over, and saves the row.
Forget(a) ==
  /\ At(a, "forget", "plan")
  /\ copy' = [copy EXCEPT ![a].job = NoJob]
  /\ row' = copy'[a]
  /\ UNCHANGED <<kind, now, jobVars, shaken>>

\* gap: the number of intervals that have begun since time t.
IsGap(t, gap) == Interval * (gap - 1) < now - t /\ now - t <= Interval * gap

\* Mutant: missed runs are not counted.
Postpone_KeepsRepeat(a, gap) ==
  copy' = [copy EXCEPT ![a].time = @ + Interval * gap]

Postpone(a, gap) ==
  copy' = [copy EXCEPT ![a].time = @ + Interval * gap,
                       ![a].repeat = IF @ = NoLimit THEN NoLimit ELSE @ - gap]

\* _schedule_time, on the copy: the next time of the cron table, or of a
\* repeatable task that still has the runs it missed to spare.
PlanTime(a) ==
  LET t == copy[a].time IN
  CASE kind = "cron" ->
         \E k \in 1..(MaxTime + 1) :
           /\ Interval * (k - 1) <= now /\ now < Interval * k
           /\ copy' = [copy EXCEPT ![a].time = Interval * k]
    [] kind \in {"repeatable", "endless"} /\ t < now ->
         \E gap \in 1..MaxTime :
           /\ IsGap(t, gap)
           /\ IF copy[a].repeat = NoLimit \/ copy[a].repeat >= gap
              THEN Postpone(a, gap)
              ELSE UNCHANGED copy
    [] OTHER -> UNCHANGED copy

Plan(a) ==
  /\ \/ ~copy[a].enabled /\ At(a, "plan", "final") /\ UNCHANGED copy
     \/ copy[a].enabled /\ At(a, "plan", "create") /\ PlanTime(a)
  /\ UNCHANGED <<kind, now, row, jobVars, shaken>>

\* A time that has passed by now is not scheduled any more.
TooLate(a) ==
  /\ At(a, "create", "final")
  /\ kind # "cron" /\ copy[a].time < now
  /\ UNCHANGED <<now, task, jobVars, shaken>>

\* create_and_enqueue_job(when=schedule_time)
CreateJob(a, j) ==
  /\ At(a, "create", "final")
  /\ kind = "cron" \/ copy[a].time >= now
  /\ Fresh(j)
  /\ reg' = [reg EXCEPT ![j] = "scheduled"]
  /\ at' = [at EXCEPT ![j] = copy[a].time]
  /\ copy' = [copy EXCEPT ![a].job = j]
  /\ UNCHANGED <<kind, now, row, holds, shaken>>

\* The second super().save() of save().
Final(a) ==
  /\ At(a, "final", IF a \in Workers THEN "done" ELSE "idle")
  /\ WriteRow(a)
  /\ UNCHANGED <<kind, now, copy, jobVars, shaken>>

-----------------------------------------------------------------------------
(* The admin, and the start of a scheduler.                                *)

\* The object is read, and changed in memory.
ReadRow(s, to, enabled) ==
  /\ row # NoRow
  /\ At(s, "idle", to)
  /\ copy' = [copy EXCEPT ![s] = [row EXCEPT !.enabled = enabled]]
  /\ UNCHANGED <<kind, now, row, jobVars>>

\* _reschedule_tasks, next_run: save() of the object as it was read.
Save(s) == "save" \in Ops /\ ReadRow(s, "write", row.enabled) /\ UNCHANGED shaken

\* The form, or enable_selected: save() with another value of enabled.
Edit(s) ==
  /\ "edit" \in Ops
  /\ ReadRow(s, "write", ~row.enabled)
  /\ shaken' = (shaken \/ row.enabled)

\* disable_selected: enabled = False and unschedule().
Disable(s) ==
  /\ "disable" \in Ops
  /\ row # NoRow /\ row.enabled
  /\ ReadRow(s, "drop", FALSE)
  /\ shaken' = TRUE

\* delete_model: unschedule(), then delete(), which calls unschedule() again.
Delete(s) ==
  /\ "delete" \in Ops
  /\ ReadRow(s, "d-drop", row.enabled)
  /\ shaken' = TRUE

\* unschedule: delete_job takes the job out of its registry ...
Drop(s) ==
  /\ At(s, "drop", "off") \/ At(s, "d-drop", "d-off")
  /\ reg' = [j \in Jobs |-> IF j = copy[s].job THEN "none" ELSE reg[j]]
  /\ copy' = [copy EXCEPT ![s].job = NoJob]
  /\ UNCHANGED <<kind, now, row, at, holds, shaken>>

\* ... and the row is written without it.
WriteOff(s) ==
  /\ At(s, "off", "idle") \/ At(s, "d-off", "d-again") \/ At(s, "d-again", "d-remove")
  /\ WriteRow(s)
  /\ UNCHANGED <<kind, now, copy, jobVars, shaken>>

Remove(s) ==
  /\ At(s, "d-remove", "idle")
  /\ row' = NoRow
  /\ UNCHANGED <<kind, now, copy, jobVars, shaken>>

\* enqueue_to_run: a job beside the scheduled one, with the same callbacks.
RunNow(s, j) ==
  /\ "runnow" \in Ops
  /\ row # NoRow /\ pc[s] = "idle" /\ Fresh(j)
  /\ reg' = [reg EXCEPT ![j] = "queued"]
  /\ UNCHANGED <<now, task, pc, at, holds, shaken>>

-----------------------------------------------------------------------------
(* The jobs.                                                               *)

Tick ==
  /\ now < MaxTime
  /\ now' = now + 1
  /\ UNCHANGED <<task, pc, jobVars, shaken>>

\* enqueue_scheduled_jobs
Promote(j) ==
  /\ reg[j] = "scheduled" /\ at[j] <= now
  /\ reg' = [reg EXCEPT ![j] = "queued"]
  /\ UNCHANGED <<now, task, pc, at, holds, shaken>>

\* From here to Begin the job is in no registry.
Pop(w, j) ==
  /\ reg[j] = "queued"
  /\ At(w, "idle", "popped")
  /\ reg' = [reg EXCEPT ![j] = "none"]
  /\ holds' = [holds EXCEPT ![w] = j]
  /\ UNCHANGED <<now, task, at, shaken>>

Begin(w) ==
  /\ At(w, "popped", "running")
  /\ reg' = [reg EXCEPT ![holds[w]] = "active"]
  /\ UNCHANGED <<now, task, at, holds, shaken>>

\* The job leaves its registry for one that is_scheduled does not look at.
EndJob(w) ==
  /\ reg' = [reg EXCEPT ![holds[w]] = "none"]
  /\ holds' = [holds EXCEPT ![w] = NoJob]

\* Mutant: the callback is called after the job has been filed.
Callback_AfterFiling(w) ==
  /\ row # NoRow
  /\ At(w, "running", "write")
  /\ copy' = [copy EXCEPT ![w] = [row EXCEPT !.job = NoJob]]
  /\ EndJob(w)
  /\ UNCHANGED <<kind, now, row, at, shaken>>

\* Mutant: the task keeps the name of the job that is over.
Callback_KeepsJob(w) ==
  /\ row # NoRow
  /\ At(w, "running", "write")
  /\ copy' = [copy EXCEPT ![w] = row]
  /\ UNCHANGED <<kind, now, row, jobVars, shaken>>

\* success_callback, failure_callback: called while the job is still active.
Callback(w) ==
  /\ row # NoRow
  /\ At(w, "running", "write")
  /\ copy' = [copy EXCEPT ![w] = [row EXCEPT !.job = NoJob]]
  /\ UNCHANGED <<kind, now, row, jobVars, shaken>>

\* The callback finds no task.
Orphan(w) ==
  /\ row = NoRow
  /\ At(w, "running", "done")
  /\ UNCHANGED <<now, task, jobVars, shaken>>

\* after_execution
Finish(w) ==
  /\ At(w, "done", "idle")
  /\ EndJob(w)
  /\ UNCHANGED <<now, task, at, shaken>>

\* The process is killed, or stopped by an admin: nobody calls a callback.
Kill(w) ==
  /\ "kill" \in Ops
  /\ pc[w] # "idle"
  /\ pc' = [pc EXCEPT ![w] = "idle"]
  /\ EndJob(w)
  /\ shaken' = TRUE
  /\ UNCHANGED <<now, task, at>>

-----------------------------------------------------------------------------
SaveStep(a) ==
  \/ Write(a) \/ Check(a) \/ Forget(a) \/ Plan(a) \/ TooLate(a) \/ Final(a)
  \/ \E j \in Jobs : CreateJob(a, j)

SaverStep(s) ==
  \/ Save(s) \/ Edit(s) \/ Disable(s) \/ Delete(s)
  \/ Drop(s) \/ WriteOff(s) \/ Remove(s)
  \/ \E j \in Jobs : RunNow(s, j)

WorkerStep(w) ==
  \/ Begin(w) \/ Callback(w) \/ Orphan(w) \/ Finish(w) \/ Kill(w)
  \/ \E j \in Jobs : Pop(w, j)

Next ==
  \/ Tick
  \/ \E j \in Jobs : Promote(j)
  \/ \E a \in Actors : SaveStep(a)
  \/ \E s \in Savers : SaverStep(s)
  \/ \E w \in Workers : WorkerStep(w)

Spec == Init /\ [][Next]_vars

-----------------------------------------------------------------------------
\* Every variable has its type; a worker has a job when it is not idle.
TypeOK ==
  /\ kind \in Kinds /\ now \in Nat
  /\ row \in Rows \cup {NoRow}
  /\ pc \in [Actors -> Pcs]
  /\ copy \in [Actors -> Rows]
  /\ reg \in [Jobs -> {"none", "scheduled", "queued", "active"}]
  /\ at \in [Jobs -> Nat]
  /\ holds \in [Workers -> Jobs \cup {NoJob}]
  /\ \A w \in Workers : pc[w] # "idle" => holds[w] \in Jobs
  /\ shaken \in BOOLEAN

\* Whatever stale copies are written over the row, a repeatable task keeps to
\* its grid: a job is scheduled for a whole number of intervals after the first
\* time, and not for more of them than repeat allows (_schedule_time, save).
OnSchedule ==
  kind = "repeatable" =>
    \A j \in Jobs : reg[j] = "scheduled" =>
      \E k \in 0..Repeat : at[j] = Start + Interval * k

\* Nobody is in the middle of a save or past a callback.
AtRest == \A a \in Actors : ~Busy(a) /\ pc[a] # "done"

\* A cron task that nobody has disabled or deleted, and none of whose jobs was
\* killed, has its next job when nobody is busy with it, however the callbacks,
\* saves of stale objects and extra runs interleave (save, _schedule, callbacks).
NeverForgotten ==
  kind = "cron" /\ ~shaken /\ AtRest =>
    (\E j \in Jobs : reg[j] # "none") \/ (\E w \in Workers : holds[w] # NoJob)
=============================================================================
