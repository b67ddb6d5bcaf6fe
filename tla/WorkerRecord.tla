---------------------------- MODULE WorkerRecord ----------------------------
(***************************************************************************)
(* The record of a worker in the broker, and the copies of it in memory    *)
(* (scheduler/redis_models/worker.py, base.py, worker/worker.py,           *)
(* worker/commands/).                                                      *)
(*                                                                         *)
(* Three parties hold a copy: the worker's main thread, the child that     *)
(* executes a job, and, for the length of a command, the thread that       *)
(* listens for commands.  A heartbeat and the constructor of a Worker save *)
(* every field of the copy at hand, whatever the others have written.      *)
(*                                                                         *)
(* One step is one command to the broker, with the local work around it.   *)
(* Signals come to the main thread between any two of its steps.           *)
(***************************************************************************)
EXTENDS Integers, FiniteSets

CONSTANTS
  Jobs,     \* the jobs that may come into the worker's queues
  NoJob,    \* no job in hand
  MaxJobs,  \* the option max_jobs
  Ops       \* the commands, signals and faults there may be

OptionalOps == {"suspend", "resume", "kill", "signal", "force", "death"}

ASSUME WorkerAssumption ==
  /\ IsFiniteSet(Jobs) /\ NoJob \notin Jobs
  /\ MaxJobs \in Nat
  /\ Ops \subseteq OptionalOps

VARIABLES
  rec,       \* the hash in the broker
  obj,       \* _model in the main thread
  dirty,     \* the fields of _model that are set but not saved
  pc,        \* what the main thread does next
  sig,       \* the handler of signals
  burst,     \* the option burst
  left,      \* the jobs that have not been popped
  job,       \* the job in the main thread's hands
  child,     \* what the child does next
  cobj,      \* _model in the child
  over,      \* the jobs whose end was recorded in the job
  listener,  \* what the thread that listens does
  lobj,      \* the record as that thread has read it
  undone,    \* commands that were overwritten from an old copy
  cut        \* whether the teardown was cut off, or a child left behind

mainVars     == <<obj, dirty, pc, job, left>>
childVars    == <<child, cobj, over>>
listenerVars == <<listener, lobj>>
vars == <<rec, mainVars, sig, burst, childVars, listenerVars, undone, cut>>

-----------------------------------------------------------------------------
(* The record *)

States == {"idle", "busy", "suspended"}

\* The fields that somebody acts on; started counts as idle.
Records == [suspended : BOOLEAN, shutdown : BOOLEAN, state : States,
            done : Nat, dead : BOOLEAN]

NewRecord == [suspended |-> FALSE, shutdown |-> FALSE, state |-> "idle",
              done |-> 0, dead |-> FALSE]

\* The commands that saving all of a copy takes back.
Undone(copy) ==
  {c \in {"suspended"} : rec.suspended # copy.suspended}
    \cup {c \in {"shutdown"} : rec.shutdown /\ ~copy.shutdown}

\* save(save_all=True)
SaveAll(copy) ==
  /\ rec' = copy
  /\ undone' = undone \cup Undone(copy)

\* save(): the fields that were set since the last one.
Merged(copy, fields) ==
  [rec EXCEPT !.shutdown = IF "shutdown" \in fields THEN copy.shutdown ELSE @,
              !.state = IF "state" \in fields THEN copy.state ELSE @,
              !.done = IF "done" \in fields THEN copy.done ELSE @]

-----------------------------------------------------------------------------
(* The main thread: Worker.work *)

At(p) == pc = p /\ sig # "handling"

Goto(p) == pc' = p

others == <<burst, sig, childVars, listenerVars, cut>>

\* set_field("state", s)
SetState(s) ==
  /\ obj' = [obj EXCEPT !.state = s]
  /\ dirty' = dirty \cup {"state"}
  /\ rec' = [rec EXCEPT !.state = s]
  /\ UNCHANGED undone

Heartbeat ==
  /\ SaveAll(obj)
  /\ dirty' = {}
  /\ UNCHANGED obj

LocalStep == UNCHANGED <<rec, obj, dirty, undone>>

Refresh(from, to) ==
  /\ At(from)
  /\ obj' = rec
  /\ dirty' = {}
  /\ Goto(to)
  /\ UNCHANGED <<rec, undone, job, left, others>>

\* Mutant: only a burst worker looks.
CheckForSuspension_OnlyBurst ==
  /\ At("check")
  /\ Goto(IF obj.suspended /\ burst THEN "teardown" ELSE "look")
  /\ LocalStep
  /\ UNCHANGED <<job, left, others>>

\* _check_for_suspension; nothing in its loop refreshes _model, so that a
\* suspended worker stays there until a signal comes.
CheckForSuspension ==
  /\ At("check")
  /\ \/ ~obj.suspended /\ Goto("look") /\ LocalStep
     \/ obj.suspended /\ burst /\ Goto("teardown") /\ LocalStep
     \/ obj.suspended /\ ~burst /\ Goto("suspended") /\ SetState("suspended")
  /\ UNCHANGED <<job, left, others>>

\* Mutant: the request in the record is not looked at.
LookForRequest_Never ==
  /\ At("look")
  /\ Goto("listen") /\ SetState("idle")
  /\ UNCHANGED <<job, left, others>>

LookForRequest ==
  /\ At("look")
  /\ \/ obj.shutdown /\ Goto("teardown") /\ LocalStep
     \/ ~obj.shutdown /\ Goto("listen") /\ SetState("idle")
  /\ UNCHANGED <<job, left, others>>

\* dequeue_job_and_maintain_ttl: a heartbeat before and after each pop.
Beat(from, to) ==
  /\ At(from)
  /\ Heartbeat
  /\ Goto(to)
  /\ UNCHANGED <<job, left, others>>

Pop(j) ==
  /\ At("pop")
  /\ j \in left
  /\ job' = j
  /\ left' = left \ {j}
  /\ Goto("popped")
  /\ LocalStep /\ UNCHANGED others

\* Mutant: there is always a job.
PopNothing_NoTest ==
  /\ At("pop")
  /\ Goto(IF burst THEN "popped" ELSE "listen")
  /\ LocalStep /\ UNCHANGED <<job, left, others>>

\* No job came; a worker that is no burst worker waits again.
PopNothing ==
  /\ At("pop")
  /\ Goto(IF burst THEN "empty" ELSE "listen")
  /\ LocalStep /\ UNCHANGED <<job, left, others>>

GetBusy ==
  /\ At("handover")
  /\ SetState("busy")
  /\ Goto("fork")
  /\ UNCHANGED <<job, left, others>>

Fork ==
  /\ At("fork")
  /\ child' = "born"
  /\ cobj' = obj
  /\ Goto("forked")
  /\ LocalStep /\ UNCHANGED <<job, left, sig, burst, over, listenerVars, cut>>

\* The parent notes the child's pid and saves what is dirty.
NoteChild ==
  /\ At("forked")
  /\ rec' = Merged(obj, dirty)
  /\ dirty' = {}
  /\ Goto("wait")
  /\ UNCHANGED <<obj, undone, job, left, others>>

ChildAlive == child \in {"born", "prepare", "run", "count", "exit"}

Monitor == ChildAlive /\ Beat("wait", "wait")

Reap == child \in {"ended", "died"} /\ Refresh("wait", "reaped")

\* Mutant: a job whose child died is counted, whatever the child has recorded.
Settle_NoStatus ==
  /\ At("reaped")
  /\ IF child = "died"
     THEN /\ over' = over \cup {job}
          /\ obj' = [obj EXCEPT !.done = @ + 1]
          /\ rec' = Merged(obj', dirty \cup {"done"})
     ELSE /\ rec' = Merged(obj, dirty)
          /\ UNCHANGED <<obj, over>>
  /\ dirty' = {}
  /\ child' = "none"
  /\ Goto("settled")
  /\ UNCHANGED <<undone, job, left, sig, burst, cobj, listenerVars, cut>>

\* Mutant: the parent leaves the job of a dead child as it is.
Settle_Forgets ==
  /\ At("reaped")
  /\ rec' = Merged(obj, dirty)
  /\ dirty' = {}
  /\ child' = "none"
  /\ Goto("settled")
  /\ UNCHANGED <<obj, over, undone, job, left, sig, burst, cobj, listenerVars, cut>>

\* The end of monitor_job_execution_process: the parent fails, and counts, the
\* job of a child that died before it could.
Settle ==
  /\ At("reaped")
  /\ IF child = "died" /\ job \notin over
     THEN /\ over' = over \cup {job}
          /\ obj' = [obj EXCEPT !.done = @ + 1]
          /\ rec' = Merged(obj', dirty \cup {"done"})
     ELSE /\ rec' = Merged(obj, dirty)
          /\ UNCHANGED <<obj, over>>
  /\ dirty' = {}
  /\ child' = "none"
  /\ Goto("settled")
  /\ UNCHANGED <<undone, job, left, sig, burst, cobj, listenerVars, cut>>

GetIdle ==
  /\ At("settled")
  /\ SetState("idle")
  /\ job' = NoJob
  /\ Goto("after")
  /\ UNCHANGED <<left, others>>

\* The heartbeat after a job, and max_jobs.
Report == Beat("report", IF obj.done >= MaxJobs THEN "teardown" ELSE "refresh")

\* Mutant: stop() does not join the thread.
StopListening_NoJoin ==
  /\ At("teardown")
  /\ Goto("delete")
  /\ LocalStep
  /\ UNCHANGED <<job, left, sig, burst, childVars, cut, listenerVars>>

\* teardown: the command in progress is the last one.
StopListening ==
  /\ At("teardown")
  /\ listener \in {"listening", "dead"}
  /\ listener' = "stopped"
  /\ Goto("delete")
  /\ LocalStep /\ UNCHANGED <<job, left, sig, burst, childVars, lobj, cut>>

\* WorkerModel.delete notes the death; the hash expires a minute later.
Delete ==
  /\ At("delete")
  /\ rec' = [rec EXCEPT !.dead = TRUE]
  /\ Goto("done")
  /\ UNCHANGED <<obj, dirty, undone, job, left, others>>

\* The process ends, and its threads with it.
End ==
  /\ At("done")
  /\ Goto("gone")
  /\ listener' = "stopped"
  /\ LocalStep /\ UNCHANGED <<job, left, sig, burst, childVars, lobj, cut>>

-----------------------------------------------------------------------------
(* Signals *)

\* An exception ends the loop, and in the teardown it ends the process.
Teardown == {"teardown", "delete"}

Leave ==
  IF pc \in Teardown \cup {"done"}
  THEN /\ Goto("gone") /\ listener' = "stopped"
       /\ cut' = (cut \/ pc \in Teardown)
  ELSE Goto("teardown") /\ UNCHANGED <<cut, listener>>

\* request_stop (SIGINT, SIGTERM, the command shutdown) up to stop_scheduler,
\* which may take its time.
Signal ==
  /\ "signal" \in Ops
  /\ sig = "none" /\ pc # "gone"
  /\ sig' = "handling"
  /\ obj' = [obj EXCEPT !.shutdown = TRUE]
  /\ dirty' = dirty \cup {"shutdown"}
  /\ rec' = [rec EXCEPT !.shutdown = TRUE]
  /\ undone' = undone \ {"shutdown"}
  /\ UNCHANGED <<pc, job, left, burst, childVars, listenerVars, cut>>

\* The rest of it: a busy worker goes on, the others raise StopRequested.
Handled ==
  /\ sig = "handling" /\ pc # "gone"
  /\ sig' = "handled"
  /\ IF obj.state = "busy"
     THEN /\ rec' = [rec EXCEPT !.shutdown = TRUE]
          /\ UNCHANGED <<pc, cut, listener>>
     ELSE Leave /\ UNCHANGED rec
  /\ UNCHANGED <<obj, dirty, job, left, burst, childVars, lobj, undone>>

\* request_force_stop: it takes down the child whose pid it knows.
ForceStop ==
  /\ "force" \in Ops
  /\ sig # "none" /\ pc # "gone"
  /\ sig' = "handled"
  /\ IF ChildAlive /\ pc = "forked"
     THEN /\ Goto("teardown") /\ cut' = TRUE
          /\ UNCHANGED <<child, listener>>
     ELSE /\ child' = IF ChildAlive THEN "died" ELSE child
          /\ Leave
  /\ UNCHANGED <<rec, obj, dirty, job, left, burst, cobj, over, lobj, undone>>

-----------------------------------------------------------------------------
(* The child: execute_in_separate_process *)

ChildStep(from, to) ==
  /\ child = from
  /\ child' = to
  /\ UNCHANGED <<mainVars, sig, burst, listenerVars, cut>>

\* Worker.from_model, then worker_before_execution.
SaveCopy(from, to) ==
  /\ ChildStep(from, to)
  /\ SaveAll(cobj)
  /\ UNCHANGED <<cobj, over>>

\* The function ended and the job is filed as finished or failed.
File ==
  /\ ChildStep("run", "count")
  /\ over' = over \cup {job}
  /\ UNCHANGED <<rec, cobj, undone>>

Count ==
  /\ ChildStep("count", "exit")
  /\ cobj' = [cobj EXCEPT !.done = @ + 1]
  /\ rec' = Merged(cobj', {"done"})
  /\ UNCHANGED <<over, undone>>

\* Between its last save and its end the parent may still save a heartbeat.
Exit == ChildStep("exit", "ended") /\ UNCHANGED <<rec, cobj, over, undone>>

ChildDies ==
  /\ "death" \in Ops /\ ChildAlive
  /\ ChildStep(child, "died")
  /\ UNCHANGED <<rec, cobj, over, undone>>

-----------------------------------------------------------------------------
(* The thread that listens for commands *)

\* A command comes and reads the record; it is ignored where it has nothing
\* to do.  A teardown begins with the flag that ends the thread's loop.
Hear(c) ==
  /\ c \in Ops
  /\ listener = "listening" /\ pc \notin Teardown \cup {"done", "gone"}
  /\ \/ c = "suspend" /\ ~rec.suspended
     \/ c = "resume" /\ rec.suspended
     \/ c = "kill"
  /\ listener' = c
  /\ lobj' = rec
  /\ UNCHANGED <<rec, mainVars, sig, burst, childVars, undone, cut>>

Obey(c, suspended) ==
  /\ listener = c /\ pc # "gone"
  /\ listener' = "listening"
  /\ rec' = [rec EXCEPT !.suspended = suspended]
  /\ undone' = undone \ {"suspended"}
  /\ UNCHANGED <<mainVars, sig, burst, childVars, lobj, cut>>

\* kill-worker builds a Worker, which saves what the command has read ...
Rebuild ==
  /\ listener = "kill" /\ pc # "gone"
  /\ listener' = "request"
  /\ SaveAll(lobj)
  /\ UNCHANGED <<mainVars, sig, burst, childVars, lobj, cut>>

\* ... and notes the request; then signal.signal raises, because this is not
\* the main thread, and the thread ends.
NoteRequest ==
  /\ listener = "request" /\ pc # "gone"
  /\ listener' = "dead"
  /\ rec' = [rec EXCEPT !.shutdown = TRUE]
  /\ undone' = undone \ {"shutdown"}
  /\ UNCHANGED <<mainVars, sig, burst, childVars, lobj, cut>>

-----------------------------------------------------------------------------

\* The worker has started and listens.
Init ==
  /\ rec = NewRecord /\ obj = NewRecord
  /\ dirty = {} /\ pc = "refresh" /\ sig = "none"
  /\ burst \in BOOLEAN
  /\ left = Jobs /\ job = NoJob
  /\ child = "none" /\ cobj = NewRecord /\ over = {}
  /\ listener = "listening" /\ lobj = NewRecord
  /\ undone = {} /\ cut = FALSE

MainStep ==
  \/ Refresh("refresh", "check") \/ CheckForSuspension \/ LookForRequest
  \/ Beat("listen", "pop") \/ (\E j \in Jobs : Pop(j)) \/ PopNothing
  \/ Beat("empty", "teardown") \/ Beat("popped", "handover")
  \/ GetBusy \/ Fork \/ NoteChild \/ Monitor \/ Reap \/ Settle \/ GetIdle
  \/ Refresh("after", "report") \/ Report
  \/ StopListening \/ Delete \/ End

ChildGoesOn ==
  SaveCopy("born", "prepare") \/ SaveCopy("prepare", "run") \/ File \/ Count
  \/ Exit

ListenerGoesOn ==
  Obey("suspend", TRUE) \/ Obey("resume", FALSE) \/ Rebuild \/ NoteRequest

Next ==
  \/ MainStep \/ ChildGoesOn \/ ListenerGoesOn \/ Handled
  \/ Signal \/ ForceStop \/ ChildDies
  \/ \E c \in {"suspend", "resume", "kill"} : Hear(c)

Spec == Init /\ [][Next]_vars

\* Programs run: the main thread, a handler, the child, a command that came.
FairSpec ==
  /\ Spec
  /\ WF_vars(MainStep) /\ WF_vars(Handled)
  /\ WF_vars(ChildGoesOn) /\ WF_vars(ListenerGoesOn)

-----------------------------------------------------------------------------
(* Properties *)

MainPcs == {"refresh", "check", "suspended", "look", "listen", "pop", "empty",
            "popped", "handover", "fork", "forked", "wait", "reaped",
            "settled", "after", "report", "teardown", "delete", "done",
            "gone"}

\* The types of the variables; from the pop to the end of the job the main
\* thread has a job in hand, and a child only while it waits, or after it left.
TypeOK ==
  /\ rec \in Records /\ obj \in Records /\ cobj \in Records /\ lobj \in Records
  /\ dirty \subseteq {"shutdown", "state"}
  /\ pc \in MainPcs /\ sig \in {"none", "handling", "handled"}
  /\ burst \in BOOLEAN /\ cut \in BOOLEAN
  /\ left \subseteq Jobs /\ job \in Jobs \cup {NoJob} /\ over \subseteq Jobs
  /\ child \in {"none", "born", "prepare", "run", "count", "exit",
             "ended", "died"}
  /\ listener \in {"listening", "suspend", "resume", "kill", "request",
                   "dead", "stopped"}
  /\ undone \subseteq {"suspended", "shutdown"}
  /\ pc \in {"popped", "handover", "fork", "forked", "wait", "reaped", "settled"}
       => job \in Jobs
  /\ child # "none" =>
       /\ job \in Jobs
       /\ pc \in {"forked", "wait", "reaped"} \cup Teardown \cup {"done", "gone"}

\* completed_jobs never counts a job twice, though parent and child may both
\* come to handle its end and each saves a count it has read earlier; it may
\* miss one, when the parent's heartbeat writes over the child's count.
CountedOnce ==
  \A copy \in {rec, obj, cobj, lobj} : copy.done <= Cardinality(over)

\* A worker that has gone has noted its death, and nobody writes the record as
\* a living one again: its child has ended, its listener has stopped.
LeavesNoRecord == pc = "gone" /\ ~cut => rec.dead /\ ~ChildAlive

\* A request to stop, from a signal or the command kill-worker, ends the worker
\* unless a copy of the record from before the request was saved over it; a
\* worker that is suspended sees only signals.
StopsOnRequest ==
  rec.shutdown ~> (pc \in {"gone", "suspended"} \/ "shutdown" \in undone)

\* So a suspension takes effect unless an old copy was saved over it, or the
\* work was resumed before it took effect.
SuspendsOnRequest ==
  rec.suspended ~>
    (pc \in {"gone", "suspended"} \/ "suspended" \in undone \/ ~rec.suspended)

\* "If shutdown is requested in the middle of a job, wait until finish before
\* shutting down" (request_stop): whatever dies and whoever gives commands, a
\* job that was popped comes to a recorded end before another is popped, and a
\* worker leaves with one in hand only because of a signal: one that is forced,
\* or one that found the state not busy - between the pop and execute_job, or
\* after kill-worker has written an old state.
FinishesItsJob ==
  /\ Jobs \ (left \cup over) \subseteq {job}
  /\ pc \in Teardown \cup {"done", "gone"} /\ job \notin over \cup {NoJob}
       => sig = "handled"

=============================================================================
