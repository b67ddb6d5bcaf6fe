---------------------------- MODULE JobLifecycle ----------------------------
(***************************************************************************)
(* What the queue promises about one job, as the docstring of JobStatus    *)
(* (redis_models/job.py) draws it:                                         *)
(*                                                                         *)
(*   scheduled -> queued -> (canceled                                      *)
(*                           | started -> (finished | failed | stopped))   *)
(*                                                                         *)
(* A job is created scheduled or queued, and its record disappears when    *)
(* its time to live ends.  JobQueue.tla is shown to implement this         *)
(* specification under the mapping that forgets everything but the status. *)
(***************************************************************************)

CONSTANTS
  Jobs,     \* names of jobs
  NoRecord, \* the value of a name that has no record in the broker
  Faulty    \* TRUE: a process executing a job may die before marking it started

VARIABLE status

Live == {"scheduled", "queued", "started"}
Ended == {"finished", "failed", "stopped", "canceled"}

Arrow ==
  {<<"scheduled", "queued">>, <<"queued", "canceled">>, <<"queued", "started">>}
    \cup {<<"started", e>> : e \in Ended \ {"canceled"}}

\* An executing process that dies before it wrote STARTED is reported failed
\* (or stopped) by its parent: the one transition the docstring leaves out.
EarlyDeath == {<<"queued", "failed">>, <<"queued", "stopped">>}

Init == status = [j \in Jobs |-> NoRecord]

Create(j) ==
  /\ status[j] = NoRecord
  /\ status' \in {[status EXCEPT ![j] = s] : s \in {"scheduled", "queued"}}

Advance(j) ==
  \E a \in Arrow \cup (IF Faulty THEN EarlyDeath ELSE {}) :
    /\ status[j] = a[1]
    /\ status' = [status EXCEPT ![j] = a[2]]

Forget(j) ==
  /\ status[j] \in Ended
  /\ status' = [status EXCEPT ![j] = NoRecord]

Next == \E j \in Jobs : Create(j) \/ Advance(j) \/ Forget(j)

Spec == Init /\ [][Next]_status
=============================================================================
