------------------------------ MODULE JobQueue ------------------------------
(***************************************************************************)
(* One queue of django-tasks-scheduler: the job records and the six        *)
(* registries it keeps in the broker (helpers/queues/queue_logic.py,       *)
(* redis_models/), the workers that execute jobs (worker/worker.py) and    *)
(* the callers of the queue: the scheduler threads (worker/scheduler.py),  *)
(* the admin views (views/), the maintenance of the registries.            *)
(*                                                                         *)
(* One action is one command, or one MULTI/EXEC pipeline, that reaches the *)
(* broker; every process may be overtaken between two of its commands.     *)
(* Time is abstract: a record with a time to live may vanish at any        *)
(* moment, and the deadline of an active job passes at any moment.         *)
(* The order in which queued jobs are served is left open here: the        *)
(* scores are the subject of QueueOrder.tla.  The worker's own record, with*)
(* its heartbeats, is left out but for stopped_job_name.                   *)
(***************************************************************************)
EXTENDS Integers

CONSTANTS
  Jobs,        \* names of jobs
  Workers,     \* worker processes that fork a child per job
  Callers,     \* threads that call the queue: web requests, schedulers, maintenance
  Schedulers,  \* the callers that are scheduler threads
  NoJob,       \* "no job" in a worker's or a caller's local state
  Ops,         \* which optional operations and faults take place
  SuccessTtl,  \* job.success_ttl: < 0 keep the record, 0 delete it now, > 0 expire it
  JobInfoTtl   \* job.job_info_ttl: 0 also means "do not file finished jobs"

OptionalOps == {"later", "cancel", "stop", "requeue", "delete", "clear", "count",
                "clean", "crash", "kill", "badresult"}

ASSUME JobQueueAssumption ==
  /\ NoJob \notin Jobs
  /\ Schedulers \subseteq Callers
  /\ Ops \subseteq OptionalOps
  /\ SuccessTtl \in Int /\ JobInfoTtl \in Int

VARIABLES
  status,    \* the status field of each job's hash, "none" when there is no hash
  whole,     \* jobs whose hash has every field, so that JobModel.get succeeds
  expiring,  \* jobs whose hash has a time to live
  reg,       \* the six registries: the set of names in each
  overdue,   \* for a job in "active": 0 in time, 1 past its score, 2 a timeout later
  pc,        \* where each worker is
  holds,     \* the job each worker is busy with
  verdict,   \* the in-memory status of that job once it has run
  child,     \* workers whose job execution process is alive
  stopFlag,  \* stopped_job_name in each worker's record
  killing,   \* workers whose child is about to be signalled by stop-job
  cpc,       \* where each caller is
  cjob,      \* the job a caller is in the middle of
  batch,     \* the jobs a caller has read and not handled yet
  late,      \* the active jobs a maintenance pass found past their score
  carg       \* the new status of a cancellation, the registry of a clearing

broker == <<status, whole, expiring, reg, overdue>>
workerVars == <<pc, holds, verdict, child, stopFlag, killing>>
callerVars == <<cpc, cjob, batch, late, carg>>
vars == <<broker, workerVars, callerVars>>

Statuses == {"scheduled", "queued", "started", "finished", "failed", "stopped", "canceled"}
Registries == {"queued", "scheduled", "active", "finished", "failed", "canceled"}

\* From the fork until the child's last write.
ExecutingPcs == {"forked", "loaded", "activated", "started", "running", "returned"}
FilingPcs == {"unregister", "register", "record", "recorded"}
WorkerPcs == {"idle", "popped", "dead", "reap"} \cup ExecutingPcs \cup FilingPcs

EnqueuePcs == {"enqueue", "push"}
CleanPcs == {"clean", "c-unregister", "c-register", "c-record", "sweep"}
CallerPcs == {"idle", "dead", "place", "cancel", "file", "clear"} \cup EnqueuePcs \cup CleanPcs

-----------------------------------------------------------------------------
(* The broker: hashes and sorted sets.                                     *)

Exists(j) == status[j] # "none"

\* HSET of some fields, status among them, on a hash that may have vanished:
\* the key keeps its time to live, a new key is partial and has none.
WriteFields(j, s) ==
  /\ status' = [status EXCEPT ![j] = s]
  /\ UNCHANGED <<whole, expiring>>

\* HashModel.save(save_all=True): every field is written.
WriteAll(j, s) ==
  /\ status' = [status EXCEPT ![j] = s]
  /\ whole' = whole \cup {j}
  /\ UNCHANGED expiring

DropHash(j) ==
  /\ status' = [status EXCEPT ![j] = "none"]
  /\ whole' = whole \ {j}
  /\ expiring' = expiring \ {j}

\* JobModel.expire
ExpireHash(j, ttl) ==
  \/ ttl = 0 /\ DropHash(j)
  \/ /\ ttl > 0
     /\ expiring' = IF Exists(j) THEN expiring \cup {j} ELSE expiring
     /\ UNCHANGED <<status, whole>>
  \/ ttl < 0 /\ UNCHANGED <<status, whole, expiring>>

\* zadd to some registries and zrem from others, in one pipeline.
Refile(j, from, to) ==
  reg' = [r \in Registries |-> IF r \in to THEN reg[r] \cup {j}
                               ELSE IF r \in from THEN reg[r] \ {j} ELSE reg[r]]

Overdue == {j \in reg["active"] : overdue[j] > 0}

\* ZSetModel.cleanup: entries whose score has passed, the active ones given.  A
\* finished or failed entry lives for its own time to live, over or not.
Cleanup(expired) ==
  \E agedFinished \in SUBSET reg["finished"], agedFailed \in SUBSET reg["failed"] :
    reg' = [reg EXCEPT !["active"] = @ \ expired,
                       !["finished"] = @ \ agedFinished,
                       !["failed"] = @ \ agedFailed]

\* JobNamesRegistry.all: this registry is cleaned up, its other names are read.
ReadRegistry(r, names) ==
  /\ names \subseteq reg[r]
  /\ CASE r = "active" -> names = reg[r] \ Overdue
       [] r \in {"finished", "failed"} -> TRUE
       [] OTHER -> names = reg[r]
  /\ reg' = [reg EXCEPT ![r] = names]

\* QueuedJobRegistry.compact
WithoutDead(names) == {j \in names : Exists(j)}

HashExpires(j) ==
  /\ j \in expiring
  /\ DropHash(j)
  /\ UNCHANGED <<reg, overdue, workerVars, callerVars>>

DeadlinePasses(j) ==
  /\ j \in reg["active"] /\ overdue[j] < 2
  /\ overdue' = [overdue EXCEPT ![j] = @ + 1]
  /\ UNCHANGED <<status, whole, expiring, reg, workerVars, callerVars>>

-----------------------------------------------------------------------------
Init ==
  /\ status = [j \in Jobs |-> "none"]
  /\ whole = {} /\ expiring = {}
  /\ reg = [r \in Registries |-> {}]
  /\ overdue = [j \in Jobs |-> 0]
  /\ pc = [w \in Workers |-> "idle"]
  /\ holds = [w \in Workers |-> NoJob]
  /\ verdict = [w \in Workers |-> "none"]
  /\ child = {} /\ killing = {}
  /\ stopFlag = [w \in Workers |-> NoJob]
  /\ cpc = [c \in Callers |-> "idle"]
  /\ cjob = [c \in Callers |-> NoJob]
  /\ batch = [c \in Callers |-> {}]
  /\ late = [c \in Callers |-> {}]
  /\ carg = [c \in Callers |-> "none"]

-----------------------------------------------------------------------------
(* Callers: creating, scheduling and enqueueing jobs.                      *)

CallerAt(c, from, to) ==
  /\ cpc[c] = from
  /\ cpc' = [cpc EXCEPT ![c] = to]

\* Where a caller goes when it has dealt with job j of its batch.
AfterBatch(c, again) == IF batch[c] = {} THEN "idle" ELSE again

\* Job names carry a time stamp: a new job has a name nothing refers to.
Fresh(j) ==
  /\ ~Exists(j)
  /\ \A r \in Registries : j \notin reg[r]
  /\ \A w \in Workers : j \notin {holds[w], stopFlag[w]}
  /\ \A c \in Callers : j \notin batch[c] \cup {cjob[c]}

\* create_and_enqueue_job(when=None): the record first, then enqueue_job.
CreateNow(c, j) ==
  /\ c \notin Schedulers /\ Fresh(j)
  /\ CallerAt(c, "idle", "enqueue")
  /\ WriteAll(j, "queued")
  /\ batch' = [batch EXCEPT ![c] = {j}]
  /\ UNCHANGED <<reg, overdue, workerVars, cjob, late, carg>>

\* create_and_enqueue_job(when=<datetime>): the record first ...
CreateLater(c, j) ==
  /\ "later" \in Ops /\ Fresh(j)
  /\ CallerAt(c, "idle", "place")
  /\ WriteAll(j, "scheduled")
  /\ cjob' = [cjob EXCEPT ![c] = j]
  /\ UNCHANGED <<reg, overdue, workerVars, batch, late, carg>>

\* Mutant: the registry is never written.
Place_NoZadd(c) ==
  /\ CallerAt(c, "place", "idle")
  /\ cjob' = [cjob EXCEPT ![c] = NoJob]
  /\ UNCHANGED <<broker, workerVars, batch, late, carg>>

\* ... then the scheduled registry.
Place(c) ==
  /\ CallerAt(c, "place", "idle")
  /\ Refile(cjob[c], {}, {"scheduled"})
  /\ cjob' = [cjob EXCEPT ![c] = NoJob]
  /\ UNCHANGED <<status, whole, expiring, overdue, workerVars, batch, late, carg>>

\* enqueue_scheduled_jobs: the names that are due and a snapshot of their
\* records; names without a record are skipped, a record that is not whole
\* makes get_many raise and ends the scheduler thread.
Collect(c) ==
  /\ c \in Schedulers
  /\ \E due \in (SUBSET reg["scheduled"]) \ {{}} :
       IF \E j \in due : Exists(j) /\ j \notin whole
       THEN CallerAt(c, "idle", "dead") /\ UNCHANGED batch
       ELSE /\ due \cap whole # {}
            /\ CallerAt(c, "idle", "enqueue")
            /\ batch' = [batch EXCEPT ![c] = due \cap whole]
  /\ UNCHANGED <<broker, workerVars, cjob, late, carg>>

\* _enqueue_multiple_jobs, for all the names of a registry or some selected
\* ones; get_many raises on a record that is not whole.
Requeue(c) ==
  /\ "requeue" \in Ops /\ c \notin Schedulers
  /\ \E r \in Registries, chosen \in SUBSET Jobs :
       /\ \/ ReadRegistry(r, chosen)
          \/ chosen \subseteq reg[r] /\ UNCHANGED reg
       /\ chosen \cap whole # {}
       /\ \A j \in chosen : Exists(j) => j \in whole
       /\ batch' = [batch EXCEPT ![c] = chosen \cap whole]
  /\ CallerAt(c, "idle", "enqueue")
  /\ UNCHANGED <<status, whole, expiring, overdue, workerVars, cjob, late, carg>>

\* job_action(ENQUEUE): delete_job(expire_job_model=False), then enqueue_job
\* of the record read before.
EnqueueAgain(c, j) ==
  /\ "requeue" \in Ops /\ c \notin Schedulers /\ j \in whole
  /\ CallerAt(c, "idle", "enqueue")
  /\ Refile(j, Registries, {})
  /\ batch' = [batch EXCEPT ![c] = {j}]
  /\ UNCHANGED <<status, whole, expiring, overdue, workerVars, cjob, late, carg>>

\* enqueue_job: the status is saved at once ...
SaveQueued(c, j) ==
  /\ j \in batch[c]
  /\ CallerAt(c, "enqueue", "push")
  /\ WriteFields(j, "queued")
  /\ cjob' = [cjob EXCEPT ![c] = j]
  /\ batch' = [batch EXCEPT ![c] = @ \ {j}]
  /\ UNCHANGED <<reg, overdue, workerVars, late, carg>>

\* Mutant: the entry in the scheduled registry stays.
Push_KeepsScheduled(c) ==
  /\ CallerAt(c, "push", AfterBatch(c, "enqueue"))
  /\ Refile(cjob[c], {}, {"queued"})
  /\ cjob' = [cjob EXCEPT ![c] = NoJob]
  /\ UNCHANGED <<status, whole, expiring, overdue, workerVars, batch, late, carg>>

\* Mutant: the pipeline is executed without the zadd.
Push_NoZadd(c) ==
  /\ CallerAt(c, "push", AfterBatch(c, "enqueue"))
  /\ Refile(cjob[c], {"scheduled"}, {})
  /\ cjob' = [cjob EXCEPT ![c] = NoJob]
  /\ UNCHANGED <<status, whole, expiring, overdue, workerVars, batch, late, carg>>

\* ... and the registries change when the pipeline is executed.
Push(c) ==
  /\ CallerAt(c, "push", AfterBatch(c, "enqueue"))
  /\ Refile(cjob[c], {"scheduled"}, {"queued"})
  /\ cjob' = [cjob EXCEPT ![c] = NoJob]
  /\ UNCHANGED <<status, whole, expiring, overdue, workerVars, batch, late, carg>>

-----------------------------------------------------------------------------
(* Callers: cancelling, deleting, clearing, looking.                       *)

\* cancel_job: the new status is chosen from the record as read here ...
ReadForCancel(c, j) ==
  /\ "cancel" \in Ops /\ c \notin Schedulers
  /\ j \in whole /\ status[j] # "canceled"
  /\ CallerAt(c, "idle", "cancel")
  /\ cjob' = [cjob EXCEPT ![c] = j]
  /\ carg' = [carg EXCEPT ![c] = IF status[j] = "queued" THEN "canceled" ELSE "stopped"]
  /\ UNCHANGED <<broker, workerVars, batch, late>>

\* ... written in one pipeline with the removals, "failed" excepted ...
CancelAndRemove(c) ==
  /\ CallerAt(c, "cancel", "file")
  /\ WriteFields(cjob[c], carg[c])
  /\ Refile(cjob[c], Registries \ {"failed"}, {})
  /\ UNCHANGED <<overdue, workerVars, cjob, batch, late, carg>>

\* ... and filed in a second one.
FileCanceled(c) ==
  /\ CallerAt(c, "file", "idle")
  /\ Refile(cjob[c], {}, {IF carg[c] = "canceled" THEN "canceled" ELSE "finished"})
  /\ cjob' = [cjob EXCEPT ![c] = NoJob]
  /\ carg' = [carg EXCEPT ![c] = "none"]
  /\ UNCHANGED <<status, whole, expiring, overdue, workerVars, batch, late>>

\* delete_job, also for the names in the failed registry that have no record.
DeleteJob(c, j) ==
  /\ "delete" \in Ops /\ c \notin Schedulers /\ cpc[c] = "idle"
  /\ j \in whole \/ (j \in reg["failed"] /\ ~Exists(j))
  /\ Refile(j, Registries, {})
  /\ IF j \in whole THEN ExpireHash(j, JobInfoTtl) ELSE UNCHANGED <<status, whole, expiring>>
  /\ UNCHANGED <<overdue, workerVars, callerVars>>

\* _clear_registry: registry.all() first, then name by name.
StartClear(c) ==
  /\ "clear" \in Ops /\ c \notin Schedulers
  /\ CallerAt(c, "idle", "clear")
  /\ \E r \in Registries, names \in (SUBSET Jobs) \ {{}} :
       /\ ReadRegistry(r, names)
       /\ batch' = [batch EXCEPT ![c] = names]
       /\ carg' = [carg EXCEPT ![c] = r]
  /\ UNCHANGED <<status, whole, expiring, overdue, workerVars, cjob, late>>

ClearName(c, j) ==
  /\ j \in batch[c]
  /\ CallerAt(c, "clear", IF batch[c] = {j} THEN "idle" ELSE "clear")
  /\ Refile(j, {carg[c]}, {})
  /\ IF j \in whole THEN DropHash(j) ELSE UNCHANGED <<status, whole, expiring>>
  /\ batch' = [batch EXCEPT ![c] = @ \ {j}]
  /\ carg' = [carg EXCEPT ![c] = IF batch[c] = {j} THEN "none" ELSE @]
  /\ UNCHANGED <<overdue, workerVars, cjob, late>>

\* Queue.count, get_all_job_names, the statistics page: reading cleans up.
Count(c) ==
  /\ "count" \in Ops /\ cpc[c] = "idle" /\ c \notin Schedulers
  /\ Cleanup(Overdue)
  /\ UNCHANGED <<status, whole, expiring, overdue, workerVars, callerVars>>

\* The page of a registry cleans it up, then forgets the names without a record.
ListRegistry(c) ==
  /\ "count" \in Ops /\ cpc[c] = "idle" /\ c \notin Schedulers
  /\ \E r \in Registries :
       reg' = [reg EXCEPT ![r] = WithoutDead(@ \ (IF r = "active" THEN Overdue ELSE {}))]
  /\ UNCHANGED <<status, whole, expiring, overdue, workerVars, callerVars>>

\* clean_registries, by a worker's maintenance or a page: the queue is
\* compacted (all there is to do when no job is abandoned: see Compact), the
\* abandoned jobs are read; an entry counts as abandoned one timeout after its score.
StartClean(c) ==
  /\ "clean" \in Ops /\ c \notin Schedulers
  /\ CallerAt(c, "idle", "clean")
  /\ reg' = [reg EXCEPT !["queued"] = WithoutDead(@)]
  /\ batch' = [batch EXCEPT ![c] = {j \in reg["active"] : overdue[j] = 2}]
  /\ batch'[c] # {}
  /\ late' = [late EXCEPT ![c] = Overdue]
  /\ UNCHANGED <<status, whole, expiring, overdue, workerVars, cjob, carg>>

\* A name without a record is skipped; the failure callback of the others runs.
TakeAbandoned(c, j) ==
  /\ j \in batch[c]
  /\ batch' = [batch EXCEPT ![c] = @ \ {j}]
  /\ IF j \in whole
     THEN /\ CallerAt(c, "clean", "c-unregister")
          /\ cjob' = [cjob EXCEPT ![c] = j]
          /\ UNCHANGED late
     ELSE /\ CallerAt(c, "clean", IF batch[c] = {j} THEN "idle" ELSE "clean")
          /\ late' = [late EXCEPT ![c] = IF batch[c] = {j} THEN {} ELSE @]
          /\ UNCHANGED cjob
  /\ UNCHANGED <<broker, workerVars, carg>>

CleanUnregister(c) ==
  /\ CallerAt(c, "c-unregister", "c-register")
  /\ Refile(cjob[c], {"active"}, {})
  /\ UNCHANGED <<status, whole, expiring, overdue, workerVars, cjob, batch, late, carg>>

CleanRegister(c) ==
  /\ CallerAt(c, "c-register", "c-record")
  /\ Refile(cjob[c], {}, {"failed"})
  /\ UNCHANGED <<status, whole, expiring, overdue, workerVars, cjob, batch, late, carg>>

CleanRecord(c) ==
  /\ CallerAt(c, "c-record", "sweep")
  /\ WriteFields(cjob[c], "failed")
  /\ UNCHANGED <<reg, overdue, workerVars, cjob, batch, late, carg>>

\* Inside the loop over the abandoned jobs: every registry is cleaned up, as of
\* the time the pass began.
Sweep(c) ==
  /\ CallerAt(c, "sweep", AfterBatch(c, "clean"))
  /\ Cleanup(Overdue \cap late[c])
  /\ cjob' = [cjob EXCEPT ![c] = NoJob]
  /\ late' = [late EXCEPT ![c] = IF batch[c] = {} THEN {} ELSE @]
  /\ UNCHANGED <<status, whole, expiring, overdue, workerVars, batch, carg>>

-----------------------------------------------------------------------------
(* Workers.                                                                *)

WorkerAt(w, from, to) ==
  /\ pc[w] = from
  /\ pc' = [pc EXCEPT ![w] = to]

\* Mutant: the request to signal the child survives it.
LetGo_KeepsKilling(w) ==
  /\ holds' = [holds EXCEPT ![w] = NoJob]
  /\ verdict' = [verdict EXCEPT ![w] = "none"]
  /\ child' = child \ {w}
  /\ UNCHANGED <<killing, stopFlag>>

\* The worker is done with its job; its child, if any, has exited.
LetGo(w) ==
  /\ holds' = [holds EXCEPT ![w] = NoJob]
  /\ verdict' = [verdict EXCEPT ![w] = "none"]
  /\ child' = child \ {w}
  /\ killing' = killing \ {w}
  /\ UNCHANGED stopFlag

\* dequeue_any and clean_registries compact the queue first.
Compact(w) ==
  /\ pc[w] = "idle"
  /\ WithoutDead(reg["queued"]) # reg["queued"]
  /\ reg' = [reg EXCEPT !["queued"] = WithoutDead(@)]
  /\ UNCHANGED <<status, whole, expiring, overdue, workerVars, callerVars>>

\* Mutant: the name is read (zrange) and not popped.
Pop_Peeks(w, j) ==
  /\ j \in reg["queued"]
  /\ WorkerAt(w, "idle", "popped")
  /\ holds' = [holds EXCEPT ![w] = j]
  /\ UNCHANGED <<broker, verdict, child, stopFlag, killing, callerVars>>

\* zpopmin: from here to Activate the job is in no registry.
Pop(w, j) ==
  /\ j \in reg["queued"]
  /\ WorkerAt(w, "idle", "popped")
  /\ Refile(j, {"queued"}, {})
  /\ holds' = [holds EXCEPT ![w] = j]
  /\ UNCHANGED <<status, whole, expiring, overdue, verdict, child, stopFlag, killing, callerVars>>

\* dequeue_any: a name without a usable record is dropped and the loop goes on.
DropUnreadable(w) ==
  /\ WorkerAt(w, "popped", "idle")
  /\ holds[w] \notin whole
  /\ LetGo(w)
  /\ UNCHANGED <<broker, callerVars>>

Fork(w) ==
  /\ WorkerAt(w, "popped", "forked")
  /\ holds[w] \in whole
  /\ child' = child \cup {w}
  /\ UNCHANGED <<broker, holds, verdict, stopFlag, killing, callerVars>>

\* The child reads the record again; without one it exits with code 1.
Load(w) ==
  /\ IF holds[w] \in whole
     THEN WorkerAt(w, "forked", "loaded") /\ UNCHANGED child
     ELSE WorkerAt(w, "forked", "reap") /\ child' = child \ {w}
  /\ UNCHANGED <<broker, holds, verdict, stopFlag, killing, callerVars>>

\* prepare_for_execution: the active registry, then the record.
Activate(w) ==
  /\ WorkerAt(w, "loaded", "activated")
  /\ Refile(holds[w], {}, {"active"})
  /\ overdue' = [overdue EXCEPT ![holds[w]] = 0]
  /\ UNCHANGED <<status, whole, expiring, holds, verdict, child, stopFlag, killing, callerVars>>

MarkStarted(w) ==
  /\ WorkerAt(w, "activated", "started")
  /\ WriteFields(holds[w], "started")
  /\ UNCHANGED <<reg, overdue, holds, verdict, child, stopFlag, killing, callerVars>>

\* queue_perform_job: PERSIST, then the function is called.
Begin(w) ==
  /\ WorkerAt(w, "started", "running")
  /\ expiring' = expiring \ {holds[w]}
  /\ UNCHANGED <<status, whole, reg, overdue, holds, verdict, child, stopFlag, killing, callerVars>>

\* Mutant: the child saves the status it read before it marked the job started.
Return_StaleStatus(w) ==
  /\ WorkerAt(w, "running", "returned")
  /\ WriteAll(holds[w], "queued")
  /\ UNCHANGED <<reg, overdue, holds, verdict, child, stopFlag, killing, callerVars>>

\* The function returned: save(save_all=True) writes the record as the child
\* knows it, status STARTED included.
Return(w) ==
  /\ WorkerAt(w, "running", "returned")
  /\ WriteAll(holds[w], "started")
  /\ UNCHANGED <<reg, overdue, holds, verdict, child, stopFlag, killing, callerVars>>

\* handle_job_success, after the success callback.
Succeed(w) ==
  /\ WorkerAt(w, "returned", "unregister")
  /\ verdict' = [verdict EXCEPT ![w] = "finished"]
  /\ UNCHANGED <<broker, holds, child, stopFlag, killing, callerVars>>

\* handle_job_failure: the status depends on stopped_job_name.
Fail(w, from) ==
  /\ WorkerAt(w, from, "unregister")
  /\ verdict' = [verdict EXCEPT ![w] = IF stopFlag[w] = holds[w] THEN "stopped" ELSE "failed"]
  /\ UNCHANGED <<broker, holds, child, stopFlag, killing, callerVars>>

\* The function or a callback raised, or the death penalty struck.
Raise(w) == Fail(w, "running") \/ Fail(w, "returned")

\* after_execution in three commands: zrem, zadd, save.
Unregister(w) ==
  /\ WorkerAt(w, "unregister", "register")
  /\ Refile(holds[w], {"active"}, {})
  /\ UNCHANGED <<status, whole, expiring, overdue, holds, verdict, child, stopFlag, killing, callerVars>>

Register(w) ==
  /\ WorkerAt(w, "register", "record")
  /\ IF verdict[w] = "finished" /\ JobInfoTtl = 0 THEN UNCHANGED reg
     ELSE Refile(holds[w], {}, {IF verdict[w] = "finished" THEN "finished" ELSE "failed"})
  /\ UNCHANGED <<status, whole, expiring, overdue, holds, verdict, child, stopFlag, killing, callerVars>>

Record(w) ==
  /\ WorkerAt(w, "record", "recorded")
  /\ WriteFields(holds[w], verdict[w])
  /\ UNCHANGED <<reg, overdue, holds, verdict, child, stopFlag, killing, callerVars>>

\* Result.create raises on a return value that is a dict json cannot write.
ResultRaises(w) ==
  /\ "badresult" \in Ops
  /\ verdict[w] = "finished"
  /\ Fail(w, "recorded")

\* The result is saved, a success expires the record, the child exits with 0.
Complete(w) ==
  /\ WorkerAt(w, "recorded", "idle")
  /\ IF verdict[w] = "finished" THEN ExpireHash(holds[w], SuccessTtl)
                                ELSE UNCHANGED <<status, whole, expiring>>
  /\ LetGo(w)
  /\ UNCHANGED <<reg, overdue, callerVars>>

\* StopJobCommand, in the listener thread: stopped_job_name first ...
MarkStop(w) ==
  /\ "stop" \in Ops
  /\ w \in child /\ w \notin killing
  /\ pc[w] \in (ExecutingPcs \cup FilingPcs) \ {"forked"}
  /\ holds[w] \in whole
  /\ stopFlag' = [stopFlag EXCEPT ![w] = holds[w]]
  /\ killing' = killing \cup {w}
  /\ UNCHANGED <<broker, pc, holds, verdict, child, callerVars>>

\* The child dies of a signal: the parent's waitpid returns.
ChildDies(w) ==
  /\ w \in child
  /\ pc' = [pc EXCEPT ![w] = "reap"]
  /\ verdict' = [verdict EXCEPT ![w] = "none"]
  /\ child' = child \ {w}
  /\ killing' = killing \ {w}
  /\ UNCHANGED <<broker, holds, stopFlag, callerVars>>

\* ... then the signal.
SignalStop(w) == w \in killing /\ ChildDies(w)

\* Killed from outside (out of memory, operator).
KillChild(w) == "kill" \in Ops /\ ChildDies(w)

\* monitor_job_execution_process after an abnormal exit.
ReapNothing(w) ==
  /\ WorkerAt(w, "reap", "idle")
  /\ \/ ~Exists(holds[w])
     \/ stopFlag[w] # holds[w] /\ status[holds[w]] \in {"finished", "failed"}
  /\ LetGo(w)
  /\ UNCHANGED <<broker, callerVars>>

\* Mutant: the parent fails the job whatever the child had recorded.
ReapFailure_Always(w) == Fail(w, "reap") /\ Exists(holds[w])

ReapFailure(w) ==
  /\ Fail(w, "reap")
  /\ Exists(holds[w])
  /\ stopFlag[w] = holds[w] \/ status[holds[w]] \notin {"finished", "failed"}

\* The host of the worker and its child goes down; a new worker takes its place.
Crash(w) ==
  /\ "crash" \in Ops
  /\ pc[w] # "dead"
  /\ pc' = [pc EXCEPT ![w] = "dead"]
  /\ holds' = [holds EXCEPT ![w] = NoJob]
  /\ verdict' = [verdict EXCEPT ![w] = "none"]
  /\ child' = child \ {w} /\ killing' = killing \ {w}
  /\ stopFlag' = [stopFlag EXCEPT ![w] = NoJob]
  /\ UNCHANGED <<broker, callerVars>>

Restart(w) ==
  /\ WorkerAt(w, "dead", "idle")
  /\ UNCHANGED <<broker, holds, verdict, child, stopFlag, killing, callerVars>>

-----------------------------------------------------------------------------
CallerStarts(c) ==
  \/ \E j \in Jobs : CreateNow(c, j) \/ CreateLater(c, j)
  \/ Requeue(c) \/ \E j \in Jobs : EnqueueAgain(c, j)
  \/ \E j \in Jobs : ReadForCancel(c, j) \/ DeleteJob(c, j)
  \/ StartClear(c) \/ Count(c) \/ ListRegistry(c) \/ StartClean(c)

\* What a caller does once it has begun.
CallerGoesOn(c) ==
  \/ Place(c) \/ Push(c) \/ CancelAndRemove(c) \/ FileCanceled(c)
  \/ \E j \in Jobs : SaveQueued(c, j) \/ ClearName(c, j) \/ TakeAbandoned(c, j)
  \/ CleanUnregister(c) \/ CleanRegister(c) \/ CleanRecord(c) \/ Sweep(c)

\* What a worker that holds a job does by itself.
WorkerGoesOn(w) ==
  \/ DropUnreadable(w) \/ Fork(w) \/ Load(w) \/ Activate(w) \/ MarkStarted(w)
  \/ Begin(w) \/ Return(w) \/ Raise(w) \/ Succeed(w)
  \/ Unregister(w) \/ Register(w) \/ Record(w) \/ Complete(w)
  \/ ReapNothing(w) \/ ReapFailure(w) \/ SignalStop(w)

WorkerFaults(w) == MarkStop(w) \/ KillChild(w) \/ ResultRaises(w) \/ Crash(w)

Next ==
  \/ \E j \in Jobs : HashExpires(j) \/ DeadlinePasses(j)
  \/ \E c \in Callers : CallerStarts(c) \/ Collect(c) \/ CallerGoesOn(c)
  \/ \E w \in Workers :
       \/ Compact(w) \/ \E j \in Jobs : Pop(w, j)
       \/ WorkerGoesOn(w) \/ WorkerFaults(w) \/ Restart(w)

Spec == Init /\ [][Next]_vars

\* A started call goes on; a worker with a job goes on (a function returns,
\* raises, or is ended by the death penalty); every scheduler pass takes all
\* the names that are due, and the pop takes the lowest score, so that no due
\* and no queued job is passed over for ever; records do expire.
Fairness ==
  /\ \A c \in Callers : WF_vars(CallerGoesOn(c))
  /\ \A w \in Workers : WF_vars(WorkerGoesOn(w)) /\ WF_vars(Restart(w))
  /\ \A j \in Jobs : SF_vars(\E w \in Workers : Pop(w, j))
  /\ \A j \in Jobs : SF_vars(\E c \in Schedulers : Collect(c) /\ j \in batch'[c])
  /\ \A j \in Jobs : WF_vars(DeadlinePasses(j))
  /\ \A c \in Callers : SF_vars(StartClean(c))

FairSpec == Spec /\ Fairness

-----------------------------------------------------------------------------
(* Properties.                                                             *)

\* Every variable has its type, and only a living child is about to be signalled
\* (the requests StopJobCommand leaves in worker.py).
TypeOK ==
  /\ status \in [Jobs -> Statuses \cup {"none"}]
  /\ whole \in SUBSET Jobs /\ expiring \in SUBSET Jobs
  /\ reg \in [Registries -> SUBSET Jobs]
  /\ overdue \in [Jobs -> 0..2]
  /\ pc \in [Workers -> WorkerPcs]
  /\ holds \in [Workers -> Jobs \cup {NoJob}]
  /\ verdict \in [Workers -> {"none", "finished", "failed", "stopped"}]
  /\ child \in SUBSET Workers /\ killing \in SUBSET child
  /\ stopFlag \in [Workers -> Jobs \cup {NoJob}]
  /\ cpc \in [Callers -> CallerPcs]
  /\ cjob \in [Callers -> Jobs \cup {NoJob}]
  /\ batch \in [Callers -> SUBSET Jobs]
  /\ late \in [Callers -> SUBSET Jobs]
  /\ carg \in [Callers -> Statuses \cup Registries \cup {"none"}]

\* A caller that will still put job j into "queued" or "scheduled".
Pending(c, j) ==
  \/ cpc[c] \in EnqueuePcs /\ j \in batch[c]
  \/ cpc[c] \in {"push", "place"} /\ j = cjob[c]

\* A job popped from the queue belongs to one worker, however the commands of
\* workers, callers and the scheduler interleave (dequeue_any, enqueue_job).
\* It needs that nobody enqueues a job that is not his: neither "requeue" nor
\* a second scheduler thread on the same queue.
SingleRunner ==
  \A v, w \in Workers : holds[v] = holds[w] /\ holds[v] # NoJob => v = w

\* A job that has not ended is never lost track of between two commands: a
\* registry, a worker or a caller still has it (queue_logic.py, worker.py).
NoLostJob ==
  \A j \in Jobs :
    j \in whole \ expiring /\ status[j] \in {"scheduled", "queued", "started"} =>
      \/ \E r \in Registries : j \in reg[r]
      \/ \E w \in Workers : holds[w] = j
      \/ \E c \in Callers : Pending(c, j) \/ cjob[c] = j

\* Nobody is in the middle of an operation on job j.
AtRest(j) ==
  /\ \A w \in Workers : holds[w] # j
  /\ \A c \in Callers : j \notin batch[c] \cup {cjob[c]}

Home(s) ==
  CASE s = "scheduled" -> "scheduled" [] s = "queued" -> "queued"
    [] s = "started" -> "active"      [] s = "finished" -> "finished"
    [] s \in {"failed", "stopped"} -> "failed" [] s = "canceled" -> "canceled"

\* When nobody is busy with it, a job is in exactly one registry, the one the
\* documentation of the queue gives for its status (docs/index.md:94-99).
FiledOnce ==
  \A j \in Jobs :
    AtRest(j) /\ j \in whole => {r \in Registries : j \in reg[r]} = {Home(status[j])}

\* An enqueued job is eventually executed to an end, or its record is gone.
Served == \A j \in Jobs : status[j] = "queued" ~> status[j] \notin {"queued", "started"}

\* A scheduled job is eventually enqueued.
Promoted == \A j \in Jobs : status[j] = "scheduled" ~> status[j] # "scheduled"

\* A job whose worker crashed after it became active reaches the failed
\* registry (clean_registries: "Remove abandoned jobs from registry and add
\* them to FailedJobRegistry").
AbandonedReported ==
  \A j \in Jobs :
    j \in reg["active"] /\ overdue[j] = 2 /\ AtRest(j) /\ j \in whole ~> j \in reg["failed"]

Lifecycle == INSTANCE JobLifecycle WITH NoRecord <- "none", Faulty <- FALSE
FaultyLifecycle == INSTANCE JobLifecycle WITH NoRecord <- "none", Faulty <- TRUE

\* The statuses of a job follow the arrows of the docstring of JobStatus.
FollowsLifecycle == Lifecycle!Spec

\* The same, when a process executing a job may die before it marked it started.
FollowsFaultyLifecycle == FaultyLifecycle!Spec
=============================================================================
