--------------------------- MODULE SchedulerLocks ---------------------------
(***************************************************************************)
(* The scheduler threads of the workers (worker/scheduler.py) and the      *)
(* broker locks (redis_models/lock.py) by which they share the queues: one *)
(* key per queue, SET NX with a time to live of interval + 60 seconds.     *)
(*                                                                         *)
(* Time is abstract: a lock may expire once no running thread renews it    *)
(* or, with the fault "stall", at any moment, because a pass took longer   *)
(* than the lock lives.  JobQueue.tla relies on what is shown here: but    *)
(* for such stalls, one thread at a time promotes the jobs of a queue.     *)
(***************************************************************************)
EXTENDS Integers, FiniteSets

CONSTANTS
  Queues,
  Workers,    \* worker processes with a scheduler
  Listens,    \* Listens[w]: the queues of worker w
  Burst,      \* workers started in burst mode
  NoOne,      \* a lock that nobody holds, a thread that serves no queue
  Faults,     \* which faults take place
  MaxFaults   \* bound: number of faults and of requests to stop

ASSUME SchedulerLocksAssumption ==
  /\ NoOne \notin Workers \cup Queues
  /\ Listens \in [Workers -> (SUBSET Queues) \ {{}}]
  /\ Burst \subseteq Workers
  /\ Faults \subseteq {"crash", "raise", "stall"}
  /\ MaxFaults \in Nat

VARIABLES
  lock,     \* who set the lock of each queue that has not expired
  locks,    \* _locks of each scheduler: the queues it has ever locked
  pc,       \* where each scheduler is; "main": it has no thread, "off": no process
  todo,     \* queues left in the loop the scheduler is in
  gained,   \* queues locked by the current _acquire_locks
  serving,  \* the queue whose due jobs the thread is moving
  status,   \* SchedulerStatus
  stopping, \* _stop_requested
  faults,   \* faults and stop requests so far
  stalled   \* auxiliary: queues whose lock has expired under a running thread

vars == <<lock, locks, pc, todo, gained, serving, status, stopping, faults, stalled>>

ThreadPcs == {"loop", "reacquire", "pass", "release"}
Pcs == {"off", "main", "start", "dead"} \cup ThreadPcs

\* A scheduler thread runs, or its worker is starting one.
Alive(w) == pc[w] \in ThreadPcs \cup {"start"}

At(w, from, to) ==
  /\ pc[w] = from
  /\ pc' = [pc EXCEPT ![w] = to]

\* The loop over the queues is over; the next one is over some other queues.
NextLoop(w, queues) ==
  /\ todo[w] = {}
  /\ todo' = [todo EXCEPT ![w] = queues]

Fault(kind) ==
  /\ kind \in Faults
  /\ faults < MaxFaults
  /\ faults' = faults + 1

\* Every worker has called Worker.bootstrap.
Init ==
  /\ lock = [q \in Queues |-> NoOne]
  /\ locks = [w \in Workers |-> {}]
  /\ pc = [w \in Workers |-> "start"]
  /\ todo = Listens
  /\ gained = [w \in Workers |-> {}]
  /\ serving = [w \in Workers |-> NoOne]
  /\ status = [w \in Workers |-> "stopped"]
  /\ stopping = {}
  /\ faults = 0
  /\ stalled = {}

\* Mutant: SET without NX.
TryLock_NoNx(w, q) ==
  /\ pc[w] \in {"start", "reacquire"} /\ q \in todo[w]
  /\ todo' = [todo EXCEPT ![w] = @ \ {q}]
  /\ lock' = [lock EXCEPT ![q] = w]
  /\ locks' = [locks EXCEPT ![w] = @ \cup {q}]
  /\ gained' = [gained EXCEPT ![w] = @ \cup {q}]
  /\ UNCHANGED <<pc, serving, status, stopping, faults, stalled>>

\* One round of the loop in _acquire_locks.  A lock that was lost stays in _locks.
TryLock(w, q) ==
  /\ pc[w] \in {"start", "reacquire"} /\ q \in todo[w]
  /\ todo' = [todo EXCEPT ![w] = @ \ {q}]
  /\ IF lock[q] = NoOne
     THEN /\ lock' = [lock EXCEPT ![q] = w]
          /\ locks' = [locks EXCEPT ![w] = @ \cup {q}]
          /\ gained' = [gained EXCEPT ![w] = @ \cup {q}]
     ELSE UNCHANGED <<lock, locks, gained>>
  /\ UNCHANGED <<pc, serving, status, stopping, faults, stalled>>

\* start: without a single lock no thread is started.
Started(w) ==
  /\ NextLoop(w, {})
  /\ gained' = [gained EXCEPT ![w] = {}]
  /\ IF gained[w] = {} THEN At(w, "start", "main") /\ UNCHANGED status
     ELSE At(w, "start", "loop") /\ status' = [status EXCEPT ![w] = "started"]
  /\ UNCHANGED <<lock, locks, serving, stopping, faults, stalled>>

\* The head of the loop in work(): stop, reacquire the locks (a fallback
\* period has passed), or begin a pass over the registries of all of _locks.
BeginStop(w) ==
  /\ w \in stopping
  /\ At(w, "loop", "release")
  /\ NextLoop(w, locks[w])
  /\ UNCHANGED <<lock, locks, gained, serving, status, stopping, faults, stalled>>

BeginReacquire(w) ==
  /\ w \notin stopping
  /\ At(w, "loop", "reacquire")
  /\ NextLoop(w, Listens[w])
  /\ UNCHANGED <<lock, locks, gained, serving, status, stopping, faults, stalled>>

\* Mutant: the pass goes over the queues of the worker, locked or not.
BeginPass_Unlocked(w) ==
  /\ \/ At(w, "loop", "pass") /\ w \notin stopping
     \/ At(w, "reacquire", "pass")
  /\ NextLoop(w, Listens[w])
  /\ gained' = [gained EXCEPT ![w] = {}]
  /\ status' = [status EXCEPT ![w] = "working"]
  /\ UNCHANGED <<lock, locks, serving, stopping, faults, stalled>>

BeginPass(w) ==
  /\ \/ At(w, "loop", "pass") /\ w \notin stopping
     \/ At(w, "reacquire", "pass")
  /\ NextLoop(w, locks[w])
  /\ gained' = [gained EXCEPT ![w] = {}]
  /\ status' = [status EXCEPT ![w] = "working"]
  /\ UNCHANGED <<lock, locks, serving, stopping, faults, stalled>>

\* enqueue_scheduled_jobs: from the reading of the due names of a queue to the
\* last push, without a look at the lock.
Serve(w, q) ==
  /\ pc[w] = "pass" /\ serving[w] = NoOne /\ q \in todo[w]
  /\ serving' = [serving EXCEPT ![w] = q]
  /\ UNCHANGED <<lock, locks, pc, todo, gained, status, stopping, faults, stalled>>

Served(w) ==
  /\ serving[w] # NoOne
  /\ todo' = [todo EXCEPT ![w] = @ \ {serving[w]}]
  /\ serving' = [serving EXCEPT ![w] = NoOne]
  /\ UNCHANGED <<lock, locks, pc, gained, status, stopping, faults, stalled>>

\* The pass is over: heartbeat renews the lock of every queue in _locks,
\* whoever holds it, and the thread sleeps.
Heartbeat(w) ==
  /\ At(w, "pass", "loop")
  /\ NextLoop(w, {})
  /\ status' = [status EXCEPT ![w] = "started"]
  /\ UNCHANGED <<lock, locks, gained, serving, stopping, faults, stalled>>

\* release_locks deletes the lock of every queue in _locks, whoever holds it.
Release(w, q) ==
  /\ pc[w] = "release" /\ q \in todo[w]
  /\ lock' = [lock EXCEPT ![q] = NoOne]
  /\ todo' = [todo EXCEPT ![w] = @ \ {q}]
  /\ UNCHANGED <<locks, pc, gained, serving, status, stopping, faults, stalled>>

Stopped(w) ==
  /\ At(w, "release", "main")
  /\ NextLoop(w, {})
  /\ status' = [status EXCEPT ![w] = "stopped"]
  /\ UNCHANGED <<lock, locks, gained, serving, stopping, faults, stalled>>

\* run_maintenance_tasks: a stopped scheduler is started again.
Restart(w) ==
  /\ status[w] = "stopped"
  /\ w \in stopping => w \in Burst
  /\ At(w, "main", "start")
  /\ NextLoop(w, Listens[w])
  /\ UNCHANGED <<lock, locks, gained, serving, status, stopping, faults, stalled>>

\* request_stop_and_wait, at a shutdown or in burst mode.
RequestStop(w) ==
  /\ pc[w] \notin {"off", "start"} /\ w \notin stopping
  /\ faults < MaxFaults /\ faults' = faults + 1
  /\ stopping' = stopping \cup {w}
  /\ UNCHANGED <<lock, locks, pc, todo, gained, serving, status, stalled>>

\* The worker process ends, its scheduler has stopped.
Exit(w) ==
  /\ w \in stopping
  /\ pc[w] \in {"main", "dead"}
  /\ pc' = [pc EXCEPT ![w] = "off"]
  /\ UNCHANGED <<lock, locks, todo, gained, serving, status, stopping, faults, stalled>>

\* A new process, with a new WorkerScheduler.
Boot(w) ==
  /\ pc[w] = "off"
  /\ pc' = [pc EXCEPT ![w] = "start"]
  /\ todo' = [todo EXCEPT ![w] = Listens[w]]
  /\ locks' = [locks EXCEPT ![w] = {}]
  /\ gained' = [gained EXCEPT ![w] = {}]
  /\ status' = [status EXCEPT ![w] = "stopped"]
  /\ stopping' = stopping \ {w}
  /\ UNCHANGED <<lock, serving, faults, stalled>>

\* An exception (the database, a record that is not whole) ends the thread and
\* leaves the status as it is.
Raise(w) ==
  /\ Fault("raise")
  /\ At(w, "pass", "dead")
  /\ serving' = [serving EXCEPT ![w] = NoOne]
  /\ todo' = [todo EXCEPT ![w] = {}]
  /\ UNCHANGED <<lock, locks, gained, status, stopping, stalled>>

Crash(w) ==
  /\ Fault("crash")
  /\ pc[w] # "off"
  /\ pc' = [pc EXCEPT ![w] = "off"]
  /\ serving' = [serving EXCEPT ![w] = NoOne]
  /\ UNCHANGED <<lock, locks, todo, gained, status, stopping, stalled>>

\* Mutant: the lock is set without a time to live.
Expire_NoTtl(q) == FALSE /\ UNCHANGED vars

\* The lock of q expires when no thread renews it.
Expire(q) ==
  /\ lock[q] # NoOne
  /\ \A w \in Workers : q \in locks[w] => ~Alive(w)
  /\ lock' = [lock EXCEPT ![q] = NoOne]
  /\ UNCHANGED <<locks, pc, todo, gained, serving, status, stopping, faults, stalled>>

\* It expires before a thread comes back to renew it.
Stall(q) ==
  /\ Fault("stall")
  /\ lock[q] # NoOne
  /\ lock' = [lock EXCEPT ![q] = NoOne]
  /\ stalled' = stalled \cup {q}
  /\ UNCHANGED <<locks, pc, todo, gained, serving, status, stopping>>

\* What a scheduler does by itself, the choice to reacquire apart.
GoesOn(w) ==
  \/ \E q \in Queues : TryLock(w, q) \/ Serve(w, q) \/ Release(w, q)
  \/ Started(w) \/ BeginStop(w) \/ BeginPass(w)
  \/ Served(w) \/ Heartbeat(w) \/ Stopped(w)

Next ==
  \/ \E w \in Workers : \/ GoesOn(w) \/ BeginReacquire(w) \/ Restart(w)
                        \/ RequestStop(w) \/ Exit(w) \/ Boot(w)
                        \/ Raise(w) \/ Crash(w)
  \/ \E q \in Queues : Expire(q) \/ Stall(q)

Spec == Init /\ [][Next]_vars

\* A thread goes on and reacquires its locks every fallback period, a worker
\* runs its maintenance every ten minutes, a lock expires; nobody promises to
\* start a worker again.
Fairness ==
  /\ \A w \in Workers : /\ WF_vars(GoesOn(w)) /\ WF_vars(Restart(w))
                        /\ SF_vars(BeginReacquire(w))
  /\ \A q \in Queues : WF_vars(Expire(q))

FairSpec == Spec /\ Fairness

-----------------------------------------------------------------------------
\* Every variable has its type, and a pass goes over queues that the scheduler
\* has locked (enqueue_scheduled_jobs iterates over _locks).
TypeOK ==
  /\ lock \in [Queues -> Workers \cup {NoOne}]
  /\ locks \in [Workers -> SUBSET Queues]
  /\ pc \in [Workers -> Pcs]
  /\ todo \in [Workers -> SUBSET Queues]
  /\ gained \in [Workers -> SUBSET Queues]
  /\ serving \in [Workers -> Queues \cup {NoOne}]
  /\ status \in [Workers -> {"stopped", "started", "working"}]
  /\ stopping \in SUBSET Workers
  /\ faults \in 0..MaxFaults
  /\ stalled \in SUBSET Queues
  /\ \A w \in Workers :
       /\ pc[w] = "pass" => todo[w] \subseteq locks[w]
       /\ serving[w] # NoOne => pc[w] = "pass" /\ serving[w] \in todo[w]

\* The due jobs of a queue are moved by one thread at a time (_acquire_locks,
\* enqueue_scheduled_jobs, release_locks), through crashes, exceptions, stops
\* and starts of workers, unless a pass has outlived the lock of that queue; no
\* burst worker starts its scheduler a second time.
OneScheduler ==
  \A v, w \in Workers :
    serving[v] = serving[w] /\ serving[v] \notin stalled \cup {NoOne} => v = w

\* A worker whose scheduler thread can be counted on.
Serves(w, q) == q \in Listens[w] /\ pc[w] \notin {"dead", "off"} /\ w \notin stopping

\* A queue is served again and again, as long as one of its workers runs, has
\* not lost its thread to an exception and is not told to stop: who fails, or
\* gives up its locks, does not keep the queue from the others.
AlwaysServedAgain ==
  \A q \in Queues :
    []<>((\E w \in Workers : serving[w] = q) \/ (\A w \in Workers : ~Serves(w, q)))
=============================================================================
