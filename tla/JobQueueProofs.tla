--------------------------- MODULE JobQueueProofs ---------------------------
(***************************************************************************)
(* Theorems about JobQueue.tla, for any sets of jobs, workers and callers. *)
(*                                                                         *)
(* TypeOK is not inductive by itself: an action that files holds[w] or     *)
(* cjob[c] needs to know that it is a job.  TypeInv adds where a worker and *)
(* a caller do have one.                                                   *)
(***************************************************************************)
EXTENDS JobQueue, TLAPS

\* A worker holds a job exactly when it is neither idle nor dead, its child
\* lives from the fork to its last write, and is signalled once it has loaded.
WorkerInv ==
  \A w \in Workers :
    /\ pc[w] \in {"idle", "dead"} <=> holds[w] = NoJob
    /\ w \in child => pc[w] \in ExecutingPcs \cup FilingPcs
    /\ w \in killing => pc[w] # "forked"

\* A caller in the middle of a job has one; a cancellation knows its status.
CallerInv ==
  \A c \in Callers :
    /\ cpc[c] \in {"push", "place", "cancel", "file"} \cup (CleanPcs \ {"clean"})
         => cjob[c] \in Jobs
    /\ cpc[c] \in {"cancel", "file"} => carg[c] \in {"canceled", "stopped"}

TypeInv == TypeOK /\ WorkerInv /\ CallerInv

-----------------------------------------------------------------------------
\* Moving a name between registries keeps them sets of jobs.
LEMMA RefileType ==
  ASSUME NEW j \in Jobs, NEW from, NEW to, reg \in [Registries -> SUBSET Jobs],
         Refile(j, from, to)
  PROVE  reg' \in [Registries -> SUBSET Jobs]
  BY DEF Refile

\* Cleaning up removes names only.
LEMMA CleanupType ==
  ASSUME NEW expired, reg \in [Registries -> SUBSET Jobs], Cleanup(expired)
  PROVE  /\ reg' \in [Registries -> SUBSET Jobs]
         /\ \A r \in Registries : reg'[r] \subseteq reg[r]
  BY DEF Cleanup, Registries

\* A callers' step keeps the types.
LEMMA CallerTypeStep ==
  ASSUME TypeInv, NEW c \in Callers,
         CallerStarts(c) \/ Collect(c) \/ CallerGoesOn(c)
  PROVE  TypeInv'
<1> USE JobQueueAssumption DEF TypeInv, CallerInv, CallerPcs, EnqueuePcs, CleanPcs, CallerAt
<1>a. ASSUME UNCHANGED workerVars PROVE WorkerInv'
  BY <1>a DEF WorkerInv, workerVars
<1>b. ASSUME NEW j \in Jobs, NEW s \in Statuses, WriteFields(j, s) \/ WriteAll(j, s)
      PROVE  /\ status' \in [Jobs -> Statuses \cup {"none"}]
             /\ whole' \in SUBSET Jobs /\ expiring' \in SUBSET Jobs
  BY <1>b DEF WriteFields, WriteAll, TypeOK
<1>c. ASSUME NEW j \in Jobs, DropHash(j)
      PROVE  /\ status' \in [Jobs -> Statuses \cup {"none"}]
             /\ whole' \in SUBSET Jobs /\ expiring' \in SUBSET Jobs
  BY <1>c DEF DropHash, TypeOK
<1>1. CASE \E j \in Jobs : CreateNow(c, j)
  BY <1>1, <1>a, <1>b DEF CreateNow, TypeOK, workerVars, Statuses
<1>2. CASE \E j \in Jobs : CreateLater(c, j)
  BY <1>2, <1>a, <1>b DEF CreateLater, TypeOK, workerVars, Statuses
<1>3. CASE Requeue(c)
  BY <1>3, <1>a DEF Requeue, ReadRegistry, TypeOK, workerVars
<1>4. CASE \E j \in Jobs : EnqueueAgain(c, j)
  BY <1>4, <1>a, RefileType DEF EnqueueAgain, TypeOK, workerVars
<1>5. CASE \E j \in Jobs : ReadForCancel(c, j)
  BY <1>5, <1>a DEF ReadForCancel, TypeOK, workerVars, broker, Statuses
<1>6. CASE \E j \in Jobs : DeleteJob(c, j)
  <2>1. PICK j \in Jobs : DeleteJob(c, j)
    BY <1>6
  <2>2. /\ status' \in [Jobs -> Statuses \cup {"none"}]
        /\ whole' \in SUBSET Jobs /\ expiring' \in SUBSET Jobs
    BY <2>1, <1>c DEF DeleteJob, ExpireHash, TypeOK
  <2> QED
    BY <2>1, <2>2, <1>a, RefileType DEF DeleteJob, TypeOK, workerVars, callerVars
<1>7. CASE StartClear(c)
  BY <1>7, <1>a DEF StartClear, ReadRegistry, TypeOK, workerVars, Registries
<1>8. CASE Count(c)
  BY <1>8, <1>a, CleanupType DEF Count, TypeOK, workerVars, callerVars
<1>9. CASE ListRegistry(c)
  BY <1>9, <1>a DEF ListRegistry, WithoutDead, TypeOK, workerVars, callerVars
<1>10. CASE StartClean(c)
  BY <1>10, <1>a DEF StartClean, WithoutDead, Overdue, TypeOK, workerVars, Registries
<1>11. CASE Collect(c)
  BY <1>11, <1>a DEF Collect, TypeOK, workerVars, broker, Registries
<1>12. CASE Place(c)
  BY <1>12, <1>a, RefileType DEF Place, TypeOK, workerVars
<1>13. CASE Push(c)
  BY <1>13, <1>a, RefileType DEF Push, AfterBatch, TypeOK, workerVars
<1>14. CASE CancelAndRemove(c)
  BY <1>14, <1>a, <1>b, RefileType DEF CancelAndRemove, TypeOK, workerVars, Statuses
<1>15. CASE FileCanceled(c)
  BY <1>15, <1>a, RefileType DEF FileCanceled, TypeOK, workerVars
<1>16. CASE \E j \in Jobs : SaveQueued(c, j)
  BY <1>16, <1>a, <1>b DEF SaveQueued, TypeOK, workerVars, Statuses
<1>17. CASE \E j \in Jobs : ClearName(c, j)
  BY <1>17, <1>a, <1>c, RefileType DEF ClearName, TypeOK, workerVars
<1>18. CASE \E j \in Jobs : TakeAbandoned(c, j)
  BY <1>18, <1>a DEF TakeAbandoned, TypeOK, workerVars, broker
<1>19. CASE CleanUnregister(c)
  BY <1>19, <1>a, RefileType DEF CleanUnregister, TypeOK, workerVars
<1>20. CASE CleanRegister(c)
  BY <1>20, <1>a, RefileType DEF CleanRegister, TypeOK, workerVars
<1>21. CASE CleanRecord(c)
  BY <1>21, <1>a, <1>b DEF CleanRecord, TypeOK, workerVars, Statuses
<1>22. CASE Sweep(c)
  BY <1>22, <1>a, CleanupType DEF Sweep, AfterBatch, TypeOK, workerVars
<1> QED
  BY <1>1, <1>2, <1>3, <1>4, <1>5, <1>6, <1>7, <1>8, <1>9, <1>10, <1>11, <1>12,
     <1>13, <1>14, <1>15, <1>16, <1>17, <1>18, <1>19, <1>20, <1>21, <1>22
     DEF CallerStarts, CallerGoesOn

\* A worker's step keeps the types, and its job until it lets go of it.
LEMMA WorkerTypeStep ==
  ASSUME TypeInv, NEW w \in Workers,
         \/ Compact(w) \/ \E j \in Jobs : Pop(w, j)
         \/ WorkerGoesOn(w) \/ WorkerFaults(w) \/ Restart(w)
  PROVE  TypeInv'
<1> USE JobQueueAssumption DEF TypeInv, WorkerInv, WorkerPcs, ExecutingPcs, FilingPcs, WorkerAt,
        callerVars
<1>a. ASSUME UNCHANGED callerVars PROVE CallerInv'
  BY <1>a DEF CallerInv, callerVars
<1>b. ASSUME NEW j \in Jobs, NEW s \in Statuses \cup {"none"}, WriteFields(j, s) \/ WriteAll(j, s)
      PROVE  /\ status' \in [Jobs -> Statuses \cup {"none"}]
             /\ whole' \in SUBSET Jobs /\ expiring' \in SUBSET Jobs
  BY <1>b DEF WriteFields, WriteAll, TypeOK
<1>1. CASE Compact(w)
  BY <1>1, <1>a DEF Compact, WithoutDead, TypeOK, workerVars
<1>2. CASE \E j \in Jobs : Pop(w, j)
  BY <1>2, <1>a, RefileType DEF Pop, TypeOK
<1>3. CASE DropUnreadable(w)
  BY <1>3, <1>a DEF DropUnreadable, LetGo, TypeOK, broker
<1>4. CASE Fork(w)
  BY <1>4, <1>a DEF Fork, TypeOK, broker
<1>5. CASE Load(w)
  <2>1. w \notin killing
    BY <1>5 DEF Load
  <2> QED
    BY <1>5, <1>a, <2>1 DEF Load, TypeOK, broker
<1>6. CASE Activate(w)
  BY <1>6, <1>a, RefileType DEF Activate, TypeOK
<1>7. CASE MarkStarted(w)
  BY <1>7, <1>a, <1>b DEF MarkStarted, TypeOK, Statuses
<1>8. CASE Begin(w)
  BY <1>8, <1>a DEF Begin, TypeOK
<1>9. CASE Return(w)
  BY <1>9, <1>a, <1>b DEF Return, TypeOK, Statuses
<1>10. CASE Succeed(w)
  BY <1>10, <1>a DEF Succeed, TypeOK, broker
<1>11. CASE Fail(w, "running") \/ Fail(w, "returned") \/ Fail(w, "recorded") \/ Fail(w, "reap")
  BY <1>11, <1>a DEF Fail, TypeOK, broker
<1>12. CASE Unregister(w)
  BY <1>12, <1>a, RefileType DEF Unregister, TypeOK
<1>13. CASE Register(w)
  BY <1>13, <1>a, RefileType DEF Register, TypeOK
<1>14. CASE Record(w)
  BY <1>14, <1>a, <1>b DEF Record, TypeOK, Statuses
<1>15. CASE Complete(w)
  <2>1. /\ status' \in [Jobs -> Statuses \cup {"none"}]
        /\ whole' \in SUBSET Jobs /\ expiring' \in SUBSET Jobs
    BY <1>15 DEF Complete, ExpireHash, DropHash, TypeOK
  <2> QED
    BY <1>15, <1>a, <2>1 DEF Complete, LetGo, TypeOK
<1>16. CASE ReapNothing(w)
  BY <1>16, <1>a DEF ReapNothing, LetGo, TypeOK, broker
<1>17. CASE MarkStop(w)
  BY <1>17, <1>a DEF MarkStop, TypeOK, broker
<1>18. CASE ChildDies(w)
  BY <1>18, <1>a DEF ChildDies, TypeOK, broker
<1>19. CASE Crash(w)
  BY <1>19, <1>a DEF Crash, TypeOK, broker
<1>20. CASE Restart(w)
  BY <1>20, <1>a DEF Restart, TypeOK, broker
<1> QED
  BY <1>1, <1>2, <1>3, <1>4, <1>5, <1>6, <1>7, <1>8, <1>9, <1>10, <1>11, <1>12,
     <1>13, <1>14, <1>15, <1>16, <1>17, <1>18, <1>19, <1>20
     DEF WorkerGoesOn, WorkerFaults, Raise, ResultRaises, ReapFailure, SignalStop, KillChild

\* Time passing keeps the types.
LEMMA ClockTypeStep ==
  ASSUME TypeInv, NEW j \in Jobs, HashExpires(j) \/ DeadlinePasses(j)
  PROVE  TypeInv'
<1> USE DEF TypeInv, WorkerInv, CallerInv, workerVars, callerVars
<1>1. CASE HashExpires(j)
  BY <1>1 DEF HashExpires, DropHash, TypeOK
<1>2. CASE DeadlinePasses(j)
  BY <1>2 DEF DeadlinePasses, TypeOK
<1> QED
  BY <1>1, <1>2

\* TypeInv is kept by every step of callers, workers and the clock.
LEMMA TypeStep == TypeInv /\ [Next]_vars => TypeInv'
<1> SUFFICES ASSUME TypeInv, [Next]_vars PROVE TypeInv'
  OBVIOUS
<1>1. CASE UNCHANGED vars
  BY <1>1 DEF TypeInv, TypeOK, WorkerInv, CallerInv, vars, broker, workerVars, callerVars
<1>2. CASE \E j \in Jobs : HashExpires(j) \/ DeadlinePasses(j)
  BY <1>2, ClockTypeStep
<1>3. CASE \E c \in Callers : CallerStarts(c) \/ Collect(c) \/ CallerGoesOn(c)
  BY <1>3, CallerTypeStep
<1>4. CASE \E w \in Workers : \/ Compact(w) \/ \E j \in Jobs : Pop(w, j)
                              \/ WorkerGoesOn(w) \/ WorkerFaults(w) \/ Restart(w)
  BY <1>4, WorkerTypeStep
<1> QED
  BY <1>1, <1>2, <1>3, <1>4 DEF Next

\* An empty queue with idle workers and callers has TypeInv.
LEMMA TypeInit == Init => TypeInv
  BY JobQueueAssumption DEF Init, TypeInv, TypeOK, WorkerInv, CallerInv, Statuses,
     WorkerPcs, CallerPcs, EnqueuePcs, CleanPcs

\* Type correctness, and where a worker holds a job, in every reachable state.
THEOREM TypeInvariance == Spec => []TypeInv
  BY TypeInit, TypeStep, PTL DEF Spec

\* The broker's records and registries and the local state of workers and
\* callers keep their types under every interleaving (queue_logic.py, worker.py).
THEOREM TypeCorrect == Spec => []TypeOK
<1>1. TypeInv => TypeOK
  BY DEF TypeInv
<1> QED
  BY TypeInvariance, <1>1, PTL

-----------------------------------------------------------------------------
(* SingleRunner.  The right to run a job is a token: it lies in "queued" or *)
(* in "scheduled", it is on its way there in the hands of one caller, or    *)
(* one worker has it.  Nobody else ever puts the job in one of the two.     *)

\* Where the token may be, and what excludes what.
TokenInv ==
  /\ SingleRunner
  /\ reg["queued"] \cap reg["scheduled"] = {}
  /\ \A w \in Workers : holds[w] # NoJob =>
       /\ holds[w] \notin reg["queued"] \cup reg["scheduled"]
       /\ \A c \in Callers : ~Pending(c, holds[w])
  /\ \A c \in Callers, j \in Jobs : Pending(c, j) =>
       /\ j \notin reg["queued"]
       /\ j \in reg["scheduled"] => c \in Schedulers
       /\ \A d \in Callers : Pending(d, j) => c = d
  /\ \A c \in Callers : cpc[c] = "push" => cjob[c] \notin batch[c]

\* What the steps that do not move the token have in common.
TokenStays ==
  /\ reg'["queued"] \subseteq reg["queued"]
  /\ reg'["scheduled"] \subseteq reg["scheduled"]
  /\ \A w \in Workers : holds'[w] \in {holds[w], NoJob}
  /\ \A c \in Callers, j \in Jobs : Pending(c, j)' => Pending(c, j)
  /\ \A c \in Callers : cpc'[c] = "push" => cjob'[c] \notin batch'[c]

\* A step that takes jobs out of the hands of somebody keeps the token unique.
LEMMA TokenStaysStep == TypeInv /\ TokenInv /\ TokenStays => TokenInv'
  BY DEF TypeInv, TypeOK, TokenInv, TokenStays, SingleRunner

\* Taking a name out of registries, or filing it in one of the other four.
LEMMA RefileToken ==
  ASSUME NEW j, NEW from, NEW to, Refile(j, from, to), {"queued", "scheduled"} \cap to = {}
  PROVE  /\ reg'["queued"] \subseteq reg["queued"]
         /\ reg'["scheduled"] \subseteq reg["scheduled"]
  BY DEF Refile, Registries

\* No step of a worker but the pop moves a token.
LEMMA WorkerTokenStays ==
  ASSUME TypeInv, TokenInv, NEW w \in Workers,
         Compact(w) \/ WorkerGoesOn(w) \/ WorkerFaults(w) \/ Restart(w)
  PROVE  TokenStays
<1> USE DEF TypeInv, TypeOK, Registries
<1>1. UNCHANGED callerVars
  BY DEF Compact, WorkerGoesOn, WorkerFaults, Restart, DropUnreadable, Fork, Load, Activate,
     MarkStarted, Begin, Return, Raise, Fail, Succeed, Unregister, Register, Record, Complete,
     ReapNothing, ReapFailure, SignalStop, MarkStop, KillChild, ChildDies, ResultRaises, Crash
<1>2. \A v \in Workers : holds'[v] \in {holds[v], NoJob}
  BY DEF Compact, WorkerGoesOn, WorkerFaults, Restart, DropUnreadable, Fork, Load, Activate,
     MarkStarted, Begin, Return, Raise, Fail, Succeed, Unregister, Register, Record, Complete,
     ReapNothing, ReapFailure, SignalStop, MarkStop, KillChild, ChildDies, ResultRaises, Crash,
     LetGo, workerVars
<1>3. reg' # reg => Compact(w) \/ Activate(w) \/ Unregister(w) \/ Register(w)
  BY DEF WorkerGoesOn, WorkerFaults, Restart, DropUnreadable, Fork, Load,
     MarkStarted, Begin, Return, Raise, Fail, Succeed, Record, Complete,
     ReapNothing, ReapFailure, SignalStop, MarkStop, KillChild, ChildDies, ResultRaises, Crash,
     broker
<1>4. reg'["queued"] \subseteq reg["queued"] /\ reg'["scheduled"] \subseteq reg["scheduled"]
  <2>1. CASE Compact(w)
    BY <2>1 DEF Compact, WithoutDead
  <2>2. CASE Activate(w)
    BY <2>2, RefileToken DEF Activate
  <2>3. CASE Unregister(w)
    BY <2>3, RefileToken DEF Unregister
  <2>4. CASE Register(w)
    BY <2>4, RefileToken DEF Register
  <2> QED
    BY <1>3, <2>1, <2>2, <2>3, <2>4
<1> QED
  BY <1>1, <1>2, <1>4 DEF TokenStays, TokenInv, callerVars, Pending

\* Nor does a caller that cancels, deletes, clears, looks or cleans up.
LEMMA CallerTokenStays ==
  ASSUME TypeInv, TokenInv, NEW c \in Callers,
         \/ \E j \in Jobs : \/ ReadForCancel(c, j) \/ DeleteJob(c, j)
                            \/ ClearName(c, j) \/ TakeAbandoned(c, j)
         \/ StartClear(c) \/ Count(c) \/ ListRegistry(c) \/ StartClean(c)
         \/ CancelAndRemove(c) \/ FileCanceled(c)
         \/ CleanUnregister(c) \/ CleanRegister(c) \/ CleanRecord(c) \/ Sweep(c)
  PROVE  TokenStays
<1> USE DEF TypeInv, TypeOK, TokenInv, TokenStays, Pending, CallerAt, EnqueuePcs,
        Registries, workerVars
<1>1. CASE \E j \in Jobs : ReadForCancel(c, j)
  BY <1>1 DEF ReadForCancel, broker
<1>2. CASE \E j \in Jobs : DeleteJob(c, j)
  BY <1>2, RefileToken DEF DeleteJob, callerVars
<1>3. CASE \E j \in Jobs : ClearName(c, j)
  BY <1>3, RefileToken DEF ClearName, AfterBatch
<1>4. CASE \E j \in Jobs : TakeAbandoned(c, j)
  BY <1>4 DEF TakeAbandoned, broker
<1>5. CASE StartClear(c)
  BY <1>5 DEF StartClear, ReadRegistry
<1>6. CASE Count(c)
  BY <1>6, CleanupType DEF Count, callerVars
<1>7. CASE ListRegistry(c)
  BY <1>7 DEF ListRegistry, WithoutDead, callerVars
<1>8. CASE StartClean(c)
  BY <1>8 DEF StartClean, WithoutDead
<1>9. CASE CancelAndRemove(c)
  BY <1>9, RefileToken DEF CancelAndRemove
<1>10. CASE FileCanceled(c)
  BY <1>10, RefileToken DEF FileCanceled
<1>11. CASE CleanUnregister(c)
  BY <1>11, RefileToken DEF CleanUnregister
<1>12. CASE CleanRegister(c)
  BY <1>12, RefileToken DEF CleanRegister
<1>13. CASE CleanRecord(c)
  BY <1>13 DEF CleanRecord
<1>14. CASE Sweep(c)
  <2>1. /\ reg'["queued"] \subseteq reg["queued"]
        /\ reg'["scheduled"] \subseteq reg["scheduled"]
    BY <1>14, CleanupType DEF Sweep
  <2>2. cpc'[c] \in {"idle", "clean"} /\ \A d \in Callers \ {c} : cpc'[d] = cpc[d] /\ cjob'[d] = cjob[d]
    BY <1>14 DEF Sweep, AfterBatch
  <2> QED
    BY <1>14, <2>1, <2>2 DEF Sweep
<1> QED
  BY <1>1, <1>2, <1>3, <1>4, <1>5, <1>6, <1>7, <1>8, <1>9, <1>10, <1>11, <1>12, <1>13, <1>14

\* The steps that move a token: a job is created, taken from "scheduled" by the
\* one scheduler, saved, pushed to "queued", popped.
LEMMA TokenMoves ==
  ASSUME TypeInv, TokenInv, \A s, t \in Schedulers : s = t,
         \/ \E c \in Callers : \/ \E j \in Jobs : CreateNow(c, j) \/ CreateLater(c, j)
                               \/ Collect(c) \/ Place(c) \/ Push(c)
                               \/ \E j \in Jobs : SaveQueued(c, j)
         \/ \E w \in Workers, j \in Jobs : Pop(w, j)
  PROVE  TokenInv'
<1> USE JobQueueAssumption
    DEF TypeInv, TypeOK, TokenInv, SingleRunner, Pending, CallerAt, EnqueuePcs, Registries, workerVars
<1>1. CASE \E c \in Callers, j \in Jobs : CreateNow(c, j)
  BY <1>1 DEF CreateNow, Fresh
<1>2. CASE \E c \in Callers, j \in Jobs : CreateLater(c, j)
  BY <1>2 DEF CreateLater, Fresh
<1>3. CASE \E c \in Callers : Collect(c)
  BY <1>3 DEF Collect, broker
<1>4. CASE \E c \in Callers : Place(c)
  BY <1>4 DEF Place, Refile, CallerInv
<1>5. CASE \E c \in Callers : Push(c)
  BY <1>5 DEF Push, AfterBatch, Refile, CallerInv
<1>6. CASE \E c \in Callers, j \in Jobs : SaveQueued(c, j)
  BY <1>6 DEF SaveQueued
<1>7. CASE \E w \in Workers, j \in Jobs : Pop(w, j)
  BY <1>7 DEF Pop, Refile, WorkerAt, callerVars
<1> QED
  BY <1>1, <1>2, <1>3, <1>4, <1>5, <1>6, <1>7

\* TokenInv is kept by every step, when nobody enqueues a job that is not his.
LEMMA TokenStep ==
  ASSUME TypeInv, TokenInv, [Next]_vars,
         "requeue" \notin Ops, \A s, t \in Schedulers : s = t
  PROVE  TokenInv'
<1>1. CASE UNCHANGED vars
  BY <1>1 DEF TokenInv, SingleRunner, Pending, vars, broker, workerVars, callerVars
<1>2. CASE \E j \in Jobs : HashExpires(j) \/ DeadlinePasses(j)
  BY <1>2 DEF TokenInv, SingleRunner, Pending, HashExpires, DeadlinePasses, workerVars, callerVars
<1>3. CASE \E c \in Callers : CallerStarts(c) \/ Collect(c) \/ CallerGoesOn(c)
  BY <1>3, TokenMoves, CallerTokenStays, TokenStaysStep
     DEF CallerStarts, CallerGoesOn, Requeue, EnqueueAgain
<1>4. CASE \E w \in Workers : \/ Compact(w) \/ \E j \in Jobs : Pop(w, j)
                              \/ WorkerGoesOn(w) \/ WorkerFaults(w) \/ Restart(w)
  BY <1>4, TokenMoves, WorkerTokenStays, TokenStaysStep
<1> QED
  BY <1>1, <1>2, <1>3, <1>4 DEF Next

\* Nobody has a job in the beginning.
LEMMA TokenInit == Init => TokenInv
  BY DEF Init, TokenInv, SingleRunner, Pending, EnqueuePcs, Registries

\* A job popped from the queue belongs to one worker, for any number of jobs,
\* workers and callers and with every fault of the model, as long as nobody
\* enqueues a job anew from the admin and one scheduler serves the queue.
THEOREM OneRunner ==
  ASSUME "requeue" \notin Ops, \A s, t \in Schedulers : s = t
  PROVE  Spec => []SingleRunner
<1>1. TypeInv /\ TokenInv /\ [Next]_vars => TokenInv'
  BY TokenStep
<1>2. TokenInv => SingleRunner
  BY DEF TokenInv
<1> QED
  BY TokenInit, TypeInvariance, <1>1, <1>2, PTL DEF Spec

-----------------------------------------------------------------------------
(* NoLostJob.  Whoever writes a status of a job that has not ended has the  *)
(* job in hand, or is about to queue it, and whoever lets go of it has     *)
(* written an end, or found one.  A worker that has recorded an end no     *)
(* longer counts: another one may have written a status since.             *)

Unended == {"scheduled", "queued", "started"}

Kept(j) ==
  \/ j \in reg["queued"] \cup reg["scheduled"]
  \/ \E w \in Workers : holds[w] = j /\ pc[w] # "recorded"
  \/ \E c \in Callers : Pending(c, j)

KeptInv ==
  /\ \A j \in whole : status[j] # "none"
  /\ \A w \in Workers : pc[w] \in FilingPcs => verdict[w] # "none"
  /\ \A j \in whole \ expiring : status[j] \in Unended => Kept(j)

\* A worker's steps: the pop takes the job in hand, and it is let go of with an
\* end on record.
LEMMA KeptWorker ==
  ASSUME TypeInv, TypeInv', KeptInv, NEW w \in Workers, "crash" \notin Ops,
         \/ Compact(w) \/ \E j \in Jobs : Pop(w, j)
         \/ WorkerGoesOn(w) \/ WorkerFaults(w) \/ Restart(w)
  PROVE  KeptInv'
<1> USE JobQueueAssumption
    DEF TypeInv, TypeOK, WorkerInv, KeptInv, Kept, Pending, Unended, WorkerAt, callerVars,
        broker, Registries, ExecutingPcs, FilingPcs
<1>1. CASE Compact(w)
  BY <1>1 DEF Compact, WithoutDead, Exists, workerVars
<1>2. CASE \E j \in Jobs : Pop(w, j)
  BY <1>2 DEF Pop, Refile
<1>3. CASE DropUnreadable(w)
  BY <1>3 DEF DropUnreadable, LetGo
<1>4. CASE Fork(w)
  BY <1>4 DEF Fork
<1>5. CASE Load(w)
  BY <1>5 DEF Load
<1>6. CASE Activate(w)
  BY <1>6 DEF Activate, Refile
<1>7. CASE MarkStarted(w)
  BY <1>7 DEF MarkStarted, WriteFields
<1>8. CASE Begin(w)
  BY <1>8 DEF Begin
<1>9. CASE Return(w)
  BY <1>9 DEF Return, WriteAll
<1>10. CASE Succeed(w)
  BY <1>10 DEF Succeed
<1>11. CASE Fail(w, "running") \/ Fail(w, "returned") \/ Fail(w, "recorded") \/ Fail(w, "reap")
  BY <1>11 DEF Fail
<1>12. CASE Unregister(w)
  BY <1>12 DEF Unregister, Refile
<1>13. CASE Register(w)
  BY <1>13 DEF Register, Refile
<1>14. CASE Record(w)
  BY <1>14 DEF Record, WriteFields
<1>15. CASE Complete(w)
  BY <1>15 DEF Complete, LetGo, ExpireHash, DropHash, Exists
<1>16. CASE ReapNothing(w)
  BY <1>16 DEF ReapNothing, LetGo, Exists
<1>17. CASE MarkStop(w)
  BY <1>17 DEF MarkStop
<1>18. CASE ChildDies(w)
  BY <1>18 DEF ChildDies
<1>19. CASE Restart(w)
  BY <1>19 DEF Restart
<1> QED
  BY <1>1, <1>2, <1>3, <1>4, <1>5, <1>6, <1>7, <1>8, <1>9, <1>10, <1>11, <1>12,
     <1>13, <1>14, <1>15, <1>16, <1>17, <1>18, <1>19
     DEF WorkerGoesOn, WorkerFaults, Raise, ResultRaises, ReapFailure, SignalStop, KillChild, Crash

\* A caller's steps: a job that is taken out of "queued" or "scheduled" is
\* pushed again, or has an end, no record, or a time to live.
LEMMA KeptCaller ==
  ASSUME TypeInv, TypeInv', KeptInv, NEW c \in Callers, JobInfoTtl >= 0,
         CallerStarts(c) \/ Collect(c) \/ CallerGoesOn(c)
  PROVE  KeptInv'
<1> USE JobQueueAssumption
    DEF TypeInv, TypeOK, CallerInv, KeptInv, Kept, Pending, Unended, CallerAt, EnqueuePcs,
        CleanPcs, workerVars, callerVars, broker, Registries
<1>1. CASE \E j \in Jobs : CreateNow(c, j)
  BY <1>1 DEF CreateNow, Fresh, WriteAll, Exists
<1>2. CASE \E j \in Jobs : CreateLater(c, j)
  BY <1>2 DEF CreateLater, Fresh, WriteAll, Exists
<1>3. CASE Requeue(c)
  BY <1>3 DEF Requeue, ReadRegistry
<1>4. CASE \E j \in Jobs : EnqueueAgain(c, j)
  BY <1>4 DEF EnqueueAgain, Refile
<1>5. CASE \E j \in Jobs : ReadForCancel(c, j)
  BY <1>5 DEF ReadForCancel
<1>6. CASE \E j \in Jobs : DeleteJob(c, j)
  BY <1>6 DEF DeleteJob, Refile, ExpireHash, DropHash, Exists
<1>7. CASE StartClear(c)
  BY <1>7 DEF StartClear, ReadRegistry
<1>8. CASE Count(c)
  BY <1>8 DEF Count, Cleanup
<1>9. CASE ListRegistry(c)
  BY <1>9 DEF ListRegistry, WithoutDead, Exists
<1>10. CASE StartClean(c)
  BY <1>10 DEF StartClean, WithoutDead, Exists
<1>11. CASE Collect(c)
  BY <1>11 DEF Collect
<1>12. CASE Place(c)
  BY <1>12 DEF Place, Refile
<1>13. CASE Push(c)
  BY <1>13 DEF Push, AfterBatch, Refile
<1>14. CASE CancelAndRemove(c)
  BY <1>14 DEF CancelAndRemove, WriteFields, Refile
<1>15. CASE FileCanceled(c)
  BY <1>15 DEF FileCanceled, Refile
<1>16. CASE \E j \in Jobs : SaveQueued(c, j)
  BY <1>16 DEF SaveQueued, WriteFields
<1>17. CASE \E j \in Jobs : ClearName(c, j)
  BY <1>17 DEF ClearName, Refile, DropHash
<1>18. CASE \E j \in Jobs : TakeAbandoned(c, j)
  BY <1>18 DEF TakeAbandoned
<1>19. CASE CleanUnregister(c)
  BY <1>19 DEF CleanUnregister, Refile
<1>20. CASE CleanRegister(c)
  BY <1>20 DEF CleanRegister, Refile
<1>21. CASE CleanRecord(c)
  BY <1>21 DEF CleanRecord, WriteFields
<1>22. CASE Sweep(c)
  BY <1>22 DEF Sweep, Cleanup, AfterBatch
<1> QED
  BY <1>1, <1>2, <1>3, <1>4, <1>5, <1>6, <1>7, <1>8, <1>9, <1>10, <1>11, <1>12,
     <1>13, <1>14, <1>15, <1>16, <1>17, <1>18, <1>19, <1>20, <1>21, <1>22
     DEF CallerStarts, CallerGoesOn

\* KeptInv is kept by every step, when no host goes down.
LEMMA KeptStep ==
  ASSUME TypeInv, TypeInv', KeptInv, [Next]_vars, "crash" \notin Ops, JobInfoTtl >= 0
  PROVE  KeptInv'
<1>1. CASE UNCHANGED vars
  BY <1>1 DEF KeptInv, Kept, Pending, vars, broker, workerVars, callerVars
<1>2. CASE \E j \in Jobs : HashExpires(j) \/ DeadlinePasses(j)
  BY <1>2 DEF TypeInv, TypeOK, KeptInv, Kept, Pending, HashExpires, DropHash, DeadlinePasses,
     workerVars, callerVars
<1>3. CASE \E c \in Callers : CallerStarts(c) \/ Collect(c) \/ CallerGoesOn(c)
  BY <1>3, KeptCaller
<1>4. CASE \E w \in Workers : \/ Compact(w) \/ \E j \in Jobs : Pop(w, j)
                              \/ WorkerGoesOn(w) \/ WorkerFaults(w) \/ Restart(w)
  BY <1>4, KeptWorker
<1> QED
  BY <1>1, <1>2, <1>3, <1>4 DEF Next

\* A job that has not ended is in a registry, or in the hands of a worker or a
\* caller, whatever is canceled, requeued, cleared, cleaned, stopped or killed,
\* as long as no host goes down and a deleted job's record is not kept for good.
THEOREM NothingLost ==
  ASSUME "crash" \notin Ops, JobInfoTtl >= 0
  PROVE  Spec => []NoLostJob
<1>1. Init => KeptInv
  BY DEF Init, KeptInv, FilingPcs
<1>2. TypeInv /\ TypeInv' /\ KeptInv /\ [Next]_vars => KeptInv'
  BY KeptStep
<1>3. KeptInv => NoLostJob
  BY DEF KeptInv, Kept, NoLostJob, Unended, Registries
<1> QED
  BY TypeInvariance, <1>1, <1>2, <1>3, PTL DEF Spec

-----------------------------------------------------------------------------
(* The lifecycle.  Without operations of the admin a job's status is told   *)
(* by whoever has its token: a registry, a caller or a worker, and by how   *)
(* far the worker is.                                                       *)

\* What the status of the job in a worker's hands tells of the worker.
Seen(w) ==
  /\ holds[w] \notin expiring
  /\ pc[w] \in {"popped", "forked", "loaded", "activated"} => status[holds[w]] = "queued"
  /\ pc[w] \in {"started", "running", "returned"} => status[holds[w]] = "started"
  /\ pc[w] \in {"unregister", "register", "record"} =>
       status[holds[w]] = "started" \/ (status[holds[w]] = "queued" /\ verdict[w] # "finished")
  /\ pc[w] = "recorded" => status[holds[w]] = verdict[w]
  /\ pc[w] = "reap" => status[holds[w]] \in {"queued", "started", "finished", "failed"}

LifeInv ==
  /\ \A c \in Callers : cpc[c] \in {"idle", "dead", "place"} \cup EnqueuePcs
  /\ \A w \in Workers : stopFlag[w] = NoJob
  /\ killing = {}
  /\ \A j \in Jobs : j \in whole <=> status[j] # "none"
  /\ \A j \in expiring : status[j] = "finished"
  /\ \A w \in Workers : holds[w] # NoJob => Seen(w)
  /\ \A w \in Workers : pc[w] \in FilingPcs => verdict[w] \in {"finished", "failed"}
  /\ \A j \in reg["queued"] : status[j] = "queued"
  /\ \A j \in reg["scheduled"] :
       status[j] = "scheduled" \/ \E c \in Callers : cpc[c] = "push" /\ cjob[c] = j
  /\ \A c \in Callers :
       /\ cpc[c] = "push" => status[cjob[c]] = "queued"
       /\ cpc[c] = "place" => status[cjob[c]] = "scheduled"
       /\ cpc[c] \in EnqueuePcs => \A j \in batch[c] :
            status[j] = IF c \in Schedulers THEN "scheduled" ELSE "queued"

\* Where nothing dies, nobody reaps a dead child's job.
QuietInv ==
  \A w \in Workers :
    /\ pc[w] # "reap"
    /\ pc[w] \in {"unregister", "register", "record"} => status[holds[w]] = "started"

\* Where a worker is tells the status of its job, through every step of its own.
LEMMA LifeWorker ==
  ASSUME TypeInv, TypeInv', TokenInv, TokenInv', LifeInv,
         Ops \subseteq {"later", "kill", "crash"},
         NEW w \in Workers,
         \/ Compact(w) \/ \E j \in Jobs : Pop(w, j)
         \/ WorkerGoesOn(w) \/ WorkerFaults(w) \/ Restart(w)
  PROVE  LifeInv'
<1>0. \/ Compact(w) \/ (\E j \in Jobs : Pop(w, j)) \/ DropUnreadable(w) \/ Fork(w) \/ Load(w)
      \/ Activate(w) \/ MarkStarted(w) \/ Begin(w) \/ Return(w) \/ Succeed(w) \/ Raise(w)
      \/ Unregister(w) \/ Register(w) \/ Record(w) \/ Complete(w) \/ ReapNothing(w) \/ ReapFailure(w)
      \/ ChildDies(w) \/ MarkStop(w) \/ ResultRaises(w) \/ Crash(w) \/ Restart(w)
  BY DEF WorkerGoesOn, WorkerFaults, SignalStop, KillChild
<1>21. ~MarkStop(w) /\ ~ResultRaises(w)
  BY DEF MarkStop, ResultRaises
<1> DEFINE P == LifeInv'
<1> SUFFICES P
  OBVIOUS
<1> HIDE DEF P
<1> USE JobQueueAssumption
    DEF TypeInv, TypeOK, WorkerInv, CallerInv, TokenInv, SingleRunner, LifeInv, Seen,
        Pending, EnqueuePcs, CleanPcs, WorkerAt, callerVars, broker, Registries, ExecutingPcs, FilingPcs
<1>1. CASE Compact(w)
  BY <1>1 DEF P, Compact, WithoutDead, Exists, workerVars
<1>2. CASE \E j \in Jobs : Pop(w, j)
  BY <1>2 DEF P, Pop, Refile
<1>3. CASE DropUnreadable(w)
  BY <1>3 DEF P, DropUnreadable, LetGo
<1>4. CASE Fork(w)
  BY <1>4 DEF P, Fork
<1>5. CASE Load(w)
  BY <1>5 DEF P, Load
<1>6. CASE Activate(w)
  BY <1>6 DEF P, Activate, Refile
<1>7. CASE MarkStarted(w)
  BY <1>7 DEF P, MarkStarted, WriteFields
<1>8. CASE Begin(w)
  BY <1>8 DEF P, Begin
<1>9. CASE Return(w)
  BY <1>9 DEF P, Return, WriteAll
<1>10. CASE Succeed(w)
  BY <1>10 DEF P, Succeed
<1>11. CASE Raise(w)
  <2>1. CASE Fail(w, "running")
    BY <2>1 DEF P, Fail
  <2>2. CASE Fail(w, "returned")
    BY <2>2 DEF P, Fail
  <2> QED
    BY <1>11, <2>1, <2>2 DEF Raise
<1>12. CASE Unregister(w)
  BY <1>12 DEF P, Unregister, Refile
<1>13. CASE Register(w)
  BY <1>13 DEF P, Register, Refile
<1>14. CASE Record(w)
  BY <1>14 DEF P, Record, WriteFields
<1>15. CASE Complete(w)
  BY <1>15 DEF P, Complete, LetGo, ExpireHash, DropHash, Exists
<1>16. CASE ReapNothing(w)
  BY <1>16 DEF P, ReapNothing, LetGo, Exists
<1>17. CASE ReapFailure(w)
  BY <1>17 DEF P, ReapFailure, Fail, Exists
<1>18. CASE ChildDies(w)
  BY <1>18 DEF P, ChildDies
<1>19. CASE Crash(w)
  BY <1>19 DEF P, Crash
<1>20. CASE Restart(w)
  BY <1>20 DEF P, Restart
<1> QED
  BY <1>0, <1>1, <1>2, <1>3, <1>4, <1>5, <1>6, <1>7, <1>8, <1>9, <1>10, <1>11, <1>12,
     <1>13, <1>14, <1>15, <1>16, <1>17, <1>18, <1>19, <1>20, <1>21

\* What a caller is about to do tells the status of its jobs.
LEMMA LifeCaller ==
  ASSUME TypeInv, TypeInv', TokenInv, TokenInv', LifeInv,
         Ops \subseteq {"later", "kill", "crash"}, \A s, t \in Schedulers : s = t,
         NEW c \in Callers, CallerStarts(c) \/ Collect(c) \/ CallerGoesOn(c)
  PROVE  LifeInv'
<1>0. \/ (\E j \in Jobs : CreateNow(c, j)) \/ (\E j \in Jobs : CreateLater(c, j)) \/ Requeue(c)
      \/ (\E j \in Jobs : EnqueueAgain(c, j) \/ ReadForCancel(c, j) \/ DeleteJob(c, j))
      \/ StartClear(c) \/ Count(c) \/ ListRegistry(c) \/ StartClean(c) \/ Collect(c)
      \/ Place(c) \/ Push(c) \/ (\E j \in Jobs : SaveQueued(c, j))
      \/ CancelAndRemove(c) \/ FileCanceled(c) \/ (\E j \in Jobs : ClearName(c, j) \/ TakeAbandoned(c, j))
      \/ CleanUnregister(c) \/ CleanRegister(c) \/ CleanRecord(c) \/ Sweep(c)
  BY DEF CallerStarts, CallerGoesOn
<1>7. ~(Requeue(c) \/ (\E j \in Jobs : EnqueueAgain(c, j) \/ ReadForCancel(c, j) \/ DeleteJob(c, j))
        \/ StartClear(c) \/ Count(c) \/ ListRegistry(c) \/ StartClean(c))
  BY DEF Requeue, EnqueueAgain, ReadForCancel, DeleteJob, StartClear, Count, ListRegistry, StartClean
<1>8. cpc[c] \in {"idle", "dead", "place", "enqueue", "push"}
  BY DEF LifeInv, EnqueuePcs
<1>9. ~(CancelAndRemove(c) \/ FileCanceled(c) \/ (\E j \in Jobs : ClearName(c, j) \/ TakeAbandoned(c, j))
        \/ CleanUnregister(c) \/ CleanRegister(c) \/ CleanRecord(c) \/ Sweep(c))
  BY <1>8 DEF CallerAt, CancelAndRemove, FileCanceled, ClearName, TakeAbandoned, CleanUnregister, CleanRegister,
         CleanRecord, Sweep
<1> DEFINE P == LifeInv'
<1> SUFFICES P
  OBVIOUS
<1> HIDE DEF P
<1> USE JobQueueAssumption
    DEF TypeInv, TypeOK, WorkerInv, CallerInv, TokenInv, SingleRunner, LifeInv, Seen,
        Pending, EnqueuePcs, CleanPcs, CallerAt, workerVars, broker, Registries, ExecutingPcs, FilingPcs
<1>1. CASE \E j \in Jobs : CreateNow(c, j)
  BY <1>1 DEF P, CreateNow, Fresh, WriteAll, Exists
<1>2. CASE \E j \in Jobs : CreateLater(c, j)
  BY <1>2 DEF P, CreateLater, Fresh, WriteAll, Exists
<1>3. CASE Collect(c)
  BY <1>3 DEF P, Collect, Exists
<1>4. CASE Place(c)
  BY <1>4 DEF P, Place, Refile
<1>5. CASE Push(c)
  BY <1>5 DEF P, Push, AfterBatch, Refile
<1>6. CASE \E j \in Jobs : SaveQueued(c, j)
  BY <1>6 DEF P, SaveQueued, WriteFields
<1> QED
  BY <1>0, <1>1, <1>2, <1>3, <1>4, <1>5, <1>6, <1>7, <1>9

\* LifeInv is true of an empty queue.
LEMMA LifeInit == Init => LifeInv
  BY DEF Init, LifeInv, Seen, EnqueuePcs, FilingPcs, Registries

\* LifeInv is kept by every step.
LEMMA LifeStep ==
  ASSUME TypeInv, TypeInv', TokenInv, TokenInv', LifeInv, [Next]_vars,
         Ops \subseteq {"later", "kill", "crash"}, \A s, t \in Schedulers : s = t
  PROVE  LifeInv'
<1>1. CASE UNCHANGED vars
  BY <1>1 DEF LifeInv, Seen, vars, broker, workerVars, callerVars
<1>2. CASE \E j \in Jobs : HashExpires(j) \/ DeadlinePasses(j)
  BY <1>2 DEF TypeInv, TypeOK, LifeInv, Seen, HashExpires, DropHash, DeadlinePasses,
     workerVars, callerVars, CallerInv, EnqueuePcs, Registries
<1>3. CASE \E c \in Callers : CallerStarts(c) \/ Collect(c) \/ CallerGoesOn(c)
  BY <1>3, LifeCaller
<1>4. CASE \E w \in Workers : \/ Compact(w) \/ \E j \in Jobs : Pop(w, j)
                              \/ WorkerGoesOn(w) \/ WorkerFaults(w) \/ Restart(w)
  BY <1>4, LifeWorker
<1> QED
  BY <1>1, <1>2, <1>3, <1>4 DEF Next

\* LifeInv is true of every reachable state, unless something cancels, deletes,
\* stops or requeues.
LEMMA LifeInvariance ==
  ASSUME Ops \subseteq {"later", "kill", "crash"}, \A s, t \in Schedulers : s = t
  PROVE  Spec => [](TypeInv /\ TokenInv /\ LifeInv)
<1>1. TypeInv /\ TypeInv' /\ TokenInv /\ [Next]_vars => TokenInv'
  BY TokenStep
<1>2. TypeInv /\ TypeInv' /\ TokenInv /\ TokenInv' /\ LifeInv /\ [Next]_vars => LifeInv'
  BY LifeStep
<1> QED
  BY TypeInvariance, TokenInit, LifeInit, <1>1, <1>2, PTL DEF Spec

\* The changes of a status that the steps make.
Moves == {<<"none", "scheduled">>, <<"none", "queued">>, <<"scheduled", "queued">>,
          <<"queued", "started">>, <<"started", "finished">>, <<"started", "failed">>,
          <<"finished", "none">>}

\* Without operations of the admin, a caller writes the record of a job only to
\* create it and to enqueue it.
LEMMA StatusKept ==
  ASSUME LifeInv, Ops \subseteq {"later", "kill", "crash"},
         NEW c \in Callers, CallerStarts(c) \/ Collect(c) \/ CallerGoesOn(c),
         ~\E j \in Jobs : CreateNow(c, j) \/ CreateLater(c, j) \/ SaveQueued(c, j)
  PROVE  status' = status
BY DEF CallerStarts, CallerGoesOn, Requeue, EnqueueAgain, ReadForCancel, DeleteJob, StartClear,
   Count, ListRegistry, StartClean, Collect, Place, Push, CancelAndRemove, FileCanceled, ClearName,
   TakeAbandoned, CleanUnregister, CleanRegister, CleanRecord, Sweep, CallerAt, LifeInv, EnqueuePcs,
   broker

\* Every step that changes a status changes one, along one of the moves.
LEMMA StatusMoves ==
  ASSUME TypeInv, TokenInv, LifeInv, [Next]_vars, Ops \subseteq {"later", "kill", "crash"}
  PROVE  \/ UNCHANGED status
         \/ \E j \in Jobs, s \in Statuses \cup {"none"} :
              /\ status' = [status EXCEPT ![j] = s]
              /\ <<status[j], s>> \in Moves \/ (~QuietInv /\ status[j] = "queued" /\ s = "failed")
<1> DEFINE P == \/ UNCHANGED status
                \/ \E j \in Jobs, s \in Statuses \cup {"none"} :
                     /\ status' = [status EXCEPT ![j] = s]
                     /\ <<status[j], s>> \in Moves \/ (~QuietInv /\ status[j] = "queued" /\ s = "failed")
<1> SUFFICES P
  OBVIOUS
<1>a. ASSUME NEW j \in Jobs, NEW s \in Statuses \cup {"none"}, status' = [status EXCEPT ![j] = s],
             \/ status[j] = s \/ <<status[j], s>> \in Moves
             \/ ~QuietInv /\ status[j] = "queued" /\ s = "failed"
      PROVE  P
  BY <1>a DEF TypeInv, TypeOK
<1> HIDE DEF P
<1>0. status' = status => P
  BY DEF P
<1>1. ASSUME NEW j \in Jobs, HashExpires(j) PROVE P
  BY <1>1, <1>a DEF HashExpires, DropHash, LifeInv, Moves
<1>2. ASSUME NEW c \in Callers, NEW j \in Jobs, CreateNow(c, j) PROVE P
  BY <1>2, <1>a DEF CreateNow, Fresh, Exists, WriteAll, Moves, Statuses
<1>3. ASSUME NEW c \in Callers, NEW j \in Jobs, CreateLater(c, j) PROVE P
  BY <1>3, <1>a DEF CreateLater, Fresh, Exists, WriteAll, Moves, Statuses
<1>4. ASSUME NEW c \in Callers, NEW j \in Jobs, SaveQueued(c, j) PROVE P
  <2>1. /\ cpc[c] = "enqueue" /\ j \in batch[c]
        /\ status' = [status EXCEPT ![j] = "queued"]
    BY <1>4 DEF SaveQueued, WriteFields, CallerAt
  <2>2. status[j] \in {"scheduled", "queued"}
    BY <2>1 DEF LifeInv, EnqueuePcs
  <2> QED
    BY <2>1, <2>2, <1>a DEF Moves, Statuses
<1>b. ASSUME NEW w \in Workers, pc[w] \in {"activated", "running", "record", "recorded"}
      PROVE  /\ holds[w] \in Jobs
             /\ pc[w] = "activated" => status[holds[w]] = "queued"
             /\ pc[w] = "running" => status[holds[w]] = "started"
             /\ pc[w] = "record" =>
                  /\ verdict[w] \in {"finished", "failed"}
                  /\ \/ status[holds[w]] = "started"
                     \/ ~QuietInv /\ status[holds[w]] = "queued" /\ verdict[w] = "failed"
             /\ pc[w] = "recorded" => status[holds[w]] = verdict[w]
  <2>1. holds[w] \in Jobs /\ holds[w] # NoJob
    BY <1>b, JobQueueAssumption DEF TypeInv, TypeOK, WorkerInv
  <2>2. Seen(w)
    BY <2>1 DEF LifeInv
  <2>3. pc[w] = "record" => verdict[w] \in {"finished", "failed"}
    BY DEF LifeInv, FilingPcs
  <2> QED
    BY <1>b, <2>1, <2>2, <2>3 DEF Seen, QuietInv
<1>5. ASSUME NEW w \in Workers, MarkStarted(w) PROVE P
  <2>1. pc[w] = "activated" /\ status' = [status EXCEPT ![holds[w]] = "started"]
    BY <1>5 DEF MarkStarted, WorkerAt, WriteFields
  <2> QED
    BY <2>1, <1>a, <1>b DEF Moves, Statuses
<1>6. ASSUME NEW w \in Workers, Return(w) PROVE P
  <2>1. pc[w] = "running" /\ status' = [status EXCEPT ![holds[w]] = "started"]
    BY <1>6 DEF Return, WorkerAt, WriteAll
  <2> QED
    BY <2>1, <1>a, <1>b DEF Statuses
<1>7. ASSUME NEW w \in Workers, Record(w) PROVE P
  <2>1. pc[w] = "record" /\ status' = [status EXCEPT ![holds[w]] = verdict[w]]
    BY <1>7 DEF Record, WorkerAt, WriteFields
  <2> QED
    BY <2>1, <1>a, <1>b DEF Moves, Statuses
<1>8. ASSUME NEW w \in Workers, Complete(w) PROVE P
  <2>1. pc[w] = "recorded"
    BY <1>8 DEF Complete, WorkerAt
  <2>2. \/ status' = status
        \/ verdict[w] = "finished" /\ status' = [status EXCEPT ![holds[w]] = "none"]
    BY <1>8 DEF Complete, ExpireHash, DropHash
  <2> QED
    BY <2>1, <2>2, <1>0, <1>a, <1>b DEF Moves, Statuses
<1>9. ASSUME NEW c \in Callers, CallerStarts(c) \/ Collect(c) \/ CallerGoesOn(c),
             ~\E j \in Jobs : CreateNow(c, j) \/ CreateLater(c, j) \/ SaveQueued(c, j)
      PROVE  status' = status
  BY <1>9, StatusKept
<1>10. ASSUME NEW w \in Workers, ~(MarkStarted(w) \/ Return(w) \/ Record(w) \/ Complete(w)),
              \/ Compact(w) \/ \E j \in Jobs : Pop(w, j)
              \/ WorkerGoesOn(w) \/ WorkerFaults(w) \/ Restart(w)
       PROVE  status' = status
  BY <1>10 DEF Compact, Pop, WorkerGoesOn, WorkerFaults, Restart, DropUnreadable, Fork, Load, Activate,
     Begin, Raise, Fail, Succeed, Unregister, Register, ReapNothing, ReapFailure, SignalStop, MarkStop,
     KillChild, ChildDies, ResultRaises, Crash, broker
<1>11. (UNCHANGED vars \/ \E j \in Jobs : DeadlinePasses(j)) => status' = status
  BY DEF DeadlinePasses, vars, broker
<1> QED
  BY <1>0, <1>1, <1>2, <1>3, <1>4, <1>5, <1>6, <1>7, <1>8, <1>9, <1>10, <1>11 DEF Next

\* A step of the queue is a step of the lifecycle, or none: the arrows of the
\* docstring, and where processes die those of an early death.
LEMMA LifecycleStep ==
  ASSUME TypeInv, TokenInv, LifeInv, [Next]_vars, Ops \subseteq {"later", "kill", "crash"}
  PROVE  /\ [FaultyLifecycle!Next]_status
         /\ QuietInv => [Lifecycle!Next]_status
<1>1. CASE UNCHANGED status
  BY <1>1
<1>2. ASSUME NEW j \in Jobs, NEW s \in Statuses \cup {"none"}, status' = [status EXCEPT ![j] = s],
             <<status[j], s>> \in Moves
      PROVE  FaultyLifecycle!Next /\ Lifecycle!Next
  <2>1. CASE status[j] = "none" /\ s \in {"scheduled", "queued"}
    <3>1. FaultyLifecycle!Create(j) /\ Lifecycle!Create(j)
      BY <1>2, <2>1 DEF FaultyLifecycle!Create, Lifecycle!Create
    <3> QED
      BY <3>1 DEF FaultyLifecycle!Next, Lifecycle!Next
  <2>2. CASE <<status[j], s>> \in Lifecycle!Arrow
    <3>1. Lifecycle!Arrow = FaultyLifecycle!Arrow
      BY DEF Lifecycle!Arrow, FaultyLifecycle!Arrow, Lifecycle!Ended, FaultyLifecycle!Ended
    <3>2. PICK a \in Lifecycle!Arrow : a = <<status[j], s>>
      BY <2>2
    <3>3. status[j] = a[1] /\ status' = [status EXCEPT ![j] = a[2]]
      BY <1>2, <3>2
    <3>4. FaultyLifecycle!Advance(j) /\ Lifecycle!Advance(j)
      BY <3>1, <3>3 DEF FaultyLifecycle!Advance, Lifecycle!Advance
    <3> QED
      BY <3>4 DEF FaultyLifecycle!Next, Lifecycle!Next
  <2>3. CASE status[j] = "finished" /\ s = "none"
    <3>1. FaultyLifecycle!Forget(j) /\ Lifecycle!Forget(j)
      BY <1>2, <2>3 DEF FaultyLifecycle!Forget, Lifecycle!Forget, FaultyLifecycle!Ended, Lifecycle!Ended
    <3> QED
      BY <3>1 DEF FaultyLifecycle!Next, Lifecycle!Next
  <2> QED
    BY <1>2, <2>1, <2>2, <2>3 DEF Moves, Lifecycle!Arrow, Lifecycle!Ended
<1>3. ASSUME NEW j \in Jobs, status' = [status EXCEPT ![j] = "failed"], status[j] = "queued"
      PROVE  FaultyLifecycle!Next
  <2>1. PICK a \in FaultyLifecycle!EarlyDeath : a = <<"queued", "failed">>
    BY DEF FaultyLifecycle!EarlyDeath
  <2>2. status[j] = a[1] /\ status' = [status EXCEPT ![j] = a[2]]
    BY <1>3, <2>1
  <2>3. FaultyLifecycle!Advance(j)
    BY <2>2 DEF FaultyLifecycle!Advance
  <2> QED
    BY <2>3 DEF FaultyLifecycle!Next
<1> QED
  BY StatusMoves, <1>1, <1>2, <1>3

\* Whatever dies, a status follows the arrows of JobStatus, but that a job whose
\* process died before it was marked started fails at once.
THEOREM FollowsArrowsOrDies ==
  ASSUME Ops \subseteq {"later", "kill", "crash"}, \A s, t \in Schedulers : s = t
  PROVE  Spec => FollowsFaultyLifecycle
<1>1. Init => FaultyLifecycle!Init
  BY DEF Init, FaultyLifecycle!Init
<1>2. TypeInv /\ TokenInv /\ LifeInv /\ [Next]_vars => [FaultyLifecycle!Next]_status
  BY LifecycleStep
<1> QED
  BY LifeInvariance, <1>1, <1>2, PTL DEF Spec, FollowsFaultyLifecycle, FaultyLifecycle!Spec

\* Where nothing dies, no child is reaped, and a job is filed after it started.
LEMMA QuietStep ==
  ASSUME TypeInv, TokenInv, LifeInv, QuietInv, [Next]_vars, Ops \subseteq {"later"}
  PROVE  QuietInv'
<1>a. \A w \in Workers : pc[w] \in FilingPcs \cup ExecutingPcs \cup {"popped"} =>
        holds[w] \in Jobs /\ Seen(w) /\ holds[w] \in whole
  BY JobQueueAssumption DEF LifeInv, Seen, TypeInv, TypeOK, WorkerInv, FilingPcs, ExecutingPcs
<1> DEFINE P == QuietInv'
<1> SUFFICES P
  OBVIOUS
<1> HIDE DEF P
<1>1. CASE UNCHANGED vars
  BY <1>1 DEF P, QuietInv, vars, broker, workerVars
<1>2. ASSUME NEW j \in Jobs, HashExpires(j) \/ DeadlinePasses(j) PROVE P
  <2>1. UNCHANGED workerVars /\ \A i \in Jobs : status[i] # "finished" => status'[i] = status[i]
    BY <1>2 DEF HashExpires, DropHash, DeadlinePasses, LifeInv, TypeInv, TypeOK
  <2> QED
    BY <2>1, <1>a DEF P, QuietInv, workerVars, FilingPcs
<1>3. ASSUME NEW c \in Callers, CallerStarts(c) \/ Collect(c) \/ CallerGoesOn(c) PROVE P
  <2>1. UNCHANGED workerVars
    BY <1>3 DEF CallerStarts, CallerGoesOn, CreateNow, CreateLater, Requeue, EnqueueAgain, ReadForCancel,
       DeleteJob, StartClear, Count, ListRegistry, StartClean, Collect, Place, Push, SaveQueued,
       CancelAndRemove, FileCanceled, ClearName, TakeAbandoned, CleanUnregister, CleanRegister,
       CleanRecord, Sweep
  <2>2. \A w \in Workers : holds[w] # NoJob => status'[holds[w]] = status[holds[w]]
    <3>1. CASE \E j \in Jobs : CreateNow(c, j) \/ CreateLater(c, j)
      BY <3>1 DEF CreateNow, CreateLater, Fresh, WriteAll, TypeInv, TypeOK
    <3>2. CASE \E j \in Jobs : SaveQueued(c, j)
      BY <3>2 DEF SaveQueued, WriteFields, CallerAt, TokenInv, Pending, EnqueuePcs, TypeInv, TypeOK
    <3>3. CASE ~\E j \in Jobs : CreateNow(c, j) \/ CreateLater(c, j) \/ SaveQueued(c, j)
      BY <3>3, <1>3, StatusKept
    <3> QED
      BY <3>1, <3>2, <3>3
  <2>3. \A w \in Workers : pc[w] \in {"unregister", "register", "record"} => holds[w] # NoJob
    BY JobQueueAssumption, <1>a DEF FilingPcs
  <2> QED
    BY <2>1, <2>2, <2>3 DEF P, QuietInv, workerVars
<1>4. ASSUME NEW w \in Workers,
             Compact(w) \/ (\E j \in Jobs : Pop(w, j)) \/ WorkerGoesOn(w) \/ WorkerFaults(w) \/ Restart(w)
      PROVE P
  <2>0. \/ Compact(w) \/ (\E j \in Jobs : Pop(w, j)) \/ DropUnreadable(w) \/ Fork(w) \/ Load(w)
        \/ Activate(w) \/ MarkStarted(w) \/ Begin(w) \/ Return(w) \/ Succeed(w) \/ Raise(w)
        \/ Unregister(w) \/ Register(w) \/ Record(w) \/ Complete(w) \/ ReapNothing(w) \/ ReapFailure(w)
        \/ SignalStop(w) \/ KillChild(w) \/ MarkStop(w) \/ ResultRaises(w) \/ Crash(w) \/ Restart(w)
    BY <1>4 DEF WorkerGoesOn, WorkerFaults
  <2>1. ~(SignalStop(w) \/ KillChild(w) \/ MarkStop(w) \/ ResultRaises(w) \/ Crash(w)
          \/ ReapNothing(w) \/ ReapFailure(w))
    BY DEF SignalStop, KillChild, MarkStop, ResultRaises, Crash, ReapNothing, ReapFailure, Fail,
       WorkerAt, QuietInv, LifeInv
  <2>2. \A v \in Workers \ {w} : holds[v] = holds[w] => holds[w] = NoJob
    BY DEF TokenInv, SingleRunner
  <2>a. ASSUME NEW to, to # "reap", pc' = [pc EXCEPT ![w] = to],
               UNCHANGED holds,
               \A j \in Jobs : j # holds[w] => status'[j] = status[j],
               to \in {"unregister", "register", "record"} => status'[holds[w]] = "started"
        PROVE  P
    BY <2>a, <2>2, <1>a, JobQueueAssumption DEF P, QuietInv, TypeInv, TypeOK, FilingPcs
  <2>3. CASE Compact(w)
    BY <2>3 DEF P, Compact, QuietInv, workerVars
  <2>4. CASE \E j \in Jobs : Pop(w, j)
    BY <2>4 DEF P, Pop, WorkerAt, QuietInv, TypeInv, TypeOK
  <2>5. CASE DropUnreadable(w)
    BY <2>5, <1>a DEF P, DropUnreadable, WorkerAt
  <2>6. CASE Fork(w)
    BY <2>6, <2>a DEF Fork, WorkerAt, broker
  <2>7. CASE Load(w)
    <3>1. holds[w] \in whole
      BY <2>7, <1>a DEF Load, WorkerAt, ExecutingPcs
    <3> QED
      BY <3>1, <2>7, <2>a DEF Load, WorkerAt, broker
  <2>8. CASE Activate(w)
    BY <2>8, <2>a DEF Activate, WorkerAt
  <2>9. CASE MarkStarted(w)
    BY <2>9, <2>a DEF MarkStarted, WorkerAt, WriteFields, TypeInv, TypeOK
  <2>10. CASE Begin(w)
    BY <2>10, <2>a DEF Begin, WorkerAt
  <2>11. CASE Return(w)
    BY <2>11, <2>a DEF Return, WorkerAt, WriteAll, TypeInv, TypeOK
  <2>12. CASE Succeed(w) \/ Raise(w)
    <3>1. /\ pc[w] \in {"running", "returned"}
          /\ pc' = [pc EXCEPT ![w] = "unregister"]
          /\ UNCHANGED <<broker, holds>>
      BY <2>12 DEF Succeed, Raise, Fail, WorkerAt
    <3>2. status[holds[w]] = "started"
      BY <3>1, <1>a DEF ExecutingPcs, Seen
    <3> QED
      BY <3>1, <3>2, <2>a DEF broker
  <2>13. CASE Unregister(w)
    BY <2>13, <2>a DEF Unregister, WorkerAt, QuietInv
  <2>14. CASE Register(w)
    BY <2>14, <2>a DEF Register, WorkerAt, QuietInv
  <2>15. CASE Record(w)
    BY <2>15, <2>a DEF Record, WorkerAt, WriteFields, TypeInv, TypeOK
  <2>16. CASE Complete(w)
    <3>1. /\ pc' = [pc EXCEPT ![w] = "idle"]
          /\ holds' = [holds EXCEPT ![w] = NoJob]
          /\ \A j \in Jobs : j # holds[w] => status'[j] = status[j]
      BY <2>16 DEF Complete, WorkerAt, LetGo, ExpireHash, DropHash, TypeInv, TypeOK
    <3> QED
      BY <3>1, <2>2, <1>a, JobQueueAssumption DEF P, QuietInv, TypeInv, TypeOK, FilingPcs
  <2>17. CASE Restart(w)
    BY <2>17, <2>a DEF Restart, WorkerAt, broker
  <2> QED
    BY <2>0, <2>1, <2>3, <2>4, <2>5, <2>6, <2>7, <2>8, <2>9, <2>10, <2>11, <2>12, <2>13, <2>14,
       <2>15, <2>16, <2>17
<1> QED
  BY <1>1, <1>2, <1>3, <1>4 DEF Next

\* A status follows the arrows of JobStatus, in the order the docstring draws
\* them, when no process dies and the admin does not interfere.
THEOREM FollowsArrows ==
  ASSUME Ops \subseteq {"later"}, \A s, t \in Schedulers : s = t
  PROVE  Spec => FollowsLifecycle
<1>1. Init => Lifecycle!Init /\ QuietInv
  BY DEF Init, Lifecycle!Init, QuietInv
<1>2. TypeInv /\ TokenInv /\ LifeInv /\ QuietInv /\ [Next]_vars => [Lifecycle!Next]_status
  BY LifecycleStep
<1>3. TypeInv /\ TokenInv /\ LifeInv /\ QuietInv /\ [Next]_vars => QuietInv'
  BY QuietStep
<1>4. Spec => [](TypeInv /\ TokenInv /\ LifeInv)
  BY LifeInvariance
<1> QED
  BY <1>4, <1>1, <1>2, <1>3, PTL DEF Spec, FollowsLifecycle, Lifecycle!Spec

-----------------------------------------------------------------------------
(* The registries.  Where nothing dies and the admin does not interfere, the *)
(* registries that have a job are told by who has its token, and by its      *)
(* status when nobody has.                                                   *)

\* The registries of S have job j, the others do not.
FiledIn(j, S) == \A r \in Registries : j \in reg[r] <=> r \in S

\* The registry a caller takes a job from.
TakenFrom(c) == IF c \in Schedulers THEN {"scheduled"} ELSE {}

FiledByWorkers ==
  \A w \in Workers :
    /\ pc[w] \in {"popped", "forked", "loaded", "register"} => FiledIn(holds[w], {})
    /\ pc[w] \in {"activated", "started", "running", "returned", "unregister"} =>
         FiledIn(holds[w], {"active"})
    /\ pc[w] \in {"record", "recorded"} => FiledIn(holds[w], {verdict[w]})

FiledByCallers ==
  \A c \in Callers :
    /\ cpc[c] = "place" => FiledIn(cjob[c], {})
    /\ cpc[c] = "push" => FiledIn(cjob[c], TakenFrom(c))
    /\ cpc[c] \in EnqueuePcs => \A j \in batch[c] : FiledIn(j, TakenFrom(c))

FiledAtRest ==
  \A j \in whole :
    (\A w \in Workers : holds[w] # j) /\ (\A c \in Callers : ~Pending(c, j)) =>
      /\ status[j] \in {"scheduled", "queued", "finished", "failed"}
      /\ FiledIn(j, {status[j]})

FileInv == FiledByWorkers /\ FiledByCallers /\ FiledAtRest

\* A worker files the job in its hands, and leaves it filed under its verdict.
LEMMA FileWorker ==
  ASSUME TypeInv, TokenInv, LifeInv, QuietInv, FileInv, Ops \subseteq {"later"}, JobInfoTtl # 0,
         NEW w \in Workers,
         \/ Compact(w) \/ \E j \in Jobs : Pop(w, j)
         \/ WorkerGoesOn(w) \/ WorkerFaults(w) \/ Restart(w)
  PROVE  FileInv'
<1>0. \/ Compact(w) \/ (\E j \in Jobs : Pop(w, j)) \/ DropUnreadable(w) \/ Fork(w) \/ Load(w)
      \/ Activate(w) \/ MarkStarted(w) \/ Begin(w) \/ Return(w) \/ Succeed(w) \/ Raise(w)
      \/ Unregister(w) \/ Register(w) \/ Record(w) \/ Complete(w) \/ ReapNothing(w) \/ ReapFailure(w)
      \/ SignalStop(w) \/ KillChild(w) \/ MarkStop(w) \/ ResultRaises(w) \/ Crash(w) \/ Restart(w)
  BY DEF WorkerGoesOn, WorkerFaults
<1>18. ~(SignalStop(w) \/ KillChild(w) \/ MarkStop(w) \/ ResultRaises(w) \/ Crash(w)
         \/ ReapNothing(w) \/ ReapFailure(w))
  BY DEF SignalStop, KillChild, MarkStop, ResultRaises, Crash, ReapNothing, ReapFailure, Fail,
     WorkerAt, QuietInv, LifeInv
<1> DEFINE P == FileInv'
<1> SUFFICES P
  OBVIOUS
<1> HIDE DEF P
<1> USE JobQueueAssumption
    DEF TypeInv, TypeOK, WorkerInv, CallerInv, TokenInv, SingleRunner, LifeInv, Seen, QuietInv,
        FileInv, FiledByWorkers, FiledByCallers, FiledAtRest, FiledIn, TakenFrom, Pending,
        EnqueuePcs, WorkerAt, callerVars, broker,
        Registries, ExecutingPcs, FilingPcs
<1>1. CASE Compact(w)
  BY <1>1 DEF P, Compact, WithoutDead, Exists, workerVars
<1>2. CASE \E j \in Jobs : Pop(w, j)
  <2> PICK j \in Jobs : Pop(w, j)
    BY <1>2
  <2>1. FiledByWorkers'
    BY DEF Pop, Refile
  <2>2. FiledByCallers'
    BY DEF Pop, Refile
  <2>3. FiledAtRest'
    BY DEF Pop, Refile
  <2> QED
    BY <2>1, <2>2, <2>3 DEF P
<1>3. CASE DropUnreadable(w)
  BY <1>3 DEF P, DropUnreadable, LetGo
<1>4. CASE Fork(w)
  BY <1>4 DEF P, Fork
<1>5. CASE Load(w)
  <2>1. CASE holds[w] \in whole
    BY <1>5, <2>1 DEF P, Load
  <2>2. CASE holds[w] \notin whole
    BY <1>5, <2>2 DEF P, Load
  <2> QED
    BY <2>1, <2>2
<1>6. CASE Activate(w)
  <2>1. FiledByWorkers'
    BY <1>6 DEF Activate, Refile
  <2>2. FiledByCallers'
    BY <1>6 DEF Activate, Refile
  <2>3. FiledAtRest'
    BY <1>6 DEF Activate, Refile
  <2> QED
    BY <2>1, <2>2, <2>3 DEF P
<1>7. CASE MarkStarted(w)
  BY <1>7 DEF P, MarkStarted, WriteFields
<1>8. CASE Begin(w)
  BY <1>8 DEF P, Begin
<1>9. CASE Return(w)
  BY <1>9 DEF P, Return, WriteAll
<1>10. CASE Succeed(w)
  BY <1>10 DEF P, Succeed
<1>11. CASE Raise(w)
  BY <1>11 DEF P, Raise, Fail
<1>12. CASE Unregister(w)
  <2>1. FiledByWorkers'
    BY <1>12 DEF Unregister, Refile
  <2>2. FiledByCallers'
    BY <1>12 DEF Unregister, Refile
  <2>3. FiledAtRest'
    BY <1>12 DEF Unregister, Refile
  <2> QED
    BY <2>1, <2>2, <2>3 DEF P
<1>13. CASE Register(w)
  <2>1. FiledByWorkers'
    BY <1>13 DEF Register, Refile
  <2>2. FiledByCallers'
    BY <1>13 DEF Register, Refile
  <2>3. FiledAtRest'
    BY <1>13 DEF Register, Refile
  <2> QED
    BY <2>1, <2>2, <2>3 DEF P
<1>14. CASE Record(w)
  <2>1. FiledByWorkers'
    BY <1>14 DEF Record, WriteFields
  <2>2. FiledByCallers'
    BY <1>14 DEF Record, WriteFields
  <2>3. FiledAtRest'
    BY <1>14 DEF Record, WriteFields
  <2> QED
    BY <2>1, <2>2, <2>3 DEF P
<1>15. CASE Complete(w)
  BY <1>15 DEF P, Complete, LetGo, ExpireHash, DropHash, Exists
<1>16. CASE Restart(w)
  BY <1>16 DEF P, Restart
<1> QED
  BY <1>0, <1>1, <1>2, <1>3, <1>4, <1>5, <1>6, <1>7, <1>8, <1>9, <1>10, <1>11, <1>12,
     <1>13, <1>14, <1>15, <1>16, <1>18

\* A caller takes a job from "scheduled" or from nowhere, and files it once.
LEMMA FileCaller ==
  ASSUME TypeInv, TokenInv, LifeInv, FileInv, Ops \subseteq {"later"},
         \A s, t \in Schedulers : s = t,
         NEW c \in Callers, CallerStarts(c) \/ Collect(c) \/ CallerGoesOn(c)
  PROVE  FileInv'
<1>0. \/ (\E j \in Jobs : CreateNow(c, j)) \/ (\E j \in Jobs : CreateLater(c, j))
      \/ Collect(c) \/ Place(c) \/ Push(c) \/ (\E j \in Jobs : SaveQueued(c, j))
  BY DEF CallerStarts, CallerGoesOn, Requeue, EnqueueAgain, ReadForCancel, DeleteJob, StartClear,
     Count, ListRegistry, StartClean, CancelAndRemove, FileCanceled, ClearName, TakeAbandoned,
     CleanUnregister, CleanRegister, CleanRecord, Sweep, CallerAt, LifeInv, EnqueuePcs
<1> DEFINE P == FileInv'
<1> SUFFICES P
  OBVIOUS
<1> HIDE DEF P
<1> USE JobQueueAssumption
    DEF TypeInv, TypeOK, WorkerInv, CallerInv, TokenInv, SingleRunner, LifeInv, Seen,
        FileInv, FiledByWorkers, FiledByCallers, FiledAtRest, FiledIn, TakenFrom, Pending,
        EnqueuePcs, CallerAt, workerVars, broker,
        Registries, ExecutingPcs, FilingPcs
<1>1. CASE \E j \in Jobs : CreateNow(c, j)
  BY <1>1 DEF P, CreateNow, Fresh, WriteAll, Exists
<1>2. CASE \E j \in Jobs : CreateLater(c, j)
  <2> PICK j \in Jobs : CreateLater(c, j)
    BY <1>2
  <2>1. /\ ~Exists(j) /\ (\A r \in Registries : j \notin reg[r])
        /\ (\A w \in Workers : j # holds[w]) /\ (\A d \in Callers : j \notin batch[d] \cup {cjob[d]})
        /\ cpc[c] = "idle" /\ cpc' = [cpc EXCEPT ![c] = "place"]
        /\ status' = [status EXCEPT ![j] = "scheduled"] /\ whole' = whole \cup {j}
        /\ cjob' = [cjob EXCEPT ![c] = j]
        /\ UNCHANGED <<reg, pc, holds, verdict, batch>>
    BY DEF CreateLater, Fresh, WriteAll
  <2>2. FiledByWorkers'
    BY <2>1
  <2>3. FiledByCallers'
    BY <2>1
  <2>4. FiledAtRest'
    BY <2>1
  <2> QED
    BY <2>2, <2>3, <2>4 DEF P
<1>3. CASE Collect(c)
  <2>1. FiledByWorkers'
    BY <1>3 DEF Collect, Exists
  <2>2. FiledByCallers'
    <3>1. /\ UNCHANGED <<reg, status, cjob>>
          /\ \A d \in Callers \ {c} : cpc'[d] = cpc[d] /\ batch'[d] = batch[d]
          /\ cpc'[c] \in {"dead", "enqueue"}
          /\ cpc'[c] = "enqueue" => batch'[c] \subseteq reg["scheduled"] \cap whole
      BY <1>3 DEF Collect
    <3>2. \A j \in reg["scheduled"] \cap whole : FiledIn(j, {"scheduled"})
      BY <1>3 DEF Collect
    <3> QED
      BY <1>3, <3>1, <3>2 DEF Collect
  <2>3. FiledAtRest'
    BY <1>3 DEF Collect, Exists
  <2> QED
    BY <2>1, <2>2, <2>3 DEF P
<1>4. CASE Place(c)
  <2>1. FiledByWorkers'
    BY <1>4 DEF Place, Refile
  <2>2. FiledByCallers'
    BY <1>4 DEF Place, Refile
  <2>3. FiledAtRest'
    BY <1>4 DEF Place, Refile
  <2> QED
    BY <2>1, <2>2, <2>3 DEF P
<1>5. CASE Push(c)
  <2>1. FiledByWorkers'
    BY <1>5 DEF Push, AfterBatch, Refile
  <2>2. FiledByCallers'
    BY <1>5 DEF Push, AfterBatch, Refile
  <2>3. FiledAtRest'
    BY <1>5 DEF Push, AfterBatch, Refile
  <2> QED
    BY <2>1, <2>2, <2>3 DEF P
<1>6. CASE \E j \in Jobs : SaveQueued(c, j)
  BY <1>6 DEF P, SaveQueued, WriteFields
<1> QED
  BY <1>0, <1>1, <1>2, <1>3, <1>4, <1>5, <1>6

\* FileInv is kept by every step.
LEMMA FileStep ==
  ASSUME TypeInv, TokenInv, LifeInv, QuietInv, FileInv, [Next]_vars, Ops \subseteq {"later"},
         JobInfoTtl # 0, \A s, t \in Schedulers : s = t
  PROVE  FileInv'
<1>1. CASE UNCHANGED vars
  BY <1>1 DEF FileInv, FiledByWorkers, FiledByCallers, FiledAtRest, FiledIn, Pending,
         vars, broker, workerVars, callerVars
<1>2. CASE \E j \in Jobs : HashExpires(j) \/ DeadlinePasses(j)
  BY <1>2 DEF TypeInv, TypeOK, FileInv, FiledByWorkers, FiledByCallers, FiledAtRest, FiledIn,
         HashExpires, DropHash, DeadlinePasses, Pending, workerVars, callerVars
<1>3. CASE \E c \in Callers : CallerStarts(c) \/ Collect(c) \/ CallerGoesOn(c)
  BY <1>3, FileCaller
<1>4. CASE \E w \in Workers : \/ Compact(w) \/ \E j \in Jobs : Pop(w, j)
                              \/ WorkerGoesOn(w) \/ WorkerFaults(w) \/ Restart(w)
  BY <1>4, FileWorker
<1> QED
  BY <1>1, <1>2, <1>3, <1>4 DEF Next

\* A job nobody is busy with is in exactly the registry of its status, whatever
\* the order of the commands of schedulers, callers and workers, when no process
\* dies, the admin does not interfere and finished jobs are filed.
THEOREM FiledInOne ==
  ASSUME Ops \subseteq {"later"}, JobInfoTtl # 0, \A s, t \in Schedulers : s = t
  PROVE  Spec => []FiledOnce
<1>1. Init => QuietInv /\ FileInv
  <2>1. Init => QuietInv /\ FiledByWorkers
    BY DEF Init, QuietInv, FiledByWorkers
  <2>2. Init => FiledByCallers /\ FiledAtRest
    BY DEF Init, FiledByCallers, FiledAtRest, EnqueuePcs
  <2> QED
    BY <2>1, <2>2 DEF FileInv
<1>2. TypeInv /\ TokenInv /\ LifeInv /\ QuietInv /\ [Next]_vars => QuietInv'
  BY QuietStep
<1>3. TypeInv /\ TokenInv /\ LifeInv /\ QuietInv /\ FileInv /\ [Next]_vars => FileInv'
  BY FileStep
<1>4. Spec => [](TypeInv /\ TokenInv /\ LifeInv)
  BY LifeInvariance
<1>5. TypeInv /\ FileInv => FiledOnce
  BY DEF TypeInv, TypeOK, FileInv, FiledByWorkers, FiledByCallers, FiledAtRest, FiledIn,
         FiledOnce, AtRest, Pending, EnqueuePcs, Home, Registries
<1> QED
  BY <1>1, <1>2, <1>3, <1>4, <1>5, PTL DEF Spec
=============================================================================
