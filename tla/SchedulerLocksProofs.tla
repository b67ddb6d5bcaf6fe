----------------------- MODULE SchedulerLocksProofs ------------------------
(***************************************************************************)
(* Theorems about SchedulerLocks.tla, for any workers and queues.          *)
(*                                                                         *)
(* That one thread at a time moves the due jobs of a queue rests on two    *)
(* things the code does not check: a scheduler that runs still owns every  *)
(* lock in _locks (OwnsLocks), and a scheduler that is started again has   *)
(* an empty _locks (Bookkeeping).  The first fails when a pass outlives a  *)
(* lock, and OneScheduler leaves that queue out; the second when a burst   *)
(* worker restarts a scheduler that was stopped: the theorem assumes that  *)
(* no worker is one.                                                       *)
(***************************************************************************)
EXTENDS SchedulerLocks, TLAPS

\* TypeOK is inductive for any faults and any burst workers.
LEMMA TypeInit == Init => TypeOK
  BY SchedulerLocksAssumption DEF Init, TypeOK, Pcs, ThreadPcs

\* TypeOK is kept by every step.
LEMMA TypeStep == TypeOK /\ [Next]_vars => TypeOK'
<1> SUFFICES ASSUME TypeOK, [Next]_vars PROVE TypeOK'
  OBVIOUS
<1> USE SchedulerLocksAssumption DEF TypeOK, Pcs, ThreadPcs
<1>1. CASE UNCHANGED vars
  BY <1>1 DEF vars
<1>2. ASSUME NEW w \in Workers, NEW q \in Queues, TryLock(w, q) PROVE TypeOK'
  BY <1>2 DEF TryLock
<1>3. ASSUME NEW w \in Workers, Started(w) PROVE TypeOK'
  BY <1>3 DEF Started, NextLoop, At
<1>4. ASSUME NEW w \in Workers, BeginStop(w) PROVE TypeOK'
  BY <1>4 DEF BeginStop, NextLoop, At
<1>5. ASSUME NEW w \in Workers, BeginReacquire(w) PROVE TypeOK'
  BY <1>5 DEF BeginReacquire, NextLoop, At
<1>6. ASSUME NEW w \in Workers, BeginPass(w) PROVE TypeOK'
  BY <1>6 DEF BeginPass, NextLoop, At
<1>7. ASSUME NEW w \in Workers, NEW q \in Queues, Serve(w, q) PROVE TypeOK'
  BY <1>7 DEF Serve
<1>8. ASSUME NEW w \in Workers, Served(w) PROVE TypeOK'
  BY <1>8 DEF Served
<1>9. ASSUME NEW w \in Workers, Heartbeat(w) PROVE TypeOK'
  BY <1>9 DEF Heartbeat, NextLoop, At
<1>10. ASSUME NEW w \in Workers, NEW q \in Queues, Release(w, q) PROVE TypeOK'
  BY <1>10 DEF Release
<1>11. ASSUME NEW w \in Workers, Stopped(w) PROVE TypeOK'
  BY <1>11 DEF Stopped, NextLoop, At
<1>12. ASSUME NEW w \in Workers, Restart(w) PROVE TypeOK'
  BY <1>12 DEF Restart, NextLoop, At
<1>13. ASSUME NEW w \in Workers, RequestStop(w) PROVE TypeOK'
  BY <1>13 DEF RequestStop
<1>14. ASSUME NEW w \in Workers, Exit(w) PROVE TypeOK'
  BY <1>14 DEF Exit
<1>15. ASSUME NEW w \in Workers, Boot(w) PROVE TypeOK'
  BY <1>15 DEF Boot
<1>16. ASSUME NEW w \in Workers, Raise(w) PROVE TypeOK'
  BY <1>16 DEF Raise, Fault, At
<1>17. ASSUME NEW w \in Workers, Crash(w) PROVE TypeOK'
  BY <1>17 DEF Crash, Fault
<1>18. ASSUME NEW q \in Queues, Expire(q) \/ Stall(q) PROVE TypeOK'
  BY <1>18 DEF Expire, Stall, Fault
<1> QED
  BY <1>1, <1>2, <1>3, <1>4, <1>5, <1>6, <1>7, <1>8, <1>9, <1>10, <1>11, <1>12,
     <1>13, <1>14, <1>15, <1>16, <1>17, <1>18 DEF Next, GoesOn

\* Every variable has its type in every state, and a pass goes over queues the
\* scheduler has locked (enqueue_scheduled_jobs), whatever fails.
THEOREM TypeCorrect == Spec => []TypeOK
  BY TypeInit, TypeStep, PTL DEF Spec

-----------------------------------------------------------------------------
\* The lock of a queue in _locks belongs to the scheduler until it lets go of it.
OwnsLocks ==
  \A w \in Workers, q \in Queues :
    q \in (IF pc[w] = "release" THEN todo[w] ELSE locks[w]) /\ Alive(w)
      => lock[q] = w \/ q \in stalled

\* A scheduler that starts has locked nothing before; one that has no thread
\* either never got a lock or is stopping, and stays so.
Bookkeeping ==
  \A w \in Workers :
    /\ pc[w] = "start" => locks[w] = gained[w]
    /\ pc[w] = "main" => locks[w] = {} \/ w \in stopping
    /\ pc[w] = "release" => w \in stopping /\ todo[w] \subseteq locks[w]
    /\ pc[w] \in {"main", "loop", "pass", "release"} => gained[w] = {}

LockInv == TypeOK /\ OwnsLocks /\ Bookkeeping

\* Schedulers that have just been made have locked nothing.
LEMMA LockInit == Init => LockInv
  BY SchedulerLocksAssumption, TypeInit DEF Init, LockInv, OwnsLocks, Bookkeeping, Alive, ThreadPcs

\* Bookkeeping needs that no burst worker restarts a stopped scheduler.
LEMMA BookkeepingStep ==
  ASSUME Burst = {}, TypeOK, Bookkeeping, [Next]_vars
  PROVE  Bookkeeping'
<1> USE DEF TypeOK, Bookkeeping
<1>1. CASE UNCHANGED vars
  BY <1>1 DEF vars
<1>2. ASSUME NEW w \in Workers, NEW q \in Queues, TryLock(w, q) PROVE Bookkeeping'
  <2>1. \A v \in Workers \ {w} :
          locks'[v] = locks[v] /\ gained'[v] = gained[v] /\ todo'[v] = todo[v]
    BY <1>2 DEF TryLock
  <2>2. pc' = pc /\ stopping' = stopping
    BY <1>2 DEF TryLock
  <2>3. ASSUME pc[w] = "start" PROVE locks'[w] = gained'[w]
    <3>1. locks[w] = gained[w]
      BY <2>3
    <3>2. CASE lock[q] = NoOne
      <4>1. locks'[w] = locks[w] \cup {q}
        BY <1>2, <3>2 DEF TryLock
      <4>2. gained'[w] = gained[w] \cup {q}
        BY <1>2, <3>2 DEF TryLock
      <4> QED
        BY <3>1, <4>1, <4>2
    <3>3. CASE lock[q] # NoOne
      BY <1>2, <3>1, <3>3 DEF TryLock
    <3> QED
      BY <3>2, <3>3
  <2>4. pc[w] \in {"start", "reacquire"}
    BY <1>2 DEF TryLock
  <2> QED
    BY <2>1, <2>2, <2>3, <2>4
<1>3. ASSUME NEW w \in Workers, Started(w) PROVE Bookkeeping'
  BY <1>3 DEF Started, NextLoop, At
<1>4. ASSUME NEW w \in Workers, BeginStop(w) PROVE Bookkeeping'
  BY <1>4 DEF BeginStop, NextLoop, At
<1>5. ASSUME NEW w \in Workers, BeginReacquire(w) PROVE Bookkeeping'
  BY <1>5 DEF BeginReacquire, NextLoop, At
<1>6. ASSUME NEW w \in Workers, BeginPass(w) PROVE Bookkeeping'
  BY <1>6 DEF BeginPass, NextLoop, At
<1>7. ASSUME NEW w \in Workers, NEW q \in Queues, Serve(w, q) PROVE Bookkeeping'
  BY <1>7 DEF Serve
<1>8. ASSUME NEW w \in Workers, Served(w) PROVE Bookkeeping'
  BY <1>8 DEF Served
<1>9. ASSUME NEW w \in Workers, Heartbeat(w) PROVE Bookkeeping'
  BY <1>9 DEF Heartbeat, NextLoop, At
<1>10. ASSUME NEW w \in Workers, NEW q \in Queues, Release(w, q) PROVE Bookkeeping'
  BY <1>10 DEF Release
<1>11. ASSUME NEW w \in Workers, Stopped(w) PROVE Bookkeeping'
  BY <1>11 DEF Stopped, NextLoop, At
<1>12. ASSUME NEW w \in Workers, Restart(w) PROVE Bookkeeping'
  BY <1>12 DEF Restart, NextLoop, At
<1>13. ASSUME NEW w \in Workers, RequestStop(w) PROVE Bookkeeping'
  BY <1>13 DEF RequestStop
<1>14. ASSUME NEW w \in Workers, Exit(w) PROVE Bookkeeping'
  BY <1>14 DEF Exit
<1>15. ASSUME NEW w \in Workers, Boot(w) PROVE Bookkeeping'
  BY <1>15 DEF Boot
<1>16. ASSUME NEW w \in Workers, Raise(w) \/ Crash(w) PROVE Bookkeeping'
  BY <1>16 DEF Raise, Crash, Fault, At
<1>17. ASSUME NEW q \in Queues, Expire(q) \/ Stall(q) PROVE Bookkeeping'
  BY <1>17 DEF Expire, Stall, Fault
<1> QED
  BY <1>1, <1>2, <1>3, <1>4, <1>5, <1>6, <1>7, <1>8, <1>9,
     <1>10, <1>11, <1>12, <1>13, <1>14, <1>15, <1>16, <1>17 DEF Next, GoesOn

\* OwnsLocks needs Bookkeeping, for a scheduler that is started again.
LEMMA OwnsLocksStep ==
  ASSUME Burst = {}, TypeOK, OwnsLocks, Bookkeeping, [Next]_vars
  PROVE  OwnsLocks'
<1> USE SchedulerLocksAssumption DEF TypeOK, OwnsLocks, Alive, ThreadPcs
<1>1. CASE UNCHANGED vars
  BY <1>1 DEF vars
<1>2. ASSUME NEW w \in Workers, NEW q \in Queues, TryLock(w, q) PROVE OwnsLocks'
  <2>1. CASE lock[q] = NoOne
    <3>1. \A v \in Workers :
            Alive(v) => q \notin (IF pc[v] = "release" THEN todo[v] ELSE locks[v]) \/ q \in stalled
      BY <2>1
    <3> QED
      BY <1>2, <2>1, <3>1 DEF TryLock
  <2>2. CASE lock[q] # NoOne
    BY <1>2, <2>2 DEF TryLock
  <2> QED
    BY <2>1, <2>2
<1>3. ASSUME NEW w \in Workers, Started(w) PROVE OwnsLocks'
  BY <1>3 DEF Started, NextLoop, At
<1>4. ASSUME NEW w \in Workers, BeginStop(w) PROVE OwnsLocks'
  BY <1>4 DEF BeginStop, NextLoop, At
<1>5. ASSUME NEW w \in Workers, BeginReacquire(w) PROVE OwnsLocks'
  BY <1>5 DEF BeginReacquire, NextLoop, At
<1>6. ASSUME NEW w \in Workers, BeginPass(w) PROVE OwnsLocks'
  BY <1>6 DEF BeginPass, NextLoop, At
<1>7. ASSUME NEW w \in Workers, NEW q \in Queues, Serve(w, q) PROVE OwnsLocks'
  BY <1>7 DEF Serve
<1>8. ASSUME NEW w \in Workers, Served(w) PROVE OwnsLocks'
  BY <1>8 DEF Served
<1>9. ASSUME NEW w \in Workers, Heartbeat(w) PROVE OwnsLocks'
  <2>1. \A v \in Workers : todo'[v] = todo[v] /\ (v # w => pc'[v] = pc[v])
    BY <1>9 DEF Heartbeat, NextLoop, At
  <2>2. lock' = lock /\ stalled' = stalled /\ locks' = locks /\ pc[w] = "pass" /\ pc'[w] = "loop"
    BY <1>9 DEF Heartbeat, At
  <2> QED
    BY <2>1, <2>2
<1>10. ASSUME NEW w \in Workers, NEW q \in Queues, Release(w, q) PROVE OwnsLocks'
  <2>1. \A v \in Workers \ {w} :
          Alive(v) => q \notin (IF pc[v] = "release" THEN todo[v] ELSE locks[v]) \/ q \in stalled
    BY <1>10 DEF Release
  <2> QED
    BY <1>10, <2>1 DEF Release
<1>11. ASSUME NEW w \in Workers, Stopped(w) PROVE OwnsLocks'
  BY <1>11 DEF Stopped, NextLoop, At
<1>12. ASSUME NEW w \in Workers, Restart(w) PROVE OwnsLocks'
  <2>1. locks[w] = {}
    BY <1>12 DEF Restart, At, Bookkeeping
  <2> QED
    BY <1>12, <2>1 DEF Restart, NextLoop, At
<1>13. ASSUME NEW w \in Workers, RequestStop(w) PROVE OwnsLocks'
  BY <1>13 DEF RequestStop
<1>14. ASSUME NEW w \in Workers, Exit(w) PROVE OwnsLocks'
  BY <1>14 DEF Exit
<1>15. ASSUME NEW w \in Workers, Boot(w) PROVE OwnsLocks'
  <2>1. locks'[w] = {} /\ \A v \in Workers \ {w} :
          pc'[v] = pc[v] /\ todo'[v] = todo[v] /\ locks'[v] = locks[v]
    BY <1>15 DEF Boot
  <2>2. lock' = lock /\ stalled' = stalled /\ pc'[w] = "start"
    BY <1>15 DEF Boot
  <2> QED
    BY <2>1, <2>2
<1>16. ASSUME NEW w \in Workers, Raise(w) \/ Crash(w) PROVE OwnsLocks'
  BY <1>16 DEF Raise, Crash, Fault, At
<1>17. ASSUME NEW q \in Queues, Expire(q) \/ Stall(q) PROVE OwnsLocks'
  <2>1. CASE Stall(q)
    BY <2>1 DEF Stall, Fault
  <2>2. CASE Expire(q)
    <3>1. \A w \in Workers : Alive(w) => q \notin locks[w]
      BY <2>2 DEF Expire
    <3>2. \A w \in Workers : pc[w] = "release" => todo[w] \subseteq locks[w]
      BY DEF Bookkeeping
    <3> QED
      BY <2>2, <3>1, <3>2 DEF Expire
  <2> QED
    BY <1>17, <2>1, <2>2
<1> QED
  BY <1>1, <1>2, <1>3, <1>4, <1>5, <1>6, <1>7, <1>8, <1>9,
     <1>10, <1>11, <1>12, <1>13, <1>14, <1>15, <1>16, <1>17 DEF Next, GoesOn

\* At most one thread moves the due jobs of a queue (_acquire_locks,
\* enqueue_scheduled_jobs), through crashes, exceptions, stops and starts of
\* any number of workers.
THEOREM OneThread ==
  ASSUME Burst = {}
  PROVE  Spec => []OneScheduler
<1>1. LockInv /\ [Next]_vars => LockInv'
  BY TypeStep, BookkeepingStep, OwnsLocksStep DEF LockInv
<1>2. LockInv => OneScheduler
  <2> SUFFICES ASSUME LockInv, NEW v \in Workers, NEW w \in Workers,
                      serving[v] = serving[w], serving[v] \notin stalled \cup {NoOne}
               PROVE  v = w
    BY DEF OneScheduler
  <2>1. serving[v] \in Queues /\ serving[v] \in locks[v] /\ serving[v] \in locks[w]
    BY DEF LockInv, TypeOK
  <2>2. pc[v] = "pass" /\ pc[w] = "pass"
    BY DEF LockInv, TypeOK
  <2>3. lock[serving[v]] = v /\ lock[serving[v]] = w
    BY <2>1, <2>2 DEF LockInv, OwnsLocks, Alive, ThreadPcs
  <2> QED
    BY <2>3
<1> QED
  BY <1>1, <1>2, LockInit, PTL DEF Spec
=============================================================================
