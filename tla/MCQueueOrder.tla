---------------------------- MODULE MCQueueOrder ----------------------------
(* Four jobs with names in the order of their numbers, two of them of one    *)
(* queue; two callers and a clock of two instants: enough for a score read   *)
(* before a pop, a push by another caller and a tick, and used after them.   *)
(* Three queues, so that the round robin worker can pass one over twice; the *)
(* other worker keeps the order of its list.                                 *)
EXTENDS QueueOrder, TLC

CONSTANTS j1, j2, j3, j4, c1, c2, qa, qb, qc, w1, w2

SomeJobs == {j1, j2, j3, j4}
NameOrder == j1 :> 1 @@ j2 :> 2 @@ j3 :> 3 @@ j4 :> 4
SomeQueues == {qa, qb, qc}
JobQueues == j1 :> qa @@ j2 :> qa @@ j3 :> qb @@ j4 :> qc
SomeCallers == {c1, c2}
SomeWorkers == {w1, w2}
BurstWorkers == {w1}
ListOrder == qa :> 0 @@ qb :> 1 @@ qc :> 2
Strategies == w1 :> "round_robin" @@ w2 :> "default"
Lists == w1 :> ListOrder @@ w2 :> ListOrder
CallerSymmetry == Permutations(SomeCallers)
=============================================================================
