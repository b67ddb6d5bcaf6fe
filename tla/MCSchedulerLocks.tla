-------------------------- MODULE MCSchedulerLocks --------------------------
(* Two workers on the same two queues. *)
EXTENDS SchedulerLocks, TLC

CONSTANTS w1, w2, q1, q2

TwoQueues == {q1, q2}
TwoWorkers == {w1, w2}
AllListen == [w \in Workers |-> Queues]
NoBurst == {}
AllFaults == {"crash", "raise", "stall"}
=============================================================================
