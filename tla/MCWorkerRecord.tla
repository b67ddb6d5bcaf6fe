-------------------------- MODULE MCWorkerRecord --------------------------
(* Instances of WorkerRecord for TLC. *)
EXTENDS WorkerRecord, TLC

CONSTANTS j1, j2

TwoJobs == {j1, j2}
AllOps == OptionalOps
============================================================================
