-------------------------- MODULE MCTaskScheduling --------------------------
(* A task with up to three jobs, a saver and a worker.                      *)
EXTENDS TaskScheduling, TLC

CONSTANTS j1, j2, j3, s1, s2, w1, w2

ThreeJobs == {j1, j2, j3}
OneSaver == {s1}
OneWorker == {w1}
AllKinds == {"cron", "once", "repeatable", "endless"}
AllOps == {"runnow", "save", "edit", "disable", "delete", "kill"}

Symmetry == Permutations(ThreeJobs) \cup Permutations(Savers) \cup Permutations(Workers)
=============================================================================
