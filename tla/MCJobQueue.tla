----------------------------- MODULE MCJobQueue -----------------------------
(* Small instances of JobQueue for TLC: one or two jobs, one or two workers, *)
(* a web request and a scheduler thread, or two web requests.  Each Plan is  *)
(* the set of optional operations and faults of one run.                     *)
EXTENDS JobQueue, TLC

CONSTANTS j1, j2, w1, w2, web, web2, sched

OneJob == {j1}
TwoJobs == {j1, j2}
OneWorker == {w1}
TwoWorkers == {w1, w2}
OneWeb == {web}
WebAndSched == {web, sched}
OnlySched == {sched}
NoSched == {}

Symmetry == Permutations(TwoJobs) \cup Permutations(TwoWorkers)

PlanQuiet == {"later"}
PlanDeaths == {"later", "kill", "crash"}
PlanAdmin == OptionalOps \ {"crash"}
PlanMaintenance == {"crash", "clean"}
=============================================================================
