SPECIFICATION FairSpec
CONSTANTS
  j1 = j1  j2 = j2  w1 = w1  w2 = w2  web = web  web2 = web2  sched = sched
  Jobs <- TwoJobs
  Workers <- TwoWorkers
  Callers <- WebAndSched
  Schedulers <- OnlySched
  NoJob = NoJob
  Ops <- PlanQuiet
  SuccessTtl = 1
  JobInfoTtl = 1
\* All names may be used up, and idle workers and callers have nothing to do.
CHECK_DEADLOCK FALSE
INVARIANTS FiledOnce
PROPERTIES FollowsLifecycle  Promoted
