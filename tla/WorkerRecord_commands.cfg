SPECIFICATION FairSpec
CONSTANTS
  j1 = j1  j2 = j2
  Jobs <- TwoJobs
  NoJob = NoJob
  MaxJobs = 2
  Ops <- AllOps
\* The worker may be gone, or suspended for good.
CHECK_DEADLOCK FALSE
INVARIANTS TypeOK CountedOnce LeavesNoRecord 
PROPERTIES StopsOnRequest SuspendsOnRequest
