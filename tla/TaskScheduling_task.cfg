SPECIFICATION Spec
CONSTANTS
  j1 = j1  j2 = j2  j3 = j3  s1 = s1  s2 = s2  w1 = w1  w2 = w2
  Jobs <- ThreeJobs
  Savers <- OneSaver
  Workers <- OneWorker
  NoJob = NoJob
  NoRow = NoRow
  NoLimit = NoLimit
  Kinds <- AllKinds
  Ops <- AllOps
  Start = 0
  Interval = 2
  Repeat = 1
  MaxTime = 3
\* The clock stops, and a task may have no job any more.
CHECK_DEADLOCK FALSE
SYMMETRY Symmetry
INVARIANTS TypeOK OnSchedule NeverForgotten
