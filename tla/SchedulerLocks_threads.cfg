SPECIFICATION FairSpec
CONSTANTS
  w1 = w1  w2 = w2  q1 = q1  q2 = q2
  Queues <- TwoQueues
  Workers <- TwoWorkers
  Listens <- AllListen
  Burst <- NoBurst
  NoOne = NoOne
  Faults <- AllFaults
  MaxFaults = 2
\* Every worker may have been stopped.
CHECK_DEADLOCK FALSE
INVARIANTS TypeOK OneScheduler
PROPERTIES AlwaysServedAgain
