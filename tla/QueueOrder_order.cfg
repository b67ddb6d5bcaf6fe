SPECIFICATION Spec
CONSTANTS
  j1 = j1  j2 = j2  j3 = j3  j4 = j4  c1 = c1  c2 = c2
  qa = qa  qb = qb  qc = qc  w1 = w1  w2 = w2
  Jobs <- SomeJobs
  Rank <- NameOrder
  Queues <- SomeQueues
  QueueOf <- JobQueues
  Callers <- SomeCallers
  Workers <- SomeWorkers
  Burst <- BurstWorkers
  Strategy <- Strategies
  Given <- Lists
  NoJob = NoJob
  MaxTime = 1
SYMMETRY CallerSymmetry
INVARIANTS TypeOK ServedInTurn
 
