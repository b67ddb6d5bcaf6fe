-------------------------- MODULE QueueOrderProofs --------------------------
(***************************************************************************)
(* Theorems about QueueOrder.tla, for any jobs, names, callers, queues and *)
(* workers.                                                                *)
(***************************************************************************)
EXTENDS QueueOrder, FiniteSetTheorems, TLAPS

\* Who waits ahead of a job is still in its registry, with a score that is not
\* higher than the one the job has, or will have; no score lies in the future.
OrderInv ==
  /\ \A k \in queued : \A j \in ahead[k] :
       j \in Waiting(QueueOf[k]) /\ j # k /\ score[j] <= score[k]
  /\ \A c \in Callers : hand[c] # NoJob =>
       /\ \A j \in aheadOfHand[c] : j \in Waiting(QueueOf[hand[c]]) /\ score[j] <= readScore[c]
       /\ readScore[c] <= now
  /\ \A j \in queued : score[j] <= now

\* A round robin worker has a queue the nearer to the head of its list the more
\* often it has passed it over; a queue that it has found empty in this pop it
\* has not passed over yet.
TurnInv ==
  \A w \in Workers, q \in Queues :
    /\ passed[w][q] + place[w][q] < N
    /\ Strategy[w] # "round_robin" \/ place[w][q] < scanned[w] => passed[w][q] = 0

Inv == TypeOK /\ OrderInv /\ TurnInv

\* There are finitely many queues, at least one.
LEMMA NumberOfQueues == N \in Nat /\ N > 0
  BY QueueOrderAssumption, FS_CardinalityType, FS_EmptySet DEF N

\* The steps that leave the workers alone.
LEMMA WorkersAlone == Inv /\ UNCHANGED workerVars => TurnInv'
  BY DEF Inv, TurnInv, workerVars

\* The initial state has Inv.
LEMMA InvInit == Init => Inv
<1> SUFFICES ASSUME Init PROVE Inv
  OBVIOUS
<1> USE QueueOrderAssumption, NumberOfQueues DEF Init
<1>1. TypeOK
  BY DEF TypeOK
<1>2. OrderInv
  BY DEF OrderInv
<1>3. TurnInv
  <2> SUFFICES ASSUME NEW w \in Workers, NEW q \in Queues
               PROVE  passed[w][q] = 0 /\ place[w][q] \in 0..(N - 1)
    BY DEF TurnInv
  <2> QED
    BY DEF Orders
<1> QED
  BY <1>1, <1>2, <1>3 DEF Inv

\* The slices of a permutation put together are a permutation.
LEMMA RotatedOrder ==
  ASSUME NEW p \in Orders, NEW q \in Queues
  PROVE  Rotated(p, q) \in Orders
<1> USE NumberOfQueues DEF Orders
<1>1. \A r \in Queues : p[r] \in 0..(N - 1) /\ (p[r] = p[q] => r = q)
  OBVIOUS
<1>2. Rotated(p, q) \in [Queues -> 0..(N - 1)]
  BY <1>1 DEF Rotated
<1>3. ASSUME NEW r \in Queues, NEW s \in Queues, Rotated(p, q)[r] = Rotated(p, q)[s]
      PROVE  r = s
  <2>1. p[r] = p[s]
    BY <1>1, <1>3 DEF Rotated
  <2> QED
    BY <2>1
<1> QED
  BY <1>2, <1>3

\* The order of a worker stays a permutation of its list (reorder_queues).
LEMMA NewOrdersType ==
  ASSUME TypeOK, NEW w \in Workers, NEW q \in Queues
  PROVE  NewOrders(w, q) \subseteq Orders
<1>1. place[w] \in Orders
  BY DEF TypeOK
<1>2. Strategy[w] \in {"default", "round_robin", "random"}
  BY QueueOrderAssumption
<1> QED
  BY <1>1, <1>2, RotatedOrder DEF NewOrders

\* A name that leaves its registry keeps the order of the others.
LEMMA LeaveOrder ==
  ASSUME Inv, NEW j \in Jobs, Leave(j)
  PROVE  /\ OrderInv'
         /\ now' \in Int /\ queued' \in SUBSET Jobs /\ score' \in [Jobs -> Int]
         /\ hand' \in [Callers -> Jobs \cup {NoJob}] /\ readScore' \in [Callers -> Int]
         /\ ahead' \in [Jobs -> SUBSET Jobs] /\ aheadOfHand' \in [Callers -> SUBSET Jobs]
<1> USE QueueOrderAssumption DEF Inv, TypeOK
<1>1. OrderInv'
  BY DEF Leave, OrderInv, Waiting
<1> QED
  BY <1>1 DEF Leave

\* The turn of every queue comes nearer when worker w takes job j.
LEMMA PopTurn ==
  ASSUME Inv, NEW w \in Workers, NEW j \in Jobs, Pop(w, j)
  PROVE  TurnInv'
<1> USE QueueOrderAssumption, NumberOfQueues
<1> DEFINE q0 == QueueOf[j]
<1>1. q0 \in Queues
  OBVIOUS
<1>2. PICK p \in NewOrders(w, q0) : place' = [place EXCEPT ![w] = p]
  BY DEF Pop
<1>3. p \in Orders
  BY <1>1, <1>2, NewOrdersType DEF Inv
<1> SUFFICES ASSUME NEW v \in Workers, NEW q \in Queues
             PROVE  /\ passed'[v][q] + place'[v][q] < N
                    /\ Strategy[v] # "round_robin" \/ place'[v][q] < scanned'[v]
                         => passed'[v][q] = 0
  BY DEF TurnInv
<1>4. CASE v # w
  BY <1>4, <1>2 DEF Inv, TypeOK, TurnInv, Pop
<1>5. CASE v = w
  <2>1. place'[w] = p /\ p[q] \in 0..(N - 1) /\ scanned'[w] = 0
    BY <1>2, <1>3 DEF Inv, TypeOK, Pop, Orders
  <2>2. passed'[w][q] = IF Strategy[w] # "round_robin" \/ q = q0 \/ Waiting(q) = {} THEN 0
                        ELSE passed[w][q] + 1
    BY DEF Inv, TypeOK, Pop
  <2>3. CASE Strategy[w] # "round_robin" \/ q = q0 \/ Waiting(q) = {}
    BY <1>5, <2>1, <2>2, <2>3
  <2>4. CASE Strategy[w] = "round_robin" /\ q # q0 /\ Waiting(q) # {}
    <3>1. p = Rotated(place[w], q0)
      BY <1>2, <2>4 DEF NewOrders
    <3>2. /\ place[w] \in [Queues -> 0..(N - 1)]
          /\ place[w][q] # place[w][q0]
          /\ passed[w][q] \in Nat /\ scanned[w] \in 0..N
      BY <1>1, <2>4 DEF Inv, TypeOK, Orders
    <3>3. CASE place[w][q] > place[w][q0]
      BY <1>1, <1>5, <2>1, <2>2, <2>4, <3>1, <3>2, <3>3 DEF Rotated, Inv, TurnInv
    <3>4. CASE place[w][q] < place[w][q0]
      <4>1. place[w][q] < scanned[w]
        BY <1>1, <2>4, <3>2, <3>4 DEF Pop, ComesTo
      <4>2. passed[w][q] = 0
        BY <4>1 DEF Inv, TurnInv
      <4> QED
        BY <1>1, <1>5, <2>1, <2>2, <2>4, <3>1, <3>2, <3>4, <4>2 DEF Rotated
    <3> QED
      BY <1>1, <3>2, <3>3, <3>4
  <2> QED
    BY <2>3, <2>4
<1> QED
  BY <1>4, <1>5

\* Inv is kept by every step: a push at the last timestamp, or now, is behind
\* all that was there; a take brings every queue that waits nearer to its turn.
LEMMA InvStep == Inv /\ [Next]_vars => Inv'
<1> SUFFICES ASSUME Inv, [Next]_vars PROVE Inv'
  OBVIOUS
<1> USE QueueOrderAssumption, NumberOfQueues DEF Inv
<1>1. CASE UNCHANGED vars
  <2>1. TypeOK' /\ OrderInv'
    BY <1>1 DEF TypeOK, OrderInv, Waiting, vars, registry, handVars, workerVars
  <2> QED
    BY <1>1, <2>1, WorkersAlone DEF vars
<1>2. CASE Tick
  <2>1. TypeOK' /\ OrderInv'
    BY <1>2 DEF TypeOK, OrderInv, Waiting, Tick, registry, handVars, workerVars
  <2> QED
    BY <1>2, <2>1, WorkersAlone DEF Tick
<1>3. ASSUME NEW c \in Callers, NEW j \in Jobs, NEW s \in Int, Take(c, j, s),
             s <= now, \A k \in Waiting(QueueOf[j]) : score[k] <= s
      PROVE  Inv'
  <2>1. TypeOK'
    BY <1>3 DEF TypeOK, Take, registry, workerVars, Waiting
  <2>2. OrderInv'
    BY <1>3 DEF TypeOK, Take, OrderInv, registry, Waiting
  <2> QED
    BY <1>3, <2>1, <2>2, WorkersAlone DEF Take
<1>4. ASSUME NEW c \in Callers, NEW j \in Jobs, ReadScore(c, j) PROVE Inv'
  <2>1. PICK s \in {score[k] : k \in Waiting(QueueOf[j])} \cup {now} :
          /\ IF Waiting(QueueOf[j]) = {} THEN s = now ELSE IsLastTimestamp(s, QueueOf[j])
          /\ Take(c, j, s)
    BY <1>4 DEF ReadScore
  <2>2. s \in Int /\ s <= now /\ \A k \in Waiting(QueueOf[j]) : score[k] <= s
    BY <2>1 DEF TypeOK, OrderInv, IsLastTimestamp, Waiting
  <2> QED
    BY <2>1, <2>2, <1>3
<1>5. ASSUME NEW c \in Callers, NEW j \in Jobs, ReadScoreAtFront(c, j) PROVE Inv'
  <2>1. now \in Int /\ now <= now /\ \A k \in Waiting(QueueOf[j]) : score[k] <= now
    BY DEF TypeOK, OrderInv, Waiting
  <2> QED
    BY <1>5, <2>1, <1>3 DEF ReadScoreAtFront
<1>6. ASSUME NEW c \in Callers, Push(c) PROVE Inv'
  <2>1. TypeOK'
    BY <1>6 DEF TypeOK, Push, workerVars
  <2>2. OrderInv'
    BY <1>6 DEF TypeOK, Push, OrderInv, Waiting
  <2> QED
    BY <1>6, <2>1, <2>2, WorkersAlone DEF Push
<1>7. ASSUME NEW w \in Workers, NEW j \in Jobs, Pop(w, j) PROVE Inv'
  <2>1. Leave(j) /\ QueueOf[j] \in Queues
    BY <1>7 DEF Pop
  <2>2. PICK p \in Orders : place' = [place EXCEPT ![w] = p]
    BY <1>7, <2>1, NewOrdersType DEF Pop
  <2>3. place' \in [Workers -> Orders] /\ scanned' \in [Workers -> 0..N]
    BY <1>7, <2>2 DEF TypeOK, Pop
  <2>4. passed' \in [Workers -> [Queues -> Nat]]
    BY <1>7 DEF TypeOK, Pop
  <2>5. TypeOK' /\ OrderInv'
    BY <2>1, <2>3, <2>4, LeaveOrder DEF TypeOK
  <2> QED
    BY <1>7, <2>5, PopTurn
<1>8. ASSUME NEW w \in Workers, NEW j \in Jobs, PopDead(w, j) PROVE Inv'
  <2>1. Leave(j)
    BY <1>8 DEF PopDead
  <2>2. TypeOK' /\ OrderInv'
    BY <1>8, <2>1, LeaveOrder DEF TypeOK, PopDead
  <2>3. TurnInv'
    BY <1>8 DEF TurnInv, TypeOK, PopDead, Orders
  <2> QED
    BY <2>2, <2>3
<1>9. ASSUME NEW w \in Workers, NEW q \in Queues, FindEmpty(w, q) PROVE Inv'
  <2>1. scanned[w] = place[w][q] /\ place[w] \in Orders
    BY <1>9 DEF TypeOK, FindEmpty
  <2>2. TypeOK'
    BY <1>9, <2>1 DEF TypeOK, FindEmpty, registry, handVars, Orders
  <2>3. OrderInv'
    BY <1>9 DEF OrderInv, Waiting, FindEmpty, registry, handVars
  <2>4. TurnInv'
    <3> SUFFICES ASSUME NEW v \in Workers, NEW r \in Queues
                 PROVE  /\ passed'[v][r] + place[v][r] < N
                        /\ Strategy[v] # "round_robin" \/ place[v][r] < scanned'[v]
                             => passed'[v][r] = 0
      BY <1>9 DEF TurnInv, FindEmpty
    <3>1. place[v] \in Orders /\ place[v][r] \in 0..(N - 1)
      BY DEF TypeOK, Orders
    <3>2. CASE v = w /\ r = q
      BY <1>9, <3>1, <3>2 DEF TypeOK, FindEmpty
    <3>3. CASE v = w /\ r # q
      <4>1. place[w][r] # place[w][q]
        BY <2>1, <3>3 DEF Orders
      <4>2. place[w][r] < scanned'[w] => place[w][r] < scanned[w]
        <5>1. scanned'[w] = scanned[w] + 1 /\ scanned[w] \in 0..N
          BY <1>9 DEF TypeOK, FindEmpty
        <5>2. place[w][r] \in 0..(N - 1) /\ scanned[w] = place[w][q]
          BY <2>1, <3>1, <3>3
        <5> QED
          BY <4>1, <5>1, <5>2
      <4>3. passed'[w][r] = passed[w][r]
        BY <1>9, <3>3 DEF TypeOK, FindEmpty
      <4> QED
        BY <3>3, <4>2, <4>3 DEF TurnInv
    <3>4. CASE v # w
      BY <1>9, <3>4 DEF TypeOK, FindEmpty, TurnInv
    <3> QED
      BY <3>2, <3>3, <3>4
  <2> QED
    BY <2>2, <2>3, <2>4
<1>10. ASSUME NEW w \in Workers, Reconnect(w) PROVE Inv'
  <2>1. TypeOK' /\ OrderInv'
    BY <1>10 DEF TypeOK, OrderInv, Waiting, Reconnect, registry, handVars
  <2>2. TurnInv'
    BY <1>10 DEF TypeOK, TurnInv, Reconnect, Orders
  <2> QED
    BY <2>1, <2>2
<1>11. ASSUME NEW w \in Workers, Quit(w) PROVE Inv'
  <2>1. TypeOK' /\ OrderInv'
    BY <1>11 DEF TypeOK, OrderInv, Waiting, Quit, registry, handVars
  <2>2. TurnInv'
    BY <1>11 DEF TypeOK, TurnInv, Quit, Orders
  <2> QED
    BY <2>1, <2>2
<1>12. ASSUME NEW j \in Jobs, Remove(j) PROVE Inv'
  <2>1. TypeOK' /\ OrderInv'
    BY <1>12, LeaveOrder DEF TypeOK, Remove, workerVars
  <2> QED
    BY <1>12, <2>1, WorkersAlone DEF Remove
<1> QED
  BY <1>1, <1>2, <1>4, <1>5, <1>6, <1>7, <1>8, <1>9, <1>10, <1>11, <1>12 DEF Next

\* What a pop takes out of the registry, given the invariant.
LEMMA PopOrder ==
  ASSUME Inv, NEW w \in Workers, NEW k \in Jobs, Pop(w, k), NEW j \in ahead[k]
  PROVE  score[j] = score[k] /\ Rank[k] < Rank[j]
<1>1. k \in queued /\ j \in Waiting(QueueOf[k]) \ {k} /\ score[j] <= score[k]
  BY DEF Inv, OrderInv, Pop, IsFirst
<1>2. score[k] < score[j] \/ (score[k] = score[j] /\ Rank[k] < Rank[j])
  BY <1>1 DEF Pop, IsFirst
<1>3. score[j] \in Int /\ score[k] \in Int
  BY <1>1 DEF Inv, TypeOK, Waiting
<1> QED
  BY <1>1, <1>2, <1>3

\* Inv holds in every state.
LEMMA Invariance == Spec => []Inv
  BY InvInit, InvStep, PTL DEF Spec

\* Every variable keeps its type: the list of a worker stays a permutation of
\* the queues it was given (reorder_queues).
THEOREM TypeCorrect == Spec => []TypeOK
  BY Invariance, PTL DEF Inv

\* A job that waits is overtaken by one enqueued after it only between equal
\* scores, by the lower name: for any callers, with any delay between the
\* reading of the last timestamp and the push (enqueue_job, pop).
THEOREM OvertakingIsByName == Spec => OvertakenOnlyByName
<1>1. Inv /\ [Next]_vars =>
        [\A w \in Workers, k \in Jobs : Pop(w, k) =>
           \A j \in ahead[k] : score[j] = score[k] /\ Rank[k] < Rank[j]]_vars
  BY PopOrder
<1> QED
  BY Invariance, <1>1, PTL DEF Spec, OvertakenOnlyByName

\* A round robin worker serves a queue with jobs before it has taken as many
\* jobs from other queues as there are queues: for any number of queues, in any
\* order, with any other workers (reorder_queues, dequeue_any, pop).
THEOREM RoundRobinIsFair == Spec => []ServedInTurn
<1>1. Inv => ServedInTurn
  <2> SUFFICES ASSUME Inv, NEW w \in Workers, NEW q \in Queues
               PROVE  passed[w][q] < N
    BY DEF ServedInTurn
  <2>1. place[w] \in Orders /\ place[w][q] \in 0..(N - 1) /\ passed[w][q] \in Nat
    BY DEF Inv, TypeOK, Orders
  <2>2. passed[w][q] + place[w][q] < N
    BY DEF Inv, TurnInv
  <2> QED
    BY <2>1, <2>2, NumberOfQueues
<1> QED
  BY Invariance, <1>1, PTL
=============================================================================
