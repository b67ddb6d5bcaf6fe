----------------------------- MODULE QueueOrder -----------------------------
(***************************************************************************)
(* Which job a worker takes next: the order of the jobs within a queue,    *)
(* and the order in which a worker tries its queues.                       *)
(*                                                                         *)
(* The queued registry is a sorted set: Queue.enqueue_job gives a job a    *)
(* score, JobNamesRegistry.pop takes the name with the lowest score and,   *)
(* between equal scores, the lowest name.  The score is read from the      *)
(* broker (get_last_timestamp) before the pipeline that stores it is       *)
(* executed, so that other callers and workers come in between.            *)
(*                                                                         *)
(* pop goes through the registries in the worker's order: at once in       *)
(* BZPOPMIN, one ZPOPMIN after the other in a burst worker.  After a job   *)
(* is taken reorder_queues changes the order by the dequeue strategy.      *)
(***************************************************************************)
EXTENDS Integers, FiniteSets

CONSTANTS
  Jobs,     \* names of jobs
  Rank,     \* Rank[j]: the place of j in the byte order of the names
  Queues,   \* names of queues
  QueueOf,  \* QueueOf[j]: the queue of job j
  Callers,  \* threads that enqueue jobs
  Workers,  \* workers, each of all the queues
  Burst,    \* the workers that run in burst mode: they never wait
  Strategy, \* Strategy[w]: the dequeue strategy of w
  Given,    \* Given[w][q]: the index of q in the list that w is started with
  NoJob,    \* "no job" in a caller's hands
  MaxTime   \* bound: the clock stops there

N == Cardinality(Queues)

\* The orders a list of the queues may have: the index of every queue.
Orders == {p \in [Queues -> 0..(N - 1)] : \A q, r \in Queues : p[q] = p[r] => q = r}

ASSUME QueueOrderAssumption ==
  /\ NoJob \notin Jobs
  /\ Rank \in [Jobs -> Int]
  /\ \A j, k \in Jobs : Rank[j] = Rank[k] => j = k
  /\ IsFiniteSet(Queues) /\ Queues # {}
  /\ QueueOf \in [Jobs -> Queues]
  /\ Burst \subseteq Workers
  /\ Strategy \in [Workers -> {"default", "round_robin", "random"}]
  /\ Given \in [Workers -> Orders]
  /\ MaxTime \in Int

VARIABLES
  now,      \* current_timestamp(), in whole seconds
  queued,   \* the names in the queued registries
  score,    \* the score of each name in them, 0 for other jobs
  hand,     \* the job each caller is about to push
  readScore,\* the score the caller has computed for it, 0 without a job
  place,    \* place[w][q]: the index of queue q in w's _ordered_queues
  scanned,  \* how many registries a burst worker has found empty in this pop
  \* Auxiliary: the jobs that were in j's queue when job j (when a caller's
  \* job) began to be enqueued, and that have been there ever since.
  ahead, aheadOfHand,
  \* Auxiliary: how many jobs a round robin worker has taken from other queues
  \* while q had jobs, since it last took one from q or found q empty.
  passed

registry == <<queued, score, ahead>>
handVars == <<hand, readScore, aheadOfHand>>
workerVars == <<place, scanned, passed>>
vars == <<now, registry, handVars, workerVars>>

Waiting(q) == {j \in queued : QueueOf[j] = q}

\* The highest score in the registry of queue q: ZRANGE -1 -1 WITHSCORES.
IsLastTimestamp(s, q) ==
  /\ \E j \in Waiting(q) : s = score[j]
  /\ \A j \in Waiting(q) : score[j] <= s

Init ==
  /\ now = 0
  /\ queued = {}
  /\ score = [j \in Jobs |-> 0]
  /\ hand = [c \in Callers |-> NoJob]
  /\ readScore = [c \in Callers |-> 0]
  /\ ahead = [j \in Jobs |-> {}]
  /\ aheadOfHand = [c \in Callers |-> {}]
  /\ place = Given
  /\ scanned = [w \in Workers |-> 0]
  /\ passed = [w \in Workers |-> [q \in Queues |-> 0]]

Tick ==
  /\ now < MaxTime
  /\ now' = now + 1
  /\ UNCHANGED <<registry, handVars, workerVars>>

-----------------------------------------------------------------------------
\* Enqueueing.

\* Caller c has computed the score s of job j, and has yet to push it.
Take(c, j, s) ==
  /\ hand[c] = NoJob
  /\ hand' = [hand EXCEPT ![c] = j]
  /\ readScore' = [readScore EXCEPT ![c] = s]
  /\ aheadOfHand' = [aheadOfHand EXCEPT ![c] = Waiting(QueueOf[j]) \ {j}]
  /\ UNCHANGED <<now, registry, workerVars>>

\* Mutant: a normal job gets the lowest score in the registry.
ReadScore_First(c, j) ==
  \E s \in {score[k] : k \in Waiting(QueueOf[j])} \cup {now} :
    /\ \A k \in Waiting(QueueOf[j]) : s <= score[k]
    /\ Take(c, j, s)

\* enqueue_job without at_front: the last timestamp in the registry, or now.
ReadScore(c, j) ==
  \E s \in {score[k] : k \in Waiting(QueueOf[j])} \cup {now} :
    /\ IF Waiting(QueueOf[j]) = {} THEN s = now ELSE IsLastTimestamp(s, QueueOf[j])
    /\ Take(c, j, s)

\* enqueue_job with at_front: now.
ReadScoreAtFront(c, j) == Take(c, j, now)

\* ZADD: the job enters the registry, or moves in it.
Push(c) ==
  /\ hand[c] # NoJob
  /\ queued' = queued \cup {hand[c]}
  /\ score' = [score EXCEPT ![hand[c]] = readScore[c]]
  /\ ahead' = [k \in Jobs |-> IF k = hand[c] THEN aheadOfHand[c] \ {hand[c]}
                                             ELSE ahead[k] \ {hand[c]}]
  /\ aheadOfHand' = [d \in Callers |-> IF d = c THEN {} ELSE aheadOfHand[d] \ {hand[c]}]
  /\ hand' = [hand EXCEPT ![c] = NoJob]
  /\ readScore' = [readScore EXCEPT ![c] = 0]
  /\ UNCHANGED <<now, workerVars>>

-----------------------------------------------------------------------------
\* Dequeueing.

Leave(j) ==
  /\ j \in queued
  /\ queued' = queued \ {j}
  /\ score' = [score EXCEPT ![j] = 0]
  /\ ahead' = [k \in Jobs |-> IF k = j THEN {} ELSE ahead[k] \ {j}]
  /\ aheadOfHand' = [c \in Callers |-> aheadOfHand[c] \ {j}]
  /\ UNCHANGED <<now, hand, readScore>>

\* The first of its registry: ZPOPMIN, BZPOPMIN.
IsFirst(j) ==
  /\ j \in queued
  /\ \A k \in Waiting(QueueOf[j]) \ {j} :
       score[j] < score[k] \/ (score[j] = score[k] /\ Rank[j] < Rank[k])

\* Mutant: the slice starts at the queue that was served.
Rotated_Stays(p, q) ==
  [r \in Queues |-> IF p[r] >= p[q] THEN p[r] - p[q] ELSE p[r] + N - p[q]]

\* Mutant: the second slice ends past the queue that was served.
Rotated_TooFar(p, q) ==
  [r \in Queues |-> IF p[r] > p[q] THEN p[r] - p[q] - 1 ELSE p[r] + N - p[q]]

\* _ordered_queues[pos + 1:] + _ordered_queues[:pos + 1], pos the place of q.
Rotated(p, q) ==
  [r \in Queues |-> IF p[r] > p[q] THEN p[r] - p[q] - 1 ELSE p[r] + N - p[q] - 1]

\* What reorder_queues makes of w's order after a job of queue q.
NewOrders(w, q) ==
  CASE Strategy[w] = "default"     -> {place[w]}
    [] Strategy[w] = "round_robin" -> {Rotated(place[w], q)}
    [] Strategy[w] = "random"      -> Orders

\* pop has come to queue q: the registries before it are empty, or a burst
\* worker has found them empty.
ComesTo(w, q) ==
  /\ scanned[w] <= place[w][q]
  /\ \A r \in Queues : scanned[w] <= place[w][r] /\ place[w][r] < place[w][q] => Waiting(r) = {}

\* dequeue_any returns the first job of queue q; the worker reorders its queues.
Pop(w, j) ==
  /\ ComesTo(w, QueueOf[j]) /\ IsFirst(j)
  /\ Leave(j)
  /\ \E p \in NewOrders(w, QueueOf[j]) : place' = [place EXCEPT ![w] = p]
  /\ scanned' = [scanned EXCEPT ![w] = 0]
  /\ passed' = [passed EXCEPT ![w] = [r \in Queues |->
       IF Strategy[w] # "round_robin" \/ r = QueueOf[j] \/ Waiting(r) = {} THEN 0
       ELSE @[r] + 1]]

\* The name dequeue_any popped has no record: it starts again, as it is.
PopDead(w, j) ==
  /\ ComesTo(w, QueueOf[j]) /\ IsFirst(j)
  /\ Leave(j)
  /\ scanned' = [scanned EXCEPT ![w] = 0]
  /\ UNCHANGED <<place, passed>>

\* One ZPOPMIN of a burst worker comes back empty.
FindEmpty(w, q) ==
  /\ w \in Burst
  /\ place[w][q] = scanned[w] /\ Waiting(q) = {}
  /\ scanned' = [scanned EXCEPT ![w] = @ + 1]
  /\ passed' = [passed EXCEPT ![w][q] = 0]
  /\ UNCHANGED <<now, registry, handVars, place>>

\* A connection error: the worker asks again, from its first queue.
Reconnect(w) ==
  /\ scanned[w] > 0 /\ scanned[w] < N
  /\ scanned' = [scanned EXCEPT ![w] = 0]
  /\ UNCHANGED <<now, registry, handVars, place, passed>>

\* A burst worker that found nothing quits; another is started like it.
Quit(w) ==
  /\ scanned[w] = N
  /\ scanned' = [scanned EXCEPT ![w] = 0]
  /\ place' = [place EXCEPT ![w] = Given[w]]
  /\ passed' = [passed EXCEPT ![w] = [q \in Queues |-> 0]]
  /\ UNCHANGED <<now, registry, handVars>>

\* cancel_job, delete_job, clearing, compact take a name out of anywhere.
Remove(j) == Leave(j) /\ UNCHANGED workerVars

Next ==
  \/ Tick
  \/ \E c \in Callers : \/ Push(c)
                        \/ \E j \in Jobs : ReadScore(c, j) \/ ReadScoreAtFront(c, j)
  \/ \E w \in Workers : \/ \E j \in Jobs : Pop(w, j) \/ PopDead(w, j)
                        \/ \E q \in Queues : FindEmpty(w, q)
                        \/ Reconnect(w) \/ Quit(w)
  \/ \E j \in Jobs : Remove(j)

Spec == Init /\ [][Next]_vars

-----------------------------------------------------------------------------
\* Every variable has its type; the places of a worker's queues are a
\* permutation of its list, whatever slices and shuffles made it.
TypeOK ==
  /\ now \in Int
  /\ queued \in SUBSET Jobs
  /\ score \in [Jobs -> Int]
  /\ hand \in [Callers -> Jobs \cup {NoJob}]
  /\ readScore \in [Callers -> Int]
  /\ ahead \in [Jobs -> SUBSET Jobs] /\ aheadOfHand \in [Callers -> SUBSET Jobs]
  /\ place \in [Workers -> Orders]
  /\ scanned \in [Workers -> 0..N]
  /\ passed \in [Workers -> [Queues -> Nat]]

\* A job that was in its queue when the enqueueing of another one began is
\* overtaken by it only when their scores are equal and the other's name is
\* lower, whatever callers and workers do in between (enqueue_job, pop).
OvertakenOnlyByName ==
  [][\A w \in Workers, k \in Jobs : Pop(w, k) =>
       \A j \in ahead[k] : score[j] = score[k] /\ Rank[k] < Rank[j]]_vars

\* A round robin worker passes over a queue with jobs at most once for each of
\* its other queues, then serves it (reorder_queues): also a burst worker, that
\* reads its queues one by one while jobs arrive behind its back.
ServedInTurn ==
  \A w \in Workers, q \in Queues : passed[w][q] < N
=============================================================================
