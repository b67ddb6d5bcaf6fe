-------------------------- MODULE ChecklistProofs --------------------------
(***************************************************************************)
(* Proofs about Checklist: type correctness with the foreign key of the    *)
(* subtasks, that the two counts of a rating or a statistic fit, that a    *)
(* form leaves the list it posted, and that the orders of a list differ.   *)
(***************************************************************************)
EXTENDS Checklist, FiniteSetTheorems, TLAPS

-----------------------------------------------------------------------------
(* What queries find *)

\* A query finds finitely many rows, so that they can be counted.
LEMMA FoundFinite ==
  ASSUME NEW tasks, NEW subs, NEW q \in QueryType
  PROVE  /\ IsFiniteSet(Found(tasks, subs, q))
         /\ Cardinality(Found(tasks, subs, q)) \in Nat
<1>1. Found(tasks, subs, q) \subseteq Tasks \/ Found(tasks, subs, q) \subseteq Subs
  BY DEF Found, QueryType
<1>2. IsFiniteSet(Found(tasks, subs, q))
  BY <1>1, FS_Subset, ChecklistAssumption
<1> QED
  BY <1>2, FS_CardinalityType

\* Every statistic and every rating is a query.
LEMMA QueriesType ==
  /\ TaskCounts \cup SubCounts \cup DayCounts \subseteq QueryType
  /\ \A t \in Tasks : RatingOf(t) \in QueryType
<1> USE ChecklistAssumption
<1>1. ASSUME NEW rows \in {"tasks", "subs"}, NEW tasks \in SUBSET Tasks,
             NEW dates \in SUBSET Dates, NEW categories \in SUBSET Categories
      PROVE  Query(rows, tasks, dates, categories) \in QueryType
  BY DEF Query, QueryType
<1>2. \A p \in Periods : p \in SUBSET Dates
  OBVIOUS
<1>3. TaskCounts \subseteq QueryType
  <2>1. ASSUME NEW p \in Periods, NEW c \in Categories
        PROVE  Query("tasks", Tasks, p, {c}) \in QueryType
    BY <1>2 DEF Query, QueryType
  <2>2. ASSUME NEW c \in Categories
        PROVE  {Query("tasks", Tasks, p, {c}) : p \in Periods} \subseteq QueryType
    BY <2>1
  <2> QED
    BY <2>2 DEF TaskCounts
<1>4. SubCounts \subseteq QueryType
  <2>1. ASSUME NEW p \in Periods
        PROVE  Query("subs", Tasks, p, Categories) \in QueryType
    BY <1>2 DEF Query, QueryType
  <2> QED
    BY <2>1 DEF SubCounts
<1>5. DayCounts \subseteq QueryType
  <2>1. ASSUME NEW d \in Dates
        PROVE  Query("tasks", Tasks, {d}, Categories) \in QueryType
    BY DEF Query, QueryType
  <2> QED
    BY <2>1 DEF DayCounts
<1>6. \A t \in Tasks : RatingOf(t) \in QueryType
  BY <1>1 DEF RatingOf
<1> QED
  BY <1>3, <1>4, <1>5, <1>6

\* What noting a loss does to the counts that are being made.
LEMMA Losses ==
  ASSUME TypeOK, NoteLosses
  PROVE  /\ count' \in [Requests -> CountType \cup {Nothing}]
         /\ \A r \in Requests :
              /\ count'[r] # Nothing <=> count[r] # Nothing
              /\ count[r] # Nothing =>
                   LET q == count[r].query
                       gone == Matching(q) \ Found(task', sub', q)
                   IN count'[r] = [count[r] EXCEPT !.lost = @ + Cardinality(gone)]
<1>1. ASSUME NEW r \in Requests, count[r] # Nothing
      PROVE  LET q == count[r].query
                 gone == Matching(q) \ Found(task', sub', q)
             IN [count[r] EXCEPT !.lost = @ + Cardinality(gone)] \in CountType
  <2> DEFINE q == count[r].query
             gone == Matching(q) \ Found(task', sub', q)
  <2>1. count[r] \in CountType
    BY <1>1 DEF TypeOK
  <2>2. q \in QueryType
    BY <2>1 DEF CountType
  <2>3. IsFiniteSet(Matching(q)) /\ gone \subseteq Matching(q)
    BY <2>2, FoundFinite DEF Matching
  <2>4. Cardinality(gone) \in Nat
    BY <2>3, FS_Subset, FS_CardinalityType
  <2> HIDE DEF gone
  <2>5. [count[r] EXCEPT !.lost = @ + Cardinality(gone)] \in CountType
    BY <2>1, <2>4 DEF CountType
  <2> QED
    BY <2>5 DEF gone
<1> QED
  BY <1>1, NothingAssumption DEF NoteLosses

-----------------------------------------------------------------------------
(* Types *)

LEMMA TypeInit == Init => TypeOK
BY DEF Init, TypeOK, Live, Idle, TaskSteps, ListSteps, RatingSteps

USE DEF Idle, TaskSteps, ListSteps, RatingSteps, Goto, tables, work

\* A request that ends holds nothing.
LEMMA TypeEnd ==
  ASSUME TypeOK, NEW r \in Requests, NEW step \in Idle, End(r, step),
         UNCHANGED <<tables, mixed>>, asked' = asked
  PROVE  TypeOK'
BY DEF TypeOK, End, Live

LEMMA TypeTaskRequest ==
  ASSUME TypeOK, NEW r \in Requests, TaskRequest(r) PROVE TypeOK'
<1> USE ChecklistAssumption, NothingAssumption
<1>1. ASSUME NEW d \in Dates, NEW c \in Categories, NEW list \in Lists \cup {Nothing},
             NewTask(r, d, c, list)
      PROVE  TypeOK'
  <2>1. [date |-> d, category |-> c, done |-> FALSE] \in TaskRow
    BY DEF TaskRow
  <2> DEFINE new == [date |-> d, category |-> c, done |-> FALSE]
             orders == IF list = Nothing THEN <<>> ELSE list
  <2>2. orders \in Seq(Nat)
    OBVIOUS
  <2>3. /\ pc[r] = "idle" /\ pc' = [pc EXCEPT ![r] = "insert"] /\ asked' = asked + 1
        /\ row' = [row EXCEPT ![r] = new] /\ todo' = [todo EXCEPT ![r] = orders]
        /\ UNCHANGED <<tables, at, item, posted, count, mixed>>
    BY <1>1 DEF NewTask, Begin
  <2> HIDE DEF new, orders
  <2>4. new \in TaskRow
    BY <2>1 DEF new
  <2> QED
    BY <2>2, <2>3, <2>4 DEF TypeOK, Live
<1>2. ASSUME NEW t \in Tasks, NEW new \in TaskRow, NEW list \in Lists \cup {Nothing},
             NEW step \in {"update", "mark"}, OpenTask(r, t, new, list, step)
      PROVE  TypeOK'
  <2>1. t \in given /\ t # Nothing /\ list \in Seq(Nat) \cup {Nothing}
    BY <1>2 DEF OpenTask, TypeOK
  <2> QED
    BY <1>2, <2>1 DEF TypeOK, OpenTask, Begin, Live
<1>3. ASSUME NEW d \in Dates, NEW c \in Categories, NEW list \in Lists \cup {Nothing},
             NEW t \in Tasks, EditTask(r, t, d, c, list)
      PROVE  TypeOK'
  <2>1. task[t] \in TaskRow
    BY <1>3 DEF EditTask, OpenTask, TypeOK, Live
  <2>2. [task[t] EXCEPT !.date = d, !.category = c] \in TaskRow
    BY <2>1 DEF TaskRow
  <2> QED
    BY <1>2, <1>3, <2>2 DEF EditTask
<1>4. ASSUME NEW t \in Tasks, NEW done \in BOOLEAN, ToggleTask(r, t, done)
      PROVE  TypeOK'
  <2>1. task[t] \in TaskRow
    BY <1>4 DEF ToggleTask, OpenTask, TypeOK, Live
  <2>2. [task[t] EXCEPT !.done = done] \in TaskRow
    BY <2>1 DEF TaskRow
  <2> QED
    BY <1>2, <1>4, <2>2 DEF ToggleTask
<1>5. ASSUME NEW t \in Tasks, CopyTask(r, t) PROVE TypeOK'
  <2>1. task[t] \in TaskRow /\ task[t].date + 1 \in Dates /\ t \in given
    BY <1>5 DEF CopyTask, TypeOK, Live
  <2>2. [task[t] EXCEPT !.date = @ + 1, !.done = FALSE] \in TaskRow
    BY <2>1 DEF TaskRow
  <2> QED
    BY <1>5, <2>1, <2>2 DEF TypeOK, CopyTask, Begin, Live
<1>6. CASE InsertTask(r)
  <2>1. PICK t \in Tasks \ given :
          /\ given' = given \cup {t}
          /\ task' = [task EXCEPT ![t] = row[r]]
          /\ at' = [at EXCEPT ![r] = t]
    BY <1>6 DEF InsertTask
  <2>2. row[r] \in TaskRow
    BY <1>6 DEF InsertTask, TypeOK
  <2>3. task' \in [Tasks -> TaskRow \cup {Nothing}] /\ Live' = Live \cup {t}
    BY <2>1, <2>2 DEF TypeOK, Live
  <2> QED
    BY <1>6, <2>1, <2>2, <2>3 DEF TypeOK, InsertTask
<1>7. CASE CollectList(r)
  <2>1. PICK list \in Listings(item[r]) : todo' = [todo EXCEPT ![r] = list]
    BY <1>7 DEF CollectList
  <2>2. Orders(item[r]) \subseteq Nat
    BY DEF Orders, ListOf, TypeOK, SubRow
  <2>3. Cardinality(ListOf(item[r])) \in Nat
    <3>1. IsFiniteSet(ListOf(item[r]))
      BY FS_Subset DEF ListOf
    <3> QED
      BY <3>1, FS_CardinalityType
  <2>4. list \in [1 .. Cardinality(ListOf(item[r])) -> Orders(item[r])]
    BY <2>1 DEF Listings
  <2>5. list \in Seq(Nat)
    BY <2>2, <2>3, <2>4
  <2>6. mixed' \subseteq Tasks \cap given
    BY <1>7 DEF CollectList, TypeOK
  <2> QED
    BY <1>7, <2>1, <2>5, <2>6 DEF CollectList, TypeOK, Live
<1>8. CASE SaveTask(r)
  <2>1. row[r] \in TaskRow /\ at[r] \in Tasks /\ at[r] \in given
    BY <1>8 DEF SaveTask, TypeOK
  <2>2. /\ task' \in [Tasks -> TaskRow \cup {Nothing}]
        /\ Live' = Live \cup {at[r]}
    BY <1>8, <2>1 DEF SaveTask, TypeOK, Live
  <2>3. count' \in [Requests -> CountType \cup {Nothing}]
        /\ \A q \in Requests : count'[q] # Nothing <=> count[q] # Nothing
    BY <1>8, Losses DEF SaveTask
  <2>4. row' = [row EXCEPT ![r] = Nothing]
        /\ pc' = [pc EXCEPT ![r] = IF pc[r] = "mark" THEN "exists" ELSE "drop"]
        /\ UNCHANGED <<sub, given, at, item, todo, asked, posted, mixed>>
    BY <1>8 DEF SaveTask
  <2> QED
    BY <2>1, <2>2, <2>3, <2>4 DEF TypeOK
<1> QED
  BY <1>1, <1>3, <1>4, <1>5, <1>6, <1>7, <1>8 DEF TaskRequest

\* A row less: the subtasks left have their tasks.
LEMMA WithoutSubs ==
  ASSUME TypeOK, NEW keys, sub' = Without(sub, keys)
  PROVE  /\ sub' \in [Subs -> SubRow \cup {Nothing}]
         /\ \A s \in Subs : sub'[s] # Nothing => s \notin keys /\ sub'[s] = sub[s]
BY DEF TypeOK, Without

LEMMA TypeListRequest ==
  ASSUME TypeOK, NEW r \in Requests, ListRequest(r) PROVE TypeOK'
<1> USE ChecklistAssumption, NothingAssumption
<1>1. CASE DropList(r)
  <2>1. /\ sub' \in [Subs -> SubRow \cup {Nothing}]
        /\ \A s \in Subs : sub'[s] # Nothing => sub'[s] = sub[s]
    BY <1>1, WithoutSubs DEF DropList
  <2>2. count' \in [Requests -> CountType \cup {Nothing}]
        /\ \A q \in Requests : count'[q] # Nothing <=> count[q] # Nothing
    BY <1>1, Losses DEF DropList
  <2>3. mixed' \subseteq Tasks \cap given
    BY <1>1 DEF DropList, NoteEmpty, TypeOK
  <2>4. /\ posted' = [posted EXCEPT ![r] = <<>>]
        /\ pc' = [pc EXCEPT ![r] = "post"] /\ pc[r] = "drop" /\ todo[r] # Nothing
        /\ UNCHANGED <<task, given, at, item, row, todo, asked>>
    BY <1>1 DEF DropList
  <2> QED
    BY <2>1, <2>2, <2>3, <2>4 DEF TypeOK, Live
<1>2. CASE KeepList(r)
  BY <1>2, TypeEnd DEF KeepList, Finish
<1>3. CASE InsertSub(r)
  <2>1. PICK s \in Subs \ given :
          /\ given' = given \cup {s}
          /\ sub' = [sub EXCEPT ![s] =
               [task |-> at[r], done |-> FALSE, order |-> Head(todo[r])]]
    BY <1>3 DEF InsertSub
  <2>2. /\ todo[r] \in Seq(Nat) /\ todo[r] # <<>> /\ posted[r] \in Seq(Nat)
        /\ at[r] \in Live /\ at[r] \in Tasks
    BY <1>3 DEF InsertSub, TypeOK
  <2>3. Head(todo[r]) \in Nat /\ Tail(todo[r]) \in Seq(Nat)
        /\ Append(posted[r], Head(todo[r])) \in Seq(Nat)
    BY <2>2
  <2>4. /\ sub' \in [Subs -> SubRow \cup {Nothing}]
        /\ \A u \in Subs : sub'[u] # Nothing => u \in given' /\ sub'[u].task \in Live
    BY <2>1, <2>2, <2>3 DEF TypeOK, SubRow
  <2>5. mixed' \subseteq Tasks \cap given
    BY <1>3, <2>2 DEF InsertSub, NoteWrite, TypeOK, Live
  <2>6. /\ todo' = [todo EXCEPT ![r] = Tail(@)]
        /\ posted' = [posted EXCEPT ![r] = Append(@, Head(todo[r]))]
        /\ UNCHANGED <<task, pc, at, item, row, count, asked>>
    BY <1>3 DEF InsertSub
  <2> QED
    BY <2>1, <2>3, <2>4, <2>5, <2>6 DEF TypeOK, Live
<1>4. CASE RefuseSub(r) \/ EndList(r) \/ RefuseSave(r)
  BY <1>4, TypeEnd DEF RefuseSub, EndList, RefuseSave, Finish
<1>5. ASSUME NEW t \in Tasks, AddSub(r, t) PROVE TypeOK'
  BY <1>5 DEF AddSub, Begin, TypeOK, Live
<1>6. CASE ReadTop(r)
  <2>1. PICK top \in {0} \cup Orders(at[r]) : todo' = [todo EXCEPT ![r] = <<top + 1>>]
    BY <1>6 DEF ReadTop
  <2>2. top \in Nat
    BY DEF Orders, ListOf, TypeOK, SubRow
  <2>3. <<top + 1>> \in Seq(Nat) /\ <<>> \in Seq(Nat)
    BY <2>2
  <2> QED
    BY <1>6, <2>1, <2>3 DEF ReadTop, TypeOK, Live
<1>7. ASSUME NEW s \in Subs, NEW new \in SubRow \cup {Nothing},
             NEW step \in {"flip", "remove"}, OpenSub(r, s, new, step),
             step = "flip" => new \in SubRow /\ new.task = sub[s].task
      PROVE  TypeOK'
  <2>1. s \in given /\ sub[s] \in SubRow /\ sub[s].task \in Live
    BY <1>7 DEF OpenSub, TypeOK
  <2>2. sub[s].task \in Tasks /\ sub[s].task \in given
    BY <2>1 DEF TypeOK, SubRow
  <2> QED
    BY <1>7, <2>1, <2>2 DEF OpenSub, Begin, TypeOK, Live
<1>8. ASSUME NEW s \in Subs, DeleteSub(r, s) PROVE TypeOK'
  BY <1>7, <1>8 DEF DeleteSub
<1>9. ASSUME NEW s \in Subs, NEW done \in BOOLEAN, ToggleSub(r, s, done)
      PROVE  TypeOK'
  <2>1. sub[s] \in SubRow
    BY <1>9 DEF ToggleSub, OpenSub, TypeOK
  <2>2. /\ [sub[s] EXCEPT !.done = done] \in SubRow
        /\ [sub[s] EXCEPT !.done = done].task = sub[s].task
    BY <2>1 DEF SubRow
  <2> QED
    BY <1>7, <1>9, <2>2 DEF ToggleSub
<1>10. CASE SaveSub(r)
  <2>1. /\ row[r] \in SubRow /\ row[r].task = at[r] /\ item[r] \in Subs
        /\ item[r] \in given /\ at[r] \in Live
    BY <1>10 DEF SaveSub, TypeOK
  <2>2. /\ sub' \in [Subs -> SubRow \cup {Nothing}]
        /\ \A u \in Subs : sub'[u] # Nothing => u \in given /\ sub'[u].task \in Live
    BY <1>10, <2>1 DEF SaveSub, TypeOK
  <2>3. mixed' \subseteq Tasks \cap given
    BY <1>10, <2>1 DEF SaveSub, NoteWrite, TypeOK, Live
  <2> QED
    BY <1>10, <2>1, <2>2, <2>3 DEF SaveSub, TypeOK, Live
<1>11. CASE RemoveSub(r)
  <2>1. /\ sub' \in [Subs -> SubRow \cup {Nothing}]
        /\ \A s \in Subs : sub'[s] # Nothing => sub'[s] = sub[s]
    BY <1>11, WithoutSubs DEF RemoveSub
  <2>2. count' \in [Requests -> CountType \cup {Nothing}]
        /\ \A q \in Requests : count'[q] # Nothing <=> count[q] # Nothing
    BY <1>11, Losses DEF RemoveSub
  <2>3. mixed' \subseteq Tasks \cap given /\ at[r] \in Tasks
    BY <1>11 DEF RemoveSub, NoteWrite, TypeOK
  <2>4. /\ item' = [item EXCEPT ![r] = Nothing]
        /\ pc' = [pc EXCEPT ![r] = "fetch"] /\ pc[r] = "remove"
        /\ UNCHANGED <<task, given, at, row, todo, posted, asked>>
    BY <1>11 DEF RemoveSub
  <2> QED
    BY <2>1, <2>2, <2>3, <2>4 DEF TypeOK, Live
<1> QED
  BY <1>1, <1>2, <1>3, <1>4, <1>5, <1>6, <1>8, <1>9, <1>10, <1>11 DEF ListRequest

LEMMA TypeCountRequest ==
  ASSUME TypeOK, NEW r \in Requests, CountRequest(r) PROVE TypeOK'
<1> USE ChecklistAssumption, NothingAssumption
<1>1. CASE FetchTask(r)
  <2>1. CASE at[r] \in Live
    BY <1>1, <2>1 DEF FetchTask, TypeOK, Live
  <2>2. CASE at[r] \notin Live
    BY <1>1, <2>2, TypeEnd DEF FetchTask, Finish
  <2> QED
    BY <2>1, <2>2
<1>2. ASSUME NEW t \in Tasks, ShowList(r, t) PROVE TypeOK'
  BY <1>2 DEF ShowList, Begin, TypeOK, Live
<1>3. ASSUME NEW q \in QueryType, count' = [count EXCEPT ![r] = NewCount(q)],
             pc' = [pc EXCEPT ![r] = "completed"],
             UNCHANGED <<tables, work, mixed>>, asked' \in Nat
      PROVE  TypeOK'
  <2>1. NewCount(q) \in CountType
    BY DEF NewCount, CountType
  <2> QED
    BY <1>3, <2>1 DEF TypeOK, Live
<1>4. CASE Exists(r)
  <2>1. CASE ListOf(at[r]) = {}
    BY <1>4, <2>1 DEF Exists, TypeOK, Live
  <2>2. CASE ListOf(at[r]) # {}
    <3>1. at[r] \in Tasks
      BY <1>4 DEF Exists, TypeOK
    <3> QED
      BY <1>3, <1>4, <2>2, <3>1, QueriesType DEF Exists, TypeOK
  <2> QED
    BY <2>1, <2>2
<1>5. ASSUME NEW q \in TaskCounts \cup SubCounts \cup DayCounts, Statistic(r, q)
      PROVE  TypeOK'
  <2>1. q \in QueryType
    BY QueriesType
  <2>2. /\ count' = [count EXCEPT ![r] = NewCount(q)]
        /\ pc' = [pc EXCEPT ![r] = "completed"] /\ asked' = asked + 1
        /\ UNCHANGED <<tables, work, mixed>>
    BY <1>5 DEF Statistic, Begin
  <2>3. asked' \in Nat
    BY <2>2 DEF TypeOK
  <2> QED
    BY <1>3, <2>1, <2>2, <2>3
<1>6. CASE CountCompleted(r)
  <2> DEFINE q == count[r].query
  <2>1. count[r] \in CountType /\ q \in QueryType
    BY <1>6 DEF CountCompleted, TypeOK, CountType
  <2>2. Cardinality(Matching(q)) \in Nat /\ Cardinality(Completed(q)) \in Nat
    <3>1. IsFiniteSet(Matching(q)) /\ Completed(q) \subseteq Matching(q)
      BY <2>1, FoundFinite DEF Matching, Completed
    <3> QED
      BY <3>1, FS_Subset, FS_CardinalityType
  <2>3. [count[r] EXCEPT !.completed = Cardinality(Completed(q)),
                         !.was = Cardinality(Matching(q))] \in CountType
    BY <2>1, <2>2 DEF CountType
  <2>4. count' \in [Requests -> CountType \cup {Nothing}] /\ count'[r] # Nothing
        /\ \A p \in Requests \ {r} : count'[p] = count[p]
    BY <1>6, <2>3 DEF CountCompleted, TypeOK
  <2>5. /\ pc' = [pc EXCEPT ![r] = "total"] /\ pc[r] = "completed"
        /\ UNCHANGED <<tables, work, asked, mixed>>
    BY <1>6 DEF CountCompleted, Goto
  <2> QED
    BY <2>4, <2>5 DEF TypeOK, Live, tables, work
<1>7. CASE CountTotal(r)
  <2> DEFINE q == count[r].query
             total == Cardinality(Matching(q))
  <2>1. count[r] \in CountType /\ q \in QueryType
    BY <1>7 DEF CountTotal, TypeOK, CountType
  <2>2. CASE at[r] # Nothing /\ total = 0
    BY <1>7, <2>2, TypeEnd DEF CountTotal, Finish
  <2>3. CASE ~(at[r] # Nothing /\ total = 0)
    <3>1. total \in Nat
      BY <2>1, FoundFinite DEF Matching
    <3>2. [count[r] EXCEPT !.total = total] \in CountType
      BY <2>1, <3>1 DEF CountType
    <3>3. count' = [count EXCEPT ![r] = [count[r] EXCEPT !.total = total]]
      BY <1>7, <2>3 DEF CountTotal, TypeOK
    <3>4. count' \in [Requests -> CountType \cup {Nothing}] /\ count'[r] # Nothing
          /\ \A p \in Requests \ {r} : count'[p] = count[p]
      BY <3>2, <3>3 DEF TypeOK
    <3>5. /\ pc' = [pc EXCEPT ![r] = "rated"]
          /\ UNCHANGED <<tables, work, asked, mixed>>
      BY <1>7, <2>3 DEF CountTotal
    <3> QED
      BY <3>4, <3>5 DEF TypeOK, Live
  <2> QED
    BY <2>2, <2>3
<1>8. CASE Reply(r)
  BY <1>8, TypeEnd DEF Reply, Finish
<1> QED
  BY <1>1, <1>2, <1>4, <1>5, <1>6, <1>7, <1>8 DEF CountRequest

LEMMA TypeDelete ==
  ASSUME TypeOK, NEW t \in Tasks, DeleteTask(t) PROVE TypeOK'
<1> USE ChecklistAssumption, NothingAssumption
<1>1. /\ task' \in [Tasks -> TaskRow \cup {Nothing}]
      /\ Live' = Live \ {t} /\ t \in given
  BY DEF DeleteTask, Without, TypeOK, Live
<1>2. /\ sub' \in [Subs -> SubRow \cup {Nothing}]
      /\ \A s \in Subs : sub'[s] # Nothing => s \notin ListOf(t) /\ sub'[s] = sub[s]
  BY WithoutSubs DEF DeleteTask
<1>3. \A s \in Subs : sub'[s] # Nothing => s \in given /\ sub'[s].task \in Live \ {t}
  BY <1>2 DEF TypeOK, ListOf
<1>4. count' \in [Requests -> CountType \cup {Nothing}]
      /\ \A q \in Requests : count'[q] # Nothing <=> count[q] # Nothing
  BY Losses DEF DeleteTask
<1>5. mixed' \subseteq Tasks \cap given
  BY <1>1 DEF DeleteTask, NoteEmpty, TypeOK
<1>6. UNCHANGED <<given, pc, work>> /\ asked' = asked + 1
  BY DEF DeleteTask
<1> QED
  BY <1>1, <1>2, <1>3, <1>4, <1>5, <1>6 DEF TypeOK

LEMMA TypeStep == TypeOK /\ [Next]_vars => TypeOK'
<1> SUFFICES ASSUME TypeOK, [Next]_vars PROVE TypeOK'
  OBVIOUS
<1>1. CASE UNCHANGED vars
  BY <1>1 DEF TypeOK, Live, vars
<1>2. ASSUME NEW r \in Requests, Abort(r) PROVE TypeOK'
  BY <1>2, TypeEnd DEF Abort
<1> QED
  BY <1>1, <1>2, TypeTaskRequest, TypeListRequest, TypeCountRequest, TypeDelete
     DEF Next

\* Every variable keeps its type, and no subtask is ever left without its task:
\* the foreign key and the cascade hold for any requests, keys and lists.
THEOREM TypeCorrect == Spec => []TypeOK
  BY TypeInit, TypeStep, PTL DEF Spec

-----------------------------------------------------------------------------
(* The two counts *)

\* What request r has counted fits, while the rest of it is still to come.
Fit(r) ==
  count[r] # Nothing =>
    /\ pc[r] \in {"completed", "total", "rated"}
    /\ pc[r] \in {"completed", "total"} /\ at[r] # Nothing /\ count[r].lost = 0
         => Matching(count[r].query) # {}
    /\ pc[r] = "total" =>
         /\ count[r].completed <= count[r].was
         /\ count[r].was <= Cardinality(Matching(count[r].query)) + count[r].lost
    /\ pc[r] = "rated" =>
         /\ count[r].completed <= count[r].was
         /\ count[r].was <= count[r].total + count[r].lost

\* The statements that write a subtask which was read before.
Flips == {"flip", "remove"}

\* An idle request is at no task, and one that will save or delete a subtask has
\* read of it what everybody has: its task is never another one.
Keys ==
  /\ \A r \in Requests : pc[r] = "idle" => at[r] = Nothing
  /\ \A r \in Requests : pc[r] \in Flips =>
       /\ sub[item[r]] = Nothing \/ sub[item[r]].task = at[r]
       /\ \A q \in Requests : pc[q] \in Flips /\ item[q] = item[r] => at[q] = at[r]

FitInv == Keys /\ \A r \in Requests : Fit(r)

USE DEF Flips

\* A count stays right when the rows of its query become no fewer, and when
\* those that are taken away are noted.
LEMMA FitKept ==
  ASSUME TypeOK, NEW r \in Requests, Fit(r), pc'[r] = pc[r], at'[r] = at[r],
         \/ NoteLosses
         \/ /\ count'[r] = count[r]
            /\ \A q \in QueryType : Matching(q) \subseteq Found(task', sub', q)
  PROVE  Fit(r)'
<1> SUFFICES ASSUME count'[r] # Nothing
             PROVE  /\ pc[r] \in {"completed", "total", "rated"}
                    /\ pc[r] \in {"completed", "total"} /\ at[r] # Nothing
                         /\ count'[r].lost = 0 => Matching(count[r].query)' # {}
                    /\ count'[r].query = count[r].query
                    /\ pc[r] = "total" =>
                         /\ count'[r].completed <= count'[r].was
                         /\ count'[r].was
                              <= Cardinality(Matching(count[r].query)') + count'[r].lost
                    /\ pc[r] = "rated" =>
                         /\ count'[r].completed <= count'[r].was
                         /\ count'[r].was <= count'[r].total + count'[r].lost
  BY DEF Fit, Matching
<1> DEFINE q == count[r].query
           after == Found(task', sub', q)
           gone == Matching(q) \ after
<1>1. count[r] # Nothing /\ count[r] \in CountType
  BY Losses DEF TypeOK
<1>2. q \in QueryType
  BY <1>1 DEF CountType
<1>3. /\ IsFiniteSet(Matching(q)) /\ Cardinality(Matching(q)) \in Nat
      /\ IsFiniteSet(after) /\ Cardinality(after) \in Nat
  BY <1>2, FoundFinite DEF Matching
<1>4. IsFiniteSet(gone) /\ Cardinality(gone) \in Nat /\ (Cardinality(gone) = 0 <=> gone = {})
  <2>1. IsFiniteSet(gone)
    BY <1>3, FS_Subset
  <2> QED
    BY <2>1, FS_CardinalityType, FS_EmptySet
<1>5. count'[r] = [count[r] EXCEPT !.lost = @ + Cardinality(gone)]
  <2>1. CASE NoteLosses
    BY <1>1, <2>1, Losses
  <2>2. CASE /\ count'[r] = count[r]
             /\ \A k \in QueryType : Matching(k) \subseteq Found(task', sub', k)
    <3>1. gone = {}
      BY <1>2, <2>2
    <3>2. Cardinality(gone) = 0
      BY <1>4, <3>1
    <3> HIDE DEF gone
    <3> QED
      BY <1>1, <2>2, <3>2 DEF CountType
  <2> QED
    BY <2>1, <2>2
<1>6. Cardinality(Matching(q)) <= Cardinality(after) + Cardinality(gone)
  <2>1. IsFiniteSet(after \cup gone) /\ Matching(q) \subseteq after \cup gone
    BY <1>3, <1>4, FS_Union
  <2>2. Cardinality(Matching(q)) <= Cardinality(after \cup gone)
    BY <2>1, FS_Subset
  <2>3. after \cap gone = {}
    OBVIOUS
  <2>4. Cardinality(after \cup gone) = Cardinality(after) + Cardinality(gone)
    <3>1. Cardinality(after \cup gone)
            = Cardinality(after) + Cardinality(gone) - Cardinality(after \cap gone)
      BY <1>3, <1>4, FS_Union
    <3>2. Cardinality(after \cap gone) = 0
      BY <2>3, FS_EmptySet
    <3> HIDE DEF after, gone
    <3> QED
      BY <1>3, <1>4, <3>1, <3>2
  <2> QED
    BY <2>2, <2>4
<1>7. gone = {} => Matching(q) \subseteq after
  OBVIOUS
<1>8. Matching(count[r].query)' = Found(task', sub', count'[r].query)
  BY DEF Matching
<1> HIDE DEF after, gone
<1>9. /\ count'[r].query = q /\ count'[r].completed = count[r].completed
      /\ count'[r].was = count[r].was /\ count'[r].total = count[r].total
      /\ count'[r].lost = count[r].lost + Cardinality(gone)
  BY <1>1, <1>5 DEF CountType
<1>10. Matching(count[r].query)' = after
  BY <1>8, <1>9 DEF after
<1>11. /\ count[r].completed \in Nat /\ count[r].was \in Nat
       /\ count[r].total \in Nat /\ count[r].lost \in Nat
  BY <1>1 DEF CountType
<1> QED
  BY <1>1, <1>3, <1>4, <1>6, <1>7, <1>9, <1>10, <1>11 DEF Fit

\* A request that is not counting has counted nothing.
LEMMA NotCounting ==
  ASSUME NEW r \in Requests, Fit(r), pc[r] \notin {"completed", "total", "rated"}
  PROVE  count[r] = Nothing
BY DEF Fit

\* When nobody starts to save a subtask, and no row changes its task, Keys holds
\* on; a new row has a key that nobody has seen.
LEMMA KeysKept ==
  ASSUME TypeOK, Keys, NEW r \in Requests,
         \A q \in Requests \ {r} : pc'[q] = pc[q] /\ at'[q] = at[q] /\ item'[q] = item[q],
         pc'[r] \notin Flips, pc'[r] = "idle" => at'[r] = Nothing,
         \A s \in given : s \in Subs =>
           sub'[s] = sub[s] \/ sub'[s] = Nothing
           \/ (pc[r] = "flip" /\ s = item[r] /\ sub'[s].task = at[r])
  PROVE  Keys'
<1> SUFFICES ASSUME NEW p \in Requests
             PROVE  /\ pc'[p] = "idle" => at'[p] = Nothing
                    /\ pc'[p] \in Flips =>
                         /\ sub'[item'[p]] = Nothing \/ sub'[item'[p]].task = at'[p]
                         /\ \A q \in Requests : pc'[q] \in Flips /\ item'[q] = item'[p]
                                                => at'[q] = at'[p]
  BY DEF Keys
<1>1. CASE p = r
  BY <1>1
<1>2. CASE p # r
  <2>1. pc'[p] = pc[p] /\ at'[p] = at[p] /\ item'[p] = item[p]
    BY <1>2
  <2>2. pc[p] \in Flips => item[p] \in Subs /\ item[p] \in given
    BY ChecklistAssumption DEF TypeOK
  <2>3. ASSUME pc[p] \in Flips PROVE sub'[item[p]] = Nothing \/ sub'[item[p]].task = at[p]
    BY <2>2, <2>3 DEF Keys
  <2>4. ASSUME pc[p] \in Flips, NEW q \in Requests, pc'[q] \in Flips, item'[q] = item'[p]
        PROVE  at'[q] = at'[p]
    BY <2>1, <2>4 DEF Keys
  <2> QED
    BY <2>1, <2>3, <2>4 DEF Keys
<1> QED
  BY <1>1, <1>2

\* Requests that write have counts of nobody but note what they take away.
LEMMA FitWrite ==
  ASSUME TypeOK, FitInv, NEW r \in Requests, TaskRequest(r) \/ ListRequest(r)
  PROVE  \A q \in Requests : Fit(q)'
<1> USE ChecklistAssumption, NothingAssumption
<1>1. /\ pc[r] \notin {"completed", "total", "rated"}
      /\ \A q \in Requests \ {r} : pc'[q] = pc[q] /\ at'[q] = at[q]
      /\ \/ NoteLosses
         \/ /\ \A q \in Requests \ {r} : count'[q] = count[q]
            /\ count'[r] \in {count[r], Nothing}
            /\ \/ UNCHANGED tables
               \/ InsertTask(r) \/ InsertSub(r) \/ SaveSub(r)
  <2>1. ASSUME NEW t \in Tasks, NEW new, NEW list, NEW step \in {"update", "mark"},
               OpenTask(r, t, new, list, step)
        PROVE  /\ pc[r] \notin {"completed", "total", "rated"}
               /\ \A q \in Requests \ {r} : pc'[q] = pc[q] /\ at'[q] = at[q]
               /\ count' = count /\ UNCHANGED tables
    BY <2>1 DEF OpenTask, Begin, TypeOK
  <2>2. ASSUME NEW s \in Subs, NEW new, NEW step \in {"flip", "remove"}, OpenSub(r, s, new, step)
        PROVE  /\ pc[r] \notin {"completed", "total", "rated"}
               /\ \A q \in Requests \ {r} : pc'[q] = pc[q] /\ at'[q] = at[q]
               /\ count' = count /\ UNCHANGED tables
    BY <2>2 DEF OpenSub, Begin, TypeOK
  <2>3. ASSUME Finish(r)
        PROVE  /\ \A q \in Requests \ {r} : pc'[q] = pc[q] /\ at'[q] = at[q]
               /\ \A q \in Requests \ {r} : count'[q] = count[q]
               /\ count'[r] = Nothing
    BY <2>3 DEF Finish, End, TypeOK
  <2>4. CASE TaskRequest(r)
    <3>1. ASSUME NEW d, NEW c, NEW list, NewTask(r, d, c, list)
          PROVE  /\ pc[r] = "idle" /\ count' = count /\ UNCHANGED <<tables, at>>
                 /\ \A q \in Requests \ {r} : pc'[q] = pc[q]
      BY <3>1 DEF NewTask, Begin, TypeOK
    <3>2. ASSUME NEW t, CopyTask(r, t)
          PROVE  /\ pc[r] = "idle" /\ count' = count /\ UNCHANGED <<tables, at>>
                 /\ \A q \in Requests \ {r} : pc'[q] = pc[q]
      BY <3>2 DEF CopyTask, Begin, TypeOK
    <3>3. CASE InsertTask(r)
      <4>1. /\ pc[r] \in {"insert", "copy"} /\ count' = count
            /\ pc' = [pc EXCEPT ![r] = IF pc[r] = "insert" THEN "post" ELSE "collect"]
            /\ \E t \in Tasks : at' = [at EXCEPT ![r] = t]
        BY <3>3 DEF InsertTask
      <4> QED
        BY <3>3, <4>1 DEF TypeOK
    <3>4. CASE CollectList(r)
      BY <3>4 DEF CollectList, TypeOK
    <3>5. CASE SaveTask(r)
      BY <3>5 DEF SaveTask, TypeOK
    <3> QED
      BY <2>1, <2>4, <3>1, <3>2, <3>3, <3>4, <3>5 DEF TaskRequest, EditTask, ToggleTask
  <2>5. CASE ListRequest(r)
    <3>1. CASE DropList(r)
      BY <3>1 DEF DropList, TypeOK
    <3>2. CASE KeepList(r)
      BY <2>3, <3>2 DEF KeepList
    <3>3. CASE InsertSub(r)
      BY <3>3 DEF InsertSub, TypeOK
    <3>4. CASE RefuseSub(r)
      BY <2>3, <3>4 DEF RefuseSub
    <3>5. CASE EndList(r)
      BY <2>3, <3>5 DEF EndList
    <3>6. CASE RefuseSave(r)
      BY <2>3, <3>6 DEF RefuseSave
    <3>7. ASSUME NEW t, AddSub(r, t)
          PROVE  /\ pc[r] = "idle" /\ count' = count /\ UNCHANGED tables
                 /\ \A q \in Requests \ {r} : pc'[q] = pc[q] /\ at'[q] = at[q]
      BY <3>7 DEF AddSub, Begin, TypeOK
    <3>8. CASE ReadTop(r)
      BY <3>8 DEF ReadTop, TypeOK
    <3>9. CASE SaveSub(r)
      BY <3>9 DEF SaveSub, TypeOK
    <3>10. CASE RemoveSub(r)
      BY <3>10 DEF RemoveSub, TypeOK
    <3> QED
      BY <2>2, <2>5, <3>1, <3>2, <3>3, <3>4, <3>5, <3>6, <3>7, <3>8, <3>9, <3>10
         DEF ListRequest, DeleteSub, ToggleSub
  <2> QED
    BY <2>4, <2>5
<1>2. count[r] = Nothing
  BY <1>1, NotCounting DEF FitInv
<1>3. count'[r] = Nothing
  BY <1>1, <1>2, Losses
<1>4. ASSUME UNCHANGED tables \/ InsertTask(r) \/ InsertSub(r) \/ SaveSub(r),
             NEW k \in QueryType
      PROVE  Matching(k) \subseteq Found(task', sub', k)
  <2>1. \A t \in Tasks : task[t] # Nothing => task'[t] = task[t]
    BY <1>4 DEF InsertTask, InsertSub, SaveSub, TypeOK, Live
  <2>2. \A s \in Subs : sub[s] # Nothing => sub'[s] # Nothing /\ sub'[s].task = sub[s].task
    <3>1. CASE UNCHANGED tables \/ InsertTask(r) \/ InsertSub(r)
      BY <3>1 DEF InsertTask, InsertSub, TypeOK
    <3>2. CASE SaveSub(r)
      <4>1. /\ pc[r] = "flip" /\ row[r] \in SubRow /\ row[r].task = at[r]
            /\ item[r] \in Subs /\ sub' = [sub EXCEPT ![item[r]] = row[r]]
        BY <3>2 DEF SaveSub, TypeOK
      <4>2. sub[item[r]] = Nothing \/ sub[item[r]].task = at[r]
        BY <4>1 DEF FitInv, Keys
      <4> QED
        BY <4>1, <4>2 DEF TypeOK
    <3> QED
      BY <1>4, <3>1, <3>2
  <2>3. k.tasks \subseteq Tasks /\ k.rows \in {"tasks", "subs"}
    BY DEF QueryType
  <2> QED
    BY <2>1, <2>2, <2>3 DEF Matching, Found
<1>5. ASSUME NEW q \in Requests \ {r} PROVE Fit(q)'
  BY <1>1, <1>4, <1>5, FitKept DEF FitInv
<1>6. Fit(r)'
  BY <1>3 DEF Fit
<1> QED
  BY <1>5, <1>6

\* The same requests keep the tasks of the subtasks.
LEMMA KeysWrite ==
  ASSUME TypeOK, FitInv, NEW r \in Requests, TaskRequest(r) \/ ListRequest(r)
  PROVE  Keys'
<1> USE ChecklistAssumption, NothingAssumption
<1>1. ASSUME Finish(r), UNCHANGED tables PROVE Keys'
  BY <1>1, KeysKept DEF Finish, End, TypeOK, FitInv
<1>2. ASSUME \A q \in Requests \ {r} : pc'[q] = pc[q] /\ at'[q] = at[q] /\ item'[q] = item[q],
             pc'[r] \notin Flips \cup {"idle"},
             \A s \in Subs : s \in given => sub'[s] = sub[s] \/ sub'[s] = Nothing
      PROVE  Keys'
  BY <1>2, KeysKept DEF FitInv
<1>3. CASE TaskRequest(r)
  <2>1. ASSUME NEW t, NEW new, NEW list, NEW step \in {"update", "mark"},
               OpenTask(r, t, new, list, step)
        PROVE  Keys'
    BY <1>2, <2>1 DEF OpenTask, Begin, TypeOK
  <2>2. ASSUME NEW d, NEW c, NEW list, NewTask(r, d, c, list) PROVE Keys'
    BY <1>2, <2>2 DEF NewTask, Begin, TypeOK
  <2>3. ASSUME NEW t, CopyTask(r, t) PROVE Keys'
    BY <1>2, <2>3 DEF CopyTask, Begin, TypeOK
  <2>4. CASE InsertTask(r)
    <3>1. /\ pc' = [pc EXCEPT ![r] = IF pc[r] = "insert" THEN "post" ELSE "collect"]
          /\ \E t \in Tasks : at' = [at EXCEPT ![r] = t]
          /\ UNCHANGED <<sub, item>>
      BY <2>4 DEF InsertTask
    <3> QED
      BY <1>2, <3>1 DEF TypeOK
  <2>5. CASE CollectList(r)
    BY <1>2, <2>5 DEF CollectList, TypeOK
  <2>6. CASE SaveTask(r)
    BY <1>2, <2>6 DEF SaveTask, TypeOK
  <2> QED
    BY <1>3, <2>1, <2>2, <2>3, <2>4, <2>5, <2>6 DEF TaskRequest, EditTask, ToggleTask
<1>4. CASE ListRequest(r)
  <2>1. CASE DropList(r)
    BY <1>2, <2>1 DEF DropList, Without, TypeOK
  <2>2. CASE KeepList(r) \/ RefuseSub(r) \/ EndList(r) \/ RefuseSave(r)
    BY <1>1, <2>2 DEF KeepList, RefuseSub, EndList, RefuseSave
  <2>3. CASE InsertSub(r)
    <3>1. /\ UNCHANGED <<pc, at, item>> /\ pc[r] \in {"post", "add"}
          /\ \E s \in Subs \ given : \E new : sub' = [sub EXCEPT ![s] = new]
      BY <2>3 DEF InsertSub
    <3> QED
      BY <1>2, <3>1 DEF TypeOK
  <2>4. ASSUME NEW t, AddSub(r, t) PROVE Keys'
    BY <1>2, <2>4 DEF AddSub, Begin, TypeOK
  <2>5. CASE ReadTop(r)
    BY <1>2, <2>5 DEF ReadTop, TypeOK
  <2>6. ASSUME NEW s \in Subs, NEW new, NEW step \in Flips, OpenSub(r, s, new, step)
        PROVE  Keys'
    <3>1. /\ pc' = [pc EXCEPT ![r] = step] /\ item' = [item EXCEPT ![r] = s]
          /\ at' = [at EXCEPT ![r] = sub[s].task] /\ sub' = sub /\ sub[s] # Nothing
          /\ pc[r] = "idle"
      BY <2>6 DEF OpenSub, Begin
    <3> SUFFICES ASSUME NEW p \in Requests
                 PROVE  /\ pc'[p] = "idle" => at'[p] = Nothing
                        /\ pc'[p] \in Flips =>
                             /\ sub[item'[p]] = Nothing \/ sub[item'[p]].task = at'[p]
                             /\ \A q \in Requests :
                                  pc'[q] \in Flips /\ item'[q] = item'[p] => at'[q] = at'[p]
      BY <3>1 DEF Keys
    <3>2. \A q \in Requests \ {r} : pc'[q] = pc[q] /\ at'[q] = at[q] /\ item'[q] = item[q]
      BY <3>1 DEF TypeOK
    <3>3. pc'[r] = step /\ at'[r] = sub[s].task /\ item'[r] = s
      BY <3>1 DEF TypeOK
    <3>4. \A q \in Requests \ {r} : pc'[q] \in Flips /\ item'[q] = s => at'[q] = sub[s].task
      BY <3>1, <3>2 DEF FitInv, Keys
    <3>5. CASE p = r
      BY <3>3, <3>4, <3>5
    <3>6. CASE p # r
      BY <3>2, <3>3, <3>4, <3>6 DEF FitInv, Keys
    <3> QED
      BY <3>5, <3>6
  <2>7. ASSUME NEW s \in Subs, \/ DeleteSub(r, s)
                               \/ \E done \in BOOLEAN : ToggleSub(r, s, done)
        PROVE  Keys'
    BY <2>6, <2>7 DEF DeleteSub, ToggleSub
  <2>8. CASE SaveSub(r)
    <3>1. /\ pc[r] = "flip" /\ row[r] \in SubRow /\ row[r].task = at[r]
          /\ sub' = [sub EXCEPT ![item[r]] = row[r]] /\ pc' = [pc EXCEPT ![r] = "fetch"]
          /\ item' = [item EXCEPT ![r] = Nothing] /\ at' = at
      BY <2>8 DEF SaveSub, TypeOK
    <3>2. \A s \in Subs : sub'[s] = sub[s] \/ (s = item[r] /\ sub'[s].task = at[r])
      BY <3>1 DEF TypeOK
    <3> QED
      BY <3>1, <3>2, KeysKept DEF TypeOK, FitInv
  <2>9. CASE RemoveSub(r)
    BY <1>2, <2>9 DEF RemoveSub, Without, TypeOK
  <2> QED
    BY <1>4, <2>1, <2>2, <2>3, <2>4, <2>5, <2>7, <2>8, <2>9 DEF ListRequest
<1> QED
  BY <1>3, <1>4

\* Nobody but r counts or moves on, and r has sent its answer.
LEMMA FitEnd ==
  ASSUME TypeOK, FitInv, NEW r \in Requests, NEW step \in Idle, End(r, step),
         UNCHANGED tables
  PROVE  FitInv'
<1>1. /\ \A q \in Requests \ {r} : /\ pc'[q] = pc[q] /\ at'[q] = at[q]
                                   /\ item'[q] = item[q] /\ count'[q] = count[q]
      /\ pc'[r] \in Idle /\ at'[r] = Nothing /\ count'[r] = Nothing
  BY DEF End, TypeOK
<1>2. Keys'
  BY <1>1, KeysKept DEF FitInv
<1>3. ASSUME NEW q \in Requests \ {r} PROVE Fit(q)'
  <2>1. \A k \in QueryType : Matching(k) \subseteq Found(task', sub', k)
    BY DEF Matching
  <2> QED
    BY <1>1, <2>1, FitKept DEF FitInv
<1>4. Fit(r)'
  BY <1>1 DEF Fit
<1> QED
  BY <1>2, <1>3, <1>4 DEF FitInv

\* The statements of a rating or a statistic: the first count is of the rows
\* there are, the second of those there are by then.
LEMMA FitCount ==
  ASSUME TypeOK, TypeOK', FitInv, NEW r \in Requests, CountRequest(r)
  PROVE  FitInv'
<1> USE ChecklistAssumption, NothingAssumption
<1>1. ASSUME UNCHANGED <<tables, item>>,
             \A q \in Requests \ {r} :
               pc'[q] = pc[q] /\ at'[q] = at[q] /\ count'[q] = count[q],
             pc'[r] \notin Flips \cup {"idle"}, Fit(r)'
      PROVE  FitInv'
  <2>1. Keys'
    BY <1>1, KeysKept DEF FitInv
  <2>2. ASSUME NEW q \in Requests \ {r} PROVE Fit(q)'
    <3>1. \A k \in QueryType : Matching(k) \subseteq Found(task', sub', k)
      BY <1>1 DEF Matching
    <3> QED
      BY <1>1, <3>1, FitKept DEF FitInv
  <2> QED
    BY <1>1, <2>1, <2>2 DEF FitInv
<1>2. CASE FetchTask(r)
  <2>1. CASE at[r] \in Live
    <3>1. /\ pc[r] = "fetch" /\ pc' = [pc EXCEPT ![r] = "exists"]
          /\ UNCHANGED <<tables, work, count>>
      BY <1>2, <2>1 DEF FetchTask
    <3>2. count[r] = Nothing
      BY <3>1, NotCounting DEF FitInv
    <3> QED
      BY <1>1, <3>1, <3>2 DEF TypeOK, Fit
  <2>2. CASE at[r] \notin Live
    BY <1>2, <2>2, FitEnd DEF FetchTask, Finish
  <2> QED
    BY <2>1, <2>2
<1>3. ASSUME NEW t \in Tasks, ShowList(r, t) PROVE FitInv'
  <2>1. /\ pc[r] = "idle" /\ pc' = [pc EXCEPT ![r] = "exists"]
        /\ at' = [at EXCEPT ![r] = t] /\ UNCHANGED <<tables, item, count>>
    BY <1>3 DEF ShowList, Begin
  <2>2. count[r] = Nothing
    BY <2>1, NotCounting DEF FitInv
  <2> QED
    BY <1>1, <2>1, <2>2 DEF TypeOK, Fit
<1>4. ASSUME NEW q \in QueryType, count' = [count EXCEPT ![r] = NewCount(q)],
             pc' = [pc EXCEPT ![r] = "completed"], UNCHANGED <<tables, work>>,
             at[r] # Nothing => Matching(q) # {}
      PROVE  FitInv'
  <2>1. count'[r].query = q /\ pc'[r] = "completed" /\ at'[r] = at[r]
    BY <1>4 DEF NewCount, TypeOK
  <2>2. Matching(count[r].query)' = Matching(q)
    BY <1>4, <2>1 DEF Matching
  <2>3. Fit(r)'
    BY <1>4, <2>1, <2>2 DEF Fit
  <2> QED
    BY <1>1, <1>4, <2>1, <2>3 DEF TypeOK
<1>5. CASE Exists(r)
  <2>1. at[r] \in Tasks /\ pc[r] = "exists"
    BY <1>5 DEF Exists, TypeOK
  <2>2. CASE ListOf(at[r]) = {}
    <3>1. count[r] = Nothing
      BY <2>1, NotCounting DEF FitInv
    <3> QED
      BY <1>1, <1>5, <2>2, <3>1 DEF Exists, TypeOK, Fit
  <2>3. CASE ListOf(at[r]) # {}
    <3>1. PICK s \in Subs : sub[s] # Nothing /\ sub[s].task = at[r]
      BY <2>3 DEF ListOf
    <3>2. task[at[r]] # Nothing /\ task[at[r]] \in TaskRow
      BY <2>1, <3>1 DEF TypeOK, Live
    <3>3. s \in Matching(RatingOf(at[r]))
      BY <3>1, <3>2 DEF Matching, Found, RatingOf, Query, TaskRow
    <3> QED
      BY <1>4, <1>5, <2>1, <2>3, <3>3, QueriesType DEF Exists
  <2> QED
    BY <2>2, <2>3
<1>6. ASSUME NEW q \in TaskCounts \cup SubCounts \cup DayCounts, Statistic(r, q)
      PROVE  FitInv'
  <2>1. /\ q \in QueryType /\ pc[r] = "idle"
        /\ count' = [count EXCEPT ![r] = NewCount(q)]
        /\ pc' = [pc EXCEPT ![r] = "completed"] /\ UNCHANGED <<tables, work>>
    BY <1>6, QueriesType DEF Statistic, Begin
  <2>2. at[r] = Nothing
    BY <2>1 DEF FitInv, Keys
  <2> QED
    BY <1>4, <2>1, <2>2
<1>7. CASE CountCompleted(r)
  <2> DEFINE q == count[r].query
  <2>1. count[r] \in CountType /\ count[r] # Nothing /\ q \in QueryType /\ pc[r] = "completed"
    BY <1>7 DEF CountCompleted, TypeOK, CountType
  <2>2. /\ count'[r].query = q /\ count'[r].lost = count[r].lost
        /\ count'[r].completed = Cardinality(Completed(q))
        /\ count'[r].was = Cardinality(Matching(q))
    BY <1>7, <2>1 DEF CountCompleted, TypeOK, CountType
  <2>3. /\ Cardinality(Completed(q)) <= Cardinality(Matching(q))
        /\ Cardinality(Matching(q)) \in Nat
    <3>1. IsFiniteSet(Matching(q)) /\ Completed(q) \subseteq Matching(q)
      BY <2>1, FoundFinite DEF Matching, Completed
    <3> QED
      BY <3>1, FS_Subset, FS_CardinalityType
  <2>4. /\ pc' = [pc EXCEPT ![r] = "total"] /\ UNCHANGED <<tables, work>>
        /\ \A p \in Requests \ {r} : count'[p] = count[p]
    BY <1>7 DEF CountCompleted, TypeOK
  <2>5. Matching(count[r].query)' = Matching(q)
    BY <2>2, <2>4 DEF Matching
  <2>6. count[r].lost \in Nat
    BY <2>1 DEF CountType
  <2>7. at[r] # Nothing /\ count[r].lost = 0 => Matching(q) # {}
    BY <2>1 DEF FitInv, Fit
  <2> HIDE DEF q
  <2>8. Fit(r)'
    BY <2>2, <2>3, <2>4, <2>5, <2>6, <2>7 DEF Fit, TypeOK
  <2> QED
    BY <1>1, <2>4, <2>8 DEF TypeOK
<1>8. CASE CountTotal(r)
  <2> DEFINE q == count[r].query
             total == Cardinality(Matching(q))
  <2>1. CASE at[r] # Nothing /\ total = 0
    BY <1>8, <2>1, FitEnd DEF CountTotal, Finish
  <2>2. CASE ~(at[r] # Nothing /\ total = 0)
    <3>1. count[r] \in CountType /\ count[r] # Nothing /\ pc[r] = "total"
      BY <1>8 DEF CountTotal, TypeOK
    <3>2. /\ count' = [count EXCEPT ![r].total = total]
          /\ pc' = [pc EXCEPT ![r] = "rated"] /\ UNCHANGED <<tables, work>>
      BY <1>8, <2>2 DEF CountTotal
    <3>3. /\ count[r].completed <= count[r].was
          /\ count[r].was <= total + count[r].lost
      BY <3>1 DEF FitInv, Fit
    <3> HIDE DEF total
    <3>4. /\ count'[r].completed = count[r].completed /\ count'[r].was = count[r].was
          /\ count'[r].total = total /\ count'[r].lost = count[r].lost
      BY <3>1, <3>2 DEF TypeOK, CountType
    <3>5. Fit(r)'
      BY <3>2, <3>3, <3>4 DEF Fit, TypeOK
    <3> QED
      BY <1>1, <3>2, <3>5 DEF TypeOK
  <2> QED
    BY <2>1, <2>2
<1>9. CASE Reply(r)
  BY <1>9, FitEnd DEF Reply, Finish
<1> QED
  BY <1>2, <1>3, <1>5, <1>6, <1>7, <1>8, <1>9 DEF CountRequest

LEMMA FitInit == Init => FitInv
  BY DEF Init, FitInv, Keys, Fit

LEMMA FitStep == TypeOK /\ TypeOK' /\ FitInv /\ [Next]_vars => FitInv'
<1> SUFFICES ASSUME TypeOK, TypeOK', FitInv, [Next]_vars PROVE FitInv'
  OBVIOUS
<1>1. CASE UNCHANGED vars
  <2>1. Keys'
    BY <1>1 DEF FitInv, Keys, vars
  <2>2. ASSUME NEW r \in Requests PROVE Fit(r)'
    <3>1. \A k \in QueryType : Matching(k) \subseteq Found(task', sub', k)
      BY <1>1 DEF Matching, vars
    <3> QED
      BY <1>1, <3>1, FitKept DEF FitInv, vars
  <2> QED
    BY <2>1, <2>2 DEF FitInv
<1>2. ASSUME NEW r \in Requests, Abort(r) PROVE FitInv'
  BY <1>2, FitEnd DEF Abort
<1>3. ASSUME NEW r \in Requests, TaskRequest(r) \/ ListRequest(r) PROVE FitInv'
  BY <1>3, FitWrite, KeysWrite DEF FitInv
<1>4. ASSUME NEW r \in Requests, CountRequest(r) PROVE FitInv'
  BY <1>4, FitCount
<1>5. ASSUME NEW t \in Tasks, DeleteTask(t) PROVE FitInv'
  <2>1. UNCHANGED <<pc, at, item>> /\ NoteLosses
    BY <1>5 DEF DeleteTask
  <2>2. ASSUME NEW r \in Requests PROVE Fit(r)'
    BY <2>1, FitKept DEF FitInv
  <2>3. \A s \in Subs : sub'[s] = sub[s] \/ sub'[s] = Nothing
    BY <1>5 DEF DeleteTask, Without, TypeOK
  <2>4. Keys'
    BY <2>1, <2>3, ChecklistAssumption DEF FitInv, Keys, TypeOK
  <2> QED
    BY <2>2, <2>4 DEF FitInv
<1> QED
  BY <1>1, <1>2, <1>3, <1>4, <1>5 DEF Next

\* Of more rows, the same completed ones never make a better label.
LEMMA GradeFalls ==
  ASSUME NEW completed \in Nat, NEW was \in Nat, NEW total \in Nat, was <= total
  PROVE  Grade(completed, total) <= Grade(completed, was)
<1> DEFINE Reached(n) == {k \in 5 .. 9 : 10 * completed >= k * n}
<1>1. ASSUME NEW k \in 5 .. 9, 10 * completed >= k * total
      PROVE  10 * completed >= k * was
  <2>1. k = 5 \/ k = 6 \/ k = 7 \/ k = 8 \/ k = 9
    OBVIOUS
  <2> QED
    BY <1>1, <2>1
<1>2. Reached(total) \subseteq Reached(was)
  BY <1>1
<1>3. IsFiniteSet(5 .. 9)
  <2>1. 5 \in Int /\ 9 \in Int
    OBVIOUS
  <2>2. \A a, b \in Int : IsFiniteSet(a .. b)
    BY FS_Interval
  <2> QED
    BY <2>1, <2>2, Zenon
<1>4. IsFiniteSet(Reached(was)) /\ IsFiniteSet(Reached(total))
  BY <1>3, FS_Subset
<1>5. /\ Cardinality(Reached(total)) <= Cardinality(Reached(was))
      /\ Cardinality(Reached(total)) \in Nat /\ Cardinality(Reached(was)) \in Nat
  BY <1>2, <1>4, FS_Subset, FS_CardinalityType
<1>6. \A n : Grade(completed, n) = IF completed = 0 THEN 0 ELSE 1 + Cardinality(Reached(n))
  BY DEF Grade
<1> HIDE DEF Reached
<1> QED
  BY <1>5, <1>6

\* Whatever is written while a rating or a statistic is made, it never has more
\* completed rows than rows, divides by zero or flatters, unless rows went away
\* in between (get_performance_rating, calculate_completion_stats).
THEOREM StatisticsFit == Spec => []CountsFit
<1>1. TypeOK /\ FitInv => CountsFit
  <2> SUFFICES ASSUME TypeOK, FitInv, NEW r \in Requests, count[r] # Nothing
               PROVE  LET c == count[r] IN
                      /\ pc[r] \in {"completed", "total"} /\ at[r] # Nothing /\ c.lost = 0
                           => Matching(c.query) # {}
                      /\ pc[r] = "total" => c.completed <= c.was
                                            /\ c.was <= Cardinality(Matching(c.query)) + c.lost
                      /\ pc[r] = "rated" =>
                           /\ c.completed <= c.was /\ c.was <= c.total + c.lost
                           /\ c.lost = 0 =>
                                /\ c.completed <= c.total
                                /\ Grade(c.completed, c.total) <= Grade(c.completed, c.was)
                                /\ Alarm(c.completed, c.was) => Alarm(c.completed, c.total)
    BY DEF CountsFit
  <2> DEFINE c == count[r]
  <2>1. c.completed \in Nat /\ c.was \in Nat /\ c.total \in Nat /\ c.lost \in Nat
    BY DEF TypeOK, CountType
  <2>2. ASSUME pc[r] = "rated", c.lost = 0
        PROVE  c.completed <= c.total /\ c.completed <= c.was /\ c.was <= c.total
    BY <2>1, <2>2 DEF FitInv, Fit
  <2>3. ASSUME pc[r] = "rated", c.lost = 0
        PROVE  /\ Grade(c.completed, c.total) <= Grade(c.completed, c.was)
               /\ Alarm(c.completed, c.was) => Alarm(c.completed, c.total)
    BY <2>1, <2>2, <2>3, GradeFalls DEF Alarm
  <2> QED
    BY <2>2, <2>3 DEF FitInv, Fit
<1> QED
  BY <1>1, TypeInit, FitInit, TypeStep, FitStep, PTL DEF Spec

-----------------------------------------------------------------------------
(* The lists *)

Apart(list) == \A i, j \in DOMAIN list : list[i] = list[j] => i = j

Ordered(t) == \A s, u \in ListOf(t) : sub[s].order = sub[u].order => s = u

\* The list of a task is what request r has inserted.
PostedBy(r) ==
  /\ Cardinality(ListOf(at[r])) = Len(posted[r])
  /\ Orders(at[r]) = {posted[r][i] : i \in DOMAIN posted[r]}
  /\ \A s \in ListOf(at[r]) : ~sub[s].done

\* What it has yet to insert is not there.
ToCome(r) ==
  Apart(todo[r]) /\ \A i \in DOMAIN todo[r] : todo[r][i] \notin Orders(at[r])

\* What a request relies on when it is about to write to a list: while nobody
\* else wrote to it, the list is as the request has left or read it.
Relies(r) ==
  /\ pc[r] \in {"insert", "update", "drop"} /\ todo[r] # Nothing => Apart(todo[r])
  /\ at[r] \notin mixed =>
       /\ pc[r] = "collect" => ListOf(at[r]) = {} /\ posted[r] = <<>>
       /\ pc[r] = "post" => PostedBy(r)
       /\ pc[r] \in {"post", "add"} => ToCome(r)
       /\ pc[r] = "flip" =>
            item[r] \in ListOf(at[r]) /\ row[r].order = sub[item[r]].order

ListInv == (\A t \in Tasks \ mixed : Ordered(t)) /\ \A r \in Requests : Relies(r)

\* A step that leaves the list of task t as it is.
SameList(t) == ListOf(t)' = ListOf(t) /\ \A s \in ListOf(t) : sub'[s] = sub[s]

\* A request at another statement relies on nothing.
LEMMA ReliesOnNothing ==
  ASSUME NEW r \in Requests,
         pc[r] \notin {"insert", "update", "drop", "collect", "post", "add", "flip"}
  PROVE  Relies(r)
BY DEF Relies

\* A step of the requests own writes to the list of t0 at most: the other lists
\* stay as they are, and those who rely on this one know that it is mixed.
LEMMA ListsKept ==
  ASSUME TypeOK, ListInv, NEW own, NEW t0,
         \A q \in Requests \ own :
           /\ pc'[q] = pc[q] /\ at'[q] = at[q] /\ item'[q] = item[q]
           /\ row'[q] = row[q] /\ todo'[q] = todo[q] /\ posted'[q] = posted[q],
         \A q \in Requests \cap own : Relies(q)',
         \A t \in Tasks \ {t0} : SameList(t) /\ (t \notin mixed' => t \notin mixed),
         t0 \in Tasks \ mixed' =>
           Ordered(t0)' /\ \A q \in Requests \ own : ~Holds(q, t0)
  PROVE  ListInv'
<1>1. ASSUME NEW t \in Tasks \ mixed' PROVE Ordered(t)'
  <2>1. CASE t # t0
    <3>1. SameList(t) /\ Ordered(t)
      BY <2>1 DEF ListInv
    <3> QED
      BY <3>1 DEF SameList, Ordered
  <2> QED
    BY <1>1, <2>1
<1>2. ASSUME NEW q \in Requests \ own PROVE Relies(q)'
  <2>1. Relies(q) /\ pc'[q] = pc[q] /\ at'[q] = at[q] /\ item'[q] = item[q]
        /\ row'[q] = row[q] /\ todo'[q] = todo[q] /\ posted'[q] = posted[q]
    BY DEF ListInv
  <2>2. CASE pc[q] \notin {"collect", "post", "add", "flip"}
    BY <2>1, <2>2 DEF Relies, Apart
  <2>3. CASE pc[q] \in {"collect", "post", "add", "flip"} /\ at[q] \in mixed'
    BY <2>1, <2>3 DEF Relies, Apart
  <2>4. CASE pc[q] \in {"collect", "post", "add", "flip"} /\ at[q] \notin mixed'
    <3>1. at[q] \in Tasks
      BY <2>4 DEF TypeOK
    <3>2. at[q] # t0
      BY <2>4, <3>1 DEF Holds
    <3>3. SameList(at[q]) /\ at[q] \notin mixed
      BY <2>4, <3>1, <3>2
    <3>4. ListOf(at[q])' = ListOf(at[q]) /\ \A s \in ListOf(at[q]) : sub'[s] = sub[s]
      BY <2>1, <3>3 DEF SameList, ListOf
    <3>5. Orders(at[q])' = Orders(at[q])
      BY <3>4 DEF Orders
    <3>6. PostedBy(q) => PostedBy(q)'
      BY <2>1, <3>4, <3>5 DEF PostedBy
    <3>7. ToCome(q) => ToCome(q)'
      BY <2>1, <3>5 DEF ToCome, Apart
    <3> QED
      BY <2>1, <2>4, <3>3, <3>4, <3>6, <3>7 DEF Relies
  <2> QED
    BY <2>2, <2>3, <2>4
<1> QED
  BY <1>1, <1>2 DEF ListInv

\* A step of one request that writes to no list.
LEMMA ListsStand ==
  ASSUME TypeOK, ListInv, NEW r \in Requests, UNCHANGED sub,
         \A q \in Requests \ {r} :
           /\ pc'[q] = pc[q] /\ at'[q] = at[q] /\ item'[q] = item[q]
           /\ row'[q] = row[q] /\ todo'[q] = todo[q] /\ posted'[q] = posted[q],
         Relies(r)', mixed \subseteq mixed'
  PROVE  ListInv'
<1>1. \A t \in Tasks : SameList(t)
  BY DEF SameList, ListOf
<1>2. Nothing \notin Tasks
  BY ChecklistAssumption
<1>3. \A q \in Requests \cap {r} : Relies(q)'
  OBVIOUS
<1> QED
  BY <1>1, <1>2, <1>3, ListsKept

\* A copy takes the orders of a list, each of them once.
LEMMA ListingApart ==
  ASSUME TypeOK, NEW t \in Tasks, Ordered(t), NEW list \in Listings(t)
  PROVE  Apart(list)
<1> SUFFICES ASSUME NEW i \in DOMAIN list, NEW j \in DOMAIN list, list[i] = list[j]
             PROVE  i = j
  BY DEF Apart
<1> DEFINE n == list[i]
           Places == {k \in DOMAIN list : list[k] = n}
           Same == {s \in ListOf(t) : sub[s].order = n}
<1>1. n \in Orders(t) /\ Cardinality(Places) = Cardinality(Same)
      /\ DOMAIN list = 1 .. Cardinality(ListOf(t))
  BY DEF Listings
<1>2. PICK s \in ListOf(t) : sub[s].order = n
  BY <1>1 DEF Orders
<1>3. Same = {s}
  BY <1>2 DEF Ordered
<1>4. Cardinality(Places) = 1
  <2>1. Cardinality({s}) = 1
    BY FS_Singleton
  <2> QED
    BY <1>1, <1>3, <2>1
<1>5. IsFiniteSet(Places)
  <2>1. IsFiniteSet(ListOf(t))
    BY ChecklistAssumption, FS_Subset DEF ListOf
  <2>2. Cardinality(ListOf(t)) \in Nat
    BY <2>1, FS_CardinalityType
  <2>3. IsFiniteSet(1 .. Cardinality(ListOf(t)))
    BY <2>2, FS_Interval
  <2>4. Places \subseteq 1 .. Cardinality(ListOf(t))
    BY <1>1
  <2> QED
    BY <2>3, <2>4, FS_Subset
<1>6. i \in Places /\ j \in Places
  OBVIOUS
<1> HIDE DEF Places
<1>7. \E k : Places = {k}
  BY <1>4, <1>5, FS_Singleton
<1> QED
  BY <1>6, <1>7

LEMMA ListTask ==
  ASSUME TypeOK, ListInv, NEW r \in Requests, TaskRequest(r) PROVE ListInv'
<1> USE ChecklistAssumption
<1>1. ASSUME NEW d, NEW c, NEW list \in Lists \cup {Nothing}, NewTask(r, d, c, list)
      PROVE  ListInv'
  <2>1. /\ pc' = [pc EXCEPT ![r] = "insert"]
        /\ todo' = [todo EXCEPT ![r] = IF list = Nothing THEN <<>> ELSE list]
        /\ \A q \in Requests \ {r} : row'[q] = row[q]
        /\ UNCHANGED <<tables, at, item, posted, mixed>>
    BY <1>1 DEF NewTask, Begin, TypeOK
  <2>2. Apart(todo'[r])
    BY <2>1 DEF Apart, TypeOK
  <2>3. Relies(r)'
    BY <2>1, <2>2 DEF Relies, TypeOK, Apart
  <2> QED
    BY <2>1, <2>3, ListsStand DEF TypeOK
<1>2. ASSUME NEW t, NEW new, NEW list \in Lists \cup {Nothing},
             NEW step \in {"update", "mark"}, OpenTask(r, t, new, list, step)
      PROVE  ListInv'
  <2>1. /\ pc' = [pc EXCEPT ![r] = step] /\ todo' = [todo EXCEPT ![r] = list]
        /\ \A q \in Requests \ {r} : row'[q] = row[q] /\ at'[q] = at[q]
        /\ UNCHANGED <<tables, item, posted, mixed>>
    BY <1>2 DEF OpenTask, Begin, TypeOK
  <2>2. todo'[r] # Nothing => Apart(todo'[r])
    BY <2>1 DEF Apart, TypeOK
  <2>3. Relies(r)'
    BY <2>1, <2>2 DEF Relies, TypeOK, Apart
  <2> QED
    BY <2>1, <2>3, ListsStand DEF TypeOK
<1>3. ASSUME NEW t, CopyTask(r, t) PROVE ListInv'
  <2>1. /\ pc' = [pc EXCEPT ![r] = "copy"]
        /\ \A q \in Requests \ {r} : row'[q] = row[q] /\ item'[q] = item[q]
        /\ UNCHANGED <<tables, at, todo, posted, mixed>>
    BY <1>3 DEF CopyTask, Begin, TypeOK
  <2>2. Relies(r)'
    BY <2>1 DEF Relies, TypeOK
  <2> QED
    BY <2>1, <2>2, ListsStand DEF TypeOK
<1>4. CASE InsertTask(r)
  <2>1. PICK t \in Tasks \ given : at' = [at EXCEPT ![r] = t]
    BY <1>4 DEF InsertTask
  <2>2. /\ pc' = [pc EXCEPT ![r] = IF pc[r] = "insert" THEN "post" ELSE "collect"]
        /\ pc[r] \in {"insert", "copy"}
        /\ posted' = [posted EXCEPT ![r] = <<>>]
        /\ \A q \in Requests \ {r} : row'[q] = row[q]
        /\ UNCHANGED <<sub, item, todo, mixed>>
    BY <1>4 DEF InsertTask, TypeOK
  <2>3. ListOf(t) = {}
    BY DEF ListOf, TypeOK
  <2>4. at'[r] = t /\ posted'[r] = <<>> /\ todo'[r] = todo[r]
    BY <2>1, <2>2 DEF TypeOK
  <2>5. ListOf(at[r])' = {} /\ Orders(at[r])' = {}
    BY <2>2, <2>3, <2>4 DEF ListOf, Orders
  <2>6. PostedBy(r)'
    BY <2>4, <2>5, FS_EmptySet DEF PostedBy
  <2>7. pc[r] = "insert" => ToCome(r)'
    <3>1. pc[r] = "insert" => Apart(todo[r])
      BY NothingAssumption DEF ListInv, Relies, TypeOK
    <3> QED
      BY <2>4, <2>5, <3>1 DEF ToCome, Apart
  <2>8. pc'[r] \in {"post", "collect"} /\ (pc'[r] = "post" => pc[r] = "insert")
    BY <2>2 DEF TypeOK
  <2>9. Relies(r)'
    BY <2>4, <2>5, <2>6, <2>7, <2>8 DEF Relies
  <2> QED
    BY <2>1, <2>2, <2>9, ListsStand DEF TypeOK
<1>5. CASE CollectList(r)
  <2>1. PICK list \in Listings(item[r]) : todo' = [todo EXCEPT ![r] = list]
    BY <1>5 DEF CollectList
  <2>2. /\ pc[r] = "collect" /\ pc' = [pc EXCEPT ![r] = "post"]
        /\ \A q \in Requests \ {r} : item'[q] = item[q]
        /\ mixed' = IF item[r] \in mixed THEN mixed \cup {at[r]} ELSE mixed
        /\ UNCHANGED <<tables, at, row, posted>>
    BY <1>5 DEF CollectList, TypeOK
  <2>3. item[r] \in Tasks
    BY <2>2 DEF TypeOK
  <2>4. ASSUME at[r] \notin mixed'
        PROVE  PostedBy(r)' /\ ToCome(r)'
    <3>1. at[r] \notin mixed /\ item[r] \notin mixed
      BY <2>2, <2>4
    <3>2. ListOf(at[r]) = {} /\ posted[r] = <<>>
      BY <2>2, <3>1 DEF ListInv, Relies
    <3>3. ListOf(at[r])' = {} /\ Orders(at[r])' = {} /\ posted'[r] = <<>>
      BY <2>2, <3>2 DEF ListOf, Orders
    <3>4. Apart(list)
      BY <2>3, <3>1, ListingApart DEF ListInv
    <3>5. Apart(todo[r])'
      BY <2>1, <3>4 DEF TypeOK, Apart
    <3> QED
      BY <3>3, <3>5, FS_EmptySet DEF PostedBy, ToCome
  <2>5. Relies(r)'
    BY <2>2, <2>4 DEF Relies, TypeOK
  <2> QED
    BY <2>1, <2>2, <2>5, ListsStand DEF TypeOK
<1>6. CASE SaveTask(r)
  <2>1. /\ pc' = [pc EXCEPT ![r] = IF pc[r] = "mark" THEN "exists" ELSE "drop"]
        /\ pc[r] \in {"update", "mark"}
        /\ \A q \in Requests \ {r} : row'[q] = row[q]
        /\ UNCHANGED <<sub, at, item, todo, posted, mixed>>
    BY <1>6 DEF SaveTask, TypeOK
  <2>2. Relies(r)'
    BY <2>1 DEF ListInv, Relies, Apart, TypeOK
  <2> QED
    BY <2>1, <2>2, ListsStand DEF TypeOK
<1> QED
  BY <1>1, <1>2, <1>3, <1>4, <1>5, <1>6 DEF TaskRequest, EditTask, ToggleTask

\* A step of one request that writes to one list.
LEMMA ListsWritten ==
  ASSUME TypeOK, ListInv, NEW r \in Requests, NEW t0,
         \A q \in Requests \ {r} :
           /\ pc'[q] = pc[q] /\ at'[q] = at[q] /\ item'[q] = item[q]
           /\ row'[q] = row[q] /\ todo'[q] = todo[q] /\ posted'[q] = posted[q],
         Relies(r)',
         \A t \in Tasks \ {t0} : SameList(t) /\ (t \notin mixed' => t \notin mixed),
         t0 \in Tasks \ mixed' =>
           Ordered(t0)' /\ \A q \in Requests \ {r} : ~Holds(q, t0)
  PROVE  ListInv'
<1>1. \A q \in Requests \cap {r} : Relies(q)'
  OBVIOUS
<1> QED
  BY <1>1, ListsKept

\* The form, create_subtask and the requests about one subtask.
LEMMA ListWrite ==
  ASSUME TypeOK, Keys, ListInv, NEW r \in Requests, ListRequest(r) PROVE ListInv'
<1> USE ChecklistAssumption
<1> PICK t0 : t0 = at[r]
  OBVIOUS
<1>a. ASSUME NEW t \in Tasks, \A s \in Subs : sub'[s] = sub[s] \/ sub[s] \in {Nothing} \cup
               {x \in SubRow : x.task # t},
             \A s \in Subs : sub'[s] = sub[s] \/ sub'[s] \in {Nothing} \cup
               {x \in SubRow : x.task # t}
      PROVE  SameList(t)
  BY <1>a DEF SameList, ListOf
<1>b. ASSUME Finish(r), UNCHANGED <<tables, mixed>> PROVE ListInv'
  <2>1. pc'[r] = "idle" /\ \A q \in Requests \ {r} :
           /\ pc'[q] = pc[q] /\ at'[q] = at[q] /\ item'[q] = item[q]
           /\ row'[q] = row[q] /\ todo'[q] = todo[q] /\ posted'[q] = posted[q]
    BY <1>b DEF Finish, End, TypeOK
  <2>2. Relies(r)'
    BY <2>1 DEF Relies
  <2> QED
    BY <1>b, <2>1, <2>2, ListsStand
<1>c. ASSUME NoteWrite(r, t0), t0 \in Tasks \ mixed'
      PROVE  t0 \notin mixed /\ \A q \in Requests \ {r} : ~Holds(q, t0)
  BY <1>c DEF NoteWrite, Held
<1>d. ASSUME NoteWrite(r, t0) PROVE mixed \subseteq mixed'
  BY <1>d DEF NoteWrite
<1>1. CASE DropList(r)
  <2>1. /\ pc[r] = "drop" /\ pc' = [pc EXCEPT ![r] = "post"] /\ todo[r] # Nothing
        /\ sub' = Without(sub, ListOf(t0)) /\ posted' = [posted EXCEPT ![r] = <<>>]
        /\ NoteEmpty(t0, Requests \ {r})
        /\ UNCHANGED <<task, given, at, item, row, todo>>
    BY <1>1 DEF DropList
  <2>2. \A s \in Subs : sub'[s] = IF s \in ListOf(t0) THEN Nothing ELSE sub[s]
    BY <2>1 DEF Without, TypeOK
  <2>3. \A t \in Tasks \ {t0} : SameList(t)
    BY <2>2 DEF SameList, ListOf
  <2>4. ListOf(t0)' = {} /\ Orders(t0)' = {}
    BY <2>1, <2>2 DEF ListOf, Orders
  <2>5. \A t \in Tasks \ {t0} : t \notin mixed' => t \notin mixed
    BY <2>1 DEF NoteEmpty
  <2>6. t0 \in Tasks \ mixed' => \A q \in Requests \ {r} : ~Holds(q, t0)
    BY <2>1 DEF NoteEmpty, Held
  <2>7. Ordered(t0)'
    BY <2>4 DEF Ordered
  <2>8. Apart(todo[r])
    BY <2>1 DEF ListInv, Relies
  <2>9. at'[r] = t0 /\ posted'[r] = <<>> /\ todo'[r] = todo[r] /\ pc'[r] = "post"
    BY <2>1 DEF TypeOK
  <2>10. ListOf(at[r])' = {} /\ Orders(at[r])' = {}
    BY <2>4, <2>9 DEF ListOf, Orders
  <2>11. PostedBy(r)' /\ ToCome(r)'
    BY <2>8, <2>9, <2>10, FS_EmptySet DEF PostedBy, ToCome, Apart
  <2>12. Relies(r)'
    BY <2>9, <2>11 DEF Relies
  <2>13. \A q \in Requests \ {r} :
           /\ pc'[q] = pc[q] /\ at'[q] = at[q] /\ item'[q] = item[q]
           /\ row'[q] = row[q] /\ todo'[q] = todo[q] /\ posted'[q] = posted[q]
    BY <2>1 DEF TypeOK
  <2> QED
    BY <2>3, <2>5, <2>6, <2>7, <2>12, <2>13, ListsWritten
<1>2. CASE KeepList(r) \/ RefuseSub(r) \/ EndList(r) \/ RefuseSave(r)
  BY <1>b, <1>2 DEF KeepList, RefuseSub, EndList, RefuseSave
<1>3. CASE InsertSub(r)
  <2> DEFINE n == Head(todo[r])
             new == [task |-> t0, done |-> FALSE, order |-> n]
  <2>1. PICK s \in Subs \ given : sub' = [sub EXCEPT ![s] = new]
    BY <1>3 DEF InsertSub
  <2>2. /\ pc[r] \in {"post", "add"} /\ todo[r] # <<>> /\ t0 \in Live
        /\ todo' = [todo EXCEPT ![r] = Tail(@)]
        /\ posted' = [posted EXCEPT ![r] = Append(@, n)]
        /\ NoteWrite(r, t0)
        /\ UNCHANGED <<task, pc, at, item, row>>
    BY <1>3 DEF InsertSub
  <2>3. /\ t0 \in Tasks /\ todo[r] \in Seq(Nat) /\ posted[r] \in Seq(Nat)
        /\ sub[s] = Nothing
    BY <2>2 DEF TypeOK
  <2>4. n = todo[r][1] /\ 1 \in DOMAIN todo[r] /\ n \in Nat
        /\ Tail(todo[r]) \in Seq(Nat) /\ Append(posted[r], n) \in Seq(Nat)
    BY <2>2, <2>3
  <2>5. ASSUME NEW i \in DOMAIN Tail(todo[r])
         PROVE  /\ i \in Nat /\ i + 1 \in DOMAIN todo[r] /\ i + 1 # 1
                /\ Tail(todo[r])[i] = todo[r][i + 1]
    BY <2>2, <2>3
  <2> HIDE DEF n
  <2>6. new \in SubRow /\ new # Nothing /\ new.task = t0 /\ new.order = n /\ ~new.done
    <3>1. \A x \in Tasks, m \in Nat : [task |-> x, done |-> FALSE, order |-> m] \in SubRow
      BY DEF SubRow
    <3>2. new \in SubRow
      BY <2>3, <2>4, <3>1
    <3>3. new # Nothing
      BY <3>2, NothingAssumption
    <3> QED
      BY <3>2, <3>3
  <2> HIDE DEF new
  <2>7. \A u \in Subs : sub'[u] = IF u = s THEN new ELSE sub[u]
    BY <2>1 DEF TypeOK
  <2>8. \A t \in Tasks \ {t0} : SameList(t)
    BY <2>3, <2>6, <2>7 DEF SameList, ListOf
  <2>9. s \notin ListOf(t0) /\ ListOf(t0)' = ListOf(t0) \cup {s}
    <3>1. at'[r] = at[r]
      BY <2>2
    <3> QED
      BY <2>3, <2>6, <2>7, <3>1 DEF ListOf
  <2>10. ListOf(at[r])' = ListOf(t0) \cup {s}
    BY <2>2, <2>9 DEF ListOf
  <2>11. Orders(at[r])' = Orders(t0) \cup {n}
    BY <2>3, <2>6, <2>7, <2>10 DEF Orders, ListOf
  <2>12. Orders(t0)' = Orders(t0) \cup {n}
    BY <2>3, <2>6, <2>7, <2>9 DEF Orders, ListOf
  <2>13. ASSUME t0 \in Tasks \ mixed'
         PROVE  Ordered(t0)' /\ ToCome(r)' /\ (pc[r] = "post" => PostedBy(r)')
    <3>1. t0 \notin mixed
      BY <1>c, <2>2, <2>13
    <3>2. ToCome(r) /\ (pc[r] = "post" => PostedBy(r))
      BY <2>2, <3>1 DEF ListInv, Relies
    <3>3. n \notin Orders(t0)
      BY <2>4, <3>2 DEF ToCome
    <3>4. Ordered(t0)'
      <4>1. Ordered(t0)
        BY <2>3, <3>1 DEF ListInv
      <4> QED
        BY <2>6, <2>7, <2>9, <3>3, <4>1 DEF Ordered, Orders, ListOf
    <3>5. todo'[r] = Tail(todo[r]) /\ posted'[r] = Append(posted[r], n)
      BY <2>2 DEF TypeOK
    <3>6. ToCome(r)'
      <4>1. ASSUME NEW i \in DOMAIN Tail(todo[r]), NEW j \in DOMAIN Tail(todo[r]),
                   Tail(todo[r])[i] = Tail(todo[r])[j]
            PROVE  i = j
        <5>1. i \in Nat /\ j \in Nat /\ todo[r][i + 1] = todo[r][j + 1]
              /\ i + 1 \in DOMAIN todo[r] /\ j + 1 \in DOMAIN todo[r]
          BY <2>5, <4>1
        <5>2. i + 1 = j + 1
          BY <3>2, <5>1 DEF ToCome, Apart
        <5> QED
          BY <5>1, <5>2
      <4>2. \A i \in DOMAIN Tail(todo[r]) : Tail(todo[r])[i] \notin Orders(t0) \cup {n}
        BY <2>4, <2>5, <3>2 DEF ToCome, Apart
      <4> QED
        BY <2>11, <3>5, <4>1, <4>2 DEF ToCome, Apart
    <3>7. ASSUME pc[r] = "post" PROVE PostedBy(r)'
      <4>1. IsFiniteSet(ListOf(t0))
        BY FS_Subset DEF ListOf
      <4>2. Cardinality(ListOf(t0)') = Cardinality(ListOf(t0)) + 1
        BY <2>9, <4>1, FS_AddElement
      <4>3. Len(posted'[r]) = Len(posted[r]) + 1
        BY <2>3, <2>4, <3>5
      <4>4. {posted'[r][i] : i \in DOMAIN posted'[r]}
              = {posted[r][i] : i \in DOMAIN posted[r]} \cup {n}
        <5> DEFINE p == posted[r]
                   q == posted'[r]
        <5>1. p \in Seq(Nat) /\ q = Append(p, n)
          BY <2>3, <3>5
        <5> HIDE DEF p, q
        <5>2. /\ DOMAIN q = DOMAIN p \cup {Len(p) + 1} /\ q[Len(p) + 1] = n
              /\ \A i \in DOMAIN p : q[i] = p[i]
          BY <2>4, <5>1
        <5>3. {q[i] : i \in DOMAIN q} = {p[i] : i \in DOMAIN p} \cup {n}
          BY <5>2
        <5> QED
          BY <5>3 DEF p, q
      <4>5. \A u \in ListOf(t0) \cup {s} : ~sub'[u].done
        BY <2>6, <2>7, <2>9, <3>2, <3>7 DEF PostedBy, ListOf
      <4>6. PostedBy(r)
        BY <3>2, <3>7
      <4>7. Cardinality(ListOf(at[r]))' = Len(posted[r])'
        BY <2>9, <2>10, <4>2, <4>3, <4>6 DEF PostedBy
      <4>8. Orders(at[r])' = {posted[r][i] : i \in DOMAIN posted[r]}'
        BY <2>11, <4>4, <4>6 DEF PostedBy
      <4> QED
        BY <2>10, <4>5, <4>7, <4>8 DEF PostedBy
    <3> QED
      BY <3>4, <3>6, <3>7
  <2>14. Relies(r)'
    BY <2>2, <2>3, <2>13 DEF Relies, TypeOK
  <2>15. \A t \in Tasks \ {t0} : t \notin mixed' => t \notin mixed
    BY <1>d, <2>2
  <2>16. t0 \in Tasks \ mixed' => \A q \in Requests \ {r} : ~Holds(q, t0)
    BY <1>c, <2>2
  <2>17. \A q \in Requests \ {r} :
           /\ pc'[q] = pc[q] /\ at'[q] = at[q] /\ item'[q] = item[q]
           /\ row'[q] = row[q] /\ todo'[q] = todo[q] /\ posted'[q] = posted[q]
    BY <2>2 DEF TypeOK
  <2> QED
    BY <2>8, <2>13, <2>14, <2>15, <2>16, <2>17, ListsWritten
<1>4. ASSUME NEW t, AddSub(r, t) PROVE ListInv'
  <2>1. /\ pc' = [pc EXCEPT ![r] = "top"] /\ \A q \in Requests \ {r} : at'[q] = at[q]
        /\ UNCHANGED <<tables, item, row, todo, posted, mixed>>
    BY <1>4 DEF AddSub, Begin, TypeOK
  <2>2. Relies(r)'
    BY <2>1 DEF Relies, TypeOK
  <2> QED
    BY <2>1, <2>2, ListsStand DEF TypeOK
<1>5. CASE ReadTop(r)
  <2>1. PICK top \in {0} \cup Orders(t0) :
          /\ \A n \in Orders(t0) : n <= top
          /\ todo' = [todo EXCEPT ![r] = <<top + 1>>]
    BY <1>5 DEF ReadTop
  <2>2. /\ pc' = [pc EXCEPT ![r] = "add"] /\ pc[r] = "top"
        /\ \A q \in Requests \ {r} : posted'[q] = posted[q]
        /\ UNCHANGED <<tables, at, item, row, mixed>>
    BY <1>5 DEF ReadTop, TypeOK
  <2>3. Orders(t0) \subseteq Nat
    BY DEF Orders, ListOf, TypeOK, SubRow
  <2>4. top + 1 \notin Orders(t0)
    BY <2>1, <2>3
  <2>5. Orders(t0)' = Orders(t0)
    BY <2>2 DEF Orders, ListOf
  <2>6. todo'[r] = <<top + 1>> /\ at'[r] = t0
    BY <2>1, <2>2 DEF TypeOK
  <2>7. ToCome(r)'
    <3>1. \A i \in DOMAIN <<top + 1>> : i = 1
      OBVIOUS
    <3>2. <<top + 1>>[1] = top + 1
      OBVIOUS
    <3> QED
      BY <2>4, <2>5, <2>6, <3>1, <3>2 DEF ToCome, Apart
  <2>8. Relies(r)'
    BY <2>2, <2>7 DEF Relies, TypeOK
  <2> QED
    BY <2>1, <2>2, <2>8, ListsStand DEF TypeOK
<1>6. ASSUME NEW s \in Subs, NEW new, NEW step \in Flips, OpenSub(r, s, new, step),
             step = "flip" => new.order = sub[s].order
      PROVE  ListInv'
  <2>1. /\ pc' = [pc EXCEPT ![r] = step] /\ sub[s] # Nothing
        /\ item' = [item EXCEPT ![r] = s] /\ at' = [at EXCEPT ![r] = sub[s].task]
        /\ row' = [row EXCEPT ![r] = new]
        /\ UNCHANGED <<tables, todo, posted, mixed>>
    BY <1>6 DEF OpenSub, Begin
  <2>2. s \in ListOf(sub[s].task)
    BY <2>1 DEF ListOf
  <2>3. item'[r] = s /\ at'[r] = sub[s].task /\ row'[r] = new /\ pc'[r] = step
    BY <2>1 DEF TypeOK
  <2>4. item'[r] \in ListOf(at[r])'
    BY <2>1, <2>2, <2>3 DEF ListOf
  <2>5. Relies(r)'
    BY <1>6, <2>1, <2>3, <2>4 DEF Relies
  <2> QED
    BY <2>1, <2>5, ListsStand DEF TypeOK
<1>7. ASSUME NEW s \in Subs, DeleteSub(r, s) PROVE ListInv'
  BY <1>6, <1>7 DEF DeleteSub
<1>8. ASSUME NEW s \in Subs, NEW done \in BOOLEAN, ToggleSub(r, s, done) PROVE ListInv'
  <2>1. sub[s] \in SubRow
    BY <1>8 DEF ToggleSub, OpenSub, TypeOK
  <2>2. [sub[s] EXCEPT !.done = done].order = sub[s].order
    BY <2>1 DEF SubRow
  <2> QED
    BY <1>6, <1>8, <2>2 DEF ToggleSub
<1>9. CASE SaveSub(r)
  <2> DEFINE s == item[r]
  <2>1. /\ pc[r] = "flip" /\ pc' = [pc EXCEPT ![r] = "fetch"] /\ t0 \in Live
        /\ sub' = [sub EXCEPT ![s] = row[r]] /\ NoteWrite(r, t0)
        /\ \A q \in Requests \ {r} : item'[q] = item[q] /\ row'[q] = row[q]
        /\ UNCHANGED <<task, given, at, todo, posted>>
    BY <1>9 DEF SaveSub, TypeOK
  <2>2. /\ s \in Subs /\ row[r] \in SubRow /\ row[r].task = t0 /\ row[r] # Nothing
        /\ t0 \in Tasks
    BY <2>1, NothingAssumption DEF TypeOK
  <2>3. sub[s] = Nothing \/ sub[s].task = t0
    BY <2>1 DEF Keys
  <2>4. \A u \in Subs : sub'[u] = IF u = s THEN row[r] ELSE sub[u]
    BY <2>1 DEF TypeOK
  <2>5. \A t \in Tasks \ {t0} : SameList(t)
    BY <2>2, <2>3, <2>4 DEF SameList, ListOf
  <2>6. \A t \in Tasks \ {t0} : t \notin mixed' => t \notin mixed
    BY <1>d, <2>1
  <2>7. ASSUME t0 \in Tasks \ mixed' PROVE Ordered(t0)'
    <3>1. t0 \notin mixed /\ at'[r] = t0
      BY <1>c, <2>1, <2>7
    <3>2. s \in ListOf(t0) /\ row[r].order = sub[s].order
      BY <2>1, <3>1 DEF ListInv, Relies
    <3>3. ListOf(t0)' = ListOf(t0) /\ \A u \in ListOf(t0) : sub'[u].order = sub[u].order
      BY <2>2, <2>4, <3>1, <3>2 DEF ListOf
    <3>4. Ordered(t0)
      BY <2>2, <3>1 DEF ListInv
    <3> QED
      BY <3>3, <3>4 DEF Ordered
  <2>8. t0 \in Tasks \ mixed' => \A q \in Requests \ {r} : ~Holds(q, t0)
    BY <1>c, <2>1
  <2>9. Relies(r)'
    BY <2>1 DEF Relies, TypeOK
  <2>10. \A q \in Requests \ {r} :
           /\ pc'[q] = pc[q] /\ at'[q] = at[q] /\ item'[q] = item[q]
           /\ row'[q] = row[q] /\ todo'[q] = todo[q] /\ posted'[q] = posted[q]
    BY <2>1 DEF TypeOK
  <2> QED
    BY <2>5, <2>6, <2>7, <2>8, <2>9, <2>10, ListsWritten
<1>10. CASE RemoveSub(r)
  <2> DEFINE s == item[r]
  <2>1. /\ pc[r] = "remove" /\ pc' = [pc EXCEPT ![r] = "fetch"]
        /\ sub' = Without(sub, {s}) /\ NoteWrite(r, t0)
        /\ \A q \in Requests \ {r} : item'[q] = item[q]
        /\ UNCHANGED <<task, given, at, row, todo, posted>>
    BY <1>10 DEF RemoveSub, TypeOK
  <2>2. s \in Subs /\ (sub[s] = Nothing \/ sub[s].task = t0)
    BY <2>1 DEF TypeOK, Keys
  <2>3. \A u \in Subs : sub'[u] = IF u = s THEN Nothing ELSE sub[u]
    BY <2>1 DEF TypeOK, Without
  <2>4. \A t \in Tasks \ {t0} : SameList(t)
    BY <2>2, <2>3 DEF SameList, ListOf
  <2>5. \A t \in Tasks \ {t0} : t \notin mixed' => t \notin mixed
    BY <1>d, <2>1
  <2>6. ASSUME t0 \in Tasks \ mixed' PROVE Ordered(t0)'
    <3>1. t0 \notin mixed /\ at'[r] = t0
      BY <1>c, <2>1, <2>6
    <3>2. ListOf(t0)' \subseteq ListOf(t0) /\ \A u \in ListOf(t0)' : sub'[u] = sub[u]
      BY <2>3, <3>1 DEF ListOf
    <3>3. Ordered(t0)
      BY <2>6, <3>1 DEF ListInv
    <3> QED
      BY <3>2, <3>3 DEF Ordered
  <2>7. t0 \in Tasks \ mixed' => \A q \in Requests \ {r} : ~Holds(q, t0)
    BY <1>c, <2>1
  <2>8. Relies(r)'
    BY <2>1 DEF Relies, TypeOK
  <2>9. \A q \in Requests \ {r} :
           /\ pc'[q] = pc[q] /\ at'[q] = at[q] /\ item'[q] = item[q]
           /\ row'[q] = row[q] /\ todo'[q] = todo[q] /\ posted'[q] = posted[q]
    BY <2>1 DEF TypeOK
  <2> QED
    BY <2>4, <2>5, <2>6, <2>7, <2>8, <2>9, ListsWritten
<1> QED
  BY <1>1, <1>2, <1>3, <1>4, <1>5, <1>7, <1>8, <1>9, <1>10 DEF ListRequest


LEMMA ListCount ==
  ASSUME TypeOK, ListInv, NEW r \in Requests, CountRequest(r) PROVE ListInv'
<1>1. /\ pc'[r] \in {"idle"} \cup RatingSteps
      /\ \A q \in Requests \ {r} :
           /\ pc'[q] = pc[q] /\ at'[q] = at[q] /\ item'[q] = item[q]
           /\ row'[q] = row[q] /\ todo'[q] = todo[q] /\ posted'[q] = posted[q]
      /\ UNCHANGED <<sub, mixed>>
  <2>1. CASE \E t \in Tasks : ShowList(r, t)
    BY <2>1 DEF ShowList, Begin, TypeOK
  <2>2. CASE Exists(r) \/ CountCompleted(r)
    BY <2>2 DEF Exists, CountCompleted, TypeOK
  <2>3. CASE FetchTask(r) \/ CountTotal(r)
    BY <2>3 DEF FetchTask, CountTotal, Finish, End, TypeOK
  <2>4. CASE \E q \in TaskCounts \cup SubCounts \cup DayCounts : Statistic(r, q)
    BY <2>4 DEF Statistic, Begin, TypeOK
  <2>5. CASE Reply(r)
    BY <2>5 DEF Reply, Finish, End, TypeOK
  <2> QED
    BY <2>1, <2>2, <2>3, <2>4, <2>5 DEF CountRequest
<1>2. Relies(r)'
  BY <1>1 DEF Relies
<1> QED
  BY <1>1, <1>2, ListsStand

LEMMA ListAbort ==
  ASSUME TypeOK, ListInv, NEW r \in Requests, Abort(r) PROVE ListInv'
<1>1. /\ pc'[r] = "dead"
      /\ \A q \in Requests \ {r} :
           /\ pc'[q] = pc[q] /\ at'[q] = at[q] /\ item'[q] = item[q]
           /\ row'[q] = row[q] /\ todo'[q] = todo[q] /\ posted'[q] = posted[q]
      /\ UNCHANGED <<sub, mixed>>
  BY DEF Abort, End, TypeOK
<1>2. Relies(r)'
  BY <1>1 DEF Relies
<1> QED
  BY <1>1, <1>2, ListsStand

\* A list that is deleted with its task is empty, and whoever was about to write
\* to it knows.
LEMMA ListDelete ==
  ASSUME TypeOK, ListInv, NEW t0 \in Tasks, DeleteTask(t0) PROVE ListInv'
<1>1. /\ sub' = Without(sub, ListOf(t0)) /\ NoteEmpty(t0, Requests)
      /\ UNCHANGED <<pc, at, item, row, todo, posted>>
  BY DEF DeleteTask, work
<1>2. \A s \in Subs : sub'[s] = IF s \in ListOf(t0) THEN Nothing ELSE sub[s]
  BY <1>1 DEF Without, TypeOK
<1>3. \A t \in Tasks \ {t0} : SameList(t)
  BY <1>2 DEF SameList, ListOf
<1>4. \A t \in Tasks \ {t0} : t \notin mixed' => t \notin mixed
  BY <1>1 DEF NoteEmpty
<1>5. Ordered(t0)'
  BY <1>2 DEF Ordered, ListOf
<1>6. t0 \in Tasks \ mixed' => \A q \in Requests \ {} : ~Holds(q, t0)
  BY <1>1 DEF NoteEmpty, Held
<1>7. \A q \in Requests \cap {} : Relies(q)'
  OBVIOUS
<1> QED
  BY <1>1, <1>3, <1>4, <1>5, <1>6, <1>7, ListsKept

LEMMA ListInit == Init => ListInv
<1> SUFFICES ASSUME Init PROVE ListInv
  OBVIOUS
<1>1. \A t \in Tasks : ListOf(t) = {}
  BY DEF Init, ListOf
<1>2. \A t \in Tasks : Ordered(t)
  BY <1>1 DEF Ordered
<1>3. \A r \in Requests : Relies(r)
  BY DEF Init, Relies
<1> QED
  BY <1>2, <1>3 DEF ListInv

LEMMA ListStep == TypeOK /\ FitInv /\ ListInv /\ [Next]_vars => ListInv'
<1> SUFFICES ASSUME TypeOK, FitInv, ListInv, [Next]_vars PROVE ListInv'
  OBVIOUS
<1>1. CASE UNCHANGED vars
  <2>1. \A t \in Tasks : Ordered(t) => Ordered(t)'
    BY <1>1 DEF vars, Ordered, ListOf
  <2>2. \A r \in Requests : PostedBy(r) => PostedBy(r)'
    BY <1>1 DEF vars, PostedBy, Orders, ListOf
  <2>3. \A r \in Requests : ToCome(r) => ToCome(r)'
    BY <1>1 DEF vars, ToCome, Apart, Orders, ListOf
  <2>4. \A r \in Requests : Relies(r) => Relies(r)'
    BY <1>1, <2>2, <2>3 DEF vars, Relies, Apart, ListOf
  <2> QED
    BY <1>1, <2>1, <2>4 DEF ListInv, vars
<1>2. ASSUME NEW r \in Requests, TaskRequest(r) \/ ListRequest(r) PROVE ListInv'
  BY <1>2, ListTask, ListWrite DEF FitInv
<1>3. ASSUME NEW r \in Requests, CountRequest(r) \/ Abort(r) PROVE ListInv'
  BY <1>3, ListCount, ListAbort
<1>4. ASSUME NEW t \in Tasks, DeleteTask(t) PROVE ListInv'
  BY <1>4, ListDelete
<1> QED
  BY <1>1, <1>2, <1>3, <1>4 DEF Next

LEMMA ListCorrect == Spec => []ListInv
  BY TypeInit, FitInit, ListInit, TypeStep, FitStep, ListStep, PTL DEF Spec

\* While nobody else writes to the list of a task, a form leaves what it posted
\* there and nothing of the old list, be it deleted and written anew, posted with
\* a new task or copied (create_personal_task, edit_personal_task and
\* copy_tasks_from_yesterday).
THEOREM PostedList == Spec => []ListAsPosted
<1>1. TypeOK /\ ListInv => ListAsPosted
  BY DEF ListInv, Relies, PostedBy, ListAsPosted, Orders
<1> QED
  BY <1>1, TypeCorrect, ListCorrect, PTL

\* No two subtasks of a task share an order, whatever requests add, delete, post
\* and copy, unless two of them write to the list at once (create_subtask reads
\* the largest order in one statement and inserts the next one in another).
THEOREM DistinctOrders == Spec => []OrdersDistinct
<1>1. ListInv => OrdersDistinct
  BY DEF ListInv, Ordered, OrdersDistinct
<1> QED
  BY <1>1, ListCorrect, PTL
=============================================================================
