------------------------ MODULE WorkerRecordProofs ------------------------
(***************************************************************************)
(* Proofs about WorkerRecord: type correctness, that no job is counted     *)
(* twice, that nobody revives the record of a worker that has gone, and    *)
(* that a job that was popped comes to an end.                             *)
(***************************************************************************)
EXTENDS WorkerRecord, FiniteSetTheorems, TLAPS

-----------------------------------------------------------------------------
(* Types *)

\* A partial save leaves a record.
LEMMA MergedType ==
  ASSUME rec \in Records, NEW copy \in Records, NEW fields
  PROVE  Merged(copy, fields) \in Records
BY DEF Merged, Records

\* So does setting a field.
LEMMA FieldType ==
  ASSUME NEW r \in Records
  PROVE  /\ \A b \in BOOLEAN : /\ [r EXCEPT !.suspended = b] \in Records
                               /\ [r EXCEPT !.shutdown = b] \in Records
                               /\ [r EXCEPT !.dead = b] \in Records
         /\ \A s \in States : [r EXCEPT !.state = s] \in Records
         /\ [r EXCEPT !.done = @ + 1] \in Records
BY DEF Records

LEMMA NewRecordType == NewRecord \in Records
BY DEF NewRecord, Records, States

LEMMA TypeInit == Init => TypeOK
BY NewRecordType DEF Init, TypeOK, MainPcs

LEMMA TypeMain == TypeOK /\ MainStep => TypeOK'
<1> SUFFICES ASSUME TypeOK, MainStep PROVE TypeOK'
  OBVIOUS
<1> USE DEF TypeOK, MainPcs, Teardown, Goto, At, others, childVars, listenerVars
<1>1. ASSUME NEW p, NEW q \in MainPcs, Refresh(p, q),
             <<p, q>> \in {<<"refresh", "check">>, <<"after", "report">>,
                           <<"wait", "reaped">>}
      PROVE  TypeOK'
  BY <1>1 DEF Refresh
<1>2. CASE CheckForSuspension
  BY <1>2, FieldType DEF CheckForSuspension, SetState, LocalStep, States
<1>3. CASE LookForRequest
  BY <1>3, FieldType DEF LookForRequest, SetState, LocalStep, States
<1>4. ASSUME NEW p, NEW q \in MainPcs, Beat(p, q),
             \/ p \in {"listen", "empty", "report"}
                  /\ q \in {"pop", "teardown", "refresh"}
             \/ p = "popped" /\ q = "handover"
             \/ p = "wait" /\ q = "wait"
      PROVE  TypeOK'
  BY <1>4 DEF Beat, Heartbeat, SaveAll, Undone
<1>5. ASSUME NEW j \in Jobs, Pop(j) PROVE TypeOK'
  BY <1>5 DEF Pop, LocalStep
<1>6. CASE PopNothing
  BY <1>6 DEF PopNothing, LocalStep
<1>7. CASE GetBusy
  BY <1>7, FieldType DEF GetBusy, SetState, States
<1>8. CASE Fork
  BY <1>8 DEF Fork, LocalStep
<1>9. CASE NoteChild
  BY <1>9, MergedType DEF NoteChild
<1>10. CASE Settle
  <2>1. obj' \in Records /\ rec' \in Records
    BY <1>10, FieldType, MergedType DEF Settle
  <2>2. over' \subseteq Jobs
    BY <1>10 DEF Settle
  <2> QED
    BY <1>10, <2>1, <2>2 DEF Settle
<1>11. CASE GetIdle
  BY <1>11, FieldType DEF GetIdle, SetState, States
<1>12. CASE StopListening
  BY <1>12 DEF StopListening, LocalStep
<1>13. CASE Delete
  BY <1>13, FieldType DEF Delete
<1>14. CASE End
  BY <1>14 DEF End, LocalStep
<1>15. CASE Report
  BY <1>15, <1>4 DEF Report
<1> QED
  BY <1>1, <1>2, <1>3, <1>4, <1>5, <1>6, <1>7, <1>8, <1>9, <1>10, <1>11,
     <1>12, <1>13, <1>14, <1>15 DEF MainStep, Monitor, Reap

LEMMA TypeOthers ==
  TypeOK /\ (ChildGoesOn \/ ListenerGoesOn \/ Handled \/ Signal \/ ForceStop
             \/ ChildDies \/ \E c \in {"suspend", "resume", "kill"} : Hear(c))
    => TypeOK'
<1> USE DEF mainVars, childVars, listenerVars
<1>a. ASSUME TypeOK, NEW p \in {"born", "prepare", "run", "count", "exit"},
             NEW q \in {"prepare", "run", "count", "exit", "ended", "died"}, ChildStep(p, q),
             rec' \in Records, cobj' \in Records, over' \subseteq Jobs,
             undone' \subseteq {"suspended", "shutdown"}
      PROVE  TypeOK'
  BY <1>a DEF TypeOK, ChildStep
<1>b. ASSUME TypeOK, rec' \in Records, lobj' \in Records,
             undone' \subseteq {"suspended", "shutdown"},
             listener' \in {"listening", "suspend", "resume", "kill", "request", "dead"},
             UNCHANGED <<mainVars, sig, burst, childVars, cut>>
      PROVE  TypeOK'
  BY <1>b DEF TypeOK
<1>c. TypeOK => /\ rec \in Records /\ obj \in Records /\ cobj \in Records /\ lobj \in Records
                /\ undone \subseteq {"suspended", "shutdown"} /\ over \subseteq Jobs
                /\ child # "none" => job \in Jobs
  BY DEF TypeOK
<1>d. ASSUME NEW copy, copy \in Records, SaveAll(copy), undone \subseteq {"suspended", "shutdown"}
      PROVE  rec' \in Records /\ undone' \subseteq {"suspended", "shutdown"}
  BY <1>d DEF SaveAll, Undone
<1>1. ASSUME TypeOK, NEW p \in {"born", "prepare"}, NEW q \in {"prepare", "run"}, SaveCopy(p, q)
      PROVE  TypeOK'
  <2>1. rec' \in Records /\ undone' \subseteq {"suspended", "shutdown"}
    BY <1>1, <1>c, <1>d DEF SaveCopy
  <2> QED
    BY <1>1, <1>a, <1>c, <2>1 DEF SaveCopy
<1>2. ASSUME TypeOK, File PROVE TypeOK'
  <2>1. over' \subseteq Jobs
    BY <1>2, <1>c DEF File, ChildStep
  <2> QED
    BY <1>2, <1>a, <1>c, <2>1 DEF File
<1>3. ASSUME TypeOK, Count PROVE TypeOK'
  <2>1. cobj' \in Records
    BY <1>3, <1>c, FieldType DEF Count
  <2>2. rec' \in Records
    BY <1>3, <1>c, <2>1, MergedType DEF Count
  <2> QED
    BY <1>3, <1>a, <1>c, <2>1, <2>2 DEF Count
<1>4. ASSUME TypeOK, Exit PROVE TypeOK'
  BY <1>4, <1>a, <1>c DEF Exit
<1>5. ASSUME TypeOK, ChildDies PROVE TypeOK'
  BY <1>5, <1>a, <1>c DEF ChildDies, ChildAlive
<1>6. ASSUME TypeOK, NEW c, NEW s \in BOOLEAN, Obey(c, s) PROVE TypeOK'
  <2>1. rec' \in Records
    BY <1>6, <1>c, FieldType DEF Obey
  <2>2. undone' \subseteq {"suspended", "shutdown"}
    BY <1>6, <1>c DEF Obey
  <2> QED
    BY <1>6, <1>b, <1>c, <2>1, <2>2 DEF Obey
<1>7. ASSUME TypeOK, Rebuild PROVE TypeOK'
  <2>1. rec' \in Records /\ undone' \subseteq {"suspended", "shutdown"}
    BY <1>7, <1>c, <1>d DEF Rebuild
  <2> QED
    BY <1>7, <1>b, <1>c, <2>1 DEF Rebuild
<1>8. ASSUME TypeOK, NoteRequest PROVE TypeOK'
  <2>1. rec' \in Records
    BY <1>8, <1>c, FieldType DEF NoteRequest
  <2>2. undone' \subseteq {"suspended", "shutdown"}
    BY <1>8, <1>c DEF NoteRequest
  <2> QED
    BY <1>8, <1>b, <1>c, <2>1, <2>2 DEF NoteRequest
<1>9. ASSUME TypeOK, NEW c \in {"suspend", "resume", "kill"}, Hear(c) PROVE TypeOK'
  BY <1>9, <1>b, <1>c DEF Hear
<1>10. ASSUME TypeOK, Signal PROVE TypeOK'
  <2>1. rec' \in Records /\ obj' \in Records
    BY <1>10, <1>c, FieldType DEF Signal
  <2> QED
    BY <1>10, <2>1 DEF Signal, TypeOK
<1>e. ASSUME TypeOK, rec' \in Records, sig' = "handled", cut' \in BOOLEAN,
             \/ pc' = pc
             \/ pc' = "teardown" /\ pc \notin {"done", "gone"}
             \/ pc' = "gone",
             listener' \in {listener, "stopped"},
             child' = child \/ (child # "none" /\ child' = "died"),
             UNCHANGED <<obj, dirty, job, left, burst, cobj, over, lobj, undone>>
      PROVE  TypeOK'
  BY <1>e DEF TypeOK, MainPcs, Teardown
<1>f. ASSUME TypeOK, Leave, pc # "gone"
      PROVE  /\ \/ pc' = "teardown" /\ pc \notin {"done", "gone"}
                \/ pc' = "gone"
             /\ listener' \in {listener, "stopped"} /\ cut' \in BOOLEAN
  BY <1>f DEF TypeOK, Leave, Goto, Teardown
<1>11. ASSUME TypeOK, Handled PROVE TypeOK'
  <2>1. rec' \in Records
    BY <1>11, <1>c, FieldType DEF Handled
  <2>2. /\ pc' = pc \/ (pc' = "teardown" /\ pc \notin {"done", "gone"}) \/ pc' = "gone"
        /\ listener' \in {listener, "stopped"} /\ cut' \in BOOLEAN
    BY <1>11, <1>f DEF Handled, TypeOK
  <2>3. sig' = "handled" /\ UNCHANGED <<obj, dirty, job, left, burst, childVars, lobj, undone>>
    BY <1>11 DEF Handled
  <2> QED
    BY <1>11, <1>e, <2>1, <2>2, <2>3
<1>12. ASSUME TypeOK, ForceStop PROVE TypeOK'
  <2>1. /\ (pc' = "teardown" /\ pc \notin {"done", "gone"}) \/ pc' = "gone"
        /\ listener' \in {listener, "stopped"} /\ cut' \in BOOLEAN
        /\ child' = child \/ (child # "none" /\ child' = "died")
    BY <1>12, <1>f DEF ForceStop, ChildAlive, Goto
  <2>2. sig' = "handled" /\ UNCHANGED <<rec, obj, dirty, job, left, burst, cobj, over, lobj, undone>>
    BY <1>12 DEF ForceStop
  <2> QED
    BY <1>12, <1>c, <1>e, <2>1, <2>2
<1> QED
  BY <1>1, <1>2, <1>3, <1>4, <1>5, <1>6, <1>7, <1>8, <1>9, <1>10, <1>11, <1>12
  DEF ChildGoesOn, ListenerGoesOn

LEMMA TypeStep == TypeOK /\ [Next]_vars => TypeOK'
<1>1. TypeOK /\ UNCHANGED vars => TypeOK'
  BY DEF TypeOK, vars, mainVars, childVars, listenerVars, Teardown
<1> QED
  BY <1>1, TypeMain, TypeOthers DEF Next

\* Every variable keeps its type, whatever the worker, its child, its listener
\* and the signals do.
THEOREM TypeCorrect == Spec => []TypeOK
<1> QED
  BY TypeInit, TypeStep, PTL DEF Spec

-----------------------------------------------------------------------------
(* Counting *)

\* The jobs that may have been counted: the ends on record, but for the one the
\* child is about to count.
Counted == over \ (IF child = "count" THEN {job} ELSE {})

\* A job whose execution is to come, or runs, has no end on record.
Apart ==
  /\ left \cap over = {} /\ job \notin left
  /\ pc \in {"popped", "handover", "fork"} => job \notin over
  /\ child \in {"born", "prepare", "run"} => job \notin over
  /\ child = "count" => job \in over

Dones == {rec.done, obj.done, cobj.done, lobj.done}

Counts == \A n \in Dones : n <= Cardinality(Counted)

CountInv == Apart /\ Counts

LEMMA CountInit == Init => CountInv
<1> SUFFICES ASSUME Init PROVE CountInv
  OBVIOUS
<1>1. Counted = {} /\ Dones = {0}
  BY DEF Init, Counted, Dones, NewRecord
<1> QED
  BY <1>1, FS_EmptySet, WorkerAssumption DEF Init, CountInv, Apart, Counts

LEMMA CountedFinite ==
  ASSUME TypeOK
  PROVE  /\ IsFiniteSet(Counted) /\ IsFiniteSet(over)
         /\ Cardinality(Counted) \in Nat /\ Cardinality(over) \in Nat
         /\ Cardinality(Counted) <= Cardinality(over)
         /\ Dones \subseteq Nat
<1>1. IsFiniteSet(over)
  BY FS_Subset, WorkerAssumption DEF TypeOK
<1>2. Counted \subseteq over
  BY DEF Counted
<1> QED
  BY <1>1, <1>2, FS_Subset, FS_CardinalityType DEF Dones, TypeOK, Records

\* Steps that count nothing: they pass on a count somebody has.
LEMMA PassedOn ==
  ASSUME TypeOK, TypeOK', Counts, Counted \subseteq Counted', Dones' \subseteq Dones
  PROVE  Counts'
<1>1. IsFiniteSet(Counted')
  <2>1. Counted' \subseteq Jobs
    BY DEF Counted, TypeOK
  <2> QED
    BY <2>1, FS_Subset, WorkerAssumption
<1>2. /\ Cardinality(Counted) <= Cardinality(Counted')
      /\ Cardinality(Counted') \in Nat
  BY <1>1, FS_Subset, FS_CardinalityType
<1>3. Cardinality(Counted) \in Nat /\ Dones \subseteq Nat
  BY CountedFinite
<1> QED
  BY <1>2, <1>3 DEF Counts

\* Steps that count a job: it is on record now, and was not counted before.
LEMMA OneMore ==
  ASSUME TypeOK, TypeOK', Counts, job \notin Counted, Counted' = Counted \cup {job},
         Dones' \subseteq Dones \cup {n + 1 : n \in Dones}
  PROVE  Counts'
<1>1. Cardinality(Counted') = Cardinality(Counted) + 1
  BY CountedFinite, FS_AddElement
<1>2. Cardinality(Counted) \in Nat /\ Dones \subseteq Nat
  BY CountedFinite
<1> QED
  BY <1>1, <1>2 DEF Counts

\* A partial save takes its count from the record or from the copy.
LEMMA MergedDone ==
  ASSUME rec \in Records, NEW copy \in Records, NEW fields
  PROVE  Merged(copy, fields).done \in {rec.done, copy.done}
BY DEF Merged, Records

LEMMA SetDone ==
  ASSUME NEW r \in Records
  PROVE  /\ \A b \in BOOLEAN : /\ [r EXCEPT !.suspended = b].done = r.done
                               /\ [r EXCEPT !.shutdown = b].done = r.done
                               /\ [r EXCEPT !.dead = b].done = r.done
         /\ \A s \in States : [r EXCEPT !.state = s].done = r.done
         /\ [r EXCEPT !.done = @ + 1].done = r.done + 1
BY DEF Records

LEMMA CountMain == TypeOK /\ TypeOK' /\ CountInv /\ MainStep => CountInv'
<1> SUFFICES ASSUME TypeOK, TypeOK', CountInv, MainStep PROVE CountInv'
  OBVIOUS
<1>0. /\ rec \in Records /\ obj \in Records
      /\ child # "none" => pc \in {"forked", "wait", "reaped"} \cup Teardown \cup {"done", "gone"}
  BY DEF TypeOK
<1>a. ASSUME over' = over, child' = child, job' = job, Dones' \subseteq Dones
      PROVE  Counts'
  BY <1>a, PassedOn DEF CountInv, Counted
<1>b. ASSUME obj' \in {obj, rec} \/ \E s \in States : obj' = [obj EXCEPT !.state = s],
             \/ rec' \in {rec, obj}
             \/ \E s \in States : rec' = [rec EXCEPT !.state = s]
             \/ rec' = [rec EXCEPT !.dead = TRUE]
             \/ \E fields : rec' = Merged(obj, fields),
             cobj' \in {cobj, obj}, lobj' = lobj
      PROVE  Dones' \subseteq Dones
  <2>1. obj'.done \in Dones
    <3>1. CASE obj' \in {obj, rec}
      BY <3>1 DEF Dones
    <3>2. CASE \E s \in States : obj' = [obj EXCEPT !.state = s]
      <4>1. obj'.done = obj.done
        BY <3>2, <1>0, SetDone
      <4> QED
        BY <4>1 DEF Dones
    <3> QED
      BY <1>b, <3>1, <3>2
  <2>2. rec'.done \in Dones
    <3>1. ASSUME NEW fields, rec' = Merged(obj, fields) PROVE rec'.done \in Dones
      BY <3>1, <1>0, MergedDone DEF Dones
    <3>2. CASE rec' \in {rec, obj}
      BY <3>2 DEF Dones
    <3>3. CASE \E s \in States : rec' = [rec EXCEPT !.state = s]
      <4>1. PICK s \in States : rec' = [rec EXCEPT !.state = s]
        BY <3>3
      <4>2. rec'.done = rec.done
        BY <4>1, <1>0, SetDone
      <4> QED
        BY <4>2 DEF Dones
    <3>4. CASE rec' = [rec EXCEPT !.dead = TRUE]
      <4>1. rec'.done = rec.done
        BY <3>4, <1>0, SetDone
      <4> QED
        BY <4>1 DEF Dones
    <3> QED
      BY <1>b, <3>1, <3>2, <3>3, <3>4
  <2> QED
    BY <1>b, <2>1, <2>2 DEF Dones
<1> USE DEF Goto, At, others, childVars, listenerVars, LocalStep, SetState
<1>1. ASSUME NEW p, NEW q \in {"check", "report", "reaped"}, Refresh(p, q)
      PROVE  CountInv'
  BY <1>1, <1>a, <1>b DEF Refresh, CountInv, Apart
<1>2. CASE CheckForSuspension
  <2>1. \/ obj' = obj /\ rec' = rec
        \/ \E s \in States : /\ obj' = [obj EXCEPT !.state = s]
                             /\ rec' = [rec EXCEPT !.state = s]
    BY <1>2 DEF CheckForSuspension, States
  <2> QED
    BY <1>2, <2>1, <1>a, <1>b DEF CheckForSuspension, CountInv, Apart
<1>3. CASE LookForRequest
  <2>1. \/ obj' = obj /\ rec' = rec
        \/ \E s \in States : /\ obj' = [obj EXCEPT !.state = s]
                             /\ rec' = [rec EXCEPT !.state = s]
    BY <1>3 DEF LookForRequest, States
  <2> QED
    BY <1>3, <2>1, <1>a, <1>b DEF LookForRequest, CountInv, Apart
<1>4. ASSUME NEW p, NEW q, Beat(p, q), q \notin {"popped", "fork"},
             q = "handover" => p = "popped"
      PROVE  CountInv'
  BY <1>4, <1>a, <1>b DEF Beat, Heartbeat, SaveAll, CountInv, Apart
<1>5. ASSUME NEW j \in Jobs, Pop(j) PROVE CountInv'
  <2>1. child = "none" /\ child' = "none"
    BY <1>5, <1>0 DEF Pop, Teardown
  <2>2. Apart'
    BY <1>5, <2>1 DEF Pop, CountInv, Apart
  <2>3. Counted' = Counted /\ Dones' = Dones
    BY <1>5, <2>1 DEF Pop, Counted, Dones
  <2> QED
    BY <2>2, <2>3, PassedOn DEF CountInv
<1>6. CASE PopNothing
  BY <1>6, <1>a, <1>b DEF PopNothing, CountInv, Apart
<1>7. CASE GetBusy
  BY <1>7, <1>a, <1>b DEF GetBusy, States, CountInv, Apart
<1>8. CASE Fork
  <2>1. child = "none" /\ child' = "born" /\ over' = over /\ job' = job
    BY <1>8, <1>0 DEF Fork, Teardown
  <2>2. Counted' = Counted
    BY <2>1 DEF Counted
  <2>3. Dones' \subseteq Dones
    BY <1>8, <1>b DEF Fork
  <2> QED
    BY <1>8, <2>1, <2>2, <2>3, PassedOn DEF Fork, CountInv, Apart
<1>9. CASE NoteChild
  <2>1. Dones' \subseteq Dones
    BY <1>9, <1>b DEF NoteChild
  <2> QED
    BY <1>9, <2>1, <1>a DEF NoteChild, CountInv, Apart
<1>10. CASE Settle
  <2>1. child' = "none" /\ pc' = "settled" /\ left' = left /\ job' = job
    BY <1>10 DEF Settle
  <2>2. CASE child = "died" /\ job \notin over
    <3>1. /\ over' = over \cup {job}
          /\ Counted = over /\ Counted' = Counted \cup {job}
      BY <1>10, <2>1, <2>2 DEF Settle, Counted
    <3>2. obj' \in Records /\ obj'.done = obj.done + 1
      BY <1>10, <1>0, <2>2, SetDone DEF Settle, TypeOK
    <3>3. rec'.done \in {rec.done, obj'.done} /\ cobj' = cobj /\ lobj' = lobj
      BY <1>10, <1>0, <2>2, <3>2, MergedDone DEF Settle
    <3>4. Dones' \subseteq Dones \cup {n + 1 : n \in Dones}
      BY <3>2, <3>3 DEF Dones
    <3>5. Counts'
      BY <2>2, <3>1, <3>4, OneMore DEF CountInv
    <3> QED
      BY <2>1, <3>1, <3>5 DEF CountInv, Apart
  <2>3. CASE ~(child = "died" /\ job \notin over)
    <3>1. over' = over /\ Dones' \subseteq Dones
      BY <1>10, <2>3, <1>b DEF Settle
    <3>2. Counted \subseteq Counted'
      BY <2>1, <3>1 DEF Counted
    <3> QED
      BY <2>1, <3>1, <3>2, PassedOn DEF CountInv, Apart
  <2> QED
    BY <2>2, <2>3
<1>11. CASE GetIdle
  <2>1. child = "none" /\ child' = "none"
    BY <1>11, <1>0 DEF GetIdle, Teardown
  <2>2. Counted' = Counted
    BY <1>11, <2>1 DEF GetIdle, Counted
  <2>3. Dones' \subseteq Dones
    BY <1>11, <1>b DEF GetIdle, States
  <2>4. Apart'
    BY <1>11, <2>1, WorkerAssumption DEF GetIdle, CountInv, Apart, TypeOK
  <2> QED
    BY <2>2, <2>3, <2>4, PassedOn DEF CountInv
<1>12. CASE StopListening
  BY <1>12, <1>a, <1>b DEF StopListening, CountInv, Apart
<1>13. CASE Delete
  BY <1>13, <1>a, <1>b DEF Delete, CountInv, Apart
<1>14. CASE End
  BY <1>14, <1>a, <1>b DEF End, CountInv, Apart
<1> QED
  BY <1>1, <1>2, <1>3, <1>4, <1>5, <1>6, <1>7, <1>8, <1>9, <1>10, <1>11,
     <1>12, <1>13, <1>14 DEF MainStep, Monitor, Reap, Report

LEMMA CountOthers ==
  /\ TypeOK /\ TypeOK' /\ CountInv
  /\ ChildGoesOn \/ ListenerGoesOn \/ Handled \/ Signal \/ ForceStop \/ ChildDies
       \/ \E c \in {"suspend", "resume", "kill"} : Hear(c)
  => CountInv'
<1> SUFFICES ASSUME TypeOK, TypeOK', CountInv PROVE
      ChildGoesOn \/ ListenerGoesOn \/ Handled \/ Signal \/ ForceStop \/ ChildDies
        \/ (\E c \in {"suspend", "resume", "kill"} : Hear(c))
      => CountInv'
  OBVIOUS
<1>0. rec \in Records /\ obj \in Records /\ cobj \in Records
  BY DEF TypeOK
<1>a. ASSUME over' = over, child' = child, job' = job, Dones' \subseteq Dones
      PROVE  Counts'
  BY <1>a, PassedOn DEF CountInv, Counted
<1> USE DEF Goto, mainVars, childVars, listenerVars, ChildStep
<1>1. ASSUME NEW p, p # "count", NEW q \in {"prepare", "run"}, SaveCopy(p, q),
             p \in {"born", "prepare"}
      PROVE  CountInv'
  <2>1. Counted' = Counted /\ Dones' \subseteq Dones
    BY <1>1 DEF SaveCopy, SaveAll, Counted, Dones
  <2> QED
    BY <1>1, <2>1, PassedOn DEF SaveCopy, CountInv, Apart
<1>2. ASSUME File PROVE CountInv'
  <2>1. job \notin over /\ job \in Jobs /\ job \notin left
    BY <1>2 DEF File, CountInv, Apart, TypeOK
  <2>2. Counted' = Counted /\ Dones' = Dones
    BY <1>2, <2>1 DEF File, Counted, Dones
  <2>3. pc \notin {"popped", "handover", "fork"}
    BY <1>2 DEF File, TypeOK, Teardown
  <2> QED
    BY <1>2, <2>1, <2>2, <2>3, PassedOn DEF File, CountInv, Apart
<1>3. ASSUME Count PROVE CountInv'
  <2>1. job \in over /\ job \notin Counted /\ Counted' = Counted \cup {job}
    BY <1>3 DEF Count, CountInv, Apart, Counted
  <2>2. cobj' \in Records /\ cobj'.done = cobj.done + 1
    BY <1>3, <1>0, SetDone DEF Count, TypeOK
  <2>3. rec'.done \in {rec.done, cobj'.done} /\ obj' = obj /\ lobj' = lobj
    BY <1>3, <1>0, <2>2, MergedDone DEF Count
  <2>4. Dones' \subseteq Dones \cup {n + 1 : n \in Dones}
    BY <2>2, <2>3 DEF Dones
  <2>5. Counts'
    BY <2>1, <2>4, OneMore DEF CountInv
  <2> QED
    BY <1>3, <2>5 DEF Count, CountInv, Apart
<1>4. ASSUME Exit \/ ChildDies PROVE CountInv'
  <2>1. child' \in {"ended", "died"} /\ UNCHANGED <<over, left, job, pc>>
    BY <1>4 DEF Exit, ChildDies
  <2>2. Counted \subseteq Counted' /\ Dones' = Dones
    BY <1>4, <2>1 DEF Exit, ChildDies, Counted, Dones
  <2> QED
    BY <2>1, <2>2, PassedOn DEF CountInv, Apart
<1>5. ASSUME NEW c, NEW s \in BOOLEAN, Obey(c, s) PROVE CountInv'
  <2>1. Dones' = Dones
    BY <1>5, <1>0, SetDone DEF Obey, Dones
  <2> QED
    BY <1>5, <2>1, <1>a DEF Obey, CountInv, Apart
<1>6. ASSUME Rebuild PROVE CountInv'
  <2>1. Dones' \subseteq Dones
    BY <1>6 DEF Rebuild, SaveAll, Dones
  <2> QED
    BY <1>6, <2>1, <1>a DEF Rebuild, SaveAll, CountInv, Apart
<1>7. ASSUME NoteRequest PROVE CountInv'
  <2>1. Dones' = Dones
    BY <1>7, <1>0, SetDone DEF NoteRequest, Dones
  <2> QED
    BY <1>7, <2>1, <1>a DEF NoteRequest, CountInv, Apart
<1>8. ASSUME NEW c, Hear(c) PROVE CountInv'
  <2>1. Dones' \subseteq Dones
    BY <1>8 DEF Hear, Dones
  <2> QED
    BY <1>8, <2>1, <1>a DEF Hear, CountInv, Apart
<1>9. ASSUME Signal PROVE CountInv'
  <2>1. Dones' = Dones
    BY <1>9, <1>0, SetDone DEF Signal, Dones
  <2> QED
    BY <1>9, <2>1, <1>a DEF Signal, CountInv, Apart
<1>10. ASSUME Handled PROVE CountInv'
  <2>1. rec' = rec \/ rec' = [rec EXCEPT !.shutdown = TRUE]
    BY <1>10 DEF Handled
  <2>2. Dones' = Dones
    BY <1>10, <2>1, <1>0, SetDone DEF Handled, Dones
  <2>3. pc' \in {pc, "teardown", "gone"}
    BY <1>10, Zenon DEF Handled, Leave
  <2> QED
    BY <1>10, <2>2, <2>3, <1>a DEF Handled, CountInv, Apart
<1>11. ASSUME ForceStop PROVE CountInv'
  <2>1. /\ child' \in {child, "died"} /\ UNCHANGED <<over, left, job>>
        /\ pc' \in {pc, "teardown", "gone"}
    BY <1>11 DEF ForceStop, Leave
  <2>2. Counted \subseteq Counted' /\ Dones' = Dones
    BY <1>11, <2>1 DEF ForceStop, Counted, Dones
  <2> QED
    BY <2>1, <2>2, PassedOn DEF CountInv, Apart
<1> QED
  BY <1>1, <1>2, <1>3, <1>4, <1>5, <1>6, <1>7, <1>8, <1>9, <1>10, <1>11
  DEF ChildGoesOn, ListenerGoesOn

LEMMA CountStep == TypeOK /\ CountInv /\ [Next]_vars => CountInv'
<1>1. CountInv /\ UNCHANGED vars => CountInv'
  BY DEF CountInv, Apart, Counts, Counted, Dones, vars, mainVars, childVars, listenerVars
<1> QED
  BY <1>1, TypeStep, CountMain, CountOthers DEF Next

LEMMA CountImplies == TypeOK /\ CountInv => CountedOnce
<1> SUFFICES ASSUME TypeOK, CountInv PROVE CountedOnce
  OBVIOUS
<1>1. \A n \in Dones : n <= Cardinality(over)
  BY CountedFinite DEF CountInv, Counts
<1> QED
  BY <1>1 DEF CountedOnce, Dones

\* completed_jobs never runs ahead of the jobs whose end was recorded, though
\* parent and child may both handle an end and both save counts read earlier.
THEOREM NoDoubleCount == Spec => []CountedOnce
<1>1. Spec => [](TypeOK /\ CountInv)
  BY TypeInit, TypeStep, CountInit, CountStep, PTL DEF Spec
<1> QED
  BY <1>1, CountImplies, PTL

-----------------------------------------------------------------------------
(* The end of a worker *)

Past == {"delete", "done", "gone"}

\* While the child may run the worker is busy, so that a signal does not make
\* it leave; the listener stops first, and only then the death is noted.
NoRevival ==
  /\ pc \in {"fork", "forked", "wait"} => obj.state = "busy"
  /\ pc = "reaped" => child \in {"ended", "died"}
  /\ pc \in Past => listener = "stopped"
  /\ pc \in Teardown \cup Past /\ ~cut => ~ChildAlive
  /\ pc \in {"done", "gone"} /\ ~cut => rec.dead

LEMMA LeaveMain == TypeOK /\ NoRevival /\ MainStep => NoRevival'
<1> SUFFICES ASSUME TypeOK, NoRevival, MainStep PROVE NoRevival'
  OBVIOUS
<1>0. child # "none" => pc \in {"forked", "wait", "reaped"} \cup Teardown \cup {"done", "gone"}
  BY DEF TypeOK
<1> USE DEF NoRevival, ChildAlive, Past, Teardown, Goto, At, others, childVars,
            listenerVars, LocalStep, SetState
<1>1. ASSUME NEW p \in {"refresh", "after"}, NEW q \in {"check", "report"},
             Refresh(p, q)
      PROVE  NoRevival'
  BY <1>1 DEF Refresh
<1>2. CASE CheckForSuspension
  BY <1>2, <1>0 DEF CheckForSuspension
<1>3. CASE LookForRequest
  BY <1>3, <1>0 DEF LookForRequest
<1>4. ASSUME NEW p \in {"listen", "empty", "popped", "report"},
             NEW q \in {"pop", "teardown", "handover", "refresh"}, Beat(p, q)
      PROVE  NoRevival'
  BY <1>4, <1>0 DEF Beat, Heartbeat
<1>5. ASSUME NEW j \in Jobs, Pop(j) PROVE NoRevival'
  BY <1>5 DEF Pop
<1>6. CASE PopNothing
  BY <1>6 DEF PopNothing
<1>7. CASE GetBusy
  <2>1. obj'.state = "busy"
    BY <1>7 DEF GetBusy, TypeOK, Records
  <2> QED
    BY <1>7, <2>1 DEF GetBusy
<1>8. CASE Fork
  BY <1>8 DEF Fork
<1>9. CASE NoteChild
  BY <1>9 DEF NoteChild
<1>10. CASE Monitor
  BY <1>10 DEF Monitor, Beat, Heartbeat
<1>11. CASE Reap
  BY <1>11 DEF Reap, Refresh
<1>12. CASE Settle
  <2>1. pc' = "settled"
    BY <1>12 DEF Settle
  <2> QED
    BY <2>1
<1>13. CASE GetIdle
  BY <1>13 DEF GetIdle
<1>14. CASE StopListening
  BY <1>14 DEF StopListening
<1>15. CASE Delete
  <2>1. rec'.dead
    BY <1>15 DEF Delete, TypeOK, Records
  <2> QED
    BY <1>15, <2>1 DEF Delete
<1>16. CASE End
  BY <1>16 DEF End
<1> QED
  BY <1>1, <1>2, <1>3, <1>4, <1>5, <1>6, <1>7, <1>8, <1>9, <1>10, <1>11,
     <1>12, <1>13, <1>14, <1>15, <1>16 DEF MainStep, Report

LEMMA LeaveOthers ==
  /\ TypeOK /\ NoRevival
  /\ ChildGoesOn \/ ListenerGoesOn \/ Handled \/ Signal \/ ForceStop \/ ChildDies
       \/ \E c \in {"suspend", "resume", "kill"} : Hear(c)
  => NoRevival'
<1> SUFFICES ASSUME TypeOK, NoRevival PROVE
      ChildGoesOn \/ ListenerGoesOn \/ Handled \/ Signal \/ ForceStop \/ ChildDies
        \/ (\E c \in {"suspend", "resume", "kill"} : Hear(c))
      => NoRevival'
  OBVIOUS
<1> USE DEF NoRevival, ChildAlive, Past, Teardown, Goto, mainVars, childVars, listenerVars
<1>1. ASSUME ChildGoesOn \/ ChildDies PROVE NoRevival'
  <2>1. ChildAlive /\ UNCHANGED <<obj, pc, listener, cut>>
    BY <1>1 DEF ChildGoesOn, ChildDies, SaveCopy, File, Count, Exit, ChildStep
  <2> QED
    BY <2>1
<1>2. ASSUME ListenerGoesOn PROVE NoRevival'
  <2>1. listener # "stopped" /\ UNCHANGED <<obj, pc, child, cut>>
    BY <1>2 DEF ListenerGoesOn, Obey, Rebuild, NoteRequest
  <2> QED
    BY <2>1
<1>3. ASSUME NEW c, Hear(c) PROVE NoRevival'
  BY <1>3 DEF Hear
<1>4. ASSUME Signal PROVE NoRevival'
  <2>1. obj'.state = obj.state /\ rec'.dead = rec.dead
    BY <1>4 DEF Signal, TypeOK, Records
  <2> QED
    BY <1>4, <2>1 DEF Signal
<1>5. ASSUME Handled PROVE NoRevival'
  <2>1. rec'.dead = rec.dead
    BY <1>5 DEF Handled, TypeOK, Records
  <2>2. CASE obj.state = "busy"
    BY <1>5, <2>1, <2>2 DEF Handled
  <2>3. CASE obj.state # "busy"
    <3>1. ~ChildAlive \/ cut
      BY <2>3 DEF TypeOK
    <3> QED
      BY <1>5, <2>1, <2>3, <3>1 DEF Handled, Leave
  <2> QED
    BY <2>2, <2>3
<1>6. ASSUME ForceStop PROVE NoRevival'
  BY <1>6 DEF ForceStop, Leave
<1> QED
  BY <1>1, <1>2, <1>3, <1>4, <1>5, <1>6

LEMMA LeaveStep == TypeOK /\ NoRevival /\ [Next]_vars => NoRevival'
<1>1. NoRevival /\ UNCHANGED vars => NoRevival'
  BY DEF NoRevival, ChildAlive, vars, mainVars, childVars, listenerVars
<1> QED
  BY <1>1, LeaveMain, LeaveOthers DEF Next

\* The record of a worker that has gone says so, and no child and no listener
\* is left that could save it as the record of a living one.
THEOREM StaysDead == Spec => []LeavesNoRecord
<1>1. Init => NoRevival
  BY DEF Init, NoRevival, Past, Teardown
<1>2. NoRevival => LeavesNoRecord
  BY DEF NoRevival, LeavesNoRecord, Past
<1> QED
  BY <1>1, <1>2, TypeInit, TypeStep, LeaveStep, PTL DEF Spec

-----------------------------------------------------------------------------
(* The end of a job *)

\* Where the main thread has no job in hand.
Free == {"refresh", "check", "suspended", "look", "listen", "pop", "empty",
         "after", "report"}

\* The job in hand is the only one that may be without an end; the parent lets
\* go of it only when it has one, which the child or the parent has recorded.
JobInv ==
  /\ FinishesItsJob
  /\ pc \in Free => job = NoJob
  /\ pc = "settled" => job \in over
  /\ child \in {"count", "exit", "ended"} => job \in over
  /\ pc = "reaped" => child \in {"ended", "died"}

LEMMA JobMain == TypeOK /\ JobInv /\ MainStep => JobInv'
<1> SUFFICES ASSUME TypeOK, JobInv, MainStep PROVE JobInv'
  OBVIOUS
<1>0. child # "none" =>
        pc \in {"forked", "wait", "reaped"} \cup Teardown \cup {"done", "gone"}
  BY DEF TypeOK
<1> USE DEF JobInv, FinishesItsJob, Free, Teardown, Goto, At, others, childVars,
            listenerVars, LocalStep, SetState
<1>1. ASSUME NEW p \in {"refresh", "after"}, NEW q \in {"check", "report"},
             Refresh(p, q)
      PROVE  JobInv'
  BY <1>1 DEF Refresh
<1>2. CASE CheckForSuspension
  BY <1>2 DEF CheckForSuspension
<1>3. CASE LookForRequest
  BY <1>3 DEF LookForRequest
<1>4. ASSUME \/ Beat("listen", "pop") \/ Beat("empty", "teardown")
             \/ Beat("popped", "handover") \/ Beat("report", "teardown")
             \/ Beat("report", "refresh")
      PROVE  JobInv'
  BY <1>4 DEF Beat, Heartbeat
<1>5. ASSUME NEW j \in Jobs, Pop(j) PROVE JobInv'
  BY <1>5, <1>0, WorkerAssumption DEF Pop
<1>6. CASE PopNothing
  BY <1>6 DEF PopNothing
<1>7. CASE GetBusy
  BY <1>7 DEF GetBusy
<1>8. CASE Fork
  BY <1>8 DEF Fork
<1>9. CASE NoteChild
  BY <1>9 DEF NoteChild
<1>10. CASE Monitor
  BY <1>10 DEF Monitor, Beat, Heartbeat
<1>11. CASE Reap
  BY <1>11 DEF Reap, Refresh
<1>12. CASE Settle
  <2>1. over \subseteq over' /\ job \in over' /\ UNCHANGED <<job, left>>
    BY <1>12 DEF Settle
  <2>2. pc' = "settled" /\ child' = "none"
    BY <1>12 DEF Settle
  <2> QED
    BY <2>1, <2>2
<1>13. CASE GetIdle
  BY <1>13, <1>0 DEF GetIdle
<1>14. CASE StopListening
  BY <1>14 DEF StopListening
<1>15. CASE Delete
  BY <1>15 DEF Delete
<1>16. CASE End
  BY <1>16 DEF End
<1> QED
  BY <1>1, <1>2, <1>3, <1>4, <1>5, <1>6, <1>7, <1>8, <1>9, <1>10, <1>11,
     <1>12, <1>13, <1>14, <1>15, <1>16 DEF MainStep, Report

LEMMA JobOthers ==
  /\ TypeOK /\ JobInv
  /\ ChildGoesOn \/ ListenerGoesOn \/ Handled \/ Signal \/ ForceStop \/ ChildDies
       \/ \E c \in {"suspend", "resume", "kill"} : Hear(c)
  => JobInv'
<1> SUFFICES ASSUME TypeOK, JobInv PROVE
      ChildGoesOn \/ ListenerGoesOn \/ Handled \/ Signal \/ ForceStop \/ ChildDies
        \/ (\E c \in {"suspend", "resume", "kill"} : Hear(c))
      => JobInv'
  OBVIOUS
<1> USE DEF JobInv, FinishesItsJob, Free, Teardown, ChildAlive, Goto, mainVars,
            childVars, listenerVars
<1>1. ASSUME ChildGoesOn \/ ChildDies PROVE JobInv'
  <2>1. /\ UNCHANGED <<pc, job, left, sig>> /\ over \subseteq over'
        /\ child \in {"born", "prepare", "run", "count", "exit"}
        /\ child' \in {"count", "exit", "ended"} => job \in over'
    BY <1>1 DEF ChildGoesOn, ChildDies, SaveCopy, File, Count, Exit, ChildStep
  <2> QED
    BY <2>1
<1>2. ASSUME ListenerGoesOn \/ (\E c \in {"suspend", "resume", "kill"} : Hear(c))
      PROVE  JobInv'
  <2>1. UNCHANGED <<pc, job, left, sig, child, over>>
    BY <1>2 DEF ListenerGoesOn, Obey, Rebuild, NoteRequest, Hear
  <2> QED
    BY <2>1
<1>3. ASSUME Signal PROVE JobInv'
  BY <1>3 DEF Signal
<1>4. ASSUME Handled PROVE JobInv'
  <2>1. sig' = "handled" /\ UNCHANGED <<job, left, child, over>>
        /\ pc' \in {pc, "teardown", "gone"}
    BY <1>4, Zenon DEF Handled, Leave
  <2> QED
    BY <2>1
<1>5. ASSUME ForceStop PROVE JobInv'
  <2>1. sig' = "handled" /\ UNCHANGED <<job, left, over>>
        /\ child' \in {child, "died"} /\ pc' \in {"teardown", "gone"}
    BY <1>5, Zenon DEF ForceStop, Leave
  <2> QED
    BY <2>1
<1> QED
  BY <1>1, <1>2, <1>3, <1>4, <1>5

LEMMA JobStep == TypeOK /\ JobInv /\ [Next]_vars => JobInv'
<1>1. JobInv /\ UNCHANGED vars => JobInv'
  BY DEF JobInv, FinishesItsJob, vars, mainVars, childVars, listenerVars
<1> QED
  BY <1>1, JobMain, JobOthers DEF Next

\* No job that was popped is left without an end, but for the one in hand when
\* a signal makes the worker leave.
THEOREM JobsEnd == Spec => []FinishesItsJob
<1>1. Init => JobInv
  BY WorkerAssumption DEF Init, JobInv, FinishesItsJob, Free, Teardown
<1>2. JobInv => FinishesItsJob
  BY DEF JobInv
<1> QED
  BY <1>1, <1>2, TypeInit, TypeStep, JobStep, PTL DEF Spec

=============================================================================
