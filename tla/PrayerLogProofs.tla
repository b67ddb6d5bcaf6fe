-------------------------- MODULE PrayerLogProofs --------------------------
(***************************************************************************)
(* Proofs about PrayerLog and Calendar: type correctness, that the marks   *)
(* on the page of a day agree, that toggles are the marks of PrayerBook,   *)
(* that the two counts of a statistic fit, what the ranges and the grids   *)
(* of dates are, and that the numbers of a dashboard add up.               *)
(***************************************************************************)
EXTENDS PrayerLog, FiniteSetTheorems, SequenceTheorems, WellFoundedInduction,
        TLAPS

-----------------------------------------------------------------------------
(* Types *)

LEMMA MarkedType ==
  ASSUME NEW row, NEW sent
  PROVE  Marked(row, sent) \in RowType /\ Blank \in RowType
BY DEF Marked, Blank, RowType, Statuses

\* Noting that something was marked changes no page otherwise.
LEMMA UnsettleType ==
  ASSUME TypeOK
  PROVE  /\ Unsettle(board) \in [Requests -> BoardType \cup {Nothing}]
         /\ \A r \in Requests :
              Unsettle(board)[r] # Nothing <=> board[r] # Nothing
<1>1. ASSUME NEW r \in Requests, board[r] # Nothing
      PROVE  [board[r] EXCEPT !.quiet = FALSE] \in BoardType
  <2>1. board[r] \in BoardType
    BY <1>1 DEF TypeOK
  <2> QED
    BY <2>1 DEF BoardType
<1> QED
  BY <1>1, NothingAssumption DEF Unsettle

\* There are finitely many cells, so that rows can be counted.
LEMMA CellsFinite ==
  ASSUME NEW q
  PROVE  /\ IsFiniteSet(Matching(q)) /\ IsFiniteSet(Completed(q))
         /\ Cardinality(Matching(q)) \in Nat
         /\ Cardinality(Completed(q)) \in Nat
         /\ Cardinality(Completed(q)) <= Cardinality(Matching(q))
<1>1. IsFiniteSet(Cells)
  BY FS_Product, PrayerLogAssumption DEF Cells
<1>2. Matching(q) \subseteq Cells /\ Completed(q) \subseteq Matching(q)
  BY DEF Matching, Completed, Rows
<1>3. IsFiniteSet(Matching(q))
  BY <1>1, <1>2, FS_Subset
<1> QED
  BY <1>2, <1>3, FS_Subset, FS_CardinalityType

LEMMA TypeInit == Init => TypeOK
BY DEF Init, TypeOK, Toggling, Scheduling, Listing, Counting

USE DEF Goto, book, list

LEMMA TypeToggle ==
  ASSUME TypeOK, NEW r \in Requests, ToggleRequest(r) PROVE TypeOK'
<1> USE DEF TypeOK, Toggling, Scheduling, Listing, Counting
<1>1. ASSUME NEW c \in Cells, NEW sent \in Sent, Toggle(r, c, sent)
      PROVE  TypeOK'
  <2>1. <<c, sent>> \in Cells \X Sent /\ <<c, sent>> # Nothing
    BY NothingAssumption
  <2> QED
    BY <1>1, <2>1 DEF Toggle, Unique
<1>2. CASE GetRow(r)
  BY <1>2 DEF GetRow, Unique
<1>3. CASE InsertRow(r)
  <2>1. mark[r] # Nothing /\ mark[r][1] \in Cells
    BY <1>3 DEF InsertRow
  <2>2. Blank \in RowType /\ Blank # Nothing
    BY MarkedType, NothingAssumption
  <2>3. board' \in [Requests -> BoardType \cup {Nothing}]
        /\ \A q \in Requests : board'[q] # Nothing <=> board[q] # Nothing
    BY <1>3, UnsettleType DEF InsertRow
  <2> QED
    BY <1>3, <2>1, <2>2, <2>3 DEF InsertRow, Unique
<1>4. CASE GetAgain(r)
  BY <1>4 DEF GetAgain, Unique
<1>5. CASE SaveRow(r)
  <2>1. mark[r] # Nothing /\ mark[r][1] \in Cells
    BY <1>5 DEF SaveRow
  <2>2. /\ log' \in [Cells -> RowType \cup {Nothing}]
        /\ \A c \in Cells : log[c] # Nothing => log'[c] # Nothing
    BY <1>5, <2>1, MarkedType, NothingAssumption DEF SaveRow
  <2>3. board' \in [Requests -> BoardType \cup {Nothing}]
        /\ \A q \in Requests : board'[q] # Nothing <=> board[q] # Nothing
    BY <1>5, UnsettleType DEF SaveRow
  <2>4. /\ day' \in [Requests -> DayType \cup {Nothing}]
        /\ \A q \in Requests : day'[q] # Nothing <=> day[q] # Nothing
    <3>1. mark[r][1][1] \in Names
      BY <2>1 DEF Cells
    <3>2. ASSUME NEW q \in Requests, day[q] # Nothing
          PROVE  [day[q] EXCEPT !.touched = @ \cup {mark[r][1][1]}] \in DayType
      <4>1. day[q] \in DayType
        BY <3>2
      <4> QED
        BY <3>1, <4>1 DEF DayType
    <3> QED
      BY <1>5, <3>2, NothingAssumption DEF SaveRow
  <2>5. /\ mark' = [mark EXCEPT ![r] = Nothing] /\ pc' = [pc EXCEPT ![r] = "idle"]
        /\ pc[r] = "save" /\ UNCHANGED <<times, used, slot, marks>>
    BY <1>5 DEF SaveRow
  <2>6. \A q \in Requests :
          pc'[q] \in {"again", "save"} => log'[mark'[q][1]] # Nothing
    <3>1. ASSUME NEW q \in Requests, pc'[q] \in {"again", "save"}
          PROVE  q # r /\ mark'[q] = mark[q] /\ pc'[q] = pc[q]
                 /\ mark[q] \in Cells \X Sent
      BY <2>5, <3>1
    <3> QED
      BY <2>2, <3>1
  <2> QED
    BY <2>2, <2>3, <2>4, <2>5, <2>6 DEF Unique
<1> QED
  BY <1>1, <1>2, <1>3, <1>4, <1>5 DEF ToggleRequest

LEMMA TypeTimes ==
  ASSUME TypeOK, NEW r \in Requests, TimesRequest(r) PROVE TypeOK'
<1> USE DEF TypeOK, Toggling, Scheduling, Listing, Counting
<1>1. ASSUME NEW n \in Offered, CreatePrayer(r, n) PROVE TypeOK'
  <2>1. <<Nothing, n>> \in SlotType /\ <<Nothing, n>> # Nothing
    BY PrayerLogAssumption, NothingAssumption DEF SlotType
  <2> QED
    BY <1>1, <2>1 DEF CreatePrayer, Unique
<1>2. CASE InsertPrayer(r)
  <2>1. slot[r] \in SlotType /\ slot[r][2] \in Names
    BY <1>2 DEF InsertPrayer, SlotType
  <2>2. /\ times' \in [Ids -> Names \cup {Nothing}] /\ used' \subseteq Ids
        /\ used \subseteq used'
        /\ \A i \in Ids : times'[i] # Nothing =>
             i \in used' /\ \A j \in Ids \ {i} : times'[j] # times'[i]
    BY <1>2, <2>1 DEF InsertPrayer, Unique
  <2> QED
    BY <1>2, <2>1, <2>2 DEF InsertPrayer, Unique
<1>3. ASSUME NEW i \in Ids, NEW step \in {"update", "delete"},
             OpenPrayer(r, i, step)
      PROVE  TypeOK'
  <2>1. <<i, times[i]>> \in SlotType /\ <<i, times[i]>> # Nothing /\ i # Nothing
    BY <1>3, PrayerLogAssumption, NothingAssumption DEF OpenPrayer, SlotType
  <2> QED
    BY <1>3, <2>1 DEF OpenPrayer, Unique
<1>4. CASE UpdatePrayer(r)
  <2>1. /\ slot[r] \in SlotType /\ slot[r][2] \in Names
        /\ slot[r][1] \in Ids /\ slot[r][1] \in used
    BY <1>4 DEF UpdatePrayer, SlotType
  <2>2. /\ times' \in [Ids -> Names \cup {Nothing}]
        /\ \A i \in Ids : times'[i] # Nothing =>
             i \in used /\ \A j \in Ids \ {i} : times'[j] # times'[i]
    BY <1>4, <2>1 DEF UpdatePrayer, Unique
  <2> QED
    BY <1>4, <2>1, <2>2 DEF UpdatePrayer, Unique
<1>5. CASE DeletePrayer(r)
  <2>1. /\ times' \in [Ids -> Names \cup {Nothing}]
        /\ \A i \in Ids : times'[i] # Nothing =>
             i \in used /\ \A j \in Ids \ {i} : times'[j] # times'[i]
    BY <1>5 DEF DeletePrayer, Unique
  <2> QED
    BY <1>5, <2>1 DEF DeletePrayer, Unique
<1> QED
  BY <1>1, <1>2, <1>3, <1>4, <1>5 DEF TimesRequest

LEMMA TypeDay ==
  ASSUME TypeOK, NEW r \in Requests, DayRequest(r) PROVE TypeOK'
<1> USE DEF TypeOK, Toggling, Scheduling, Listing, Counting
<1>1. ASSUME NEW d \in Dates, ReadMarks(r, d) PROVE TypeOK'
  <2>1. day'[r] \in DayType
    BY <1>1 DEF ReadMarks, DayType
  <2>2. day' = [day EXCEPT ![r] = day'[r]] /\ day'[r] # Nothing
    BY <1>1, <2>1, NothingAssumption DEF ReadMarks
  <2> QED
    BY <1>1, <2>1, <2>2 DEF ReadMarks, Unique
<1>2. CASE ListPrayers(r)
  <2>1. day[r] \in DayType
    BY <1>2 DEF ListPrayers
  <2>2. Scheduled \subseteq Names
    BY DEF Scheduled
  <2>3. [day[r] EXCEPT !.rest = Scheduled] \in DayType
    BY <2>1, <2>2 DEF DayType
  <2>4. /\ day' \in [Requests -> DayType \cup {Nothing}]
        /\ \A q \in Requests : day'[q] # Nothing <=> day[q] # Nothing
    BY <1>2, <2>1, <2>3, NothingAssumption DEF ListPrayers
  <2> QED
    BY <1>2, <2>4 DEF ListPrayers, Unique
<1>3. ASSUME NEW n \in Names, ReadStatus(r, n) PROVE TypeOK'
  <2>1. day[r] \in DayType
    BY <1>3 DEF ReadStatus
  <2> DEFINE row == log[<<n, day[r].date>>]
             entry == [name |-> n, done |-> n \in day[r].done,
                       status |-> IF row = Nothing THEN "not_yet" ELSE row.status]
  <2>2. day[r].date \in Dates
    BY <2>1 DEF DayType
  <2>3. row \in RowType \cup {Nothing}
    BY <2>2 DEF Cells
  <2>4. entry \in [name : Names, done : BOOLEAN, status : Statuses]
    BY <2>3 DEF RowType, Statuses
  <2> HIDE DEF entry
  <2>5. [day[r] EXCEPT !.rest = @ \ {n}, !.shown = @ \cup {entry}] \in DayType
    BY <2>1, <2>4 DEF DayType
  <2>6. day' = [day EXCEPT ![r] = [day[r] EXCEPT !.rest = @ \ {n},
                                                 !.shown = @ \cup {entry}]]
    BY <1>3 DEF ReadStatus, entry
  <2>7. /\ day' \in [Requests -> DayType \cup {Nothing}]
        /\ \A q \in Requests : day'[q] # Nothing <=> day[q] # Nothing
    BY <2>1, <2>5, <2>6, NothingAssumption
  <2> QED
    BY <1>3, <2>7 DEF ReadStatus, Unique
<1>4. CASE ShowDay(r)
  BY <1>4 DEF ShowDay, Unique
<1> QED
  BY <1>1, <1>2, <1>3, <1>4 DEF DayRequest

\* What a request of the statistics does to its own page, and that it leaves
\* the tables and the other pages alone.
LEMMA BoardPage ==
  ASSUME TypeOK, NEW r \in Requests, BoardRequest(r)
  PROVE  /\ UNCHANGED <<book, list, day>>
         /\ board' = [board EXCEPT ![r] = board'[r]]
         /\ pc' = [pc EXCEPT ![r] = pc'[r]]
         /\ pc[r] \in {"idle"} \cup Counting
         /\ \/ pc'[r] \in Counting /\ board'[r] \in BoardType
            \/ pc'[r] = "idle" /\ board'[r] = Nothing
<1> USE DEF TypeOK, Counting
<1>1. ASSUME NEW view \in Views, NEW filter \in Filters, NEW today \in Todays,
             OpenBoard(r, view, filter, today)
      PROVE  board'[r] \in BoardType
  <2>1. Queries(view, DateRange(filter, today)) \in Plans
    BY DEF Plans
  <2>2. <<>> \in Seq(AnswerType)
    OBVIOUS
  <2> DEFINE plan == Queries(view, DateRange(filter, today))
  <2>3. [filter  |-> filter, today |-> today, view |-> view,
         queries |-> plan,
         answers |-> <<>>, completed |-> 0, was |-> 0, quiet |-> TRUE]
          \in BoardType
    <3> HIDE DEF plan
    <3> QED
      BY <2>1, <2>2 DEF BoardType, plan
  <2> QED
    BY <1>1, <2>3 DEF OpenBoard
<1>2. ASSUME CountCompleted(r) PROVE board'[r] \in BoardType
  <2>1. board[r] \in BoardType
    BY <1>2 DEF CountCompleted
  <2>2. /\ Cardinality(Completed(At(r))) \in Nat
        /\ Cardinality(Matching(At(r))) \in Nat
    BY CellsFinite
  <2>3. ASSUME NEW m \in Nat, NEW n \in Nat
        PROVE  [board[r] EXCEPT !.completed = m, !.was = n] \in BoardType
    BY <2>1 DEF BoardType
  <2> QED
    BY <1>2, <2>2, <2>3 DEF CountCompleted
<1>3. ASSUME CountTotal(r) PROVE board'[r] \in BoardType
  <2>1. board[r] \in BoardType
    BY <1>3 DEF CountTotal
  <2>2. Cardinality(Matching(At(r))) \in Nat
    BY CellsFinite
  <2> DEFINE answer == [completed |-> board[r].completed, was |-> board[r].was,
                        total |-> Cardinality(Matching(At(r)))]
  <2>3. answer \in AnswerType
    BY <2>1, <2>2 DEF AnswerType, BoardType
  <2> HIDE DEF answer
  <2>4. Append(board[r].answers, answer) \in Seq(AnswerType)
    BY <2>1, <2>3 DEF BoardType
  <2>5. [board[r] EXCEPT !.answers = Append(@, answer)] \in BoardType
    BY <2>1, <2>4 DEF BoardType
  <2>6. board'[r] = [board[r] EXCEPT !.answers = Append(@, answer)]
    BY <1>3 DEF CountTotal, answer
  <2> QED
    BY <2>5, <2>6
<1>4. ASSUME CloseBoard(r) PROVE pc'[r] = "idle" /\ board'[r] = Nothing
  BY <1>4 DEF CloseBoard
<1>5. CASE \E view \in Views, filter \in Filters, today \in Todays :
             OpenBoard(r, view, filter, today)
  <2>1. board'[r] \in BoardType
    BY <1>1, <1>5
  <2>2. /\ board' = [board EXCEPT ![r] = board'[r]]
        /\ pc' = [pc EXCEPT ![r] = "completed"] /\ pc[r] = "idle"
        /\ UNCHANGED <<book, list, day>>
    BY <1>5 DEF OpenBoard
  <2> QED
    BY <2>1, <2>2
<1>6. CASE CountCompleted(r)
  BY <1>2, <1>6 DEF CountCompleted
<1>7. CASE CountTotal(r)
  BY <1>3, <1>7 DEF CountTotal
<1>8. CASE CloseBoard(r)
  BY <1>4, <1>8 DEF CloseBoard
<1> QED
  BY <1>5, <1>6, <1>7, <1>8 DEF BoardRequest

LEMMA TypeBoard ==
  ASSUME TypeOK, NEW r \in Requests, BoardRequest(r) PROVE TypeOK'
BY BoardPage, NothingAssumption
   DEF TypeOK, Toggling, Scheduling, Listing, Counting, Unique

LEMMA TypeAbort ==
  ASSUME TypeOK, NEW r \in Requests, Abort(r) PROVE TypeOK'
BY DEF Abort, TypeOK, Toggling, Scheduling, Listing, Counting, Unique

LEMMA TypeStep == TypeOK /\ [Next]_vars => TypeOK'
<1>1. TypeOK /\ UNCHANGED vars => TypeOK'
  BY DEF TypeOK, vars, Unique
<1> QED
  BY <1>1, TypeToggle, TypeTimes, TypeDay, TypeBoard, TypeAbort DEF Next

\* The tables and what requests hold are of their types, and a request's next
\* statement has what it needs: the row that get_or_create has found is there
\* when it is saved.
THEOREM TypeCorrect == Spec => []TypeOK
BY TypeInit, TypeStep, PTL DEF Spec

-----------------------------------------------------------------------------
(* The page of a day *)

\* is_completed and status of a row say the same.
RowsAgree == \A c \in Cells : log[c] # Nothing => (log[c].done <=> log[c].status = "prayed")

\* What a page has read is what the table says of every prayer not marked since,
\* and a prayer that is listed is not listed again.
PageInv(r) ==
  /\ pc[r] = "list" => day[r].shown = {}
  /\ \A n \in Names \ day[r].touched :
       LET row == log[<<n, day[r].date>>]
       IN n \in day[r].done <=> row # Nothing /\ row.done
  /\ \A e \in day[r].shown :
       /\ e.name \notin day[r].rest
       /\ e.name \in day[r].touched \/ (e.done <=> e.status = "prayed")
  /\ \A e, f \in day[r].shown : e.name = f.name => e = f

DayInv == RowsAgree /\ \A r \in Requests : day[r] # Nothing => PageInv(r)

\* A step that touches neither the rows nor a page that is being made.
LEMMA DayStutters ==
  ASSUME TypeOK, DayInv, UNCHANGED log,
         \A q \in Requests : day'[q] # Nothing => day'[q] = day[q] /\ pc'[q] = pc[q]
  PROVE  DayInv'
BY DEF DayInv, RowsAgree, PageInv

\* The three branches of the toggle set both fields.
LEMMA MarkedAgrees ==
  ASSUME NEW row, NEW sent
  PROVE  /\ Marked(row, sent).done <=> Marked(row, sent).status = "prayed"
         /\ ~Blank.done /\ Blank.status = "not_yet"
BY DEF Marked, Blank

\* A toggle inserts rows that say what no row says, and a row that it changes is
\* noted on the pages of its date.
LEMMA DayToggle ==
  ASSUME TypeOK, DayInv, NEW r \in Requests, ToggleRequest(r) PROVE DayInv'
<1>1. CASE \/ \E c \in Cells, sent \in Sent : Toggle(r, c, sent)
           \/ GetRow(r) \/ GetAgain(r)
  <2>1. UNCHANGED <<log, day>> /\ day[r] = Nothing
        /\ \A q \in Requests \ {r} : pc'[q] = pc[q]
    BY <1>1 DEF Toggle, GetRow, GetAgain, TypeOK, Toggling, Listing
  <2> QED
    BY <2>1, DayStutters
<1>2. CASE InsertRow(r)
  <2>1. UNCHANGED day /\ day[r] = Nothing /\ \A q \in Requests \ {r} : pc'[q] = pc[q]
    BY <1>2 DEF InsertRow, TypeOK, Toggling, Listing
  <2>2. \A c \in Cells : log'[c] = log[c] \/ (log[c] = Nothing /\ log'[c] = Blank)
    <3>1. log \in [Cells -> RowType \cup {Nothing}]
      BY DEF TypeOK
    <3>2. \/ UNCHANGED log
          \/ /\ log[mark[r][1]] = Nothing
             /\ log' = [log EXCEPT ![mark[r][1]] = Blank]
      BY <1>2 DEF InsertRow
    <3> QED
      BY <3>1, <3>2
  <2>3. RowsAgree'
    BY <2>2, MarkedAgrees DEF DayInv, RowsAgree
  <2>4. ASSUME NEW q \in Requests, day[q] # Nothing PROVE PageInv(q)'
    <3>1. day[q] \in DayType
      BY <2>4 DEF TypeOK
    <3>2. ASSUME NEW n \in Names
          PROVE  /\ <<n, day[q].date>> \in Cells
                 /\ \/ log'[<<n, day[q].date>>] = log[<<n, day[q].date>>]
                    \/ /\ log[<<n, day[q].date>>] = Nothing
                       /\ log'[<<n, day[q].date>>] = Blank
      BY <2>2, <3>1 DEF Cells, DayType
    <3>3. PageInv(q) /\ day'[q] = day[q] /\ q # r /\ pc'[q] = pc[q]
      BY <2>1, <2>4 DEF DayInv
    <3>4. ASSUME NEW n \in Names \ day[q].touched
          PROVE  n \in day[q].done <=>
                   log'[<<n, day[q].date>>] # Nothing /\ log'[<<n, day[q].date>>].done
      BY <3>2, <3>3, MarkedAgrees DEF PageInv
    <3> QED
      BY <3>3, <3>4 DEF PageInv
  <2> QED
    BY <2>1, <2>3, <2>4 DEF DayInv
<1>3. CASE SaveRow(r)
  <2> DEFINE c == mark[r][1]
  <2>1. c \in Cells /\ day[r] = Nothing
    BY <1>3 DEF SaveRow, TypeOK, Toggling, Listing
  <2>2. /\ \A q \in Requests \ {r} : pc'[q] = pc[q]
        /\ \A d \in Cells \ {c} : log'[d] = log[d]
        /\ log'[c] = Marked(log[c], mark[r][2])
        /\ \A q \in Requests :
             day'[q] = IF day[q] # Nothing /\ day[q].date = c[2]
                       THEN [day[q] EXCEPT !.touched = @ \cup {c[1]}] ELSE day[q]
    BY <1>3, <2>1 DEF SaveRow, TypeOK
  <2>3. RowsAgree'
    BY <2>1, <2>2, MarkedAgrees DEF DayInv, RowsAgree
  <2>4. ASSUME NEW q \in Requests, day'[q] # Nothing PROVE PageInv(q)'
    <3>1. day[q] # Nothing /\ q # r /\ pc'[q] = pc[q]
      BY <2>1, <2>2, <2>4
    <3>2. day[q] \in DayType
      BY <3>1 DEF TypeOK
    <3>3. /\ day'[q].date = day[q].date /\ day'[q].done = day[q].done
          /\ day'[q].rest = day[q].rest /\ day'[q].shown = day[q].shown
          /\ day[q].touched \subseteq day'[q].touched
          /\ day[q].date = c[2] => c[1] \in day'[q].touched
      BY <2>2, <3>1, <3>2 DEF DayType
    <3>4. ASSUME NEW n \in Names \ day'[q].touched
          PROVE  log'[<<n, day[q].date>>] = log[<<n, day[q].date>>]
      <4>1. <<n, day[q].date>> \in Cells /\ <<n, day[q].date>> # c
        BY <2>1, <3>2, <3>3, <3>4 DEF Cells, DayType
      <4> QED
        BY <2>2, <4>1
    <3> HIDE DEF c
    <3>5. PageInv(q)
      BY <3>1 DEF DayInv
    <3> QED
      BY <3>1, <3>3, <3>4, <3>5 DEF PageInv
  <2> QED
    BY <2>3, <2>4 DEF DayInv
<1> QED
  BY <1>1, <1>2, <1>3 DEF ToggleRequest

\* The page's own statements.
LEMMA DayPage ==
  ASSUME TypeOK, DayInv, NEW r \in Requests, DayRequest(r) PROVE DayInv'
<1>1. ASSUME UNCHANGED log, \A q \in Requests \ {r} : day'[q] = day[q] /\ pc'[q] = pc[q],
             day'[r] # Nothing => PageInv(r)'
      PROVE  DayInv'
  BY <1>1 DEF DayInv, RowsAgree, PageInv
<1>2. ASSUME NEW d \in Dates, ReadMarks(r, d) PROVE DayInv'
  <2>1. /\ day'[r].date = d /\ day'[r].shown = {}
        /\ day'[r].done = {n \in Names : log[<<n, d>>] # Nothing /\ log[<<n, d>>].done}
        /\ UNCHANGED log /\ \A q \in Requests \ {r} : day'[q] = day[q] /\ pc'[q] = pc[q]
    BY <1>2 DEF ReadMarks, TypeOK
  <2>2. PageInv(r)'
    BY <2>1 DEF PageInv
  <2> QED
    BY <1>1, <2>1, <2>2
<1>3. CASE ListPrayers(r)
  <2>1. day[r] \in DayType /\ PageInv(r) /\ pc[r] = "list"
    BY <1>3 DEF ListPrayers, TypeOK, Listing, DayInv
  <2>2. /\ day'[r] = [day[r] EXCEPT !.rest = Scheduled]
        /\ UNCHANGED log /\ \A q \in Requests \ {r} : day'[q] = day[q] /\ pc'[q] = pc[q]
    BY <1>3 DEF ListPrayers, TypeOK
  <2>3. /\ day'[r].date = day[r].date /\ day'[r].done = day[r].done
        /\ day'[r].shown = {} /\ day'[r].touched = day[r].touched
    BY <2>1, <2>2 DEF DayType, PageInv
  <2>4. PageInv(r)'
    BY <2>1, <2>2, <2>3 DEF PageInv
  <2> QED
    BY <1>1, <2>2, <2>4
<1>4. ASSUME NEW n \in Names, ReadStatus(r, n) PROVE DayInv'
  <2> DEFINE row == log[<<n, day[r].date>>]
             entry == [name |-> n, done |-> n \in day[r].done,
                       status |-> IF row = Nothing THEN "not_yet" ELSE row.status]
  <2>1. day[r] \in DayType /\ PageInv(r) /\ pc[r] = "status" /\ n \in day[r].rest
    BY <1>4 DEF ReadStatus, TypeOK, Listing, DayInv
  <2>2. <<n, day[r].date>> \in Cells
    BY <2>1 DEF DayType, Cells
  <2>3. /\ entry.name = n
        /\ entry.name \in day[r].touched \/ (entry.done <=> entry.status = "prayed")
    <3>1. n \in day[r].touched \/ (n \in day[r].done <=> row # Nothing /\ row.done)
      BY <2>1 DEF PageInv
    <3>2. row # Nothing => (row.done <=> row.status = "prayed")
      BY <2>2 DEF DayInv, RowsAgree
    <3> QED
      BY <3>1, <3>2
  <2> HIDE DEF entry
  <2>4. /\ day'[r] = [day[r] EXCEPT !.rest = @ \ {n}, !.shown = @ \cup {entry}]
        /\ UNCHANGED <<log, pc>> /\ \A q \in Requests \ {r} : day'[q] = day[q]
    BY <1>4 DEF ReadStatus, TypeOK, entry
  <2>5. /\ day'[r].date = day[r].date /\ day'[r].done = day[r].done
        /\ day'[r].rest = day[r].rest \ {n} /\ day'[r].touched = day[r].touched
        /\ day'[r].shown = day[r].shown \cup {entry}
    BY <2>1, <2>4 DEF DayType
  <2>6. PageInv(r)'
    BY <2>1, <2>3, <2>4, <2>5 DEF PageInv
  <2> QED
    BY <1>1, <2>4, <2>6
<1>5. CASE ShowDay(r)
  BY <1>5, DayStutters DEF ShowDay, TypeOK
<1> QED
  BY <1>2, <1>3, <1>4, <1>5 DEF DayRequest

LEMMA DayStep == TypeOK /\ DayInv /\ [Next]_vars => DayInv'
<1> SUFFICES ASSUME TypeOK, DayInv, [Next]_vars PROVE DayInv'
  OBVIOUS
<1>1. CASE UNCHANGED vars
  BY <1>1, DayStutters DEF vars
<1>2. ASSUME NEW r \in Requests, TimesRequest(r) PROVE DayInv'
  <2>1. UNCHANGED <<log, day>> /\ day[r] = Nothing
        /\ \A q \in Requests \ {r} : pc'[q] = pc[q]
    BY <1>2 DEF TimesRequest, CreatePrayer, InsertPrayer, OpenPrayer,
                UpdatePrayer, DeletePrayer, TypeOK, Listing, Scheduling
  <2> QED
    BY <2>1, DayStutters
<1>3. ASSUME NEW r \in Requests, BoardRequest(r) PROVE DayInv'
  <2>1. UNCHANGED <<log, day>> /\ day[r] = Nothing
        /\ \A q \in Requests \ {r} : pc'[q] = pc[q]
    BY <1>3, BoardPage DEF TypeOK, Listing, Counting
  <2> QED
    BY <2>1, DayStutters
<1>4. ASSUME NEW r \in Requests, Abort(r) PROVE DayInv'
  <2>1. UNCHANGED log /\ day'[r] = Nothing
        /\ \A q \in Requests \ {r} : day'[q] = day[q] /\ pc'[q] = pc[q]
    BY <1>4 DEF Abort, TypeOK
  <2> QED
    BY <2>1, DayStutters
<1> QED
  BY <1>1, <1>2, <1>3, <1>4, DayToggle, DayPage DEF Next

\* However the prayers are marked, and their times created, changed and deleted,
\* while the page of a day is made: is_completed and status agree for each
\* prayer that was not marked meanwhile, and no prayer is on the page twice.
THEOREM PageAgrees == Spec => []DayAgrees
<1>1. Init => DayInv
  BY DEF Init, DayInv, RowsAgree
<1>2. TypeOK /\ DayInv => DayAgrees
  <2> SUFFICES ASSUME TypeOK, DayInv, NEW r \in Requests, day[r] # Nothing
               PROVE  /\ \A e \in day[r].shown :
                           e.name \in day[r].touched \/ (e.done <=> e.status = "prayed")
                      /\ \A n \in day[r].rest : Cardinality({i \in Ids : times[i] = n}) <= 1
                      /\ \A e, f \in day[r].shown : e.name = f.name => e = f
    BY DEF DayAgrees
  <2>1. ASSUME NEW n \in day[r].rest
        PROVE  Cardinality({i \in Ids : times[i] = n}) <= 1
    <3>1. n \in Names /\ n # Nothing
      BY PrayerLogAssumption DEF TypeOK, DayType
    <3>2. \A i, j \in Ids : times[i] = n /\ times[j] = n => i = j
      BY <3>1 DEF TypeOK, Unique
    <3>3. CASE {i \in Ids : times[i] = n} = {}
      BY <3>3, FS_EmptySet
    <3>4. ASSUME NEW i \in Ids, times[i] = n
          PROVE  Cardinality({j \in Ids : times[j] = n}) <= 1
      <4>1. {j \in Ids : times[j] = n} = {i}
        BY <3>2, <3>4
      <4>2. Cardinality({i}) = 1
        BY FS_Singleton
      <4> QED
        BY <4>1, <4>2
    <3> QED
      BY <3>3, <3>4
  <2> QED
    BY <2>1 DEF DayInv, PageInv
<1> QED
  BY <1>1, <1>2, TypeInit, TypeStep, DayStep, PTL DEF Spec

-----------------------------------------------------------------------------
(* The refinement of PrayerBook *)

\* A step that leaves the marks, the toggles and the dead alone stutters.
LEMMA BookStutters ==
  ASSUME TypeOK, NEW r \in Requests, UNCHANGED <<log, mark>>,
         pc' = [pc EXCEPT ![r] = pc'[r]], pc[r] # "dead", pc'[r] # "dead"
  PROVE  UNCHANGED PrayerBook!vars
<1>1. {q \in Requests : pc'[q] = "dead"} = {q \in Requests : pc[q] = "dead"}
  BY DEF TypeOK
<1> QED
  BY <1>1 DEF PrayerBook!vars, Mapped, Wanted

LEMMA BookToggle ==
  ASSUME TypeOK, NEW r \in Requests, ToggleRequest(r)
  PROVE  [PrayerBook!Next]_(PrayerBook!vars)
<1> DEFINE Book == [c \in Cells |-> Mapped(c)]
           Asked == [q \in Requests |-> Wanted(q)]
           Dead == {q \in Requests : pc[q] = "dead"}
<1>1. ASSUME NEW c \in Cells, NEW sent \in Sent, Toggle(r, c, sent)
      PROVE  PrayerBook!Next
  <2> DEFINE s == Marked(Blank, sent).status
  <2>1. s \in Statuses
    BY DEF Marked, Blank, Statuses
  <2>2. /\ mark[r] = Nothing /\ <<c, sent>> # Nothing
        /\ mark \in [Requests -> (Cells \X Sent) \cup {Nothing}]
    BY <1>1, NothingAssumption DEF Toggle, TypeOK, Toggling
  <2>3. Asked[r] = Nothing /\ Asked' = [Asked EXCEPT ![r] = <<c, s>>]
    BY <1>1, <2>2 DEF Toggle, Wanted
  <2>4. Book' = Book
    BY <1>1 DEF Toggle, Mapped
  <2>5. Dead' = Dead /\ r \notin Dead
    BY <1>1 DEF Toggle, TypeOK
  <2> HIDE DEF s, Book, Asked, Dead
  <2>6. PrayerBook!Ask(r, c, s)
    BY <2>3, <2>4, <2>5 DEF PrayerBook!Ask, Book, Asked, Dead
  <2> QED
    BY <2>1, <2>6 DEF PrayerBook!Next
<1>2. CASE GetRow(r)
  BY <1>2, BookStutters DEF GetRow, TypeOK
<1>3. CASE InsertRow(r)
  <2>1. mark' = mark /\ mark[r] # Nothing /\ mark[r][1] \in Cells
    BY <1>3 DEF InsertRow, TypeOK, Toggling
  <2>2. Book' = Book
    BY <1>3, <2>1, NothingAssumption, MarkedType
       DEF InsertRow, Mapped, Blank, TypeOK
  <2>3. Asked' = Asked
    BY <2>1 DEF Wanted
  <2>4. Dead' = Dead
    BY <1>3 DEF InsertRow, TypeOK
  <2> QED
    BY <2>2, <2>3, <2>4 DEF PrayerBook!vars
<1>4. CASE GetAgain(r)
  BY <1>4, BookStutters DEF GetAgain, TypeOK
<1>5. CASE SaveRow(r)
  <2> DEFINE c == mark[r][1]
             s == Marked(Blank, mark[r][2]).status
  <2>1. mark[r] \in Cells \X Sent /\ mark[r] # Nothing /\ c \in Cells
    BY <1>5 DEF SaveRow, TypeOK, Toggling
  <2>2. Asked[r] = <<c, s>> /\ Asked[r] # Nothing
        /\ Asked' = [Asked EXCEPT ![r] = Nothing]
    <3>1. /\ mark' = [mark EXCEPT ![r] = Nothing]
          /\ mark \in [Requests -> (Cells \X Sent) \cup {Nothing}]
      BY <1>5 DEF SaveRow, TypeOK
    <3>2. <<c, s>> # Nothing
      <4>1. s \in Statuses
        BY DEF Marked, Blank, Statuses
      <4> QED
        BY <2>1, <4>1, NothingAssumption
    <3> QED
      BY <2>1, <3>1, <3>2 DEF Wanted
  <2>3. Book' = [Book EXCEPT ![c] = s]
    <3>1. log' = [log EXCEPT ![c] = Marked(log[c], mark[r][2])]
      BY <1>5 DEF SaveRow
    <3>2. Marked(log[c], mark[r][2]) # Nothing
          /\ Marked(log[c], mark[r][2]).status = s
      BY MarkedType, NothingAssumption DEF Marked, Blank
    <3>3. log \in [Cells -> RowType \cup {Nothing}]
      BY DEF TypeOK
    <3> QED
      BY <2>1, <3>1, <3>2, <3>3 DEF Mapped
  <2>4. Dead' = Dead
    BY <1>5 DEF SaveRow, TypeOK
  <2> HIDE DEF s, c, Book, Asked, Dead
  <2>5. Book' = [Book EXCEPT ![Asked[r][1]] = Asked[r][2]]
    BY <2>2, <2>3
  <2>6. PrayerBook!Mark(r)
    BY <2>2, <2>4, <2>5 DEF PrayerBook!Mark, Book, Asked, Dead
  <2> QED
    BY <2>6 DEF PrayerBook!Next
<1> QED
  BY <1>1, <1>2, <1>3, <1>4, <1>5 DEF ToggleRequest

LEMMA BookStep ==
  TypeOK /\ [Next]_vars => [PrayerBook!Next]_(PrayerBook!vars)
<1> SUFFICES ASSUME TypeOK, [Next]_vars
             PROVE  [PrayerBook!Next]_(PrayerBook!vars)
  OBVIOUS
<1>1. CASE UNCHANGED vars
  BY <1>1 DEF vars, PrayerBook!vars, Mapped, Wanted
<1>2. ASSUME NEW r \in Requests, TimesRequest(r)
      PROVE  UNCHANGED PrayerBook!vars
  <2>1. UNCHANGED <<log, mark>> /\ pc' = [pc EXCEPT ![r] = pc'[r]]
        /\ pc[r] # "dead" /\ pc'[r] # "dead"
    BY <1>2 DEF TimesRequest, CreatePrayer, InsertPrayer, OpenPrayer,
                UpdatePrayer, DeletePrayer, TypeOK
  <2> QED
    BY <2>1, BookStutters
<1>3. ASSUME NEW r \in Requests, DayRequest(r)
      PROVE  UNCHANGED PrayerBook!vars
  <2>1. UNCHANGED <<log, mark>> /\ pc' = [pc EXCEPT ![r] = pc'[r]]
        /\ pc[r] # "dead" /\ pc'[r] # "dead"
    BY <1>3 DEF DayRequest, ReadMarks, ListPrayers, ReadStatus, ShowDay, TypeOK
  <2> QED
    BY <2>1, BookStutters
<1>4. ASSUME NEW r \in Requests, BoardRequest(r)
      PROVE  UNCHANGED PrayerBook!vars
  BY <1>4, BoardPage, BookStutters DEF Counting
<1>5. ASSUME NEW r \in Requests, Abort(r)
      PROVE  PrayerBook!Next
  <2> DEFINE Book == [c \in Cells |-> Mapped(c)]
             Asked == [q \in Requests |-> Wanted(q)]
             Dead == {q \in Requests : pc[q] = "dead"}
  <2>1. Book' = Book
    BY <1>5 DEF Abort, Mapped
  <2>2. Asked' = [Asked EXCEPT ![r] = Nothing]
    BY <1>5 DEF Abort, Wanted, TypeOK
  <2>3. Dead' = Dead \cup {r} /\ r \notin Dead
    BY <1>5 DEF Abort, TypeOK
  <2> HIDE DEF Book, Asked, Dead
  <2>4. PrayerBook!Die(r)
    BY <2>1, <2>2, <2>3 DEF PrayerBook!Die, Book, Asked, Dead
  <2> QED
    BY <2>4 DEF PrayerBook!Next
<1> QED
  BY <1>1, <1>2, <1>3, <1>4, <1>5, BookToggle DEF Next

\* However many requests toggle the prayers of a day at once, whichever of them
\* die: each mark asked for is made once, as asked, or its request is dead.
THEOREM TogglesAreMarks == Spec => FollowsBook
<1>1. Init => PrayerBook!Init
  BY DEF Init, PrayerBook!Init, Mapped, Wanted
<1> QED
  BY <1>1, TypeInit, TypeStep, BookStep, PTL
     DEF Spec, FollowsBook, PrayerBook!Spec

-----------------------------------------------------------------------------
(* The two counts *)

\* What a page has counted fits, while the rest of it is still to come.
FitInv ==
  \A r \in Requests : board[r] # Nothing =>
    /\ pc[r] = "total" => board[r].completed <= board[r].was
                         /\ board[r].was <= Cardinality(Matching(At(r)))
    /\ \A i \in 1 .. Len(board[r].answers) :
         /\ board[r].answers[i].completed <= board[r].answers[i].was
         /\ board[r].answers[i].was <= board[r].answers[i].total

\* Rows are never taken out, so a count never goes down.
LEMMA RowsGrow ==
  ASSUME TypeOK, NEW r \in Requests, ToggleRequest(r), NEW q
  PROVE  Cardinality(Matching(q)) <= Cardinality(Matching(q)')
<1>1. \A c \in Cells : log[c] # Nothing => log'[c] # Nothing
  <2>1. CASE \E c \in Cells, sent \in Sent : Toggle(r, c, sent)
    BY <2>1 DEF Toggle
  <2>2. CASE GetRow(r) \/ GetAgain(r)
    BY <2>2 DEF GetRow, GetAgain
  <2>3. CASE InsertRow(r)
    BY <2>3, MarkedType, NothingAssumption DEF InsertRow, TypeOK, Toggling
  <2>4. CASE SaveRow(r)
    <3>1. mark[r][1] \in Cells
      BY <2>4 DEF SaveRow, TypeOK, Toggling
    <3> QED
      BY <2>4, <3>1, MarkedType, NothingAssumption DEF SaveRow, TypeOK
  <2> QED
    BY <2>1, <2>2, <2>3, <2>4 DEF ToggleRequest
<1>2. Matching(q) \subseteq Matching(q)'
  BY <1>1 DEF Matching, Rows
<1>3. IsFiniteSet(Cells) /\ Matching(q)' \subseteq Cells
  BY FS_Product, PrayerLogAssumption DEF Cells, Matching, Rows
<1>4. IsFiniteSet(Matching(q)')
  BY <1>3, FS_Subset
<1> QED
  BY <1>2, <1>4, FS_Subset

\* A toggle changes no page's counts, and the rows that a page has yet to count
\* have become no fewer.
LEMMA FitToggle ==
  ASSUME TypeOK, FitInv, NEW r \in Requests, ToggleRequest(r) PROVE FitInv'
<1>1. board' = board \/ board' = Unsettle(board)
  BY DEF ToggleRequest, Toggle, GetRow, InsertRow, GetAgain, SaveRow
<1>2. \A q \in Requests : pc'[q] = "total" => pc[q] = "total"
  BY DEF ToggleRequest, Toggle, GetRow, InsertRow, GetAgain, SaveRow, TypeOK
<1>3. SUFFICES ASSUME NEW q \in Requests, board'[q] # Nothing
               PROVE  /\ pc'[q] = "total" =>
                           /\ board'[q].completed <= board'[q].was
                           /\ board'[q].was <= Cardinality(Matching(At(q)))'
                      /\ \A i \in 1 .. Len(board'[q].answers) :
                           /\ board'[q].answers[i].completed
                                <= board'[q].answers[i].was
                           /\ board'[q].answers[i].was
                                <= board'[q].answers[i].total
  BY DEF FitInv
<1>4. board[q] # Nothing /\ board[q] \in BoardType
  BY <1>1, <1>3 DEF Unsettle, TypeOK
<1>5. /\ board'[q].completed = board[q].completed
      /\ board'[q].was = board[q].was
      /\ board'[q].answers = board[q].answers
      /\ board'[q].queries = board[q].queries
  BY <1>1, <1>4 DEF Unsettle, BoardType
<1>6. PICK k : k = At(q)
  OBVIOUS
<1>7. /\ Cardinality(Matching(At(q))) <= Cardinality(Matching(At(q)))'
      /\ Cardinality(Matching(At(q))) \in Nat
      /\ Cardinality(Matching(At(q)))' \in Nat
  <2>1. IsFiniteSet(Cells) /\ Matching(k)' \subseteq Cells
    BY FS_Product, PrayerLogAssumption DEF Cells, Matching, Rows
  <2>2. IsFiniteSet(Matching(k)')
    BY <2>1, FS_Subset
  <2>3. /\ Cardinality(Matching(k)) <= Cardinality(Matching(k)')
        /\ Cardinality(Matching(k)) \in Nat
        /\ Cardinality(Matching(k)') \in Nat
    BY <2>2, RowsGrow, CellsFinite, FS_CardinalityType
  <2>4. At(q)' = k
    BY <1>5, <1>6 DEF At
  <2>5. Matching(At(q))' = Matching(k)'
    BY <2>4 DEF Matching
  <2> QED
    BY <1>6, <2>3, <2>5
<1>8. board[q].was \in Nat /\ board[q].completed \in Nat
  BY <1>4 DEF BoardType
<1> QED
  BY <1>2, <1>4, <1>5, <1>7, <1>8 DEF FitInv

\* A page's own statements: the first count is of the rows there are, the
\* second of those there are by then.
LEMMA FitBoard ==
  ASSUME TypeOK, FitInv, NEW r \in Requests, BoardRequest(r) PROVE FitInv'
<1>1. /\ UNCHANGED log
      /\ \A q \in Requests \ {r} : board'[q] = board[q] /\ pc'[q] = pc[q]
      /\ board'[r] \in BoardType \cup {Nothing}
  BY BoardPage DEF TypeOK
<1>2. \A k : Matching(k)' = Matching(k)
  BY <1>1 DEF Matching, Rows
<1>3. ASSUME NEW q \in Requests \ {r}, board'[q] # Nothing
      PROVE  /\ pc'[q] = "total" =>
                  /\ board'[q].completed <= board'[q].was
                  /\ board'[q].was <= Cardinality(Matching(At(q))')
             /\ \A i \in 1 .. Len(board'[q].answers) :
                  /\ board'[q].answers[i].completed <= board'[q].answers[i].was
                  /\ board'[q].answers[i].was <= board'[q].answers[i].total
  <2>1. At(q)' = At(q)
    BY <1>1, <1>3 DEF At
  <2>2. Matching(At(q))' = Matching(At(q))
    BY <1>1, <2>1 DEF Matching, Rows
  <2> QED
    BY <1>1, <1>3, <2>2 DEF FitInv
<1>4. ASSUME board'[r] # Nothing
      PROVE  /\ pc'[r] = "total" =>
                  /\ board'[r].completed <= board'[r].was
                  /\ board'[r].was <= Cardinality(Matching(At(r))')
             /\ \A i \in 1 .. Len(board'[r].answers) :
                  /\ board'[r].answers[i].completed <= board'[r].answers[i].was
                  /\ board'[r].answers[i].was <= board'[r].answers[i].total
  <2>1. CASE \E view \in Views, filter \in Filters, today \in Todays :
               OpenBoard(r, view, filter, today)
    <3>1. pc'[r] # "total" /\ board'[r].answers = <<>>
      BY <2>1 DEF OpenBoard, TypeOK
    <3>2. Len(board'[r].answers) = 0
      BY <3>1
    <3> QED
      BY <3>1, <3>2
  <2>2. CASE CountCompleted(r)
    <3>1. board[r] \in BoardType /\ board[r] # Nothing
      BY <2>2 DEF CountCompleted, TypeOK, Counting
    <3>2. /\ board'[r].completed = Cardinality(Completed(At(r)))
          /\ board'[r].was = Cardinality(Matching(At(r)))
          /\ board'[r].answers = board[r].answers
          /\ board'[r].queries = board[r].queries
      BY <2>2, <3>1 DEF CountCompleted, TypeOK, BoardType
    <3>3. At(r)' = At(r)
      BY <3>2 DEF At
    <3>4. Matching(At(r))' = Matching(At(r))
      BY <1>1, <3>3 DEF Matching, Rows
    <3>5. /\ Cardinality(Completed(At(r))) <= Cardinality(Matching(At(r)))
          /\ Cardinality(Matching(At(r))) \in Nat
      BY CellsFinite
    <3> QED
      BY <3>1, <3>2, <3>4, <3>5 DEF FitInv
  <2>3. CASE CountTotal(r)
    <3> DEFINE answer == [completed |-> board[r].completed, was |-> board[r].was,
                          total |-> Cardinality(Matching(At(r)))]
    <3>1. /\ board[r] \in BoardType /\ board[r] # Nothing /\ pc[r] = "total"
          /\ pc'[r] # "total"
      BY <2>3 DEF CountTotal, TypeOK, Counting
    <3>2. board'[r].answers = Append(board[r].answers, answer)
      BY <2>3, <3>1 DEF CountTotal, TypeOK, BoardType
    <3>3. answer.completed <= answer.was /\ answer.was <= answer.total
      BY <3>1 DEF FitInv
    <3> HIDE DEF answer
    <3>4. board[r].answers \in Seq(AnswerType)
      BY <3>1 DEF BoardType
    <3>5. ASSUME NEW i \in 1 .. Len(board'[r].answers)
          PROVE  board'[r].answers[i] = answer
                 \/ (i \in 1 .. Len(board[r].answers)
                     /\ board'[r].answers[i] = board[r].answers[i])
      BY <3>2, <3>4
    <3> QED
      BY <3>1, <3>3, <3>5 DEF FitInv
  <2>4. CASE CloseBoard(r)
    BY <1>4, <2>4 DEF CloseBoard, TypeOK
  <2> QED
    BY <2>1, <2>2, <2>3, <2>4 DEF BoardRequest
<1> QED
  BY <1>3, <1>4 DEF FitInv

LEMMA FitStep == TypeOK /\ FitInv /\ [Next]_vars => FitInv'
<1> SUFFICES ASSUME TypeOK, FitInv, [Next]_vars PROVE FitInv'
  OBVIOUS
<1>1. ASSUME UNCHANGED <<log, board>>, \A q \in Requests :
               board[q] # Nothing => pc'[q] = pc[q]
      PROVE  FitInv'
  <2>1. \A q \in Requests : Matching(At(q))' = Matching(At(q))
    BY <1>1 DEF Matching, Rows, At
  <2> QED
    BY <1>1, <2>1 DEF FitInv
<1>2. CASE UNCHANGED vars
  BY <1>1, <1>2 DEF vars
<1>3. ASSUME NEW r \in Requests, TimesRequest(r) PROVE FitInv'
  <2>1. UNCHANGED <<log, board>> /\ board[r] = Nothing
        /\ \A q \in Requests \ {r} : pc'[q] = pc[q]
    BY <1>3 DEF TimesRequest, CreatePrayer, InsertPrayer, OpenPrayer,
                UpdatePrayer, DeletePrayer, TypeOK, Counting
  <2> QED
    BY <1>1, <2>1
<1>4. ASSUME NEW r \in Requests, DayRequest(r) PROVE FitInv'
  <2>1. UNCHANGED <<log, board>> /\ board[r] = Nothing
        /\ \A q \in Requests \ {r} : pc'[q] = pc[q]
    BY <1>4 DEF DayRequest, ReadMarks, ListPrayers, ReadStatus, ShowDay,
                TypeOK, Counting
  <2> QED
    BY <1>1, <2>1
<1>5. ASSUME NEW r \in Requests, Abort(r) PROVE FitInv'
  <2>1. /\ UNCHANGED log /\ board'[r] = Nothing
        /\ \A q \in Requests \ {r} : board'[q] = board[q] /\ pc'[q] = pc[q]
    BY <1>5 DEF Abort, TypeOK
  <2>2. \A q \in Requests \ {r} : Matching(At(q))' = Matching(At(q))
    BY <2>1 DEF Matching, Rows, At
  <2> QED
    BY <2>1, <2>2 DEF FitInv
<1> QED
  BY <1>2, <1>3, <1>4, <1>5, FitToggle, FitBoard DEF Next

\* Whatever is marked while a page is made, no statistic has more completed
\* prayers than prayers, and no rate is shown higher than it was.
THEOREM StatisticsFit == Spec => []CountsFit
<1>1. Init => FitInv
  BY DEF Init, FitInv
<1>2. TypeOK /\ FitInv => CountsFit
  <2> SUFFICES ASSUME TypeOK, FitInv, NEW r \in Requests, board[r] # Nothing,
                      NEW i \in 1 .. Len(board[r].answers)
               PROVE  LET a == board[r].answers[i] IN
                      /\ Incomplete(a) >= 0
                      /\ Alert(a.completed, a.total) = "none" =>
                           Alert(a.completed, a.was) = "none"
    BY DEF CountsFit, FitInv
  <2> DEFINE a == board[r].answers[i]
  <2>1. a \in AnswerType
    BY DEF TypeOK, BoardType
  <2>2. a.completed <= a.was /\ a.was <= a.total
    BY DEF FitInv
  <2>3. a.completed \in Nat /\ a.was \in Nat /\ a.total \in Nat
    BY <2>1 DEF AnswerType
  <2> HIDE DEF a
  <2>4. Incomplete(a) >= 0
    BY <2>2, <2>3 DEF Incomplete
  <2>5. Alert(a.completed, a.total) = "none" =>
          Alert(a.completed, a.was) = "none"
    BY <2>2, <2>3 DEF Alert
  <2> QED
    BY <2>4, <2>5 DEF a
<1> QED
  BY <1>1, <1>2, TypeInit, TypeStep, FitStep, PTL DEF Spec

-----------------------------------------------------------------------------
(* Numbers *)

\* Numbers have a least one among them, by the order of the library.
LEMMA Least ==
  ASSUME NEW T \in SUBSET Nat, T # {}
  PROVE  \E n \in T : \A k \in T : n <= k
<1> DEFINE R == OpToRel(<, Nat)
<1>1. IsWellFoundedOn(R, Nat)
  BY NatLessThanWellFounded, Zenon
<1>2. \A m, n \in Nat : m < n => <<m, n>> \in R
  BY DEF OpToRel
<1> HIDE DEF R
<1>3. PICK n \in T : \A k \in T : <<k, n>> \notin R
  BY <1>1, WFMin
<1>4. \A k \in T : k \in Nat /\ n \in Nat /\ ~(k < n)
  BY <1>2, <1>3
<1> QED
  BY <1>4

\* Induction, for a set of numbers.
LEMMA AllNumbers ==
  ASSUME NEW T, 0 \in T, \A n \in Nat : n \in T => n + 1 \in T
  PROVE  Nat \subseteq T
<1> SUFFICES ASSUME Nat \ T # {} PROVE FALSE
  OBVIOUS
<1>1. PICK n \in Nat \ T : \A k \in Nat \ T : n <= k
  BY Least
<1>2. n # 0 /\ n - 1 \in Nat /\ n - 1 \in T
  BY <1>1
<1> QED
  BY <1>1, <1>2

\* A number is its quotient times the divisor and its residue, in one way.
LEMMA Division ==
  ASSUME NEW W \in Nat \ {0}, NEW x \in Int
  PROVE  /\ x = (x \div W) * W + (x % W)
         /\ x \div W \in Int /\ x % W \in 0 .. W - 1
<1>1. x % W \in 0 .. W - 1
  OBVIOUS
<1>2. x \div W \in Int
  OBVIOUS
<1>3. x = (x \div W) * W + (x % W)
  OBVIOUS
<1> QED
  BY <1>1, <1>2, <1>3

LEMMA Multiples ==
  ASSUME NEW W \in Nat \ {0}, NEW p \in Int, NEW q \in Int, p < q
  PROVE  p * W + W <= q * W
<1>1. (q - p - 1) \in Nat
  OBVIOUS
<1>2. \A k \in Nat : k * W >= 0
  OBVIOUS
<1>3. (q - p - 1) * W >= 0
  BY <1>1, <1>2
<1> QED
  BY <1>3

LEMMA DivisionUnique ==
  ASSUME NEW W \in Nat \ {0}, NEW x \in Int, NEW q \in Int, NEW a \in 0 .. W - 1,
         x = q * W + a
  PROVE  x \div W = q /\ x % W = a
<1> DEFINE p == x \div W
           b == x % W
<1>1. x = p * W + b /\ p \in Int /\ b \in 0 .. W - 1
  BY Division
<1> HIDE DEF p, b
<1>2. ~(p < q)
  <2>1. p < q => p * W + W <= q * W
    BY <1>1, Multiples
  <2>2. p * W \in Int /\ q * W \in Int
    BY <1>1
  <2> QED
    BY <1>1, <2>1, <2>2
<1>3. ~(q < p)
  <2>1. q < p => q * W + W <= p * W
    BY <1>1, Multiples
  <2>2. p * W \in Int /\ q * W \in Int
    BY <1>1
  <2> QED
    BY <1>1, <2>1, <2>2
<1>4. p = q
  BY <1>1, <1>2, <1>3
<1>5. b = a
  BY <1>1, <1>4
<1> QED
  BY <1>4, <1>5 DEF p, b

-----------------------------------------------------------------------------
(* The calendar *)

\* A month begins when the one before it has passed: the recursion has a solution.
LEMMA MonthLengths ==
  /\ Months \in Nat \ {0}
  /\ \A m \in 1 .. Months : MonthDays[m] \in Nat \ {0}
  /\ MonthStart[1] = 0
  /\ MonthStart = [m \in 1 .. Months + 1 |-> MonthStart[m]]
  /\ \A m \in 1 .. Months : MonthStart[m + 1] = MonthStart[m] + MonthDays[m]
<1> DEFINE Step(g, m) == IF m = 1 THEN 0 ELSE g[m - 1] + MonthDays[m - 1]
           Starts(g, n) == g \in [1 .. n + 1 -> Nat] /\ g = [m \in 1 .. n + 1 |-> Step(g, m)]
           Begun == {n \in Nat : n <= Months => \E g : Starts(g, n)}
<1>1. /\ Months \in Nat \ {0} /\ DOMAIN MonthDays = 1 .. Months
      /\ \A m \in 1 .. Months : MonthDays[m] \in Nat \ {0}
  BY CalendarAssumption DEF Months
<1>2. 0 \in Begun
  <2> DEFINE g == [m \in 1 .. 1 |-> 0]
  <2>1. Starts(g, 0)
    OBVIOUS
  <2> QED
    BY <2>1
<1>3. ASSUME NEW n \in Nat, n \in Begun PROVE n + 1 \in Begun
  <2> SUFFICES ASSUME n + 1 <= Months PROVE \E h : Starts(h, n + 1)
    <3> HIDE DEF Starts
    <3> QED
      OBVIOUS
  <2>1. n <= Months /\ n + 1 \in 1 .. Months /\ (n + 1) + 1 = n + 2
    BY <1>1
  <2>2. PICK g : Starts(g, n)
    <3> HIDE DEF Starts
    <3> QED
      BY <1>3, <2>1
  <2> DEFINE h == [m \in 1 .. n + 2 |->
                    IF m = n + 2 THEN g[n + 1] + MonthDays[n + 1] ELSE g[m]]
  <2>3. h \in [1 .. n + 2 -> Nat]
    <3>1. g \in [1 .. n + 1 -> Nat] /\ MonthDays[n + 1] \in Nat
      BY <1>1, <2>1, <2>2
    <3>2. ASSUME NEW m \in 1 .. n + 2 PROVE h[m] \in Nat
      <4>1. m = n + 2 \/ m \in 1 .. n + 1
        BY <2>1
      <4>2. n + 1 \in 1 .. n + 1
        OBVIOUS
      <4> QED
        BY <3>1, <4>1, <4>2
    <3> QED
      BY <3>2
  <2>4. \A m \in 1 .. n + 1 : g[m] = Step(g, m)
    BY <2>2
  <2>5. ASSUME NEW m \in 1 .. n + 2 PROVE h[m] = Step(h, m)
    <3>1. CASE m = n + 2
      BY <3>1
    <3>2. CASE m # n + 2
      <4>1. m \in 1 .. n + 1 /\ (m # 1 => m - 1 \in 1 .. n + 1)
        BY <3>2
      <4> QED
        BY <2>4, <4>1
    <3> QED
      BY <3>1, <3>2
  <2>6. h = [m \in 1 .. n + 2 |-> Step(h, m)]
    BY <2>5
  <2>7. Starts(h, n + 1)
    BY <2>1, <2>3, <2>6
  <2> QED
    BY <2>7
<1>4. Months \in Begun
  <2> HIDE DEF Begun
  <2>1. Nat \subseteq Begun
    BY <1>2, <1>3, AllNumbers
  <2> QED
    BY <1>1, <2>1
<1>5. PICK g : Starts(g, Months)
  <2> HIDE DEF Starts
  <2> QED
    BY <1>1, <1>4
<1>6. MonthStart = [m \in 1 .. Months + 1 |-> Step(MonthStart, m)]
  BY <1>5 DEF MonthStart
<1>7. /\ DOMAIN MonthStart = 1 .. Months + 1
      /\ \A m \in 1 .. Months + 1 : MonthStart[m] = Step(MonthStart, m)
  BY <1>6
<1>8. MonthStart[1] = 0
  BY <1>1, <1>7
<1>9. \A m \in 1 .. Months : MonthStart[m + 1] = MonthStart[m] + MonthDays[m]
  <2> SUFFICES ASSUME NEW m \in 1 .. Months
               PROVE  MonthStart[m + 1] = MonthStart[m] + MonthDays[m]
    OBVIOUS
  <2>1. m + 1 \in 1 .. Months + 1 /\ m + 1 # 1 /\ (m + 1) - 1 = m
    BY <1>1
  <2> QED
    BY <1>7, <2>1
<1>10. MonthStart = [m \in 1 .. Months + 1 |-> MonthStart[m]]
  <2> HIDE DEF Step
  <2> QED
    BY <1>6
<1> QED
  BY <1>1, <1>8, <1>9, <1>10

\* The months follow one another.
LEMMA MonthStarts ==
  /\ Months \in Nat \ {0}
  /\ MonthStart \in [1 .. Months + 1 -> Nat]
  /\ MonthStart[1] = 0
  /\ \A m \in 1 .. Months : MonthStart[m] < MonthStart[m + 1]
<1>1. Months \in Nat \ {0} /\ \A m \in 1 .. Months : MonthDays[m] \in Nat \ {0}
  BY MonthLengths
<1>2. MonthStart = [m \in 1 .. Months + 1 |-> MonthStart[m]]
  BY MonthLengths
<1>3. MonthStart[1] = 0
  BY MonthLengths
<1>4. \A m \in 1 .. Months : MonthStart[m + 1] = MonthStart[m] + MonthDays[m]
  BY MonthLengths
<1> DEFINE Typed == {n \in Nat : n \in 1 .. Months + 1 => MonthStart[n] \in Nat}
<1>5. ASSUME NEW n \in Nat, n \in Typed PROVE n + 1 \in Typed
  <2> SUFFICES ASSUME n + 1 \in 1 .. Months + 1 PROVE MonthStart[n + 1] \in Nat
    OBVIOUS
  <2>1. CASE n = 0
    BY <1>3, <2>1
  <2>2. CASE n # 0
    <3>1. n \in 1 .. Months
      BY <1>1, <2>2
    <3>2. MonthStart[n] \in Nat /\ MonthDays[n] \in Nat
      BY <1>1, <1>5, <3>1
    <3> QED
      BY <1>4, <3>1, <3>2
  <2> QED
    BY <2>1, <2>2
<1>6. \A m \in 1 .. Months + 1 : MonthStart[m] \in Nat
  <2>1. 0 \in Typed
    OBVIOUS
  <2>2. Nat \subseteq Typed
    <3> HIDE DEF Typed
    <3> QED
      BY <1>5, <2>1, AllNumbers
  <2> QED
    BY <1>1, <2>2
<1>7. MonthStart \in [1 .. Months + 1 -> Nat]
  BY <1>2, <1>6
<1>8. \A m \in 1 .. Months : MonthStart[m] < MonthStart[m + 1]
  BY <1>1, <1>4, <1>6
<1> QED
  BY <1>1, <1>3, <1>7, <1>8

\* A later month starts later, and a year has days.
LEMMA MonthsApart ==
  /\ \A m, n \in 1 .. Months + 1 : m < n => MonthStart[m] < MonthStart[n]
  /\ YearDays \in Nat \ {0}
<1> DEFINE After == {n \in Nat : n \in 1 .. Months + 1 =>
                      \A m \in 1 .. Months + 1 : m < n => MonthStart[m] < MonthStart[n]}
<1>1. 0 \in After
  BY MonthStarts
<1>2. ASSUME NEW n \in Nat, n \in After PROVE n + 1 \in After
  <2> SUFFICES ASSUME n + 1 \in 1 .. Months + 1, NEW m \in 1 .. Months + 1, m < n + 1
               PROVE  MonthStart[m] < MonthStart[n + 1]
    OBVIOUS
  <2>1. n \in 1 .. Months /\ m <= n
    BY MonthStarts
  <2>2. MonthStart[n] < MonthStart[n + 1]
    BY <2>1, MonthStarts
  <2>3. m < n => MonthStart[m] < MonthStart[n]
    BY <1>2, <2>1, MonthStarts
  <2>4. /\ MonthStart[m] \in Nat /\ MonthStart[n] \in Nat /\ MonthStart[n + 1] \in Nat
        /\ m < n \/ m = n
    BY <2>1, MonthStarts
  <2> QED
    BY <2>2, <2>3, <2>4
<1>3. Nat \subseteq After
  <2> HIDE DEF After
  <2> QED
    BY <1>1, <1>2, AllNumbers
<1>4. \A m, n \in 1 .. Months + 1 : m < n => MonthStart[m] < MonthStart[n]
  BY <1>3, MonthStarts
<1>5. YearDays \in Nat \ {0}
  <2>1. 1 \in 1 .. Months + 1 /\ Months + 1 \in 1 .. Months + 1 /\ 1 < Months + 1
    BY MonthStarts
  <2>2. MonthStart[1] < MonthStart[Months + 1] /\ MonthStart[Months + 1] \in Nat
    BY <1>4, <2>1, MonthStarts
  <2> QED
    BY <2>2, MonthStarts DEF YearDays
<1> QED
  BY <1>4, <1>5

\* A day is in one month of its year.
LEMMA MonthOfDay ==
  ASSUME NEW d \in Int
  PROVE  /\ Year(d) \in Int /\ d = Year(d) * YearDays + (d % YearDays)
         /\ d % YearDays \in 0 .. YearDays - 1
         /\ Month(d) \in 1 .. Months
         /\ \A m \in 1 .. Months :
              MonthStart[m] <= d % YearDays /\ d % YearDays < MonthStart[m + 1]
                <=> m = Month(d)
<1> DEFINE x == d % YearDays
           In(m) == MonthStart[m] <= x /\ x < MonthStart[m + 1]
<1>1. /\ Year(d) \in Int /\ d = Year(d) * YearDays + (d % YearDays)
      /\ d % YearDays \in 0 .. YearDays - 1
  <2> DEFINE Split(W) == /\ d \div W \in Int /\ d = (d \div W) * W + (d % W)
                         /\ d % W \in 0 .. W - 1
  <2>1. \A W \in Nat \ {0} : Split(W)
    BY Division
  <2>2. Split(YearDays)
    <3> HIDE DEF Split
    <3> QED
      BY <2>1, MonthsApart
  <2> QED
    BY <2>2 DEF Year
<1>2. Month(d) = CHOOSE m \in 1 .. Months : In(m)
  BY DEF Month
<1>3. x \in 0 .. YearDays - 1
  BY <1>1
<1> HIDE DEF x
<1>4. /\ Months \in Nat \ {0} /\ MonthStart[1] = 0 /\ MonthStart[Months + 1] = YearDays
      /\ \A m \in 1 .. Months + 1 : MonthStart[m] \in Nat
  BY MonthStarts DEF YearDays
<1>5. \E m \in 1 .. Months : In(m)
  <2> DEFINE Later == {n \in 1 .. Months + 1 : x < MonthStart[n]}
  <2>1. Months + 1 \in Later /\ Later \subseteq Nat /\ 1 \notin Later
    BY <1>3, <1>4
  <2>2. PICK n \in Later : \A k \in Later : n <= k
    <3> HIDE DEF Later
    <3> QED
      BY <2>1, Least
  <2>3. n - 1 \in 1 .. Months /\ n - 1 \notin Later /\ (n - 1) + 1 = n
    <3>1. n \in 1 .. Months + 1 /\ n # 1
      BY <2>1
    <3>2. n - 1 \in 1 .. Months /\ (n - 1) + 1 = n
      BY <1>4, <3>1
    <3>3. n - 1 \notin Later
      BY <2>2, <3>2
    <3> QED
      BY <3>2, <3>3
  <2>4. In(n - 1)
    BY <1>3, <1>4, <2>3
  <2> QED
    BY <2>3, <2>4
<1>6. \A m, n \in 1 .. Months : In(m) /\ In(n) => m = n
  <2> SUFFICES ASSUME NEW m \in 1 .. Months, NEW n \in 1 .. Months, In(m), In(n), m < n
               PROVE  FALSE
    BY <1>4
  <2>1. MonthStart[m + 1] <= MonthStart[n]
    <3>1. m + 1 \in 1 .. Months + 1 /\ n \in 1 .. Months + 1 /\ (m + 1 < n \/ m + 1 = n)
      BY <1>4
    <3> QED
      BY <1>4, <3>1, MonthsApart
  <2>2. x \in Int /\ MonthStart[m + 1] \in Int /\ MonthStart[n] \in Int
    BY <1>3, <1>4
  <2> QED
    BY <2>1, <2>2
<1> HIDE DEF In
<1>7. Month(d) \in 1 .. Months /\ In(Month(d))
  BY <1>2, <1>5
<1>8. \A m \in 1 .. Months : In(m) <=> m = Month(d)
  BY <1>6, <1>7
<1>9. \A m \in 1 .. Months : MonthStart[m] <= x /\ x < MonthStart[m + 1] <=> m = Month(d)
  BY <1>8 DEF In
<1> USE DEF x
<1>10. \A m \in 1 .. Months :
         MonthStart[m] <= d % YearDays /\ d % YearDays < MonthStart[m + 1] <=> m = Month(d)
  BY <1>9
<1> QED
  BY <1>1, <1>7, <1>10

LEMMA WeekIsRange ==
  ASSUME NEW today \in Int
  PROVE  /\ today - Weekday(today) \in Int /\ WeekDays \in Nat \ {0}
         /\ Weekday(today) \in 0 .. WeekDays - 1
         /\ \A d \in Int : d \div WeekDays = today \div WeekDays
                             <=> d \in WeekOf(today)
<1>1. PICK W \in Nat \ {0} : W = WeekDays
  BY CalendarAssumption
<1> DEFINE q == today \div W
           monday == today - (today % W)
<1>2. today = q * W + (today % W) /\ q \in Int /\ today % W \in 0 .. W - 1
  BY Division
<1>3. monday = q * W /\ monday \in Int /\ q * W \in Int
  BY <1>2
<1>4. WeekOf(today) = monday .. monday + W - 1 /\ monday = today - Weekday(today)
      /\ Weekday(today) = today % W
  BY <1>1 DEF WeekOf, Weekday
<1> HIDE DEF monday, q
<1>5. ASSUME NEW d \in Int, d \in monday .. monday + W - 1 PROVE d \div W = q
  <2>1. d - monday \in 0 .. W - 1 /\ d = q * W + (d - monday)
    BY <1>3, <1>5
  <2> QED
    BY <1>2, <2>1, DivisionUnique
<1>6. ASSUME NEW d \in Int, d \div W = q PROVE d \in monday .. monday + W - 1
  <2>1. d = q * W + (d % W) /\ d % W \in 0 .. W - 1
    BY <1>6, Division
  <2> QED
    BY <1>3, <2>1
<1>7. \A d \in Int : d \div W = today \div W <=> d \in WeekOf(today)
  BY <1>4, <1>5, <1>6 DEF q
<1> QED
  BY <1>1, <1>2, <1>3, <1>4, <1>7

LEMMA MonthIsRange ==
  ASSUME NEW today \in Int
  PROVE  \E a, b \in Int :
           /\ a <= today /\ today <= b /\ MonthOf(today) = a .. b
           /\ \A d \in Int : Year(d) = Year(today) /\ Month(d) = Month(today)
                               <=> d \in a .. b
<1> DEFINE y == Year(today)
           m == Month(today)
           first == y * YearDays
           a == first + MonthStart[m]
           next == first + MonthStart[m + 1]
<1>1. /\ y \in Int /\ m \in 1 .. Months /\ first \in Int
      /\ today = first + (today % YearDays)
      /\ MonthStart[m] <= today % YearDays /\ today % YearDays < MonthStart[m + 1]
      /\ YearDays \in Nat \ {0} /\ today % YearDays \in 0 .. YearDays - 1
  <2>1. /\ y \in Int /\ m \in 1 .. Months /\ today = y * YearDays + (today % YearDays)
        /\ today % YearDays \in 0 .. YearDays - 1
    BY MonthOfDay
  <2>2. \A n \in 1 .. Months :
          MonthStart[n] <= today % YearDays /\ today % YearDays < MonthStart[n + 1]
            <=> n = m
    BY MonthOfDay
  <2>3. MonthStart[m] <= today % YearDays /\ today % YearDays < MonthStart[m + 1]
    <3> HIDE DEF m
    <3> QED
      BY <2>1, <2>2
  <2>4. YearDays \in Nat \ {0}
    BY MonthsApart
  <2>5. first \in Int
    <3> HIDE DEF y
    <3> QED
      BY <2>1, <2>4
  <2> QED
    BY <2>1, <2>3, <2>4, <2>5
<1>2. /\ MonthStart[m] \in Nat /\ MonthStart[m + 1] \in Nat
      /\ MonthStart[m + 1] <= YearDays /\ MonthStart[1] = 0
  <2> HIDE DEF m
  <2>1. /\ m \in 1 .. Months + 1 /\ m + 1 \in 1 .. Months + 1
        /\ Months + 1 \in 1 .. Months + 1
        /\ m + 1 < Months + 1 \/ m + 1 = Months + 1
    BY <1>1, MonthStarts
  <2>2. MonthStart[m + 1] \in Nat /\ MonthStart[Months + 1] \in Nat
        /\ MonthStart[m] \in Nat /\ MonthStart[1] = 0
    BY <2>1, MonthStarts
  <2> QED
    BY <2>1, <2>2, MonthsApart DEF YearDays
<1>3. a \in Int /\ next \in Int /\ a <= today /\ today <= next - 1
  <2> HIDE DEF first, m
  <2> QED
    BY <1>1, <1>2
<1>4. MonthOf(today) = a .. next - 1
  <2>1. FirstOf(y, m) = a
    BY DEF FirstOf
  <2>2. CASE m = Months
    <3>1. NextMonth(y, m) = <<y + 1, 1>>
      BY <2>2 DEF NextMonth
    <3>2. \A v \in Int, Y \in Nat : (v + 1) * Y + 0 = v * Y + Y
      OBVIOUS
    <3>3. FirstOf(y + 1, 1) = next
      <4> HIDE DEF y, m
      <4> QED
        BY <1>1, <1>2, <2>2, <3>2 DEF FirstOf, YearDays
    <3> QED
      BY <2>1, <3>1, <3>3 DEF MonthOf
  <2>3. CASE m # Months
    <3>1. NextMonth(y, m) = <<y, m + 1>>
      BY <2>3 DEF NextMonth
    <3> QED
      BY <2>1, <3>1 DEF MonthOf, FirstOf
  <2> QED
    BY <2>2, <2>3
<1> HIDE DEF y, m
<1>5. ASSUME NEW d \in Int, d \in a .. next - 1 PROVE Year(d) = y /\ Month(d) = m
  <2>1. /\ d - first \in 0 .. YearDays - 1 /\ d = first + (d - first)
        /\ MonthStart[m] <= d - first /\ d - first < MonthStart[m + 1]
    <3> HIDE DEF first
    <3> QED
      BY <1>1, <1>2, <1>5
  <2>2. d \div YearDays = y /\ d % YearDays = d - first
    BY <1>1, <2>1, DivisionUnique
  <2>3. \A n \in 1 .. Months :
          MonthStart[n] <= d % YearDays /\ d % YearDays < MonthStart[n + 1]
            <=> n = Month(d)
    BY MonthOfDay
  <2>4. m = Month(d)
    <3> HIDE DEF first
    <3> QED
      BY <1>1, <2>1, <2>2, <2>3
  <2> QED
    BY <2>2, <2>4 DEF Year
<1>6. ASSUME NEW d \in Int, Year(d) = y, Month(d) = m PROVE d \in a .. next - 1
  <2>1. /\ d = first + (d % YearDays) /\ d % YearDays \in Int
        /\ MonthStart[m] <= d % YearDays /\ d % YearDays < MonthStart[m + 1]
    BY <1>1, <1>6, MonthOfDay
  <2> QED
    <3> HIDE DEF first
    <3> QED
      BY <1>1, <1>2, <2>1
<1>7. \A d \in Int : Year(d) = Year(today) /\ Month(d) = Month(today)
                       <=> d \in a .. next - 1
  <2> HIDE DEF a, next
  <2> QED
    BY <1>5, <1>6 DEF y, m
<1> HIDE DEF a, next
<1>8. next - 1 \in Int
  BY <1>3
<1> QED
  BY <1>3, <1>4, <1>7, <1>8

\* The range of a page is the week, or the month, of today and nothing else,
\* also when the month is the last one of a year.
THEOREM PeriodIsRange ==
  ASSUME NEW filter, NEW today \in Int
  PROVE  \E a, b \in Int :
           /\ a <= today /\ today <= b /\ DateRange(filter, today) = a .. b
           /\ \A d \in Int : SamePeriod(filter, today, d) <=> d \in a .. b
<1>1. CASE filter = "month"
  BY <1>1, MonthIsRange DEF DateRange, SamePeriod
<1>2. CASE filter # "month"
  <2> DEFINE a == today - Weekday(today)
  <2>1. /\ a \in Int /\ a + WeekDays - 1 \in Int /\ WeekOf(today) = a .. a + WeekDays - 1
        /\ a <= today /\ today <= a + WeekDays - 1
    BY WeekIsRange DEF WeekOf
  <2> HIDE DEF a
  <2>2. \A d \in Int : SamePeriod(filter, today, d) <=> d \in a .. a + WeekDays - 1
    BY <1>2, <2>1, WeekIsRange DEF SamePeriod
  <2> QED
    BY <1>2, <2>1, <2>2 DEF DateRange
<1> QED
  BY <1>1, <1>2

\* The links of a month's page to the next and to the previous one undo each
\* other, also over the end of a year.
THEOREM LinksUndo ==
  ASSUME NEW year \in Int, NEW month \in 1 .. Months
  PROVE  LET next == NextMonth(year, month)
             previous == PreviousMonth(year, month)
         IN /\ PreviousMonth(next[1], next[2]) = <<year, month>>
            /\ NextMonth(previous[1], previous[2]) = <<year, month>>
<1>1. Months \in Nat \ {0}
  BY MonthStarts
<1>2. PreviousMonth(NextMonth(year, month)[1], NextMonth(year, month)[2]) = <<year, month>>
  <2>1. CASE month = Months
    BY <1>1, <2>1 DEF PreviousMonth, NextMonth
  <2>2. CASE month # Months
    BY <1>1, <2>2 DEF PreviousMonth, NextMonth
  <2> QED
    BY <2>1, <2>2
<1>3. NextMonth(PreviousMonth(year, month)[1], PreviousMonth(year, month)[2])
        = <<year, month>>
  <2>1. CASE month = 1
    BY <1>1, <2>1 DEF PreviousMonth, NextMonth
  <2>2. CASE month # 1
    BY <1>1, <2>2 DEF PreviousMonth, NextMonth
  <2> QED
    BY <2>1, <2>2
<1> QED
  BY <1>2, <1>3

\* When no month is longer than five weeks and a day, the six weeks of its page
\* begin with a Monday and have all of its days.
THEOREM GridHoldsMonth ==
  ASSUME \A m \in 1 .. Months : MonthDays[m] <= 5 * WeekDays + 1,
         NEW year \in Int, NEW month \in 1 .. Months
  PROVE  LET grid == Grid(year, month) IN
         /\ Weekday(grid[1]) = 0
         /\ \A d \in Int : Year(d) = year /\ Month(d) = month =>
              \E i \in 1 .. 6 * WeekDays : grid[i] = d
<1> DEFINE first == FirstOf(year, month)
           start == first - Weekday(first)
           grid == Grid(year, month)
<1>1. /\ WeekDays \in Nat \ {0} /\ YearDays \in Nat \ {0}
      /\ MonthStart[month] \in Nat /\ MonthDays[month] \in Nat
      /\ MonthDays[month] <= 5 * WeekDays + 1
      /\ MonthStart[month + 1] = MonthStart[month] + MonthDays[month]
  <2>1. WeekDays \in Nat \ {0} /\ YearDays \in Nat \ {0}
    BY CalendarAssumption, MonthsApart
  <2>2. /\ MonthDays[month] \in Nat /\ MonthDays[month] <= 5 * WeekDays + 1
        /\ MonthStart[month + 1] = MonthStart[month] + MonthDays[month]
    BY MonthLengths
  <2>3. MonthStart[month] \in Nat
    BY MonthStarts
  <2> QED
    BY <2>1, <2>2, <2>3
<1>2. first \in Int /\ year * YearDays \in Int
      /\ first = year * YearDays + MonthStart[month]
  BY <1>1 DEF FirstOf
<1> HIDE DEF first
<1>3. Weekday(first) \in 0 .. WeekDays - 1 /\ start \in Int
  BY <1>2, WeekIsRange
<1>4. \A i \in 1 .. 6 * WeekDays : grid[i] = start + i - 1
  BY DEF Grid, first
<1>5. Weekday(start) = 0
  <2>1. PICK W \in Nat \ {0} : W = WeekDays
    BY <1>1
  <2>2. first = (first \div W) * W + (first % W) /\ first \div W \in Int
        /\ first % W \in 0 .. W - 1 /\ Weekday(first) = first % W
    BY <1>2, <2>1, Division DEF Weekday
  <2>3. start = (first \div W) * W + 0 /\ 0 \in 0 .. W - 1
    BY <1>2, <2>2
  <2>4. start % W = 0
    BY <1>3, <2>2, <2>3, DivisionUnique
  <2> QED
    BY <2>1, <2>4 DEF Weekday
<1>6. Weekday(grid[1]) = 0
  <2>1. 1 \in 1 .. 6 * WeekDays /\ start + 1 - 1 = start
    BY <1>1, <1>3
  <2> QED
    BY <1>4, <1>5, <2>1
<1> HIDE DEF start, grid
<1>7. ASSUME NEW d \in Int, Year(d) = year, Month(d) = month
      PROVE  \E i \in 1 .. 6 * WeekDays : grid[i] = d
  <2>1. /\ d = year * YearDays + (d % YearDays) /\ d % YearDays \in Int
        /\ MonthStart[month] <= d % YearDays /\ d % YearDays < MonthStart[month + 1]
    BY <1>1, <1>7, MonthOfDay
  <2>2. first <= d /\ d < first + MonthDays[month]
    BY <1>1, <1>2, <2>1
  <2>3. d - start + 1 \in 1 .. 6 * WeekDays /\ start + (d - start + 1) - 1 = d
    BY <1>1, <1>2, <1>3, <2>2 DEF start
  <2> QED
    BY <1>4, <2>3
<1> QED
  BY <1>6, <1>7 DEF grid

-----------------------------------------------------------------------------
(* Sums *)

\* f has the sizes of finite sets that have nothing in common.
SizesOf(f, P, first, last) ==
  /\ first \in Nat /\ last \in Nat /\ first <= last + 1
  /\ \A i \in first .. last : IsFiniteSet(P[i]) /\ f[i] = Cardinality(P[i])
  /\ \A i, j \in first .. last : i # j => P[i] \cap P[j] = {}

\* The sum of the sizes of disjoint sets is the size of their union.
LEMMA SumOfParts ==
  ASSUME NEW f, NEW P, NEW first, NEW last, SizesOf(f, P, first, last)
  PROVE  Sum(f, first, last) = Cardinality(UNION {P[i] : i \in first .. last})
<1>0. first \in Nat /\ last \in Nat /\ first <= last + 1
  BY DEF SizesOf
<1>sizes. \A i \in first .. last : IsFiniteSet(P[i]) /\ f[i] = Cardinality(P[i])
  BY DEF SizesOf
<1>apart. \A i, j \in first .. last : i # j => P[i] \cap P[j] = {}
  BY DEF SizesOf
<1> DEFINE upTo == CHOOSE h : h = [i \in first - 1 .. last |->
                                     IF i < first THEN 0 ELSE h[i - 1] + f[i]]
           All(n) == UNION {P[i] : i \in first .. n}
           g == [n \in first - 1 .. last |-> Cardinality(All(n))]
           Fine == {k \in Nat : (first - 1) + k <= last => IsFiniteSet(All((first - 1) + k))}
<1> USE <1>0
<1>1. Sum(f, first, last) = upTo[last]
  BY DEF Sum
<1>2. All(first - 1) = {}
  OBVIOUS
<1>3. ASSUME NEW n \in first .. last
      PROVE  /\ All(n) = All(n - 1) \cup P[n] /\ All(n - 1) \cap P[n] = {}
             /\ n - 1 \in first - 1 .. last
  <2>1. first .. n = (first .. n - 1) \cup {n} /\ n \notin first .. n - 1
        /\ first .. n - 1 \subseteq first .. last
    OBVIOUS
  <2>2. All(n) = All(n - 1) \cup P[n]
    BY <2>1
  <2>3. All(n - 1) \cap P[n] = {}
    BY <2>1, <1>apart
  <2> QED
    BY <2>2, <2>3
<1> HIDE DEF All
<1>4. Nat \subseteq Fine
  <2>1. 0 \in Fine
    BY <1>2, FS_EmptySet
  <2>2. ASSUME NEW k \in Nat, k \in Fine PROVE k + 1 \in Fine
    <3> DEFINE n == (first - 1) + (k + 1)
    <3> SUFFICES ASSUME n <= last PROVE IsFiniteSet(All(n))
      OBVIOUS
    <3>1. n \in first .. last /\ n - 1 = (first - 1) + k
      OBVIOUS
    <3>2. IsFiniteSet(All(n - 1))
      BY <2>2, <3>1
    <3> HIDE DEF n
    <3>3. /\ All(n) = All(n - 1) \cup P[n] /\ IsFiniteSet(P[n])
      BY <1>3, <1>sizes, <3>1
    <3>4. IsFiniteSet(All(n - 1) \cup P[n])
      BY <3>2, <3>3, FS_Union
    <3> QED
      BY <3>3, <3>4
  <2> HIDE DEF Fine
  <2> QED
    BY <2>1, <2>2, AllNumbers
<1>5. \A n \in first - 1 .. last : IsFiniteSet(All(n)) /\ g[n] = Cardinality(All(n))
  <2> SUFFICES ASSUME NEW n \in first - 1 .. last PROVE IsFiniteSet(All(n))
    OBVIOUS
  <2>1. n - (first - 1) \in Nat /\ (first - 1) + (n - (first - 1)) = n
    OBVIOUS
  <2> QED
    BY <1>4, <2>1
<1>6. g[first - 1] = 0
  BY <1>2, <1>5, FS_EmptySet
<1>7. ASSUME NEW n \in first .. last PROVE g[n] = g[n - 1] + f[n]
  <2>1. /\ Cardinality(All(n)) = Cardinality(All(n - 1)) + Cardinality(P[n]) - Cardinality({})
        /\ Cardinality({}) = 0 /\ Cardinality(P[n]) \in Nat /\ Cardinality(All(n - 1)) \in Nat
    <3>1. /\ IsFiniteSet(All(n - 1)) /\ IsFiniteSet(P[n])
          /\ All(n) = All(n - 1) \cup P[n] /\ All(n - 1) \cap P[n] = {}
      BY <1>3, <1>5, <1>sizes
    <3>2. Cardinality(All(n - 1) \cup P[n])
            = Cardinality(All(n - 1)) + Cardinality(P[n]) - Cardinality(All(n - 1) \cap P[n])
      BY <3>1, FS_Union
    <3> QED
      BY <3>1, <3>2, FS_EmptySet, FS_CardinalityType
  <2>2. /\ g[n] = Cardinality(All(n)) /\ g[n - 1] = Cardinality(All(n - 1))
        /\ f[n] = Cardinality(P[n])
    BY <1>3, <1>5, <1>sizes
  <2> QED
    BY <2>1, <2>2
<1>8. g = [i \in first - 1 .. last |-> IF i < first THEN 0 ELSE g[i - 1] + f[i]]
  <2>1. \A i \in first - 1 .. last : g[i] = IF i < first THEN 0 ELSE g[i - 1] + f[i]
    <3> SUFFICES ASSUME NEW i \in first - 1 .. last
                 PROVE  g[i] = IF i < first THEN 0 ELSE g[i - 1] + f[i]
      OBVIOUS
    <3> HIDE DEF g
    <3>1. i = first - 1 \/ (i \in first .. last /\ ~(i < first))
      OBVIOUS
    <3> QED
      BY <1>6, <1>7, <3>1
  <2> QED
    BY <2>1
<1> HIDE DEF g
<1>9. upTo = [i \in first - 1 .. last |-> IF i < first THEN 0 ELSE upTo[i - 1] + f[i]]
  BY <1>8
<1> HIDE DEF upTo
<1>10. \A i \in first - 1 .. last :
         upTo[i] = IF i < first THEN 0 ELSE upTo[i - 1] + f[i]
  BY <1>9
<1> DEFINE Same == {k \in Nat : (first - 1) + k <= last =>
                      upTo[(first - 1) + k] = g[(first - 1) + k]}
<1>11. Nat \subseteq Same
  <2>1. 0 \in Same
    BY <1>6, <1>10
  <2>2. ASSUME NEW k \in Nat, k \in Same PROVE k + 1 \in Same
    <3> DEFINE n == (first - 1) + (k + 1)
    <3> SUFFICES ASSUME n <= last PROVE upTo[n] = g[n]
      OBVIOUS
    <3>1. n \in first .. last /\ n - 1 = (first - 1) + k /\ n \in first - 1 .. last
      OBVIOUS
    <3>2. upTo[n - 1] = g[n - 1]
      BY <2>2, <3>1
    <3> HIDE DEF n
    <3> QED
      BY <1>7, <1>10, <3>1, <3>2
  <2> HIDE DEF Same
  <2> QED
    BY <2>1, <2>2, AllNumbers
<1>12. upTo[last] = g[last]
  <2>1. PICK k \in Nat : (first - 1) + k = last
    <3>1. last - (first - 1) \in Nat /\ (first - 1) + (last - (first - 1)) = last
      OBVIOUS
    <3> QED
      BY <3>1
  <2>2. upTo[(first - 1) + k] = g[(first - 1) + k]
    BY <1>11, <2>1
  <2> QED
    BY <2>1, <2>2
<1>13. g[last] = Cardinality(All(last))
  <2>1. last \in first - 1 .. last
    OBVIOUS
  <2> QED
    BY <1>5, <2>1
<1>14. Sum(f, first, last) = Cardinality(All(last))
  BY <1>1, <1>12, <1>13
<1> QED
  BY <1>14 DEF All

-----------------------------------------------------------------------------
(* The queries of a dashboard *)

QueryType == [names : SUBSET Names, dates : SUBSET Int]

\* A query for every date of a range.
LEMMA DailyQueries ==
  ASSUME NEW a \in Int, NEW b \in Int, a <= b
  PROVE  /\ Daily(a .. b) = [i \in 1 .. b - a + 1 |-> Query(Names, {a + i - 1})]
         /\ Daily(a .. b) \in Seq(QueryType) /\ Len(Daily(a .. b)) = b - a + 1
<1> DEFINE first == CHOOSE d \in a .. b : \A e \in a .. b : d <= e
<1>1. first = a
  <2>1. a \in a .. b /\ \A e \in a .. b : a <= e
    OBVIOUS
  <2>2. first \in a .. b /\ \A e \in a .. b : first <= e
    BY <2>1
  <2> HIDE DEF first
  <2> QED
    BY <2>1, <2>2
<1>2. Cardinality(a .. b) = b - a + 1
  BY FS_Interval
<1>3. Daily(a .. b) = [i \in 1 .. Cardinality(a .. b) |-> Query(Names, {first + i - 1})]
  BY DEF Daily
<1> HIDE DEF first
<1>4. Daily(a .. b) = [i \in 1 .. b - a + 1 |-> Query(Names, {a + i - 1})]
  BY <1>1, <1>2, <1>3
<1>5. \A i \in 1 .. b - a + 1 : Query(Names, {a + i - 1}) \in QueryType
  BY DEF Query, QueryType
<1> DEFINE k == b - a + 1
<1>6. k \in Nat
  OBVIOUS
<1> HIDE DEF k
<1>7. /\ [i \in 1 .. k |-> Query(Names, {a + i - 1})] \in Seq(QueryType)
      /\ Len([i \in 1 .. k |-> Query(Names, {a + i - 1})]) = k
  BY <1>5, <1>6 DEF k
<1> QED
  BY <1>4, <1>7 DEF k

\* The whole, then the prayers by name, then the dates.
DashboardOf(qs, a, b) ==
  /\ Len(Prayers) \in Nat /\ Len(qs) = Len(Prayers) + 1 + (b - a + 1)
  /\ qs[1] = Query(Names, a .. b)
  /\ \A i \in 2 .. Len(Prayers) + 1 : qs[i] = Query({Prayers[i - 1]}, a .. b)
  /\ \A i \in Len(Prayers) + 2 .. Len(qs) :
       qs[i] = Query(Names, {a + (i - Len(Prayers) - 2)})

LEMMA DashboardQueries ==
  ASSUME NEW a \in Int, NEW b \in Int, a <= b, NEW qs, qs = Queries("dashboard", a .. b)
  PROVE  DashboardOf(qs, a, b)
<1> DEFINE n == Len(Prayers)
           w == Whole(a .. b)
           p == ByName(a .. b)
           t == Daily(a .. b)
<1>1. n \in Nat /\ \A i \in 1 .. n : Prayers[i] \in Names
  BY PrayerLogAssumption
<1>2. w = <<Query(Names, a .. b)>> /\ w \in Seq(QueryType) /\ Len(w) = 1
  <2>1. Query(Names, a .. b) \in QueryType
    BY DEF Query, QueryType
  <2> HIDE DEF w
  <2>2. w = <<Query(Names, a .. b)>>
    BY DEF w, Whole
  <2> QED
    BY <2>1, <2>2
<1>3. p = [i \in 1 .. n |-> Query({Prayers[i]}, a .. b)] /\ p \in Seq(QueryType) /\ Len(p) = n
  <2>1. \A i \in 1 .. n : Query({Prayers[i]}, a .. b) \in QueryType
    BY <1>1 DEF Query, QueryType
  <2>2. p = [i \in 1 .. n |-> Query({Prayers[i]}, a .. b)]
    BY DEF ByName
  <2> HIDE DEF n, p
  <2> QED
    BY <1>1, <2>1, <2>2
<1>4. /\ t = [i \in 1 .. b - a + 1 |-> Query(Names, {a + i - 1})]
      /\ t \in Seq(QueryType) /\ Len(t) = b - a + 1
  BY DailyQueries
<1>5. qs = w \o p \o t
  BY DEF Queries
<1> HIDE DEF w, p, t, n
<1>6. /\ w \o p \in Seq(QueryType) /\ Len(w \o p) = n + 1
      /\ \A i \in 1 .. n + 1 : (w \o p)[i] = IF i <= 1 THEN w[i] ELSE p[i - 1]
  <2>1. /\ w \o p \in Seq(QueryType) /\ Len(w \o p) = Len(w) + Len(p)
        /\ \A i \in 1 .. Len(w) + Len(p) :
             (w \o p)[i] = IF i <= Len(w) THEN w[i] ELSE p[i - Len(w)]
    <3>1. w \in Seq(QueryType) /\ p \in Seq(QueryType)
      BY <1>2, <1>3
    <3> QED
      BY <3>1, ConcatProperties
  <2> QED
    BY <1>1, <1>2, <1>3, <2>1
<1>7. /\ Len(qs) = (n + 1) + (b - a + 1)
      /\ \A i \in 1 .. (n + 1) + (b - a + 1) :
           qs[i] = IF i <= n + 1 THEN (w \o p)[i] ELSE t[i - (n + 1)]
  <2>1. /\ Len((w \o p) \o t) = Len(w \o p) + Len(t)
        /\ \A i \in 1 .. Len(w \o p) + Len(t) :
             ((w \o p) \o t)[i] = IF i <= Len(w \o p) THEN (w \o p)[i]
                                                     ELSE t[i - Len(w \o p)]
    <3>1. (w \o p) \in Seq(QueryType) /\ t \in Seq(QueryType)
      BY <1>4, <1>6
    <3> QED
      BY <3>1, ConcatProperties
  <2> QED
    BY <1>4, <1>5, <1>6, <2>1
<1>8. qs[1] = Query(Names, a .. b)
  <2>1. 1 \in 1 .. n + 1 /\ 1 \in 1 .. (n + 1) + (b - a + 1) /\ 1 <= n + 1
    BY <1>1
  <2>2. qs[1] = (w \o p)[1]
    BY <1>7, <2>1
  <2>3. (w \o p)[1] = w[1]
    BY <1>6, <2>1
  <2> QED
    BY <1>2, <2>2, <2>3
<1>9. ASSUME NEW i \in 2 .. n + 1 PROVE qs[i] = Query({Prayers[i - 1]}, a .. b)
  <2>1. /\ i - 1 \in 1 .. n /\ i \in 1 .. n + 1 /\ ~(i <= 1)
        /\ i \in 1 .. (n + 1) + (b - a + 1) /\ i <= n + 1
    BY <1>1
  <2>2. qs[i] = (w \o p)[i]
    BY <1>7, <2>1
  <2>3. (w \o p)[i] = p[i - 1]
    BY <1>6, <2>1
  <2> QED
    BY <1>3, <2>1, <2>2, <2>3
<1>10. ASSUME NEW i \in n + 2 .. Len(qs) PROVE qs[i] = Query(Names, {a + (i - n - 2)})
  <2>1. /\ i - (n + 1) \in 1 .. b - a + 1 /\ i \in 1 .. (n + 1) + (b - a + 1)
        /\ ~(i <= n + 1) /\ a + (i - (n + 1)) - 1 = a + (i - n - 2)
    BY <1>1, <1>7
  <2>2. qs[i] = t[i - (n + 1)] /\ t[i - (n + 1)] = Query(Names, {a + (i - (n + 1)) - 1})
    BY <1>4, <1>7, <2>1
  <2> QED
    BY <2>1, <2>2
<1> QED
  BY <1>1, <1>7, <1>8, <1>9, <1>10 DEF n, DashboardOf

-----------------------------------------------------------------------------
(* The numbers of a page that nothing disturbed *)

\* Until something is marked, the answers of a page are the counts of its queries
\* as the table stands.
Tally(r) ==
  LET b == board[r] IN
  /\ b.queries = Queries(b.view, DateRange(b.filter, b.today))
  /\ pc[r] = "shown" => Len(b.answers) = Len(b.queries)
  /\ b.quiet =>
       /\ pc[r] = "total" => b.completed = Cardinality(Completed(At(r)))
       /\ \A i \in 1 .. Len(b.answers) :
            /\ b.answers[i].total = Cardinality(Matching(b.queries[i]))
            /\ b.answers[i].completed = Cardinality(Completed(b.queries[i]))

TallyInv == \A r \in Requests : board[r] # Nothing => Tally(r)

\* f has how many cells of T are of each date from lo on.
CountsDates(f, T, lo, n, last) ==
  \A i \in n + 2 .. last : f[i] = Cardinality({c \in T : c[2] \in {lo + (i - n - 2)}})

\* The cells of the dates of a range, by date.
LEMMA ByDate ==
  ASSUME NEW T \in SUBSET Cells, NEW lo \in Int, NEW hi \in Int, lo <= hi,
         NEW n \in Nat, NEW last, last = n + 1 + (hi - lo + 1), NEW f,
         CountsDates(f, T, lo, n, last)
  PROVE  Sum(f, n + 2, last) = Cardinality({c \in T : c[2] \in lo .. hi})
<1> DEFINE P == [i \in n + 2 .. last |-> {c \in T : c[2] \in {lo + (i - n - 2)}}]
<1>1. \A c \in T : c[2] \in Int
  BY PrayerLogAssumption DEF Cells
<1>2. IsFiniteSet(T)
  BY FS_Product, FS_Subset, PrayerLogAssumption DEF Cells
<1>3. \A i \in n + 2 .. last : /\ P[i] = {c \in T : c[2] \in {lo + (i - n - 2)}}
                               /\ f[i] = Cardinality({c \in T : c[2] \in {lo + (i - n - 2)}})
  BY DEF CountsDates
<1>4. n + 2 \in Nat /\ last \in Nat /\ n + 2 <= last + 1
  OBVIOUS
<1> HIDE DEF P
<1>5. \A i \in n + 2 .. last : IsFiniteSet(P[i]) /\ f[i] = Cardinality(P[i])
  <2> SUFFICES ASSUME NEW i \in n + 2 .. last
               PROVE  IsFiniteSet(P[i]) /\ f[i] = Cardinality(P[i])
    OBVIOUS
  <2>1. P[i] \in SUBSET T
    BY <1>3
  <2>2. IsFiniteSet(P[i])
    BY <1>2, <2>1, FS_Subset
  <2> QED
    BY <1>3, <2>2
<1>6. \A i, j \in n + 2 .. last : i # j => P[i] \cap P[j] = {}
  <2> SUFFICES ASSUME NEW i \in n + 2 .. last, NEW j \in n + 2 .. last,
                      NEW c \in P[i] \cap P[j]
               PROVE  i = j
    OBVIOUS
  <2>1. c[2] = lo + (i - n - 2) /\ c[2] = lo + (j - n - 2)
    BY <1>3
  <2> QED
    BY <1>4, <2>1
<1>7. UNION {P[i] : i \in n + 2 .. last} = {c \in T : c[2] \in lo .. hi}
  <2>1. ASSUME NEW c \in T, c[2] \in lo .. hi
        PROVE  \E i \in n + 2 .. last : c \in P[i]
    <3> DEFINE i == n + 2 + (c[2] - lo)
    <3>1. i \in n + 2 .. last /\ lo + (i - n - 2) = c[2]
      BY <1>1, <2>1
    <3> HIDE DEF i
    <3>2. c \in P[i]
      BY <1>3, <3>1
    <3> QED
      BY <3>1, <3>2
  <2>2. ASSUME NEW i \in n + 2 .. last, NEW c \in P[i] PROVE c \in T /\ c[2] \in lo .. hi
    <3>1. c \in T /\ c[2] = lo + (i - n - 2)
      BY <1>3
    <3> QED
      BY <1>4, <3>1
  <2> QED
    BY <2>1, <2>2
<1>8. Sum(f, n + 2, last) = Cardinality(UNION {P[i] : i \in n + 2 .. last})
  <2> DEFINE first == n + 2
  <2>1. SizesOf(f, P, first, last)
    BY <1>4, <1>5, <1>6 DEF SizesOf
  <2> HIDE DEF first
  <2>2. Sum(f, first, last) = Cardinality(UNION {P[i] : i \in first .. last})
    BY <2>1, SumOfParts
  <2> QED
    BY <2>2 DEF first
<1> QED
  BY <1>7, <1>8

\* The cells of the prayers, by prayer.
LEMMA ByPrayer ==
  ASSUME NEW T \in SUBSET Cells, NEW f,
         \A i \in 2 .. Len(Prayers) + 1 :
           f[i] = Cardinality({c \in T : c[1] \in {Prayers[i - 1]}})
  PROVE  Sum(f, 2, Len(Prayers) + 1) = Cardinality({c \in T : c[1] \in Known})
<1> DEFINE n == Len(Prayers)
           last == n + 1
           P == [i \in 2 .. last |-> {c \in T : c[1] \in {Prayers[i - 1]}}]
<1>1. n \in Nat /\ \A i, j \in 1 .. n : Prayers[i] = Prayers[j] => i = j
  BY PrayerLogAssumption
<1>2. IsFiniteSet(T)
  BY FS_Product, FS_Subset, PrayerLogAssumption DEF Cells
<1>3. \A i \in 2 .. last : P[i] = {c \in T : c[1] \in {Prayers[i - 1]}}
  OBVIOUS
<1>4. last \in Nat /\ 2 <= last + 1 /\ last = n + 1
  BY <1>1
<1>5. Known = {Prayers[i] : i \in 1 .. n}
  BY DEF Known
<1>6. \A i \in 2 .. last : f[i] = Cardinality({c \in T : c[1] \in {Prayers[i - 1]}})
  OBVIOUS
<1> HIDE DEF P, n, last
<1>7. \A i \in 2 .. last : IsFiniteSet(P[i]) /\ f[i] = Cardinality(P[i])
  <2> SUFFICES ASSUME NEW i \in 2 .. last PROVE IsFiniteSet(P[i]) /\ f[i] = Cardinality(P[i])
    OBVIOUS
  <2>1. P[i] \in SUBSET T
    BY <1>3
  <2>2. IsFiniteSet(P[i])
    BY <1>2, <2>1, FS_Subset
  <2> QED
    BY <1>3, <1>6, <2>2
<1>8. \A i, j \in 2 .. last : i # j => P[i] \cap P[j] = {}
  <2> SUFFICES ASSUME NEW i \in 2 .. last, NEW j \in 2 .. last, NEW c \in P[i] \cap P[j]
               PROVE  i = j
    OBVIOUS
  <2>1. Prayers[i - 1] = Prayers[j - 1]
    BY <1>3
  <2>2. i - 1 \in 1 .. n /\ j - 1 \in 1 .. n
    BY <1>1, <1>4
  <2>3. i - 1 = j - 1
    BY <1>1, <2>1, <2>2
  <2> QED
    BY <1>4, <2>3
<1>9. UNION {P[i] : i \in 2 .. last} = {c \in T : c[1] \in Known}
  <2>1. ASSUME NEW c \in T, c[1] \in Known PROVE \E i \in 2 .. last : c \in P[i]
    <3>1. PICK k \in 1 .. n : c[1] = Prayers[k]
      BY <1>5, <2>1
    <3>2. k + 1 \in 2 .. last /\ (k + 1) - 1 = k
      BY <1>1, <1>4
    <3>3. c \in P[k + 1]
      BY <1>3, <3>1, <3>2
    <3> QED
      BY <3>2, <3>3
  <2>2. ASSUME NEW i \in 2 .. last, NEW c \in P[i] PROVE c \in T /\ c[1] \in Known
    <3>1. i - 1 \in 1 .. n
      BY <1>1, <1>4
    <3> QED
      BY <1>3, <1>5, <3>1
  <2> QED
    BY <2>1, <2>2
<1>10. Sum(f, 2, last) = Cardinality(UNION {P[i] : i \in 2 .. last})
  <2>1. SizesOf(f, P, 2, last)
    BY <1>4, <1>7, <1>8 DEF SizesOf
  <2> QED
    BY <2>1, SumOfParts
<1> QED
  BY <1>9, <1>10 DEF last, n

\* The rows of a range, and those of them that are completed.
LEMMA MatchingNames ==
  ASSUME TypeOK, NEW D
  PROVE  /\ Matching(Query(Names, D)) = {c \in Rows : c[2] \in D}
         /\ Completed(Query(Names, D)) = {c \in {c \in Rows : log[c].done} : c[2] \in D}
<1>1. \A c \in Rows : c[1] \in Names
  BY DEF Rows, Cells
<1>2. \A N : Query(N, D).names = N /\ Query(N, D).dates = D
  BY DEF Query
<1> QED
  BY <1>1, <1>2 DEF Matching, Completed

LEMMA MatchingName ==
  ASSUME NEW name, NEW D
  PROVE  Matching(Query({name}, D)) = {c \in {c \in Rows : c[2] \in D} : c[1] \in {name}}
BY DEF Matching, Query

LEMMA TallyAddsUp == TypeOK /\ TallyInv => CountsAddUp
<1> SUFFICES ASSUME TypeOK, TallyInv PROVE CountsAddUp
  OBVIOUS
<1> SUFFICES ASSUME NEW r \in Requests, pc[r] = "shown", board[r].quiet,
                    board[r].view = "dashboard"
             PROVE  LET b == board[r]
                        rows == {c \in Rows : SamePeriod(b.filter, b.today, c[2])}
                        totals == [i \in 1 .. Len(b.answers) |-> b.answers[i].total]
                        completed == [i \in 1 .. Len(b.answers) |-> b.answers[i].completed]
                    IN
                    /\ totals[1] = Cardinality(rows)
                    /\ completed[1] = Cardinality({c \in rows : log[c].done})
                    /\ Sum(totals, Len(Prayers) + 2, Len(totals)) = totals[1]
                    /\ Sum(completed, Len(Prayers) + 2, Len(completed)) = completed[1]
                    /\ Sum(totals, 2, Len(Prayers) + 1)
                         = totals[1] - Cardinality({c \in rows : c[1] \notin Known})
  BY DEF CountsAddUp
<1> DEFINE b == board[r]
           rows == {c \in Rows : SamePeriod(b.filter, b.today, c[2])}
           totals == [i \in 1 .. Len(b.answers) |-> b.answers[i].total]
           completed == [i \in 1 .. Len(b.answers) |-> b.answers[i].completed]
           qs == b.queries
           n == Len(Prayers)
<1>1. b # Nothing /\ b \in BoardType /\ b.today \in Int
  BY PrayerLogAssumption DEF TypeOK, Counting, BoardType
<1>2. PICK lo, hi \in Int :
        /\ lo <= b.today /\ b.today <= hi /\ DateRange(b.filter, b.today) = lo .. hi
        /\ \A d \in Int : SamePeriod(b.filter, b.today, d) <=> d \in lo .. hi
  BY <1>1, PeriodIsRange
<1>3. lo <= hi
  BY <1>1, <1>2
<1>4. /\ qs = Queries("dashboard", lo .. hi) /\ Len(b.answers) = Len(qs)
      /\ \A i \in 1 .. Len(b.answers) :
           /\ b.answers[i].total = Cardinality(Matching(qs[i]))
           /\ b.answers[i].completed = Cardinality(Completed(qs[i]))
  BY <1>1, <1>2 DEF TallyInv, Tally
<1> HIDE DEF qs, b
<1>5. /\ n \in Nat /\ Len(qs) = n + 1 + (hi - lo + 1)
      /\ qs[1] = Query(Names, lo .. hi)
      /\ \A i \in 2 .. n + 1 : qs[i] = Query({Prayers[i - 1]}, lo .. hi)
      /\ \A i \in n + 2 .. Len(qs) : qs[i] = Query(Names, {lo + (i - n - 2)})
  <2>1. DashboardOf(qs, lo, hi)
    BY <1>3, <1>4, DashboardQueries
  <2> QED
    BY <2>1 DEF DashboardOf
<1> HIDE DEF n
<1>6. /\ Len(qs) \in Nat /\ Len(totals) = Len(qs) /\ Len(completed) = Len(qs)
      /\ \A i \in 1 .. Len(qs) : /\ totals[i] = Cardinality(Matching(qs[i]))
                                 /\ completed[i] = Cardinality(Completed(qs[i]))
  <2>1. Len(qs) \in Nat
    BY <1>3, <1>5
  <2> QED
    BY <1>4, <2>1
<1>7. \A c \in Rows : c \in Cells /\ c[1] \in Names /\ c[2] \in Int
  BY PrayerLogAssumption DEF Rows, Cells
<1>8. rows = {c \in Rows : c[2] \in lo .. hi}
  BY <1>2, <1>7
<1> HIDE DEF rows, totals, completed
<1> DEFINE done == {c \in Rows : log[c].done}
<1>9. /\ totals[1] = Cardinality(rows)
      /\ completed[1] = Cardinality({c \in done : c[2] \in lo .. hi})
      /\ {c \in done : c[2] \in lo .. hi} = {c \in rows : log[c].done}
  <2>1. 1 \in 1 .. Len(qs)
    BY <1>3, <1>5
  <2>2. Matching(qs[1]) = rows /\ Completed(qs[1]) = {c \in done : c[2] \in lo .. hi}
    BY <1>5, <1>8, MatchingNames
  <2>3. {c \in done : c[2] \in lo .. hi} = {c \in rows : log[c].done}
    BY <1>8
  <2> QED
    BY <1>6, <2>1, <2>2, <2>3
<1> HIDE DEF done
<1>10. Rows \in SUBSET Cells /\ done \in SUBSET Cells /\ rows \in SUBSET Cells
  BY <1>7, <1>8 DEF done
<1>11. /\ CountsDates(totals, Rows, lo, n, Len(qs))
       /\ CountsDates(completed, done, lo, n, Len(qs))
  <2> SUFFICES ASSUME NEW i \in n + 2 .. Len(qs)
               PROVE  /\ totals[i] = Cardinality({c \in Rows : c[2] \in {lo + (i - n - 2)}})
                      /\ completed[i] = Cardinality({c \in done : c[2] \in {lo + (i - n - 2)}})
    BY DEF CountsDates
  <2>1. i \in 1 .. Len(qs) /\ qs[i] = Query(Names, {lo + (i - n - 2)})
    BY <1>5, <1>6
  <2>2. /\ Matching(qs[i]) = {c \in Rows : c[2] \in {lo + (i - n - 2)}}
        /\ Completed(qs[i]) = {c \in done : c[2] \in {lo + (i - n - 2)}}
    BY <2>1, MatchingNames DEF done
  <2> QED
    BY <1>6, <2>1, <2>2
<1>12. Sum(totals, n + 2, Len(qs)) = totals[1]
  <2>1. Sum(totals, n + 2, Len(qs)) = Cardinality({c \in Rows : c[2] \in lo .. hi})
    BY <1>3, <1>5, <1>10, <1>11, ByDate
  <2> QED
    BY <1>8, <1>9, <2>1
<1>13. Sum(completed, n + 2, Len(qs)) = completed[1]
  BY <1>3, <1>5, <1>9, <1>10, <1>11, ByDate
<1>14. Sum(totals, 2, n + 1) = Cardinality({c \in rows : c[1] \in Known})
  <2>1. \A i \in 2 .. Len(Prayers) + 1 :
          totals[i] = Cardinality({c \in rows : c[1] \in {Prayers[i - 1]}})
    <3> SUFFICES ASSUME NEW i \in 2 .. n + 1
                 PROVE  totals[i] = Cardinality({c \in rows : c[1] \in {Prayers[i - 1]}})
      BY DEF n
    <3>1. i \in 1 .. Len(qs) /\ qs[i] = Query({Prayers[i - 1]}, lo .. hi)
      BY <1>3, <1>5, <1>6
    <3>2. PICK name : name = Prayers[i - 1]
      OBVIOUS
    <3>3. Matching(Query({name}, lo .. hi)) = {c \in rows : c[1] \in {name}}
      BY <1>8, MatchingName
    <3>4. Matching(qs[i]) = {c \in rows : c[1] \in {Prayers[i - 1]}}
      BY <3>1, <3>2, <3>3
    <3> QED
      BY <1>6, <3>1, <3>4
  <2> QED
    BY <1>10, <2>1, ByPrayer DEF n
<1>15. Cardinality({c \in rows : c[1] \in Known})
         = Cardinality(rows) - Cardinality({c \in rows : c[1] \notin Known})
  <2> DEFINE known == {c \in rows : c[1] \in Known}
             other == {c \in rows : c[1] \notin Known}
  <2>1. IsFiniteSet(rows)
    BY <1>10, FS_Product, FS_Subset, PrayerLogAssumption DEF Cells
  <2>2. known \in SUBSET rows /\ other \in SUBSET rows /\ known \cup other = rows
        /\ known \cap other = {}
    OBVIOUS
  <2> HIDE DEF known, other
  <2>3. IsFiniteSet(known) /\ IsFiniteSet(other)
    BY <2>1, <2>2, FS_Subset
  <2>4. /\ Cardinality(known \cup other)
             = Cardinality(known) + Cardinality(other) - Cardinality(known \cap other)
        /\ Cardinality(known) \in Nat /\ Cardinality(other) \in Nat
    BY <2>3, FS_Union, FS_CardinalityType
  <2>5. Cardinality(known) = Cardinality(rows) - Cardinality(other)
    <3>1. Cardinality(known \cap other) = 0
      BY <2>2, FS_EmptySet
    <3>2. Cardinality(known \cup other) = Cardinality(rows)
      BY <2>2
    <3> QED
      BY <2>4, <3>1, <3>2
  <2> QED
    BY <2>5 DEF known, other
<1> QED
  BY <1>6, <1>9, <1>12, <1>13, <1>14, <1>15 DEF n, rows, totals, completed, b

\* A page that is not at work, while no row changes.
LEMMA TallyStutters ==
  ASSUME TallyInv, UNCHANGED log, NEW q \in Requests, board[q] # Nothing,
         board'[q] = board[q], pc'[q] = pc[q]
  PROVE  Tally(q)'
<1>1. Matching(At(q))' = Matching(At(q)) /\ Completed(At(q))' = Completed(At(q))
  BY DEF Matching, Completed, Rows, At
<1>2. \A i : /\ Matching(board[q].queries[i])' = Matching(board[q].queries[i])
             /\ Completed(board[q].queries[i])' = Completed(board[q].queries[i])
  BY DEF Matching, Completed, Rows
<1> QED
  BY <1>1, <1>2 DEF TallyInv, Tally

\* A toggle that changes a row disturbs every page, one that does not leaves the
\* pages alone.
LEMMA TallyToggle ==
  ASSUME TypeOK, TallyInv, NEW r \in Requests, ToggleRequest(r) PROVE TallyInv'
<1>1. /\ board[r] = Nothing
      /\ \A q \in Requests \ {r} : pc'[q] = pc[q]
      /\ board' = Unsettle(board) \/ UNCHANGED <<log, board>>
  BY DEF ToggleRequest, Toggle, GetRow, InsertRow, GetAgain, SaveRow, TypeOK, Toggling,
         Counting
<1>2. SUFFICES ASSUME NEW q \in Requests, board'[q] # Nothing PROVE Tally(q)'
  BY DEF TallyInv
<1>3. board[q] # Nothing /\ board[q] \in BoardType /\ q # r
  BY <1>1, <1>2 DEF Unsettle, TypeOK
<1>4. CASE board' = Unsettle(board)
  <2>1. /\ ~board'[q].quiet /\ board'[q].view = board[q].view
        /\ board'[q].filter = board[q].filter /\ board'[q].today = board[q].today
        /\ board'[q].queries = board[q].queries /\ board'[q].answers = board[q].answers
    BY <1>3, <1>4 DEF Unsettle, BoardType
  <2> QED
    BY <1>1, <1>3, <2>1 DEF TallyInv, Tally
<1>5. CASE UNCHANGED <<log, board>>
  BY <1>1, <1>3, <1>5, TallyStutters
<1> QED
  BY <1>1, <1>4, <1>5

\* A page's own statements.
LEMMA TallyBoard ==
  ASSUME TypeOK, TallyInv, NEW r \in Requests, BoardRequest(r) PROVE TallyInv'
<1>1. /\ UNCHANGED log
      /\ \A q \in Requests \ {r} : board'[q] = board[q] /\ pc'[q] = pc[q]
  BY BoardPage DEF TypeOK
<1>2. \A k : Matching(k)' = Matching(k) /\ Completed(k)' = Completed(k)
  BY <1>1 DEF Matching, Completed, Rows
<1>3. ASSUME NEW q \in Requests \ {r}, board'[q] # Nothing PROVE Tally(q)'
  BY <1>1, <1>3, TallyStutters
<1>4. ASSUME board'[r] # Nothing PROVE Tally(r)'
  <2>1. ASSUME NEW view \in Views, NEW filter \in Filters, NEW today \in Todays,
               OpenBoard(r, view, filter, today)
        PROVE  Tally(r)'
    <3> DEFINE plan == Queries(view, DateRange(filter, today))
    <3>1. /\ board'[r] = [filter  |-> filter, today |-> today, view |-> view,
                          queries |-> plan, answers |-> <<>>, completed |-> 0,
                          was |-> 0, quiet |-> TRUE]
          /\ pc'[r] = "completed"
      BY <2>1 DEF OpenBoard, TypeOK
    <3> HIDE DEF plan
    <3>2. /\ board'[r].queries = plan /\ board'[r].view = view
          /\ board'[r].filter = filter /\ board'[r].today = today
          /\ board'[r].answers = <<>>
      BY <3>1
    <3>3. Len(board'[r].answers) = 0
      BY <3>2
    <3> QED
      BY <3>1, <3>2, <3>3 DEF Tally, plan
  <2>2. CASE CountCompleted(r)
    <3>1. board[r] \in BoardType /\ board[r] # Nothing /\ pc'[r] = "total"
      BY <2>2 DEF CountCompleted, TypeOK, Counting
    <3>2. /\ board'[r].completed = Cardinality(Completed(At(r)))
          /\ board'[r].answers = board[r].answers /\ board'[r].quiet = board[r].quiet
          /\ board'[r].queries = board[r].queries /\ board'[r].view = board[r].view
          /\ board'[r].filter = board[r].filter /\ board'[r].today = board[r].today
      BY <2>2, <3>1 DEF CountCompleted, TypeOK, BoardType
    <3>3. At(r)' = At(r)
      BY <3>2 DEF At
    <3>4. Completed(At(r))' = Completed(At(r))
      BY <1>1, <3>3 DEF Matching, Completed, Rows
    <3>5. Tally(r)
      BY <3>1 DEF TallyInv
    <3>6. \A i : /\ Matching(board[r].queries[i])' = Matching(board[r].queries[i])
                 /\ Completed(board[r].queries[i])' = Completed(board[r].queries[i])
      BY <1>1, <3>2 DEF Matching, Completed, Rows
    <3> QED
      BY <3>1, <3>2, <3>4, <3>5, <3>6 DEF Tally
  <2>3. CASE CountTotal(r)
    <3> DEFINE answer == [completed |-> board[r].completed, was |-> board[r].was,
                          total |-> Cardinality(Matching(At(r)))]
               k == Len(board[r].answers)
    <3>1. /\ board[r] \in BoardType /\ board[r] # Nothing /\ pc[r] = "total"
          /\ pc'[r] = IF k + 1 = Len(board[r].queries) THEN "shown" ELSE "completed"
      BY <2>3 DEF CountTotal, TypeOK, Counting
    <3>2. /\ board'[r].answers = Append(board[r].answers, answer)
          /\ board'[r].quiet = board[r].quiet
          /\ board'[r].queries = board[r].queries /\ board'[r].view = board[r].view
          /\ board'[r].filter = board[r].filter /\ board'[r].today = board[r].today
      BY <2>3, <3>1 DEF CountTotal, TypeOK, BoardType
    <3>3. Tally(r)
      BY <3>1 DEF TallyInv
    <3>4. /\ answer.total = Cardinality(Matching(board[r].queries[k + 1]))
          /\ board[r].quiet =>
               answer.completed = Cardinality(Completed(board[r].queries[k + 1]))
      BY <3>1, <3>3 DEF Tally, At
    <3> HIDE DEF answer
    <3>5. board[r].answers \in Seq(AnswerType)
      BY <3>1 DEF BoardType
    <3>6. /\ Len(board'[r].answers) = k + 1 /\ k \in Nat
          /\ \A i \in 1 .. k + 1 :
               board'[r].answers[i] = IF i = k + 1 THEN answer ELSE board[r].answers[i]
      BY <3>2, <3>5
    <3> HIDE DEF k
    <3>7. ASSUME board[r].quiet, NEW i \in 1 .. k + 1
          PROVE  /\ board'[r].answers[i].total
                      = Cardinality(Matching(board[r].queries[i]))
                 /\ board'[r].answers[i].completed
                      = Cardinality(Completed(board[r].queries[i]))
      <4>1. CASE i = k + 1
        BY <3>4, <3>6, <3>7, <4>1
      <4>2. CASE i # k + 1
        <5>1. i \in 1 .. k
          BY <3>6, <4>2
        <5> QED
          BY <3>3, <3>6, <3>7, <4>2, <5>1 DEF Tally, k
      <4> QED
        BY <4>1, <4>2
    <3>8. \A i : /\ Matching(board[r].queries[i])' = Matching(board'[r].queries[i])
                 /\ Completed(board[r].queries[i])' = Completed(board'[r].queries[i])
      BY <1>1 DEF Matching, Completed, Rows
    <3>9. /\ pc'[r] # "total"
          /\ pc'[r] = "shown" => Len(board'[r].answers) = Len(board'[r].queries)
      BY <3>1, <3>2, <3>6 DEF k
    <3> QED
      BY <3>2, <3>3, <3>6, <3>7, <3>8, <3>9 DEF Tally
  <2>4. CASE CloseBoard(r)
    BY <1>4, <2>4 DEF CloseBoard, TypeOK
  <2> QED
    BY <2>1, <2>2, <2>3, <2>4 DEF BoardRequest
<1> QED
  BY <1>3, <1>4 DEF TallyInv

LEMMA TallyStep == TypeOK /\ TallyInv /\ [Next]_vars => TallyInv'
<1> SUFFICES ASSUME TypeOK, TallyInv, [Next]_vars PROVE TallyInv'
  OBVIOUS
<1>1. ASSUME UNCHANGED log,
             \A q \in Requests : board'[q] # Nothing => board'[q] = board[q] /\ pc'[q] = pc[q]
      PROVE  TallyInv'
  BY <1>1, TallyStutters DEF TallyInv
<1>2. CASE UNCHANGED vars
  BY <1>1, <1>2 DEF vars
<1>3. ASSUME NEW r \in Requests, TimesRequest(r) PROVE TallyInv'
  <2>1. UNCHANGED <<log, board>> /\ board[r] = Nothing
        /\ \A q \in Requests \ {r} : pc'[q] = pc[q]
    BY <1>3 DEF TimesRequest, CreatePrayer, InsertPrayer, OpenPrayer,
                UpdatePrayer, DeletePrayer, TypeOK, Counting
  <2> QED
    BY <1>1, <2>1
<1>4. ASSUME NEW r \in Requests, DayRequest(r) PROVE TallyInv'
  <2>1. UNCHANGED <<log, board>> /\ board[r] = Nothing
        /\ \A q \in Requests \ {r} : pc'[q] = pc[q]
    BY <1>4 DEF DayRequest, ReadMarks, ListPrayers, ReadStatus, ShowDay,
                TypeOK, Counting
  <2> QED
    BY <1>1, <2>1
<1>5. ASSUME NEW r \in Requests, Abort(r) PROVE TallyInv'
  <2>1. /\ UNCHANGED log /\ board'[r] = Nothing
        /\ \A q \in Requests \ {r} : board'[q] = board[q] /\ pc'[q] = pc[q]
    BY <1>5 DEF Abort, TypeOK
  <2> QED
    BY <1>1, <2>1
<1> QED
  BY <1>2, <1>3, <1>4, <1>5, TallyToggle, TallyBoard DEF Next

\* What a dashboard shows of a week or a month that was not disturbed adds up: the
\* days to the whole, and the prayers to what was recorded of them.
THEOREM DashboardAddsUp == Spec => []CountsAddUp
<1>1. Init => TallyInv
  BY DEF Init, TallyInv
<1> QED
  BY <1>1, TallyAddsUp, TypeInit, TypeStep, TallyStep, PTL DEF Spec

=============================================================================
