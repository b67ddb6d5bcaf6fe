----------------------------- MODULE PrayerBook -----------------------------
(***************************************************************************)
(* What the prayer pages promise: a book with one mark for every prayer of *)
(* a day.  A request asks for a mark, and the mark is made once, as asked, *)
(* unless the process that serves the request dies                         *)
(* (toggle_prayer_completion in scheduler/views/prayer_views.py).          *)
(***************************************************************************)
CONSTANTS Requests, Cells, Statuses, Nothing

VARIABLES
  book,    \* the mark of a prayer on a date
  asked,   \* what a request still has to do: a cell and its mark
  dead     \* the requests whose process died

vars == <<book, asked, dead>>

Init ==
  /\ book = [c \in Cells |-> "not_yet"]
  /\ asked = [r \in Requests |-> Nothing]
  /\ dead = {}

Ask(r, c, s) ==
  /\ asked[r] = Nothing /\ r \notin dead
  /\ asked' = [asked EXCEPT ![r] = <<c, s>>]
  /\ UNCHANGED <<book, dead>>

\* The mark is made, and the request is done with it.
Mark(r) ==
  /\ asked[r] # Nothing
  /\ book' = [book EXCEPT ![asked[r][1]] = asked[r][2]]
  /\ asked' = [asked EXCEPT ![r] = Nothing]
  /\ UNCHANGED dead

Die(r) ==
  /\ r \notin dead
  /\ dead' = dead \cup {r}
  /\ asked' = [asked EXCEPT ![r] = Nothing]
  /\ UNCHANGED book

Next ==
  \E r \in Requests :
    \/ \E c \in Cells, s \in Statuses : Ask(r, c, s)
    \/ Mark(r) \/ Die(r)

Spec == Init /\ [][Next]_vars

=============================================================================
