---------------------------- MODULE MCChecklist ----------------------------
(* An instance of Checklist for TLC, and the rating on real numbers. *)
EXTENDS Checklist, TLC

Symmetry == Permutations(Tasks) \cup Permutations(Subs) \cup Permutations(Requests)

\* As the page numbers them: a list with an empty line, and one of one line.
PostedLists == {<<1, 3>>, <<2>>}

OneDay == {{1}}

\* Of up to twenty subtasks, more completed ones never give a lower label; the
\* best one is for nine in ten, the second lowest for anything below a half.
ASSUME \A total \in 1 .. 20 : \A completed \in 0 .. total :
  /\ \A more \in completed .. total : Grade(completed, total) <= Grade(more, total)
  /\ Grade(completed, total) = 6 <=> 10 * completed >= 9 * total
  /\ Grade(completed, total) <= 1 <=> 2 * completed < total

============================================================================
