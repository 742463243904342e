----------------------------- MODULE MCJobBoard -----------------------------
(* Tables, bodies and symmetry for JobBoard.                               *)
EXTENDS JobBoard, TLC

CONSTANTS owner, rival, admin, j1, j2, w1, w2

Posting(s, lo, hi) == [owner |-> owner, status |-> s,
                       salary_min |-> lo, salary_max |-> hi]

OneDraft == [j \in Jobs |-> IF j = j1 THEN Posting("draft", 1, 2) ELSE Unborn]
WideDraft == [j \in Jobs |-> IF j = j1 THEN Posting("draft", 1, 3) ELSE Unborn]

OneCreation == {[salary_min |-> 1, salary_max |-> Null]}

StatusPatches == {[status |-> s] : s \in {"open", "closed"}}

\* One field or two, values and nulls, and a range that is out of order.
RowPatches ==
  {[status |-> "open"], [status |-> Null], [salary_max |-> Null],
   [salary_min |-> 2], [status |-> "closed", salary_max |-> 1],
   [salary_min |-> 2, salary_max |-> 2], [salary_min |-> 2, salary_max |-> 1]}

TwoSided == [salary_min : Salaries, salary_max : Salaries]

Symmetry == Permutations(Writers)
=============================================================================
