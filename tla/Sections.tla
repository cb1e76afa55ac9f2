------------------------------ MODULE Sections ------------------------------
(***************************************************************************)
(* The state of a foldable section of the HTML report: the most            *)
(* significant one of the validations in it.                               *)
(***************************************************************************)
EXTENDS FiniteSetsExt

IsIssue(state) == state \in {"warning", "problem"}

(* A field nobody validated has the state "". *)
SignificantState(a, b) ==
  IF "problem" \in {a, b} THEN "problem"
  ELSE IF "warning" \in {a, b} THEN "warning"
  ELSE IF "ok" \in {a, b} THEN "ok" ELSE a

Aggregate(states) == FoldSet(SignificantState, "", states)
=============================================================================
