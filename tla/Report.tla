------------------------------- MODULE Report -------------------------------
(***************************************************************************)
(* The step tree every ramenctl command builds while it runs and writes    *)
(* when it stops (pkg/report/report.go): how adding a sub step moves the   *)
(* status of its parent, and which error the tree reports.                 *)
(*                                                                         *)
(* A step is a record [name, status, err, items].  Messages are abstracted *)
(* to what they say happened: err is NoErr, or the status ("failed" or     *)
(* "canceled") the message announces.                                      *)
(***************************************************************************)
EXTENDS Naturals, Sequences

Unset    == ""            \* the zero value of report.Status
Passed   == "passed"
Failed   == "failed"
Skipped  == "skipped"
Canceled == "canceled"

Status == {Passed, Failed, Skipped, Canceled}

NoErr == ""               \* the zero value of Step.Err

(* Errors an operation returns, as far as the code tells them apart with   *)
(* errors.Is: nil, the context was canceled, the step's own deadline       *)
(* passed, anything else.                                                  *)
Nil     == "nil"
Outcome == {Nil, "error", "deadline", "canceled"}

(* An operation may report a cancellation only once the context was        *)
(* canceled.  It may also succeed, fail or time out afterwards.            *)
OutcomeOf(canceled) == IF canceled THEN Outcome ELSE Outcome \ {"canceled"}

(* Faulty AddStep: a failure hides an earlier cancellation. *)
AddStatusFailedWins(cur, sub) ==
  CASE sub \in {Passed, Skipped} -> IF cur = Unset THEN Passed ELSE cur
    [] sub \in {Failed, Canceled} -> sub
    [] OTHER -> cur

(* Faulty AddStep: the last sub step decides. *)
AddStatusLastWins(cur, sub) == IF sub = Unset THEN cur ELSE sub

(* The status switch of AddStep, shared by Base and Step. *)
AddStatus(cur, sub) ==
  CASE sub \in {Passed, Skipped} -> IF cur = Unset THEN Passed ELSE cur
    [] sub = Failed              -> IF cur = Canceled THEN cur ELSE sub
    [] sub = Canceled            -> sub
    [] OTHER                     -> cur

NewStep(name) == [name |-> name, status |-> Unset, err |-> NoErr, items |-> <<>>]

(* AddStep panics when the parent has a step of that name. *)
HasStep(parent, name) == \E i \in DOMAIN parent.items : parent.items[i].name = name

AddStep(parent, sub) ==
  [parent EXCEPT !.items = Append(@, sub), !.status = AddStatus(@, sub.status)]

(* failStep: only an error that is context.Canceled cancels the step. *)
StatusOf(e) ==
  CASE e = Nil        -> Passed
    [] e = "canceled" -> Canceled
    [] OTHER          -> Failed

EndedStep(name, e) ==
  [name |-> name, status |-> StatusOf(e),
   err |-> IF e = Nil THEN NoErr ELSE StatusOf(e), items |-> <<>>]

(* Step.Error: a step's own error shadows its children, a step without one *)
(* reports its last child.  No command nests an error deeper than a child  *)
(* of a step of the report.                                                *)
StepError(step) ==
  IF step.err # NoErr \/ step.items = <<>>
  THEN step.err
  ELSE step.items[Len(step.items)].err

ReportError(report) ==
  IF report.items = <<>> THEN NoErr ELSE StepError(report.items[Len(report.items)])

(* Reference for AddStatus: what a set of sub step statuses amounts to,    *)
(* whatever order the sub steps were added in.                             *)
Verdict(S) ==
  IF Canceled \in S THEN Canceled
  ELSE IF Failed \in S THEN Failed
  ELSE IF S = {} THEN Unset
  ELSE Passed
=============================================================================
