--------------------------- MODULE ApplicationHTML --------------------------
(***************************************************************************)
(* What the HTML page of `validate application` makes of the report that   *)
(* ApplicationStatus fills: the protected PVCs of a VRG fold, and in them  *)
(* the conditions of each.                                                 *)
(***************************************************************************)
EXTENDS ApplicationStatus, Sections

Section(object, kind, at) == [object |-> object, kind |-> kind, at |-> at]

OfVRG(v) == v.object \notin {"drpc", "s3"}

(* The sections a validation is in, the inner ones and the outer ones. *)
SectionsOf(v) ==
  (IF v.object # "s3" /\ v.key \notin Fields THEN {Section(v.object, "conditions", v.at)} ELSE {})
    \cup (IF OfVRG(v) /\ v.at > 0 THEN {Section(v.object, "pvcs", 0)} ELSE {})

StatesOf(object, at, keys) ==
  {v.state : v \in {w \in shown : w.object = object /\ w.at = at /\ w.key \in keys}}

ConditionsState(object, at) ==
  Aggregate({v.state : v \in {w \in shown : w.object = object /\ w.at = at /\ w.key \notin Fields}})

(* Faulty PVCState: the conditions of the PVC are forgotten. *)
PVCStateNoConditions(object, i) == Aggregate(StatesOf(object, i, {"phase", "deleted"}))

PVCState(object, i) ==
  SignificantState(Aggregate(StatesOf(object, i, {"phase", "deleted"})), ConditionsState(object, i))

(* AggregateState of the value the template asks about. *)
SectionState(s) ==
  IF s.kind = "conditions" THEN ConditionsState(s.object, s.at)
  ELSE Aggregate({PVCState(s.object, v.at) : v \in {w \in shown : w.object = s.object /\ w.at > 0}})

ShouldOpen(s) == IsIssue(SectionState(s))

(* A field that is left out unless it is a problem. *)
Rendered(v) == v.key = "deleted" => v.state = "problem"
-----------------------------------------------------------------------------
(* The page hides no issue and raises no false alarm: a section is open    *)
(* exactly when a validation in it, or in a section inside of it, is an    *)
(* issue, and every issue of the report is on the page.  ("Sections are    *)
(* open only when they have issues", html.go; an issue in a closed outer   *)
(* section would not be seen, though the inner one is open.)               *)
IssuesAreOpen ==
  pc = "done" =>
    /\ \A s \in UNION {SectionsOf(v) : v \in shown} :
         ShouldOpen(s) <=> \E v \in shown : s \in SectionsOf(v) /\ IsIssue(v.state)
    /\ \A v \in shown : IsIssue(v.state) => Rendered(v)
=============================================================================
