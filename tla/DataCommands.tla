---------------------------- MODULE DataCommands ----------------------------
(***************************************************************************)
(* One run of `gather application`, `validate application` or `validate    *)
(* clusters`, and what the three promise.                                  *)
(***************************************************************************)
EXTENDS GatherApplication, ValidateApplication, ValidateClusters

Main ==
  \/ command = "gather-application" /\ GatherApplication
  \/ command = "validate-application" /\ ValidateApplication
  \/ command = "validate-clusters" /\ ValidateClusters

Next == Main \/ Interrupt

(* The main goroutine runs, and every operation ends: requests have a      *)
(* timeout or are canceled, gatherings end.  Nobody has to press Ctrl-C.   *)
Fairness == WF_vars(Main)

Spec == Init /\ [][Next]_vars /\ Fairness
-----------------------------------------------------------------------------
(* The sub steps of the current step, and the statuses of those of a name. *)
Names == Clusters \cup Profiles \cup {"inspect application", "inspect S3 profiles", "validate data"}

StepOf(name) ==
  {current.items[i].status : i \in {j \in DOMAIN current.items : current.items[j].name = name}}

(* Values the variables range over. *)
TypeOK ==
  /\ command \in Commands
  /\ pc \in {"validate config", "inspect application", "gather", "read profiles", "read secrets",
             "S3", "validate data", "finish", "finish passed", "failed", "passed", "done"}
  /\ canceled \in BOOLEAN
  /\ pending \subseteq Clusters \cup Profiles
  /\ {current.items[i].name : i \in DOMAIN current.items} \subseteq Names
  /\ current.status \in {Unset, Passed, Failed, Canceled}
  /\ report.status \in {Unset, Passed, Failed, Canceled}
  /\ Len(report.items) \in 0..2
  /\ secrets \subseteq Profiles
  /\ s3 \in [Profiles -> Outcome \cup {"none", Aborted}]
  /\ summary \in [States -> 0..(Cardinality(Profiles) + 1 + MaxValidations)]
  /\ result \in {"none", "nil", "error"}
  /\ saved \in {Unset, Passed, Failed, Canceled}
  /\ html \in BOOLEAN
  /\ message \in {NoErr, Failed, Canceled}

(* The command answers what its report says: nil for a report that passed, *)
(* otherwise an error, not empty, that says canceled or failed like the    *)
(* report does.  (Run follows booleans, some of them "true even if there   *)
(* were errors"; the report follows AddStep and the summary.)              *)
AnswerIsTrue ==
  /\ result = "nil" => report.status = Passed
  /\ result = "error" => report.status = message /\ message # NoErr
  /\ saved # Unset => saved = report.status

(* Nothing is missing behind a nil: every cluster was gathered, the secret *)
(* of every profile was read, every profile was worked on and none failed, *)
(* and a validation found no issue.                                        *)
NilIsComplete ==
  pc = "passed" \/ result = "nil" =>
    /\ \A c \in Clusters : StepOf(c) = {Passed}
    /\ \A p \in Profiles : p \in secrets /\ s3[p] = Nil /\ StepOf(NameOf(p)) = {Passed}
    /\ ~HasIssues(summary)
    /\ command # "gather-application" => summary["ok"] > Cardinality(Profiles)

(* A canceled operation is the last thing that happens: beside the results *)
(* of its own fan-out no step follows it, and nothing is validated.        *)
CancelStops ==
  LET S == {current.items[i].status : i \in DOMAIN current.items} IN
  Canceled \in S =>
    /\ pc \in {"S3", "finish", "failed", "done"}
    /\ ~HasValidations /\ ~html
    /\ StepOf("validate data") = {}
    /\ result # "nil" /\ (pc = "done" => report.status = Canceled)

(* Data is validated, and an HTML report written, only for data gathered   *)
(* from every cluster.                                                     *)
ValidatesGathered ==
  HasValidations \/ html => \A c \in Clusters : StepOf(c) = {Passed}

(* A command answers the worst that happened, once (CommandVerdict).  The  *)
(* verdict of a running command is the worse of its report's and of        *)
(* the current step's, so that no status is lost between the two.          *)
Promise == INSTANCE CommandVerdict WITH
  verdict <- Verdict({report.status, current.status} \ {Unset}),
  answer  <- result

KeepsVerdict == Promise!CSpec

(* "Returns false only if the user cancelled" (checkS3), "S3 gather is     *)
(* canceled, validation is skipped" (command_test.go): once the user cut   *)
(* an S3 request short nothing is validated.                               *)
AbortSkipsValidation ==
  (\E p \in Profiles : s3[p] = Aborted) => ~HasValidations

(* "step exists": the names of the sub steps of a step are different, so   *)
(* that AddStep never panics.                                              *)
NeverPanics == pc # "panic"
=============================================================================
