------------------------------- MODULE Stages -------------------------------
(***************************************************************************)
(* What `gather application`, `validate application` and `validate         *)
(* clusters` have in common: a main goroutine that validates the           *)
(* configuration, inspects, gathers namespaces from the clusters, reads    *)
(* the S3 profiles and works on every profile, one stage after the other,  *)
(* adding a sub step per operation to the step being built.  The commands  *)
(* differ in what stops them; that is stated in their own modules.         *)
(*                                                                         *)
(* Results of the clusters and of the profiles are received in any order   *)
(* (FanOut shows that each is received once).                              *)
(***************************************************************************)
EXTENDS Report, FiniteSets

CONSTANTS
  Clusters,               \* hub, c1 and c2 of the environment
  Profiles,               \* the entries of the hub configmap's S3 profiles
  RepeatNames             \* do these entries repeat one profile name?

ASSUME RepeatNamesAssumption == RepeatNames \in BOOLEAN

VARIABLES
  command,                \* which of the three commands runs
  pc,                     \* the stage of the main goroutine
  canceled,               \* has the command's context been canceled?
  pending,                \* clusters or profiles without a result yet
  current,                \* the step being built
  report,                 \* the report: status and steps
  secrets,                \* profiles whose secret was read
  s3,                     \* s3[p]: the result received for p, or "none"
  summary,                \* summary[state]: the validations in that state
  result,                 \* what Run returned: "none", "nil", "error"
  saved,                  \* the status the YAML report says, Unset without one
  html,                   \* was the HTML report written?
  message                 \* the message of the returned error

vars == <<command, pc, canceled, pending, current, report, secrets, s3, summary,
          result, saved, html, message>>

answerVars == <<command, canceled, result, saved, html, message>>

Commands == {"gather-application", "validate-application", "validate-clusters"}

States == {"ok", "warning", "problem"}      \* report.ValidationState

Init ==
  /\ command \in Commands
  /\ pc = "validate config"
  /\ canceled = FALSE
  /\ pending = {}
  /\ current = NewStep(command)
  /\ report = [status |-> Unset, items |-> <<>>]
  /\ secrets = {}
  /\ s3 = [p \in Profiles |-> "none"]
  /\ summary = [state \in States |-> 0]
  /\ result = "none"
  /\ saved = Unset
  /\ html = FALSE
  /\ message = NoErr

(* A profile entry's name: the name of its sub step. *)
NameOf(p) == IF RepeatNames THEN "profile" ELSE p

(* An S3 request that the cancellation cut short.  Only an error of the    *)
(* client's configuration keeps its cause: for every other request the     *)
(* cause is logged and dropped, and errors.Is(err, Canceled) is false.     *)
Aborted == "aborted"

(* With empty credentials no request succeeds. *)
S3OutcomeOf(p) ==
  (IF p \in secrets THEN {Nil} ELSE {}) \cup {"error"}
    \cup IF canceled THEN {"canceled", Aborted} ELSE {}

(***************************************************************************)
(* The stages.  "to" is the stage that follows.                            *)
(***************************************************************************)
AddSubStep(name, e) == current' = AddStep(current, EndedStep(name, e))

(* Validate the configuration: a step of its own. *)
ValidateConfigThen(to) ==
  /\ pc = "validate config"
  /\ \E e \in OutcomeOf(canceled) :
       /\ report' = AddStep(report, EndedStep("validate config", e))
       /\ pc' = IF e = Nil THEN to ELSE "failed"
       /\ pending' = IF pc' = "gather" THEN Clusters ELSE {}
  /\ UNCHANGED <<current, secrets, s3, summary>>
  /\ UNCHANGED answerVars

InspectApplication ==
  /\ pc = "inspect application"
  /\ \E e \in OutcomeOf(canceled) :
       /\ AddSubStep("inspect application", e)
       /\ pc' = IF e = Nil THEN "gather" ELSE "finish"
       /\ pending' = IF e = Nil THEN Clusters ELSE {}
  /\ UNCHANGED <<report, secrets, s3, summary>>
  /\ UNCHANGED answerVars

(* The result of one cluster: an error is a failure, never a cancellation. *)
ReceiveCluster(c) ==
  /\ pc = "gather"
  /\ c \in pending
  /\ \E e \in {Nil, "error"} : AddSubStep(c, e)
  /\ pending' = pending \ {c}
  /\ UNCHANGED <<pc, report, secrets, s3, summary>>
  /\ UNCHANGED answerVars

(* Current.Err as the switch over Current.Status behind a range leaves it. *)
ErrOf(step) ==
  [step EXCEPT !.err = IF step.status \in {Canceled, Failed} THEN step.status ELSE @]

(* Faulty ClustersDone: a cluster that failed does not stop the command. *)
ClustersDoneAnyway ==
  /\ pc = "gather"
  /\ pending = {}
  /\ current' = ErrOf(current)
  /\ pc' = "read profiles"
  /\ UNCHANGED <<pending, report, secrets, s3, summary>>
  /\ UNCHANGED answerVars

ClustersDone ==
  /\ pc = "gather"
  /\ pending = {}
  /\ current' = ErrOf(current)
  /\ pc' = IF current.status \in {Canceled, Failed} THEN "finish" ELSE "read profiles"
  /\ UNCHANGED <<pending, report, secrets, s3, summary>>
  /\ UNCHANGED answerVars

(* inspectS3Profiles stopped with e: "to" follows. *)
InspectedS3(e, to) ==
  /\ AddSubStep("inspect S3 profiles", e)
  /\ pc' = to
  /\ pending' = IF to = "S3" THEN Profiles ELSE {}
  /\ UNCHANGED <<report, secrets, s3, summary>>
  /\ UNCHANGED answerVars

(* ClusterProfiles reads the gathered configmap: no profile is an error. *)
ReadProfiles ==
  /\ pc = "read profiles"
  /\ Profiles # {}
  /\ pc' = "read secrets"
  /\ pending' = Profiles
  /\ UNCHANGED <<current, report, secrets, s3, summary>>
  /\ UNCHANGED answerVars

(* GetSecret on the live hub: a profile whose secret cannot be read goes   *)
(* on with empty credentials.                                              *)
ReadSecret(p) ==
  /\ pc = "read secrets"
  /\ p \in pending
  /\ pending' = pending \ {p}
  /\ secrets' \in {secrets, secrets \cup {p}}
  /\ UNCHANGED <<pc, current, report, s3, summary>>
  /\ UNCHANGED answerVars

(* The result of one profile.  A sub step of that name in the current step *)
(* makes AddStep panic.                                                    *)
ReceiveProfile(p) ==
  /\ pc = "S3"
  /\ p \in pending
  /\ \E e \in S3OutcomeOf(p) :
       /\ s3' = [s3 EXCEPT ![p] = e]
       /\ IF HasStep(current, NameOf(p))
          THEN pc' = "panic" /\ UNCHANGED current
          ELSE AddSubStep(NameOf(p), e) /\ UNCHANGED pc
  /\ pending' = pending \ {p}
  /\ UNCHANGED <<report, secrets, summary>>
  /\ UNCHANGED answerVars

ProfilesDone(to) ==
  /\ pc = "S3"
  /\ pending = {}
  /\ current' = ErrOf(current)
  /\ pc' = to
  /\ UNCHANGED <<pending, report, secrets, s3, summary>>
  /\ UNCHANGED answerVars

(***************************************************************************)
(* The end of a command.                                                   *)
(***************************************************************************)
EndAs(to) ==
  /\ report' = AddStep(report, current)
  /\ pc' = to
  /\ UNCHANGED <<pending, current, secrets, s3, summary>>
  /\ UNCHANGED answerVars

(* return c.FinishStep() *)
FinishStep ==
  /\ pc = "finish"
  /\ EndAs(IF AddStep(report, current).status = Passed THEN "passed" ELSE "failed")

(* c.FinishStep(); return true *)
FinishStepPassed ==
  /\ pc = "finish passed"
  /\ EndAs("passed")

HasValidations == \E state \in States : summary[state] > 0

(* The YAML report always, the HTML report when something was validated.   *)
(* A report that cannot be written is only mentioned on the console.       *)
WriteReport ==
  /\ saved' \in {Unset, report.status}
  /\ html' \in {FALSE, HasValidations}

ReturnFailed ==
  /\ pc = "failed"
  /\ pc' = "done"
  /\ result' = "error"
  /\ message' = ReportError(report)
  /\ WriteReport
  /\ UNCHANGED <<command, canceled, pending, current, report, secrets, s3, summary>>

ReturnPassed ==
  /\ pc = "passed"
  /\ pc' = "done"
  /\ result' = "nil"
  /\ WriteReport
  /\ UNCHANGED <<command, canceled, pending, current, report, secrets, s3, summary, message>>

(* Ctrl-C: the signal handler cancels the context until the command closes. *)
Interrupt ==
  /\ pc # "done"
  /\ ~canceled
  /\ canceled' = TRUE
  /\ UNCHANGED <<command, pc, pending, current, report, secrets, s3, summary,
                 result, saved, html, message>>

Ended ==
  FinishStep \/ FinishStepPassed \/ ReturnFailed \/ ReturnPassed
=============================================================================
