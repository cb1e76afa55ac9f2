---------------------------- MODULE TestCommand -----------------------------
(***************************************************************************)
(* `ramenctl test run` and `ramenctl test clean` (pkg/test).               *)
(*                                                                         *)
(* The main goroutine validates the environment, sets it up (run), starts  *)
(* one goroutine per configured test, waits for all of them, collects      *)
(* their steps into the report, gathers data when a test failed, cleans    *)
(* the environment (clean) and returns.  Each test goroutine runs its flow *)
(* of operations until one fails.  Ctrl-C may cancel the context at any    *)
(* time; every operation runs in a context derived from it with a timeout. *)
(***************************************************************************)
EXTENDS Report, FiniteSets

CONSTANTS
  NTests,                 \* the number of tests in the configuration
  Clusters,               \* the clusters data is gathered from
  Profiles                \* the S3 profiles of the ramen configmap

ASSUME NTestsAssumption == NTests \in Nat

Tests == 1..NTests        \* in configuration order

VARIABLES
  command,                \* the command: "test-run" or "test-clean"
  pc,                     \* where the main goroutine is
  canceled,               \* has the command's context been canceled?
  wg,                     \* the WaitGroup counter
  go,                     \* go[t]: where the goroutine of test t is
  test,                   \* test[t]: Status and the statuses of Steps
  current,                \* the "tests" step being built
  report,                 \* the command's report: status and steps
  summary,                \* report.Summary
  apps,                   \* failed tests whose namespaces are gathered
  pending,                \* clusters or profiles without a result yet
  result,                 \* what Run or Clean returned: "none", "nil", "error"
  saved,                  \* the status the report file says, Unset without one
  message                 \* the message of the returned error

vars == <<command, pc, canceled, wg, go, test, current, report, summary, apps, pending,
          result, saved, message>>

mainVars   == <<command, current, report, summary, apps, pending, result, saved, message>>
gatherVars == <<command, canceled, wg, go, test, current, report, summary, result, saved, message>>

(* The operations a test goroutine runs. *)
Flow ==
  IF command = "test-run"
  THEN <<"deploy", "protect", "failover", "relocate", "unprotect", "undeploy">>
  ELSE <<"purge">>

Init ==
  /\ command \in {"test-run", "test-clean"}
  /\ pc = "validate"
  /\ canceled = FALSE
  /\ wg = 0
  /\ go = [t \in Tests |-> "none"]
  /\ test = [t \in Tests |-> [status |-> Passed, steps |-> <<>>]]
  /\ current = NewStep("tests")
  /\ report = [status |-> Unset, items |-> <<>>]
  /\ summary = [s \in Status |-> 0]
  /\ apps = {}
  /\ pending = {}
  /\ result = "none"
  /\ saved = Unset
  /\ message = NoErr

(***************************************************************************)
(* Stages of one operation: validate, setup and cleanup.                   *)
(***************************************************************************)
Stage(name, next) ==
  /\ pc = name
  /\ \E e \in OutcomeOf(canceled) :
       /\ report' = AddStep(report, EndedStep(name, e))
       /\ pc' = IF e = Nil THEN next ELSE "failed"
  /\ UNCHANGED <<command, canceled, wg, go, test, current, summary, apps, pending, result, saved, message>>

Validate == Stage("validate", IF command = "test-run" THEN "setup" ELSE "spawn")
Setup    == Stage("setup", "spawn")
Cleanup  == Stage("cleanup", "passed")

(***************************************************************************)
(* runFlowFunc: start the goroutines, wait for them, collect the tests.    *)
(***************************************************************************)

(* Faulty Spawn: wg.Add is forgotten. *)
SpawnWithoutAdd(t) ==
  /\ pc = "spawn"
  /\ go[t] = "none"
  /\ go' = [go EXCEPT ![t] = "ready"]
  /\ UNCHANGED <<pc, canceled, wg, test>>
  /\ UNCHANGED mainVars

Spawn(t) ==
  /\ pc = "spawn"
  /\ go[t] = "none"
  /\ \A u \in Tests : u < t => go[u] # "none"
  /\ wg' = wg + 1
  /\ go' = [go EXCEPT ![t] = "ready"]
  /\ UNCHANGED <<pc, canceled, test>>
  /\ UNCHANGED mainVars

(* Faulty Wait: wg.Wait is forgotten. *)
DoNotWait ==
  /\ pc = "spawn"
  /\ \A t \in Tests : go[t] # "none"
  /\ pc' = "collect"
  /\ UNCHANGED <<canceled, wg, go, test>>
  /\ UNCHANGED mainVars

Wait ==
  /\ pc = "spawn"
  /\ \A t \in Tests : go[t] # "none"
  /\ wg = 0
  /\ pc' = "collect"
  /\ UNCHANGED <<canceled, wg, go, test>>
  /\ UNCHANGED mainVars

(* The step of a test has no error of its own; StepError(test step) is the *)
(* error of its last operation, announcing that operation's status.        *)
TestStep(t) ==
  [NewStep(t) EXCEPT !.status = test[t].status,
                     !.err    = IF test[t].status = Passed THEN NoErr ELSE test[t].status]

Collect ==
  /\ pc = "collect"
  /\ Len(current.items) < NTests
  /\ current' = AddStep(current, TestStep(Len(current.items) + 1))
  /\ UNCHANGED <<command, pc, canceled, wg, go, test, report, summary, apps, pending, result, saved, message>>

(* Faulty AddTests: the switch of addTest lost its "canceled" case. *)
AddTestsNoCanceled(step) ==
  [s \in Status |-> summary[s] +
     Cardinality({i \in DOMAIN step.items : s # Canceled /\ step.items[i].status = s})]

(* Report.AddStep counts the tests of the "tests" step. *)
AddTests(step) ==
  [s \in Status |->
     summary[s] + Cardinality({i \in DOMAIN step.items : step.items[i].status = s})]

TestsError(status) == IF status \in {Canceled, Failed} THEN status ELSE NoErr

(* Faulty finishStep: whatever did not fail passed. *)
AfterTestsNotFailed(status) ==
  CASE status = Failed -> "gather"
    [] OTHER           -> IF command = "test-run" THEN "passed" ELSE "cleanup"

AfterTests(status) ==
  CASE status = Failed -> "gather"
    [] status = Passed -> IF command = "test-run" THEN "passed" ELSE "cleanup"
    [] OTHER           -> "failed"

(* The "tests" step as finishStep leaves it. *)
FinishedTests ==
  [name |-> current.name, status |-> current.status,
   err |-> TestsError(current.status), items |-> current.items]

FailedTests == {t \in Tests : test[t].status = Failed}

FinishTests ==
  /\ pc = "collect"
  /\ Len(current.items) = NTests
  /\ report' = AddStep(report, FinishedTests)
  /\ summary' = AddTests(current)
  /\ pc' = AfterTests(report'.status)
  /\ apps' = IF pc' = "gather" THEN FailedTests ELSE apps
  /\ pending' = IF pc' = "gather" THEN Clusters ELSE pending
  /\ UNCHANGED <<command, canceled, wg, go, test, current, result, saved, message>>

(***************************************************************************)
(* A test goroutine: the operations of its flow, then wg.Done().           *)
(***************************************************************************)
StartStep(t) ==
  /\ go[t] = "ready"
  /\ test' = [test EXCEPT ![t].steps = Append(@, Unset)]
  /\ go' = [go EXCEPT ![t] = "running"]
  /\ UNCHANGED <<pc, canceled, wg>>
  /\ UNCHANGED mainVars

(* passStep: the flow goes on, or ends after its last operation. *)
PassStep(t) ==
  LET n == Len(test[t].steps)
  IN  /\ test' = [test EXCEPT ![t].steps[n] = Passed]
      /\ go' = [go EXCEPT ![t] = IF n < Len(Flow) THEN "ready" ELSE "finished"]

(* Faulty FailStep: the flow misses a return and goes on. *)
FailStepGoOn(t, e) ==
  LET n == Len(test[t].steps)
  IN  /\ test' = [test EXCEPT ![t].steps[n] = StatusOf(e), ![t].status = StatusOf(e)]
      /\ go' = [go EXCEPT ![t] = IF n < Len(Flow) THEN "ready" ELSE "finished"]

(* failStep: the flow stops. *)
FailStep(t, e) ==
  LET n == Len(test[t].steps)
  IN  /\ test' = [test EXCEPT ![t].steps[n] = StatusOf(e), ![t].status = StatusOf(e)]
      /\ go' = [go EXCEPT ![t] = "finished"]

EndStep(t) ==
  /\ go[t] = "running"
  /\ \E e \in OutcomeOf(canceled) : IF e = Nil THEN PassStep(t) ELSE FailStep(t, e)
  /\ UNCHANGED <<pc, canceled, wg>>
  /\ UNCHANGED mainVars

(* Faulty Done: wg.Done is called only after a flow that passed. *)
DoneIfPassed(t) ==
  /\ go[t] = "finished"
  /\ wg' = IF test[t].status = Passed THEN wg - 1 ELSE wg
  /\ go' = [go EXCEPT ![t] = "done"]
  /\ UNCHANGED <<pc, canceled, test>>
  /\ UNCHANGED mainVars

Done(t) ==
  /\ go[t] = "finished"
  /\ wg' = wg - 1
  /\ go' = [go EXCEPT ![t] = "done"]
  /\ UNCHANGED <<pc, canceled, test>>
  /\ UNCHANGED mainVars

(***************************************************************************)
(* Gathering for failed tests.  Errors are logged and change nothing else. *)
(***************************************************************************)

(* gatherData: one result per cluster, in any order. *)
GatherCluster(c) ==
  /\ pc = "gather"
  /\ c \in pending
  /\ pending' = pending \ {c}
  /\ UNCHANGED <<pc, apps>>
  /\ UNCHANGED gatherVars

GatherEnd ==
  /\ pc = "gather"
  /\ pending = {}
  /\ pc' = "inspect S3"
  /\ UNCHANGED <<apps, pending>>
  /\ UNCHANGED gatherVars

(* gatherS3Data gives up without profiles, or when no failed test has a DRPC. *)
InspectS3 ==
  /\ pc = "inspect S3"
  /\ \/ /\ pc' = "failed"
        /\ UNCHANGED pending
     \/ /\ apps # {}
        /\ Profiles # {}
        /\ pc' = "secrets"
        /\ pending' = Profiles
  /\ UNCHANGED apps
  /\ UNCHANGED gatherVars

(* One GetSecret per profile; only a cancellation stops the loop.  A profile *)
(* whose secret cannot be read is gathered with empty credentials.           *)
GetSecret(p) ==
  /\ pc = "secrets"
  /\ p \in pending
  /\ \E e \in OutcomeOf(canceled) :
       IF e = "canceled"
       THEN /\ pc' = "failed"
            /\ pending' = {}
       ELSE /\ pending' = IF pending = {p} THEN Profiles ELSE pending \ {p}
            /\ pc' = IF pending = {p} THEN "gather S3" ELSE pc
  /\ UNCHANGED apps
  /\ UNCHANGED gatherVars

GatherS3Profile(p) ==
  /\ pc = "gather S3"
  /\ p \in pending
  /\ pending' = pending \ {p}
  /\ UNCHANGED <<pc, apps>>
  /\ UNCHANGED gatherVars

GatherS3End ==
  /\ pc = "gather S3"
  /\ pending = {}
  /\ pc' = "failed"
  /\ UNCHANGED <<apps, pending>>
  /\ UNCHANGED gatherVars

(***************************************************************************)
(* Run and Clean return: the report is written, then nil or an error.  A   *)
(* report that cannot be written is only mentioned on the console.         *)
(***************************************************************************)
WriteReport == saved' \in {Unset, report.status}

ReturnFailed ==
  /\ pc = "failed"
  /\ pc' = "done"
  /\ result' = "error"
  /\ WriteReport
  /\ message' = ReportError(report)
  /\ UNCHANGED <<command, canceled, wg, go, test, current, report, summary, apps, pending>>

ReturnPassed ==
  /\ pc = "passed"
  /\ pc' = "done"
  /\ result' = "nil"
  /\ WriteReport
  /\ UNCHANGED <<command, canceled, wg, go, test, current, report, summary, apps, pending, message>>

(* Ctrl-C: the signal handler cancels the context until the command closes. *)
Interrupt ==
  /\ pc # "done"
  /\ ~canceled
  /\ canceled' = TRUE
  /\ UNCHANGED <<pc, wg, go, test>>
  /\ UNCHANGED mainVars

Main ==
  \/ Validate \/ Setup \/ Cleanup
  \/ (\E t \in Tests : Spawn(t)) \/ Wait \/ Collect \/ FinishTests
  \/ (\E c \in Clusters : GatherCluster(c)) \/ GatherEnd
  \/ InspectS3
  \/ (\E p \in Profiles : GetSecret(p) \/ GatherS3Profile(p)) \/ GatherS3End
  \/ ReturnFailed \/ ReturnPassed

Goroutine(t) == StartStep(t) \/ EndStep(t) \/ Done(t)

Next == Main \/ (\E t \in Tests : Goroutine(t)) \/ Interrupt

(* The program keeps running: the main goroutine and every test goroutine  *)
(* are scheduled, and operations return (they run with a timeout, or are   *)
(* gatherings that end on their own).  Nobody has to press Ctrl-C.         *)
Fairness == WF_vars(Main) /\ (\A t \in Tests : WF_vars(Goroutine(t)))

Spec == Init /\ [][Next]_vars /\ Fairness
(***************************************************************************)
(* Properties.                                                             *)
(***************************************************************************)
Stages == {"validate", "setup", "spawn", "collect", "gather", "inspect S3",
           "secrets", "gather S3", "cleanup", "failed", "passed", "done"}

Gathering == {"gather", "inspect S3", "secrets", "gather S3"}

(* Values the variables range over.  Anchor: the types of Command and Test *)
(* (pkg/test/command.go, test.go).                                         *)
TypeOK ==
  /\ command \in {"test-run", "test-clean"}
  /\ pc \in Stages
  /\ canceled \in BOOLEAN
  /\ wg \in 0..NTests
  /\ go \in [Tests -> {"none", "ready", "running", "finished", "done"}]
  /\ test \in [Tests -> [status : {Passed, Failed, Canceled},
                         steps  : Seq({Unset, Passed, Failed, Canceled})]]
  /\ current.status \in {Unset, Passed, Failed, Canceled}
  /\ Len(current.items) \in 0..NTests
  /\ report.status \in {Unset, Passed, Failed, Canceled}
  /\ summary \in [Status -> 0..NTests]
  /\ apps \in SUBSET Tests
  /\ pending \in SUBSET (Clusters \cup Profiles)
  /\ result \in {"none", "nil", "error"}
  /\ saved \in {Unset, Passed, Failed, Canceled}
  /\ message \in {NoErr, Failed, Canceled}

(* The command answers what happened: Run and Clean return nil only when   *)
(* every test passed all the operations of its flow and the report they    *)
(* wrote passed; otherwise they return an error that is not empty and      *)
(* says, like the report, whether the user canceled or something failed.   *)
(* (command.go Run/Clean: the control flow follows booleans, the report    *)
(* follows AddStep; nothing but this property ties the two.)               *)
AnswerIsTrue ==
  /\ result = "nil" => /\ report.status = Passed
                       /\ \A t \in Tests : test[t] = [status |-> Passed,
                                                      steps  |-> [i \in DOMAIN Flow |-> Passed]]
  /\ result = "error" => report.status = message /\ message # NoErr
  /\ saved # Unset => saved = report.status /\ (saved = Passed <=> result = "nil")

(* What the report says about a test is what happened to it, at any time   *)
(* after it was collected: no goroutine moves a test once the main         *)
(* goroutine reads it (wg.Wait in runFlowFunc orders them).                *)
CollectedIsFinal ==
  /\ \A i \in DOMAIN current.items : current.items[i] = TestStep(i)
  /\ current.status = Verdict({test[i].status : i \in DOMAIN current.items})

(* A test stops at its first operation that does not pass, and its verdict *)
(* is that operation's; it passes only by passing its whole flow.          *)
FlowExplainsVerdict ==
  \A t \in Tests :
    LET steps == test[t].steps
        n     == Len(steps)
    IN  /\ \A i \in 1..(n - 1) : steps[i] = Passed
        /\ n <= Len(Flow)
        /\ go[t] \in {"finished", "done"} =>
             n > 0 /\ steps[n] = test[t].status /\ (steps[n] = Passed => n = Len(Flow))

(* Data is gathered only when no test goroutine runs any more, for a run   *)
(* that failed and in which no test was canceled: Ctrl-C does not gather   *)
(* data for incomplete tests (docs/testing.md, "Canceling tests").         *)
GatherAfterTests ==
  pc \in Gathering =>
    /\ \A t \in Tests : go[t] = "done" /\ test[t].status # Canceled
    /\ apps # {} /\ report.status = Failed
    /\ apps = {t \in Tests : test[t].status # Passed}

(* From the time the tests step is in the report, and in a canceled run as *)
(* well, the summary counts each test once, by the verdict the test has at *)
(* any later time; before, and in a run that gave up, it counts nothing.   *)
(* And the report says the worst verdict that was counted, whatever stages *)
(* follow the tests.  (The summary is counted from the items of the step,  *)
(* the status of the report follows that of the step: Report.AddStep.)     *)
SummaryAccounts ==
  /\ summary = [s \in Status |->
                  IF HasStep(report, "tests")
                  THEN Cardinality({t \in Tests : test[t].status = s})
                  ELSE 0]
  /\ summary[Canceled] > 0 => report.status = Canceled
  /\ summary[Canceled] = 0 /\ summary[Failed] > 0 => report.status = Failed

(* The command always answers, canceled or not. *)
Answers == <>(pc = "done")

(* The promise of TestVerdict: independent verdicts, worst one wins. *)
Promise == INSTANCE TestVerdict WITH
  verdict <- [t \in Tests |-> IF go[t] \in {"finished", "done"} THEN test[t].status ELSE Unset],
  answer  <- IF result = "none" THEN Unset ELSE report.status

KeepsPromise == Promise!TVSpec
=============================================================================
