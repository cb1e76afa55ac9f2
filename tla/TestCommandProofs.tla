------------------------- MODULE TestCommandProofs --------------------------
(***************************************************************************)
(* For any number of tests, clusters and profiles: the answer of           *)
(* `test run` and `test clean` is true, data is gathered only after the    *)
(* tests, and the collected verdicts are final.                            *)
(*                                                                         *)
(* The argument: the WaitGroup counts the live goroutines (WaitInv), so    *)
(* the main goroutine collects only stopped tests (PhaseInv); a goroutine  *)
(* stops with the verdict of its last operation (FlowInv); AddStatus       *)
(* computes the worst verdict in any order (AddStatusIsVerdict).           *)
(***************************************************************************)
EXTENDS TestCommand, FiniteSetTheorems, SequenceTheorems, TLAPS

TestStatus == {Passed, Failed, Canceled}
AnyStatus  == {Unset, Passed, Failed, Canceled}
AnyErr     == {NoErr, Failed, Canceled}
GoState    == {"none", "ready", "running", "finished", "done"}

TestT    == [status : TestStatus, steps : Seq(AnyStatus)]
ItemT    == [name : Tests, status : TestStatus, err : AnyErr, items : {<<>>}]
CurrentT == [name : {"tests"}, status : AnyStatus, err : {NoErr}, items : Seq(ItemT)]
StepName == {"validate", "setup", "tests", "cleanup"}
StepT    == [name : StepName, status : AnyStatus, err : AnyErr, items : Seq(ItemT)]
ReportT  == [status : AnyStatus, items : Seq(StepT)]

(* The types of the variables, records included. *)
TypeInv ==
  /\ command \in {"test-run", "test-clean"}
  /\ pc \in Stages
  /\ canceled \in BOOLEAN
  /\ wg \in Int
  /\ go \in [Tests -> GoState]
  /\ test \in [Tests -> TestT]
  /\ current \in CurrentT
  /\ report \in ReportT
  /\ summary \in [Status -> Nat]
  /\ apps \in SUBSET Tests
  /\ pending \in SUBSET (Clusters \cup Profiles)
  /\ result \in {"none", "nil", "error"}
  /\ saved \in AnyStatus
  /\ message \in AnyErr

(***************************************************************************)
(* Lemmas about the operators of Report.                                   *)
(***************************************************************************)

(* AddStatus folds a set of verdicts into the worst one, whatever the      *)
(* order.  Anchor: the status switch of Step.AddStep (pkg/report).         *)
LEMMA AddStatusIsVerdict ==
  ASSUME NEW S \in SUBSET TestStatus, NEW s \in TestStatus
  PROVE  AddStatus(Verdict(S), s) = Verdict(S \cup {s})
BY DEF AddStatus, Verdict, TestStatus, Passed, Failed, Canceled, Skipped, Unset

(* Appending keeps what a sequence holds and adds one element. *)
LEMMA AppendFacts ==
  ASSUME NEW S, NEW seq \in Seq(S), NEW x \in S
  PROVE  /\ Append(seq, x) \in Seq(S)
         /\ Len(Append(seq, x)) = Len(seq) + 1
         /\ Append(seq, x)[Len(seq) + 1] = x
         /\ \A i \in DOMAIN seq : Append(seq, x)[i] = seq[i]
BY AppendProperties

(* Replacing an element keeps the others. *)
LEMMA ReplaceFacts ==
  ASSUME NEW S, NEW seq \in Seq(S), NEW k, NEW x \in S
  PROVE  /\ [seq EXCEPT ![k] = x] \in Seq(S)
         /\ Len([seq EXCEPT ![k] = x]) = Len(seq)
         /\ k \in 1..Len(seq) => [seq EXCEPT ![k] = x][k] = x
         /\ \A i \in 1..Len(seq) : i # k => [seq EXCEPT ![k] = x][i] = seq[i]
<1>1. CASE k \in 1..Len(seq)
  BY <1>1, ExceptSeq
<1>2. CASE k \notin 1..Len(seq)
  <2>1. DOMAIN seq = 1..Len(seq)
    OBVIOUS
  <2>2. [seq EXCEPT ![k] = x] = [i \in DOMAIN seq |-> seq[i]]
    BY <1>2, <2>1
  <2>3. [seq EXCEPT ![k] = x] = seq
    BY <2>2
  <2>. QED
    BY <1>2, <2>3
<1>. QED
  BY <1>1, <1>2

(* AddStep keeps the type of the report. *)
LEMMA AddStepReport ==
  ASSUME NEW r \in ReportT, NEW s \in StepT
  PROVE  /\ AddStep(r, s) \in ReportT
         /\ AddStep(r, s).status = AddStatus(r.status, s.status)
         /\ AddStep(r, s).items = Append(r.items, s)
<1>. DEFINE st == AddStatus(r.status, s.status)
            it == Append(r.items, s)
<1>1. st \in AnyStatus
  BY DEF ReportT, StepT, AnyStatus, AddStatus, Passed, Failed, Canceled, Skipped, Unset
<1>2. it \in Seq(StepT)
  <2>1. r.items \in Seq(StepT)
    BY DEF ReportT
  <2>. QED
    BY <2>1, AppendFacts
<1>3. AddStep(r, s) = [status |-> st, items |-> it]
  <2>1. r = [status |-> r.status, items |-> r.items]
    BY DEF ReportT
  <2>2. AddStep(r, s) = [[r EXCEPT !.items = it] EXCEPT !.status = st]
    BY DEF AddStep
  <2>. HIDE DEF st, it
  <2>3. [r EXCEPT !.items = it] = [status |-> r.status, items |-> it]
    BY <2>1
  <2>. QED
    BY <2>2, <2>3
<1>. HIDE DEF st, it
<1>4. /\ AddStep(r, s) \in ReportT
      /\ AddStep(r, s).status = st
      /\ AddStep(r, s).items = it
  BY <1>1, <1>2, <1>3 DEF ReportT
<1>. QED
  BY <1>4 DEF st, it

(* AddStep keeps the type of the tests step. *)
LEMMA AddStepCurrent ==
  ASSUME NEW c \in CurrentT, NEW s \in ItemT
  PROVE  /\ AddStep(c, s) \in CurrentT
         /\ AddStep(c, s).status = AddStatus(c.status, s.status)
         /\ AddStep(c, s).items = Append(c.items, s)
<1>. DEFINE st == AddStatus(c.status, s.status)
            it == Append(c.items, s)
<1>1. st \in AnyStatus
  BY DEF CurrentT, ItemT, TestStatus, AnyStatus, AddStatus, Passed, Failed, Canceled, Skipped, Unset
<1>2. it \in Seq(ItemT)
  <2>1. c.items \in Seq(ItemT)
    BY DEF CurrentT
  <2>. QED
    BY <2>1, AppendFacts
<1>3. AddStep(c, s) = [name |-> "tests", status |-> st, err |-> NoErr, items |-> it]
  <2>1. c = [name |-> "tests", status |-> c.status, err |-> NoErr, items |-> c.items]
    BY DEF CurrentT
  <2>2. AddStep(c, s) = [[c EXCEPT !.items = it] EXCEPT !.status = st]
    BY DEF AddStep
  <2>. HIDE DEF st, it
  <2>3. [c EXCEPT !.items = it] = [name |-> "tests", status |-> c.status, err |-> NoErr, items |-> it]
    BY <2>1
  <2>. QED
    BY <2>2, <2>3
<1>. HIDE DEF st, it
<1>4. /\ AddStep(c, s) \in CurrentT
      /\ AddStep(c, s).status = st
      /\ AddStep(c, s).items = it
  BY <1>1, <1>2, <1>3 DEF CurrentT
<1>. QED
  BY <1>4 DEF st, it

(* An ended stage is a step of the report, with an error unless it passed. *)
LEMMA EndedStepType ==
  ASSUME NEW name \in StepName, NEW e \in Outcome
  PROVE  /\ EndedStep(name, e) \in StepT
         /\ EndedStep(name, e).status = StatusOf(e)
         /\ EndedStep(name, e).items = <<>>
         /\ e = Nil => EndedStep(name, e).status = Passed
         /\ e # Nil => /\ EndedStep(name, e).status \in {Failed, Canceled}
                       /\ EndedStep(name, e).err = EndedStep(name, e).status
<1>. DEFINE err == IF e = Nil THEN NoErr ELSE StatusOf(e)
<1>1. /\ e = Nil => StatusOf(e) = Passed
      /\ e # Nil => StatusOf(e) \in {Failed, Canceled}
  BY DEF StatusOf, Outcome, Nil
<1>2. StatusOf(e) \in AnyStatus /\ err \in AnyErr
  BY <1>1 DEF AnyStatus, AnyErr
<1>3. EndedStep(name, e) = [name |-> name, status |-> StatusOf(e), err |-> err, items |-> <<>>]
  BY DEF EndedStep
<1>4. <<>> \in Seq(ItemT)
  OBVIOUS
<1>5. EndedStep(name, e) \in StepT
  <2>. HIDE DEF err
  <2>. QED
    BY <1>2, <1>3, <1>4 DEF StepT
<1>. QED
  BY <1>1, <1>3, <1>5

LEMMA TestStepType ==
  ASSUME TypeInv, NEW t \in Tests
  PROVE  TestStep(t) \in ItemT /\ TestStep(t).status = test[t].status
BY DEF TypeInv, TestStep, NewStep, ItemT, TestT, TestStatus, AnyErr,
       NoErr, Passed, Failed, Canceled, Unset

LEMMA ReportErrorType ==
  ASSUME NEW r \in ReportT
  PROVE  ReportError(r) \in AnyErr
<1>1. CASE r.items = <<>>
  BY <1>1 DEF ReportError, AnyErr
<1>2. CASE r.items # <<>>
  <2>. DEFINE step == r.items[Len(r.items)]
  <2>1. step \in StepT
    BY <1>2 DEF ReportT
  <2>2. step.err \in AnyErr /\ step.items \in Seq(ItemT)
    BY <2>1 DEF StepT
  <2>3. step.items # <<>> => step.items[Len(step.items)] \in ItemT
    BY <2>2
  <2>4. StepError(step) \in AnyErr
    BY <2>2, <2>3 DEF StepError, ItemT, AnyErr
  <2>. QED
    BY <1>2, <2>4 DEF ReportError
<1>. QED
  BY <1>1, <1>2

(* The tests step, finished, is a step of the report. *)
LEMMA FinishedTestsType ==
  ASSUME TypeInv
  PROVE  /\ FinishedTests \in StepT
         /\ FinishedTests.status = current.status
         /\ FinishedTests.err = TestsError(current.status)
<1>1. TestsError(current.status) \in AnyErr
  BY DEF TestsError, AnyErr
<1>2. current.name \in StepName /\ current.status \in AnyStatus /\ current.items \in Seq(ItemT)
  BY DEF TypeInv, CurrentT, StepName
<1>. QED
  BY <1>1, <1>2 DEF FinishedTests, StepT

(***************************************************************************)
(* The types of the variables.                                             *)
(***************************************************************************)
LEMMA TypeInit == Init => TypeInv
<1>. SUFFICES ASSUME Init PROVE TypeInv
  OBVIOUS
<1>1. current \in CurrentT
  <2>1. <<>> \in Seq(ItemT) /\ Unset \in AnyStatus
    BY DEF AnyStatus
  <2>2. current = [name |-> "tests", status |-> Unset, err |-> NoErr, items |-> <<>>]
    BY DEF Init, NewStep
  <2>. QED
    BY <2>1, <2>2 DEF CurrentT
<1>2. report \in ReportT
  BY DEF Init, ReportT, AnyStatus
<1>3. test \in [Tests -> TestT]
  BY DEF Init, TestT, TestStatus
<1>4. go \in [Tests -> GoState] /\ summary \in [Status -> Nat]
  BY DEF Init, GoState
<1>5. canceled \in BOOLEAN
  BY DEF Init
<1>6. /\ command \in {"test-run", "test-clean"} /\ pc \in Stages /\ wg \in Int
      /\ apps \in SUBSET Tests /\ pending \in SUBSET (Clusters \cup Profiles)
  BY DEF Init, Stages
<1>7. result \in {"none", "nil", "error"} /\ saved \in AnyStatus /\ message \in AnyErr
  BY DEF Init, AnyStatus, AnyErr
<1>. QED
  BY <1>1, <1>2, <1>3, <1>4, <1>5, <1>6, <1>7 DEF TypeInv

LEMMA StageType ==
  ASSUME TypeInv, NEW name \in StepName, NEW next \in Stages, Stage(name, next)
  PROVE  TypeInv'
<1>1. PICK e \in Outcome : report' = AddStep(report, EndedStep(name, e))
                          /\ pc' = IF e = Nil THEN next ELSE "failed"
  BY DEF Stage, OutcomeOf
<1>2. report' \in ReportT
  BY <1>1, EndedStepType, AddStepReport DEF TypeInv
<1>3. pc' \in Stages
  BY <1>1 DEF Stages
<1>. QED
  BY <1>2, <1>3 DEF Stage, TypeInv

LEMMA TestsCountType ==
  ASSUME TypeInv
  PROVE  AddTests(current) \in [Status -> Nat]
<1>. DEFINE C(s) == {i \in DOMAIN current.items : current.items[i].status = s}
<1>1. ASSUME NEW s \in Status
      PROVE  summary[s] + Cardinality(C(s)) \in Nat
  <2>1. current.items \in Seq(ItemT)
    BY DEF TypeInv, CurrentT
  <2>2. IsFiniteSet(1..Len(current.items))
    BY <2>1, FS_Interval
  <2>3. IsFiniteSet(C(s))
    BY <2>1, <2>2, FS_Subset
  <2>. QED
    BY <2>3, FS_CardinalityType DEF TypeInv
<1>. QED
  BY <1>1 DEF AddTests

LEMMA TypeStep == TypeInv /\ [Next]_vars => TypeInv'
<1>. SUFFICES ASSUME TypeInv, [Next]_vars PROVE TypeInv'
  OBVIOUS
<1>. USE DEF TypeInv
<1>1. CASE Validate \/ Setup \/ Cleanup
  <2>1. /\ {"validate", "setup", "cleanup"} \subseteq StepName
        /\ {"setup", "spawn", "passed"} \subseteq Stages
    BY DEF StepName, Stages
  <2>2. CASE Validate
    <3>1. (IF command = "test-run" THEN "setup" ELSE "spawn") \in Stages
      BY <2>1
    <3>. QED
      BY <2>1, <2>2, <3>1, StageType DEF Validate
  <2>3. CASE Setup
    BY <2>1, <2>3, StageType DEF Setup
  <2>4. CASE Cleanup
    BY <2>1, <2>4, StageType DEF Cleanup
  <2>. QED
    BY <1>1, <2>2, <2>3, <2>4
<1>2. ASSUME NEW t \in Tests, Spawn(t) PROVE TypeInv'
  BY <1>2 DEF Spawn, mainVars, GoState
<1>3. CASE Wait
  BY <1>3 DEF Wait, mainVars, Stages
<1>4. CASE Collect
  <2>1. Len(current.items) + 1 \in Tests
    BY <1>4, NTestsAssumption DEF Collect, Tests, CurrentT
  <2>2. current' \in CurrentT
    BY <1>4, <2>1, TestStepType, AddStepCurrent DEF Collect
  <2>. QED
    BY <1>4, <2>2 DEF Collect
<1>5. CASE FinishTests
  <2>1. report' \in ReportT
    BY <1>5, FinishedTestsType, AddStepReport DEF FinishTests
  <2>2. summary' \in [Status -> Nat]
    BY <1>5, TestsCountType DEF FinishTests
  <2>3. pc' \in Stages
    BY <1>5 DEF FinishTests, AfterTests, Stages
  <2>4. apps' \in SUBSET Tests /\ pending' \in SUBSET (Clusters \cup Profiles)
    BY <1>5 DEF FinishTests, FailedTests
  <2>. QED
    BY <1>5, <2>1, <2>2, <2>3, <2>4 DEF FinishTests
<1>6. ASSUME NEW t \in Tests, StartStep(t) PROVE TypeInv'
  <2>. DEFINE new == [test[t] EXCEPT !.steps = Append(@, Unset)]
  <2>1. new \in TestT
    <3>1. test[t] \in TestT /\ test[t].steps \in Seq(AnyStatus) /\ Unset \in AnyStatus
      BY DEF TestT, AnyStatus
    <3>2. Append(test[t].steps, Unset) \in Seq(AnyStatus)
      BY <3>1, AppendFacts
    <3>. QED
      BY <3>1, <3>2 DEF TestT
  <2>2. test' = [test EXCEPT ![t] = new]
    BY <1>6 DEF StartStep
  <2>3. test' \in [Tests -> TestT]
    <3>. HIDE DEF new
    <3>. QED
      BY <2>1, <2>2
  <2>. QED
    BY <1>6, <2>3 DEF StartStep, mainVars, GoState
<1>7. ASSUME NEW t \in Tests, EndStep(t) PROVE TypeInv'
  <2>1. PICK e \in Outcome : IF e = Nil THEN PassStep(t) ELSE FailStep(t, e)
    BY <1>7 DEF EndStep, OutcomeOf
  <2>2. e # Nil => StatusOf(e) \in {Failed, Canceled}
    BY DEF StatusOf, Outcome, Nil
  <2>. DEFINE n == Len(test[t].steps)
              new(st, v) == [status |-> st, steps |-> [test[t].steps EXCEPT ![n] = v]]
  <2>3. ASSUME NEW st \in TestStatus, NEW v \in TestStatus
        PROVE  [test EXCEPT ![t] = new(st, v)] \in [Tests -> TestT]
    <3>1. test[t].steps \in Seq(AnyStatus) /\ v \in AnyStatus
      BY DEF TestT, AnyStatus, TestStatus
    <3>2. new(st, v) \in TestT
      BY <3>1, ReplaceFacts DEF TestT
    <3>. QED
      BY <3>2
  <2>4. CASE e = Nil
    <3>1. test' = [test EXCEPT ![t] = new(test[t].status, Passed)]
      BY <2>1, <2>4 DEF PassStep, TestT
    <3>. QED
      BY <1>7, <2>1, <2>3, <2>4, <3>1 DEF EndStep, PassStep, mainVars, GoState, TestT, TestStatus
  <2>5. CASE e # Nil
    <3>1. test' = [test EXCEPT ![t] = new(StatusOf(e), StatusOf(e))]
      BY <2>1, <2>5 DEF FailStep, TestT
    <3>. QED
      BY <1>7, <2>1, <2>2, <2>3, <2>5, <3>1 DEF EndStep, FailStep, mainVars, GoState, TestStatus
  <2>. QED
    BY <2>4, <2>5
<1>8. ASSUME NEW t \in Tests, Done(t) PROVE TypeInv'
  BY <1>8 DEF Done, mainVars, GoState
<1>9. CASE \/ \E c \in Clusters : GatherCluster(c)
           \/ \E p \in Profiles : GetSecret(p) \/ GatherS3Profile(p)
           \/ GatherEnd \/ InspectS3 \/ GatherS3End
  BY <1>9 DEF GatherCluster, GetSecret, GatherS3Profile, GatherEnd, InspectS3, GatherS3End,
              gatherVars, Stages
<1>10. CASE ReturnFailed
  BY <1>10, ReportErrorType DEF ReturnFailed, WriteReport, Stages, ReportT, AnyStatus
<1>11. CASE ReturnPassed
  BY <1>11 DEF ReturnPassed, WriteReport, Stages, ReportT, AnyStatus
<1>12. CASE Interrupt
  BY <1>12 DEF Interrupt, mainVars
<1>13. CASE UNCHANGED vars
  BY <1>13 DEF vars
<1>. QED
  BY <1>1, <1>2, <1>3, <1>4, <1>5, <1>6, <1>7, <1>8, <1>9, <1>10, <1>11, <1>12, <1>13
     DEF Next, Main, Goroutine

(* Every variable keeps its type, for any number of tests, clusters and    *)
(* profiles.  Anchor: Command (pkg/test/command.go) and the report.        *)
THEOREM TypesHold == Spec => []TypeInv
BY TypeInit, TypeStep, PTL DEF Spec

(***************************************************************************)
(* A goroutine runs its flow up to the first operation that does not pass. *)
(***************************************************************************)
Stopped == {"finished", "done"}

FlowOf(t) ==
  LET steps == test[t].steps
      n     == Len(steps)
  IN  /\ n <= Len(Flow)
      /\ \A i \in 1..(n - 1) : steps[i] = Passed
      /\ go[t] = "none" => n = 0
      /\ go[t] = "ready" => n < Len(Flow) /\ (n > 0 => steps[n] = Passed)
      /\ go[t] = "running" => n > 0
      /\ go[t] \notin Stopped => test[t].status = Passed
      /\ go[t] \in Stopped =>
           n > 0 /\ steps[n] = test[t].status /\ (steps[n] = Passed => n = Len(Flow))

FlowInv == \A t \in Tests : FlowOf(t)

LEMMA FlowLength == Len(Flow) \in Nat \ {0} /\ DOMAIN Flow = 1..Len(Flow)
<1>1. CASE command = "test-run"
  <2>1. Flow = <<"deploy", "protect", "failover", "relocate", "unprotect", "undeploy">>
    BY <1>1 DEF Flow
  <2>. QED
    BY <2>1
<1>2. CASE command # "test-run"
  <2>1. Flow = <<"purge">>
    BY <1>2 DEF Flow
  <2>. QED
    BY <2>1
<1>. QED
  BY <1>1, <1>2

(* What the steps of the other actors leave alone. *)
flowVars == <<command, go, test>>

LEMMA FlowInit == Init => FlowInv
BY FlowLength DEF Init, FlowInv, FlowOf, Stopped

LEMMA FlowStutter ==
  ASSUME FlowInv, UNCHANGED flowVars
  PROVE  FlowInv'
BY DEF FlowInv, FlowOf, Flow, flowVars

LEMMA FlowStep == TypeInv /\ FlowInv /\ [Next]_vars => FlowInv'
<1>. SUFFICES ASSUME TypeInv, FlowInv, [Next]_vars PROVE FlowInv'
  OBVIOUS
<1>1. CASE \/ Validate \/ Setup \/ Cleanup \/ Wait \/ Collect \/ FinishTests
           \/ \E c \in Clusters : GatherCluster(c)
           \/ \E p \in Profiles : GetSecret(p) \/ GatherS3Profile(p)
           \/ GatherEnd \/ InspectS3 \/ GatherS3End \/ ReturnFailed \/ ReturnPassed
  <2>1. UNCHANGED flowVars
    BY <1>1 DEF Validate, Setup, Cleanup, Stage, Wait, Collect, FinishTests, GatherCluster,
       GetSecret, GatherS3Profile, GatherEnd, InspectS3, GatherS3End, ReturnFailed,
       ReturnPassed, mainVars, gatherVars, flowVars
  <2>. QED
    BY <2>1, FlowStutter
<1>2. ASSUME NEW t \in Tests, Spawn(t) PROVE FlowInv'
  <2>1. go' = [go EXCEPT ![t] = "ready"] /\ UNCHANGED <<command, test>> /\ go[t] = "none"
    BY <1>2 DEF Spawn, mainVars
  <2>2. Flow' = Flow
    BY <2>1 DEF Flow
  <2>3. FlowOf(t)'
    BY <2>1, <2>2, FlowLength DEF FlowInv, FlowOf, TypeInv, Stopped
  <2>4. ASSUME NEW u \in Tests \ {t} PROVE FlowOf(u)'
    BY <2>1, <2>2 DEF FlowInv, FlowOf, TypeInv
  <2>. QED
    BY <2>3, <2>4 DEF FlowInv
<1>3. ASSUME NEW t \in Tests, StartStep(t) PROVE FlowInv'
  <2>1. /\ go[t] = "ready" /\ go' = [go EXCEPT ![t] = "running"]
        /\ test' = [test EXCEPT ![t].steps = Append(@, Unset)]
        /\ UNCHANGED command
    BY <1>3 DEF StartStep, mainVars
  <2>2. Flow' = Flow
    BY <2>1 DEF Flow
  <2>3. FlowOf(t)'
    <3>1. test[t].steps \in Seq(AnyStatus) /\ Unset \in AnyStatus
      BY DEF TypeInv, TestT, AnyStatus
    <3>2. test'[t].status = test[t].status /\ test'[t].steps = Append(test[t].steps, Unset)
      BY <2>1 DEF TypeInv, TestT
    <3>3. go'[t] = "running"
      BY <2>1 DEF TypeInv
    <3>4. FlowOf(t)
      BY DEF FlowInv
    <3>. QED
      BY <2>1, <2>2, <3>1, <3>2, <3>3, <3>4, AppendFacts DEF FlowOf, Stopped
  <2>4. ASSUME NEW u \in Tests \ {t} PROVE FlowOf(u)'
    BY <2>1, <2>2 DEF FlowInv, FlowOf, TypeInv
  <2>. QED
    BY <2>3, <2>4 DEF FlowInv
<1>4. ASSUME NEW t \in Tests, EndStep(t) PROVE FlowInv'
  <2>. DEFINE n == Len(test[t].steps)
  <2>1. PICK e \in Outcome : IF e = Nil THEN PassStep(t) ELSE FailStep(t, e)
    BY <1>4 DEF EndStep, OutcomeOf
  <2>2. go[t] = "running" /\ UNCHANGED command
    BY <1>4 DEF EndStep, mainVars
  <2>3. Flow' = Flow
    BY <2>2 DEF Flow
  <2>4. test[t].steps \in Seq(AnyStatus) /\ n \in 1..Len(test[t].steps)
    BY <2>2 DEF TypeInv, TestT, FlowInv, FlowOf
  <2>5. e # Nil => StatusOf(e) \in {Failed, Canceled}
    BY DEF StatusOf, Outcome, Nil
  <2>6. FlowOf(t)
    BY DEF FlowInv
  <2>7. CASE e = Nil
    <3>1. test'[t] = [status |-> test[t].status, steps |-> [test[t].steps EXCEPT ![n] = Passed]]
      BY <2>1, <2>7 DEF PassStep, TypeInv, TestT
    <3>2. go'[t] = IF n < Len(Flow) THEN "ready" ELSE "finished"
      BY <2>1, <2>7 DEF PassStep, TypeInv
    <3>3. Passed \in AnyStatus
      BY DEF AnyStatus
    <3>4. FlowOf(t)'
      BY <2>2, <2>3, <2>4, <2>6, <3>1, <3>2, <3>3, FlowLength, ReplaceFacts DEF FlowOf, Stopped
    <3>5. ASSUME NEW u \in Tests \ {t} PROVE FlowOf(u)'
      BY <2>1, <2>3, <2>7 DEF PassStep, FlowInv, FlowOf, TypeInv
    <3>. QED
      BY <3>4, <3>5 DEF FlowInv
  <2>8. CASE e # Nil
    <3>1. test'[t] = [status |-> StatusOf(e), steps |-> [test[t].steps EXCEPT ![n] = StatusOf(e)]]
      BY <2>1, <2>8 DEF FailStep, TypeInv, TestT
    <3>2. go'[t] = "finished"
      BY <2>1, <2>8 DEF FailStep, TypeInv
    <3>3. StatusOf(e) \in AnyStatus /\ StatusOf(e) # Passed
      BY <2>5, <2>8 DEF AnyStatus, Passed, Failed, Canceled
    <3>4. FlowOf(t)'
      BY <2>2, <2>3, <2>4, <2>6, <3>1, <3>2, <3>3, ReplaceFacts DEF FlowOf, Stopped
    <3>5. ASSUME NEW u \in Tests \ {t} PROVE FlowOf(u)'
      BY <2>1, <2>3, <2>8 DEF FailStep, FlowInv, FlowOf, TypeInv
    <3>. QED
      BY <3>4, <3>5 DEF FlowInv
  <2>. QED
    BY <2>7, <2>8
<1>5. ASSUME NEW t \in Tests, Done(t) PROVE FlowInv'
  <2>1. go[t] = "finished" /\ go' = [go EXCEPT ![t] = "done"] /\ UNCHANGED <<command, test>>
    BY <1>5 DEF Done, mainVars
  <2>2. Flow' = Flow
    BY <2>1 DEF Flow
  <2>3. ASSUME NEW u \in Tests PROVE FlowOf(u)'
    BY <2>1, <2>2 DEF FlowInv, FlowOf, TypeInv, Stopped
  <2>. QED
    BY <2>3 DEF FlowInv
<1>6. CASE Interrupt \/ UNCHANGED vars
  BY <1>6, FlowStutter DEF Interrupt, vars, mainVars, flowVars
<1>. QED
  BY <1>1, <1>2, <1>3, <1>4, <1>5, <1>6 DEF Next, Main, Goroutine

(* A test stops at its first operation that does not pass, with that       *)
(* operation's verdict.  Anchor: runFlowFunc's goroutines                  *)
(* (pkg/test/command.go) and Test.failStep, passStep (pkg/test/test.go).   *)
THEOREM FlowExplains == Spec => []FlowExplainsVerdict
<1>1. FlowInv => FlowExplainsVerdict
  BY DEF FlowInv, FlowOf, FlowExplainsVerdict, Stopped
<1>. QED
  BY <1>1, TypesHold, FlowInit, FlowStep, PTL DEF Spec

(***************************************************************************)
(* The WaitGroup counts the live goroutines.                               *)
(***************************************************************************)
Live == {t \in Tests : go[t] \in {"ready", "running", "finished"}}

WaitInv == wg = Cardinality(Live)

LEMMA LiveFinite == IsFiniteSet(Live) /\ Cardinality(Live) \in 0..NTests
<1>1. IsFiniteSet(Tests) /\ Cardinality(Tests) = NTests
  BY NTestsAssumption, FS_Interval DEF Tests
<1>. QED
  BY <1>1, NTestsAssumption, FS_Subset, FS_CardinalityType DEF Live

LEMMA WaitInit == Init => WaitInv
<1>. SUFFICES ASSUME Init PROVE WaitInv
  OBVIOUS
<1>1. Live = {} /\ wg = 0
  BY DEF Init, Live
<1>. QED
  BY <1>1, FS_EmptySet DEF WaitInv

LEMMA WaitStutter ==
  ASSUME WaitInv, Live' = Live, wg' = wg
  PROVE  WaitInv'
BY DEF WaitInv

LEMMA WaitStep == TypeInv /\ WaitInv /\ [Next]_vars => WaitInv'
<1>. SUFFICES ASSUME TypeInv, WaitInv, [Next]_vars PROVE WaitInv'
  OBVIOUS
<1>1. CASE \/ Validate \/ Setup \/ Cleanup \/ Wait \/ Collect \/ FinishTests
           \/ \E c \in Clusters : GatherCluster(c)
           \/ \E p \in Profiles : GetSecret(p) \/ GatherS3Profile(p)
           \/ GatherEnd \/ InspectS3 \/ GatherS3End \/ ReturnFailed \/ ReturnPassed
           \/ Interrupt \/ UNCHANGED vars
  <2>1. UNCHANGED <<wg, go>>
    BY <1>1 DEF Validate, Setup, Cleanup, Stage, Wait, Collect, FinishTests, GatherCluster,
       GetSecret, GatherS3Profile, GatherEnd, InspectS3, GatherS3End, ReturnFailed,
       ReturnPassed, Interrupt, mainVars, gatherVars, vars
  <2>. QED
    BY <2>1, WaitStutter DEF Live
<1>2. ASSUME NEW t \in Tests, Spawn(t) PROVE WaitInv'
  <2>1. Live' = Live \cup {t} /\ t \notin Live /\ wg' = wg + 1
    BY <1>2 DEF Spawn, Live, TypeInv
  <2>. QED
    BY <2>1, LiveFinite, FS_AddElement DEF WaitInv
<1>3. ASSUME NEW t \in Tests, StartStep(t) PROVE WaitInv'
  <2>1. Live' = Live /\ wg' = wg
    BY <1>3 DEF StartStep, Live, TypeInv
  <2>. QED
    BY <2>1, WaitStutter
<1>4. ASSUME NEW t \in Tests, EndStep(t) PROVE WaitInv'
  <2>1. wg' = wg /\ go[t] = "running"
    BY <1>4 DEF EndStep
  <2>2. \E g \in {"ready", "finished"} : go' = [go EXCEPT ![t] = g]
    BY <1>4 DEF EndStep, PassStep, FailStep
  <2>3. Live' = Live
    BY <2>1, <2>2 DEF Live, TypeInv
  <2>. QED
    BY <2>1, <2>3, WaitStutter
<1>5. ASSUME NEW t \in Tests, Done(t) PROVE WaitInv'
  <2>1. Live' = Live \ {t} /\ t \in Live /\ wg' = wg - 1
    BY <1>5 DEF Done, Live, TypeInv
  <2>. QED
    BY <2>1, LiveFinite, FS_RemoveElement DEF WaitInv
<1>. QED
  BY <1>1, <1>2, <1>3, <1>4, <1>5 DEF Next, Main, Goroutine

(***************************************************************************)
(* The main goroutine leaves the test goroutines behind only when all of   *)
(* them stopped for good.                                                  *)
(***************************************************************************)
NotStarted == \A t \in Tests : go[t] = "none"
AllDone    == \A t \in Tests : go[t] = "done"

AfterWait == {"collect", "cleanup", "passed"} \cup Gathering

PhaseInv ==
  /\ pc \in {"validate", "setup"} => NotStarted
  /\ pc \in AfterWait => AllDone
  /\ pc \in {"failed", "done"} => NotStarted \/ AllDone

LEMMA PhaseInit == Init => PhaseInv
BY DEF Init, PhaseInv, NotStarted, AfterWait, Gathering

LEMMA PhaseStep == TypeInv /\ WaitInv /\ PhaseInv /\ [Next]_vars => PhaseInv'
<1>. SUFFICES ASSUME TypeInv, WaitInv, PhaseInv, [Next]_vars PROVE PhaseInv'
  OBVIOUS
<1>. USE DEF PhaseInv, NotStarted, AllDone, AfterWait, Gathering
<1>1. CASE Validate \/ Setup
  BY <1>1 DEF Validate, Setup, Stage
<1>2. CASE Cleanup
  BY <1>2 DEF Cleanup, Stage
<1>3. CASE Wait
  <2>1. Live = {}
    BY <1>3, LiveFinite, FS_EmptySet DEF Wait, WaitInv
  <2>2. AllDone
    BY <1>3, <2>1 DEF Wait, Live, TypeInv, GoState
  <2>. QED
    BY <1>3, <2>2 DEF Wait
<1>4. CASE Collect
  BY <1>4 DEF Collect
<1>5. CASE FinishTests
  BY <1>5 DEF FinishTests, AfterTests
<1>6. CASE \/ \E c \in Clusters : GatherCluster(c)
           \/ \E p \in Profiles : GetSecret(p) \/ GatherS3Profile(p)
           \/ GatherEnd \/ InspectS3 \/ GatherS3End
  BY <1>6 DEF GatherCluster, GetSecret, GatherS3Profile, GatherEnd, InspectS3, GatherS3End,
              gatherVars
<1>7. CASE ReturnFailed \/ ReturnPassed
  BY <1>7 DEF ReturnFailed, ReturnPassed
<1>8. ASSUME NEW t \in Tests, Spawn(t) PROVE PhaseInv'
  BY <1>8 DEF Spawn
<1>9. ASSUME NEW t \in Tests, Goroutine(t) PROVE PhaseInv'
  <2>1. go[t] \notin {"none", "done"} /\ pc' = pc
    BY <1>9 DEF Goroutine, StartStep, EndStep, Done
  <2>. QED
    BY <2>1
<1>10. CASE Interrupt \/ UNCHANGED vars
  BY <1>10 DEF Interrupt, vars
<1>. QED
  BY <1>1, <1>2, <1>3, <1>4, <1>5, <1>6, <1>7, <1>8, <1>9, <1>10 DEF Next, Main

(***************************************************************************)
(* The tests step holds the final verdicts of the tests collected so far.  *)
(***************************************************************************)
Collected == 1..Len(current.items)

CollectInv ==
  /\ pc \in {"validate", "setup", "spawn"} => current.items = <<>>
  /\ pc \in {"cleanup", "passed"} \cup Gathering => Len(current.items) = NTests
  /\ Len(current.items) <= NTests
  /\ current.items # <<>> => AllDone
  /\ \A i \in Collected : current.items[i] = TestStep(i)
  /\ current.status = Verdict({test[i].status : i \in Collected})

LEMMA CollectInit == Init => CollectInv
<1>. SUFFICES ASSUME Init PROVE CollectInv
  OBVIOUS
<1>1. current.items = <<>> /\ current.status = Unset /\ pc = "validate"
  BY DEF Init, NewStep
<1>2. Collected = {}
  BY <1>1 DEF Collected
<1>3. Verdict({test[i].status : i \in Collected}) = Unset
  BY <1>2 DEF Verdict
<1>. QED
  BY <1>1, <1>2, <1>3, NTestsAssumption DEF CollectInv, Gathering

(* Nobody but Collect moves the tests step, and no collected test moves.   *)
LEMMA CollectKept ==
  ASSUME TypeInv, CollectInv, current' = current,
         test' = test \/ ~AllDone,
         AllDone => AllDone',
         pc' \in {"validate", "setup", "spawn"} => pc \in {"validate", "setup", "spawn"},
         pc' \in {"cleanup", "passed"} \cup Gathering => Len(current.items) = NTests
  PROVE  CollectInv'
<1>1. CASE current.items = <<>>
  <2>1. Collected = {} /\ Collected' = {}
    BY <1>1 DEF Collected
  <2>2. {test[i].status : i \in Collected} = {test'[i].status : i \in Collected'}
    BY <2>1
  <2>. QED
    BY <1>1, <2>1, <2>2 DEF CollectInv
<1>2. CASE current.items # <<>>
  <2>1. test' = test /\ AllDone' /\ Collected' = Collected
    BY <1>2 DEF CollectInv, Collected
  <2>2. \A i : TestStep(i)' = TestStep(i)
    BY <2>1 DEF TestStep
  <2>. QED
    BY <2>1, <2>2 DEF CollectInv
<1>. QED
  BY <1>1, <1>2

LEMMA CollectStep == TypeInv /\ PhaseInv /\ CollectInv /\ [Next]_vars => CollectInv'
<1>. SUFFICES ASSUME TypeInv, PhaseInv, CollectInv, [Next]_vars PROVE CollectInv'
  OBVIOUS
<1>1. CASE Validate \/ Setup \/ Cleanup
  <2>1. /\ pc \in {"validate", "setup", "cleanup"} /\ UNCHANGED <<current, test, go>>
        /\ pc = "cleanup" => pc' \in {"passed", "failed"}
        /\ pc # "cleanup" => pc' \in {"setup", "spawn", "failed"}
    BY <1>1 DEF Validate, Setup, Cleanup, Stage
  <2>. QED
    BY <2>1, CollectKept DEF AllDone, Gathering, CollectInv
<1>2. ASSUME NEW t \in Tests, Spawn(t) PROVE CollectInv'
  <2>1. UNCHANGED <<pc, current, test>> /\ ~AllDone /\ pc = "spawn"
    BY <1>2 DEF Spawn, mainVars, AllDone
  <2>. QED
    BY <2>1, CollectKept DEF Gathering
<1>3. CASE Wait
  <2>1. UNCHANGED <<current, test, go>> /\ pc' = "collect"
    BY <1>3 DEF Wait, mainVars
  <2>. QED
    BY <2>1, CollectKept DEF AllDone, Gathering
<1>4. CASE Collect
  <2>. DEFINE k == Len(current.items) + 1
  <2>1. /\ pc = "collect" /\ UNCHANGED <<pc, go, test>> /\ AllDone
        /\ current' = AddStep(current, TestStep(k))
    BY <1>4 DEF Collect, PhaseInv, AfterWait
  <2>2. k \in Tests
    BY <1>4, NTestsAssumption DEF Collect, Tests, TypeInv, CurrentT
  <2>3. TestStep(k) \in ItemT /\ TestStep(k).status = test[k].status
    BY <2>2, TestStepType
  <2>4. /\ current'.items = Append(current.items, TestStep(k))
        /\ current'.status = AddStatus(current.status, test[k].status)
    BY <2>1, <2>3, AddStepCurrent DEF TypeInv
  <2>5. current.items \in Seq(ItemT)
    BY DEF TypeInv, CurrentT
  <2>6. /\ Len(current'.items) = k
        /\ current'.items[k] = TestStep(k)
        /\ \A i \in Collected : current'.items[i] = current.items[i]
    BY <2>3, <2>4, <2>5, AppendFacts DEF Collected
  <2>7. Collected' = Collected \cup {k}
    BY <2>5, <2>6 DEF Collected
  <2>8. {test[i].status : i \in Collected} \cup {test[k].status}
          = {test[i].status : i \in Collected'}
    BY <2>7
  <2>9. current'.status = Verdict({test[i].status : i \in Collected'})
    <3>1. Collected \subseteq Tests
      BY <2>2, <2>5, NTestsAssumption DEF Collected, Tests
    <3>2. {test[i].status : i \in Collected} \in SUBSET TestStatus /\ test[k].status \in TestStatus
      BY <2>2, <3>1 DEF TypeInv, TestT
    <3>. QED
      BY <2>4, <2>8, <3>2, AddStatusIsVerdict DEF CollectInv
  <2>10. \A i \in Collected' : current'.items[i] = TestStep(i)
    BY <2>6, <2>7 DEF CollectInv
  <2>11. \A i : TestStep(i)' = TestStep(i)
    BY <2>1 DEF TestStep
  <2>12. AllDone' /\ k <= NTests /\ pc' = "collect"
    BY <2>1, <2>2, NTestsAssumption DEF AllDone, Tests
  <2>. QED
    BY <2>1, <2>6, <2>9, <2>10, <2>11, <2>12 DEF CollectInv, Gathering
<1>5. CASE FinishTests
  <2>1. /\ UNCHANGED <<current, test, go>> /\ Len(current.items) = NTests
        /\ pc' \in {"gather", "passed", "cleanup", "failed"}
    BY <1>5 DEF FinishTests, AfterTests
  <2>. QED
    BY <2>1, CollectKept DEF AllDone
<1>6. CASE \/ \E c \in Clusters : GatherCluster(c)
           \/ \E p \in Profiles : GetSecret(p) \/ GatherS3Profile(p)
           \/ GatherEnd \/ InspectS3 \/ GatherS3End
  <2>1. UNCHANGED <<current, test, go>> /\ pc \in Gathering /\ pc' \in Gathering \cup {"failed"}
    BY <1>6 DEF GatherCluster, GetSecret, GatherS3Profile, GatherEnd, InspectS3, GatherS3End,
                gatherVars, Gathering
  <2>. QED
    BY <2>1, CollectKept DEF AllDone, CollectInv, Gathering
<1>7. CASE ReturnFailed \/ ReturnPassed
  <2>1. UNCHANGED <<current, test, go>> /\ pc' = "done"
    BY <1>7 DEF ReturnFailed, ReturnPassed
  <2>. QED
    BY <2>1, CollectKept DEF AllDone, Gathering
<1>8. ASSUME NEW t \in Tests, Goroutine(t) PROVE CollectInv'
  <2>1. UNCHANGED <<pc, current>> /\ ~AllDone
    BY <1>8 DEF Goroutine, StartStep, EndStep, Done, mainVars, AllDone
  <2>. QED
    BY <2>1, CollectKept DEF CollectInv
<1>9. CASE Interrupt \/ UNCHANGED vars
  <2>1. UNCHANGED <<pc, current, test, go>>
    BY <1>9 DEF Interrupt, vars, mainVars
  <2>. QED
    BY <2>1, CollectKept DEF AllDone, CollectInv
<1>. QED
  BY <1>1, <1>2, <1>3, <1>4, <1>5, <1>6, <1>7, <1>8, <1>9 DEF Next, Main

(* What the main goroutine reads of a test is final: once collected, a     *)
(* test keeps the status it was collected with.  Anchor: wg.Wait before    *)
(* the collecting loop of runFlowFunc (pkg/test/command.go).               *)
THEOREM CollectedStaysFinal == Spec => []CollectedIsFinal
<1>1. TypeInv /\ CollectInv => CollectedIsFinal
  <2>1. TypeInv => DOMAIN current.items = Collected
    BY DEF TypeInv, CurrentT, Collected
  <2>. QED
    BY <2>1 DEF CollectInv, CollectedIsFinal
<1>. QED
  BY <1>1, TypeInit, TypeStep, WaitInit, WaitStep, PhaseInit, PhaseStep,
     CollectInit, CollectStep, PTL DEF Spec

(***************************************************************************)
(* The report agrees with where the main goroutine is.                     *)
(***************************************************************************)
Blamed == Gathering \cup {"failed"}

ReportInv ==
  /\ pc = "validate" => report.status = Unset
  /\ pc \in {"setup", "spawn", "collect"} => report.status = Passed
  /\ pc \in {"cleanup", "passed"} =>
       report.status = Passed /\ \A t \in Tests : test[t].status = Passed
  /\ pc \in Gathering =>
       /\ report.status = Failed
       /\ apps = FailedTests /\ apps # {}
       /\ \A t \in Tests : test[t].status # Canceled
  /\ pc = "failed" => report.status \in {Failed, Canceled}
  /\ pc \in Blamed => ReportError(report) = report.status

AnswerInv ==
  /\ pc # "done" => result = "none" /\ saved = Unset /\ message = NoErr
  /\ result = "nil" =>
       report.status = Passed /\ AllDone /\ \A t \in Tests : test[t].status = Passed
  /\ result = "error" => report.status = message /\ message \in {Failed, Canceled}
  /\ saved # Unset => saved = report.status /\ result # "none"

LEMMA ReportInit == Init => ReportInv /\ AnswerInv
BY DEF Init, ReportInv, AnswerInv, Gathering, Blamed

(* The report blames its last step when that step has an error.            *)
LEMMA ReportErrorIsLast ==
  ASSUME NEW r \in ReportT, NEW s \in StepT, s.err # NoErr
  PROVE  ReportError(AddStep(r, s)) = s.err
<1>1. /\ AddStep(r, s).items = Append(r.items, s)
      /\ r.items \in Seq(StepT)
  BY AddStepReport DEF ReportT
<1>2. Append(r.items, s) # <<>> /\ Append(r.items, s)[Len(Append(r.items, s))] = s
  BY <1>1, AppendFacts
<1>. QED
  BY <1>1, <1>2 DEF ReportError, StepError

LEMMA StageReport ==
  ASSUME TypeInv, NEW name \in StepName, NEW next, Stage(name, next),
         report.status \in {Unset, Passed}
  PROVE  \/ pc' = next /\ report'.status = Passed
         \/ /\ pc' = "failed" /\ report'.status \in {Failed, Canceled}
            /\ ReportError(report') = report'.status
<1>1. PICK e \in Outcome : /\ report' = AddStep(report, EndedStep(name, e))
                           /\ pc' = IF e = Nil THEN next ELSE "failed"
  BY DEF Stage, OutcomeOf
<1>. DEFINE s == EndedStep(name, e)
<1>2. s \in StepT /\ report \in ReportT
  BY EndedStepType DEF TypeInv
<1>3. report'.status = AddStatus(report.status, s.status)
  BY <1>1, <1>2, AddStepReport
<1>4. CASE e = Nil
  <2>1. s.status = Passed
    BY <1>4, EndedStepType
  <2>2. report'.status = Passed
    BY <1>3, <2>1 DEF AddStatus, Unset, Passed, Failed, Canceled, Skipped
  <2>. QED
    BY <1>1, <1>4, <2>2
<1>5. CASE e # Nil
  <2>1. s.status \in {Failed, Canceled} /\ s.err = s.status
    BY <1>5, EndedStepType
  <2>2. report'.status = s.status
    BY <1>3, <2>1 DEF AddStatus, Unset, Passed, Failed, Canceled, Skipped
  <2>3. s.err # NoErr
    BY <2>1 DEF NoErr, Failed, Canceled
  <2>4. ReportError(report') = s.err
    BY <1>1, <1>2, <2>3, ReportErrorIsLast
  <2>. QED
    BY <1>1, <1>5, <2>1, <2>2, <2>4
<1>. QED
  BY <1>4, <1>5

(* The verdict of all the tests decides where FinishTests goes.            *)
LEMMA FinishReport ==
  ASSUME TypeInv, CollectInv, ReportInv, FinishTests
  PROVE  ReportInv'
<1>. DEFINE S == {test[i].status : i \in Tests}
<1>1. /\ pc = "collect" /\ UNCHANGED <<current, test, go>> /\ Collected = Tests
      /\ report' = AddStep(report, FinishedTests)
      /\ pc' = AfterTests(report'.status)
      /\ pc' = "gather" => apps' = FailedTests
  BY DEF FinishTests, Collected, Tests
<1>2. current.status = Verdict(S)
  BY <1>1 DEF CollectInv
<1>3. FinishedTests \in StepT /\ report \in ReportT /\ report.status = Passed
  BY <1>1, FinishedTestsType DEF TypeInv, ReportInv
<1>4. report'.status = AddStatus(Passed, Verdict(S))
  BY <1>1, <1>2, <1>3, FinishedTestsType, AddStepReport
<1>5. \A t \in Tests : test[t].status \in TestStatus
  BY DEF TypeInv, TestT
<1>. USE DEF Passed, Failed, Canceled, Skipped, Unset
<1>6. CASE Canceled \in S
  <2>1. current.status = Canceled /\ report'.status = Canceled
    BY <1>2, <1>4, <1>6 DEF Verdict, AddStatus
  <2>2. pc' = "failed"
    BY <1>1, <2>1 DEF AfterTests
  <2>3. FinishedTests.err = Canceled
    BY <2>1, FinishedTestsType DEF TestsError
  <2>4. ReportError(report') = Canceled
    BY <1>1, <1>3, <2>3, ReportErrorIsLast DEF NoErr
  <2>. QED
    BY <2>1, <2>2, <2>4 DEF ReportInv, Gathering
<1>7. CASE Canceled \notin S /\ Failed \in S
  <2>1. current.status = Failed /\ report'.status = Failed
    BY <1>2, <1>4, <1>7 DEF Verdict, AddStatus
  <2>2. pc' = "gather"
    BY <1>1, <2>1 DEF AfterTests
  <2>3. FinishedTests.err = Failed
    BY <2>1, FinishedTestsType DEF TestsError
  <2>4. ReportError(report') = Failed
    BY <1>1, <1>3, <2>3, ReportErrorIsLast DEF NoErr
  <2>5. apps' = FailedTests /\ FailedTests # {} /\ \A t \in Tests : test[t].status # Canceled
    BY <1>1, <1>7, <2>2 DEF FailedTests
  <2>6. FailedTests' = FailedTests
    BY <1>1 DEF FailedTests
  <2>. QED
    BY <1>1, <2>1, <2>2, <2>4, <2>5, <2>6 DEF ReportInv, Gathering
<1>8. CASE Canceled \notin S /\ Failed \notin S
  <2>1. report'.status = Passed
    BY <1>4, <1>8 DEF Verdict, AddStatus
  <2>2. \A t \in Tests : test[t].status = Passed
    BY <1>5, <1>8 DEF TestStatus
  <2>3. pc' \in {"cleanup", "passed"}
    BY <1>1, <2>1 DEF AfterTests
  <2>. QED
    BY <1>1, <2>1, <2>2, <2>3 DEF ReportInv, Gathering, Blamed
<1>. QED
  BY <1>6, <1>7, <1>8

LEMMA ReportStep ==
  TypeInv /\ PhaseInv /\ CollectInv /\ ReportInv /\ [Next]_vars => ReportInv'
<1>. SUFFICES ASSUME TypeInv, PhaseInv, CollectInv, ReportInv, [Next]_vars PROVE ReportInv'
  OBVIOUS
<1>1. CASE Validate \/ Setup \/ Cleanup
  <2>1. PICK name \in {"validate", "setup", "cleanup"}, next \in {"setup", "spawn", "passed"} :
          Stage(name, next) /\ (name = "cleanup" <=> next = "passed")
    BY <1>1 DEF Validate, Setup, Cleanup
  <2>2. name \in StepName /\ pc = name /\ UNCHANGED test
    BY <2>1 DEF StepName, Stage
  <2>3. report.status \in {Unset, Passed}
    BY <2>2 DEF ReportInv
  <2>4. \/ pc' = next /\ report'.status = Passed
        \/ /\ pc' = "failed" /\ report'.status \in {Failed, Canceled}
           /\ ReportError(report') = report'.status
    BY <2>1, <2>2, <2>3, StageReport
  <2>. QED
    BY <2>1, <2>2, <2>4 DEF ReportInv, Gathering, Blamed
<1>2. ASSUME NEW t \in Tests, Spawn(t) PROVE ReportInv'
  <2>1. pc' = "spawn" /\ pc = "spawn" /\ report' = report
    BY <1>2 DEF Spawn, mainVars
  <2>. QED
    BY <2>1 DEF ReportInv, Gathering, Blamed
<1>3. CASE Wait \/ Collect
  <2>1. pc' = "collect" /\ pc \in {"spawn", "collect"} /\ report' = report
    BY <1>3 DEF Wait, Collect, mainVars
  <2>. QED
    BY <2>1 DEF ReportInv, Gathering, Blamed
<1>4. CASE FinishTests
  BY <1>4, FinishReport
<1>5. CASE \/ \E c \in Clusters : GatherCluster(c)
           \/ \E p \in Profiles : GetSecret(p) \/ GatherS3Profile(p)
           \/ GatherEnd \/ InspectS3 \/ GatherS3End
  <2>1. UNCHANGED <<report, test, apps>> /\ pc \in Gathering /\ pc' \in Gathering \cup {"failed"}
    BY <1>5 DEF GatherCluster, GetSecret, GatherS3Profile, GatherEnd, InspectS3, GatherS3End,
                gatherVars, Gathering
  <2>. QED
    BY <2>1 DEF ReportInv, Gathering, Blamed, FailedTests
<1>6. CASE ReturnFailed \/ ReturnPassed
  <2>1. pc' = "done"
    BY <1>6 DEF ReturnFailed, ReturnPassed
  <2>. QED
    BY <2>1 DEF ReportInv, Gathering, Blamed
<1>7. ASSUME NEW t \in Tests, Goroutine(t) PROVE ReportInv'
  <2>1. UNCHANGED <<pc, report>> /\ ~AllDone
    BY <1>7 DEF Goroutine, StartStep, EndStep, Done, mainVars, AllDone
  <2>2. pc \notin AfterWait
    BY <2>1 DEF PhaseInv
  <2>. QED
    BY <2>1, <2>2 DEF ReportInv, AfterWait, Blamed
<1>8. CASE Interrupt \/ UNCHANGED vars
  <2>1. UNCHANGED <<pc, report, test, apps>>
    BY <1>8 DEF Interrupt, vars, mainVars
  <2>. QED
    BY <2>1 DEF ReportInv, FailedTests
<1>. QED
  BY <1>1, <1>2, <1>3, <1>4, <1>5, <1>6, <1>7, <1>8 DEF Next, Main

LEMMA AnswerStep ==
  TypeInv /\ PhaseInv /\ ReportInv /\ AnswerInv /\ [Next]_vars => AnswerInv'
<1>. SUFFICES ASSUME TypeInv, PhaseInv, ReportInv, AnswerInv, [Next]_vars PROVE AnswerInv'
  OBVIOUS
<1>1. CASE ReturnFailed
  <2>1. /\ pc' = "done" /\ result' = "error" /\ report' = report
        /\ saved' \in {Unset, report.status} /\ message' = ReportError(report)
    BY <1>1 DEF ReturnFailed, WriteReport
  <2>2. ReportError(report) = report.status /\ report.status \in {Failed, Canceled}
    BY <1>1 DEF ReturnFailed, ReportInv, Blamed
  <2>. QED
    BY <2>1, <2>2 DEF AnswerInv
<1>2. CASE ReturnPassed
  <2>1. /\ pc' = "done" /\ result' = "nil" /\ UNCHANGED <<report, test, go>>
        /\ saved' \in {Unset, report.status}
    BY <1>2 DEF ReturnPassed, WriteReport
  <2>2. AllDone /\ report.status = Passed /\ \A t \in Tests : test[t].status = Passed
    BY <1>2 DEF ReturnPassed, ReportInv, PhaseInv, AfterWait
  <2>. QED
    BY <2>1, <2>2 DEF AnswerInv, AllDone
<1>3. CASE \/ Validate \/ Setup \/ Cleanup \/ Wait \/ Collect \/ FinishTests
           \/ \E t \in Tests : Spawn(t)
           \/ \E c \in Clusters : GatherCluster(c)
           \/ \E p \in Profiles : GetSecret(p) \/ GatherS3Profile(p)
           \/ GatherEnd \/ InspectS3 \/ GatherS3End
  <2>1. pc # "done" /\ UNCHANGED <<result, saved, message>>
    BY <1>3 DEF Validate, Setup, Cleanup, Stage, Spawn, Wait, Collect, FinishTests, GatherCluster,
       GetSecret, GatherS3Profile, GatherEnd, InspectS3, GatherS3End, mainVars, gatherVars
  <2>. QED
    BY <2>1 DEF AnswerInv
<1>4. ASSUME NEW t \in Tests, Goroutine(t) PROVE AnswerInv'
  <2>1. /\ UNCHANGED <<pc, report, result, saved, message>> /\ ~AllDone
    BY <1>4 DEF Goroutine, StartStep, EndStep, Done, mainVars, AllDone
  <2>. QED
    BY <2>1 DEF AnswerInv
<1>5. CASE Interrupt \/ UNCHANGED vars
  <2>1. UNCHANGED <<pc, report, test, go, result, saved, message>>
    BY <1>5 DEF Interrupt, vars, mainVars
  <2>. QED
    BY <2>1 DEF AnswerInv, AllDone
<1>. QED
  BY <1>1, <1>2, <1>3, <1>4, <1>5 DEF Next, Main

(***************************************************************************)
(* The inductive invariant, and what it shows.                             *)
(***************************************************************************)
IInv == TypeInv /\ FlowInv /\ WaitInv /\ PhaseInv /\ CollectInv /\ ReportInv /\ AnswerInv

(* The main goroutine, the test goroutines and the report agree with one   *)
(* another in every state, for any number of tests.                        *)
THEOREM Consistent == Spec => []IInv
<1>1. Init => IInv
  BY TypeInit, FlowInit, WaitInit, PhaseInit, CollectInit, ReportInit DEF IInv
<1>2. IInv /\ [Next]_vars => IInv'
  BY TypeStep, FlowStep, WaitStep, PhaseStep, CollectStep, ReportStep, AnswerStep DEF IInv
<1>. QED
  BY <1>1, <1>2, PTL DEF Spec

(* Run and Clean return nil only when every test passed its whole flow,    *)
(* and otherwise an error that says what the report says.  Anchor: Run,    *)
(* Clean, finishStep, failed, passed (pkg/test/command.go).                *)
THEOREM AnswersTruly == Spec => []AnswerIsTrue
<1>1. ASSUME IInv, result = "nil", NEW t \in Tests
      PROVE  test[t] = [status |-> Passed, steps |-> [i \in DOMAIN Flow |-> Passed]]
  <2>. DEFINE steps == test[t].steps
  <2>1. go[t] = "done" /\ test[t].status = Passed
    BY <1>1 DEF IInv, AnswerInv, AllDone
  <2>2. /\ Len(steps) = Len(Flow) /\ steps[Len(steps)] = Passed
        /\ \A i \in 1..(Len(steps) - 1) : steps[i] = Passed
    BY <1>1, <2>1 DEF IInv, FlowInv, FlowOf, Stopped
  <2>3. test[t] = [status |-> test[t].status, steps |-> steps] /\ steps \in Seq(AnyStatus)
    BY <1>1 DEF IInv, TypeInv, TestT
  <2>4. \A i \in 1..Len(steps) : steps[i] = Passed
    BY <2>2, <2>3
  <2>5. steps = [i \in DOMAIN Flow |-> Passed]
    <3>1. steps = [i \in DOMAIN steps |-> steps[i]] /\ DOMAIN steps = 1..Len(steps)
      BY <2>3
    <3>. QED
      BY <3>1, <2>2, <2>4, FlowLength
  <2>. QED
    BY <2>1, <2>3, <2>5
<1>2. IInv /\ result = "nil" => report.status = Passed
  BY DEF IInv, AnswerInv
<1>3. IInv /\ result = "error" => report.status = message /\ message \in {Failed, Canceled}
  BY DEF IInv, AnswerInv
<1>4. IInv => result \in {"none", "nil", "error"} /\ (saved # Unset => saved = report.status /\ result # "none")
  BY DEF IInv, TypeInv, AnswerInv
<1>5. Passed \notin {Failed, Canceled} /\ NoErr \notin {Failed, Canceled}
  BY DEF Passed, Failed, Canceled, NoErr
<1>6. IInv => AnswerIsTrue
  BY <1>1, <1>2, <1>3, <1>4, <1>5 DEF AnswerIsTrue
<1>. QED
  BY <1>6, Consistent, PTL

(* Data is gathered only once every goroutine stopped, for exactly the     *)
(* failed tests, and never in a run with a canceled test.  Anchor: failed, *)
(* gatherData and gatherS3Data (pkg/test/command.go).                      *)
THEOREM GathersAfterTests == Spec => []GatherAfterTests
<1>1. ASSUME IInv, pc \in Gathering PROVE GatherAfterTests
  <2>1. AllDone /\ report.status = Failed /\ apps = FailedTests /\ apps # {}
        /\ \A t \in Tests : test[t].status # Canceled
    BY <1>1 DEF IInv, PhaseInv, AfterWait, ReportInv
  <2>2. \A t \in Tests : test[t].status \in {Passed, Failed, Canceled}
    BY <1>1 DEF IInv, TypeInv, TestT, TestStatus
  <2>3. FailedTests = {t \in Tests : test[t].status # Passed}
    BY <2>1, <2>2 DEF FailedTests, Passed, Failed
  <2>. QED
    BY <2>1, <2>3 DEF GatherAfterTests, AllDone
<1>2. IInv => GatherAfterTests
  BY <1>1 DEF GatherAfterTests
<1>. QED
  BY <1>2, Consistent, PTL

(***************************************************************************)
(* What the inductive invariant shows beyond the answer: the bounds of the *)
(* types, the counters of the summary, and that every step of the command  *)
(* is a step of TestVerdict.                                               *)
(***************************************************************************)

(* The tests that ended with a status. *)
TestsOf(s) == {t \in Tests : test[t].status = s}

Statuses == {test[t].status : t \in Tests}

Started == {"validate", "setup", "spawn", "collect"}
Counted == Gathering \cup {"cleanup", "passed"}

Reported == HasStep(report, "tests")

(* The tests step is reported once, when all tests are done, and with it   *)
(* the summary is written.  A command that fails without it never started  *)
(* a test.                                                                 *)
SummaryInv ==
  /\ summary \in [Status -> 0..NTests]
  /\ pc \in Started => ~Reported
  /\ Reported => AllDone
  /\ pc \in Counted => Reported
  /\ pc = "failed" => Reported \/ NotStarted
  /\ \A s \in Status : summary[s] = IF Reported THEN Cardinality(TestsOf(s)) ELSE 0

(* What spoils a report with the tests step is the worst of the tests,     *)
(* unless all of them passed.                                              *)
WorstInv == Reported => Verdict({Passed} \cup Statuses) \in {Passed, report.status}

LEMMA TestsOfFinite ==
  ASSUME NEW s
  PROVE  IsFiniteSet(TestsOf(s)) /\ Cardinality(TestsOf(s)) \in 0..NTests
<1>1. IsFiniteSet(Tests) /\ Cardinality(Tests) = NTests
  BY NTestsAssumption, FS_Interval DEF Tests
<1>. QED
  BY <1>1, NTestsAssumption, FS_Subset, FS_CardinalityType DEF TestsOf

LEMMA SummaryInit == Init => SummaryInv /\ WorstInv
BY NTestsAssumption DEF Init, SummaryInv, WorstInv, Started, Counted, Gathering, Reported, HasStep

(* A report has the steps that were added to it. *)
LEMMA HasStepAdded ==
  ASSUME NEW r \in ReportT, NEW s \in StepT, NEW name
  PROVE  HasStep(AddStep(r, s), name) <=> HasStep(r, name) \/ s.name = name
<1>1. AddStep(r, s).items = Append(r.items, s) /\ r.items \in Seq(StepT)
  BY AddStepReport DEF ReportT
<1>2. /\ DOMAIN r.items = 1..Len(r.items) /\ Len(r.items) \in Nat
      /\ DOMAIN Append(r.items, s) = 1..(Len(r.items) + 1)
      /\ Append(r.items, s)[Len(r.items) + 1] = s
      /\ \A i \in DOMAIN r.items : Append(r.items, s)[i] = r.items[i]
  BY <1>1, AppendProperties
<1>. QED
  BY <1>1, <1>2 DEF HasStep

(* A stage other than the tests adds a step of its own name. *)
LEMMA StageReported ==
  ASSUME TypeInv, NEW name \in StepName \ {"tests"}, NEW next, Stage(name, next)
  PROVE  Reported' <=> Reported
<1>1. PICK e \in Outcome : report' = AddStep(report, EndedStep(name, e))
  BY DEF Stage, OutcomeOf
<1>2. EndedStep(name, e) \in StepT /\ EndedStep(name, e).name = name /\ report \in ReportT
  BY EndedStepType DEF EndedStep, TypeInv
<1>. QED
  BY <1>1, <1>2, HasStepAdded DEF Reported

(* The tests step brings the counters of the summary and the worst verdict. *)
LEMMA FinishReported ==
  ASSUME TypeInv, PhaseInv, CollectInv, ReportInv, SummaryInv, FinishTests
  PROVE  SummaryInv' /\ WorstInv'
<1>1. /\ pc = "collect" /\ UNCHANGED <<go, test>> /\ Collected = Tests
      /\ summary' = AddTests(current) /\ pc' \notin Started
      /\ report.status = Passed /\ report' = AddStep(report, FinishedTests)
  BY DEF FinishTests, Collected, Tests, AfterTests, Started, ReportInv
<1>2. Reported' /\ AllDone'
  <2>1. FinishedTests \in StepT /\ FinishedTests.name = "tests" /\ report \in ReportT
    BY FinishedTestsType DEF FinishedTests, TypeInv, CurrentT
  <2>2. AllDone
    BY <1>1 DEF PhaseInv, AfterWait
  <2>. QED
    BY <1>1, <2>1, <2>2, HasStepAdded DEF Reported, AllDone
<1>3. DOMAIN current.items = Tests
  BY <1>1 DEF TypeInv, CurrentT, Collected
<1>4. ASSUME NEW i \in Tests PROVE current.items[i].status = test[i].status
  BY <1>1, <1>4, TestStepType DEF CollectInv
<1>5. ASSUME NEW s \in Status PROVE AddTests(current)[s] = Cardinality(TestsOf(s))
  <2>1. {i \in DOMAIN current.items : current.items[i].status = s} = TestsOf(s)
    BY <1>3, <1>4 DEF TestsOf
  <2>2. summary[s] = 0
    BY <1>1 DEF SummaryInv, Started
  <2>. QED
    BY <2>1, <2>2, TestsOfFinite DEF AddTests
<1>6. \A s \in Status : summary'[s] = Cardinality(TestsOf(s)) /\ TestsOf(s)' = TestsOf(s)
  BY <1>1, <1>5 DEF TestsOf
<1>7. summary' = [s \in Status |-> summary'[s]]
  BY <1>1 DEF AddTests
<1>8. \A s \in Status : summary'[s] \in 0..NTests
  BY <1>6, TestsOfFinite
<1>9. SummaryInv'
  BY <1>1, <1>2, <1>6, <1>7, <1>8 DEF SummaryInv
<1>10. report'.status = AddStatus(Passed, Verdict(Statuses))
  <2>1. current.status = Verdict(Statuses)
    BY <1>1 DEF CollectInv, Statuses
  <2>. QED
    BY <1>1, <2>1, FinishedTestsType, AddStepReport DEF TypeInv
<1>11. Statuses \subseteq TestStatus /\ Statuses' = Statuses
  BY <1>1 DEF TypeInv, TestT, Statuses
<1>12. Verdict({Passed} \cup Statuses) \in {Passed, report'.status}
  BY <1>10, <1>11 DEF Verdict, AddStatus, TestStatus, Passed, Failed, Canceled, Skipped, Unset
<1>. QED
  BY <1>9, <1>11, <1>12 DEF WorstInv

(* All tests passed: a later stage may say anything. *)
LEMMA AllPassed ==
  ASSUME \A t \in Tests : test[t].status = Passed
  PROVE  Verdict({Passed} \cup Statuses) = Passed
BY DEF Statuses, Verdict, Passed, Failed, Canceled

(* What the two invariants read, and what keeps them. *)
LEMMA ReportedKept ==
  ASSUME SummaryInv, WorstInv, UNCHANGED <<go, test, report, summary>>,
         pc' \in Started => pc \in Started, pc' \in Counted => pc \in Counted,
         pc' = "failed" => Reported \/ NotStarted
  PROVE  SummaryInv' /\ WorstInv'
<1>1. Reported' = Reported /\ AllDone' = AllDone /\ NotStarted' = NotStarted
  BY DEF Reported, AllDone, NotStarted
<1>2. Statuses' = Statuses /\ \A s : TestsOf(s)' = TestsOf(s)
  BY DEF Statuses, TestsOf
<1>. QED
  BY <1>1, <1>2 DEF SummaryInv, WorstInv

LEMMA SummaryStep ==
  ASSUME IInv, SummaryInv, WorstInv, [Next]_vars
  PROVE  SummaryInv' /\ WorstInv'
<1>. USE DEF IInv
<1>1. CASE FinishTests
  BY <1>1, FinishReported
<1>2. CASE Validate \/ Setup \/ Cleanup
  <2>1. /\ Reported' <=> Reported
        /\ UNCHANGED <<go, test, summary>>
        /\ pc' \in Started => pc \in Started
        /\ pc' \in Counted => pc \in Counted
    BY <1>2, StageReported
       DEF Validate, Setup, Cleanup, Stage, StepName, Started, Counted, Gathering
  <2>2. AllDone' = AllDone /\ NotStarted' = NotStarted /\ Statuses' = Statuses
        /\ \A s : TestsOf(s)' = TestsOf(s)
    BY <2>1 DEF AllDone, NotStarted, Statuses, TestsOf
  <2>3. CASE Validate \/ Setup
    <3>1. NotStarted /\ ~Reported
      BY <2>3 DEF Validate, Setup, Stage, PhaseInv, SummaryInv, Started
    <3>. QED
      BY <2>1, <2>2, <3>1 DEF SummaryInv, WorstInv
  <2>4. CASE Cleanup
    <3>1. pc = "cleanup" /\ Len(current.items) = NTests
      BY <2>4 DEF Cleanup, Stage, CollectInv
    <3>2. Verdict({Passed} \cup Statuses) = Passed
      BY <3>1, AllPassed DEF ReportInv
    <3>3. Reported
      BY <3>1 DEF SummaryInv, Counted
    <3>. QED
      BY <2>1, <2>2, <3>2, <3>3 DEF SummaryInv, WorstInv
  <2>. QED
    BY <1>2, <2>3, <2>4
<1>3. CASE \/ Wait \/ Collect
           \/ \E c \in Clusters : GatherCluster(c)
           \/ \E p \in Profiles : GetSecret(p) \/ GatherS3Profile(p)
           \/ GatherEnd \/ InspectS3 \/ GatherS3End
           \/ ReturnFailed \/ ReturnPassed \/ Interrupt \/ UNCHANGED vars
  <2>1. /\ UNCHANGED <<go, test, report, summary>>
        /\ pc' \in Started => pc \in Started
        /\ pc' \in Counted => pc \in Counted
        /\ pc' = "failed" => pc \in Gathering \cup {"failed"}
    BY <1>3 DEF Wait, Collect, GatherCluster, GetSecret, GatherS3Profile, GatherEnd, InspectS3,
       GatherS3End, ReturnFailed, ReturnPassed, Interrupt, mainVars, gatherVars, vars,
       Started, Counted, Gathering
  <2>2. pc' = "failed" => Reported \/ NotStarted
    BY <2>1 DEF SummaryInv, Counted
  <2>. QED
    BY <2>1, <2>2, ReportedKept
<1>4. ASSUME NEW t \in Tests, Spawn(t) \/ Goroutine(t) PROVE SummaryInv' /\ WorstInv'
  <2>1. UNCHANGED <<pc, report, summary>> /\ ~AllDone /\ pc # "failed"
    BY <1>4 DEF Spawn, Goroutine, StartStep, EndStep, Done, mainVars, AllDone, PhaseInv, NotStarted
  <2>2. ~Reported /\ ~Reported'
    BY <2>1 DEF SummaryInv, Reported
  <2>. QED
    BY <2>1, <2>2 DEF SummaryInv, WorstInv
<1>. QED
  BY <1>1, <1>2, <1>3, <1>4 DEF Next, Main

AllInv == IInv /\ SummaryInv /\ WorstInv

THEOREM Summarized == Spec => []AllInv
<1>1. AllInv /\ [Next]_vars => SummaryInv' /\ WorstInv'
  BY SummaryStep DEF AllInv
<1>. QED
  BY <1>1, Consistent, SummaryInit, PTL DEF Spec, AllInv

(* The summary counts every test once, by its verdict, as soon as the      *)
(* tests step is in the report, canceled or not, and nothing before; and   *)
(* the report says the worst verdict counted.                              *)
(* Anchor: Report.AddStep, addTest (pkg/test/report.go).                   *)
THEOREM SummaryAccountsHolds == Spec => []SummaryAccounts
<1>1. ASSUME AllInv PROVE SummaryAccounts
  <2>1. summary \in [Status -> 0..NTests]
    BY <1>1 DEF AllInv, SummaryInv
  <2>2. \A s \in Status : summary[s] = IF HasStep(report, "tests")
                                      THEN Cardinality({t \in Tests : test[t].status = s})
                                      ELSE 0
    BY <1>1 DEF AllInv, SummaryInv, Reported, TestsOf
  <2>3. ASSUME NEW s \in Status, summary[s] > 0 PROVE Reported /\ s \in Statuses
    <3>1. Reported /\ Cardinality(TestsOf(s)) > 0
      BY <1>1, <2>3 DEF AllInv, SummaryInv
    <3>2. TestsOf(s) # {}
      BY <3>1, FS_EmptySet
    <3>. QED
      BY <3>1, <3>2 DEF TestsOf, Statuses
  <2>4. summary[Canceled] > 0 => report.status = Canceled
    <3>1. Canceled \in Status
      BY DEF Status
    <3>. QED
      BY <1>1, <2>3, <3>1 DEF AllInv, WorstInv, Verdict, Passed, Failed, Canceled
  <2>5. ASSUME summary[Canceled] = 0, summary[Failed] > 0 PROVE report.status = Failed
    <3>1. Reported /\ Failed \in Statuses
      BY <2>3, <2>5 DEF Status
    <3>2. TestsOf(Canceled) = {}
      BY <1>1, <2>5, <3>1, TestsOfFinite, FS_EmptySet DEF AllInv, SummaryInv, Status
    <3>3. Canceled \notin Statuses
      BY <3>2 DEF TestsOf, Statuses
    <3>. QED
      BY <1>1, <3>1, <3>3 DEF AllInv, WorstInv, Verdict, Passed, Failed, Canceled
  <2>. QED
    BY <2>1, <2>2, <2>4, <2>5 DEF SummaryAccounts
<1>. QED
  BY <1>1, Summarized, PTL

(* The variables keep their types; wg, the tests collected and the         *)
(* counters of the summary never exceed the number of tests.               *)
THEOREM TypeOKHolds == Spec => []TypeOK
<1>1. ASSUME AllInv PROVE TypeOK
  <2>1. wg \in 0..NTests
    BY <1>1, LiveFinite DEF AllInv, IInv, WaitInv
  <2>2. Len(current.items) \in 0..NTests
    BY <1>1, NTestsAssumption DEF AllInv, IInv, TypeInv, CurrentT, CollectInv
  <2>3. /\ current.status \in AnyStatus /\ report.status \in AnyStatus
        /\ test \in [Tests -> TestT]
    BY <1>1 DEF AllInv, IInv, TypeInv, CurrentT, ReportT
  <2>. QED
    BY <1>1, <2>1, <2>2, <2>3
       DEF AllInv, IInv, TypeInv, SummaryInv, TypeOK, TestT, TestStatus, AnyStatus, AnyErr, GoState
<1>. QED
  BY <1>1, Summarized, PTL

(***************************************************************************)
(* Every step of the command is a step of TestVerdict, or changes neither  *)
(* a verdict nor the answer.                                               *)
(***************************************************************************)

(* The variables of TestVerdict. *)
VerdictOf(t) == IF go[t] \in {"finished", "done"} THEN test[t].status ELSE Unset

Verdicts == [t \in Tests |-> VerdictOf(t)]

AnswerOf == IF result = "none" THEN Unset ELSE report.status

(* While a test runs the command has not answered. *)
LEMMA NoAnswerYet ==
  ASSUME IInv, pc # "done"
  PROVE  result = "none"
BY DEF IInv, AnswerInv

(* TestVerdict reads statuses and worst verdicts as the command does. *)
LEMMA PromiseReport ==
  /\ Promise!Unset = Unset /\ Promise!Passed = Passed
  /\ Promise!Failed = Failed /\ Promise!Canceled = Canceled
  /\ Promise!Verdicts = TestStatus
  /\ \A S : Promise!Verdict(S) = Verdict(S)
<1>1. /\ Promise!Unset = Unset /\ Promise!Passed = Passed
      /\ Promise!Failed = Failed /\ Promise!Canceled = Canceled
  BY Zenon DEF Promise!Unset, Unset, Promise!Passed, Passed, Promise!Failed, Failed,
               Promise!Canceled, Canceled
<1>2. Promise!Verdicts = TestStatus
  BY <1>1 DEF Promise!Verdicts, TestStatus
<1>3. \A S : Promise!Verdict(S) = Verdict(S)
  BY <1>1 DEF Promise!Verdict, Verdict
<1>. QED
  BY <1>1, <1>2, <1>3

(* Ending an operation leaves the test running or gives it its verdict.    *)
LEMMA EndStepStops ==
  ASSUME IInv, NEW t \in Tests, EndStep(t)
  PROVE  [Promise!TVNext]_(Promise!tvars)
<1>1. go[t] = "running" /\ UNCHANGED <<pc, result, report>>
  BY DEF EndStep, mainVars
<1>2. result = "none" /\ result' = "none"
  BY <1>1, NoAnswerYet DEF IInv, PhaseInv, NotStarted, AllDone
<1>3. PICK e \in Outcome : IF e = Nil THEN PassStep(t) ELSE FailStep(t, e)
  BY DEF EndStep, OutcomeOf
<1>4. \A u \in Tests \ {t} : go'[u] = go[u] /\ test'[u] = test[u]
  BY <1>3 DEF PassStep, FailStep, IInv, TypeInv
<1>5. go'[t] \in {"ready", "finished"} /\ test'[t].status \in TestStatus
  <2>1. CASE e = Nil
    <3>1. go'[t] \in {"ready", "finished"} /\ test'[t].status = test[t].status
      BY <1>3, <2>1 DEF PassStep, IInv, TypeInv, TestT
    <3>. QED
      BY <3>1 DEF IInv, TypeInv, TestT
  <2>2. CASE e # Nil
    <3>1. go'[t] = "finished" /\ test'[t].status = StatusOf(e)
      BY <1>3, <2>2 DEF FailStep, IInv, TypeInv, TestT
    <3>2. StatusOf(e) \in TestStatus
      BY <2>2 DEF StatusOf, TestStatus, Outcome
    <3>. QED
      BY <3>1, <3>2
  <2>. QED
    BY <2>1, <2>2
<1>6. CASE go'[t] = "ready"
  <2>1. \A u \in Tests : VerdictOf(u)' = VerdictOf(u)
    BY <1>1, <1>4, <1>6 DEF VerdictOf
  <2>2. Verdicts' = Verdicts /\ AnswerOf' = AnswerOf
    BY <1>2, <2>1 DEF Verdicts, AnswerOf
  <2>. QED
    BY <2>2 DEF Promise!tvars, Verdicts, VerdictOf, AnswerOf
<1>7. CASE go'[t] = "finished"
  <2>1. VerdictOf(t) = Unset /\ VerdictOf(t)' = test'[t].status
    BY <1>1, <1>7 DEF VerdictOf
  <2>2. \A u \in Tests \ {t} : VerdictOf(u)' = VerdictOf(u)
    BY <1>4 DEF VerdictOf
  <2>3. Verdicts' = [Verdicts EXCEPT ![t] = test'[t].status]
    BY <2>1, <2>2 DEF Verdicts
  <2>4. AnswerOf = Unset /\ AnswerOf' = Unset /\ Verdicts[t] = Unset
    BY <1>2, <2>1 DEF AnswerOf, Verdicts
  <2>5. Promise!Stop(t)
    BY <1>5, <2>3, <2>4, PromiseReport
       DEF Promise!Stop, Verdicts, VerdictOf, AnswerOf, TestStatus
  <2>. QED
    BY <2>5 DEF Promise!TVNext
<1>. QED
  BY <1>5, <1>6, <1>7

(* Returning answers for the tests, or gives up before the first of them. *)
LEMMA ReturnAnswers ==
  ASSUME AllInv, ReturnFailed \/ ReturnPassed
  PROVE  Promise!TVNext
<1>1. /\ pc \in {"failed", "passed"} /\ UNCHANGED <<go, test, report>>
      /\ result = "none" /\ result' # "none"
  BY NoAnswerYet DEF AllInv, ReturnFailed, ReturnPassed
<1>2. /\ Verdicts' = Verdicts
      /\ AnswerOf = Unset /\ AnswerOf' = report.status
  BY <1>1 DEF Verdicts, VerdictOf, AnswerOf
<1>3. CASE NotStarted /\ pc = "failed"
  <2>1. report.status \in {Failed, Canceled}
    BY <1>3 DEF AllInv, IInv, ReportInv
  <2>2. \A t \in Tests : Verdicts[t] = Unset
    BY <1>3 DEF Verdicts, VerdictOf, NotStarted
  <2>3. Promise!GiveUp
    BY <1>2, <2>1, <2>2, PromiseReport DEF Promise!GiveUp, Verdicts, VerdictOf, AnswerOf
  <2>. QED
    BY <2>3 DEF Promise!TVNext
<1>4. CASE AllDone /\ (pc = "passed" \/ Reported)
  <2>1. \A t \in Tests : Verdicts[t] = test[t].status
    BY <1>4 DEF Verdicts, VerdictOf, AllDone
  <2>2. \A t \in Tests : test[t].status \in TestStatus
    BY DEF AllInv, IInv, TypeInv, TestT
  <2>3. {Verdicts[t] : t \in Tests} = Statuses
    BY <2>1 DEF Statuses
  <2>4. /\ Verdict({Passed} \cup Statuses) \in {Passed, report.status}
        /\ report.status \in TestStatus
    <3>1. CASE pc = "failed"
      BY <1>4, <3>1 DEF AllInv, IInv, WorstInv, ReportInv, TestStatus, Passed, Failed, Canceled
    <3>2. CASE pc = "passed"
      BY <3>2, AllPassed DEF AllInv, IInv, ReportInv, TestStatus
    <3>. QED
      BY <1>1, <3>1, <3>2
  <2>5. \A t \in Tests : Verdicts[t] # Unset
    BY <2>1, <2>2 DEF TestStatus, Unset, Passed, Failed, Canceled
  <2>6. Promise!Answer
    BY <1>2, <2>3, <2>4, <2>5, PromiseReport
       DEF Promise!Answer, Verdicts, VerdictOf, AnswerOf, TestStatus
  <2>. QED
    BY <2>6 DEF Promise!TVNext
<1>. QED
  BY <1>1, <1>3, <1>4 DEF AllInv, IInv, PhaseInv, AfterWait, SummaryInv

(* The safety part of the refinement: every test gets one verdict and      *)
(* keeps it, and the one answer, after all of them, is the worst of them.  *)
(* Anchor: Run, Clean, runFlowFunc, finishStep (pkg/test/command.go).      *)
THEOREM VerdictsPromised == Spec => Promise!TVInit /\ [][Promise!TVNext]_(Promise!tvars)
<1>1. Init => Promise!TVInit
  BY PromiseReport DEF Init, Promise!TVInit
<1>2. ASSUME AllInv, [Next]_vars PROVE [Promise!TVNext]_(Promise!tvars)
  <2>1. ASSUME NEW t \in Tests, EndStep(t) PROVE [Promise!TVNext]_(Promise!tvars)
    BY <1>2, <2>1, EndStepStops DEF AllInv
  <2>2. CASE ReturnFailed \/ ReturnPassed
    BY <1>2, <2>2, ReturnAnswers
  <2>3. ASSUME NEW t \in Tests, Spawn(t) \/ StartStep(t) \/ Done(t)
        PROVE  UNCHANGED <<Verdicts, AnswerOf>>
    <3>1. UNCHANGED <<result, report>>
      BY <2>3 DEF Spawn, StartStep, Done, mainVars
    <3>2. \A u \in Tests : VerdictOf(u)' = VerdictOf(u)
      BY <1>2, <2>3 DEF Spawn, StartStep, Done, VerdictOf, AllInv, IInv, TypeInv, TestT
    <3>. QED
      BY <3>1, <3>2 DEF Verdicts, AnswerOf
  <2>4. CASE \/ Validate \/ Setup \/ Cleanup \/ Wait \/ Collect \/ FinishTests
             \/ \E c \in Clusters : GatherCluster(c)
             \/ \E p \in Profiles : GetSecret(p) \/ GatherS3Profile(p)
             \/ GatherEnd \/ InspectS3 \/ GatherS3End
    <3>1. pc # "done" /\ UNCHANGED <<go, test, result>>
      BY <2>4 DEF Validate, Setup, Cleanup, Stage, Wait, Collect, FinishTests, GatherCluster,
         GetSecret, GatherS3Profile, GatherEnd, InspectS3, GatherS3End, mainVars, gatherVars
    <3>2. result = "none" /\ result' = "none"
      BY <1>2, <3>1, NoAnswerYet DEF AllInv
    <3>. QED
      BY <3>1, <3>2 DEF Promise!tvars
  <2>5. CASE Interrupt \/ UNCHANGED vars
    BY <2>5 DEF Interrupt, vars, mainVars, Promise!tvars
  <2>6. UNCHANGED <<Verdicts, AnswerOf>> => UNCHANGED Promise!tvars
    BY DEF Promise!tvars, Verdicts, VerdictOf, AnswerOf
  <2>. QED
    BY <1>2, <2>1, <2>2, <2>3, <2>4, <2>5, <2>6 DEF Next, Main, Goroutine
<1>3. AllInv /\ [Next]_vars => [Promise!TVNext]_(Promise!tvars)
  BY <1>2
<1>. QED
  BY <1>1, <1>3, Summarized, PTL DEF Spec
=============================================================================
