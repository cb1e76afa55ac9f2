------------------------- MODULE DataCommandsProofs -------------------------
(***************************************************************************)
(* For any number of clusters and profiles whose steps have different      *)
(* names: a data command answers what its report says, a nil hides         *)
(* nothing, a canceled operation is the last one, and only complete data   *)
(* is validated.                                                           *)
(*                                                                         *)
(* The argument: what the current step holds at each stage (StepsInv) and  *)
(* how its status and error read there (CurrentInv) follow from AddStep;   *)
(* the boolean a stage returns, which decides the next stage, is tied to   *)
(* that status (StepsInv again), so that both ways to tell a failure agree *)
(* at the end (ReportInv, AnswerInv).                                      *)
(***************************************************************************)
EXTENDS DataCommands, FiniteSetTheorems, SequenceTheorems, TLAPS

Operations == {"inspect application", "inspect S3 profiles", "validate data"}

(* The sub steps of one step have different names, and the configmap has   *)
(* finitely many profiles.                                                 *)
Distinct ==
  /\ ~RepeatNames
  /\ IsFiniteSet(Profiles)
  /\ Clusters \cap Profiles = {}
  /\ Operations \cap (Clusters \cup Profiles) = {}

TestStatus == {Passed, Failed, Canceled}
AnyStatus  == {Unset, Passed, Failed, Canceled}
AnyErr     == {NoErr, Failed, Canceled}
AnyOutcome == Outcome \cup {Aborted}

SubT     == [name : Names, status : TestStatus, err : AnyErr, items : {<<>>}]
CurrentT == [name : Commands, status : AnyStatus, err : AnyErr, items : Seq(SubT)]
StepT    == [name : Commands \cup {"validate config"}, status : AnyStatus, err : AnyErr,
             items : Seq(SubT)]
ReportT  == [status : AnyStatus, items : Seq(StepT)]

(***************************************************************************)
(* Lemmas about steps.                                                     *)
(***************************************************************************)
(* Appending keeps what a sequence holds and adds one element. *)
LEMMA AppendFacts ==
  ASSUME NEW S, NEW seq \in Seq(S), NEW x \in S
  PROVE  /\ Append(seq, x) \in Seq(S)
         /\ Append(seq, x) # <<>>
         /\ Len(Append(seq, x)) = Len(seq) + 1
         /\ DOMAIN Append(seq, x) = DOMAIN seq \cup {Len(seq) + 1}
         /\ Append(seq, x)[Len(seq) + 1] = x
         /\ \A i \in DOMAIN seq : Append(seq, x)[i] = seq[i]
<1>1. DOMAIN seq = 1..Len(seq) /\ Len(seq) \in Nat
  OBVIOUS
<1>2. /\ Append(seq, x) \in Seq(S) /\ Len(Append(seq, x)) = Len(seq) + 1
      /\ Append(seq, x)[Len(seq) + 1] = x
      /\ \A i \in 1..Len(seq) : Append(seq, x)[i] = seq[i]
  BY AppendProperties
<1>3. DOMAIN Append(seq, x) = 1..(Len(seq) + 1) /\ Append(seq, x) # <<>>
  BY <1>1, <1>2
<1>. QED
  BY <1>1, <1>2, <1>3

(* The status an operation that ended gives its step. *)
LEMMA StatusOfType ==
  ASSUME NEW e \in AnyOutcome
  PROVE  /\ StatusOf(e) \in TestStatus
         /\ StatusOf(e) = Passed <=> e = Nil
         /\ StatusOf(e) = Canceled <=> e = "canceled"
         /\ e \in {"error", Aborted} => StatusOf(e) = Failed
BY DEF StatusOf, AnyOutcome, Outcome, Aborted, Nil, TestStatus, Passed, Failed, Canceled

(* What AddStatus does with the statuses these commands have. *)
LEMMA AddStatusType ==
  ASSUME NEW cur \in AnyStatus, NEW sub \in TestStatus
  PROVE  /\ AddStatus(cur, sub) \in TestStatus
         /\ sub = Passed => AddStatus(cur, sub) = IF cur = Unset THEN Passed ELSE cur
         /\ sub = Failed => AddStatus(cur, sub) = IF cur = Canceled THEN cur ELSE Failed
         /\ sub = Canceled => AddStatus(cur, sub) = Canceled
         /\ cur = Canceled => AddStatus(cur, sub) = Canceled
         /\ cur = Unset => AddStatus(cur, sub) = sub
BY DEF AddStatus, AnyStatus, TestStatus, Unset, Passed, Failed, Canceled, Skipped

LEMMA FirstStatus ==
  ASSUME NEW e \in AnyOutcome
  PROVE  AddStatus(Unset, StatusOf(e)) = StatusOf(e)
<1>1. StatusOf(e) \in TestStatus /\ Unset \in AnyStatus
  BY StatusOfType DEF AnyStatus
<1>. QED
  BY <1>1, AddStatusType

(* Without a cancellation, a status passed while everything did. *)
LEMMA AddResult ==
  ASSUME NEW cur \in {Unset, Passed, Failed}, NEW sub \in {Passed, Failed}
  PROVE  /\ AddStatus(cur, sub) \in {Passed, Failed}
         /\ AddStatus(cur, sub) # Failed => cur # Failed /\ sub = Passed
BY DEF AddStatus, Unset, Passed, Failed, Canceled, Skipped

LEMMA StillPassed ==
  ASSUME NEW cur \in {Unset, Passed}, NEW sub \in TestStatus
  PROVE  AddStatus(cur, sub) = sub
BY DEF AddStatus, TestStatus, Unset, Passed, Failed, Canceled, Skipped

LEMMA BothPassed ==
  ASSUME NEW cur \in TestStatus, NEW sub \in TestStatus
  PROVE  /\ AddStatus(cur, sub) \in TestStatus
         /\ AddStatus(cur, sub) = Passed <=> cur = Passed /\ sub = Passed
BY DEF AddStatus, TestStatus, Unset, Passed, Failed, Canceled, Skipped

LEMMA FailedStays ==
  ASSUME NEW cur \in {Passed, Failed}
  PROVE  AddStatus(cur, Failed) = Failed
BY DEF AddStatus, Passed, Failed, Canceled, Skipped

LEMMA SubStepType ==
  ASSUME NEW n \in Names, NEW e \in AnyOutcome
  PROVE  /\ EndedStep(n, e) \in SubT
         /\ EndedStep(n, e).name = n
         /\ EndedStep(n, e).status = StatusOf(e)
         /\ EndedStep(n, e).err = IF e = Nil THEN NoErr ELSE StatusOf(e)
<1>. DEFINE err == IF e = Nil THEN NoErr ELSE StatusOf(e)
<1>1. StatusOf(e) \in TestStatus /\ err \in AnyErr
  BY StatusOfType DEF TestStatus, AnyErr
<1>2. EndedStep(n, e) = [name |-> n, status |-> StatusOf(e), err |-> err, items |-> <<>>]
  BY DEF EndedStep
<1>. HIDE DEF err
<1>3. /\ EndedStep(n, e) \in SubT
      /\ EndedStep(n, e).name = n
      /\ EndedStep(n, e).status = StatusOf(e)
      /\ EndedStep(n, e).err = err
  BY <1>1, <1>2 DEF SubT
<1>. QED
  BY <1>3 DEF err

LEMMA NoSubSteps == <<>> \in Seq(SubT)
OBVIOUS

(* The step of a report for the configuration. *)
LEMMA ConfigStepType ==
  ASSUME NEW e \in AnyOutcome
  PROVE  LET s == EndedStep("validate config", e) IN
         /\ s \in StepT
         /\ s.status = StatusOf(e)
         /\ StepError(s) = IF e = Nil THEN NoErr ELSE StatusOf(e)
<1>. DEFINE s == EndedStep("validate config", e)
            err == IF e = Nil THEN NoErr ELSE StatusOf(e)
<1>1. StatusOf(e) \in AnyStatus /\ err \in AnyErr
  BY StatusOfType DEF TestStatus, AnyErr, AnyStatus
<1>2. s = [name |-> "validate config", status |-> StatusOf(e), err |-> err, items |-> <<>>]
  BY DEF EndedStep
<1>3. "validate config" \in Commands \cup {"validate config"}
  OBVIOUS
<1>. HIDE DEF err, s
<1>4. s \in StepT /\ s.status = StatusOf(e) /\ s.err = err /\ s.items = <<>>
  BY <1>1, <1>2, <1>3, NoSubSteps DEF StepT
<1>5. StepError(s) = err
  BY <1>4 DEF StepError
<1>. QED
  BY <1>4, <1>5 DEF err, s

(* AddStep on the report. *)
LEMMA AddStepReport ==
  ASSUME NEW r \in ReportT, NEW s \in StepT, s.status \in TestStatus
  PROVE  /\ AddStep(r, s) \in ReportT
         /\ AddStep(r, s).status = AddStatus(r.status, s.status)
         /\ Len(AddStep(r, s).items) = Len(r.items) + 1
         /\ ReportError(AddStep(r, s)) = StepError(s)
<1>. DEFINE st == AddStatus(r.status, s.status)
            it == Append(r.items, s)
<1>0. r.status \in AnyStatus /\ r.items \in Seq(StepT)
  BY DEF ReportT
<1>1. st \in AnyStatus
  BY <1>0, AddStatusType DEF AnyStatus, TestStatus
<1>2. it \in Seq(StepT) /\ it # <<>> /\ Len(it) = Len(r.items) + 1 /\ it[Len(it)] = s
  BY <1>0, AppendFacts
<1>3. AddStep(r, s) = [status |-> st, items |-> it]
  <2>1. r = [status |-> r.status, items |-> r.items]
    BY DEF ReportT
  <2>2. AddStep(r, s) = [[r EXCEPT !.items = it] EXCEPT !.status = st]
    BY DEF AddStep
  <2>. HIDE DEF st, it
  <2>3. [r EXCEPT !.items = it] = [status |-> r.status, items |-> it]
    BY <2>1
  <2>. QED
    BY <2>2, <2>3
<1>. HIDE DEF st, it
<1>4. AddStep(r, s) \in ReportT /\ AddStep(r, s).status = st /\ AddStep(r, s).items = it
  BY <1>1, <1>2, <1>3 DEF ReportT
<1>5. ReportError(AddStep(r, s)) = StepError(s)
  BY <1>2, <1>4 DEF ReportError
<1>. QED
  BY <1>2, <1>4, <1>5 DEF st

(* AddStep on the current step. *)
LEMMA AddStepCurrent ==
  ASSUME NEW c \in CurrentT, NEW s \in SubT
  PROVE  /\ AddStep(c, s) \in CurrentT
         /\ AddStep(c, s).status = AddStatus(c.status, s.status)
         /\ AddStep(c, s).err = c.err
         /\ AddStep(c, s).items = Append(c.items, s)
<1>. DEFINE st == AddStatus(c.status, s.status)
            it == Append(c.items, s)
<1>0. c.status \in AnyStatus /\ c.items \in Seq(SubT) /\ s.status \in TestStatus
  BY DEF CurrentT, SubT
<1>1. st \in AnyStatus
  BY <1>0, AddStatusType DEF AnyStatus, TestStatus
<1>2. it \in Seq(SubT)
  BY <1>0, AppendFacts
<1>3. AddStep(c, s) = [name |-> c.name, status |-> st, err |-> c.err, items |-> it]
  <2>1. c = [name |-> c.name, status |-> c.status, err |-> c.err, items |-> c.items]
    BY DEF CurrentT
  <2>2. AddStep(c, s) = [[c EXCEPT !.items = it] EXCEPT !.status = st]
    BY DEF AddStep
  <2>. HIDE DEF st, it
  <2>3. [c EXCEPT !.items = it] = [name |-> c.name, status |-> c.status, err |-> c.err, items |-> it]
    BY <2>1
  <2>. QED
    BY <2>2, <2>3
<1>. HIDE DEF st, it
<1>4. c.name \in Commands /\ c.err \in AnyErr
  BY DEF CurrentT
<1>5. /\ AddStep(c, s) \in CurrentT
      /\ AddStep(c, s).status = st /\ AddStep(c, s).err = c.err
      /\ AddStep(c, s).items = it
  BY <1>1, <1>2, <1>3, <1>4 DEF CurrentT
<1>. QED
  BY <1>5 DEF st, it

(* What AddSubStep changes: the status, and the steps of one name.  The    *)
(* step reports its own error or that of the step added last.              *)
LEMMA SubStepAdded ==
  ASSUME current \in CurrentT, NEW n \in Names, NEW e \in AnyOutcome, AddSubStep(n, e)
  PROVE  /\ current' \in CurrentT
         /\ current'.status = AddStatus(current.status, StatusOf(e))
         /\ current'.err = current.err
         /\ \A m : StepOf(m)' = IF m = n THEN StepOf(m) \cup {StatusOf(e)} ELSE StepOf(m)
         /\ StepError(current') = IF current.err # NoErr THEN current.err
                                  ELSE IF e = Nil THEN NoErr ELSE StatusOf(e)
<1>. DEFINE s == EndedStep(n, e)
            k == Len(current.items) + 1
<1>1. /\ s \in SubT /\ s.name = n /\ s.status = StatusOf(e)
      /\ s.err = IF e = Nil THEN NoErr ELSE StatusOf(e)
  BY SubStepType
<1>2. current' = AddStep(current, s)
  BY DEF AddSubStep
<1>. HIDE DEF s
<1>3. /\ current' \in CurrentT /\ current'.err = current.err
      /\ current'.status = AddStatus(current.status, StatusOf(e))
      /\ current'.items = Append(current.items, s)
  BY <1>1, <1>2, AddStepCurrent
<1>4. current.items \in Seq(SubT)
  BY DEF CurrentT
<1>5. /\ DOMAIN current'.items = DOMAIN current.items \cup {k}
      /\ current'.items # <<>> /\ Len(current'.items) = k
      /\ current'.items[k] = s
      /\ \A i \in DOMAIN current.items : current'.items[i] = current.items[i]
  BY <1>1, <1>3, <1>4, AppendFacts
<1>. HIDE DEF k
<1>6. ASSUME NEW m
      PROVE  StepOf(m)' = IF m = n THEN StepOf(m) \cup {StatusOf(e)} ELSE StepOf(m)
  BY <1>1, <1>5 DEF StepOf
<1>7. StepError(current') = IF current.err # NoErr THEN current.err ELSE s.err
  BY <1>3, <1>5 DEF StepError
<1>. QED
  BY <1>1, <1>3, <1>6, <1>7

(***************************************************************************)
(* The inductive invariant.                                                *)
(***************************************************************************)
Early     == {"validate config", "inspect application"}
Reading   == {"read profiles", "read secrets"}
Working   == {"inspect application", "gather", "S3", "validate data", "finish", "finish passed"}
               \cup Reading
BeforeErr == Early \cup {"gather", "S3"} \cup Reading
Running   == {"validate config", "failed", "passed"} \cup Working
AllStages == Running \cup {"done"}

(* Types.  It says pc # "panic": the names of sub steps differ. *)
TypeInv ==
  /\ command \in Commands
  /\ pc \in AllStages
  /\ canceled \in BOOLEAN
  /\ pending \in SUBSET (Clusters \cup Profiles)
  /\ current \in CurrentT
  /\ report \in ReportT
  /\ secrets \in SUBSET Profiles
  /\ s3 \in [Profiles -> AnyOutcome \cup {"none"}]
  /\ summary \in [States -> 0..(Cardinality(Profiles) + 1 + MaxValidations)]
  /\ html \in BOOLEAN

NoSummary == \A state \in States : summary[state] = 0
Gathered  == \A c \in Clusters : StepOf(c) = {Passed}
Untouched == \A p \in Profiles : s3[p] = "none" /\ StepOf(p) = {}

(* The result of a profile is in its step. *)
Received(p) == s3[p] \in AnyOutcome /\ StepOf(p) = {StatusOf(s3[p])}

(* The results that do not pass are in the status of the current step. *)
Agree == current.status = Passed <=> \A p \in Profiles : s3[p] \in {Nil, "none"}

(* What a nil stands for. *)
Complete ==
  /\ Gathered
  /\ \A p \in Profiles : s3[p] = Nil /\ StepOf(p) = {Passed}
  /\ ~HasIssues(summary)
  /\ command # "gather-application" => summary["ok"] > Cardinality(Profiles)

(* What the current step holds at each stage. *)
StepsInv ==
  /\ pc \in Early => \A n \in Names : StepOf(n) = {}
  /\ pc \in Early \cup {"gather"} \cup Reading => Untouched
  /\ pc = "gather" =>
       /\ pending \subseteq Clusters
       /\ \A c \in pending : StepOf(c) = {}
       /\ \A c \in Clusters \ pending : StepOf(c) \in {{Passed}, {Failed}}
       /\ current.status # Failed => \A c \in Clusters \ pending : StepOf(c) = {Passed}
  /\ pc \in Reading \cup {"S3", "validate data"} => Gathered
  /\ pc \in {"read secrets", "S3"} => pending \subseteq Profiles
  /\ pc = "S3" =>
       /\ \A p \in pending : s3[p] = "none" /\ StepOf(p) = {}
       /\ \A p \in Profiles \ pending : Received(p)
       /\ Agree
  /\ pc = "validate data" =>
       /\ command # "gather-application"
       /\ Untouched \/ (Agree /\ \A p \in Profiles : Received(p))
  /\ pc \in {"finish passed", "passed"} \/ result = "nil" => Complete

(* How the current step reads at each stage. *)
CurrentInv ==
  /\ pc \in BeforeErr => current.err = NoErr
  /\ pc \in Early => current.status = Unset
  /\ pc = "gather" => current.status \in {Unset, Passed, Failed}
  /\ pc \in Reading => current.status \in {Unset, Passed}
  /\ pc = "S3" => current.status \in TestStatus
  /\ pc = "validate data" =>
       /\ current.status \in {Passed, Failed}
       /\ current.err \in {NoErr, Failed}
  /\ pc = "finish" =>
       /\ current.status \in {Failed, Canceled}
       /\ StepError(current) = current.status
  /\ pc \in {"finish passed", "passed"} => current.status = Passed

(* The report at each stage. *)
ReportInv ==
  /\ pc = "validate config" => report.status = Unset /\ Len(report.items) = 0
  /\ pc \in Working => report.status = Passed /\ Len(report.items) = 1
  /\ pc = "passed" => report.status = Passed
  /\ pc = "failed" =>
       /\ report.status \in {Failed, Canceled}
       /\ ReportError(report) = report.status
  /\ Len(report.items) \in 0..2

(* The answer is that of the report. *)
AnswerInv ==
  /\ result \in {"none", "nil", "error"}
  /\ pc = "done" <=> result # "none"
  /\ result = "nil" => report.status = Passed /\ message = NoErr
  /\ result = "error" => report.status = message /\ message \in {Failed, Canceled}
  /\ result = "none" => saved = Unset /\ ~html /\ message = NoErr
  /\ saved \in {Unset, report.status}

(* What is validated, and when. *)
SummaryInv ==
  /\ command = "gather-application" => NoSummary
  /\ pc \in BeforeErr \cup {"validate data"} =>
       NoSummary /\ StepOf("validate data") = {}
  /\ html => HasValidations
  /\ HasValidations => Gathered

(* A canceled sub step decides the rest of the command. *)
CancelInv ==
  (\E n \in Names : Canceled \in StepOf(n)) =>
    /\ pc \in {"S3", "finish", "failed", "done"}
    /\ current.status = Canceled
    /\ pc \in {"failed", "done"} => report.status = Canceled
    /\ NoSummary /\ StepOf("validate data") = {}

(* A secret is needed for a request that succeeds. *)
SecretInv == \A p \in Profiles : s3[p] = Nil => p \in secrets

IInv ==
  /\ TypeInv /\ StepsInv /\ CurrentInv /\ ReportInv /\ AnswerInv
  /\ SummaryInv /\ CancelInv /\ SecretInv

(***************************************************************************)
(* Lemmas on what an action leaves alone.                                  *)
(***************************************************************************)
LEMMA StepOfKept ==
  ASSUME UNCHANGED current
  PROVE  \A m : StepOf(m)' = StepOf(m)
BY DEF StepOf

(* The error behind a range: statuses and sub steps stay. *)
LEMMA ErrOfKeeps ==
  ASSUME current \in CurrentT, current' = ErrOf(current)
  PROVE  /\ current' \in CurrentT
         /\ current'.status = current.status
         /\ \A m : StepOf(m)' = StepOf(m)
         /\ current.status \in {Failed, Canceled} =>
              current'.err = current.status /\ StepError(current') = current.status
         /\ current.status \notin {Failed, Canceled} => current'.err = current.err
<1>. DEFINE err == IF current.status \in {Canceled, Failed} THEN current.status ELSE current.err
<1>1. current = [name |-> current.name, status |-> current.status, err |-> current.err,
                 items |-> current.items]
  BY DEF CurrentT
<1>2. current' = [current EXCEPT !.err = err]
  BY DEF ErrOf
<1>3. err \in AnyErr /\ current.name \in Commands /\ current.status \in AnyStatus
      /\ current.items \in Seq(SubT)
  BY DEF CurrentT, AnyErr
<1>. HIDE DEF err
<1>4. current' = [name |-> current.name, status |-> current.status, err |-> err,
                  items |-> current.items]
  BY <1>1, <1>2
<1>5. /\ current' \in CurrentT /\ current'.status = current.status
      /\ current'.err = err /\ current'.items = current.items
  BY <1>3, <1>4 DEF CurrentT
<1>6. \A m : StepOf(m)' = StepOf(m)
  BY <1>5 DEF StepOf
<1>7. current.status \in {Failed, Canceled} => err = current.status /\ err # NoErr
  BY DEF err, Failed, Canceled, NoErr
<1>8. current.status \in {Failed, Canceled} => StepError(current') = current.status
  BY <1>5, <1>7 DEF StepError
<1>9. current.status \notin {Failed, Canceled} => err = current.err
  BY DEF err
<1>. QED
  BY <1>5, <1>6, <1>7, <1>8, <1>9

(* Between the configuration and the end of the current step, the report   *)
(* and the answer wait.                                                    *)
LEMMA WorkKeeps ==
  ASSUME IInv, pc \in Working, pc' \in Working, UNCHANGED report, UNCHANGED answerVars
  PROVE  ReportInv' /\ AnswerInv'
<1>1. ReportInv'
  BY DEF IInv, ReportInv, Working, Reading
<1>2. AnswerInv'
  BY DEF IInv, AnswerInv, answerVars, Working, Reading
<1>. QED
  BY <1>1, <1>2

LEMMA NothingCounted ==
  ASSUME NEW s, \A state \in States : s[state] = 0
  PROVE  ~(\E state \in States : s[state] > 0)
OBVIOUS

LEMMA NoIssues ==
  ASSUME NEW s, \A state \in States : s[state] = 0
  PROVE  ~HasIssues(s)
BY DEF HasIssues, States

LEMMA ProfilesCounted == Distinct => Cardinality(Profiles) \in Nat
BY FS_CardinalityType DEF Distinct

(* A validation that has not begun is not disturbed. *)
LEMMA SummaryKept ==
  ASSUME IInv, pc \in BeforeErr, UNCHANGED summary, UNCHANGED answerVars,
         StepOf("validate data")' = {}
  PROVE  SummaryInv'
<1>1. NoSummary /\ NoSummary'
  BY DEF IInv, SummaryInv, NoSummary
<1>2. pc # "done"
  BY DEF BeforeErr, Early, Reading
<1>3. ~html /\ ~html'
  BY <1>2 DEF IInv, AnswerInv, answerVars
<1>4. ~HasValidations'
  BY <1>1, NothingCounted DEF NoSummary, HasValidations
<1>. QED
  BY <1>1, <1>3, <1>4 DEF IInv, SummaryInv

(* Before the profiles are worked on no sub step is canceled. *)
LEMMA NotCanceled ==
  ASSUME IInv, pc \in Early \cup {"gather", "validate data", "finish passed"} \cup Reading,
         NEW n \in Names
  PROVE  Canceled \notin StepOf(n)
<1>1. pc \notin {"S3", "finish", "failed", "done"}
  BY DEF Early, Reading
<1>. QED
  BY <1>1 DEF IInv, CancelInv

LEMMA OperationsAreNames == Operations \subseteq Names
BY DEF Operations, Names

LEMMA InitIInv == Distinct /\ Init => IInv
<1>. SUFFICES ASSUME Distinct, Init PROVE IInv
  OBVIOUS
<1>1. current = [name |-> command, status |-> Unset, err |-> NoErr, items |-> <<>>]
  <2>1. current = NewStep(command)
    BY DEF Init
  <2>. QED
    BY <2>1 DEF NewStep
<1>2. current \in CurrentT
  <2>1. command \in Commands /\ Unset \in AnyStatus /\ NoErr \in AnyErr
    BY DEF Init, AnyStatus, AnyErr
  <2>. QED
    BY <1>1, <2>1, NoSubSteps DEF CurrentT
<1>3. report \in ReportT /\ Len(report.items) = 0 /\ report.status = Unset
  <2>1. report = [status |-> Unset, items |-> <<>>]
    BY DEF Init
  <2>2. Unset \in AnyStatus /\ <<>> \in Seq(StepT) /\ Len(<<>>) = 0
    BY DEF AnyStatus
  <2>. QED
    BY <2>1, <2>2 DEF ReportT
<1>4. \A m : StepOf(m) = {}
  <2>1. DOMAIN current.items = {}
    BY <1>1
  <2>. QED
    BY <2>1 DEF StepOf
<1>5. /\ command \in Commands /\ pc = "validate config" /\ canceled = FALSE /\ pending = {}
      /\ secrets = {} /\ s3 = [p \in Profiles |-> "none"] /\ result = "none"
      /\ summary = [state \in States |-> 0] /\ saved = Unset /\ html = FALSE /\ message = NoErr
  BY DEF Init
<1>6. TypeInv
  <2>1. s3 \in [Profiles -> AnyOutcome \cup {"none"}]
    BY <1>5
  <2>2. summary \in [States -> 0..(Cardinality(Profiles) + 1 + MaxValidations)]
    <3>1. 0 \in 0..(Cardinality(Profiles) + 1 + MaxValidations)
      BY ProfilesCounted DEF MaxValidations
    <3>. QED
      BY <1>5, <3>1
  <2>. QED
    BY <1>2, <1>3, <1>5, <2>1, <2>2 DEF TypeInv, AllStages, Running
<1>7. NoSummary /\ ~HasValidations
  BY <1>5, NothingCounted DEF NoSummary, HasValidations
<1>8. StepsInv
  BY <1>4, <1>5 DEF StepsInv, Early, Reading, Untouched
<1>9. CurrentInv
  BY <1>1, <1>5 DEF CurrentInv, Early, Reading
<1>10. ReportInv /\ AnswerInv
  <2>1. ReportInv
    <3>1. Len(report.items) \in 0..2
      BY <1>3
    <3>2. pc \notin Working \cup {"passed", "failed"}
      BY <1>5 DEF Working, Reading
    <3>. QED
      BY <1>3, <3>1, <3>2 DEF ReportInv
  <2>2. AnswerInv
    BY Zenon, <1>5 DEF AnswerInv
  <2>. QED
    BY <2>1, <2>2
<1>11. SummaryInv /\ CancelInv
  BY <1>4, <1>5, <1>7 DEF SummaryInv, CancelInv
<1>12. SecretInv
  BY <1>5 DEF SecretInv, Nil
<1>. QED
  BY <1>6, <1>8, <1>9, <1>10, <1>11, <1>12 DEF IInv

(***************************************************************************)
(* The configuration and the application.                                  *)
(***************************************************************************)
LEMMA StepCounts == 0 + 1 = 1 /\ 1 + 1 = 2 /\ 1 \in 0..2 /\ 2 \in 0..2
OBVIOUS

LEMMA ConfigStep ==
  ASSUME Distinct, IInv, NEW to \in {"inspect application", "gather"}, ValidateConfigThen(to)
  PROVE  IInv'
<1>1. PICK e \in Outcome :
        /\ report' = AddStep(report, EndedStep("validate config", e))
        /\ pc' = IF e = Nil THEN to ELSE "failed"
  BY DEF ValidateConfigThen, OutcomeOf
<1>2. /\ pc = "validate config"
      /\ pending' = IF pc' = "gather" THEN Clusters ELSE {}
      /\ UNCHANGED <<current, secrets, s3, summary>> /\ UNCHANGED answerVars
  BY DEF ValidateConfigThen
<1>3. e \in AnyOutcome /\ report \in ReportT /\ report.status = Unset /\ Len(report.items) = 0
  BY <1>2 DEF IInv, TypeInv, ReportInv, AnyOutcome
<1>. DEFINE s == EndedStep("validate config", e)
<1>s. /\ s \in StepT /\ s.status = StatusOf(e) /\ s.status \in TestStatus
      /\ StepError(s) = IF e = Nil THEN NoErr ELSE StatusOf(e)
  BY <1>3, StatusOfType, ConfigStepType
<1>. HIDE DEF s
<1>4. /\ report' \in ReportT /\ report'.status = AddStatus(Unset, StatusOf(e))
      /\ ReportError(report') = IF e = Nil THEN NoErr ELSE StatusOf(e)
  BY <1>1, <1>3, <1>s, AddStepReport DEF s
<1>l. Len(report'.items) = 1
  <2>1. report' = AddStep(report, s)
    BY <1>1 DEF s
  <2>2. Len(AddStep(report, s).items) = Len(report.items) + 1
    BY <1>3, <1>s, AddStepReport
  <2>. QED
    BY Zenon, <1>3, <2>1, <2>2, StepCounts
<1>5. AddStatus(Unset, StatusOf(e)) = StatusOf(e)
  BY <1>3, FirstStatus
<1>6. \/ pc' = to /\ report'.status = Passed
      \/ /\ pc' = "failed" /\ report'.status \in {Failed, Canceled}
         /\ ReportError(report') = report'.status
  BY <1>1, <1>3, <1>4, <1>5, StatusOfType DEF TestStatus
<1>7. /\ \A m : StepOf(m)' = StepOf(m)
      /\ \A n \in Names : StepOf(n) = {}
      /\ Untouched /\ current.status = Unset /\ current.err = NoErr
  BY <1>2, StepOfKept DEF IInv, StepsInv, CurrentInv, Early, BeforeErr
<1>8. pc' \in {"inspect application", "gather", "failed"}
  BY <1>6
<1>9. TypeInv'
  BY <1>2, <1>4, <1>8 DEF IInv, TypeInv, answerVars, AllStages, Running, Working
<1>10. result' = "none" /\ AnswerInv'
  BY <1>2, <1>8 DEF IInv, AnswerInv, answerVars
<1>11. StepsInv'
  <2>1. \A c \in Clusters : StepOf(c)' = {}
    BY <1>7 DEF Names
  <2>2. Untouched'
    BY <1>2, <1>7 DEF Untouched
  <2>3. \A n \in Names : StepOf(n)' = {}
    BY <1>7
  <2>. QED
    BY <1>2, <1>8, <1>10, <2>1, <2>2, <2>3 DEF StepsInv, Early, Reading
<1>12. CurrentInv'
  BY <1>2, <1>7, <1>8 DEF CurrentInv, Early, Reading
<1>13. ReportInv'
  <2>1. Len(report'.items) \in 0..2
    BY Zenon, <1>l, StepCounts
  <2>2. pc' \notin {"validate config", "passed"} /\ "failed" \notin Working
    BY <1>8 DEF Working, Reading
  <2>. QED
    BY <1>6, <1>l, <2>1, <2>2 DEF ReportInv
<1>14. SummaryInv'
  BY <1>2, <1>7, SummaryKept, OperationsAreNames DEF Operations, BeforeErr, Early
<1>15. CancelInv' /\ SecretInv'
  BY <1>2, <1>7 DEF IInv, CancelInv, SecretInv
<1>. QED
  BY <1>9, <1>10, <1>11, <1>12, <1>13, <1>14, <1>15 DEF IInv

(* A sub step added before the current step has an error: the report, the  *)
(* answer and the summary wait, and a cancellation decides.                *)
LEMMA Added ==
  ASSUME IInv, pc \in BeforeErr, pc # "validate config", pc' \in Working,
         UNCHANGED <<report, summary>>, UNCHANGED answerVars,
         NEW n \in Names, n # "validate data", NEW e \in AnyOutcome, AddSubStep(n, e),
         e = "canceled" => pc' \in {"S3", "finish"},
         pc = "S3" => pc' = "S3"
  PROVE  ReportInv' /\ AnswerInv' /\ SummaryInv' /\ CancelInv'
<1>1. pc \in Working
  BY DEF Working, BeforeErr, Early, Reading
<1>2. current \in CurrentT
  BY DEF IInv, TypeInv
<1>3. /\ current'.status = AddStatus(current.status, StatusOf(e))
      /\ \A m : StepOf(m)' = IF m = n THEN StepOf(m) \cup {StatusOf(e)} ELSE StepOf(m)
  BY <1>2, SubStepAdded
<1>4. NoSummary /\ StepOf("validate data") = {}
  BY DEF IInv, SummaryInv
<1>5. NoSummary' /\ StepOf("validate data")' = {}
  BY <1>3, <1>4 DEF NoSummary
<1>6. ReportInv' /\ AnswerInv' /\ SummaryInv'
  BY <1>1, <1>5, WorkKeeps, SummaryKept
<1>7. ASSUME NEW m \in Names, Canceled \in StepOf(m)'
      PROVE  pc' \in {"S3", "finish"} /\ current'.status = Canceled
  <2>1. StatusOf(e) \in TestStatus /\ current.status \in AnyStatus
        /\ (StatusOf(e) = Canceled <=> e = "canceled")
    BY <1>2, StatusOfType DEF CurrentT
  <2>2. CASE StatusOf(e) = Canceled
    BY <1>3, <2>1, <2>2, AddStatusType
  <2>3. CASE Canceled \in StepOf(m)
    <3>1. current.status = Canceled /\ pc = "S3"
      BY <2>3 DEF IInv, CancelInv, BeforeErr, Early, Reading
    <3>. QED
      BY <1>3, <2>1, <3>1, AddStatusType
  <2>. QED
    BY <1>3, <1>7, <2>2, <2>3
<1>8. CancelInv'
  BY <1>5, <1>7 DEF CancelInv
<1>. QED
  BY <1>6, <1>8

LEMMA InspectStep == ASSUME Distinct, IInv, InspectApplication PROVE IInv'
<1>. DEFINE n == "inspect application"
<1>1. PICK e \in Outcome :
        /\ AddSubStep(n, e)
        /\ pc' = IF e = Nil THEN "gather" ELSE "finish"
        /\ pending' = IF e = Nil THEN Clusters ELSE {}
  BY DEF InspectApplication, OutcomeOf
<1>2. /\ pc = "inspect application"
      /\ UNCHANGED <<report, secrets, s3, summary>> /\ UNCHANGED answerVars
  BY DEF InspectApplication
<1>3. /\ current \in CurrentT /\ current.status = Unset /\ current.err = NoErr
      /\ \A m \in Names : StepOf(m) = {}
      /\ Untouched
  BY <1>2 DEF IInv, TypeInv, StepsInv, CurrentInv, Early, BeforeErr
<1>4. n \in Names /\ n \notin Clusters \cup Profiles /\ e \in AnyOutcome
  BY DEF Names, Distinct, Operations, AnyOutcome
<1>5. /\ current' \in CurrentT
      /\ current'.status = AddStatus(Unset, StatusOf(e))
      /\ current'.err = NoErr
      /\ \A m : StepOf(m)' = IF m = n THEN StepOf(m) \cup {StatusOf(e)} ELSE StepOf(m)
      /\ StepError(current') = IF e = Nil THEN NoErr ELSE StatusOf(e)
  BY <1>1, <1>3, <1>4, SubStepAdded
<1>6. current'.status = StatusOf(e)
  BY <1>4, <1>5, FirstStatus
<1>7. \/ pc' = "gather" /\ pending' = Clusters /\ current'.status = Passed
      \/ /\ pc' = "finish" /\ pending' = {} /\ current'.status \in {Failed, Canceled}
         /\ StepError(current') = current'.status
  BY <1>1, <1>4, <1>5, <1>6, StatusOfType DEF TestStatus
<1>8. TypeInv'
  BY <1>2, <1>5, <1>7 DEF IInv, TypeInv, answerVars, AllStages, Running, Working
<1>9. ReportInv' /\ AnswerInv' /\ SummaryInv' /\ CancelInv'
  <2>1. pc' \in Working /\ pc \in BeforeErr /\ (e = "canceled" => pc' \in {"S3", "finish"})
    BY <1>1, <1>2 DEF Working, BeforeErr, Early, Nil
  <2>. QED
    BY <1>1, <1>2, <1>4, <2>1, Added
<1>10. Untouched' /\ \A c \in Clusters : StepOf(c)' = {}
  BY <1>2, <1>3, <1>4, <1>5 DEF Untouched, Names
<1>11. result' = "none"
  BY <1>7, <1>9 DEF AnswerInv
<1>12. StepsInv'
  BY <1>7, <1>10, <1>11 DEF StepsInv, Early, Reading
<1>13. CurrentInv'
  BY <1>5, <1>7 DEF CurrentInv, Early, Reading
<1>14. SecretInv'
  BY <1>2 DEF IInv, SecretInv
<1>. QED
  BY <1>8, <1>9, <1>12, <1>13, <1>14 DEF IInv

(***************************************************************************)
(* The clusters.                                                           *)
(***************************************************************************)
LEMMA ClusterStep == ASSUME Distinct, IInv, NEW c \in Clusters, ReceiveCluster(c) PROVE IInv'
<1>1. PICK e \in {Nil, "error"} : AddSubStep(c, e)
  BY DEF ReceiveCluster
<1>2. /\ pc = "gather" /\ pc' = "gather" /\ c \in pending /\ pending' = pending \ {c}
      /\ UNCHANGED <<report, secrets, s3, summary>> /\ UNCHANGED answerVars
  BY DEF ReceiveCluster
<1>3. /\ current \in CurrentT /\ current.status \in {Unset, Passed, Failed}
      /\ current.err = NoErr
      /\ pending \subseteq Clusters /\ Untouched
      /\ \A d \in pending : StepOf(d) = {}
      /\ \A d \in Clusters \ pending : StepOf(d) \in {{Passed}, {Failed}}
      /\ current.status # Failed => \A d \in Clusters \ pending : StepOf(d) = {Passed}
  BY <1>2 DEF IInv, TypeInv, StepsInv, CurrentInv, BeforeErr
<1>4. c \in Names /\ c \notin Profiles /\ c \notin Operations /\ e \in AnyOutcome
  BY DEF Names, Distinct, AnyOutcome, Outcome
<1>5. /\ current' \in CurrentT
      /\ current'.status = AddStatus(current.status, StatusOf(e))
      /\ current'.err = NoErr
      /\ \A m : StepOf(m)' = IF m = c THEN StepOf(m) \cup {StatusOf(e)} ELSE StepOf(m)
  BY <1>1, <1>3, <1>4, SubStepAdded
<1>6. StatusOf(e) \in {Passed, Failed}
  BY <1>4, StatusOfType
<1>7. /\ current'.status \in {Passed, Failed}
      /\ current'.status # Failed => current.status # Failed /\ StatusOf(e) = Passed
  BY <1>3, <1>5, <1>6, AddResult
<1>8. TypeInv'
  BY <1>2, <1>5 DEF IInv, TypeInv, answerVars
<1>9. ReportInv' /\ AnswerInv' /\ SummaryInv' /\ CancelInv'
  <2>1. pc' \in Working /\ pc \in BeforeErr /\ e # "canceled" /\ c # "validate data"
    BY <1>2, <1>4 DEF Working, BeforeErr, Nil, Operations
  <2>. QED
    BY <1>1, <1>2, <1>4, <2>1, Added
<1>10. Untouched'
  BY <1>2, <1>3, <1>4, <1>5 DEF Untouched
<1>11. /\ \A d \in pending' : StepOf(d)' = {}
       /\ \A d \in Clusters \ pending' : StepOf(d)' \in {{Passed}, {Failed}}
       /\ current'.status # Failed => \A d \in Clusters \ pending' : StepOf(d)' = {Passed}
  <2>1. ASSUME NEW d \in pending' PROVE StepOf(d)' = {}
    BY <1>2, <1>3, <1>5, <2>1
  <2>2. StepOf(c)' = {StatusOf(e)}
    BY <1>2, <1>3, <1>5
  <2>3. ASSUME NEW d \in Clusters \ pending', d # c
        PROVE  d \in Clusters \ pending /\ StepOf(d)' = StepOf(d)
    BY <1>2, <1>5, <2>3
  <2>. QED
    BY <1>3, <1>6, <1>7, <2>1, <2>2, <2>3
<1>12. StepsInv'
  <2>1. result' = "none"
    BY <1>2, <1>9 DEF AnswerInv
  <2>. QED
    BY <1>2, <1>3, <1>10, <1>11, <2>1 DEF StepsInv, Early, Reading
<1>13. CurrentInv'
  BY <1>2, <1>5, <1>7 DEF CurrentInv, Early, Reading
<1>14. SecretInv'
  BY <1>2 DEF IInv, SecretInv
<1>. QED
  BY <1>8, <1>9, <1>12, <1>13, <1>14 DEF IInv

(* A step that adds nothing to the current step keeps a cancellation.      *)
LEMMA CancelKept ==
  ASSUME IInv, pc \in Working, UNCHANGED summary, \A m : StepOf(m)' = StepOf(m),
         current'.status = current.status,
         pc \in {"S3", "finish"} => pc' \in {"S3", "finish"} \/ current.status # Canceled,
         pc' \in Working
  PROVE  CancelInv'
<1>1. pc' \notin {"failed", "done"}
  BY DEF Working, Reading
<1>2. NoSummary => NoSummary'
  BY DEF NoSummary
<1>3. ASSUME NEW n \in Names, Canceled \in StepOf(n)'
      PROVE  /\ pc' \in {"S3", "finish"} /\ current'.status = Canceled
             /\ NoSummary' /\ StepOf("validate data")' = {}
  <2>1. /\ pc \in {"S3", "finish", "failed", "done"} /\ current.status = Canceled
        /\ NoSummary /\ StepOf("validate data") = {}
    BY <1>3 DEF IInv, CancelInv
  <2>2. pc \in {"S3", "finish"}
    BY <2>1 DEF Working, Reading
  <2>. QED
    BY <1>2, <2>1, <2>2
<1>. QED
  BY <1>1, <1>3 DEF CancelInv

LEMMA ClustersDoneStep == ASSUME Distinct, IInv, ClustersDone PROVE IInv'
<1>1. /\ pc = "gather" /\ pending = {} /\ pending' = {}
      /\ current' = ErrOf(current)
      /\ pc' = IF current.status \in {Canceled, Failed} THEN "finish" ELSE "read profiles"
      /\ UNCHANGED <<report, secrets, s3, summary>> /\ UNCHANGED answerVars
  BY DEF ClustersDone
<1>2. /\ current \in CurrentT /\ current.status \in {Unset, Passed, Failed}
      /\ current.err = NoErr /\ Untouched
      /\ current.status # Failed => Gathered
  BY <1>1 DEF IInv, TypeInv, StepsInv, CurrentInv, BeforeErr, Gathered
<1>3. /\ current' \in CurrentT /\ current'.status = current.status
      /\ \A m : StepOf(m)' = StepOf(m)
      /\ current.status \in {Failed, Canceled} =>
           current'.err = current.status /\ StepError(current') = current.status
      /\ current.status \notin {Failed, Canceled} => current'.err = NoErr
  BY <1>1, <1>2, ErrOfKeeps
<1>4. \/ /\ pc' = "finish" /\ current'.status = Failed /\ StepError(current') = Failed
      \/ /\ pc' = "read profiles" /\ current'.status \in {Unset, Passed} /\ Gathered
         /\ current'.err = NoErr
  <2>1. CASE current.status = Failed
    BY <1>1, <1>3, <2>1
  <2>2. CASE current.status \in {Unset, Passed}
    <3>1. current.status \notin {Failed, Canceled}
      BY <2>2 DEF Unset, Passed, Failed, Canceled
    <3>. QED
      BY <1>1, <1>2, <1>3, <2>2, <3>1
  <2>. QED
    BY <1>2, <2>1, <2>2
<1>5. pc \in Working /\ pc' \in Working /\ pc \in BeforeErr
  BY <1>1 DEF Working, BeforeErr, Reading
<1>6. TypeInv'
  <2>1. pc' \in AllStages
    BY <1>5 DEF AllStages, Running
  <2>. QED
    BY <1>1, <1>3, <2>1 DEF IInv, TypeInv, answerVars
<1>7. ReportInv' /\ AnswerInv'
  BY <1>1, <1>5, WorkKeeps
<1>8. SummaryInv'
  <2>1. StepOf("validate data")' = {}
    BY <1>3, <1>5 DEF IInv, SummaryInv
  <2>. QED
    BY <1>1, <1>5, <2>1, SummaryKept
<1>9. CancelInv'
  <2>1. pc \notin {"S3", "finish"}
    BY <1>1
  <2>. QED
    BY <1>1, <1>3, <1>5, <2>1, CancelKept
<1>10. Untouched' /\ (Gathered => Gathered')
  BY <1>1, <1>2, <1>3 DEF Untouched, Gathered
<1>11. StepsInv'
  <2>1. result' = "none"
    BY <1>4, <1>7 DEF AnswerInv
  <2>. QED
    BY <1>4, <1>10, <2>1 DEF StepsInv, Early, Reading
<1>12. CurrentInv'
  BY <1>4 DEF CurrentInv, BeforeErr, Early, Reading
<1>13. SecretInv'
  BY <1>1 DEF IInv, SecretInv
<1>. QED
  BY <1>6, <1>7, <1>8, <1>9, <1>11, <1>12, <1>13 DEF IInv

(***************************************************************************)
(* The S3 profiles.                                                        *)
(***************************************************************************)
LEMMA ReadStep ==
  ASSUME Distinct, IInv, ReadProfiles \/ \E p \in Profiles : ReadSecret(p)
  PROVE  IInv'
<1>1. /\ pc \in Reading /\ pc' = "read secrets" /\ pending' \in SUBSET Profiles
      /\ secrets \subseteq secrets' /\ secrets' \in SUBSET Profiles
      /\ UNCHANGED <<current, report, s3, summary>> /\ UNCHANGED answerVars
  <2>1. CASE ReadProfiles
    BY <2>1 DEF ReadProfiles, Reading, IInv, TypeInv
  <2>2. CASE \E p \in Profiles : ReadSecret(p)
    BY <2>2 DEF ReadSecret, Reading, IInv, TypeInv, StepsInv
  <2>. QED
    BY <2>1, <2>2
<1>2. /\ Untouched /\ Gathered /\ current.status \in {Unset, Passed} /\ current.err = NoErr
      /\ current \in CurrentT /\ StepOf("validate data") = {}
  BY <1>1 DEF IInv, TypeInv, StepsInv, CurrentInv, SummaryInv, BeforeErr
<1>3. \A m : StepOf(m)' = StepOf(m)
  BY <1>1, StepOfKept
<1>4. Untouched' /\ Gathered'
  BY <1>1, <1>2, <1>3 DEF Untouched, Gathered
<1>5. pc \in Working /\ pc' \in Working /\ pc \in BeforeErr
  BY <1>1 DEF Working, BeforeErr, Reading
<1>6. TypeInv'
  <2>1. pc' \in AllStages
    BY <1>5 DEF AllStages, Running
  <2>. QED
    BY <1>1, <2>1 DEF IInv, TypeInv, answerVars
<1>7. ReportInv' /\ AnswerInv' /\ SummaryInv'
  BY <1>1, <1>2, <1>3, <1>5, WorkKeeps, SummaryKept
<1>8. CancelInv'
  <2>1. pc \notin {"S3", "finish"}
    BY <1>1 DEF Reading
  <2>. QED
    BY <1>1, <1>3, <1>5, <2>1, CancelKept
<1>9. StepsInv'
  <2>1. result' = "none"
    BY <1>1, <1>7 DEF AnswerInv
  <2>. QED
    BY <1>1, <1>4, <2>1 DEF StepsInv, Early, Reading
<1>10. CurrentInv'
  BY <1>1, <1>2 DEF CurrentInv, Early, Reading
<1>11. SecretInv'
  BY <1>1 DEF IInv, SecretInv
<1>. QED
  BY <1>6, <1>7, <1>8, <1>9, <1>10, <1>11 DEF IInv

LEMMA InspectedStep ==
  ASSUME Distinct, IInv, pc \in Reading,
         NEW e \in {Nil, "error", "canceled"}, NEW to, InspectedS3(e, to),
         e = Nil => to = "S3",
         e = "error" => to \in {"finish", "validate data"},
         to = "validate data" => command # "gather-application",
         e = "canceled" => to = "finish"
  PROVE  IInv'
<1>. DEFINE n == "inspect S3 profiles"
<1>1. /\ AddSubStep(n, e) /\ pc' = to
      /\ pending' = IF to = "S3" THEN Profiles ELSE {}
      /\ UNCHANGED <<report, secrets, s3, summary>> /\ UNCHANGED answerVars
  BY DEF InspectedS3
<1>2. /\ current \in CurrentT /\ current.status \in {Unset, Passed} /\ current.err = NoErr
      /\ Untouched /\ Gathered
  BY DEF IInv, TypeInv, StepsInv, CurrentInv, BeforeErr
<1>3. n \in Names /\ n \notin Clusters \cup Profiles /\ e \in AnyOutcome
  BY DEF Names, Distinct, Operations, AnyOutcome, Outcome
<1>4. /\ current' \in CurrentT
      /\ current'.status = AddStatus(current.status, StatusOf(e))
      /\ current'.err = NoErr
      /\ \A m : StepOf(m)' = IF m = n THEN StepOf(m) \cup {StatusOf(e)} ELSE StepOf(m)
      /\ StepError(current') = IF e = Nil THEN NoErr ELSE StatusOf(e)
  BY <1>1, <1>2, <1>3, SubStepAdded
<1>5. current'.status = StatusOf(e)
  BY <1>2, <1>3, <1>4, StatusOfType, StillPassed
<1>6. \/ to = "S3" /\ current'.status = Passed
      \/ to = "validate data" /\ current'.status = Failed /\ command # "gather-application"
      \/ /\ to = "finish" /\ current'.status \in {Failed, Canceled}
         /\ StepError(current') = current'.status
  <2>1. CASE e = Nil
    BY <1>3, <1>5, <2>1, StatusOfType
  <2>2. CASE e \in {"error", "canceled"}
    <3>1. e # Nil /\ StatusOf(e) \in {Failed, Canceled} /\ (e = "error" => StatusOf(e) = Failed)
      BY <1>3, <2>2, StatusOfType DEF Nil
    <3>. QED
      BY <1>4, <1>5, <2>2, <3>1
  <2>. QED
    BY <2>1, <2>2
<1>7. pc' \in {"S3", "validate data", "finish"}
  BY <1>1, <1>6
<1>8. TypeInv'
  <2>1. pc' \in AllStages
    BY <1>7 DEF AllStages, Running, Working
  <2>. QED
    BY <1>1, <1>4, <2>1 DEF IInv, TypeInv, answerVars
<1>9. ReportInv' /\ AnswerInv' /\ SummaryInv' /\ CancelInv'
  <2>1. /\ pc' \in Working /\ pc \in BeforeErr /\ pc \notin {"validate config", "S3"}
        /\ e = "canceled" => pc' \in {"S3", "finish"}
    BY <1>1, <1>7 DEF Working, BeforeErr, Reading
  <2>. QED
    BY <1>1, <1>3, <2>1, Added
<1>10. /\ \A p \in Profiles : s3'[p] = "none" /\ StepOf(p)' = {}
       /\ Untouched' /\ Gathered'
  BY <1>1, <1>2, <1>3, <1>4 DEF Untouched, Gathered
<1>11. to = "S3" => Agree' /\ pending' = Profiles
  BY <1>1, <1>6, <1>10 DEF Agree
<1>12. StepsInv'
  <2>1. result' = "none" /\ command' = command
    BY <1>1, <1>7, <1>9 DEF AnswerInv, answerVars
  <2>2. pc' = "S3" => \A p \in Profiles \ pending' : FALSE
    BY <1>1, <1>11
  <2>. QED
    BY <1>1, <1>6, <1>7, <1>10, <1>11, <2>1, <2>2 DEF StepsInv, Early, Reading
<1>13. CurrentInv'
  <2>1. pc' = "S3" => current'.status \in TestStatus
    BY <1>1, <1>6 DEF TestStatus
  <2>. QED
    BY <1>1, <1>4, <1>6, <1>7, <2>1 DEF CurrentInv, BeforeErr, Early, Reading
<1>14. SecretInv'
  BY <1>1 DEF IInv, SecretInv
<1>. QED
  BY <1>8, <1>9, <1>12, <1>13, <1>14 DEF IInv

(* AddStep does not panic: the name of a profile without a result is new.  *)
LEMMA ProfileStep == ASSUME Distinct, IInv, NEW p \in Profiles, ReceiveProfile(p) PROVE IInv'
<1>1. /\ pc = "S3" /\ p \in pending /\ pending' = pending \ {p}
      /\ UNCHANGED <<report, secrets, summary>> /\ UNCHANGED answerVars
  BY DEF ReceiveProfile
<1>2. PICK e \in S3OutcomeOf(p) :
        /\ s3' = [s3 EXCEPT ![p] = e]
        /\ IF HasStep(current, NameOf(p))
           THEN pc' = "panic" /\ UNCHANGED current
           ELSE AddSubStep(NameOf(p), e) /\ UNCHANGED pc
  BY DEF ReceiveProfile
<1>3. e \in AnyOutcome /\ (e = Nil => p \in secrets)
  BY DEF S3OutcomeOf, AnyOutcome, Outcome, Aborted, Nil
<1>4. /\ current \in CurrentT /\ current.status \in TestStatus /\ current.err = NoErr
      /\ s3 \in [Profiles -> AnyOutcome \cup {"none"}]
      /\ pending \subseteq Profiles /\ Gathered /\ Agree
      /\ \A q \in pending : s3[q] = "none" /\ StepOf(q) = {}
      /\ \A q \in Profiles \ pending : Received(q)
  BY <1>1 DEF IInv, TypeInv, StepsInv, CurrentInv, BeforeErr
<1>5. NameOf(p) = p
  BY DEF NameOf, Distinct
<1>6. ~HasStep(current, p)
  <2>. SUFFICES ASSUME NEW i \in DOMAIN current.items, current.items[i].name = p PROVE FALSE
    BY DEF HasStep
  <2>1. current.items[i].status \in StepOf(p)
    BY DEF StepOf
  <2>. QED
    BY <1>1, <1>4, <2>1
<1>7. AddSubStep(p, e) /\ pc' = "S3"
  BY <1>1, <1>2, <1>5, <1>6
<1>8. p \in Names /\ p \notin Clusters /\ p \notin Operations
  BY DEF Names, Distinct
<1>9. /\ current' \in CurrentT
      /\ current'.status = AddStatus(current.status, StatusOf(e))
      /\ current'.err = NoErr
      /\ \A m : StepOf(m)' = IF m = p THEN StepOf(m) \cup {StatusOf(e)} ELSE StepOf(m)
  BY <1>3, <1>4, <1>7, <1>8, SubStepAdded
<1>10. /\ s3' \in [Profiles -> AnyOutcome \cup {"none"}]
       /\ s3'[p] = e /\ \A q \in Profiles \ {p} : s3'[q] = s3[q]
  BY <1>2, <1>3, <1>4
<1>11. TypeInv'
  BY <1>1, <1>7, <1>9, <1>10 DEF IInv, TypeInv, answerVars
<1>12. ReportInv' /\ AnswerInv' /\ SummaryInv' /\ CancelInv'
  <2>1. pc' \in Working /\ pc \in BeforeErr /\ p # "validate data"
    BY <1>1, <1>7, <1>8 DEF Working, BeforeErr, Operations
  <2>. QED
    BY <1>1, <1>3, <1>7, <1>8, <2>1, Added
<1>13. /\ current'.status \in TestStatus
       /\ current'.status = Passed <=> current.status = Passed /\ e = Nil
  BY <1>3, <1>4, <1>9, StatusOfType, BothPassed
<1>14. Agree'
  <2>1. "none" # e
    BY <1>3 DEF AnyOutcome, Outcome, Aborted, Nil
  <2>2. s3[p] = "none"
    BY <1>1, <1>4
  <2>. QED
    BY <1>4, <1>10, <1>13, <2>1, <2>2 DEF Agree
<1>15. Gathered'
  BY <1>4, <1>8, <1>9 DEF Gathered
<1>16. /\ \A q \in pending' : s3'[q] = "none" /\ StepOf(q)' = {}
       /\ \A q \in Profiles \ pending' : Received(q)'
  <2>1. ASSUME NEW q \in pending' PROVE s3'[q] = "none" /\ StepOf(q)' = {}
    BY <1>1, <1>4, <1>9, <1>10, <2>1
  <2>2. Received(p)'
    <3>1. StepOf(p) = {}
      BY <1>1, <1>4
    <3>. QED
      BY <1>3, <1>9, <1>10, <3>1 DEF Received
  <2>3. ASSUME NEW q \in Profiles \ pending', q # p PROVE Received(q)'
    BY <1>1, <1>4, <1>9, <1>10, <2>3 DEF Received
  <2>. QED
    BY <2>1, <2>2, <2>3
<1>17. StepsInv'
  <2>1. result' = "none"
    BY <1>7, <1>12 DEF AnswerInv
  <2>. QED
    BY <1>1, <1>4, <1>7, <1>14, <1>15, <1>16, <2>1 DEF StepsInv, Early, Reading
<1>18. CurrentInv'
  BY <1>7, <1>9, <1>13 DEF CurrentInv, Early, Reading
<1>19. SecretInv'
  BY <1>1, <1>3, <1>10 DEF IInv, SecretInv
<1>. QED
  BY <1>11, <1>12, <1>17, <1>18, <1>19 DEF IInv

(* Every profile has a result: what happens next is decided by the status  *)
(* of the current step.                                                    *)
LEMMA ProfilesDoneStep ==
  ASSUME Distinct, IInv, NEW to, ProfilesDone(to),
         \/ to = "finish" /\ current.status \in {Failed, Canceled}
         \/ to = "finish passed" /\ current.status = Passed /\ command = "gather-application"
         \/ /\ to = "validate data" /\ current.status \in {Passed, Failed}
            /\ command # "gather-application"
  PROVE  IInv'
<1>1. /\ pc = "S3" /\ pending = {} /\ pending' = {} /\ pc' = to
      /\ current' = ErrOf(current)
      /\ UNCHANGED <<report, secrets, s3, summary>> /\ UNCHANGED answerVars
  BY DEF ProfilesDone
<1>2. /\ current \in CurrentT /\ current.err = NoErr /\ Gathered /\ Agree
      /\ \A p \in Profiles : Received(p)
  BY <1>1 DEF IInv, TypeInv, StepsInv, CurrentInv, BeforeErr
<1>3. /\ current' \in CurrentT /\ current'.status = current.status
      /\ \A m : StepOf(m)' = StepOf(m)
      /\ current.status \in {Failed, Canceled} =>
           current'.err = current.status /\ StepError(current') = current.status
      /\ current.status \notin {Failed, Canceled} => current'.err = NoErr
  BY <1>1, <1>2, ErrOfKeeps
<1>4. /\ pc \in Working /\ pc \in BeforeErr
      /\ pc' \in Working /\ pc' \in {"finish", "finish passed", "validate data"}
  BY <1>1 DEF Working, BeforeErr, Reading
<1>5. NoSummary /\ NoSummary' /\ StepOf("validate data")' = {}
  BY <1>1, <1>3, <1>4 DEF IInv, SummaryInv, NoSummary
<1>6. TypeInv'
  <2>1. pc' \in AllStages
    BY <1>4 DEF AllStages, Running
  <2>. QED
    BY <1>1, <1>3, <2>1 DEF IInv, TypeInv, answerVars
<1>7. ReportInv' /\ AnswerInv' /\ SummaryInv'
  BY <1>1, <1>4, <1>5, WorkKeeps, SummaryKept
<1>8. CancelInv'
  <2>1. pc' \in {"S3", "finish"} \/ current.status # Canceled
    BY <1>1 DEF Passed, Failed, Canceled
  <2>. QED
    BY <1>1, <1>3, <1>4, <2>1, CancelKept
<1>9. Gathered' /\ (\A p \in Profiles : Received(p)') /\ Agree'
  BY <1>1, <1>2, <1>3 DEF Gathered, Received, Agree
<1>10. ASSUME to = "finish passed" PROVE Complete'
  <2>1. current.status = Passed /\ command' = "gather-application"
    BY <1>1, <1>10 DEF answerVars
  <2>2. ASSUME NEW p \in Profiles PROVE s3'[p] = Nil /\ StepOf(p)' = {Passed}
    <3>1. "none" \notin AnyOutcome /\ StatusOf(Nil) = Passed
      BY DEF AnyOutcome, Outcome, Aborted, Nil, StatusOf
    <3>2. s3[p] = Nil
      BY <1>2, <2>1, <3>1 DEF Agree, Received
    <3>. QED
      BY <1>1, <1>2, <1>3, <3>1, <3>2 DEF Received
  <2>3. ~HasIssues(summary')
    BY <1>5, NoIssues DEF NoSummary
  <2>. QED
    BY <1>9, <2>1, <2>2, <2>3 DEF Complete
<1>11. StepsInv'
  <2>1. result' = "none" /\ command' = command
    BY <1>1, <1>4, <1>7 DEF AnswerInv, answerVars
  <2>. QED
    BY <1>1, <1>4, <1>9, <1>10, <2>1 DEF StepsInv, Early, Reading
<1>12. CurrentInv'
  <2>1. \/ /\ to = "finish" /\ current'.status \in {Failed, Canceled}
           /\ StepError(current') = current'.status
        \/ to = "finish passed" /\ current'.status = Passed
        \/ /\ to = "validate data" /\ current'.status \in {Passed, Failed}
           /\ current'.err \in {NoErr, Failed}
    <3>1. Passed \notin {Failed, Canceled}
      BY DEF Passed, Failed, Canceled
    <3>. QED
      BY <1>3, <3>1
  <2>. QED
    BY <1>1, <2>1 DEF CurrentInv, BeforeErr, Early, Reading
<1>13. SecretInv'
  BY <1>1 DEF IInv, SecretInv
<1>. QED
  BY <1>6, <1>7, <1>8, <1>11, <1>12, <1>13 DEF IInv

(***************************************************************************)
(* The validation.                                                         *)
(***************************************************************************)
(* The counters that validating adds, and what no issue means.             *)
LEMMA S3Counts ==
  ASSUME Distinct
  PROVE  /\ S3Validations \in [States -> 0..(Cardinality(Profiles) + 1)]
         /\ S3Validations["problem"] = 0 =>
              /\ Results # {} /\ \A p \in Results : s3[p] = Nil
              /\ S3Validations["ok"] = Cardinality(Results) + 1
<1>. DEFINE Ok  == {p \in Results : s3[p] = Nil}
            Bad == {p \in Results : s3[p] # Nil}
            N   == Cardinality(Profiles)
<1>1. N \in Nat
  BY ProfilesCounted
<1>2. /\ IsFiniteSet(Ok) /\ Cardinality(Ok) \in Nat /\ Cardinality(Ok) <= N
      /\ IsFiniteSet(Bad) /\ Cardinality(Bad) \in Nat /\ Cardinality(Bad) <= N
  <2>1. Ok \subseteq Profiles /\ Bad \subseteq Profiles /\ IsFiniteSet(Profiles)
    BY DEF Results, Distinct
  <2>. QED
    BY <2>1, FS_Subset, FS_CardinalityType
<1>3. /\ S3Validations["ok"] = Cardinality(Ok) + (IF Results # {} THEN 1 ELSE 0)
      /\ S3Validations["problem"] = Cardinality(Bad) + (IF Results = {} THEN 1 ELSE 0)
      /\ S3Validations["warning"] = 0
      /\ S3Validations = [state \in States |-> S3Validations[state]]
  BY DEF S3Validations, States
<1>4. ASSUME S3Validations["problem"] = 0
      PROVE  /\ Results # {} /\ \A p \in Results : s3[p] = Nil
             /\ S3Validations["ok"] = Cardinality(Results) + 1
  <2>1. Results # {} /\ Cardinality(Bad) = 0
    <3>. HIDE DEF Ok, Bad
    <3>. QED
      BY <1>2, <1>3, <1>4
  <2>2. Bad = {}
    BY <1>2, <2>1, FS_EmptySet
  <2>3. Ok = Results
    BY <2>2
  <2>. QED
    BY <1>3, <2>1, <2>2, <2>3
<1>5. \A state \in States : S3Validations[state] \in 0..(N + 1)
  <2>. HIDE DEF Ok, Bad, N
  <2>. QED
    BY <1>1, <1>2, <1>3 DEF States
<1>. QED
  BY <1>3, <1>4, <1>5

(* Without an issue every profile passed, and one more check did.          *)
LEMMA NoIssueMeans ==
  ASSUME Distinct, NEW found \in Found, ~HasIssues(Plus(found, S3Validations))
  PROVE  /\ Results # {} /\ \A p \in Results : s3[p] = Nil
         /\ Plus(found, S3Validations)["ok"] > Cardinality(Results)
<1>1. Plus(found, S3Validations)["problem"] = found["problem"] + S3Validations["problem"]
      /\ Plus(found, S3Validations)["ok"] = found["ok"] + S3Validations["ok"]
  BY DEF Plus, States
<1>2. found["problem"] \in Nat /\ found["ok"] \in Nat
  BY DEF Found, States, MaxValidations
<1>3. S3Validations["problem"] \in Nat
  BY S3Counts, ProfilesCounted DEF States
<1>4. S3Validations["problem"] = 0
  BY <1>1, <1>2, <1>3 DEF HasIssues
<1>5. IsFiniteSet(Results) /\ Cardinality(Results) \in Nat
  BY FS_Subset, FS_CardinalityType DEF Results, Distinct
<1>. QED
  BY <1>1, <1>2, <1>4, <1>5, S3Counts

LEMMA SummaryType ==
  ASSUME Distinct, NEW found \in Found
  PROVE  /\ found \in [States -> 0..(Cardinality(Profiles) + 1 + MaxValidations)]
         /\ Plus(found, S3Validations)
              \in [States -> 0..(Cardinality(Profiles) + 1 + MaxValidations)]
<1>. DEFINE N == Cardinality(Profiles)
<1>1. N \in Nat /\ MaxValidations = 1
  BY ProfilesCounted DEF MaxValidations
<1>2. found \in [States -> 0..1] /\ S3Validations \in [States -> 0..(N + 1)]
  BY <1>1, S3Counts DEF Found
<1>. HIDE DEF N
<1>3. \A state \in States :
        /\ found[state] \in 0..(N + 1 + 1)
        /\ found[state] + S3Validations[state] \in 0..(N + 1 + 1)
  <2>. TAKE state \in States
  <2>1. found[state] \in 0..1 /\ S3Validations[state] \in 0..(N + 1)
    BY <1>2
  <2>. QED
    BY <1>1, <2>1
<1>. QED
  BY <1>1, <1>2, <1>3 DEF Plus, N

LEMMA ValidateStep ==
  ASSUME Distinct, IInv, command # "gather-application", ValidateGatheredData
  PROVE  IInv'
<1>. DEFINE n == "validate data"
<1>1. /\ pc = "validate data"
      /\ UNCHANGED <<pending, report, secrets, s3>> /\ UNCHANGED answerVars
  BY DEF ValidateGatheredData
<1>2. PICK found \in Found :
        \/ /\ summary' = found /\ AddSubStep(n, "error") /\ pc' = "finish"
        \/ /\ summary' = Plus(found, S3Validations)
           /\ HasIssues(summary') /\ AddSubStep(n, "error") /\ pc' = "finish"
        \/ /\ summary' = Plus(found, S3Validations)
           /\ ~HasIssues(summary') /\ AddSubStep(n, Nil) /\ pc' = "finish passed"
  BY DEF ValidateGatheredData
<1>3. PICK e \in {Nil, "error"} :
        /\ AddSubStep(n, e)
        /\ pc' = IF e = Nil THEN "finish passed" ELSE "finish"
        /\ e = Nil => /\ summary' = Plus(found, S3Validations)
                      /\ ~HasIssues(Plus(found, S3Validations))
  BY <1>2 DEF Nil
<1>4. /\ current \in CurrentT /\ current.status \in {Passed, Failed}
      /\ current.err \in {NoErr, Failed} /\ Gathered
      /\ Untouched \/ (Agree /\ \A p \in Profiles : Received(p))
  BY <1>1 DEF IInv, TypeInv, StepsInv, CurrentInv
<1>5. n \in Names /\ n \notin Clusters \cup Profiles /\ e \in AnyOutcome
  BY DEF Names, Distinct, Operations, AnyOutcome, Outcome
<1>6. /\ current' \in CurrentT
      /\ current'.status = AddStatus(current.status, StatusOf(e))
      /\ \A m : StepOf(m)' = IF m = n THEN StepOf(m) \cup {StatusOf(e)} ELSE StepOf(m)
      /\ StepError(current') = IF current.err # NoErr THEN current.err
                               ELSE IF e = Nil THEN NoErr ELSE StatusOf(e)
  BY <1>3, <1>4, <1>5, SubStepAdded
<1>7. Gathered'
  BY <1>4, <1>5, <1>6 DEF Gathered
<1>8. summary' \in [States -> 0..(Cardinality(Profiles) + 1 + MaxValidations)]
  BY <1>2, SummaryType
<1>9. pc \in Working /\ pc' \in Working /\ pc' \in {"finish", "finish passed"}
  BY <1>1, <1>3 DEF Working
<1>10. TypeInv'
  <2>1. pc' \in AllStages
    BY <1>9 DEF AllStages, Running
  <2>. QED
    BY <1>1, <1>6, <1>8, <2>1 DEF IInv, TypeInv, answerVars
<1>11. ReportInv' /\ AnswerInv'
  BY <1>1, <1>9, WorkKeeps
<1>12. result' = "none" /\ ~html' /\ command' # "gather-application"
  BY <1>1, <1>9, <1>11 DEF AnswerInv, answerVars
<1>13. SummaryInv'
  BY <1>7, <1>9, <1>12 DEF SummaryInv, BeforeErr, Early, Reading
<1>14. CancelInv'
  <2>1. ASSUME NEW m \in Names PROVE Canceled \notin StepOf(m)'
    <3>1. Canceled \notin StepOf(m)
      BY <1>1, NotCanceled
    <3>2. StatusOf(e) # Canceled
      BY <1>5, StatusOfType DEF Nil
    <3>. QED
      BY <1>6, <3>1, <3>2
  <2>. QED
    BY <2>1 DEF CancelInv
<1>15. ASSUME e = Nil PROVE Complete' /\ current'.status = Passed
  <2>1. /\ Results # {} /\ \A p \in Results : s3[p] = Nil
        /\ Plus(found, S3Validations)["ok"] > Cardinality(Results)
    BY <1>3, <1>15, NoIssueMeans
  <2>2. Agree /\ \A p \in Profiles : Received(p)
    BY <1>4, <2>1 DEF Results, Untouched
  <2>3. "none" \notin AnyOutcome /\ StatusOf(Nil) = Passed
    BY DEF AnyOutcome, Outcome, Aborted, Nil, StatusOf
  <2>4. Results = Profiles
    BY <2>2, <2>3 DEF Results, Received
  <2>5. current'.status = Passed
    <3>1. current.status = Passed
      BY <2>1, <2>2, <2>4 DEF Agree
    <3>. QED
      BY <1>6, <1>15, <2>3, <3>1, BothPassed DEF TestStatus
  <2>6. \A p \in Profiles : s3'[p] = Nil /\ StepOf(p)' = {Passed}
    BY <1>1, <1>5, <1>6, <2>1, <2>2, <2>3, <2>4 DEF Received
  <2>. QED
    BY <1>3, <1>7, <1>15, <2>1, <2>4, <2>5, <2>6 DEF Complete
<1>16. StepsInv'
  BY <1>3, <1>9, <1>12, <1>15 DEF StepsInv, Early, Reading
<1>17. CurrentInv'
  <2>1. CASE e = Nil
    BY <1>3, <1>15, <2>1 DEF CurrentInv, BeforeErr, Early, Reading
  <2>2. CASE e = "error"
    <3>1. StatusOf(e) = Failed /\ e # Nil
      BY <1>5, <2>2, StatusOfType DEF Nil
    <3>2. current'.status = Failed
      BY <1>4, <1>6, <3>1, FailedStays
    <3>3. StepError(current') = Failed
      BY <1>4, <1>6, <3>1
    <3>. QED
      BY <1>3, <3>1, <3>2, <3>3 DEF CurrentInv, BeforeErr, Early, Reading
  <2>. QED
    BY <2>1, <2>2
<1>18. SecretInv'
  BY <1>1 DEF IInv, SecretInv
<1>. QED
  BY <1>10, <1>11, <1>13, <1>14, <1>16, <1>17, <1>18 DEF IInv

(***************************************************************************)
(* The end of a command.                                                   *)
(***************************************************************************)
LEMMA CurrentIsStep == current \in CurrentT => current \in StepT
BY DEF CurrentT, StepT

(* finish: the step goes to the report, and the report takes its status.   *)
LEMMA FinishSteps ==
  ASSUME Distinct, IInv, FinishStep \/ FinishStepPassed
  PROVE  IInv'
<1>1. /\ pc \in {"finish", "finish passed"}
      /\ report' = AddStep(report, current)
      /\ UNCHANGED <<pending, current, secrets, s3, summary>> /\ UNCHANGED answerVars
  BY DEF FinishStep, FinishStepPassed, EndAs
<1>2. /\ current \in CurrentT /\ report \in ReportT /\ report.status = Passed
      /\ Len(report.items) = 1 /\ current.status \in {Passed, Failed, Canceled}
  BY <1>1 DEF IInv, TypeInv, ReportInv, CurrentInv, Working
<1>3. current.status \in TestStatus
  BY <1>2 DEF TestStatus
<1>4. /\ report' \in ReportT /\ report'.status = AddStatus(Passed, current.status)
      /\ ReportError(report') = StepError(current)
  BY <1>1, <1>2, <1>3, CurrentIsStep, AddStepReport
<1>5. Len(report'.items) \in 0..2
  <2>1. Len(AddStep(report, current).items) = Len(report.items) + 1
    BY <1>2, <1>3, CurrentIsStep, AddStepReport
  <2>. QED
    BY Zenon, <1>1, <1>2, <2>1, StepCounts
<1>6. report'.status = current.status
  BY <1>2, <1>3, <1>4, StillPassed
<1>7. \/ /\ pc = "finish" /\ pc' = "failed" /\ report'.status \in {Failed, Canceled}
         /\ ReportError(report') = report'.status
      \/ /\ pc = "finish passed" /\ pc' = "passed" /\ report'.status = Passed
  <2>1. CASE FinishStep
    <3>1. /\ pc = "finish" /\ pc' = IF report'.status = Passed THEN "passed" ELSE "failed"
          /\ current.status \in {Failed, Canceled} /\ StepError(current) = current.status
      BY <1>1, <2>1 DEF FinishStep, EndAs, IInv, CurrentInv
    <3>2. Passed \notin {Failed, Canceled}
      BY DEF Passed, Failed, Canceled
    <3>. QED
      BY <1>4, <1>6, <3>1, <3>2
  <2>2. CASE FinishStepPassed
    BY <1>6, <2>2 DEF FinishStepPassed, EndAs, IInv, CurrentInv
  <2>. QED
    BY <2>1, <2>2
<1>8. \A m : StepOf(m)' = StepOf(m)
  BY <1>1, StepOfKept
<1>9. pc' \in {"failed", "passed"}
  BY <1>7
<1>10. TypeInv'
  <2>1. pc' \in AllStages
    BY <1>9 DEF AllStages, Running
  <2>. QED
    BY <1>1, <1>4, <2>1 DEF IInv, TypeInv, answerVars
<1>11. ReportInv'
  <2>1. pc' \notin Working /\ pc' # "validate config"
    BY <1>9 DEF Working, Reading
  <2>. QED
    BY <1>5, <1>7, <2>1 DEF ReportInv
<1>12. AnswerInv' /\ result = "none" /\ result' = "none"
  <2>1. result = "none" /\ saved = Unset /\ ~html /\ message = NoErr
    BY <1>1 DEF IInv, AnswerInv
  <2>. QED
    BY <1>1, <1>9, <2>1 DEF AnswerInv, answerVars
<1>13. SummaryInv'
  <2>1. pc' \notin BeforeErr \cup {"validate data"}
    BY <1>9 DEF BeforeErr, Early, Reading
  <2>. QED
    BY <1>1, <1>8, <2>1 DEF IInv, SummaryInv, answerVars, NoSummary, HasValidations, Gathered
<1>14. CancelInv'
  <2>1. ASSUME NEW m \in Names, Canceled \in StepOf(m)'
        PROVE  /\ pc' = "failed" /\ report'.status = Canceled /\ current'.status = Canceled
               /\ NoSummary' /\ StepOf("validate data")' = {}
    <3>1. /\ pc # "finish passed" /\ current.status = Canceled
          /\ NoSummary /\ StepOf("validate data") = {}
      BY <1>8, <2>1 DEF IInv, CancelInv
    <3>. QED
      BY <1>1, <1>6, <1>7, <1>8, <3>1 DEF NoSummary
  <2>. QED
    BY <2>1 DEF CancelInv
<1>15. StepsInv'
  <2>1. pc = "finish passed" => Complete'
    BY <1>1, <1>8 DEF IInv, StepsInv, Complete, Gathered, answerVars
  <2>. QED
    BY <1>7, <1>12, <2>1 DEF StepsInv, Early, Reading
<1>16. CurrentInv'
  <2>1. pc' = "passed" => current'.status = Passed
    BY <1>1, <1>7 DEF IInv, CurrentInv
  <2>. QED
    BY <1>9, <2>1 DEF CurrentInv, BeforeErr, Early, Reading
<1>17. SecretInv'
  BY <1>1 DEF IInv, SecretInv
<1>. QED
  BY <1>10, <1>11, <1>12, <1>13, <1>14, <1>15, <1>16, <1>17 DEF IInv

LEMMA ReturnStep ==
  ASSUME Distinct, IInv, ReturnFailed \/ ReturnPassed
  PROVE  IInv'
<1>1. /\ pc \in {"failed", "passed"} /\ pc' = "done" /\ WriteReport
      /\ UNCHANGED <<command, canceled, pending, current, report, secrets, s3, summary>>
      /\ \/ pc = "failed" /\ result' = "error" /\ message' = ReportError(report)
         \/ pc = "passed" /\ result' = "nil" /\ message' = message
  BY DEF ReturnFailed, ReturnPassed
<1>2. /\ saved = Unset /\ message = NoErr
      /\ pc = "passed" => report.status = Passed /\ Complete
      /\ pc = "failed" => report.status \in {Failed, Canceled} /\ ReportError(report) = report.status
      /\ Len(report.items) \in 0..2
  BY <1>1 DEF IInv, AnswerInv, ReportInv, StepsInv
<1>3. \A m : StepOf(m)' = StepOf(m)
  BY <1>1, StepOfKept
<1>4. TypeInv'
  BY <1>1 DEF IInv, TypeInv, WriteReport, HasValidations, AllStages
<1>5. ReportInv'
  BY <1>1, <1>2 DEF ReportInv, Working, Reading
<1>6. AnswerInv'
  <2>1. saved' \in {Unset, report'.status}
    BY <1>1 DEF WriteReport
  <2>2. \/ result' = "error" /\ report'.status = message' /\ message' \in {Failed, Canceled}
        \/ result' = "nil" /\ report'.status = Passed /\ message' = NoErr
    BY <1>1, <1>2
  <2>. QED
    BY <1>1, <2>1, <2>2 DEF AnswerInv
<1>7. SummaryInv'
  BY <1>1, <1>3 DEF IInv, SummaryInv, WriteReport, NoSummary, HasValidations, Gathered,
                   BeforeErr, Early, Reading
<1>8. CancelInv'
  <2>1. ASSUME NEW m \in Names, Canceled \in StepOf(m)'
        PROVE  /\ report'.status = Canceled /\ current'.status = Canceled
               /\ NoSummary' /\ StepOf("validate data")' = {}
    <3>1. /\ pc = "failed" /\ current.status = Canceled /\ report.status = Canceled
          /\ NoSummary /\ StepOf("validate data") = {}
      BY <1>1, <1>3, <2>1 DEF IInv, CancelInv
    <3>. QED
      BY <1>1, <1>3, <3>1 DEF NoSummary
  <2>. QED
    BY <1>1, <2>1 DEF CancelInv
<1>9. StepsInv'
  <2>1. result' = "nil" => Complete'
    BY <1>1, <1>2, <1>3 DEF Complete, Gathered
  <2>. QED
    BY <1>1, <2>1 DEF StepsInv, Early, Reading
<1>10. CurrentInv' /\ SecretInv'
  BY <1>1 DEF IInv, SecretInv, CurrentInv, BeforeErr, Early, Reading
<1>. QED
  BY <1>4, <1>5, <1>6, <1>7, <1>8, <1>9, <1>10 DEF IInv

(* Ctrl-C only cancels the context. *)
LEMMA QuietStep == ASSUME IInv, Interrupt \/ UNCHANGED vars PROVE IInv'
<1>1. /\ UNCHANGED <<command, pc, pending, current, report, secrets, s3, summary>>
      /\ UNCHANGED <<result, saved, html, message>>
      /\ canceled' \in BOOLEAN
  BY DEF Interrupt, vars, IInv, TypeInv
<1>2. \A m : StepOf(m)' = StepOf(m)
  BY <1>1, StepOfKept
<1>3. (Gathered <=> Gathered') /\ (NoSummary <=> NoSummary')
      /\ (HasValidations <=> HasValidations') /\ (Agree <=> Agree')
      /\ (Untouched <=> Untouched') /\ (\A p : Received(p)' <=> Received(p))
      /\ (Complete <=> Complete')
  BY <1>1, <1>2 DEF Gathered, NoSummary, HasValidations, Agree, Untouched, Received, Complete
<1>4. TypeInv'
  BY <1>1 DEF IInv, TypeInv
<1>5. StepsInv'
  BY <1>1, <1>2, <1>3 DEF IInv, StepsInv
<1>6. CurrentInv' /\ SecretInv'
  BY <1>1 DEF IInv, CurrentInv, SecretInv
<1>7. ReportInv' /\ AnswerInv'
  BY <1>1 DEF IInv, ReportInv, AnswerInv
<1>8. SummaryInv' /\ CancelInv'
  BY <1>1, <1>2, <1>3 DEF IInv, SummaryInv, CancelInv
<1>. QED
  BY <1>4, <1>5, <1>6, <1>7, <1>8 DEF IInv

(***************************************************************************)
(* The theorems.                                                           *)
(***************************************************************************)
(* What inspectS3Profiles may stop with, and where the commands go then.   *)
Inspected ==
  \E e \in {Nil, "error", "canceled"}, to \in {"S3", "finish", "validate data"} :
    /\ pc \in Reading /\ InspectedS3(e, to)
    /\ e = Nil => to = "S3"
    /\ e = "error" => to \in {"finish", "validate data"}
    /\ to = "validate data" => command # "gather-application"
    /\ e = "canceled" => to = "finish"

(* Where the three commands go when every profile has a result.            *)
AllReceived ==
  \E to \in {"finish", "finish passed", "validate data"} :
    /\ ProfilesDone(to)
    /\ \/ to = "finish" /\ current.status \in {Failed, Canceled}
       \/ to = "finish passed" /\ current.status = Passed /\ command = "gather-application"
       \/ /\ to = "validate data" /\ current.status \in {Passed, Failed}
          /\ command # "gather-application"

LEMMA InspectedKinds ==
  ASSUME \/ GatherInspectS3 /\ command = "gather-application"
         \/ (\E prefix \in BOOLEAN : InspectS3Then(prefix)) /\ command # "gather-application"
  PROVE  ReadProfiles \/ (\E p \in Profiles : ReadSecret(p)) \/ Inspected
BY DEF GatherInspectS3, InspectS3Then, Inspected, Reading, Nil

LEMMA DoneKinds ==
  ASSUME IInv, \/ GatherS3Done /\ command = "gather-application"
               \/ S3Done /\ command # "gather-application"
  PROVE  AllReceived
<1>1. pc = "S3"
  BY DEF GatherS3Done, S3Done, ProfilesDone
<1>2. current.status \in {Passed, Failed, Canceled}
  BY <1>1 DEF IInv, CurrentInv, TestStatus
<1>3. Passed # Failed /\ Passed # Canceled /\ Failed # Canceled
  BY DEF Passed, Failed, Canceled
<1>4. CASE GatherS3Done /\ command = "gather-application"
  BY <1>2, <1>3, <1>4 DEF GatherS3Done, AllReceived
<1>5. CASE S3Done /\ command # "gather-application"
  BY <1>2, <1>3, <1>5 DEF S3Done, AllReceived
<1>. QED
  BY <1>4, <1>5

(* The actions of the three commands. *)
LEMMA StepKinds ==
  ASSUME IInv, Next
  PROVE  \/ \E to \in {"inspect application", "gather"} : ValidateConfigThen(to)
         \/ InspectApplication
         \/ (\E c \in Clusters : ReceiveCluster(c)) \/ ClustersDone
         \/ ReadProfiles \/ (\E p \in Profiles : ReadSecret(p)) \/ Inspected
         \/ (\E p \in Profiles : ReceiveProfile(p)) \/ AllReceived
         \/ command # "gather-application" /\ ValidateGatheredData
         \/ FinishStep \/ FinishStepPassed \/ ReturnFailed \/ ReturnPassed
         \/ Interrupt
<1>1. CASE command = "gather-application" /\ GatherApplication
  <2>1. GatherInspectS3 => ReadProfiles \/ (\E p \in Profiles : ReadSecret(p)) \/ Inspected
    BY <1>1, InspectedKinds
  <2>2. GatherS3Done => AllReceived
    BY <1>1, DoneKinds
  <2>. QED
    BY <1>1, <2>1, <2>2 DEF GatherApplication, Ended
<1>2. CASE command = "validate-application" /\ ValidateApplication
  <2>1. InspectApplicationS3 => ReadProfiles \/ (\E p \in Profiles : ReadSecret(p)) \/ Inspected
    BY <1>2, InspectedKinds DEF InspectApplicationS3
  <2>2. GatherS3Profiles => AllReceived
    BY <1>2, DoneKinds DEF GatherS3Profiles
  <2>. QED
    BY <1>2, <2>1, <2>2 DEF ValidateApplication, ValidateApplicationData, Ended
<1>3. CASE command = "validate-clusters" /\ ValidateClusters
  <2>1. InspectClustersS3 => ReadProfiles \/ (\E p \in Profiles : ReadSecret(p)) \/ Inspected
    BY <1>3, InspectedKinds DEF InspectClustersS3
  <2>2. CheckS3 => AllReceived
    BY <1>3, DoneKinds DEF CheckS3
  <2>. QED
    BY <1>3, <2>1, <2>2 DEF ValidateClusters, ValidateClustersData, Ended
<1>. QED
  BY <1>1, <1>2, <1>3 DEF Next, Main

LEMMA NextIInv == Distinct /\ IInv /\ [Next]_vars => IInv'
<1>. SUFFICES ASSUME Distinct, IInv, [Next]_vars PROVE IInv'
  OBVIOUS
<1>1. CASE Inspected
  BY <1>1, InspectedStep DEF Inspected
<1>2. CASE AllReceived
  BY <1>2, ProfilesDoneStep DEF AllReceived
<1>3. CASE UNCHANGED vars
  BY <1>3, QuietStep
<1>. QED
  BY <1>1, <1>2, <1>3, StepKinds, ConfigStep, InspectStep, ClusterStep, ClustersDoneStep, ReadStep,
     ProfileStep, ValidateStep, FinishSteps, ReturnStep, QuietStep

(* The three commands keep their invariant, if the names of their sub      *)
(* steps differ.  Anchor: Run, and the boolean functions it calls, in      *)
(* pkg/gather/command.go, pkg/validate/application/command.go and          *)
(* pkg/validate/clusters/command.go.                                       *)
THEOREM DataConsistent == Distinct => (Spec => []IInv)
<1>. SUFFICES ASSUME Distinct PROVE Spec => []IInv
  OBVIOUS
<1>1. Init => IInv
  BY InitIInv
<1>2. IInv /\ [Next]_vars => IInv'
  BY NextIInv
<1>. QED
  BY <1>1, <1>2, PTL DEF Spec

LEMMA SubStepsNamed ==
  ASSUME NEW c \in CurrentT, NEW k \in DOMAIN c.items
  PROVE  c.items[k].name \in Names
<1>1. c.items \in Seq(SubT)
  BY DEF CurrentT
<1>2. c.items[k] \in SubT
  BY <1>1
<1>. QED
  BY <1>2 DEF SubT

(* The variables keep their types, and AddStep never panics: no step has   *)
(* two sub steps of one name.  Anchor: Step.AddStep (pkg/report).          *)
THEOREM DataTypes == Distinct => (Spec => []TypeOK)
<1>. SUFFICES ASSUME Distinct PROVE Spec => []TypeOK
  OBVIOUS
<1>1. IInv => TypeOK
  <2>. SUFFICES ASSUME IInv PROVE TypeOK
    OBVIOUS
  <2>1. /\ command \in Commands /\ canceled \in BOOLEAN /\ pending \subseteq Clusters \cup Profiles
        /\ current \in CurrentT /\ report \in ReportT /\ secrets \subseteq Profiles
        /\ summary \in [States -> 0..(Cardinality(Profiles) + 1 + MaxValidations)]
        /\ html \in BOOLEAN
    BY DEF IInv, TypeInv
  <2>2. pc \in {"validate config", "inspect application", "gather", "read profiles",
                "read secrets", "S3", "validate data", "finish", "finish passed", "failed",
                "passed", "done"}
    BY DEF IInv, TypeInv, AllStages, Running, Working, Reading
  <2>3. {current.items[j].name : j \in DOMAIN current.items} \subseteq Names
    BY <2>1, SubStepsNamed
  <2>4. /\ current.status \in {Unset, Passed, Failed, Canceled}
        /\ report.status \in {Unset, Passed, Failed, Canceled}
    BY <2>1 DEF CurrentT, ReportT, AnyStatus
  <2>5. s3 \in [Profiles -> Outcome \cup {"none", Aborted}]
    BY DEF IInv, TypeInv, AnyOutcome
  <2>6. /\ Len(report.items) \in 0..2 /\ result \in {"none", "nil", "error"}
        /\ saved \in {Unset, Passed, Failed, Canceled} /\ message \in {NoErr, Failed, Canceled}
    <3>1. Len(report.items) \in 0..2
      BY DEF IInv, ReportInv
    <3>2. result \in {"none", "nil", "error"} /\ saved \in {Unset, report.status}
      BY DEF IInv, AnswerInv
    <3>3. message \in {NoErr, Failed, Canceled}
      BY DEF IInv, AnswerInv
    <3>. QED
      BY <2>4, <3>1, <3>2, <3>3
  <2>. QED
    BY <2>1, <2>2, <2>3, <2>4, <2>5, <2>6 DEF TypeOK
<1>. QED
  BY <1>1, DataConsistent, PTL

(* The answer agrees with the report: Run follows booleans, the report     *)
(* follows AddStep and the summary.  Anchor: failed, passed and FinishStep *)
(* in pkg/gather/command.go and pkg/validate/command/command.go.           *)
THEOREM DataAnswersTruly == Distinct => (Spec => []AnswerIsTrue)
<1>. SUFFICES ASSUME Distinct PROVE Spec => []AnswerIsTrue
  OBVIOUS
<1>1. IInv => AnswerIsTrue
  <2>1. NoErr \notin {Failed, Canceled}
    BY DEF NoErr, Failed, Canceled
  <2>. QED
    BY <2>1 DEF IInv, AnswerInv, AnswerIsTrue
<1>. QED
  BY <1>1, DataConsistent, PTL

(* A nil stands for complete data: all clusters, all profiles with their   *)
(* secrets, and a validation without an issue.  Anchor: Run, gatherS3Data, *)
(* validateGatheredData (pkg/gather, pkg/validate).                        *)
THEOREM NilStandsForAll == Distinct => (Spec => []NilIsComplete)
<1>. SUFFICES ASSUME Distinct PROVE Spec => []NilIsComplete
  OBVIOUS
<1>1. IInv => NilIsComplete
  <2>1. \A p \in Profiles : NameOf(p) = p
    BY DEF NameOf, Distinct
  <2>. QED
    BY <2>1 DEF IInv, StepsInv, Complete, Gathered, SecretInv, NilIsComplete
<1>. QED
  BY <1>1, DataConsistent, PTL

(* Nothing follows a canceled operation.  Anchor: the switches over        *)
(* Current.Status in gatherApplicationS3Data (pkg/gather/command.go),      *)
(* gatherS3Profiles and checkS3 (pkg/validate).                            *)
THEOREM CancelStopsHolds == Distinct => (Spec => []CancelStops)
<1>. SUFFICES ASSUME Distinct PROVE Spec => []CancelStops
  OBVIOUS
<1>1. IInv => CancelStops
  <2>. SUFFICES ASSUME IInv, NEW k \in DOMAIN current.items, current.items[k].status = Canceled
                PROVE  /\ pc \in {"S3", "finish", "failed", "done"}
                       /\ ~HasValidations /\ ~html
                       /\ StepOf("validate data") = {}
                       /\ result # "nil" /\ (pc = "done" => report.status = Canceled)
    BY DEF CancelStops
  <2>1. current.items[k].name \in Names
    BY SubStepsNamed DEF IInv, TypeInv
  <2>2. Canceled \in StepOf(current.items[k].name)
    BY DEF StepOf
  <2>3. /\ pc \in {"S3", "finish", "failed", "done"}
        /\ pc = "done" => report.status = Canceled
        /\ NoSummary /\ StepOf("validate data") = {}
    BY <2>1, <2>2 DEF IInv, CancelInv
  <2>4. ~HasValidations
    BY <2>3, NothingCounted DEF NoSummary, HasValidations
  <2>5. result # "nil"
    <3>1. Passed # Canceled
      BY DEF Passed, Canceled
    <3>2. pc # "done" => result = "none"
      BY DEF IInv, AnswerInv
    <3>. QED
      BY <2>3, <3>1, <3>2 DEF IInv, AnswerInv
  <2>. QED
    BY <2>3, <2>4, <2>5 DEF IInv, SummaryInv
<1>. QED
  BY <1>1, DataConsistent, PTL

(* Only complete data is validated.  Anchor: Run and GatherNamespaces      *)
(* (pkg/validate).                                                         *)
THEOREM ValidatesGatheredHolds == Distinct => (Spec => []ValidatesGathered)
<1>. SUFFICES ASSUME Distinct PROVE Spec => []ValidatesGathered
  OBVIOUS
<1>1. IInv => ValidatesGathered
  BY DEF IInv, SummaryInv, Gathered, ValidatesGathered
<1>. QED
  BY <1>1, DataConsistent, PTL

(***************************************************************************)
(* The steps of CommandVerdict.                                            *)
(***************************************************************************)
LEMMA PromiseReport ==
  /\ Promise!Unset = Unset /\ Promise!Passed = Passed
  /\ Promise!Failed = Failed /\ Promise!Canceled = Canceled
BY Zenon DEF Promise!Unset, Unset, Promise!Passed, Passed, Promise!Failed, Failed,
             Promise!Canceled, Canceled

LEMMA Severities ==
  /\ Promise!Severity(Unset) = 0 /\ Promise!Severity(Passed) = 1
  /\ Promise!Severity(Failed) = 2 /\ Promise!Severity(Canceled) = 3
BY DEF Promise!Severity, Promise!Unset, Unset, Promise!Passed, Passed, Promise!Failed, Failed,
       Promise!Canceled, Canceled

(* The verdict of a running command. *)
Worst(r, c) == Verdict({r, c} \ {Unset})

(* The verdict as a status gets worse. *)
LEMMA WorstOfTwo ==
  /\ Worst(Unset, Unset) = Unset
  /\ \A s \in TestStatus : Worst(s, Unset) = s /\ Worst(s, s) = s /\ Worst(Passed, s) = s
BY DEF Worst, Verdict, TestStatus, Unset, Passed, Failed, Canceled

(* The status of the current step gets worse, or stays. *)
LEMMA StatusWorsens ==
  ASSUME NEW cur \in AnyStatus, NEW sub \in TestStatus
  PROVE  LET v == Worst(Passed, cur)
             w == Worst(Passed, AddStatus(cur, sub)) IN
         \/ w = v
         \/ v = Passed /\ w \in {Failed, Canceled}
         \/ v = Failed /\ w = Canceled
BY DEF Worst, Verdict, AddStatus, AnyStatus, TestStatus, Unset, Passed, Failed, Canceled, Skipped

Now == Worst(report.status, current.status)

(* A verdict that gets worse, or stays, is a step of CommandVerdict.       *)
LEMMA GetsWorse ==
  ASSUME result = "none", result' = "none",
         \/ Now' = Now
         \/ Now = Unset /\ Now' \in TestStatus
         \/ Now = Passed /\ Now' \in {Failed, Canceled}
         \/ Now = Failed /\ Now' = Canceled
  PROVE  [Promise!CNext]_(Promise!cvars)
<1>. DEFINE v == Verdict({report.status, current.status} \ {Unset})
            w == Verdict({report'.status, current'.status} \ {Unset})
<1>0. Now = v /\ Now' = w
  BY DEF Now, Worst
<1>1. CASE Now' = Now
  BY <1>0, <1>1 DEF Promise!cvars
<1>2. CASE \/ Now = Unset /\ Now' \in TestStatus
           \/ Now = Passed /\ Now' \in {Failed, Canceled}
           \/ Now = Failed /\ Now' = Canceled
  <2>. HIDE DEF v, w
  <2>1. w \in {Passed, Failed, Canceled} /\ Promise!Severity(w) > Promise!Severity(v)
    BY <1>0, <1>2, Severities DEF TestStatus
  <2>2. Promise!Worsen
    BY <2>1, PromiseReport DEF Promise!Worsen, v, w
  <2>. QED
    BY <2>2 DEF Promise!CNext
<1>. QED
  BY <1>1, <1>2

LEMMA SubStepWorsens ==
  ASSUME IInv, pc \in Working, UNCHANGED report, UNCHANGED answerVars,
         NEW n \in Names, NEW e \in AnyOutcome, AddSubStep(n, e)
  PROVE  [Promise!CNext]_(Promise!cvars)
<1>1. /\ current \in CurrentT /\ report.status = Passed /\ result = "none" /\ result' = "none"
  BY DEF IInv, TypeInv, ReportInv, AnswerInv, answerVars, Working, Reading
<1>2. current'.status = AddStatus(current.status, StatusOf(e))
  BY <1>1, SubStepAdded
<1>3. current.status \in AnyStatus /\ StatusOf(e) \in TestStatus
  BY <1>1, StatusOfType DEF CurrentT
<1>4. Now = Worst(Passed, current.status)
      /\ Now' = Worst(Passed, AddStatus(current.status, StatusOf(e)))
  BY <1>1, <1>2 DEF Now, Worst
<1>. QED
  BY <1>1, <1>3, <1>4, StatusWorsens, GetsWorse

LEMMA ReturnPromised ==
  ASSUME IInv, ReturnFailed \/ ReturnPassed
  PROVE  [Promise!CNext]_(Promise!cvars)
<1>1. /\ result = "none" /\ UNCHANGED <<current, report>>
      /\ \/ /\ pc = "failed" /\ result' = "error" /\ report.status \in {Failed, Canceled}
         \/ /\ pc = "passed" /\ result' = "nil" /\ report.status = Passed
            /\ current.status = Passed
  BY DEF ReturnFailed, ReturnPassed, IInv, AnswerInv, ReportInv, CurrentInv
<1>2. /\ Now' = Now /\ Now # Unset
      /\ result' = IF Now = Passed THEN "nil" ELSE "error"
  <2>1. Now' = Now
    BY <1>1 DEF Now
  <2>2. report.status \in {Failed, Canceled} => Now \in {Failed, Canceled}
    BY DEF Now, Worst, Verdict, Failed, Canceled, Passed, Unset
  <2>3. report.status = Passed /\ current.status = Passed => Now = Passed
    BY WorstOfTwo DEF Now, TestStatus
  <2>4. Passed # Unset /\ Failed # Unset /\ Canceled # Unset /\ Passed \notin {Failed, Canceled}
    BY DEF Passed, Failed, Canceled, Unset
  <2>. QED
    BY <1>1, <2>1, <2>2, <2>3, <2>4
<1>3. Promise!Answer
  BY <1>1, <1>2, PromiseReport DEF Promise!Answer, Now, Worst
<1>. QED
  BY <1>3 DEF Promise!CNext

(* The configuration gives the report its first status, and the current    *)
(* step hands its status over: neither loses one.                          *)
LEMMA ReportPromised ==
  ASSUME Distinct, IInv, \/ \E to \in {"inspect application", "gather"} : ValidateConfigThen(to)
                         \/ FinishStep \/ FinishStepPassed
  PROVE  [Promise!CNext]_(Promise!cvars)
<1>1. CASE \E to \in {"inspect application", "gather"} : ValidateConfigThen(to)
  <2>1. /\ pc = "validate config" /\ UNCHANGED current /\ UNCHANGED answerVars
        /\ pc' \in {"inspect application", "gather", "failed"}
    BY <1>1 DEF ValidateConfigThen
  <2>2. IInv'
    BY <1>1, ConfigStep
  <2>3. report.status = Unset /\ current.status = Unset /\ result = "none" /\ result' = "none"
    BY <2>1 DEF IInv, ReportInv, CurrentInv, AnswerInv, Early, answerVars
  <2>4. report'.status \in TestStatus
    BY <2>1, <2>2 DEF IInv, ReportInv, Working, TestStatus
  <2>5. Now = Unset /\ Now' = report'.status
    BY <2>1, <2>3, <2>4, WorstOfTwo DEF Now
  <2>. QED
    BY <2>3, <2>4, <2>5, GetsWorse
<1>2. CASE FinishStep \/ FinishStepPassed
  <2>1. /\ pc \in {"finish", "finish passed"} /\ UNCHANGED current /\ UNCHANGED answerVars
        /\ report' = AddStep(report, current)
    BY <1>2 DEF FinishStep, FinishStepPassed, EndAs
  <2>2. /\ current \in CurrentT /\ report \in ReportT /\ report.status = Passed
        /\ current.status \in TestStatus /\ result = "none" /\ result' = "none"
    BY <2>1 DEF IInv, TypeInv, ReportInv, CurrentInv, AnswerInv, Working, TestStatus, answerVars
  <2>3. report'.status = current.status
    BY <2>1, <2>2, CurrentIsStep, AddStepReport, StillPassed
  <2>4. Now = current.status /\ Now' = current.status
    BY <2>1, <2>2, <2>3, WorstOfTwo DEF Now
  <2>. QED
    BY <2>2, <2>4, GetsWorse
<1>. QED
  BY <1>1, <1>2

(* Receiving, inspecting and validating add one sub step.                  *)
LEMMA WorkPromised ==
  ASSUME Distinct, IInv,
         \/ InspectApplication \/ Inspected
         \/ \E c \in Clusters : ReceiveCluster(c)
         \/ \E p \in Profiles : ReceiveProfile(p)
         \/ command # "gather-application" /\ ValidateGatheredData
  PROVE  [Promise!CNext]_(Promise!cvars)
<1>1. /\ pc \in Working /\ UNCHANGED report /\ UNCHANGED answerVars
  BY DEF InspectApplication, Inspected, InspectedS3, ReceiveCluster, ReceiveProfile,
         ValidateGatheredData, Working, Reading
<1>2. \E n \in Names, e \in AnyOutcome : AddSubStep(n, e)
  <2>1. /\ "inspect application" \in Names /\ "inspect S3 profiles" \in Names
        /\ "validate data" \in Names /\ Clusters \subseteq Names /\ Profiles \subseteq Names
        /\ Outcome \subseteq AnyOutcome /\ Nil \in Outcome /\ "error" \in Outcome
        /\ "canceled" \in Outcome
    BY DEF Names, AnyOutcome, Outcome
  <2>2. CASE InspectApplication
    BY <2>1, <2>2 DEF InspectApplication, OutcomeOf
  <2>3. CASE Inspected
    BY <2>1, <2>3 DEF Inspected, InspectedS3
  <2>4. CASE \E c \in Clusters : ReceiveCluster(c)
    BY <2>1, <2>4 DEF ReceiveCluster
  <2>5. ASSUME NEW p \in Profiles, ReceiveProfile(p)
        PROVE  \E n \in Names, e \in AnyOutcome : AddSubStep(n, e)
    <3>1. PICK e \in S3OutcomeOf(p) : IF HasStep(current, NameOf(p))
                                      THEN pc' = "panic" ELSE AddSubStep(NameOf(p), e)
      BY <2>5 DEF ReceiveProfile
    <3>2. pc' # "panic" /\ NameOf(p) = p /\ e \in AnyOutcome
      <4>1. IInv'
        BY <2>5, ProfileStep
      <4>. QED
        BY <4>1 DEF IInv, TypeInv, AllStages, Running, Working, Reading, NameOf, Distinct,
                    S3OutcomeOf, AnyOutcome, Outcome, Aborted, Nil
    <3>. QED
      BY <2>1, <3>1, <3>2
  <2>6. CASE ValidateGatheredData
    BY <2>1, <2>6 DEF ValidateGatheredData
  <2>. QED
    BY <2>2, <2>3, <2>4, <2>5, <2>6
<1>. QED
  BY <1>1, <1>2, SubStepWorsens

(* The safety part of the refinement: no status is lost on the way from a  *)
(* sub step to the answer.  Anchor: AddStep (pkg/report), FinishStep,      *)
(* failed and passed (pkg/gather, pkg/validate/command).                   *)
THEOREM DataVerdictKept ==
  Distinct => (Spec => Promise!CInit /\ [][Promise!CNext]_(Promise!cvars))
<1>. SUFFICES ASSUME Distinct PROVE Spec => Promise!CInit /\ [][Promise!CNext]_(Promise!cvars)
  OBVIOUS
<1>1. Init => Promise!CInit
  <2>. SUFFICES ASSUME Init PROVE Promise!CInit
    OBVIOUS
  <2>1. report.status = Unset /\ result = "none" /\ current = NewStep(command)
    BY DEF Init
  <2>2. Worst(report.status, current.status) = Unset
    BY <2>1, WorstOfTwo DEF NewStep
  <2>. QED
    BY <2>1, <2>2, PromiseReport DEF Promise!CInit, Worst
<1>2. ASSUME IInv, [Next]_vars PROVE [Promise!CNext]_(Promise!cvars)
  <2>1. CASE ClustersDone \/ AllReceived
    <3>1. /\ pc \in {"gather", "S3"} /\ current' = ErrOf(current)
          /\ UNCHANGED report /\ UNCHANGED answerVars
      BY <2>1 DEF ClustersDone, AllReceived, ProfilesDone
    <3>2. current'.status = current.status
      BY <1>2, <3>1, ErrOfKeeps DEF IInv, TypeInv
    <3>. QED
      BY <3>1, <3>2 DEF Promise!cvars, answerVars
  <2>2. CASE ReadProfiles \/ (\E p \in Profiles : ReadSecret(p)) \/ Interrupt \/ UNCHANGED vars
    BY <2>2 DEF ReadProfiles, ReadSecret, Interrupt, vars, answerVars, Promise!cvars
  <2>. QED
    BY <1>2, <2>1, <2>2, StepKinds, WorkPromised, ReportPromised, ReturnPromised
<1>3. IInv /\ [Next]_vars => [Promise!CNext]_(Promise!cvars)
  BY <1>2
<1>. QED
  BY <1>1, <1>3, DataConsistent, PTL DEF Spec
=============================================================================
