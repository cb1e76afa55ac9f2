---------------------------- MODULE ValidateData ----------------------------
(***************************************************************************)
(* What `validate application` and `validate clusters` share: the S3       *)
(* results end in the report, and the validation of the gathered data      *)
(* decides by its summary.                                                 *)
(***************************************************************************)
EXTENDS Stages

(* gatherS3Data, checkS3Profiles: an error goes on to the validation, which *)
(* reports it; a cancellation does not.  Only an application has a prefix.  *)
InspectS3Then(prefix) ==
  \/ ReadProfiles
  \/ pc = "read profiles" /\ InspectedS3("error", "validate data")
  \/ \E p \in Profiles : ReadSecret(p)
  \/ /\ pc = "read secrets"
     /\ pending # {}
     /\ canceled
     /\ InspectedS3("canceled", "finish")
  \/ /\ pc = "read secrets"
     /\ pending = {}
     /\ \/ InspectedS3(Nil, "S3")
        \/ prefix /\ InspectedS3("error", "validate data")

(* gatherS3Profiles, checkS3: false only if a profile was canceled. *)
S3Done == ProfilesDone(IF current.status = Canceled THEN "finish" ELSE "validate data")

Results == {p \in Profiles : s3[p] # "none"}

(* Faulty S3Validations: without results there is nothing to validate. *)
S3ValidationsNone ==
  [state \in States |->
     CASE state = "ok"      -> Cardinality({p \in Results : s3[p] = Nil})
       [] state = "problem" -> Cardinality({p \in Results : s3[p] # Nil})
       [] OTHER             -> 0]

(* Faulty S3Validations: the list is counted once per result. *)
S3ValidationsTwice ==
  [state \in States |->
     CASE state = "ok"      -> Cardinality({p \in Results : s3[p] = Nil}) + Cardinality(Results)
       [] state = "problem" -> Cardinality({p \in Results : s3[p] # Nil})
                                 + (IF Results = {} THEN 1 ELSE 0)
       [] OTHER             -> 0]

(* The S3 status: one validation per result and one for the list, which is *)
(* a problem when there is no result.                                      *)
S3Validations ==
  [state \in States |->
     CASE state = "ok"      -> Cardinality({p \in Results : s3[p] = Nil})
                                 + (IF Results # {} THEN 1 ELSE 0)
       [] state = "problem" -> Cardinality({p \in Results : s3[p] # Nil})
                                 + (IF Results = {} THEN 1 ELSE 0)
       [] OTHER             -> 0]

Plus(s, t) == [state \in States |-> s[state] + t[state]]

(* What the hub and the clusters add: at most MaxValidations per state. *)
MaxValidations == 1

Found == [States -> 0..MaxValidations]

HasIssues(s) == s["warning"] > 0 \/ s["problem"] > 0

(* validateGatheredData: the hub and the clusters are validated one after  *)
(* the other and S3 is last; data that cannot be read ends the validation  *)
(* where it is, with the validations made so far.                          *)
ValidateGatheredData ==
  /\ pc = "validate data"
  /\ \E found \in Found :
       \/ /\ summary' = found
          /\ AddSubStep("validate data", "error")
          /\ pc' = "finish"
       \/ /\ \E state \in States : found[state] > 0
          /\ summary' = Plus(found, S3Validations)
          /\ IF HasIssues(summary')
             THEN AddSubStep("validate data", "error") /\ pc' = "finish"
             ELSE AddSubStep("validate data", Nil) /\ pc' = "finish passed"
  /\ UNCHANGED <<pending, report, secrets, s3>>
  /\ UNCHANGED answerVars
=============================================================================
