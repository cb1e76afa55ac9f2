----------------------- MODULE ApplicationStatusProofs ----------------------
(***************************************************************************)
(* For whatever was gathered of an application: a validation that passes   *)
(* found it stable and its replication fresh, a sound application has no   *)
(* issue, and the HTML page opens on every issue.                          *)
(*                                                                         *)
(* The argument: the stages run in one order, so that what the report      *)
(* shows at each of them is a function of the gathered data (StageInv).    *)
(* What is left are facts about that function, one per kind of object.     *)
(***************************************************************************)
EXTENDS ApplicationHTML, FiniteSetTheorems, WellFoundedInduction, TLAPS

States == {"", "ok", "warning", "problem"}

(***************************************************************************)
(* The state of a section.                                                 *)
(***************************************************************************)
(* The most significant state, without an order. *)
Worst(s) ==
  IF "problem" \in s THEN "problem"
  ELSE IF "warning" \in s THEN "warning"
  ELSE IF "ok" \in s THEN "ok" ELSE ""

(* One turn of the fold. *)
Any(s) == CHOOSE x \in s : TRUE
Turn(iter, s) == IF s = {} THEN "" ELSE SignificantState(Any(s), iter[s \ {Any(s)}])

LEMMA TurnIsWorst ==
  ASSUME NEW s \in SUBSET States, s # {}
  PROVE  SignificantState(Any(s), Worst(s \ {Any(s)})) = Worst(s)
<1>1. Any(s) \in s
  BY DEF Any
<1>. SUFFICES ASSUME NEW x \in s PROVE SignificantState(x, Worst(s \ {x})) = Worst(s)
  BY <1>1
<1>2. x \in {"", "ok", "warning", "problem"}
  BY DEF States
<1>. DEFINE r == s \ {x}
<1>3. /\ \A y \in {"problem", "warning", "ok"} : y \in s <=> y \in r \/ y = x
      /\ r \subseteq s
  OBVIOUS
<1>. HIDE DEF r
<1>4. SignificantState(x, Worst(r)) = Worst(s)
  BY <1>2, <1>3 DEF SignificantState, Worst
<1>. QED
  BY <1>4 DEF r

LEMMA StatesFinite == IsFiniteSet(States)
<1>1. IsFiniteSet({} \cup {""})
  BY FS_EmptySet, FS_AddElement
<1>2. IsFiniteSet(({} \cup {""}) \cup {"ok"})
  BY <1>1, FS_AddElement
<1>3. IsFiniteSet((({} \cup {""}) \cup {"ok"}) \cup {"warning"})
  BY <1>2, FS_AddElement
<1>4. IsFiniteSet(((({} \cup {""}) \cup {"ok"}) \cup {"warning"}) \cup {"problem"})
  BY <1>3, FS_AddElement
<1>5. States = ((({} \cup {""}) \cup {"ok"}) \cup {"warning"}) \cup {"problem"}
  BY DEF States
<1>. QED
  BY <1>4, <1>5

LEMMA AggregateIsWorst ==
  ASSUME NEW S \in SUBSET States
  PROVE Aggregate(S) = Worst(S)
<1>. DEFINE good(f) == f = [s \in SUBSET S |-> Turn(f, s)]
            iter == CHOOSE f : good(f)
            g == [s \in SUBSET S |-> Worst(s)]
            D == {s \in SUBSET S : iter[s] # Worst(s)}
<1>1. Aggregate(S) = iter[S]
  BY DEF Aggregate, FoldSet, MapThenFoldSet, Turn, Any
<1>2. good(g)
  <2>1. ASSUME NEW s \in SUBSET S PROVE Worst(s) = Turn(g, s)
    <3>1. s # {} => g[s \ {Any(s)}] = Worst(s \ {Any(s)})
      OBVIOUS
    <3>2. s # {} => SignificantState(Any(s), Worst(s \ {Any(s)})) = Worst(s)
      BY TurnIsWorst
    <3>3. s = {} => Worst(s) = ""
      BY DEF Worst
    <3>. HIDE DEF g
    <3>. QED
      BY <3>1, <3>2, <3>3 DEF Turn
  <2>. QED
    BY <2>1
<1>. HIDE DEF g
<1>3. good(iter)
  BY <1>2
<1>. HIDE DEF iter
<1>4. SUFFICES ASSUME D # {} PROVE FALSE
  BY <1>1
<1>5. IsFiniteSet(S)
  BY FS_Subset, StatesFinite
<1>6. IsWellFoundedOn(StrictSubsetOrdering(S), SUBSET S)
  BY <1>5, FS_StrictSubsetOrderingWellFounded, FS_FiniteSubsetsOfFinite
<1>7. PICK d \in D : \A y \in D : ~ (<<y, d>> \in StrictSubsetOrdering(S))
  BY <1>4, <1>6, WFMin
<1>8. iter[d] = Turn(iter, d)
  BY <1>3
<1>9. d # {}
  BY <1>8 DEF Turn, Worst
<1>10. Any(d) \in d
  BY <1>9 DEF Any
<1>11. iter[d \ {Any(d)}] = Worst(d \ {Any(d)})
  <2>. DEFINE y == d \ {Any(d)}
  <2>1. y \in SUBSET S /\ d \in SUBSET S /\ y \subseteq d /\ y # d
    BY <1>10
  <2>. HIDE DEF y
  <2>2. <<y, d>> \in StrictSubsetOrdering(S)
    BY <2>1 DEF StrictSubsetOrdering
  <2>3. y \notin D
    BY <1>7, <2>2
  <2>4. iter[y] = Worst(y)
    BY <2>1, <2>3
  <2>. QED
    BY <2>4 DEF y
<1>12. iter[d] = Worst(d)
  BY <1>8, <1>9, <1>11, TurnIsWorst DEF Turn
<1>. QED
  BY <1>12

(* A section has an issue exactly when a part of it has. *)
LEMMA AggregateIssue ==
  ASSUME NEW S \in SUBSET States
  PROVE  Aggregate(S) \in States /\ (IsIssue(Aggregate(S)) <=> \E x \in S : IsIssue(x))
BY AggregateIsWorst DEF Worst, IsIssue, States

LEMMA SignificantIssue ==
  ASSUME NEW a \in States, NEW b \in States
  PROVE  /\ SignificantState(a, b) \in States
         /\ IsIssue(SignificantState(a, b)) <=> IsIssue(a) \/ IsIssue(b)
BY DEF SignificantState, IsIssue, States

(***************************************************************************)
(* What the report shows at each stage.                                    *)
(***************************************************************************)
Readable(c) == c \in DOMAIN data.vrgs /\ data.vrgs[c].read # "unreadable"

OfPrimary == VRGValidations(PrimaryCluster, data.vrgs[PrimaryCluster], "Primary")

OfSecondary == VRGValidations(SecondaryCluster, data.vrgs[SecondaryCluster], "Secondary")

NoInterval == [state |-> "", value |-> 0]

HubRead == data.drpc.read = "ok" /\ interval = PolicyInterval

(* What was shown when a stage began: the validations of those before it. *)
StageInv ==
  /\ data \in Inputs
  /\ pc \in {"hub", "primary", "secondary", "S3", "done"}
  /\ result \in {"none", "passed", "issues", "error"}
  /\ pc = "done" <=> result # "none"
  /\ pc = "hub" => shown = {} /\ interval = NoInterval
  /\ pc = "primary" => HubRead /\ shown = DRPCValidations
  /\ pc = "secondary" =>
       HubRead /\ Readable(PrimaryCluster) /\ shown = DRPCValidations \cup OfPrimary
  /\ pc = "S3" =>
       /\ HubRead /\ Readable(PrimaryCluster) /\ Readable(SecondaryCluster)
       /\ shown = (DRPCValidations \cup OfPrimary) \cup OfSecondary
  /\ result \in {"passed", "issues"} =>
       /\ HubRead /\ Readable(PrimaryCluster) /\ Readable(SecondaryCluster)
       /\ shown = ((DRPCValidations \cup OfPrimary) \cup OfSecondary) \cup S3Validations
       /\ result = "passed" <=> Issues(shown) = {}
  /\ result = "error" =>
       \/ data.drpc.read # "ok" /\ shown = {} /\ interval = NoInterval
       \/ HubRead /\ ~Readable(PrimaryCluster) /\ shown = DRPCValidations
       \/ /\ HubRead /\ Readable(PrimaryCluster) /\ ~Readable(SecondaryCluster)
          /\ shown = DRPCValidations \cup OfPrimary

(* The validations depend on the data and the interval only. *)
LEMMA Unchanged ==
  ASSUME data' = data
  PROVE  /\ PolicyInterval' = PolicyInterval /\ DRPCValidations' = DRPCValidations
         /\ PrimaryCluster' = PrimaryCluster /\ SecondaryCluster' = SecondaryCluster
         /\ S3Validations' = S3Validations
         /\ \A c : Readable(c)' = Readable(c)
         /\ interval' = interval => OfPrimary' = OfPrimary /\ OfSecondary' = OfSecondary
<1>1. PolicyInterval' = PolicyInterval /\ DRPCValidations' = DRPCValidations
  BY DEF PolicyInterval, DRPCValidations, SyncTime, Judged
<1>2. PrimaryCluster' = PrimaryCluster /\ SecondaryCluster' = SecondaryCluster
  BY DEF PrimaryCluster, SecondaryCluster
<1>3. S3Validations' = S3Validations /\ \A c : Readable(c)' = Readable(c)
  BY DEF S3Validations, Readable
<1>4. ASSUME interval' = interval, NEW c, NEW vrg, NEW state
      PROVE  VRGValidations(c, vrg, state)' = VRGValidations(c, vrg, state)
  <2>1. VRGInterval(vrg)' = VRGInterval(vrg)
    BY <1>4 DEF VRGInterval
  <2>. QED
    BY <2>1 DEF VRGValidations
<1>5. interval' = interval => OfPrimary' = OfPrimary /\ OfSecondary' = OfSecondary
  BY <1>2, <1>4 DEF OfPrimary, OfSecondary
<1>. QED
  BY <1>1, <1>2, <1>3, <1>5
LEMMA InitStageInv == Init => StageInv
BY DEF Init, StageInv, NoInterval

(* A stage adds what it validates, or ends the command with an error. *)
LEMMA NextStageInv ==
  ASSUME StageInv, [Next]_vars
  PROVE  StageInv'
<1>1. data' = data
  BY DEF Next, vars, ValidateHub, ValidatePrimaryCluster, ValidateSecondaryCluster,
     ValidateCluster, ValidateS3Status
<1>2. /\ PolicyInterval' = PolicyInterval /\ DRPCValidations' = DRPCValidations
      /\ PrimaryCluster' = PrimaryCluster /\ SecondaryCluster' = SecondaryCluster
      /\ S3Validations' = S3Validations
      /\ \A c : Readable(c)' = Readable(c)
      /\ interval' = interval => OfPrimary' = OfPrimary /\ OfSecondary' = OfSecondary
  BY <1>1, Unchanged
<1>3. CASE ValidateHub
  <2>1. CASE data.drpc.read = "ok"
    BY <1>1, <1>2, <1>3, <2>1 DEF ValidateHub, StageInv, HubRead
  <2>2. CASE data.drpc.read # "ok"
    BY <1>1, <1>2, <1>3, <2>2 DEF ValidateHub, StageInv
  <2>. QED
    BY <2>1, <2>2
<1>4. CASE ValidatePrimaryCluster
  <2>1. pc = "primary" /\ interval' = interval
    BY <1>4 DEF ValidatePrimaryCluster, ValidateCluster
  <2>2. HubRead' /\ HubRead /\ shown = DRPCValidations /\ result = "none"
    BY <1>1, <1>2, <2>1 DEF StageInv, HubRead
  <2>3. CASE Readable(PrimaryCluster)
    <3>1. pc' = "secondary" /\ shown' = shown \cup OfPrimary /\ result' = result
      BY <1>4, <2>3 DEF ValidatePrimaryCluster, ValidateCluster, Readable, OfPrimary
    <3>. QED
      BY <1>1, <1>2, <2>1, <2>2, <2>3, <3>1 DEF StageInv
  <2>4. CASE ~Readable(PrimaryCluster)
    <3>1. pc' = "done" /\ shown' = shown /\ result' = "error"
      BY <1>4, <2>4 DEF ValidatePrimaryCluster, ValidateCluster, Readable
    <3>. QED
      BY <1>1, <1>2, <2>1, <2>2, <2>4, <3>1 DEF StageInv
  <2>. QED
    BY <2>3, <2>4
<1>5. CASE ValidateSecondaryCluster
  <2>1. pc = "secondary" /\ interval' = interval
    BY <1>5 DEF ValidateSecondaryCluster, ValidateCluster
  <2>2. /\ HubRead' /\ HubRead /\ shown = DRPCValidations \cup OfPrimary /\ result = "none"
        /\ Readable(PrimaryCluster)
    BY <1>1, <1>2, <2>1 DEF StageInv, HubRead
  <2>3. CASE Readable(SecondaryCluster)
    <3>1. pc' = "S3" /\ shown' = shown \cup OfSecondary /\ result' = result
      BY <1>5, <2>3 DEF ValidateSecondaryCluster, ValidateCluster, Readable, OfSecondary
    <3>. QED
      BY <1>1, <1>2, <2>1, <2>2, <2>3, <3>1 DEF StageInv
  <2>4. CASE ~Readable(SecondaryCluster)
    <3>1. pc' = "done" /\ shown' = shown /\ result' = "error"
      BY <1>5, <2>4 DEF ValidateSecondaryCluster, ValidateCluster, Readable
    <3>. QED
      BY <1>1, <1>2, <2>1, <2>2, <2>4, <3>1 DEF StageInv
  <2>. QED
    BY <2>3, <2>4
<1>6. CASE ValidateS3Status
  <2>1. /\ pc = "S3" /\ interval' = interval /\ pc' = "done" /\ shown' = shown \cup S3Validations
        /\ result' = IF Issues(shown') # {} THEN "issues" ELSE "passed"
    BY <1>6 DEF ValidateS3Status
  <2>2. HubRead' /\ HubRead
    BY <1>1, <1>2, <2>1 DEF StageInv, HubRead
  <2>3. Issues(shown)' = Issues(shown')
    BY DEF Issues
  <2>. QED
    BY <1>1, <1>2, <2>1, <2>2, <2>3 DEF StageInv
<1>7. CASE UNCHANGED vars
  <2>1. /\ pc' = pc /\ interval' = interval /\ shown' = shown /\ result' = result
    BY <1>7 DEF vars
  <2>2. HubRead' = HubRead /\ Issues(shown)' = Issues(shown) /\ NoInterval' = NoInterval
    BY <1>1, <1>2, <2>1 DEF HubRead, Issues, NoInterval
  <2>. QED
    BY <1>1, <1>2, <2>1, <2>2 DEF StageInv
<1>. QED
  BY <1>3, <1>4, <1>5, <1>6, <1>7 DEF Next

(* The report shows what the stages before validated, in their order       *)
(* (validateGatheredData, pkg/validate/application/command.go).            *)
THEOREM ApplicationConsistent == Spec => []StageInv
<1>1. StageInv /\ [Next]_vars => StageInv'
  BY NextStageInv
<1>. QED
  BY InitStageInv, <1>1, PTL DEF Spec
(***************************************************************************)
(* What each object contributes.                                           *)
(***************************************************************************)
LEMMA StatesOfParts ==
  /\ \A ok : StateOf(ok) \in States /\ (StateOf(ok) \notin {"warning", "problem"} <=> ok)
  /\ \A object : NotDeleted(object) \in States
  /\ \A condition : Condition(condition) \in States
  /\ \A object, time, scheduling, primary : SyncTime(object, time, scheduling, primary) \in States
  /\ PolicyInterval.state \in States /\ \A vrg : VRGInterval(vrg).state \in States
<1>1. \A ok : StateOf(ok) \in States /\ (StateOf(ok) \notin {"warning", "problem"} <=> ok)
  BY DEF StateOf, States
<1>2. \A condition : Condition(condition) \in States
  BY <1>1 DEF Condition, States
<1>3. \A object, time, scheduling, primary : SyncTime(object, time, scheduling, primary) \in States
  BY DEF SyncTime, Delay, States
<1>4. PolicyInterval.state \in States
  BY DEF PolicyInterval, States
<1>5. ASSUME NEW vrg PROVE VRGInterval(vrg).state \in States
  <2>1. CASE ~vrg.async
    BY <2>1 DEF VRGInterval, States
  <2>2. CASE vrg.async /\ vrg.interval < 0
    BY <2>2 DEF VRGInterval, States
  <2>3. CASE vrg.async /\ ~(vrg.interval < 0)
    BY <1>1, <2>3 DEF VRGInterval
  <2>. QED
    BY <2>1, <2>2, <2>3
<1>. QED
  BY <1>1, <1>2, <1>3, <1>4, <1>5 DEF NotDeleted

LEMMA InputsFacts ==
  ASSUME data \in Inputs
  PROVE  /\ data.policy.interval \in Int /\ data.drpc.clusterTime \in Int /\ data.drpc.syncTime \in Int
         /\ DOMAIN data.drpc.conditions \cap Fields = {}
         /\ DOMAIN data.vrgs = {"c1", "c2"}
         /\ {PrimaryCluster, SecondaryCluster} \cap {"drpc", "s3"} \cap DOMAIN data.vrgs = {}
         /\ PrimaryCluster # SecondaryCluster
         /\ PrimaryCluster \in DOMAIN data.vrgs => DOMAIN data.vrgs = {PrimaryCluster, SecondaryCluster}
         /\ \A c \in DOMAIN data.vrgs :
              /\ data.vrgs[c].interval \in Int /\ data.vrgs[c].clusterTime \in Int
              /\ data.vrgs[c].syncTime \in Int /\ data.vrgs[c].async \in BOOLEAN
              /\ DOMAIN data.vrgs[c].conditions \cap Fields = {}
              /\ \A i \in DOMAIN data.vrgs[c].pvcs :
                   i \in Nat \ {0} /\ DOMAIN data.vrgs[c].pvcs[i].conditions \cap Fields = {}
<1>1. /\ DOMAIN data.vrgs = {"c1", "c2"} /\ DOMAIN data.drpc.conditions \cap Fields = {}
      /\ {data.policy.interval, data.drpc.clusterTime, data.drpc.syncTime} \subseteq Int
      /\ \A c \in {"c1", "c2"} :
           /\ {data.vrgs[c].interval, data.vrgs[c].clusterTime, data.vrgs[c].syncTime} \subseteq Int
           /\ data.vrgs[c].async \in BOOLEAN
           /\ DOMAIN data.vrgs[c].conditions \cap Fields = {}
           /\ DOMAIN data.vrgs[c].pvcs \subseteq Nat \ {0}
           /\ \A i \in DOMAIN data.vrgs[c].pvcs :
                DOMAIN data.vrgs[c].pvcs[i].conditions \cap Fields = {}
  BY InputsAssumption
<1>2. SecondaryCluster = IF PrimaryCluster = "c1" THEN "c2" ELSE "c1"
  BY DEF SecondaryCluster
<1>. QED
  BY <1>1, <1>2

LEMMA DRPCShape ==
  ASSUME data \in Inputs, NEW v \in DRPCValidations
  PROVE  /\ v = Validation("drpc", v.at, v.key, v.state) /\ v.state \in States
         /\ \/ /\ v.at = 1 /\ v.key \in DOMAIN data.drpc.conditions /\ v.key \notin Fields
               /\ v.state = Condition(data.drpc.conditions[v.key])
            \/ v.at = 0 /\ v.key = "deleted" /\ v.state = NotDeleted(data.drpc)
            \/ v.at = 0 /\ v.key = "schedulingInterval" /\ v.state = PolicyInterval.state
            \/ /\ v.at = 0 /\ v.key = "lastGroupSyncTime"
               /\ v.state = SyncTime(data.drpc, data.drpc.clusterTime, PolicyInterval, TRUE)
            \/ /\ v.at = 0 /\ v.key = "action"
               /\ v.state = StateOf(data.drpc.action \in {"", "Failover", "Relocate"})
            \/ /\ v.at = 0 /\ v.key = "phase"
               /\ v.state = StateOf(data.drpc.phase = StablePhase(data.drpc.action))
            \/ /\ v.at = 0 /\ v.key = "progression"
               /\ v.state = StateOf(data.drpc.progression = "Completed")
<1>1. CASE \E type \in DOMAIN data.drpc.conditions :
             v = Validation("drpc", 1, type, Condition(data.drpc.conditions[type]))
  BY <1>1, InputsFacts, StatesOfParts DEF Validation
<1>2. CASE v = Validation("drpc", 0, "deleted",
                NotDeleted(data.drpc))
  BY <1>2, StatesOfParts DEF Validation
<1>3. CASE v = Validation("drpc", 0, "schedulingInterval",
                PolicyInterval.state)
  BY <1>3, StatesOfParts DEF Validation
<1>4. CASE v = Validation("drpc", 0, "lastGroupSyncTime",
                SyncTime(data.drpc, data.drpc.clusterTime, PolicyInterval, TRUE))
  BY <1>4, StatesOfParts DEF Validation
<1>5. CASE v = Validation("drpc", 0, "action",
                StateOf(data.drpc.action \in {"", "Failover", "Relocate"}))
  BY <1>5, StatesOfParts DEF Validation
<1>6. CASE v = Validation("drpc", 0, "phase",
                StateOf(data.drpc.phase = StablePhase(data.drpc.action)))
  BY <1>6, StatesOfParts DEF Validation
<1>7. CASE v = Validation("drpc", 0, "progression",
                StateOf(data.drpc.progression = "Completed"))
  BY <1>7, StatesOfParts DEF Validation
<1>. QED
  BY <1>1, <1>2, <1>3, <1>4, <1>5, <1>6, <1>7 DEF DRPCValidations

LEMMA PVCShape ==
  ASSUME NEW c, NEW i, NEW pvc, DOMAIN pvc.conditions \cap Fields = {}, NEW v \in PVCValidations(c, i, pvc)
  PROVE  /\ v = Validation(c, i, v.key, v.state) /\ v.state \in States
         /\ \/ v.key = "deleted" /\ v.state = NotDeleted(pvc)
            \/ /\ v.key \in PVCConditions(pvc) /\ v.key \notin Fields
               /\ v.state = Condition(pvc.conditions[v.key])
            \/ v.key = "phase" /\ v.state = StateOf(pvc.phase = "Bound") /\ pvc.read = "ok"
<1>1. \/ v = Validation(c, i, "deleted", NotDeleted(pvc))
      \/ \E type \in PVCConditions(pvc) : v = Validation(c, i, type, Condition(pvc.conditions[type]))
      \/ pvc.read = "ok" /\ v = Validation(c, i, "phase", StateOf(pvc.phase = "Bound"))
  BY DEF PVCValidations
<1>2. PVCConditions(pvc) \cap Fields = {}
  BY DEF PVCConditions
<1>. QED
  BY <1>1, <1>2, StatesOfParts DEF Validation

LEMMA VRGShape ==
  ASSUME data \in Inputs, NEW c \in DOMAIN data.vrgs, NEW vrg, vrg = data.vrgs[c], NEW state,
         NEW v \in VRGValidations(c, vrg, state)
  PROVE  /\ v = Validation(c, v.at, v.key, v.state) /\ v.state \in States
         /\ \/ v.at = 0 /\ v.key = "deleted" /\ v.state = NotDeleted(vrg)
            \/ /\ vrg.read = "ok"
               /\ \/ v.at = 0 /\ v.key = "schedulingInterval" /\ v.state = VRGInterval(vrg).state
                  \/ /\ v.at = 0 /\ v.key = "lastGroupSyncTime"
                     /\ v.state = SyncTime(vrg, vrg.clusterTime, VRGInterval(vrg), state = "Primary")
                  \/ v.at = 0 /\ v.key = "state" /\ v.state = VRGState(vrg, state)
                  \/ /\ v.at = 0 /\ v.key \in VRGConditions(vrg) /\ v.key \notin Fields
                     /\ v.state = Condition(vrg.conditions[v.key])
                  \/ /\ v.at \in ProtectedPVCs(vrg) /\ v.at \in DOMAIN vrg.pvcs
                     /\ v.at \in Nat \ {0} /\ v \in PVCValidations(c, v.at, vrg.pvcs[v.at])
                     /\ v.key \in {"deleted", "phase"} \/ v.key \notin Fields
<1>1. /\ DOMAIN vrg.conditions \cap Fields = {}
      /\ \A i \in DOMAIN vrg.pvcs : i \in Nat \ {0} /\ DOMAIN vrg.pvcs[i].conditions \cap Fields = {}
  BY InputsFacts
<1>2. VRGConditions(vrg) \cap Fields = {} /\ ProtectedPVCs(vrg) \subseteq DOMAIN vrg.pvcs
  BY <1>1 DEF VRGConditions, ProtectedPVCs
<1>3. CASE v = Validation(c, 0, "deleted", NotDeleted(vrg))
  BY <1>3, StatesOfParts DEF Validation
<1>4. CASE /\ vrg.read = "ok"
           /\ \/ v = Validation(c, 0, "schedulingInterval", VRGInterval(vrg).state)
              \/ v = Validation(c, 0, "lastGroupSyncTime",
                       SyncTime(vrg, vrg.clusterTime, VRGInterval(vrg), state = "Primary"))
              \/ v = Validation(c, 0, "state", VRGState(vrg, state))
  BY <1>4, StatesOfParts DEF Validation, VRGState
<1>5. CASE /\ vrg.read = "ok"
           /\ \E type \in VRGConditions(vrg) : v = Validation(c, 0, type, Condition(vrg.conditions[type]))
  BY <1>2, <1>5, StatesOfParts DEF Validation
<1>6. CASE vrg.read = "ok" /\ \E i \in ProtectedPVCs(vrg) : v \in PVCValidations(c, i, vrg.pvcs[i])
  <2>1. PICK i \in ProtectedPVCs(vrg) : v \in PVCValidations(c, i, vrg.pvcs[i])
    BY <1>6
  <2>2. i \in DOMAIN vrg.pvcs /\ i \in Nat \ {0} /\ DOMAIN vrg.pvcs[i].conditions \cap Fields = {}
    BY <1>1, <1>2
  <2>3. v = Validation(c, i, v.key, v.state) /\ v.state \in States
        /\ (v.key \in {"deleted", "phase"} \/ v.key \notin Fields)
    BY <2>1, <2>2, PVCShape
  <2>4. v.at = i
    BY <2>3 DEF Validation
  <2>. QED
    BY <1>6, <2>1, <2>2, <2>3, <2>4
<1>7. \/ v = Validation(c, 0, "deleted", NotDeleted(vrg))
      \/ /\ vrg.read = "ok"
         /\ \/ v = Validation(c, 0, "schedulingInterval", VRGInterval(vrg).state)
            \/ v = Validation(c, 0, "lastGroupSyncTime",
                     SyncTime(vrg, vrg.clusterTime, VRGInterval(vrg), state = "Primary"))
            \/ v = Validation(c, 0, "state", VRGState(vrg, state))
            \/ \E type \in VRGConditions(vrg) : v = Validation(c, 0, type, Condition(vrg.conditions[type]))
            \/ \E i \in ProtectedPVCs(vrg) : v \in PVCValidations(c, i, vrg.pvcs[i])
  BY DEF VRGValidations
<1>. QED
  BY <1>3, <1>4, <1>5, <1>6, <1>7

LEMMA S3Shape ==
  ASSUME NEW v \in S3Validations
  PROVE  /\ v = Validation("s3", v.at, v.key, v.state) /\ v.state \in States
         /\ \/ /\ v.key = "gathered" /\ v.at \in DOMAIN data.gathered
               /\ v.state = StateOf(data.gathered[v.at])
            \/ v.key = "profiles" /\ v.at = 0 /\ v.state = StateOf(data.gathered # <<>>)
BY StatesOfParts DEF S3Validations, Validation
(* What is shown comes from one of the objects that were read. *)
LEMMA ShownShape ==
  ASSUME StageInv, NEW v \in shown
  PROVE  /\ v = Validation(v.object, v.at, v.key, v.state) /\ v.state \in States
         /\ \/ v.object = "drpc" /\ v \in DRPCValidations
            \/ /\ v.object = PrimaryCluster /\ Readable(PrimaryCluster) /\ v \in OfPrimary
               /\ v.object \notin {"drpc", "s3"}
            \/ /\ v.object = SecondaryCluster /\ Readable(SecondaryCluster) /\ v \in OfSecondary
               /\ v.object \notin {"drpc", "s3"}
            \/ v.object = "s3" /\ v \in S3Validations
<1>1. \/ v \in DRPCValidations
      \/ Readable(PrimaryCluster) /\ v \in OfPrimary
      \/ Readable(SecondaryCluster) /\ v \in OfSecondary
      \/ v \in S3Validations
  BY DEF StageInv
<1>2. data \in Inputs
  BY DEF StageInv
<1>3. CASE v \in DRPCValidations
  <2>1. v = Validation("drpc", v.at, v.key, v.state) /\ v.state \in States
    BY <1>2, <1>3, DRPCShape
  <2>. QED
    BY <1>3, <2>1 DEF Validation
<1>4. CASE Readable(PrimaryCluster) /\ v \in OfPrimary
  <2>1. PrimaryCluster \in DOMAIN data.vrgs /\ PrimaryCluster \notin {"drpc", "s3"}
    BY <1>2, <1>4, InputsFacts DEF Readable
  <2>2. v = Validation(PrimaryCluster, v.at, v.key, v.state) /\ v.state \in States
    BY <1>2, <1>4, <2>1, VRGShape DEF OfPrimary
  <2>. QED
    BY <1>4, <2>1, <2>2 DEF Validation
<1>5. CASE Readable(SecondaryCluster) /\ v \in OfSecondary
  <2>1. SecondaryCluster \in DOMAIN data.vrgs /\ SecondaryCluster \notin {"drpc", "s3"}
    BY <1>2, <1>5, InputsFacts DEF Readable
  <2>2. v = Validation(SecondaryCluster, v.at, v.key, v.state) /\ v.state \in States
    BY <1>2, <1>5, <2>1, VRGShape DEF OfSecondary
  <2>. QED
    BY <1>5, <2>1, <2>2 DEF Validation
<1>6. CASE v \in S3Validations
  BY <1>6, S3Shape DEF Validation
<1>. QED
  BY <1>1, <1>3, <1>4, <1>5, <1>6

LEMMA DRPCOneState ==
  ASSUME data \in Inputs, NEW v \in DRPCValidations, NEW w \in DRPCValidations,
         v.at = w.at, v.key = w.key
  PROVE  v.state = w.state
BY DRPCShape DEF Fields

LEMMA PVCOneState ==
  ASSUME NEW c, NEW i, NEW pvc, DOMAIN pvc.conditions \cap Fields = {},
         NEW v \in PVCValidations(c, i, pvc), NEW w \in PVCValidations(c, i, pvc), v.key = w.key
  PROVE  v.state = w.state
BY PVCShape DEF Fields

LEMMA VRGOneState ==
  ASSUME data \in Inputs, NEW c \in DOMAIN data.vrgs, NEW state,
         NEW v \in VRGValidations(c, data.vrgs[c], state),
         NEW w \in VRGValidations(c, data.vrgs[c], state),
         v.at = w.at, v.key = w.key
  PROVE  v.state = w.state
<1>. DEFINE vrg == data.vrgs[c]
<1>1. \A i \in DOMAIN vrg.pvcs : i \in Nat \ {0} /\ DOMAIN vrg.pvcs[i].conditions \cap Fields = {}
  BY InputsFacts
<1>. HIDE DEF vrg
<1>2. CASE v.at = 0
  <2>. DEFINE stateOf(key) ==
         IF key = "deleted" THEN NotDeleted(vrg)
         ELSE IF key = "schedulingInterval" THEN VRGInterval(vrg).state
         ELSE IF key = "lastGroupSyncTime"
              THEN SyncTime(vrg, vrg.clusterTime, VRGInterval(vrg), state = "Primary")
         ELSE IF key = "state" THEN VRGState(vrg, state)
         ELSE Condition(vrg.conditions[key])
  <2>1. ASSUME NEW u \in VRGValidations(c, data.vrgs[c], state), u.at = 0
        PROVE  u.state = stateOf(u.key)
    <3>1. \/ u.key = "deleted" /\ u.state = NotDeleted(vrg)
          \/ u.key = "schedulingInterval" /\ u.state = VRGInterval(vrg).state
          \/ /\ u.key = "lastGroupSyncTime"
             /\ u.state = SyncTime(vrg, vrg.clusterTime, VRGInterval(vrg), state = "Primary")
          \/ u.key = "state" /\ u.state = VRGState(vrg, state)
          \/ u.key \notin Fields /\ u.state = Condition(vrg.conditions[u.key])
      BY <2>1, VRGShape DEF vrg
    <3>. QED
      BY <3>1 DEF Fields
  <2>. QED
    BY <1>2, <2>1
<1>3. CASE v.at # 0
  <2>1. v.at \in DOMAIN vrg.pvcs /\ v \in PVCValidations(c, v.at, vrg.pvcs[v.at])
    BY <1>3, VRGShape DEF vrg
  <2>2. w \in PVCValidations(c, v.at, vrg.pvcs[v.at])
    BY <1>3, VRGShape DEF vrg
  <2>. QED
    BY <1>1, <2>1, <2>2, PVCOneState
<1>. QED
  BY <1>2, <1>3

LEMMA S3OneState ==
  ASSUME NEW v \in S3Validations, NEW w \in S3Validations, v.at = w.at, v.key = w.key
  PROVE  v.state = w.state
BY S3Shape

(***************************************************************************)
(* The properties.                                                         *)
(***************************************************************************)
(* Every variable has its type, and a field is shown in one state: no      *)
(* cluster is validated both as the primary and as the secondary           *)
(* (PrimaryCluster and SecondaryCluster, pkg/ramen/ramen.go).              *)
THEOREM ApplicationTypes == Spec => []TypeOK
<1>1. StageInv => TypeOK
  <2>. SUFFICES ASSUME StageInv PROVE TypeOK
    OBVIOUS
  <2>1. interval \in [state : {"", "ok", "problem"}, value : Nat]
    <3>1. PolicyInterval \in [state : {"", "ok", "problem"}, value : Nat]
      BY InputsFacts DEF PolicyInterval, StageInv
    <3>2. interval = NoInterval \/ interval = PolicyInterval
      BY DEF StageInv, HubRead
    <3>3. NoInterval \in [state : {"", "ok", "problem"}, value : Nat]
      BY DEF NoInterval
    <3>. QED
      BY <3>1, <3>2, <3>3
  <2>2. \A v \in shown : v.state \in {"", "ok", "warning", "problem"}
    BY ShownShape DEF States
  <2>3. ASSUME NEW v \in shown, NEW w \in shown, v.object = w.object, v.at = w.at, v.key = w.key
        PROVE  v = w
    <3>1. data \in Inputs /\ PrimaryCluster # SecondaryCluster
      BY InputsFacts DEF StageInv
    <3>2. v.state = w.state
      <4>1. CASE v \in DRPCValidations /\ w \in DRPCValidations
        BY <2>3, <3>1, <4>1, DRPCOneState
      <4>2. CASE Readable(PrimaryCluster) /\ v \in OfPrimary /\ w \in OfPrimary
        BY <2>3, <3>1, <4>2, VRGOneState DEF OfPrimary, Readable
      <4>3. CASE Readable(SecondaryCluster) /\ v \in OfSecondary /\ w \in OfSecondary
        BY <2>3, <3>1, <4>3, VRGOneState DEF OfSecondary, Readable
      <4>4. CASE v \in S3Validations /\ w \in S3Validations
        BY <2>3, <4>4, S3OneState
      <4>. QED
        BY <2>3, <3>1, <4>1, <4>2, <4>3, <4>4, ShownShape
    <3>3. v = Validation(v.object, v.at, v.key, v.state) /\ w = Validation(w.object, w.at, w.key, w.state)
      BY ShownShape
    <3>. QED
      BY <2>3, <3>2, <3>3
  <2>. QED
    BY <2>1, <2>2, <2>3 DEF StageInv, TypeOK
<1>. QED
  BY <1>1, ApplicationConsistent, PTL
-----------------------------------------------------------------------------
Quiet(validations) == \A v \in validations : v.state \notin {"warning", "problem"}

(* What the code concludes from a VRG without an issue. *)
LEMMA QuietVRG ==
  ASSUME NEW c, NEW vrg, NEW state, Quiet(VRGValidations(c, vrg, state))
  PROVE  /\ vrg.read = "ok" /\ vrg.state = state
         /\ VRGInterval(vrg).state \notin {"warning", "problem"}
         /\ SyncTime(vrg, vrg.clusterTime, VRGInterval(vrg), state = "Primary")
              \notin {"warning", "problem"}
         /\ state # "Secondary" => \A i \in DOMAIN vrg.pvcs : Bound(vrg.pvcs[i])
<1>1. vrg.read = "ok"
  <2>1. Validation(c, 0, "deleted", NotDeleted(vrg)) \in VRGValidations(c, vrg, state)
    BY DEF VRGValidations
  <2>2. NotDeleted(vrg) \notin {"warning", "problem"}
    BY <2>1 DEF Quiet, Validation
  <2>. QED
    BY <2>2, StatesOfParts DEF NotDeleted
<1>2. /\ Validation(c, 0, "schedulingInterval", VRGInterval(vrg).state) \in VRGValidations(c, vrg, state)
      /\ Validation(c, 0, "lastGroupSyncTime",
           SyncTime(vrg, vrg.clusterTime, VRGInterval(vrg), state = "Primary"))
             \in VRGValidations(c, vrg, state)
      /\ Validation(c, 0, "state", VRGState(vrg, state)) \in VRGValidations(c, vrg, state)
      /\ \A i \in ProtectedPVCs(vrg) : PVCValidations(c, i, vrg.pvcs[i]) \subseteq VRGValidations(c, vrg, state)
  BY <1>1 DEF VRGValidations
<1>3. VRGInterval(vrg).state \notin {"warning", "problem"}
  BY <1>2 DEF Quiet, Validation
<1>4. SyncTime(vrg, vrg.clusterTime, VRGInterval(vrg), state = "Primary") \notin {"warning", "problem"}
  BY <1>2 DEF Quiet, Validation
<1>5. vrg.state = state
  <2>1. VRGState(vrg, state) \notin {"warning", "problem"}
    BY <1>2 DEF Quiet, Validation
  <2>. QED
    BY <2>1, StatesOfParts DEF VRGState
<1>6. ASSUME state # "Secondary", NEW i \in DOMAIN vrg.pvcs PROVE Bound(vrg.pvcs[i])
  <2>. DEFINE pvc == vrg.pvcs[i]
  <2>1. PVCValidations(c, i, pvc) \subseteq VRGValidations(c, vrg, state)
    BY <1>2, <1>5, <1>6 DEF ProtectedPVCs
  <2>. HIDE DEF pvc
  <2>2. Validation(c, i, "deleted", NotDeleted(pvc)) \in VRGValidations(c, vrg, state)
    BY <2>1 DEF PVCValidations
  <2>3. NotDeleted(pvc) \notin {"warning", "problem"}
    BY <2>2 DEF Quiet, Validation
  <2>4. pvc.read = "ok" /\ ~pvc.deleted
    BY <2>3, StatesOfParts DEF NotDeleted
  <2>5. Validation(c, i, "phase", StateOf(pvc.phase = "Bound")) \in VRGValidations(c, vrg, state)
    BY <2>1, <2>4 DEF PVCValidations
  <2>6. StateOf(pvc.phase = "Bound") \notin {"warning", "problem"}
    BY <2>5 DEF Quiet, Validation
  <2>. QED
    BY <2>4, <2>6, StatesOfParts DEF Bound, pvc
<1>. QED
  BY <1>1, <1>3, <1>4, <1>5, <1>6

(* And from a DRPC without one. *)
LEMMA QuietDRPC ==
  ASSUME Quiet(DRPCValidations)
  PROVE  /\ PolicyInterval.state \notin {"warning", "problem"}
         /\ SyncTime(data.drpc, data.drpc.clusterTime, PolicyInterval, TRUE) \notin {"warning", "problem"}
         /\ data.drpc.action \in {"", "Failover", "Relocate"}
         /\ data.drpc.phase = StablePhase(data.drpc.action)
         /\ data.drpc.progression = "Completed"
<1>1. /\ Validation("drpc", 0, "schedulingInterval", PolicyInterval.state) \in DRPCValidations
      /\ Validation("drpc", 0, "lastGroupSyncTime",
           SyncTime(data.drpc, data.drpc.clusterTime, PolicyInterval, TRUE)) \in DRPCValidations
      /\ Validation("drpc", 0, "action", StateOf(data.drpc.action \in {"", "Failover", "Relocate"}))
           \in DRPCValidations
      /\ Validation("drpc", 0, "phase", StateOf(data.drpc.phase = StablePhase(data.drpc.action)))
           \in DRPCValidations
      /\ Validation("drpc", 0, "progression", StateOf(data.drpc.progression = "Completed"))
           \in DRPCValidations
  BY DEF DRPCValidations
<1>2. PolicyInterval.state \notin {"warning", "problem"}
  BY <1>1 DEF Quiet, Validation
<1>3. SyncTime(data.drpc, data.drpc.clusterTime, PolicyInterval, TRUE) \notin {"warning", "problem"}
  BY <1>1 DEF Quiet, Validation
<1>4. StateOf(data.drpc.action \in {"", "Failover", "Relocate"}) \notin {"warning", "problem"}
  BY <1>1 DEF Quiet, Validation
<1>5. StateOf(data.drpc.phase = StablePhase(data.drpc.action)) \notin {"warning", "problem"}
  BY <1>1 DEF Quiet, Validation
<1>6. StateOf(data.drpc.progression = "Completed") \notin {"warning", "problem"}
  BY <1>1 DEF Quiet, Validation
<1>. QED
  BY <1>2, <1>3, <1>4, <1>5, <1>6 DEF StateOf

LEMMA PassedIsQuiet ==
  ASSUME StageInv, result = "passed"
  PROVE  /\ Quiet(DRPCValidations) /\ Quiet(OfPrimary) /\ Quiet(OfSecondary)
         /\ PrimaryCluster # SecondaryCluster
         /\ DOMAIN data.vrgs = {PrimaryCluster, SecondaryCluster}
         /\ interval = PolicyInterval
<1>1. /\ Issues(shown) = {} /\ Readable(PrimaryCluster) /\ data \in Inputs /\ HubRead
      /\ shown = ((DRPCValidations \cup OfPrimary) \cup OfSecondary) \cup S3Validations
  BY DEF StageInv
<1>2. Quiet(DRPCValidations) /\ Quiet(OfPrimary) /\ Quiet(OfSecondary)
  BY <1>1 DEF Quiet, Issues
<1>. QED
  BY <1>1, <1>2, InputsFacts DEF Readable, HubRead

(* A validation that passes found the application stable: the action is    *)
(* done, one cluster is primary, the one it moved to, and every volume     *)
(* protected there is bound (validateDRPC and validateVRG,                 *)
(* pkg/validate/application/command.go).                                   *)
THEOREM PassedIsStable == Spec => []PassedMeansStable
<1>1. StageInv => PassedMeansStable
  <2>. SUFFICES ASSUME StageInv, result = "passed"
       PROVE  /\ Primaries = {PrimaryCluster}
              /\ data.drpc.progression = "Completed"
              /\ data.drpc.phase \in {"Deployed", "FailedOver", "Relocated"}
              /\ data.drpc.phase = "FailedOver" <=> data.drpc.action = "Failover"
              /\ \A i \in DOMAIN data.vrgs[PrimaryCluster].pvcs :
                   Bound(data.vrgs[PrimaryCluster].pvcs[i])
    BY DEF PassedMeansStable
  <2>1. /\ data.drpc.action \in {"", "Failover", "Relocate"}
        /\ data.drpc.phase = StablePhase(data.drpc.action) /\ data.drpc.progression = "Completed"
    BY PassedIsQuiet, QuietDRPC
  <2>2. /\ data.vrgs[PrimaryCluster].read = "ok" /\ data.vrgs[PrimaryCluster].state = "Primary"
        /\ \A i \in DOMAIN data.vrgs[PrimaryCluster].pvcs : Bound(data.vrgs[PrimaryCluster].pvcs[i])
    BY PassedIsQuiet, QuietVRG DEF OfPrimary
  <2>3. data.vrgs[SecondaryCluster].state = "Secondary"
    BY PassedIsQuiet, QuietVRG DEF OfSecondary
  <2>4. Primaries = {PrimaryCluster}
    BY <2>2, <2>3, PassedIsQuiet DEF Primaries
  <2>5. /\ data.drpc.phase \in {"Deployed", "FailedOver", "Relocated"}
        /\ data.drpc.phase = "FailedOver" <=> data.drpc.action = "Failover"
    BY <2>1 DEF StablePhase
  <2>. QED
    BY <2>1, <2>2, <2>4, <2>5
<1>. QED
  BY <1>1, ApplicationConsistent, PTL

(* A delay that is judged and found in order is within two intervals. *)
LEMMA NotLate ==
  ASSUME NEW object, NEW scheduling, NEW primary \in BOOLEAN,
         object.clusterTime \in Int, object.syncTime \in Int, data.policy.interval \in Int,
         SyncTime(object, object.clusterTime, scheduling, primary) \notin {"warning", "problem"},
         data.policy.interval > 0 =>
           scheduling.state = "ok" /\ scheduling.value = data.policy.interval
  PROVE  ~Late(object) /\ (primary => object.syncTime # Missing)
<1>1. primary => object.syncTime # Missing
  BY DEF SyncTime
<1>2. ASSUME Late(object) PROVE FALSE
  <2>1. /\ object.clusterTime # Missing /\ object.syncTime # Missing /\ data.policy.interval > 0
        /\ object.clusterTime - object.syncTime > 2 * data.policy.interval
    BY <1>2 DEF Late
  <2>2. scheduling.state = "ok" /\ scheduling.value = data.policy.interval
        /\ data.policy.interval # 0
    BY <2>1
  <2>3. Judged(object.clusterTime, scheduling)
    BY <2>1, <2>2 DEF Judged
  <2>4. Delay(object.clusterTime - object.syncTime, data.policy.interval) \notin {"warning", "problem"}
    BY <2>1, <2>2, <2>3 DEF SyncTime
  <2>. QED
    BY <2>1, <2>4 DEF Delay
<1>. QED
  BY <1>1, <1>2

(* A validation that passes found the replication fresh: the DRPC and      *)
(* every asynchronous VRG synchronized within two intervals of the         *)
(* DRPolicy, although the code measures a VRG by its own interval          *)
(* (validatedLastGroupSyncTime, pkg/validate/application/command.go).      *)
THEOREM PassedIsFresh == Spec => []PassedMeansFresh
<1>1. StageInv => PassedMeansFresh
  <2>. SUFFICES ASSUME StageInv, result = "passed"
       PROVE  /\ data.drpc.syncTime # Missing /\ ~Late(data.drpc)
              /\ data.vrgs[PrimaryCluster].syncTime # Missing
              /\ \A c \in DOMAIN data.vrgs : data.vrgs[c].async => ~Late(data.vrgs[c])
    BY DEF PassedMeansFresh
  <2>1. data \in Inputs
    BY DEF StageInv
  <2>2. PolicyInterval.state = "ok" /\ PolicyInterval.value = data.policy.interval
    BY PassedIsQuiet, QuietDRPC DEF PolicyInterval
  <2>3. data.drpc.syncTime # Missing /\ ~Late(data.drpc)
    BY <2>1, <2>2, InputsFacts, PassedIsQuiet, QuietDRPC, NotLate
  <2>4. /\ VRGInterval(data.vrgs[PrimaryCluster]).state \notin {"warning", "problem"}
        /\ SyncTime(data.vrgs[PrimaryCluster], data.vrgs[PrimaryCluster].clusterTime,
             VRGInterval(data.vrgs[PrimaryCluster]), "Primary" = "Primary") \notin {"warning", "problem"}
    BY PassedIsQuiet, QuietVRG DEF OfPrimary
  <2>5. /\ VRGInterval(data.vrgs[SecondaryCluster]).state \notin {"warning", "problem"}
        /\ SyncTime(data.vrgs[SecondaryCluster], data.vrgs[SecondaryCluster].clusterTime,
             VRGInterval(data.vrgs[SecondaryCluster]), "Secondary" = "Primary") \notin {"warning", "problem"}
    BY PassedIsQuiet, QuietVRG DEF OfSecondary
  <2>6. data.vrgs[PrimaryCluster].syncTime # Missing
    BY <2>4 DEF SyncTime
  <2>7. ASSUME NEW c \in DOMAIN data.vrgs, data.vrgs[c].async PROVE ~Late(data.vrgs[c])
    <3>. DEFINE vrg == data.vrgs[c]
    <3>1. /\ vrg.interval \in Int /\ vrg.clusterTime \in Int /\ vrg.syncTime \in Int
          /\ data.policy.interval \in Int
      BY <2>1, InputsFacts
    <3>2. PICK primary \in BOOLEAN :
            /\ VRGInterval(vrg).state \notin {"warning", "problem"}
            /\ SyncTime(vrg, vrg.clusterTime, VRGInterval(vrg), primary) \notin {"warning", "problem"}
      BY <2>4, <2>5, PassedIsQuiet
    <3>. HIDE DEF vrg
    <3>3. vrg.interval = interval.value /\ interval.state = "ok"
          /\ VRGInterval(vrg) = [state |-> "ok", value |-> vrg.interval]
      <4>1. interval.state = "ok"
        BY <2>2, PassedIsQuiet
      <4>2. ~(vrg.interval < 0)
        BY <2>7, <3>2 DEF VRGInterval, vrg
      <4>3. VRGInterval(vrg) = [state |-> StateOf(interval.state = "ok" => vrg.interval = interval.value),
                                value |-> vrg.interval]
        BY <2>7, <4>2 DEF VRGInterval, vrg
      <4>4. vrg.interval = interval.value
        BY <3>2, <4>1, <4>3 DEF StateOf
      <4>. QED
        BY <4>1, <4>3, <4>4 DEF StateOf
    <3>4. vrg.interval = data.policy.interval
      BY <2>2, <3>3, PassedIsQuiet
    <3>5. ~Late(vrg)
      BY <3>1, <3>2, <3>3, <3>4, NotLate
    <3>. QED
      BY <3>5 DEF vrg
  <2>. QED
    BY <2>3, <2>6, <2>7
<1>. QED
  BY <1>1, ApplicationConsistent, PTL
-----------------------------------------------------------------------------
(* A delay that is not late raises no issue, judged or not. *)
LEMMA InTime ==
  ASSUME NEW object, NEW scheduling, NEW primary \in BOOLEAN,
         object.clusterTime \in Int, object.syncTime \in Int, data.policy.interval \in Int,
         primary => object.syncTime # Missing,
         scheduling.state = "ok" =>
           scheduling.value = data.policy.interval /\ data.policy.interval >= 0 /\ ~Late(object)
  PROVE  SyncTime(object, object.clusterTime, scheduling, primary) \notin {"warning", "problem"}
<1>1. CASE object.syncTime = Missing \/ ~Judged(object.clusterTime, scheduling)
  BY <1>1 DEF SyncTime
<1>2. CASE object.syncTime # Missing /\ Judged(object.clusterTime, scheduling)
  <2>. DEFINE lag == object.clusterTime - object.syncTime
              value == data.policy.interval
  <2>1. /\ object.clusterTime # Missing /\ scheduling.value = value /\ value # 0 /\ value >= 0
        /\ ~Late(object)
    BY <1>2 DEF Judged
  <2>2. value > 0 /\ lag \in Int /\ value \in Int
    BY <2>1
  <2>3. ~(lag > 2 * value)
    BY <1>2, <2>1, <2>2 DEF Late
  <2>4. SyncTime(object, object.clusterTime, scheduling, primary) = Delay(lag, value)
    BY <1>2, <2>1 DEF SyncTime
  <2>. HIDE DEF lag, value
  <2>5. ~(lag >= 3 * value)
    BY <2>2, <2>3
  <2>. QED
    BY <2>3, <2>4, <2>5 DEF Delay
<1>. QED
  BY <1>1, <1>2

LEMMA MetIsQuiet ==
  ASSUME NEW condition, Met(condition)
  PROVE  Condition(condition) = "ok"
BY DEF Met, Condition, StateOf

(* A VRG that is as it should be.  Its protected PVCs matter where they    *)
(* are validated.                                                          *)
LEMMA SoundVRG ==
  ASSUME data \in Inputs, interval = PolicyInterval, PolicyInterval.state = "ok",
         PolicyInterval.value = data.policy.interval, data.policy.interval >= 0,
         NEW c \in DOMAIN data.vrgs, NEW vrg, vrg = data.vrgs[c], NEW state,
         vrg.read = "ok", ~vrg.deleted, vrg.state = state,
         vrg.async => vrg.interval = data.policy.interval /\ ~Late(vrg),
         state = "Primary" => vrg.syncTime # Missing,
         \A type \in DOMAIN vrg.conditions \ {"DataProtected", "New"} :
            vrg.conditions[type].unused \/ Met(vrg.conditions[type]),
         \A i \in ProtectedPVCs(vrg) :
           /\ Bound(vrg.pvcs[i])
           /\ \A type \in PVCConditions(vrg.pvcs[i]) : Condition(vrg.pvcs[i].conditions[type]) = "ok"
  PROVE  Quiet(VRGValidations(c, vrg, state))
<1>. SUFFICES ASSUME NEW v \in VRGValidations(c, vrg, state) PROVE v.state \notin {"warning", "problem"}
  BY DEF Quiet
<1>1. /\ vrg.interval \in Int /\ vrg.clusterTime \in Int /\ vrg.syncTime \in Int
      /\ data.policy.interval \in Int /\ vrg.async \in BOOLEAN
      /\ \A i \in DOMAIN vrg.pvcs : DOMAIN vrg.pvcs[i].conditions \cap Fields = {}
  BY InputsFacts
<1>2. VRGInterval(vrg).state \in {"", "ok"}
      /\ (VRGInterval(vrg).state = "ok" => vrg.async /\ VRGInterval(vrg).value = data.policy.interval)
  <2>1. CASE ~vrg.async
    BY <2>1 DEF VRGInterval
  <2>2. CASE vrg.async
    <3>1. vrg.interval = data.policy.interval /\ ~(vrg.interval < 0)
      BY <1>1, <2>2
    <3>2. VRGInterval(vrg) = [state |-> StateOf(interval.state = "ok" => vrg.interval = interval.value),
                              value |-> vrg.interval]
      BY <2>2, <3>1 DEF VRGInterval
    <3>. QED
      BY <2>2, <3>1, <3>2 DEF StateOf
  <2>. QED
    BY <1>1, <2>1, <2>2
<1>3. SyncTime(vrg, vrg.clusterTime, VRGInterval(vrg), state = "Primary") \notin {"warning", "problem"}
  <2>1. (state = "Primary") \in BOOLEAN
    OBVIOUS
  <2>. QED
    BY <1>1, <1>2, <2>1, InTime
<1>4. CASE v.key = "deleted" /\ v.state = NotDeleted(vrg)
  BY <1>4 DEF NotDeleted, StateOf
<1>5. CASE v.state = VRGInterval(vrg).state
  BY <1>2, <1>5
<1>6. CASE v.state = SyncTime(vrg, vrg.clusterTime, VRGInterval(vrg), state = "Primary")
  BY <1>3, <1>6
<1>7. CASE v.state = VRGState(vrg, state)
  BY <1>7 DEF VRGState, StateOf
<1>8. CASE v.key \in VRGConditions(vrg) /\ v.state = Condition(vrg.conditions[v.key])
  BY <1>8, MetIsQuiet DEF VRGConditions
<1>9. CASE /\ v.at \in ProtectedPVCs(vrg) /\ v.at \in DOMAIN vrg.pvcs
           /\ v \in PVCValidations(c, v.at, vrg.pvcs[v.at])
  <2>. DEFINE pvc == vrg.pvcs[v.at]
  <2>1. /\ Bound(pvc) /\ DOMAIN pvc.conditions \cap Fields = {}
        /\ \A type \in PVCConditions(pvc) : Condition(pvc.conditions[type]) = "ok"
    BY <1>1, <1>9
  <2>2. v \in PVCValidations(c, v.at, pvc)
    BY <1>9
  <2>. HIDE DEF pvc
  <2>3. \/ v.key = "deleted" /\ v.state = NotDeleted(pvc)
        \/ v.key \in PVCConditions(pvc) /\ v.state = Condition(pvc.conditions[v.key])
        \/ v.key = "phase" /\ v.state = StateOf(pvc.phase = "Bound")
    BY <2>1, <2>2, PVCShape
  <2>. QED
    BY <2>1, <2>3 DEF Bound, NotDeleted, StateOf
<1>. QED
  BY <1>4, <1>5, <1>6, <1>7, <1>8, <1>9, VRGShape

LEMMA SoundDRPC ==
  ASSUME data \in Inputs, Sound
  PROVE  /\ Quiet(DRPCValidations)
         /\ PolicyInterval.state = "ok" /\ PolicyInterval.value = data.policy.interval
         /\ data.policy.interval >= 0
<1>1. /\ data.drpc.read = "ok" /\ ~data.drpc.deleted
      /\ data.drpc.action \in {"", "Failover", "Relocate"}
      /\ data.drpc.phase = StablePhase(data.drpc.action) /\ data.drpc.progression = "Completed"
      /\ \A type \in DOMAIN data.drpc.conditions : Met(data.drpc.conditions[type])
      /\ data.policy.read = "ok" /\ data.policy.interval >= 0
      /\ data.drpc.syncTime # Missing /\ ~Late(data.drpc)
  BY DEF Sound
<1>2. PolicyInterval = [state |-> "ok", value |-> data.policy.interval]
  BY <1>1 DEF PolicyInterval
<1>3. SyncTime(data.drpc, data.drpc.clusterTime, PolicyInterval, TRUE) \notin {"warning", "problem"}
  BY <1>1, <1>2, InputsFacts, InTime
<1>4. ASSUME NEW v \in DRPCValidations PROVE v.state \notin {"warning", "problem"}
  <2>1. CASE v.key \in DOMAIN data.drpc.conditions /\ v.state = Condition(data.drpc.conditions[v.key])
    BY <1>1, <2>1, MetIsQuiet
  <2>2. CASE v.state = NotDeleted(data.drpc)
    BY <1>1, <2>2 DEF NotDeleted, StateOf
  <2>3. CASE v.state = PolicyInterval.state
    BY <1>2, <2>3
  <2>4. CASE v.state = SyncTime(data.drpc, data.drpc.clusterTime, PolicyInterval, TRUE)
    BY <1>3, <2>4
  <2>5. CASE \/ v.state = StateOf(data.drpc.action \in {"", "Failover", "Relocate"})
             \/ v.state = StateOf(data.drpc.phase = StablePhase(data.drpc.action))
             \/ v.state = StateOf(data.drpc.progression = "Completed")
    BY <1>1, <2>5 DEF StateOf
  <2>. QED
    BY <2>1, <2>2, <2>3, <2>4, <2>5, DRPCShape
<1>. QED
  BY <1>1, <1>2, <1>4 DEF Quiet

(* A sound application has no issue, and its validation no error: not      *)
(* before the first failover, and not behind it, when one cluster holds    *)
(* leftovers (validatedConditions and validatedProtectedPVCs,              *)
(* pkg/validate/application/command.go).                                   *)
THEOREM SoundIsQuiet == Spec => []SoundHasNoIssue
<1>1. StageInv => SoundHasNoIssue
  <2>. SUFFICES ASSUME StageInv, Sound
                PROVE  result # "error" /\ {v \in Issues(shown) : v.object # "s3"} = {}
    BY DEF SoundHasNoIssue
  <2>. DEFINE p == data.vrgs[PrimaryCluster]
              q == data.vrgs[SecondaryCluster]
  <2>1. data \in Inputs /\ DOMAIN data.vrgs = {PrimaryCluster, SecondaryCluster}
    BY InputsFacts DEF StageInv, Sound
  <2>2. /\ \A vrg \in {p, q} :
             /\ vrg.read = "ok" /\ ~vrg.deleted
             /\ vrg.async => vrg.interval = data.policy.interval /\ ~Late(vrg)
             /\ \A type \in DOMAIN vrg.conditions \ {"DataProtected", "New"} :
                  vrg.conditions[type].unused \/ Met(vrg.conditions[type])
        /\ p.syncTime # Missing /\ p.state = "Primary" /\ q.state = "Secondary"
        /\ \A i \in DOMAIN p.pvcs :
             /\ Bound(p.pvcs[i])
             /\ \A type \in DOMAIN p.pvcs[i].conditions \ {"DataProtected", "PVsRestored"} :
                  Met(p.pvcs[i].conditions[type])
             /\ "PVsRestored" \in DOMAIN p.pvcs[i].conditions =>
                  \/ p.pvcs[i].conditions["PVsRestored"].stale
                  \/ p.pvcs[i].conditions["PVsRestored"].status = "True"
        /\ data.drpc.read = "ok"
    BY DEF Sound
  <2>3. Readable(PrimaryCluster) /\ Readable(SecondaryCluster)
    BY <2>1, <2>2 DEF Readable
  <2>4. result # "error"
    BY <2>2, <2>3 DEF StageInv
  <2>5. Quiet(DRPCValidations) /\ PolicyInterval.state = "ok"
        /\ PolicyInterval.value = data.policy.interval /\ data.policy.interval >= 0
    BY <2>1, SoundDRPC
  <2>6. ASSUME interval = PolicyInterval PROVE Quiet(OfPrimary)
    <3>1. ASSUME NEW i \in ProtectedPVCs(p)
          PROVE  /\ Bound(p.pvcs[i])
                 /\ \A type \in PVCConditions(p.pvcs[i]) : Condition(p.pvcs[i].conditions[type]) = "ok"
      <4>1. i \in DOMAIN p.pvcs
        BY DEF ProtectedPVCs
      <4>2. ASSUME NEW type \in PVCConditions(p.pvcs[i])
            PROVE  Condition(p.pvcs[i].conditions[type]) = "ok"
        BY <2>2, <4>1, <4>2, MetIsQuiet DEF PVCConditions, Condition, StateOf
      <4>. QED
        BY <2>2, <4>1, <4>2
    <3>. QED
      BY <2>1, <2>2, <2>5, <2>6, <3>1, SoundVRG DEF OfPrimary
  <2>7. ASSUME interval = PolicyInterval PROVE Quiet(OfSecondary)
    <3>1. ProtectedPVCs(q) = {}
      BY <2>2 DEF ProtectedPVCs
    <3>. QED
      BY <2>1, <2>2, <2>5, <2>7, <3>1, SoundVRG DEF OfSecondary
  <2>8. shown = {} \/ interval = PolicyInterval
    BY DEF StageInv, HubRead
  <2>9. ASSUME NEW v \in shown, v.object # "s3" PROVE v.state \notin {"warning", "problem"}
    BY <2>5, <2>6, <2>7, <2>8, <2>9, ShownShape DEF Quiet
  <2>. QED
    BY <2>4, <2>9 DEF Issues
<1>. QED
  BY <1>1, ApplicationConsistent, PTL

(* The page of `validate application` hides no issue: a section is open    *)
(* exactly when a validation in it, or in a section inside of it, is an    *)
(* issue, and every issue is on the page (shouldOpen and AggregateState,   *)
(* pkg/report/html.go and pkg/report/application.go).                      *)
THEOREM ApplicationIssuesAreOpen == Spec => []IssuesAreOpen
<1>1. StageInv => IssuesAreOpen
  <2>. SUFFICES ASSUME StageInv
       PROVE  /\ \A s \in UNION {SectionsOf(v) : v \in shown} :
                   ShouldOpen(s) <=> \E v \in shown : s \in SectionsOf(v) /\ IsIssue(v.state)
              /\ \A v \in shown : IsIssue(v.state) => Rendered(v)
    BY DEF IssuesAreOpen
  <2>1. \A v \in shown : v.state \in States
    BY ShownShape
  <2>2. ASSUME NEW object, NEW at
        PROVE  /\ ConditionsState(object, at) \in States
               /\ IsIssue(ConditionsState(object, at)) <=>
                    \E v \in shown : /\ v.object = object /\ v.at = at /\ v.key \notin Fields
                                     /\ IsIssue(v.state)
    <3>. DEFINE S == {v.state : v \in {w \in shown : w.object = object /\ w.at = at
                                                      /\ w.key \notin Fields}}
    <3>1. S \in SUBSET States
      BY <2>1
    <3>2. (\E x \in S : IsIssue(x)) <=>
            \E v \in shown : v.object = object /\ v.at = at /\ v.key \notin Fields /\ IsIssue(v.state)
      OBVIOUS
    <3>3. ConditionsState(object, at) = Aggregate(S)
      BY DEF ConditionsState
    <3>. HIDE DEF S
    <3>. QED
      BY <3>1, <3>2, <3>3, AggregateIssue
  <2>3. ASSUME NEW object, NEW at
        PROVE  /\ PVCState(object, at) \in States
               /\ IsIssue(PVCState(object, at)) <=>
                    \E v \in shown : /\ v.object = object /\ v.at = at
                                     /\ v.key \in {"phase", "deleted"} \/ v.key \notin Fields
                                     /\ IsIssue(v.state)
    <3>. DEFINE S == StatesOf(object, at, {"phase", "deleted"})
    <3>1. S \in SUBSET States
      BY <2>1 DEF StatesOf
    <3>2. (\E x \in S : IsIssue(x)) <=>
            \E v \in shown : v.object = object /\ v.at = at /\ v.key \in {"phase", "deleted"} /\ IsIssue(v.state)
      BY DEF StatesOf
    <3>3. PVCState(object, at) = SignificantState(Aggregate(S), ConditionsState(object, at))
      BY DEF PVCState
    <3>. HIDE DEF S
    <3>4. Aggregate(S) \in States /\ (IsIssue(Aggregate(S)) <=> \E x \in S : IsIssue(x))
      BY <3>1, AggregateIssue
    <3>5. /\ PVCState(object, at) \in States
          /\ IsIssue(PVCState(object, at)) <=>
               IsIssue(Aggregate(S)) \/ IsIssue(ConditionsState(object, at))
      BY <2>2, <3>3, <3>4, SignificantIssue
    <3>. QED
      BY <2>2, <3>2, <3>4, <3>5
  <2>4. ASSUME NEW v \in shown, OfVRG(v), v.at > 0
        PROVE  v.key \in {"phase", "deleted"} \/ v.key \notin Fields
    <3>1. data \in Inputs /\ ~(0 > 0)
      BY DEF StageInv
    <3>2. PICK c \in DOMAIN data.vrgs, state \in {"Primary", "Secondary"} :
            v \in VRGValidations(c, data.vrgs[c], state)
      BY <2>4, ShownShape DEF OfVRG, OfPrimary, OfSecondary, Readable
    <3>3. v.at = 0 \/ v.key \in {"deleted", "phase"} \/ v.key \notin Fields
      BY <3>1, <3>2, VRGShape
    <3>. QED
      BY <2>4, <3>1, <3>3
  <2>5. ASSUME NEW v0 \in shown, NEW s \in SectionsOf(v0)
        PROVE  ShouldOpen(s) <=> \E v \in shown : s \in SectionsOf(v) /\ IsIssue(v.state)
    <3>1. CASE v0.object # "s3" /\ v0.key \notin Fields /\ s = Section(v0.object, "conditions", v0.at)
      <4>1. SectionState(s) = ConditionsState(v0.object, v0.at)
        BY <3>1 DEF SectionState, Section
      <4>2. \A v \in shown : s \in SectionsOf(v) <=>
              v.object = v0.object /\ v.at = v0.at /\ v.key \notin Fields
        BY <3>1 DEF SectionsOf, Section
      <4>. QED
        BY <2>2, <4>1, <4>2 DEF ShouldOpen
    <3>2. CASE OfVRG(v0) /\ v0.at > 0 /\ s = Section(v0.object, "pvcs", 0)
      <4>. DEFINE S == {PVCState(v0.object, v.at) : v \in {w \in shown : w.object = v0.object /\ w.at > 0}}
      <4>1. SectionState(s) = Aggregate(S)
        BY <3>2 DEF SectionState, Section
      <4>2. S \in SUBSET States
        BY <2>3
      <4>3. \A v \in shown : s \in SectionsOf(v) <=> v.object = v0.object /\ v.at > 0
        BY <3>2 DEF SectionsOf, Section, OfVRG
      <4>4. ASSUME NEW x \in S, IsIssue(x)
            PROVE  \E v \in shown : v.object = v0.object /\ v.at > 0 /\ IsIssue(v.state)
        BY <2>3, <4>4
      <4>5. ASSUME NEW v \in shown, v.object = v0.object, v.at > 0, IsIssue(v.state)
            PROVE  \E x \in S : IsIssue(x)
        <5>1. v.key \in {"phase", "deleted"} \/ v.key \notin Fields
          BY <2>4, <3>2, <4>5 DEF OfVRG
        <5>2. IsIssue(PVCState(v0.object, v.at)) /\ PVCState(v0.object, v.at) \in S
          BY <2>3, <4>5, <5>1
        <5>. QED
          BY <5>2
      <4>. HIDE DEF S
      <4>. QED
        BY <4>1, <4>2, <4>3, <4>4, <4>5, AggregateIssue DEF ShouldOpen
    <3>. QED
      BY <3>1, <3>2 DEF SectionsOf
  <2>6. ASSUME NEW v \in shown, v.key = "deleted" PROVE v.state \in {"ok", "problem"}
    <3>1. \A object : NotDeleted(object) \in {"ok", "problem"}
      BY DEF NotDeleted, StateOf
    <3>2. data \in Inputs /\ "deleted" \in Fields
      BY DEF StageInv, Fields
    <3>3. CASE v \in DRPCValidations
      BY <2>6, <3>1, <3>2, <3>3, DRPCShape
    <3>4. ASSUME NEW c \in DOMAIN data.vrgs, NEW state, v \in VRGValidations(c, data.vrgs[c], state)
          PROVE  v.state \in {"ok", "problem"}
      <4>1. \/ v.state = NotDeleted(data.vrgs[c])
            \/ /\ v.at \in DOMAIN data.vrgs[c].pvcs
               /\ v \in PVCValidations(c, v.at, data.vrgs[c].pvcs[v.at])
        BY <2>6, <3>2, <3>4, VRGShape
      <4>2. v.at \in DOMAIN data.vrgs[c].pvcs =>
              DOMAIN data.vrgs[c].pvcs[v.at].conditions \cap Fields = {}
        BY <3>2, InputsFacts
      <4>. QED
        BY <2>6, <3>1, <3>2, <4>1, <4>2, PVCShape
    <3>5. v \notin S3Validations
      BY <2>6, S3Shape
    <3>. QED
      BY <3>3, <3>4, <3>5, ShownShape DEF OfPrimary, OfSecondary, Readable
  <2>7. \A v \in shown : IsIssue(v.state) => Rendered(v)
    BY <2>6 DEF IsIssue, Rendered
  <2>. QED
    BY <2>5, <2>7
<1>. QED
  BY <1>1, ApplicationConsistent, PTL
=============================================================================
