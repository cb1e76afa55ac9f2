------------------------- MODULE ApplicationStatus --------------------------
(***************************************************************************)
(* The validation of the data `validate application` gathered: the DRPC on *)
(* the hub, the VRG on the cluster the DRPC's action wants the application *)
(* on, the VRG on the other one, then the S3 results.  DataCommands shows  *)
(* what happens before and after it.                                       *)
(*                                                                         *)
(* Times are numbers; an interval is a number, or not set, or not valid.   *)
(***************************************************************************)
EXTENDS Integers, Sequences, FiniteSets

CONSTANT Inputs           \* the gathered data considered

(* The fields of the report that are validated; conditions have types.     *)
Fields == {"deleted", "schedulingInterval", "lastGroupSyncTime", "action", "phase",
           "progression", "state"}

(* What gathered data is, whatever the objects hold: times and intervals   *)
(* are numbers, a type is not the name of a field (it starts with a        *)
(* capital), protected PVCs are numbered.  The environment has two managed *)
(* clusters; of each a VRG was read, or looked for.                        *)
ASSUME InputsAssumption ==
  \A d \in Inputs :
    /\ {d.policy.interval, d.drpc.clusterTime, d.drpc.syncTime} \subseteq Int
    /\ DOMAIN d.drpc.conditions \cap Fields = {}
    /\ DOMAIN d.vrgs = {"c1", "c2"}
    /\ \A c \in {"c1", "c2"} :
         LET vrg == d.vrgs[c] IN
         /\ {vrg.interval, vrg.clusterTime, vrg.syncTime} \subseteq Int
         /\ vrg.async \in BOOLEAN
         /\ DOMAIN vrg.conditions \cap Fields = {}
         /\ DOMAIN vrg.pvcs \subseteq Nat \ {0}
         /\ \A i \in DOMAIN vrg.pvcs : DOMAIN vrg.pvcs[i].conditions \cap Fields = {}

VARIABLES
  data,                   \* the gathered data
  pc,                     \* the part validated next
  interval,               \* the scheduling interval the report shows for the DRPC
  shown,                  \* the validations the report shows
  result                  \* "none", "passed", "issues" or "error"

vars == <<data, pc, interval, shown, result>>

Missing == -1             \* a time or an interval that is not set
Invalid == -2             \* an interval that cannot be parsed

StateOf(ok) == IF ok THEN "ok" ELSE "problem"

Validation(object, at, key, state) == [object |-> object, at |-> at, key |-> key, state |-> state]

Init ==
  /\ data \in Inputs
  /\ pc = "hub"
  /\ interval = [state |-> "", value |-> 0]
  /\ shown = {}
  /\ result = "none"

NotDeleted(object) == StateOf(object.read = "ok" /\ ~object.deleted)

(* A condition of an older generation of its object says nothing. *)
Condition(condition) ==
  IF condition.stale THEN "warning" ELSE StateOf(condition.status = "True")

(* Can a delay be told from the time of the cluster and the interval? *)
Judged(clusterTime, scheduling) ==
  clusterTime # Missing /\ scheduling.state = "ok" /\ scheduling.value # 0

(* Faulty Delay: the warning is missing. *)
DelayProblem(lag, value) == IF lag >= 3 * value THEN "problem" ELSE "ok"

(* The thresholds are those of the alert of ramen. *)
Delay(lag, value) ==
  IF lag >= 3 * value THEN "problem" ELSE IF lag > 2 * value THEN "warning" ELSE "ok"

(* Is the replication fresh?  A validation without a state is not counted. *)
SyncTime(object, clusterTime, scheduling, primary) ==
  IF object.syncTime = Missing THEN IF primary THEN "warning" ELSE "ok"
  ELSE IF ~Judged(clusterTime, scheduling) THEN ""
  ELSE Delay(clusterTime - object.syncTime, scheduling.value)
-----------------------------------------------------------------------------
(* The DRPC. *)

StablePhase(action) ==
  CASE action = "" -> "Deployed"
    [] action = "Failover" -> "FailedOver"
    [] action = "Relocate" -> "Relocated"
    [] OTHER -> "unknown action"

(* The interval of the DRPC is that of its DRPolicy, if it can be read. *)
PolicyInterval ==
  IF data.policy.read = "ok" /\ data.policy.interval >= 0
  THEN [state |-> "ok", value |-> data.policy.interval]
  ELSE [state |-> "problem", value |-> 0]

DRPCValidations ==
  LET drpc == data.drpc IN
  {Validation("drpc", 0, "deleted", NotDeleted(drpc)),
   Validation("drpc", 0, "schedulingInterval", PolicyInterval.state),
   Validation("drpc", 0, "lastGroupSyncTime",
     SyncTime(drpc, drpc.clusterTime, PolicyInterval, TRUE)),
   Validation("drpc", 0, "action", StateOf(drpc.action \in {"", "Failover", "Relocate"})),
   Validation("drpc", 0, "phase", StateOf(drpc.phase = StablePhase(drpc.action))),
   Validation("drpc", 0, "progression", StateOf(drpc.progression = "Completed"))}
    \cup {Validation("drpc", 1, type, Condition(drpc.conditions[type])) :
            type \in DOMAIN drpc.conditions}

ValidateHub ==
  /\ pc = "hub"
  /\ IF data.drpc.read = "ok"
     THEN /\ pc' = "primary"
          /\ interval' = PolicyInterval
          /\ shown' = DRPCValidations
          /\ UNCHANGED result
     ELSE /\ pc' = "done"
          /\ result' = "error"
          /\ UNCHANGED <<interval, shown>>
  /\ UNCHANGED data
-----------------------------------------------------------------------------
(* The VRG of a cluster. *)

(* During a failover or a relocation the application is not there yet. *)
PrimaryCluster ==
  IF data.drpc.action = "Failover" THEN data.drpc.failoverCluster ELSE data.drpc.preferredCluster

(* Faulty SecondaryCluster: the failover cluster, whatever the action. *)
FailoverCluster == data.drpc.failoverCluster

SecondaryCluster == IF PrimaryCluster = "c1" THEN "c2" ELSE "c1"

(* Without async replication (metro DR) there is no interval to validate.  *)
VRGInterval(vrg) ==
  CASE ~vrg.async -> [state |-> "", value |-> 0]
    [] vrg.async /\ vrg.interval < 0 -> [state |-> "problem", value |-> 0]
    [] OTHER -> [state |-> StateOf(interval.state = "ok" => vrg.interval = interval.value),
                 value |-> vrg.interval]

(* Conditions that a sound VRG need not meet are skipped.                  *)
VRGConditions(vrg) ==
  {type \in DOMAIN vrg.conditions :
     type \notin {"DataProtected", "New"} /\ ~vrg.conditions[type].unused}

(* The same of a protected PVC; PVsRestored is stale after a failover.     *)
PVCConditions(pvc) ==
  {type \in DOMAIN pvc.conditions :
     type # "DataProtected" /\ ~(type = "PVsRestored" /\ pvc.conditions[type].stale)}

(* Faulty ProtectedPVCs: those of a secondary cluster are validated too. *)
ProtectedPVCsAlways(vrg) == DOMAIN vrg.pvcs

(* On a secondary cluster they are stale. *)
ProtectedPVCs(vrg) == IF vrg.state = "Secondary" THEN {} ELSE DOMAIN vrg.pvcs

PVCValidations(c, i, pvc) ==
  {Validation(c, i, "deleted", NotDeleted(pvc))}
    \cup {Validation(c, i, type, Condition(pvc.conditions[type])) : type \in PVCConditions(pvc)}
    \cup IF pvc.read # "ok" THEN {} ELSE {Validation(c, i, "phase", StateOf(pvc.phase = "Bound"))}

(* Faulty VRGState: a VRG that is stable is good in either state. *)
VRGStateStable(vrg, stableState) == StateOf(vrg.state \in {"Primary", "Secondary"})

VRGState(vrg, stableState) == StateOf(vrg.state = stableState)

VRGValidations(c, vrg, stableState) ==
  {Validation(c, 0, "deleted", NotDeleted(vrg))} \cup
  IF vrg.read # "ok" THEN {}
  ELSE {Validation(c, 0, "schedulingInterval", VRGInterval(vrg).state),
        Validation(c, 0, "lastGroupSyncTime",
          SyncTime(vrg, vrg.clusterTime, VRGInterval(vrg), stableState = "Primary")),
        Validation(c, 0, "state", VRGState(vrg, stableState))}
    \cup {Validation(c, 0, type, Condition(vrg.conditions[type])) : type \in VRGConditions(vrg)}
    \cup UNION {PVCValidations(c, i, vrg.pvcs[i]) : i \in ProtectedPVCs(vrg)}

(* A VRG that is missing is a problem; one that cannot be read, or of a    *)
(* cluster that is not in the environment, stops the validation.           *)
ValidateCluster(stage, c, stableState, to) ==
  /\ pc = stage
  /\ IF c \in DOMAIN data.vrgs /\ data.vrgs[c].read # "unreadable"
     THEN /\ pc' = to
          /\ shown' = shown \cup VRGValidations(c, data.vrgs[c], stableState)
          /\ UNCHANGED result
     ELSE /\ pc' = "done"
          /\ result' = "error"
          /\ UNCHANGED shown
  /\ UNCHANGED <<data, interval>>

ValidatePrimaryCluster == ValidateCluster("primary", PrimaryCluster, "Primary", "secondary")

ValidateSecondaryCluster == ValidateCluster("secondary", SecondaryCluster, "Secondary", "S3")
-----------------------------------------------------------------------------
(* The S3 results, one per profile, and the verdict. *)

S3Validations ==
  {Validation("s3", i, "gathered", StateOf(data.gathered[i])) : i \in DOMAIN data.gathered}
    \cup {Validation("s3", 0, "profiles", StateOf(data.gathered # <<>>))}

Issues(validations) == {v \in validations : v.state \in {"warning", "problem"}}

ValidateS3Status ==
  /\ pc = "S3"
  /\ shown' = shown \cup S3Validations
  /\ result' = IF Issues(shown') # {} THEN "issues" ELSE "passed"
  /\ pc' = "done"
  /\ UNCHANGED <<data, interval>>

Next ==
  \/ ValidateHub
  \/ ValidatePrimaryCluster
  \/ ValidateSecondaryCluster
  \/ ValidateS3Status

Spec == Init /\ [][Next]_vars
-----------------------------------------------------------------------------
(* Values the variables range over.  A field is shown in one state only:   *)
(* no cluster is validated both as the primary and as the secondary.       *)
TypeOK ==
  /\ pc \in {"hub", "primary", "secondary", "S3", "done"}
  /\ interval \in [state : {"", "ok", "problem"}, value : Nat]
  /\ result \in {"none", "passed", "issues", "error"}
  /\ pc = "done" <=> result # "none"
  /\ \A v \in shown : v.state \in {"", "ok", "warning", "problem"}
  /\ \A v, w \in shown : v.object = w.object /\ v.at = w.at /\ v.key = w.key => v = w

(* The clusters on which the application is, or is becoming, primary. *)
Primaries == {c \in DOMAIN data.vrgs : data.vrgs[c].read = "ok" /\ data.vrgs[c].state = "Primary"}

Bound(pvc) == pvc.read = "ok" /\ ~pvc.deleted /\ pvc.phase = "Bound"

(* A validation that passes means that the application is where the DRPC's *)
(* action put it, and nowhere else: the action is done, one cluster is     *)
(* primary, the one it moved to, and every volume protected there is bound.*)
PassedMeansStable ==
  result = "passed" =>
    /\ Primaries = {PrimaryCluster}
    /\ data.drpc.progression = "Completed"
    /\ data.drpc.phase \in {"Deployed", "FailedOver", "Relocated"}
    /\ data.drpc.phase = "FailedOver" <=> data.drpc.action = "Failover"
    /\ \A i \in DOMAIN data.vrgs[PrimaryCluster].pvcs : Bound(data.vrgs[PrimaryCluster].pvcs[i])

(* The delay of a replication, when it can be told. *)
Late(object) ==
  /\ object.clusterTime # Missing
  /\ object.syncTime # Missing
  /\ data.policy.interval > 0
  /\ object.clusterTime - object.syncTime > 2 * data.policy.interval

(* A validation that passes means that the replication is fresh: the DRPC  *)
(* and every asynchronous VRG last synchronized within two intervals of    *)
(* the DRPolicy, and the primary did synchronize.  (The code measures a    *)
(* VRG by the VRG's own interval.)                                         *)
PassedMeansFresh ==
  result = "passed" =>
    /\ data.drpc.syncTime # Missing /\ ~Late(data.drpc)
    /\ data.vrgs[PrimaryCluster].syncTime # Missing
    /\ \A c \in DOMAIN data.vrgs : data.vrgs[c].async => ~Late(data.vrgs[c])

Met(condition) == ~condition.stale /\ condition.status = "True"

(* An application that works.  On the secondary cluster what is left of    *)
(* the protected PVCs and the conditions not in use may be anything.       *)
Sound ==
  LET drpc == data.drpc
      p == data.vrgs[PrimaryCluster]
      q == data.vrgs[SecondaryCluster] IN
  /\ drpc.read = "ok" /\ ~drpc.deleted
  /\ PrimaryCluster \in DOMAIN data.vrgs
  /\ drpc.action \in {"", "Failover", "Relocate"}
  /\ drpc.phase = StablePhase(drpc.action) /\ drpc.progression = "Completed"
  /\ \A type \in DOMAIN drpc.conditions : Met(drpc.conditions[type])
  /\ data.policy.read = "ok" /\ data.policy.interval >= 0
  /\ drpc.syncTime # Missing /\ ~Late(drpc)
  /\ \A vrg \in {p, q} :
       /\ vrg.read = "ok" /\ ~vrg.deleted
       /\ vrg.async => vrg.interval = data.policy.interval /\ ~Late(vrg)
       /\ \A type \in DOMAIN vrg.conditions \ {"DataProtected", "New"} :
            vrg.conditions[type].unused \/ Met(vrg.conditions[type])
  /\ p.syncTime # Missing
  /\ p.state = "Primary" /\ q.state = "Secondary"
  /\ \A i \in DOMAIN p.pvcs :
       /\ Bound(p.pvcs[i])
       /\ \A type \in DOMAIN p.pvcs[i].conditions \ {"DataProtected", "PVsRestored"} :
            Met(p.pvcs[i].conditions[type])
       /\ "PVsRestored" \in DOMAIN p.pvcs[i].conditions =>
            LET c == p.pvcs[i].conditions["PVsRestored"] IN c.stale \/ c.status = "True"

(* A sound application has no issue: not before the first failover, and    *)
(* not after it, when one cluster holds leftovers of the time it was       *)
(* primary and conditions of the other are stale.                          *)
SoundHasNoIssue ==
  Sound => result # "error" /\ {v \in Issues(shown) : v.object # "s3"} = {}
=============================================================================
