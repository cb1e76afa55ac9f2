------------------------- MODULE MCApplicationStatus ------------------------
(***************************************************************************)
(* Gathered data for ApplicationStatus: an application in each of its      *)
(* stable phases that deviates in one object, or on both clusters.         *)
(***************************************************************************)
EXTENDS ApplicationHTML

C(stale, status) == [stale |-> stale, status |-> status]

U(stale, status, unused) == [stale |-> stale, status |-> status, unused |-> unused]

DRPC(action) ==
  [read |-> "ok", deleted |-> FALSE, action |-> action,
   preferredCluster |-> "c1", failoverCluster |-> "c2",
   phase |-> StablePhase(action), progression |-> "Completed",
   clusterTime |-> 20, syncTime |-> 18, conditions |-> [Available |-> C(FALSE, "True")]]

DRPCs(action) ==
  LET d == DRPC(action) IN
  {d, [d EXCEPT !.read = "missing"], [d EXCEPT !.deleted = TRUE],
   [d EXCEPT !.preferredCluster = "other", !.failoverCluster = "other"],
   [d EXCEPT !.preferredCluster = "c2", !.failoverCluster = "c1"],
   [d EXCEPT !.action = "Failover"], [d EXCEPT !.action = "x"],
   [d EXCEPT !.progression = "Cleaning"], [d EXCEPT !.clusterTime = Missing]}
   \cup {[d EXCEPT !.syncTime = t] : t \in {Missing, 14, 16, 17, 22}}
   \cup {[d EXCEPT !.conditions["Available"] = C(stale, status)] :
           stale \in BOOLEAN, status \in {"True", "False"}}

PVC ==
  [read |-> "ok", deleted |-> FALSE, phase |-> "Bound",
   conditions |-> [DataReady |-> C(FALSE, "True"), PVsRestored |-> C(TRUE, "False"),
                   DataProtected |-> C(FALSE, "False")]]

VRG(state) ==
  [read |-> "ok", deleted |-> FALSE, async |-> TRUE, interval |-> 2,
   clusterTime |-> 20, syncTime |-> 17, state |-> state, pvcs |-> <<PVC>>,
   conditions |-> [DataReady |-> U(FALSE, IF state = "Primary" THEN "True" ELSE "False",
                                   state # "Primary"),
                   DataProtected |-> U(FALSE, "False", FALSE), New |-> U(TRUE, "False", FALSE)]]

VRGs(state) ==
  LET v == VRG(state) IN
  {v, [v EXCEPT !.deleted = TRUE], [v EXCEPT !.async = FALSE],
   [v EXCEPT !.clusterTime = Missing], [v EXCEPT !.interval = 4, !.syncTime = 12]}
   \cup {[v EXCEPT !.read = r] : r \in {"missing", "unreadable"}}
   \cup {[v EXCEPT !.interval = i] : i \in {Missing, Invalid, 0}}
   \cup {[v EXCEPT !.syncTime = t] : t \in {Missing, 14, 15, 16}}
   \cup {[v EXCEPT !.state = s] : s \in {"Primary", "Secondary", "Unknown"}}
   \cup {[v EXCEPT !.conditions["DataReady"] = U(stale, "False", unused)] :
           stale, unused \in BOOLEAN}
   \cup {[v EXCEPT !.pvcs = l] :
           l \in {<<>>, <<PVC, [PVC EXCEPT !.read = "missing"]>>, <<[PVC EXCEPT !.deleted = TRUE]>>,
                  <<[PVC EXCEPT !.phase = "Pending"]>>,
                  <<[PVC EXCEPT !.conditions["PVsRestored"].stale = FALSE]>>,
                  <<[PVC EXCEPT !.conditions["DataReady"].stale = TRUE]>>}}

Policy(i) == [read |-> "ok", interval |-> i]

Policies == {Policy(i) : i \in {2, 0, Missing, Invalid}} \cup {[Policy(2) EXCEPT !.read = "missing"]}

Input(drpc, policy, c1, c2, gathered) ==
  [drpc |-> drpc, policy |-> policy, vrgs |-> [c \in {"c1", "c2"} |-> IF c = "c1" THEN c1 ELSE c2],
   gathered |-> gathered]

StateOn(action, c) == IF (c = "c1") = (action # "Failover") THEN "Primary" ELSE "Secondary"

(* One entry per profile of the hub; none when it could not be read. *)
Gathered == {<<TRUE, TRUE>>, <<TRUE, FALSE>>, <<>>}

MCInputs ==
  LET actions == {"", "Failover", "Relocate"}
      V(action, c) == VRG(StateOn(action, c)) IN
  UNION {
    {Input(d, Policy(2), V(a, "c1"), V(a, "c2"), g) : d \in DRPCs(a), g \in Gathered}
    \cup {Input(DRPC(a), p, v, V(a, "c2"), <<TRUE, TRUE>>) :
            p \in Policies, v \in VRGs(StateOn(a, "c1"))}
    \cup {Input(DRPC(a), Policy(2), v, w, <<TRUE, TRUE>>) :
            v \in VRGs(StateOn(a, "c1")), w \in VRGs(StateOn(a, "c2"))} : a \in actions}
=============================================================================
