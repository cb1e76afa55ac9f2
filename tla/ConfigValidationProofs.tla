----------------------- MODULE ConfigValidationProofs -----------------------
(***************************************************************************)
(* For any environment, file and cluster set: the shared configuration     *)
(* never holds a distribution that only some of the clusters have, and a   *)
(* configuration passes only if the cluster set existed, and the managed   *)
(* clusters were in it together, then or later.  The argument: the         *)
(* clusters probed so far all have the distribution detected (ProbeInv),   *)
(* so the configuration that is set behind the last one is that of all of  *)
(* them (ConfigInv); and the clusters are listed only behind a request     *)
(* that found the set (MetInv).                                            *)
(***************************************************************************)
EXTENDS ConfigValidation, TLAPS

TypeInv ==
  /\ file.distro \in Distros \cup {"unset", "other"}
  /\ Len(clusters) \in Nat /\ Len(clusters) > 0
  /\ DOMAIN clusters = 1..Len(clusters)
  /\ real \in [1..Len(clusters) -> Distros]
  /\ members \subseteq Managed
  /\ created \in BOOLEAN /\ existed \in BOOLEAN /\ met \in BOOLEAN
  /\ ctx \in {"live", "expired", "canceled"}
  /\ pc \in {"read", "detect", "probe", "get", "list", "done"}
  /\ config \in [distro : Distros \cup {"unset"}, namespaces : Distros \cup {"unset"}]
  /\ config.namespaces = config.distro
  /\ detected \in Distros \cup {"unset"}
  /\ probed \in Nat
  /\ result \in {"none", "passed", "failed", "canceled"}
  /\ (pc = "done") <=> (result # "none")
  /\ (result = "canceled") => (ctx = "canceled")

(* Where the probing stands. *)
ProbeInv ==
  /\ probed <= Len(clusters)
  /\ probed = 0 <=> detected = "unset"
  /\ pc \in {"read", "detect"} => probed = 0
  /\ pc = "probe" => /\ probed \in 1..(Len(clusters) - 1)
                     /\ config.distro = "unset"
                     /\ \A i \in 1..probed : real[i] = detected

ConfigInv ==
  /\ pc = "read" => config.distro = "unset"
  /\ pc \in {"get", "list"} \/ result = "passed" => config.distro # "unset"
  /\ config.distro \notin {"unset", file.distro} =>
       \A i \in DOMAIN clusters : real[i] = config.distro

MetInv ==
  /\ created => existed
  /\ existed /\ members = Managed => met
  /\ pc = "list" => existed
  /\ result = "passed" => met

IInv == TypeInv /\ ProbeInv /\ ConfigInv /\ MetInv

(* The environment has at least one cluster to probe. *)
LEMMA ClustersDomain ==
  ASSUME TypeInv
  PROVE  Len(clusters) \in Nat \ {0} /\ DOMAIN clusters = 1..Len(clusters)
BY DEF TypeInv

LEMMA InitIInv == Init => IInv
<1>. SUFFICES ASSUME Init PROVE IInv
  OBVIOUS
<1>1. Len(clusters) \in Nat /\ Len(clusters) > 0 /\ DOMAIN clusters = 1..Len(clusters)
  <2>1. CASE clusters = <<Hub, C1, C2>>
    <3>1. Len(clusters) = 3 /\ DOMAIN clusters = 1..3
      BY <2>1
    <3>. QED
      BY <3>1
  <2>2. CASE clusters = <<Hub, C1, C2, PassiveHub>>
    <3>1. Len(clusters) = 4 /\ DOMAIN clusters = 1..4
      BY <2>2
    <3>. QED
      BY <3>1
  <2>. QED
    BY <2>1, <2>2 DEF Init
<1>2. met \in BOOLEAN /\ (created => existed) /\ (existed /\ members = Managed => met)
  BY Zenon DEF Init
<1>3. TypeInv
  BY <1>1, <1>2 DEF Init, TypeInv, NoConfig, Distros
<1>4. ProbeInv
  BY <1>3, ClustersDomain DEF Init, ProbeInv
<1>5. ConfigInv /\ MetInv
  BY <1>2, <1>3 DEF TypeInv, Init, ConfigInv, MetInv, NoConfig
<1>. QED
  BY <1>3, <1>4, <1>5 DEF IInv

(* A step of the program that stops without touching what was detected. *)
LEMMA StopKeeps ==
  ASSUME IInv, NEW answer \in {"failed", "canceled"}, Stop(answer),
         answer = "canceled" => ctx = "canceled",
         UNCHANGED <<file, cluster, hub, ctx, config>>,
         \/ UNCHANGED <<detected, probed>>
         \/ probed' = probed + 1 /\ probed < Len(clusters) /\ detected' \in Distros
  PROVE  IInv'
<1>. USE DEF IInv, Stop, cluster, hub
<1>1. TypeInv'
  BY DEF TypeInv, Distros
<1>2. ProbeInv'
  BY ClustersDomain DEF TypeInv, ProbeInv, Distros
<1>3. ConfigInv' /\ MetInv'
  BY DEF TypeInv, ConfigInv, MetInv
<1>. QED
  BY <1>1, <1>2, <1>3

LEMMA ReadStep == ASSUME IInv, ReadConfig PROVE IInv'
<1>1. CASE file.distro \in Distros \cup {"unset"} /\ file.kubeconfigs = Required
  <2>1. /\ config' = [distro |-> file.distro, namespaces |-> file.distro]
        /\ pc' = "detect" /\ UNCHANGED <<result, file, clusters, real, members, created, existed, met, ctx>>
        /\ UNCHANGED <<detected, probed>> /\ pc = "read"
    BY <1>1 DEF ReadConfig, Go, cluster, hub
  <2>2. TypeInv'
    BY <1>1, <2>1 DEF IInv, TypeInv
  <2>3. ProbeInv' /\ ConfigInv' /\ MetInv'
    BY <2>1 DEF IInv, TypeInv, ProbeInv, ConfigInv, MetInv
  <2>. QED
    BY <2>2, <2>3 DEF IInv
<1>2. CASE ~(file.distro \in Distros \cup {"unset"} /\ file.kubeconfigs = Required)
  BY <1>2, StopKeeps DEF ReadConfig
<1>. QED
  BY <1>1, <1>2

LEMMA ProbeStep == ASSUME IInv, ProbeDistro PROVE IInv'
<1>. DEFINE distro == real[probed + 1]
<1>1. Len(clusters) \in Nat \ {0} /\ DOMAIN clusters = 1..Len(clusters)
  BY ClustersDomain DEF IInv
<1>2. pc \in {"detect", "probe"} /\ config.distro = "unset" /\ probed < Len(clusters)
  BY <1>1 DEF IInv, ProbeInv, ProbeDistro, Probing
<1>3. distro \in Distros
  BY <1>1, <1>2 DEF IInv, TypeInv
<1>4. /\ detected' = distro /\ probed' = probed + 1
      /\ UNCHANGED <<file, clusters, real, members, created, existed, met, ctx>>
  BY DEF ProbeDistro, Probed, cluster, hub
<1>5. CASE detected \notin {"unset", distro}
  BY <1>2, <1>3, <1>4, <1>5, StopKeeps DEF ProbeDistro, Probed
<1>6. CASE detected \in {"unset", distro}
  <2>1. \A i \in 1..probed' : real[i] = detected'
    BY <1>1, <1>2, <1>4, <1>6 DEF IInv, TypeInv, ProbeInv, Distros
  <2>2. CASE probed' = Len(clusters)
    <3>1. /\ pc' = "get" /\ UNCHANGED result
          /\ config' = [distro |-> distro, namespaces |-> distro]
      BY <1>6, <2>2 DEF ProbeDistro, Probed, Go, SetDistro
    <3>2. TypeInv'
      BY <1>2, <1>3, <1>4, <3>1 DEF IInv, TypeInv
    <3>3. ProbeInv' /\ MetInv'
      BY <1>1, <1>2, <1>3, <1>4, <3>1, <2>2 DEF IInv, TypeInv, ProbeInv, MetInv, Distros
    <3>4. ConfigInv'
      BY <1>1, <1>2, <1>3, <1>4, <3>1, <2>1, <2>2 DEF IInv, TypeInv, ConfigInv, Distros
    <3>. QED
      BY <3>2, <3>3, <3>4 DEF IInv
  <2>3. CASE probed' # Len(clusters)
    <3>1. pc' = "probe" /\ UNCHANGED <<result, config>>
      BY <1>6, <2>3 DEF ProbeDistro, Probed, Go
    <3>2. TypeInv'
      BY <1>2, <1>3, <1>4, <3>1 DEF IInv, TypeInv
    <3>3. probed' \in 1..(Len(clusters)' - 1) /\ detected' # "unset"
      <4>1. probed \in Nat /\ Len(clusters)' = Len(clusters)
        BY <1>4 DEF IInv, TypeInv
      <4>2. probed' = probed + 1 /\ probed < Len(clusters) /\ probed' # Len(clusters)
        BY <1>2, <1>4, <2>3
      <4>3. detected' # "unset"
        BY <1>3, <1>4 DEF Distros
      <4>. QED
        BY <4>1, <4>2, <4>3, <1>1
    <3>4. ProbeInv'
      <4>1. probed' <= Len(clusters)' /\ probed' # 0
        BY <1>1, <1>4, <3>3
      <4>2. config'.distro = "unset"
        BY <1>2, <3>1
      <4>. QED
        BY <4>1, <4>2, <3>1, <3>3, <2>1, <1>4 DEF ProbeInv
    <3>5. ConfigInv' /\ MetInv'
      BY <1>2, <1>4, <3>1 DEF IInv, TypeInv, ConfigInv, MetInv
    <3>. QED
      BY <3>2, <3>4, <3>5 DEF IInv
  <2>. QED
    BY <2>2, <2>3
<1>. QED
  BY <1>5, <1>6

LEMMA SkipStep == ASSUME IInv, SkipDetection PROVE IInv'
<1>. USE DEF IInv, SkipDetection, Go, cluster, hub
<1>1. TypeInv'
  BY DEF TypeInv
<1>2. ProbeInv' /\ ConfigInv' /\ MetInv'
  BY DEF TypeInv, ProbeInv, ConfigInv, MetInv
<1>. QED
  BY <1>1, <1>2

LEMMA GetStep == ASSUME IInv, GetClusterSet PROVE IInv'
<1>1. CASE created
  <2>. USE <1>1 DEF IInv, GetClusterSet, SetFound, Go, cluster, hub
  <2>1. TypeInv'
    BY DEF TypeInv
  <2>2. ProbeInv' /\ ConfigInv' /\ MetInv'
    BY DEF TypeInv, ProbeInv, ConfigInv, MetInv
  <2>. QED
    BY <2>1, <2>2
<1>2. CASE ~created
  BY <1>2, StopKeeps DEF GetClusterSet, SetFound
<1>. QED
  BY <1>1, <1>2

LEMMA ListStep == ASSUME IInv, ListManagedClusters PROVE IInv'
<1>1. CASE AllMembers
  <2>. USE <1>1 DEF IInv, ListManagedClusters, Stop, cluster, hub
  <2>1. TypeInv'
    BY DEF TypeInv
  <2>2. members = Managed
    BY DEF TypeInv, AllMembers
  <2>3. ProbeInv' /\ ConfigInv'
    BY DEF TypeInv, ProbeInv, ConfigInv
  <2>4. MetInv'
    BY <2>2 DEF TypeInv, MetInv
  <2>. QED
    BY <2>1, <2>3, <2>4
<1>2. CASE ~AllMembers
  BY <1>2, StopKeeps DEF ListManagedClusters
<1>. QED
  BY <1>1, <1>2

LEMMA CutStep == ASSUME IInv, RequestFails \/ RequestCut PROVE IInv'
<1>1. CASE RequestFails
  BY <1>1, StopKeeps DEF RequestFails
<1>2. CASE RequestCut /\ ctx = "canceled"
  BY <1>2, StopKeeps DEF RequestCut
<1>3. CASE RequestCut /\ ctx # "canceled"
  BY <1>3, StopKeeps DEF RequestCut
<1>. QED
  BY <1>1, <1>2, <1>3

(* The timeout, Ctrl-C and the hub change nothing that the program keeps. *)
LEMMA OutsideStep == ASSUME IInv, Expire \/ Interrupt \/ ChangeClusterSet PROVE IInv'
<1>1. CASE Expire \/ Interrupt
  <2>1. TypeInv'
    BY <1>1 DEF IInv, TypeInv, Expire, Interrupt, Deadline, cluster, hub
  <2>2. ProbeInv' /\ ConfigInv' /\ MetInv'
    BY <1>1 DEF IInv, ProbeInv, ConfigInv, MetInv, Expire, Interrupt, cluster, hub
  <2>. QED
    BY <2>1, <2>2 DEF IInv
<1>2. CASE ChangeClusterSet
  <2>1. members' \subseteq Managed /\ created' \in BOOLEAN /\ existed' \in BOOLEAN /\ met' \in BOOLEAN
    BY <1>2 DEF IInv, TypeInv, ChangeClusterSet
  <2>2. MetInv'
    BY <1>2 DEF IInv, MetInv, ChangeClusterSet, Managed
  <2>3. TypeInv' /\ ProbeInv' /\ ConfigInv'
    BY <1>2, <2>1 DEF IInv, TypeInv, ProbeInv, ConfigInv, ChangeClusterSet, cluster, Managed
  <2>. QED
    BY <2>2, <2>3 DEF IInv
<1>. QED
  BY <1>1, <1>2

LEMMA NextIInv == IInv /\ [Next]_vars => IInv'
<1>. SUFFICES ASSUME IInv, [Next]_vars PROVE IInv'
  OBVIOUS
<1>1. CASE UNCHANGED vars
  BY <1>1 DEF IInv, TypeInv, ProbeInv, ConfigInv, MetInv, vars, cluster, hub, Managed
<1>2. CASE Next
  BY <1>2, ReadStep, ProbeStep, SkipStep, GetStep, ListStep, CutStep, OutsideStep DEF Next
<1>. QED
  BY <1>1, <1>2

(* What a run of the program keeps, whatever the hub and the clusters do. *)
THEOREM Validated == Spec => []IInv
<1>. QED
  BY InitIInv, NextIInv, PTL DEF Spec

(* The variables keep their types and the namespaces follow the            *)
(* distribution (SetDistro and validateDistro set both).                   *)
THEOREM TypesHold == Spec => []TypeOK
<1>1. IInv => TypeOK
  BY DEF IInv, TypeInv, ProbeInv, MetInv, TypeOK
<1>. QED
  BY <1>1, Validated, PTL

(* The configuration is the user's or one that all clusters agree on,      *)
(* never that of the clusters probed before a failure.                     *)
THEOREM AllOrNothingHolds == Spec => []AllOrNothing
<1>1. IInv => AllOrNothing
  BY DEF IInv, ConfigInv, AllOrNothing
<1>. QED
  BY <1>1, Validated, PTL

(* A configuration that passes had its managed clusters in the cluster set *)
(* at one moment, at which or before which the set existed, whoever        *)
(* creates, deletes or changes it meanwhile (validateClusterset).          *)
THEOREM PassedMeansMembersHolds == Spec => []PassedMeansMembers
<1>1. IInv => PassedMeansMembers
  BY DEF IInv, MetInv, PassedMeansMembers
<1>. QED
  BY <1>1, Validated, PTL
=============================================================================
