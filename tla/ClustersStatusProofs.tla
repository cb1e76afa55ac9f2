------------------------ MODULE ClustersStatusProofs ------------------------
(***************************************************************************)
(* For whatever was gathered of the clusters: a validation that passes has *)
(* read every object and found clusters that agree, no sound cluster is    *)
(* blamed, the summary counts what is shown, and the HTML page opens on    *)
(* every issue.                                                            *)
(*                                                                         *)
(* The argument: the parts run in one order, so that what the report shows *)
(* in front of each of them is a function of the gathered data (StageInv), *)
(* one of disjoint parts (CountInv).  What is left are facts about that    *)
(* function, one per kind of object.                                       *)
(***************************************************************************)
EXTENDS ClustersHTML, FiniteSetTheorems, FunctionTheorems, SequenceTheorems,
        WellFoundedInduction, TLAPS

(* The states of a section, "" for one without any. *)
Marks == {"", "ok", "warning", "problem"}

(***************************************************************************)
(* The state of a section.                                                 *)
(***************************************************************************)
(* The most significant state, without an order. *)
Worst(s) ==
  IF "problem" \in s THEN "problem"
  ELSE IF "warning" \in s THEN "warning"
  ELSE IF "ok" \in s THEN "ok" ELSE ""

(* One turn of the fold. *)
Any(s) == CHOOSE x \in s : TRUE
Turn(iter, s) == IF s = {} THEN "" ELSE SignificantState(Any(s), iter[s \ {Any(s)}])

LEMMA TurnIsWorst ==
  ASSUME NEW s \in SUBSET Marks, s # {}
  PROVE  SignificantState(Any(s), Worst(s \ {Any(s)})) = Worst(s)
<1>1. Any(s) \in s
  BY DEF Any
<1>. SUFFICES ASSUME NEW x \in s PROVE SignificantState(x, Worst(s \ {x})) = Worst(s)
  BY <1>1
<1>2. x \in {"", "ok", "warning", "problem"}
  BY DEF Marks
<1>. DEFINE r == s \ {x}
<1>3. /\ \A y \in {"problem", "warning", "ok"} : y \in s <=> y \in r \/ y = x
      /\ r \subseteq s
  OBVIOUS
<1>. HIDE DEF r
<1>4. SignificantState(x, Worst(r)) = Worst(s)
  BY <1>2, <1>3 DEF SignificantState, Worst
<1>. QED
  BY <1>4 DEF r

LEMMA MarksFinite == IsFiniteSet(Marks)
<1>1. IsFiniteSet({} \cup {""})
  BY FS_EmptySet, FS_AddElement
<1>2. IsFiniteSet(({} \cup {""}) \cup {"ok"})
  BY <1>1, FS_AddElement
<1>3. IsFiniteSet((({} \cup {""}) \cup {"ok"}) \cup {"warning"})
  BY <1>2, FS_AddElement
<1>4. IsFiniteSet(((({} \cup {""}) \cup {"ok"}) \cup {"warning"}) \cup {"problem"})
  BY <1>3, FS_AddElement
<1>5. Marks = ((({} \cup {""}) \cup {"ok"}) \cup {"warning"}) \cup {"problem"}
  BY DEF Marks
<1>. QED
  BY <1>4, <1>5

LEMMA AggregateIsWorst ==
  ASSUME NEW S \in SUBSET Marks
  PROVE Aggregate(S) = Worst(S)
<1>. DEFINE good(f) == f = [s \in SUBSET S |-> Turn(f, s)]
            iter == CHOOSE f : good(f)
            g == [s \in SUBSET S |-> Worst(s)]
            D == {s \in SUBSET S : iter[s] # Worst(s)}
<1>1. Aggregate(S) = iter[S]
  BY DEF Aggregate, FoldSet, MapThenFoldSet, Turn, Any
<1>2. good(g)
  <2>1. ASSUME NEW s \in SUBSET S PROVE Worst(s) = Turn(g, s)
    <3>1. s # {} => g[s \ {Any(s)}] = Worst(s \ {Any(s)})
      OBVIOUS
    <3>2. s # {} => SignificantState(Any(s), Worst(s \ {Any(s)})) = Worst(s)
      BY TurnIsWorst
    <3>3. s = {} => Worst(s) = ""
      BY DEF Worst
    <3>. HIDE DEF g
    <3>. QED
      BY <3>1, <3>2, <3>3 DEF Turn
  <2>. QED
    BY <2>1
<1>. HIDE DEF g
<1>3. good(iter)
  BY <1>2
<1>. HIDE DEF iter
<1>4. SUFFICES ASSUME D # {} PROVE FALSE
  BY <1>1
<1>5. IsFiniteSet(S)
  BY FS_Subset, MarksFinite
<1>6. IsWellFoundedOn(StrictSubsetOrdering(S), SUBSET S)
  BY <1>5, FS_StrictSubsetOrderingWellFounded, FS_FiniteSubsetsOfFinite
<1>7. PICK d \in D : \A y \in D : ~ (<<y, d>> \in StrictSubsetOrdering(S))
  BY <1>4, <1>6, WFMin
<1>8. iter[d] = Turn(iter, d)
  BY <1>3
<1>9. d # {}
  BY <1>8 DEF Turn, Worst
<1>10. Any(d) \in d
  BY <1>9 DEF Any
<1>11. iter[d \ {Any(d)}] = Worst(d \ {Any(d)})
  <2>. DEFINE y == d \ {Any(d)}
  <2>1. y \in SUBSET S /\ d \in SUBSET S /\ y \subseteq d /\ y # d
    BY <1>10
  <2>. HIDE DEF y
  <2>2. <<y, d>> \in StrictSubsetOrdering(S)
    BY <2>1 DEF StrictSubsetOrdering
  <2>3. y \notin D
    BY <1>7, <2>2
  <2>4. iter[y] = Worst(y)
    BY <2>1, <2>3
  <2>. QED
    BY <2>4 DEF y
<1>12. iter[d] = Worst(d)
  BY <1>8, <1>9, <1>11, TurnIsWorst DEF Turn
<1>. QED
  BY <1>12

(* A section has an issue exactly when a part of it has. *)
LEMMA AggregateIssue ==
  ASSUME NEW S \in SUBSET Marks
  PROVE  /\ Aggregate(S) \in Marks
         /\ IsIssue(Aggregate(S)) <=> \E x \in S : IsIssue(x)
         /\ Aggregate(S) = "" <=> \A x \in S : x = ""
BY AggregateIsWorst DEF Worst, IsIssue, Marks

LEMMA SignificantIssue ==
  ASSUME NEW a \in Marks, NEW b \in Marks
  PROVE  /\ SignificantState(a, b) \in Marks
         /\ IsIssue(SignificantState(a, b)) <=> IsIssue(a) \/ IsIssue(b)
BY DEF SignificantState, IsIssue, Marks

(***************************************************************************)
(* What the report shows in front of each part.                            *)
(***************************************************************************)
Clusters == {Hub} \cup {Managed[j] : j \in DOMAIN Managed}

ListValidation(section, items, minimum) ==
  IF ReadBefore(items) # DOMAIN items THEN {}
  ELSE {Validation(Hub, section, 0, "list", StateOf(Len(items) >= minimum))}

OfPolicies == DRPolicies \cup ListValidation("drpolicies", data.drPolicies, 1)

OfDRClusters == DRClusters \cup ListValidation("drclusters", data.drClusters, 2)

(* The hub, and the first k managed clusters. *)
Upto(k) ==
  ((OfPolicies \cup OfDRClusters) \cup RamenValidations(Hub))
    \cup UNION {RamenValidations(Managed[j]) : j \in 1..k}

HubReport == [i \in DOMAIN StoreProfiles(Hub) |-> HubProfile(StoreProfiles(Hub)[i])]

(* The hub and the first k managed clusters could be read. *)
Done(k) ==
  /\ ~RamenFails(Hub) /\ hubProfiles = HubReport
  /\ \A j \in 1..k : ~RamenFails(Managed[j])

StageInv ==
  /\ data \in Inputs
  /\ pc \in {"drpolicies", "drclusters", "hub", "managed", "done"}
  /\ n \in 0..Len(Managed)
  /\ result \in {"none", "passed", "issues", "error"}
  /\ pc = "done" <=> result # "none"
  /\ pc \in {"drpolicies", "drclusters", "hub"} => n = 0
  /\ pc = "drpolicies" => shown = {}
  /\ pc = "drclusters" => shown = OfPolicies
  /\ pc = "hub" => shown = OfPolicies \cup OfDRClusters
  /\ pc = "managed" => Done(n) /\ shown = Upto(n)
  /\ result \in {"passed", "issues"} =>
       /\ n = Len(Managed) /\ Done(n)
       /\ shown = Upto(n) \cup S3Profiles
       /\ result = "issues" <=> counted["warning"] + counted["problem"] > 0
  /\ result = "error" =>
       \/ n = 0 /\ shown \in {OfPolicies, OfPolicies \cup OfDRClusters}
       \/ n = 0 /\ RamenFails(Hub) /\ shown = Upto(0)
       \/ n > 0 /\ Done(n - 1) /\ RamenFails(Managed[n]) /\ shown = Upto(n - 1)

(* The validations depend on the data, and those of a managed cluster on   *)
(* what the report shows for the hub.                                      *)
LEMMA Unchanged ==
  ASSUME data' = data
  PROVE  /\ OfPolicies' = OfPolicies /\ OfDRClusters' = OfDRClusters
         /\ S3Profiles' = S3Profiles /\ HubReport' = HubReport
         /\ \A c : RamenFails(c)' = RamenFails(c)
         /\ \A c : c = Hub \/ hubProfiles' = hubProfiles =>
                     RamenValidations(c)' = RamenValidations(c)
<1>1. OfPolicies' = OfPolicies
  BY DEF OfPolicies, DRPolicies, ListValidation, ReadBefore, Conditions
<1>2. OfDRClusters' = OfDRClusters
  BY DEF OfDRClusters, DRClusters, ListValidation, ReadBefore, Conditions
<1>3. \A c : /\ Deployment(c)' = Deployment(c) /\ ConfigMap(c)' = ConfigMap(c)
             /\ Parsed(c)' = Parsed(c) /\ StoreProfiles(c)' = StoreProfiles(c)
  BY DEF Deployment, ConfigMap, Parsed, StoreProfiles
<1>4. \A c, profile : Secret(c, profile)' = Secret(c, profile)
  BY DEF Secret
<1>5. \A c : /\ Complete(c)' = Complete(c) /\ Replicas(c)' = Replicas(c)
             /\ ControllerType(c)' = ControllerType(c)
  BY <1>3, <1>4 DEF Complete, Replicas, ControllerType
<1>6. \A c, profile, key : KeyFingerprint(c, profile, key)' = KeyFingerprint(c, profile, key)
  BY <1>4 DEF KeyFingerprint
<1>7. HubReport' = HubReport
  <2>1. \A profile : HubProfile(profile)' = HubProfile(profile)
    BY <1>6 DEF HubProfile
  <2>. QED
    BY <1>3, <2>1 DEF HubReport
<1>8. S3Profiles' = S3Profiles
  BY <1>3 DEF S3Profiles
<1>9. \A c : RamenFails(c)' = RamenFails(c)
  BY <1>3, <1>5 DEF RamenFails
<1>10. ASSUME NEW c, c = Hub \/ hubProfiles' = hubProfiles
       PROVE  RamenValidations(c)' = RamenValidations(c)
  <2>1. c = Hub \/ /\ \A name : Lookup(name)' = Lookup(name)
                    /\ hubProfiles' = hubProfiles
    BY <1>10 DEF Lookup
  <2>2. ASSUME NEW i, NEW profile PROVE SecretRef(c, i, profile)' = SecretRef(c, i, profile)
    <3>1. CASE c = Hub
      BY <3>1 DEF SecretRef, SecretName, SecretNamespace
    <3>2. CASE \A name : Lookup(name)' = Lookup(name)
      <4>1. Lookup(profile.name)' = Lookup(profile.name)
        BY <3>2
      <4>. QED
        BY <4>1 DEF SecretRef, SecretName, SecretNamespace
    <3>. QED
      BY <2>1, <3>1, <3>2
  <2>3. ASSUME NEW profile, NEW key
        PROVE  /\ KeyOK(c, profile, key)' = KeyOK(c, profile, key)
               /\ StringOK(c, profile, key)' = StringOK(c, profile, key)
               /\ CertificateOK(c, profile)' = CertificateOK(c, profile)
    <3>1. KeyFingerprint(c, profile, key)' = KeyFingerprint(c, profile, key)
      BY <1>6
    <3>2. CASE c = Hub
      BY <3>1, <3>2 DEF KeyOK, StringOK, CertificateOK
    <3>3. CASE \A name : Lookup(name)' = Lookup(name)
      <4>1. Lookup(profile.name)' = Lookup(profile.name)
        BY <3>3
      <4>. QED
        BY <3>1, <4>1 DEF KeyOK, StringOK, CertificateOK
    <3>. QED
      BY <2>1, <3>2, <3>3
  <2>4. \A i, profile : ProfileValidations(c, i, profile)' = ProfileValidations(c, i, profile)
    BY <1>4, <2>2, <2>3 DEF ProfileValidations
  <2>5. ListOK(c)' = ListOK(c)
    BY <1>3, <2>1 DEF ListOK
  <2>6. ConfigMapValidations(c)' = ConfigMapValidations(c)
    BY <1>3, <1>5, <2>4, <2>5 DEF ConfigMapValidations
  <2>7. DeploymentValidations(c)' = DeploymentValidations(c)
    BY <1>3, <1>5 DEF DeploymentValidations
  <2>8. ControllerValidation(c)' = ControllerValidation(c)
    BY <1>5 DEF ControllerValidation
  <2>. QED
    BY <1>3, <1>9, <2>6, <2>7, <2>8 DEF RamenValidations
<1>. QED
  BY <1>1, <1>2, <1>7, <1>8, <1>9, <1>10
LEMMA InitStageInv == Init => StageInv
<1>1. Len(Managed) \in Nat
  BY ManagedAssumption, LenProperties
<1>. QED
  BY <1>1 DEF Init, StageInv

(* The hub's part does not depend on the profiles it puts in the report.   *)
LEMMA NextStageInv ==
  ASSUME StageInv, [Next]_vars
  PROVE  StageInv'
<1>. USE DEF ValidateList, Show
<1>1. data' = data
  BY DEF Next, vars, ValidateDRPolicies, ValidateDRClusters, ValidateHub,
     ValidateManagedCluster, ValidateS3Status
<1>2. /\ OfPolicies' = OfPolicies /\ OfDRClusters' = OfDRClusters
      /\ S3Profiles' = S3Profiles /\ HubReport' = HubReport
      /\ \A c : RamenFails(c)' = RamenFails(c)
      /\ RamenValidations(Hub)' = RamenValidations(Hub)
      /\ hubProfiles' = hubProfiles => \A c : RamenValidations(c)' = RamenValidations(c)
  BY <1>1, Unchanged
<1>3. /\ Upto(0) = (OfPolicies \cup OfDRClusters) \cup RamenValidations(Hub)
      /\ Upto(0)' = Upto(0)
  BY <1>2 DEF Upto
<1>4. Len(Managed) \in Nat /\ n \in Nat /\ n <= Len(Managed)
  BY ManagedAssumption, LenProperties DEF StageInv
<1>5. hubProfiles' = hubProfiles =>
        \A k : Upto(k)' = Upto(k) /\ Done(k)' = Done(k)
  BY <1>2 DEF Upto, Done
<1>6. CASE ValidateDRPolicies
  <2>1. pc = "drpolicies" /\ n = 0 /\ shown = {} /\ result = "none" /\ n' = n /\ hubProfiles' = hubProfiles
    BY <1>6 DEF ValidateDRPolicies, StageInv
  <2>2. shown' = OfPolicies
    BY <1>6, <2>1 DEF ValidateDRPolicies, OfPolicies, ListValidation
  <2>3. \/ pc' = "drclusters" /\ result' = "none"
        \/ pc' = "done" /\ result' = "error"
    BY <1>6, <2>1 DEF ValidateDRPolicies
  <2>. QED
    BY <1>1, <1>2, <1>4, <2>1, <2>2, <2>3 DEF StageInv
<1>7. CASE ValidateDRClusters
  <2>1. /\ pc = "drclusters" /\ n = 0 /\ shown = OfPolicies /\ result = "none" /\ n' = n
        /\ hubProfiles' = hubProfiles
    BY <1>7 DEF ValidateDRClusters, StageInv
  <2>2. shown' = OfPolicies \cup OfDRClusters
    BY <1>7, <2>1 DEF ValidateDRClusters, OfDRClusters, ListValidation
  <2>3. \/ pc' = "hub" /\ result' = "none"
        \/ pc' = "done" /\ result' = "error"
    BY <1>7, <2>1 DEF ValidateDRClusters
  <2>. QED
    BY <1>1, <1>2, <1>4, <2>1, <2>2, <2>3 DEF StageInv
<1>8. CASE ValidateHub
  <2>1. /\ pc = "hub" /\ n = 0 /\ shown = OfPolicies \cup OfDRClusters /\ result = "none" /\ n' = n
        /\ shown' = shown \cup RamenValidations(Hub)
    BY <1>8 DEF ValidateHub, StageInv
  <2>2. shown' = Upto(0)
    BY <1>3, <2>1
  <2>3. CASE RamenFails(Hub)
    <3>1. pc' = "done" /\ result' = "error"
      BY <1>8, <2>3 DEF ValidateHub, ValidateRamen
    <3>. QED
      BY <1>1, <1>2, <1>3, <1>4, <2>1, <2>2, <2>3, <3>1 DEF StageInv
  <2>4. CASE ~RamenFails(Hub)
    <3>1. pc' = "managed" /\ result' = "none" /\ hubProfiles' = HubReport
      BY <1>8, <2>1, <2>4 DEF ValidateHub, ValidateRamen, HubReport
    <3>2. Done(0)'
      BY <1>2, <2>4, <3>1 DEF Done
    <3>. QED
      BY <1>1, <1>2, <1>3, <1>4, <2>1, <2>2, <3>1, <3>2 DEF StageInv
  <2>. QED
    BY <2>3, <2>4
<1>9. CASE ValidateManagedCluster
  <2>. DEFINE c == Managed[n + 1]
  <2>1. /\ pc = "managed" /\ n < Len(Managed) /\ n' = n + 1 /\ result = "none"
        /\ Done(n) /\ shown = Upto(n) /\ hubProfiles' = hubProfiles
        /\ shown' = shown \cup ManagedShown(c)
    BY <1>9 DEF ValidateManagedCluster, StageInv
  <2>2. n' \in 0..Len(Managed) /\ n' > 0 /\ n' - 1 = n /\ n' \in Nat
    BY <1>4, <2>1
  <2>. PICK m : m = n
    OBVIOUS
  <2>3. CASE RamenFails(c)
    <3>1. pc' = "done" /\ result' = "error" /\ shown' = Upto(n)
      BY <1>9, <2>1, <2>3 DEF ValidateManagedCluster, ValidateRamen, ManagedShown
    <3>2. Done(m)' /\ RamenFails(Managed[m + 1])' /\ shown' = Upto(m)'
      BY <1>2, <1>5, <2>1, <2>3, <3>1
    <3>3. Done(n - 1)' /\ RamenFails(Managed[n])' /\ shown' = Upto(n - 1)'
      BY <2>1, <2>2, <3>2
    <3>. QED
      BY <1>1, <2>2, <3>1, <3>3 DEF StageInv
  <2>4. CASE ~RamenFails(c)
    <3>1. pc' = "managed" /\ result' = "none" /\ shown' = Upto(n) \cup RamenValidations(c)
      BY <1>9, <2>1, <2>4 DEF ValidateManagedCluster, ValidateRamen, ManagedShown
    <3>2. \A j : j \in 1..(n + 1) <=> j \in 1..n \/ j = n + 1
      BY <1>4
    <3>3. Upto(n + 1) = Upto(n) \cup RamenValidations(c)
      BY <3>2 DEF Upto
    <3>4. Done(n + 1)
      BY <2>1, <2>4, <3>2 DEF Done
    <3>5. Done(m + 1)' /\ shown' = Upto(m + 1)'
      BY <1>5, <2>1, <3>1, <3>3, <3>4
    <3>6. Done(n)' /\ shown' = Upto(n)'
      BY <2>1, <3>5
    <3>. QED
      BY <1>1, <2>2, <3>1, <3>6 DEF StageInv
  <2>. QED
    BY <2>3, <2>4
<1>10. CASE ValidateS3Status
  <2>1. /\ pc = "managed" /\ n = Len(Managed) /\ Done(n) /\ shown = Upto(n)
        /\ n' = n /\ hubProfiles' = hubProfiles /\ pc' = "done"
        /\ shown' = shown \cup S3Profiles
        /\ result' = IF counted'["warning"] + counted'["problem"] > 0 THEN "issues" ELSE "passed"
    BY <1>10 DEF ValidateS3Status, StageInv
  <2>2. Done(n)' /\ Upto(n)' = Upto(n)
    BY <1>5, <2>1
  <2>. QED
    BY <1>1, <1>2, <1>4, <2>1, <2>2 DEF StageInv
<1>11. CASE UNCHANGED vars
  <2>1. /\ pc' = pc /\ n' = n /\ hubProfiles' = hubProfiles /\ counted' = counted
        /\ shown' = shown /\ result' = result
    BY <1>11 DEF vars
  <2>2. /\ Upto(0)' = Upto(0)
        /\ Upto(n)' = Upto(n) /\ Done(n)' = Done(n)
        /\ Upto(n - 1)' = Upto(n - 1) /\ Done(n - 1)' = Done(n - 1)
        /\ RamenFails(Managed[n])' = RamenFails(Managed[n])
    BY <1>2, <1>5, <2>1
  <2>. QED
    BY <1>1, <1>2, <2>1, <2>2 DEF StageInv
<1>. QED
  BY <1>6, <1>7, <1>8, <1>9, <1>10, <1>11 DEF Next
(* The report shows what the parts before validated, in their order        *)
(* (validateGatheredData, pkg/validate/clusters/command.go).               *)
THEOREM ClustersConsistent == Spec => []StageInv
<1>1. StageInv /\ [Next]_vars => StageInv'
  BY NextStageInv
<1>. QED
  BY InitStageInv, <1>1, PTL DEF Spec
(***************************************************************************)
(* What each object contributes: a field of the report determines the      *)
(* state it is shown in.                                                   *)
(***************************************************************************)
LEMMA InputsFacts ==
  ASSUME data \in Inputs
  PROVE  /\ IsList(data.drPolicies) /\ \A i \in DOMAIN data.drPolicies : HasConditions(data.drPolicies[i])
         /\ IsList(data.drClusters) /\ \A i \in DOMAIN data.drClusters : HasConditions(data.drClusters[i])
         /\ \A c \in Clusters :
              /\ HasConditions(Deployment(c))
              /\ IsList(StoreProfiles(c))
              /\ \A i \in DOMAIN StoreProfiles(c) : StoreProfiles(c)[i].strings \in [Strings -> STRING]
<1>1. ASSUME NEW c \in Clusters
      PROVE  /\ HasConditions(Deployment(c))
             /\ IsList(ConfigMap(c).profiles)
             /\ \A i \in DOMAIN ConfigMap(c).profiles :
                  ConfigMap(c).profiles[i].strings \in [Strings -> STRING]
  BY InputsAssumption DEF Clusters, Deployment, ConfigMap
<1>2. IsList(<<>>) /\ DOMAIN <<>> = {}
  BY DEF IsList
<1>3. ASSUME NEW c \in Clusters
      PROVE  /\ IsList(StoreProfiles(c))
             /\ \A i \in DOMAIN StoreProfiles(c) : StoreProfiles(c)[i].strings \in [Strings -> STRING]
  BY <1>1, <1>2 DEF StoreProfiles
<1>. QED
  BY <1>1, <1>3, InputsAssumption

LEMMA StatesOfParts ==
  /\ \A ok : StateOf(ok) \in {"ok", "problem"} /\ (StateOf(ok) = "ok" <=> ok)
  /\ \A object : NotDeleted(object) \in {"ok", "problem"}
  /\ \A condition, expected : Condition(condition, expected) \in States
BY DEF StateOf, NotDeleted, Condition, States

(* A field of an item of one of the hub's lists. *)
ListField(section, items, soundFalse, minimum, at, key) ==
  CASE key = "list" -> StateOf(Len(items) >= minimum)
    [] key = "peerClasses" -> StateOf(items[at].peerClasses > 0)
    [] OTHER -> Condition(items[at].conditions[key], IF key \in soundFalse THEN "False" ELSE "True")

HubField(section, at, key) ==
  IF section = "drpolicies" THEN ListField(section, data.drPolicies, {}, 1, at, key)
  ELSE ListField(section, data.drClusters, {"Fenced"}, 2, at, key)

ConditionTypes(items) == UNION {DOMAIN items[i].conditions : i \in DOMAIN items}

(* A list of items as both of the hub's lists are. *)
ItemsValidations(section, items, soundFalse, minimum) ==
  (UNION {{Validation(Hub, section, i, "peerClasses", StateOf(items[i].peerClasses > 0))}
            \cup Conditions(section, i, items[i], soundFalse) : i \in ReadBefore(items)})
    \cup ListValidation(section, items, minimum)

LEMMA ItemsShape ==
  ASSUME NEW section, NEW items, NEW soundFalse, NEW minimum,
         \A i \in DOMAIN items : HasConditions(items[i]),
         NEW v \in ItemsValidations(section, items, soundFalse, minimum)
  PROVE  /\ v.section = section
         /\ v = Validation(Hub, section, v.at, v.key,
                           ListField(section, items, soundFalse, minimum, v.at, v.key))
         /\ v.state \in States
         /\ v.at \in {0} \cup DOMAIN items
         /\ v.key \in {"list", "peerClasses"} \cup (ConditionTypes(items) \ Fields)
<1>1. CASE v = Validation(Hub, section, 0, "list", StateOf(Len(items) >= minimum))
  BY <1>1, StatesOfParts DEF Validation, ListField, States
<1>2. ASSUME NEW i \in DOMAIN items,
             v = Validation(Hub, section, i, "peerClasses", StateOf(items[i].peerClasses > 0))
      PROVE  /\ v = Validation(Hub, section, v.at, v.key,
                               ListField(section, items, soundFalse, minimum, v.at, v.key))
             /\ v.section = section /\ v.key = "peerClasses" /\ v.at \in DOMAIN items
             /\ v.state \in States
  BY <1>2, StatesOfParts DEF Validation, ListField, States
<1>3. ASSUME NEW i \in DOMAIN items, NEW type \in DOMAIN items[i].conditions,
             v = Validation(Hub, section, i, type,
                   Condition(items[i].conditions[type], IF type \in soundFalse THEN "False" ELSE "True"))
      PROVE  /\ v = Validation(Hub, section, v.at, v.key,
                               ListField(section, items, soundFalse, minimum, v.at, v.key))
             /\ v.section = section /\ v.key \in ConditionTypes(items) \ Fields
             /\ v.at \in DOMAIN items
             /\ v.state \in States
  <2>1. type \in ConditionTypes(items) \ Fields
    BY DEF HasConditions, ConditionTypes
  <2>. QED
    BY <1>3, <2>1, StatesOfParts DEF Validation, ListField, Fields
<1>4. v \notin ListValidation(section, items, minimum) =>
        \E i \in DOMAIN items :
          \/ v = Validation(Hub, section, i, "peerClasses", StateOf(items[i].peerClasses > 0))
          \/ v \in Conditions(section, i, items[i], soundFalse)
  BY DEF ItemsValidations, ReadBefore
<1>. QED
  BY <1>1, <1>2, <1>3, <1>4 DEF ListValidation, Conditions

LEMMA ListShape ==
  ASSUME data \in Inputs
  PROVE  /\ \A v \in OfPolicies :
              /\ v.section = "drpolicies"
              /\ v.at \in {0} \cup DOMAIN data.drPolicies
              /\ v.key \in {"list", "peerClasses"} \cup (ConditionTypes(data.drPolicies) \ Fields)
         /\ \A v \in OfDRClusters :
              /\ v.section = "drclusters"
              /\ v.at \in {0} \cup DOMAIN data.drClusters
              /\ v.key \in {"list", "peerClasses"} \cup (ConditionTypes(data.drClusters) \ Fields)
         /\ \A v \in OfPolicies \cup OfDRClusters :
              /\ v = Validation(Hub, v.section, v.at, v.key, HubField(v.section, v.at, v.key))
              /\ v.state \in States
<1>1. /\ \A i \in DOMAIN data.drPolicies : HasConditions(data.drPolicies[i])
      /\ \A i \in DOMAIN data.drClusters : HasConditions(data.drClusters[i])
  BY InputsFacts
<1>2. ASSUME NEW v \in OfPolicies
      PROVE  v \in ItemsValidations("drpolicies", data.drPolicies, {}, 1)
  BY DEF OfPolicies, DRPolicies, ItemsValidations
<1>3. ASSUME NEW v \in OfDRClusters
      PROVE  v \in ItemsValidations("drclusters", data.drClusters, {"Fenced"}, 2)
  BY DEF OfDRClusters, DRClusters, ItemsValidations
<1>4. ASSUME NEW v \in OfPolicies
      PROVE  /\ v.section = "drpolicies"
             /\ v.at \in {0} \cup DOMAIN data.drPolicies
             /\ v.key \in {"list", "peerClasses"} \cup (ConditionTypes(data.drPolicies) \ Fields)
             /\ v = Validation(Hub, v.section, v.at, v.key, HubField(v.section, v.at, v.key))
             /\ v.state \in States
  BY <1>1, <1>2, ItemsShape DEF HubField
<1>5. ASSUME NEW v \in OfDRClusters
      PROVE  /\ v.section = "drclusters"
             /\ v.at \in {0} \cup DOMAIN data.drClusters
             /\ v.key \in {"list", "peerClasses"} \cup (ConditionTypes(data.drClusters) \ Fields)
             /\ v = Validation(Hub, v.section, v.at, v.key, HubField(v.section, v.at, v.key))
             /\ v.state \in States
  BY <1>1, <1>3, ItemsShape DEF HubField
<1>. QED
  BY <1>4, <1>5
(***************************************************************************)
(* What is shown is finite, and counted part by part.                      *)
(***************************************************************************)
LEMMA ListFinite ==
  ASSUME NEW items, IsList(items)
  PROVE  IsFiniteSet(DOMAIN items)
BY FS_Interval DEF IsList

LEMMA TypesFinite ==
  ASSUME NEW items, IsList(items), \A i \in DOMAIN items : HasConditions(items[i])
  PROVE  IsFiniteSet(ConditionTypes(items))
<1>. DEFINE f == [i \in DOMAIN items |-> DOMAIN items[i].conditions]
            T == {DOMAIN items[i].conditions : i \in DOMAIN items}
<1>1. f \in Surjection(DOMAIN items, T)
  BY DEF Surjection
<1>2. IsFiniteSet(T)
  <2>. HIDE DEF f, T
  <2>. QED
    BY <1>1, ListFinite, FS_Surjection
<1>3. \A t \in T : IsFiniteSet(t)
  BY DEF HasConditions
<1>4. IsFiniteSet(UNION T)
  <2>. HIDE DEF T
  <2>. QED
    BY <1>2, <1>3, FS_UNION
<1>. QED
  BY <1>4 DEF ConditionTypes

(* Validations made of finitely many sections, items and keys. *)
Validations(c, sections, ats, keys) ==
  {Validation(c, x[1][1], x[1][2], x[2][1], x[2][2]) :
     x \in (sections \X ats) \X (keys \X States)}

LEMMA ValidationsFinite ==
  ASSUME NEW c, NEW sections, NEW ats, NEW keys,
         IsFiniteSet(sections), IsFiniteSet(ats), IsFiniteSet(keys)
  PROVE  IsFiniteSet(Validations(c, sections, ats, keys))
<1>. DEFINE P == (sections \X ats) \X (keys \X States)
            T == Validations(c, sections, ats, keys)
            f == [x \in P |-> Validation(c, x[1][1], x[1][2], x[2][1], x[2][2])]
<1>1. IsFiniteSet(States)
  <2>1. States \in SUBSET Marks
    BY DEF States, Marks
  <2>. QED
    BY <2>1, MarksFinite, FS_Subset
<1>2. IsFiniteSet(P)
  BY <1>1, FS_Product
<1>3. f \in Surjection(P, T)
  BY DEF Surjection, Validations
<1>. HIDE DEF P, T, f
<1>4. IsFiniteSet(T)
  BY <1>2, <1>3, FS_Surjection
<1>. QED
  BY <1>4 DEF T

LEMMA InValidations ==
  ASSUME NEW c, NEW sections, NEW ats, NEW keys, NEW v,
         v.section \in sections, v.at \in ats, v.key \in keys, v.state \in States,
         v = Validation(c, v.section, v.at, v.key, v.state)
  PROVE  v \in Validations(c, sections, ats, keys)
<1>. DEFINE x == <<<<v.section, v.at>>, <<v.key, v.state>>>>
<1>1. x \in (sections \X ats) \X (keys \X States)
  OBVIOUS
<1>2. v = Validation(c, x[1][1], x[1][2], x[2][1], x[2][2])
  OBVIOUS
<1>. HIDE DEF x
<1>. QED
  BY <1>1, <1>2 DEF Validations

InState(validations, s) == {v \in validations : v.state = s}

LEMMA CountAdded ==
  ASSUME NEW S, NEW T, IsFiniteSet(S), IsFiniteSet(T), S \cap T = {}
  PROVE  /\ IsFiniteSet(S \cup T)
         /\ \A s : /\ Cardinality(InState(S, s)) \in Nat /\ Cardinality(InState(T, s)) \in Nat
                   /\ Cardinality(InState(S \cup T, s)) =
                        Cardinality(InState(S, s)) + Cardinality(InState(T, s))
<1>1. IsFiniteSet(S \cup T)
  BY FS_Union
<1>2. ASSUME NEW s
      PROVE  /\ Cardinality(InState(S, s)) \in Nat /\ Cardinality(InState(T, s)) \in Nat
             /\ Cardinality(InState(S \cup T, s)) =
                  Cardinality(InState(S, s)) + Cardinality(InState(T, s))
  <2>. DEFINE A == InState(S, s)
              B == InState(T, s)
  <2>1. A \in SUBSET S /\ B \in SUBSET T /\ A \cap B = {} /\ InState(S \cup T, s) = A \cup B
    BY DEF InState
  <2>. HIDE DEF A, B
  <2>2. IsFiniteSet(A) /\ IsFiniteSet(B)
    BY <2>1, FS_Subset
  <2>3. Cardinality(A) \in Nat /\ Cardinality(B) \in Nat
    BY <2>2, FS_CardinalityType
  <2>4. Cardinality(A \cup B) = Cardinality(A) + Cardinality(B) - Cardinality({})
    BY <2>1, <2>2, FS_Union
  <2>5. Cardinality({}) = 0
    BY FS_EmptySet
  <2>6. Cardinality(A \cup B) = Cardinality(A) + Cardinality(B)
    BY <2>3, <2>4, <2>5
  <2>. QED
    BY <2>1, <2>3, <2>6 DEF A, B
<1>. QED
  BY <1>1, <1>2
(***************************************************************************)
(* What ramen on one cluster contributes.                                  *)
(***************************************************************************)
ProfileField(c, profile, section, key) ==
  CASE section = "secretName" -> SecretName(c, 0, profile).state
    [] section = "secretNamespace" -> StateOf(profile.secretNamespace \in {"", "own"})
    [] section = "secretDeleted" -> NotDeleted(Secret(c, profile))
    [] section = "secretKeys" -> StateOf(KeyOK(c, profile, key))
    [] section = "strings" -> StateOf(StringOK(c, profile, key))
    [] section = "caCertificate" -> StateOf(CertificateOK(c, profile))

DeploymentField(c, section, key) ==
  IF section = "conditions" THEN StateOf(Deployment(c).conditions[key] = ExpectedStatus(key))
  ELSE CASE key = "deleted" -> NotDeleted(Deployment(c))
         [] key = "replicas" -> StateOf(Replicas(c) = 1)
         [] OTHER -> StateOf(ControllerType(c) = ExpectedType(c))

ConfigMapField(c, key) ==
  CASE key = "deleted" -> NotDeleted(ConfigMap(c))
    [] key = "parsed" -> StateOf(Parsed(c))
    [] OTHER -> StateOf(ListOK(c))

RamenField(c, section, at, key) ==
  CASE section \in ProfileParts -> ProfileField(c, StoreProfiles(c)[at], section, key)
    [] section \in {"deployment", "conditions"} -> DeploymentField(c, section, key)
    [] OTHER -> ConfigMapField(c, key)

RamenSections == {"deployment", "conditions", "configMap"} \cup ProfileParts

LEMMA PartsAreSections ==
  /\ ProfileParts = {"secretName", "secretNamespace", "secretDeleted", "secretKeys", "strings",
                     "caCertificate"}
  /\ {"deployment", "conditions", "configMap"} \cap ProfileParts = {}
BY DEF ProfileParts, SecretParts

LEMMA ProfileShape ==
  ASSUME NEW c, NEW i, NEW profile, NEW v \in ProfileValidations(c, i, profile)
  PROVE  /\ v.section \in ProfileParts /\ v.at = i
         /\ v = Validation(c, v.section, i, v.key, ProfileField(c, profile, v.section, v.key))
         /\ v.state \in {"ok", "problem"}
         /\ v.key \in {"secret", "cert"} \cup Keys \cup Strings
         /\ v.section = "secretKeys" => v.key \in Keys
         /\ v.section = "strings" => v.key \in Strings
<1>. USE PartsAreSections, StatesOfParts
<1>1. CASE v = SecretName(c, i, profile)
  <2>1. SecretName(c, 0, profile).state = SecretName(c, i, profile).state
        /\ SecretName(c, 0, profile).state \in {"ok", "problem"}
    BY DEF SecretName, Validation
  <2>2. v = Validation(c, "secretName", i, "secret", SecretName(c, i, profile).state)
    BY <1>1 DEF SecretName, Validation
  <2>. QED
    BY <2>1, <2>2 DEF Validation, ProfileField
<1>2. CASE v = SecretNamespace(c, i, profile)
  BY <1>2 DEF SecretNamespace, Validation, ProfileField
<1>3. CASE v = Validation(c, "secretDeleted", i, "secret", NotDeleted(Secret(c, profile)))
  BY <1>3 DEF Validation, ProfileField
<1>4. ASSUME NEW key \in Keys, v = Validation(c, "secretKeys", i, key, StateOf(KeyOK(c, profile, key)))
      PROVE  /\ v.section = "secretKeys" /\ v.key \in Keys /\ v.at = i /\ v.state \in {"ok", "problem"}
             /\ v = Validation(c, v.section, i, v.key, ProfileField(c, profile, v.section, v.key))
  BY <1>4 DEF Validation, ProfileField
<1>5. ASSUME NEW s \in Strings, v = Validation(c, "strings", i, s, StateOf(StringOK(c, profile, s)))
      PROVE  /\ v.section = "strings" /\ v.key \in Strings /\ v.at = i /\ v.state \in {"ok", "problem"}
             /\ v = Validation(c, v.section, i, v.key, ProfileField(c, profile, v.section, v.key))
  BY <1>5 DEF Validation, ProfileField
<1>6. CASE v = Validation(c, "caCertificate", i, "cert", StateOf(CertificateOK(c, profile)))
  BY <1>6 DEF Validation, ProfileField
<1>7. \/ v = SecretName(c, i, profile)
      \/ v = SecretNamespace(c, i, profile)
      \/ v = Validation(c, "secretDeleted", i, "secret", NotDeleted(Secret(c, profile)))
      \/ \E key \in Keys : v = Validation(c, "secretKeys", i, key, StateOf(KeyOK(c, profile, key)))
      \/ \E s \in Strings : v = Validation(c, "strings", i, s, StateOf(StringOK(c, profile, s)))
      \/ v = Validation(c, "caCertificate", i, "cert", StateOf(CertificateOK(c, profile)))
  BY DEF ProfileValidations, SecretRef
<1>. QED
  BY <1>1, <1>2, <1>3, <1>4, <1>5, <1>6, <1>7
RamenKeys(c) ==
  (({"deleted", "replicas", "controllerType", "parsed", "s3StoreProfiles", "secret", "cert"}
      \cup Keys) \cup Strings) \cup DOMAIN Deployment(c).conditions

(* A field of a profile is one of a list of profiles that could be read.   *)
LEMMA RamenShape ==
  ASSUME NEW c, NEW v \in RamenValidations(c)
  PROVE  /\ v = Validation(c, v.section, v.at, v.key, RamenField(c, v.section, v.at, v.key))
         /\ v.state \in {"ok", "problem"}
         /\ v.section \in RamenSections /\ v.key \in RamenKeys(c)
         /\ IF v.section \in ProfileParts
            THEN v.at \in Complete(c) /\ v \in ProfileValidations(c, v.at, StoreProfiles(c)[v.at])
            ELSE v.at = 0
         /\ v.section = "deployment" => v.key \in {"deleted", "replicas", "controllerType"}
         /\ v.section = "conditions" => v.key \in DOMAIN Deployment(c).conditions
         /\ v.section = "configMap" => v.key \in {"deleted", "parsed", "s3StoreProfiles"}
<1>. USE PartsAreSections, StatesOfParts
<1>1. CASE v = Validation(c, "deployment", 0, "deleted", NotDeleted(Deployment(c)))
  BY <1>1 DEF Validation, RamenField, DeploymentField, RamenSections, RamenKeys
<1>2. CASE v = Validation(c, "deployment", 0, "replicas", StateOf(Replicas(c) = 1))
  BY <1>2 DEF Validation, RamenField, DeploymentField, RamenSections, RamenKeys
<1>3. CASE \E type \in DOMAIN Deployment(c).conditions :
             v = Validation(c, "conditions", 0, type,
                            StateOf(Deployment(c).conditions[type] = ExpectedStatus(type)))
  <2>1. PICK type \in DOMAIN Deployment(c).conditions :
             v = Validation(c, "conditions", 0, type,
                            StateOf(Deployment(c).conditions[type] = ExpectedStatus(type)))
    BY <1>3
  <2>2. /\ v.section = "conditions" /\ v.at = 0 /\ v.key = type
        /\ v.state = StateOf(Deployment(c).conditions[type] = ExpectedStatus(type))
    BY <2>1 DEF Validation
  <2>3. RamenField(c, "conditions", 0, type) =
          StateOf(Deployment(c).conditions[type] = ExpectedStatus(type))
    BY DEF RamenField, DeploymentField
  <2>. QED
    BY <2>1, <2>2, <2>3 DEF RamenSections, RamenKeys
<1>4. CASE v = ControllerValidation(c)
  BY <1>4 DEF Validation, RamenField, DeploymentField, RamenSections, RamenKeys, ControllerValidation
<1>5. CASE v = Validation(c, "configMap", 0, "deleted", NotDeleted(ConfigMap(c)))
  BY <1>5 DEF Validation, RamenField, ConfigMapField, RamenSections, RamenKeys
<1>6. CASE v = Validation(c, "configMap", 0, "parsed", StateOf(Parsed(c)))
  BY <1>6 DEF Validation, RamenField, ConfigMapField, RamenSections, RamenKeys
<1>7. CASE v = Validation(c, "configMap", 0, "s3StoreProfiles", StateOf(ListOK(c)))
  BY <1>7 DEF Validation, RamenField, ConfigMapField, RamenSections, RamenKeys
<1>8. ASSUME NEW i \in Complete(c), v \in ProfileValidations(c, i, StoreProfiles(c)[i])
      PROVE  /\ v.section \in ProfileParts /\ v.at = i
             /\ v = Validation(c, v.section, v.at, v.key, RamenField(c, v.section, v.at, v.key))
             /\ v.state \in {"ok", "problem"}
             /\ v.section \in RamenSections /\ v.key \in RamenKeys(c)
  <2>1. /\ v.section \in ProfileParts /\ v.at = i
        /\ v = Validation(c, v.section, i, v.key,
                          ProfileField(c, StoreProfiles(c)[i], v.section, v.key))
        /\ v.state \in {"ok", "problem"}
        /\ v.key \in {"secret", "cert"} \cup Keys \cup Strings
    BY <1>8, ProfileShape
  <2>. QED
    BY <2>1 DEF RamenField, RamenSections, RamenKeys
<1>9. v \in ConfigMapValidations(c) =>
        \/ v = Validation(c, "configMap", 0, "deleted", NotDeleted(ConfigMap(c)))
        \/ v = Validation(c, "configMap", 0, "parsed", StateOf(Parsed(c)))
        \/ \E i \in Complete(c) : v \in ProfileValidations(c, i, StoreProfiles(c)[i])
        \/ v = Validation(c, "configMap", 0, "s3StoreProfiles", StateOf(ListOK(c)))
  BY DEF ConfigMapValidations
<1>10. v \in DeploymentValidations(c) =>
        \/ v = Validation(c, "deployment", 0, "deleted", NotDeleted(Deployment(c)))
        \/ v = Validation(c, "deployment", 0, "replicas", StateOf(Replicas(c) = 1))
        \/ \E type \in DOMAIN Deployment(c).conditions :
             v = Validation(c, "conditions", 0, type,
                            StateOf(Deployment(c).conditions[type] = ExpectedStatus(type)))
  BY DEF DeploymentValidations
<1>11. \/ v \in DeploymentValidations(c) \/ v \in ConfigMapValidations(c) \/ v = ControllerValidation(c)
  BY DEF RamenValidations
<1>12. CASE \E i \in Complete(c) : v \in ProfileValidations(c, i, StoreProfiles(c)[i])
  BY <1>8, <1>12
<1>. QED
  BY <1>1, <1>2, <1>3, <1>4, <1>5, <1>6, <1>7, <1>9, <1>10, <1>11, <1>12

S3Field(key) ==
  IF key = "list" THEN StateOf(StoreProfiles(Hub) # <<>>) ELSE StateOf(data.accessible)

LEMMA S3Shape ==
  ASSUME NEW v \in S3Profiles
  PROVE  /\ v = Validation(Hub, "s3", v.at, v.key, S3Field(v.key))
         /\ v.state \in {"ok", "problem"}
         /\ v.at \in {0} \cup DOMAIN StoreProfiles(Hub) /\ v.key \in {"list", "accessible"}
<1>1. CASE v = Validation(Hub, "s3", 0, "list", StateOf(StoreProfiles(Hub) # <<>>))
  BY <1>1, StatesOfParts DEF Validation, S3Field
<1>2. CASE \E i \in DOMAIN StoreProfiles(Hub) :
             v = Validation(Hub, "s3", i, "accessible", StateOf(data.accessible))
  BY <1>2, StatesOfParts DEF Validation, S3Field
<1>. QED
  BY <1>1, <1>2 DEF S3Profiles

(***************************************************************************)
(* The parts are finite and disjoint.                                      *)
(***************************************************************************)
LEMMA AddThree ==
  ASSUME NEW S, IsFiniteSet(S), NEW a, NEW b, NEW d
  PROVE  IsFiniteSet(S \cup {a, b, d})
<1>1. IsFiniteSet(((S \cup {a}) \cup {b}) \cup {d})
  BY FS_AddElement
<1>2. S \cup {a, b, d} = ((S \cup {a}) \cup {b}) \cup {d}
  OBVIOUS
<1>. QED
  BY <1>1, <1>2

LEMMA RamenFinite ==
  ASSUME data \in Inputs, NEW c \in Clusters
  PROVE  /\ IsFiniteSet(RamenValidations(c)) /\ IsFiniteSet(Dropped(c))
         /\ ~RamenFails(c) => Dropped(c) = {}
<1>1. HasConditions(Deployment(c)) /\ IsList(StoreProfiles(c))
  BY InputsFacts
<1>2. IsFiniteSet(RamenSections)
  <2>. DEFINE A == {} \cup {"deployment", "conditions", "configMap"}
              B == A \cup {"secretName", "secretNamespace", "secretDeleted"}
              C == B \cup {"secretKeys", "strings", "caCertificate"}
  <2>1. RamenSections = C
    BY PartsAreSections DEF RamenSections
  <2>2. IsFiniteSet(A)
    BY AddThree, FS_EmptySet
  <2>. HIDE DEF A
  <2>3. IsFiniteSet(B)
    BY <2>2, AddThree
  <2>. HIDE DEF B
  <2>4. IsFiniteSet(C)
    BY <2>3, AddThree
  <2>. HIDE DEF C
  <2>. QED
    BY <2>1, <2>4
<1>3. IsFiniteSet(RamenKeys(c))
  <2>. DEFINE A == DOMAIN Deployment(c).conditions \cup {"deleted", "replicas", "controllerType"}
              B == A \cup {"parsed", "s3StoreProfiles", "secret"}
              C == B \cup {"cert", "AWS_ACCESS_KEY_ID", "AWS_SECRET_ACCESS_KEY"}
              D == C \cup {"s3Bucket", "s3CompatibleEndpoint", "s3Region"}
  <2>1. RamenKeys(c) = D
    BY DEF RamenKeys, Keys, Strings
  <2>2. IsFiniteSet(A)
    BY <1>1, AddThree DEF HasConditions
  <2>. HIDE DEF A
  <2>3. IsFiniteSet(B)
    BY <2>2, AddThree
  <2>. HIDE DEF B
  <2>4. IsFiniteSet(C)
    BY <2>3, AddThree
  <2>. HIDE DEF C
  <2>5. IsFiniteSet(D)
    BY <2>4, AddThree
  <2>. HIDE DEF D
  <2>. QED
    BY <2>1, <2>5
<1>. DEFINE ats == DOMAIN StoreProfiles(c) \cup {0}
            all == Validations(c, RamenSections, ats, RamenKeys(c))
<1>4. IsFiniteSet(ats)
  BY <1>1, ListFinite, FS_AddElement
<1>5. IsFiniteSet(all)
  <2>. HIDE DEF ats
  <2>. QED
    BY <1>2, <1>3, <1>4, ValidationsFinite
<1>6. Complete(c) \subseteq DOMAIN StoreProfiles(c)
  BY DEF Complete
<1>7. ASSUME NEW v \in RamenValidations(c) PROVE v \in all
  <2>1. /\ v = Validation(c, v.section, v.at, v.key, RamenField(c, v.section, v.at, v.key))
        /\ v.state \in {"ok", "problem"}
        /\ v.section \in RamenSections /\ v.key \in RamenKeys(c)
        /\ v.at \in ats
    BY <1>6, RamenShape
  <2>2. v = Validation(c, v.section, v.at, v.key, v.state) /\ v.state \in States
    BY <2>1 DEF Validation, States
  <2>. HIDE DEF ats
  <2>. QED
    BY <2>1, <2>2, InValidations
<1>8. ASSUME NEW v \in Dropped(c) PROVE v \in all
  <2>1. PICK i \in DOMAIN StoreProfiles(c) : v \in SecretRef(c, i, StoreProfiles(c)[i])
    BY DEF Dropped
  <2>. DEFINE profile == StoreProfiles(c)[i]
  <2>2. v \in ProfileValidations(c, i, profile)
    BY <2>1 DEF ProfileValidations
  <2>3. /\ v.section \in ProfileParts /\ v.at = i
        /\ v = Validation(c, v.section, i, v.key, ProfileField(c, profile, v.section, v.key))
        /\ v.state \in {"ok", "problem"}
        /\ v.key \in {"secret", "cert"} \cup Keys \cup Strings
    BY <2>2, ProfileShape
  <2>4. v = Validation(c, v.section, v.at, v.key, v.state)
    BY <2>3 DEF Validation
  <2>5. v.section \in RamenSections /\ v.key \in RamenKeys(c) /\ v.at \in ats /\ v.state \in States
    BY <2>3 DEF RamenSections, RamenKeys, States
  <2>. HIDE DEF ats
  <2>. QED
    BY <2>4, <2>5, InValidations
<1>9. IsFiniteSet(RamenValidations(c)) /\ IsFiniteSet(Dropped(c))
  <2>. HIDE DEF all
  <2>. QED
    BY <1>5, <1>7, <1>8, FS_Subset
<1>10. ASSUME ~RamenFails(c) PROVE Dropped(c) = {}
  <2>1. Complete(c) = 1..Len(StoreProfiles(c)) /\ Len(StoreProfiles(c)) \in Nat
    BY <1>1, <1>10 DEF RamenFails, IsList
  <2>2. Cardinality(Complete(c)) = Len(StoreProfiles(c))
    BY <2>1, FS_Interval
  <2>3. Cardinality(Complete(c)) + 1 \notin DOMAIN StoreProfiles(c)
    BY <1>1, <2>1, <2>2 DEF IsList
  <2>. QED
    BY <2>3 DEF Dropped
<1>. QED
  BY <1>9, <1>10
LEMMA HubFinite ==
  ASSUME data \in Inputs
  PROVE  IsFiniteSet(OfPolicies) /\ IsFiniteSet(OfDRClusters) /\ IsFiniteSet(S3Profiles)
<1>1. /\ IsList(data.drPolicies) /\ \A i \in DOMAIN data.drPolicies : HasConditions(data.drPolicies[i])
      /\ IsList(data.drClusters) /\ \A i \in DOMAIN data.drClusters : HasConditions(data.drClusters[i])
      /\ IsList(StoreProfiles(Hub))
  BY InputsFacts DEF Clusters
<1>2. ASSUME NEW items, IsList(items), \A i \in DOMAIN items : HasConditions(items[i]),
             NEW section, NEW V,
             \A v \in V :
               /\ v = Validation(Hub, v.section, v.at, v.key, v.state)
               /\ v.section = section /\ v.state \in States
               /\ v.at \in {0} \cup DOMAIN items
               /\ v.key \in {"list", "peerClasses"} \cup (ConditionTypes(items) \ Fields)
      PROVE  IsFiniteSet(V)
  <2>. DEFINE ats == DOMAIN items \cup {0}
              keys == ConditionTypes(items) \cup {"list", "peerClasses", "peerClasses"}
              all == Validations(Hub, {section}, ats, keys)
  <2>1. IsFiniteSet({section}) /\ IsFiniteSet(ats) /\ IsFiniteSet(keys)
    BY <1>2, ListFinite, TypesFinite, FS_AddElement, FS_Singleton, AddThree
  <2>2. ASSUME NEW v \in V PROVE v \in all
    <3>1. v.section \in {section} /\ v.at \in ats /\ v.key \in keys /\ v.state \in States
          /\ v = Validation(Hub, v.section, v.at, v.key, v.state)
      BY <1>2
    <3>. HIDE DEF ats, keys
    <3>. QED
      BY <3>1, InValidations
  <2>3. IsFiniteSet(all)
    <3>. HIDE DEF ats, keys
    <3>. QED
      BY <2>1, ValidationsFinite
  <2>. HIDE DEF all
  <2>. QED
    BY <2>2, <2>3, FS_Subset
<1>3. \A v \in OfPolicies \cup OfDRClusters : v = Validation(Hub, v.section, v.at, v.key, v.state)
  BY ListShape DEF Validation
<1>4. IsFiniteSet(OfPolicies)
  BY <1>1, <1>2, <1>3, ListShape
<1>5. IsFiniteSet(OfDRClusters)
  BY <1>1, <1>2, <1>3, ListShape
<1>6. IsFiniteSet(S3Profiles)
  <2>. DEFINE ats == DOMAIN StoreProfiles(Hub) \cup {0}
              keys == {} \cup {"list", "accessible", "accessible"}
              all == Validations(Hub, {"s3"}, ats, keys)
  <2>1. IsFiniteSet({"s3"}) /\ IsFiniteSet(ats) /\ IsFiniteSet(keys)
    BY <1>1, ListFinite, FS_AddElement, FS_Singleton, AddThree, FS_EmptySet
  <2>2. ASSUME NEW v \in S3Profiles PROVE v \in all
    <3>1. v.section \in {"s3"} /\ v.at \in ats /\ v.key \in keys /\ v.state \in States
          /\ v = Validation(Hub, v.section, v.at, v.key, v.state)
      BY S3Shape DEF Validation, States
    <3>. HIDE DEF ats, keys
    <3>. QED
      BY <3>1, InValidations
  <2>3. IsFiniteSet(all)
    <3>. HIDE DEF ats, keys
    <3>. QED
      BY <2>1, ValidationsFinite
  <2>. HIDE DEF all
  <2>. QED
    BY <2>2, <2>3, FS_Subset
<1>. QED
  BY <1>4, <1>5, <1>6

LEMMA PartOf ==
  ASSUME data \in Inputs, NEW k, NEW v \in Upto(k)
  PROVE  /\ v.section # "s3"
         /\ \/ v.section \in {"drpolicies", "drclusters"} /\ v.cluster = Hub
               /\ v \in OfPolicies \cup OfDRClusters
            \/ v.section \in RamenSections /\ v.cluster = Hub /\ v \in RamenValidations(Hub)
            \/ \E j \in 1..k : /\ v.section \in RamenSections /\ v.cluster = Managed[j]
                               /\ v \in RamenValidations(Managed[j])
<1>1. \A c : \A w \in RamenValidations(c) : w.section \in RamenSections /\ w.cluster = c
  BY RamenShape DEF Validation
<1>2. \A w \in OfPolicies \cup OfDRClusters :
        w.section \in {"drpolicies", "drclusters"} /\ w.cluster = Hub
  BY ListShape DEF Validation
<1>3. {"drpolicies", "drclusters", "s3"} \cap RamenSections = {}
  BY PartsAreSections DEF RamenSections
<1>4. \/ v \in OfPolicies \cup OfDRClusters
      \/ v \in RamenValidations(Hub)
      \/ \E j \in 1..k : v \in RamenValidations(Managed[j])
  BY DEF Upto
<1>5. v.section \in {"drpolicies", "drclusters"} => v.section # "s3"
  OBVIOUS
<1>. QED
  BY <1>1, <1>2, <1>3, <1>4, <1>5

(***************************************************************************)
(* The summary: whatever was counted is a number, and a validation that    *)
(* did not fail counted what the report shows.                             *)
(***************************************************************************)
CountInv ==
  /\ counted \in [States -> Nat]
  /\ result # "error" =>
       /\ IsFiniteSet(shown)
       /\ \A s \in States : counted[s] = Cardinality(InState(shown, s))

LEMMA CountStep ==
  ASSUME CountInv, NEW V, IsFiniteSet(V), Count(V)
  PROVE  /\ counted' \in [States -> Nat]
         /\ result # "error" /\ V \cap shown = {} /\ Show(V) =>
              /\ IsFiniteSet(shown')
              /\ \A s \in States : counted'[s] = Cardinality(InState(shown', s))
<1>1. \A s : IsFiniteSet(InState(V, s))
  BY FS_Subset DEF InState
<1>2. \A s : Cardinality(InState(V, s)) \in Nat
  BY <1>1, FS_CardinalityType
<1>3. counted' = [s \in States |-> counted[s] + Cardinality(InState(V, s))]
  BY DEF Count, InState
<1>4. counted' \in [States -> Nat]
  BY <1>2, <1>3 DEF CountInv
<1>5. ASSUME result # "error", V \cap shown = {}, Show(V)
      PROVE  /\ IsFiniteSet(shown')
             /\ \A s \in States : counted'[s] = Cardinality(InState(shown', s))
  <2>1. shown' = shown \cup V
    BY <1>5 DEF Show
  <2>2. IsFiniteSet(shown) /\ shown \cap V = {}
    BY <1>5 DEF CountInv
  <2>3. /\ IsFiniteSet(shown \cup V)
        /\ \A s : Cardinality(InState(shown \cup V, s)) =
                    Cardinality(InState(shown, s)) + Cardinality(InState(V, s))
    BY ONLY <2>2, IsFiniteSet(V), CountAdded
  <2>4. \A s \in States : counted'[s] = Cardinality(InState(shown, s)) + Cardinality(InState(V, s))
    BY <1>3, <1>5 DEF CountInv
  <2>. QED
    BY <2>1, <2>3, <2>4
<1>. QED
  BY <1>4, <1>5

LEMMA InitCountInv == Init => CountInv
<1>. SUFFICES ASSUME Init PROVE CountInv
  OBVIOUS
<1>1. IsFiniteSet({}) /\ Cardinality({}) = 0
  BY FS_EmptySet
<1>2. \A s : InState({}, s) = {}
  BY DEF InState
<1>3. shown = {} /\ counted = [s \in States |-> 0]
  BY DEF Init
<1>. QED
  BY <1>1, <1>2, <1>3 DEF CountInv

LEMMA NextCountInv ==
  ASSUME StageInv, CountInv, [Next]_vars
  PROVE  CountInv'
<1>. USE DEF ValidateList
<1>1. data \in Inputs
  BY DEF StageInv
<1>2. Len(Managed) \in Nat /\ DOMAIN Managed = 1..Len(Managed)
  BY ManagedAssumption, LenProperties
<1>3. Hub \in Clusters /\ \A j \in DOMAIN Managed : Managed[j] \in Clusters
  BY DEF Clusters
<1>4. CASE ValidateDRPolicies
  <2>1. pc = "drpolicies" /\ shown = {} /\ result = "none" /\ Count(OfPolicies) /\ Show(OfPolicies)
    BY <1>4 DEF ValidateDRPolicies, OfPolicies, ListValidation, StageInv
  <2>. QED
    BY <1>1, <2>1, HubFinite, CountStep DEF CountInv
<1>5. CASE ValidateDRClusters
  <2>1. /\ pc = "drclusters" /\ shown = OfPolicies /\ result = "none"
        /\ Count(OfDRClusters) /\ Show(OfDRClusters)
    BY <1>5 DEF ValidateDRClusters, OfDRClusters, ListValidation, StageInv
  <2>2. OfDRClusters \cap OfPolicies = {}
    BY <1>1, ListShape
  <2>. QED
    BY <1>1, <2>1, <2>2, HubFinite, CountStep DEF CountInv
<1>6. CASE ValidateHub
  <2>. DEFINE dropped == IF Unreadable(Deployment(Hub)) \/ Unreadable(ConfigMap(Hub)) THEN {}
                         ELSE Dropped(Hub)
  <2>1. /\ pc = "hub" /\ shown = OfPolicies \cup OfDRClusters /\ result = "none"
        /\ Count(RamenValidations(Hub) \cup dropped) /\ Show(RamenValidations(Hub))
        /\ RamenFails(Hub) => result' = "error"
    BY <1>6 DEF ValidateHub, ValidateRamen, StageInv
  <2>2. IsFiniteSet(RamenValidations(Hub) \cup dropped) /\ (~RamenFails(Hub) => dropped = {})
    BY <1>1, <1>3, RamenFinite, FS_Union, FS_EmptySet
  <2>3. RamenValidations(Hub) \cap (OfPolicies \cup OfDRClusters) = {}
    <3>1. {"drpolicies", "drclusters"} \cap RamenSections = {}
      BY PartsAreSections DEF RamenSections
    <3>. QED
      BY <1>1, <3>1, ListShape, RamenShape
  <2>. HIDE DEF dropped
  <2>4. counted' \in [States -> Nat]
    BY <2>1, <2>2, CountStep
  <2>5. ~RamenFails(Hub) => RamenValidations(Hub) \cup dropped = RamenValidations(Hub)
    BY <2>2
  <2>. QED
    BY <2>1, <2>2, <2>3, <2>4, <2>5, CountStep DEF CountInv
<1>7. CASE ValidateManagedCluster
  <2>. DEFINE c == Managed[n + 1]
              dropped == IF Unreadable(Deployment(c)) \/ Unreadable(ConfigMap(c)) THEN {}
                         ELSE Dropped(c)
  <2>1. /\ pc = "managed" /\ shown = Upto(n) /\ result = "none" /\ n < Len(Managed)
        /\ Count(RamenValidations(c) \cup dropped) /\ Show(ManagedShown(c))
        /\ RamenFails(c) => result' = "error"
        /\ ~RamenFails(c) => ManagedShown(c) = RamenValidations(c)
    BY <1>7 DEF ValidateManagedCluster, ValidateRamen, ManagedShown, StageInv
  <2>2. n \in Nat /\ n + 1 \in DOMAIN Managed
    BY <1>2, <2>1 DEF StageInv
  <2>3. c \in Clusters /\ c # Hub /\ \A j \in 1..n : c # Managed[j]
    <3>1. \A j \in 1..n : j \in DOMAIN Managed /\ j # n + 1
      BY <1>2, <2>1, <2>2
    <3>. QED
      BY <1>3, <2>2, <3>1, ManagedAssumption
  <2>4. IsFiniteSet(RamenValidations(c) \cup dropped) /\ (~RamenFails(c) => dropped = {})
    BY <1>1, <2>3, RamenFinite, FS_Union, FS_EmptySet
  <2>5. RamenValidations(c) \cap Upto(n) = {}
    <3>1. \A v \in RamenValidations(c) : v.cluster = c
      BY RamenShape DEF Validation
    <3>2. \A v \in Upto(n) : v.cluster # c
      BY <1>1, <2>3, PartOf
    <3>. QED
      BY <3>1, <3>2
  <2>. HIDE DEF dropped, c
  <2>6. counted' \in [States -> Nat]
    BY <2>1, <2>4, CountStep
  <2>7. ~RamenFails(c) => RamenValidations(c) \cup dropped = RamenValidations(c)
    BY <2>4
  <2>. QED
    BY <2>1, <2>4, <2>5, <2>6, <2>7, CountStep DEF CountInv
<1>8. CASE ValidateS3Status
  <2>1. pc = "managed" /\ shown = Upto(n) /\ result = "none" /\ Count(S3Profiles) /\ Show(S3Profiles)
    BY <1>8 DEF ValidateS3Status, StageInv
  <2>2. S3Profiles \cap Upto(n) = {}
    <3>1. \A v \in S3Profiles : v.section = "s3"
      BY S3Shape DEF Validation
    <3>. QED
      BY <1>1, <3>1, PartOf
  <2>. QED
    BY <1>1, <2>1, <2>2, HubFinite, CountStep DEF CountInv
<1>9. CASE UNCHANGED vars
  BY <1>9 DEF vars, CountInv, InState
<1>. QED
  BY <1>4, <1>5, <1>6, <1>7, <1>8, <1>9 DEF Next
IInv == StageInv /\ CountInv

LEMMA ClustersInvariant == Spec => []IInv
<1>1. Init => IInv
  BY InitStageInv, InitCountInv DEF IInv
<1>2. IInv /\ [Next]_vars => IInv'
  BY NextStageInv, NextCountInv DEF IInv
<1>. QED
  BY <1>1, <1>2, PTL DEF Spec

(* The summary of a validation that ran to its end counts what the report  *)
(* shows (Report.Summary, pkg/validate/clusters/command.go): the parts of  *)
(* the report are disjoint, and only what fails is counted and dropped.    *)
THEOREM ClustersSummary == Spec => []SummaryIsShown
<1>1. IInv => SummaryIsShown
  BY DEF IInv, CountInv, InState, SummaryIsShown
<1>. QED
  BY <1>1, ClustersInvariant, PTL

(***************************************************************************)
(* What the report shows, whatever the stage.                              *)
(***************************************************************************)
FieldOf(cluster, section, at, key) ==
  IF section \in {"drpolicies", "drclusters"} THEN HubField(section, at, key)
  ELSE IF section = "s3" THEN S3Field(key)
  ELSE RamenField(cluster, section, at, key)

(* A cluster is shown whole. *)
Whole(c) ==
  /\ RamenValidations(c) \subseteq shown
  /\ c # Hub => /\ \E j \in DOMAIN Managed : c = Managed[j]
                /\ ~RamenFails(Hub) /\ ~RamenFails(c) /\ hubProfiles = HubReport

LEMMA ShownShape ==
  ASSUME StageInv, NEW v \in shown
  PROVE  /\ v = Validation(v.cluster, v.section, v.at, v.key,
                           FieldOf(v.cluster, v.section, v.at, v.key))
         /\ \/ v.section \in {"drpolicies", "drclusters"} /\ v.cluster = Hub
               /\ v \in OfPolicies \cup OfDRClusters
            \/ v.section \in RamenSections /\ v \in RamenValidations(v.cluster) /\ Whole(v.cluster)
               /\ v.cluster \in Clusters
            \/ v.section = "s3" /\ v.cluster = Hub /\ v \in S3Profiles
<1>1. {"drpolicies", "drclusters", "s3"} \cap RamenSections = {}
  BY PartsAreSections DEF RamenSections
<1>2. data \in Inputs /\ Len(Managed) \in Nat /\ DOMAIN Managed = 1..Len(Managed)
      /\ n \in Nat /\ n <= Len(Managed)
  BY ManagedAssumption, LenProperties DEF StageInv
<1>3. ASSUME NEW k \in 0..Len(Managed), v \in Upto(k), Upto(k) \subseteq shown,
             k # 0 => Done(k)
      PROVE  \/ v.section \in {"drpolicies", "drclusters"} /\ v.cluster = Hub
                /\ v \in OfPolicies \cup OfDRClusters
             \/ v.section \in RamenSections /\ v \in RamenValidations(v.cluster) /\ Whole(v.cluster)
                /\ v.cluster \in Clusters
  <2>1. CASE v.section \in RamenSections /\ v.cluster = Hub /\ v \in RamenValidations(Hub)
    BY <1>3, <2>1 DEF Upto, Whole, Clusters
  <2>2. ASSUME NEW j \in 1..k, v.section \in RamenSections, v.cluster = Managed[j],
               v \in RamenValidations(Managed[j])
        PROVE  v \in RamenValidations(v.cluster) /\ Whole(v.cluster) /\ v.cluster \in Clusters
    <3>1. j \in DOMAIN Managed /\ k # 0
      BY <1>2
    <3>2. RamenValidations(Managed[j]) \subseteq shown
      BY <1>3 DEF Upto
    <3>. QED
      BY <1>3, <2>2, <3>1, <3>2 DEF Whole, Clusters, Done
  <2>. QED
    BY <1>2, <1>3, <2>1, <2>2, PartOf
<1>4. \/ v \in OfPolicies \cup OfDRClusters
      \/ v \in S3Profiles
      \/ \E k \in 0..Len(Managed) : v \in Upto(k) /\ Upto(k) \subseteq shown /\ (k # 0 => Done(k))
  <2>1. CASE pc \in {"drpolicies", "drclusters", "hub"}
    BY <2>1 DEF StageInv
  <2>2. CASE pc = "managed"
    BY <1>2, <2>2 DEF StageInv
  <2>3. CASE result \in {"passed", "issues"}
    BY <1>2, <2>3 DEF StageInv
  <2>4. CASE result = "error"
    <3>1. n - 1 \in 0..Len(Managed) \/ n = 0
      BY <1>2
    <3>2. 0 \in 0..Len(Managed)
      BY <1>2
    <3>3. \/ shown \in {OfPolicies, OfPolicies \cup OfDRClusters}
          \/ shown = Upto(0)
          \/ n - 1 \in 0..Len(Managed) /\ shown = Upto(n - 1) /\ Done(n - 1)
      BY <2>4, <1>2, <3>1 DEF StageInv
    <3>. QED
      BY <3>2, <3>3
  <2>. QED
    BY <2>1, <2>2, <2>3, <2>4 DEF StageInv
<1>5. CASE v \in OfPolicies \cup OfDRClusters
  BY <1>2, <1>5, ListShape DEF Validation, FieldOf
<1>6. CASE v \in S3Profiles
  BY <1>6, S3Shape DEF Validation, FieldOf
<1>7. ASSUME v.section \in RamenSections, v \in RamenValidations(v.cluster)
      PROVE  v = Validation(v.cluster, v.section, v.at, v.key,
                            FieldOf(v.cluster, v.section, v.at, v.key))
  BY <1>1, <1>7, RamenShape DEF FieldOf
<1>. QED
  BY <1>2, <1>3, <1>4, <1>5, <1>6, <1>7, ListShape, S3Shape DEF Validation

(* Values the variables range over: a field is shown in one state only.    *)
THEOREM ClustersTypes == Spec => []TypeOK
<1>1. IInv => TypeOK
  <2>1. ASSUME StageInv, NEW v \in shown, NEW w \in shown,
               v.cluster = w.cluster, v.section = w.section, v.at = w.at, v.key = w.key
        PROVE  v = w
    <3>1. v = Validation(v.cluster, v.section, v.at, v.key,
                         FieldOf(v.cluster, v.section, v.at, v.key))
      BY <2>1, ShownShape
    <3>2. w = Validation(w.cluster, w.section, w.at, w.key,
                         FieldOf(w.cluster, w.section, w.at, w.key))
      BY <2>1, ShownShape
    <3>. QED
      BY <2>1, <3>1, <3>2
  <2>. QED
    BY <2>1 DEF IInv, StageInv, CountInv, TypeOK
<1>. QED
  BY <1>1, ClustersInvariant, PTL
(***************************************************************************)
(* A validation that passes.                                               *)
(***************************************************************************)
LEMMA ShownStates ==
  ASSUME StageInv, NEW v \in shown
  PROVE  v.state \in States
<1>1. data \in Inputs
  BY DEF StageInv
<1>2. {"ok", "problem"} \subseteq States
  BY DEF States
<1>. QED
  BY <1>1, <1>2, ShownShape, ListShape, RamenShape, S3Shape

LEMMA PassedIsOk ==
  ASSUME IInv, result = "passed", NEW v \in shown
  PROVE  v.state = "ok"
<1>. DEFINE warnings == InState(shown, "warning")
            problems == InState(shown, "problem")
<1>1. /\ {"warning", "problem"} \subseteq States
      /\ IsFiniteSet(shown) /\ counted \in [States -> Nat]
      /\ counted["warning"] = Cardinality(warnings) /\ counted["problem"] = Cardinality(problems)
      /\ ~(counted["warning"] + counted["problem"] > 0)
  BY DEF IInv, StageInv, CountInv, States
<1>2. counted["warning"] = 0 /\ counted["problem"] = 0
  <2>1. counted["warning"] \in Nat /\ counted["problem"] \in Nat
    BY <1>1
  <2>. QED
    BY <1>1, <2>1
<1>3. warnings \in SUBSET shown /\ problems \in SUBSET shown
  BY DEF InState
<1>4. warnings = {} /\ problems = {}
  <2>. HIDE DEF warnings, problems
  <2>. QED
    BY <1>1, <1>2, <1>3, FS_Subset, FS_EmptySet
<1>5. v.state # "warning" /\ v.state # "problem"
  BY <1>4 DEF InState
<1>. QED
  BY <1>5, ShownStates DEF IInv, States

LEMMA PassedClusters ==
  ASSUME IInv, result = "passed"
  PROVE  /\ hubProfiles = HubReport
         /\ \A c \in Clusters : ~RamenFails(c) /\ \A v \in RamenValidations(c) : v.state = "ok"
<1>1. Len(Managed) \in Nat /\ DOMAIN Managed = 1..Len(Managed)
  BY ManagedAssumption, LenProperties
<1>2. n = Len(Managed) /\ Done(n) /\ shown = Upto(n) \cup S3Profiles
  BY DEF IInv, StageInv
<1>3. ASSUME NEW c \in Clusters PROVE ~RamenFails(c) /\ RamenValidations(c) \subseteq shown
  <2>1. CASE c = Hub
    BY <1>2, <2>1 DEF Done, Upto
  <2>2. ASSUME NEW j \in DOMAIN Managed, c = Managed[j]
        PROVE  ~RamenFails(c) /\ RamenValidations(c) \subseteq shown
    BY <1>1, <1>2, <2>2 DEF Done, Upto
  <2>. QED
    BY <2>1, <2>2 DEF Clusters
<1>. QED
  BY <1>2, <1>3, PassedIsOk DEF Done

(* What a cluster must have when all that is shown of it is in order. *)
LEMMA ClusterInOrder ==
  ASSUME NEW c, ~RamenFails(c), \A v \in RamenValidations(c) : v.state = "ok"
  PROVE  /\ Found(Deployment(c)) /\ Found(ConfigMap(c)) /\ ListOK(c)
         /\ \A i \in DOMAIN StoreProfiles(c) :
              LET p == StoreProfiles(c)[i] IN
              /\ Found(Secret(c, p))
              /\ SecretName(c, i, p).state = "ok" /\ CertificateOK(c, p)
              /\ \A s \in Strings : StringOK(c, p, s)
              /\ \A key \in Keys : KeyOK(c, p, key)
<1>1. /\ ~Unreadable(Deployment(c)) /\ ~Unreadable(ConfigMap(c))
      /\ Complete(c) = DOMAIN StoreProfiles(c)
  BY DEF RamenFails
<1>2. \A section, at, key, state : Validation(c, section, at, key, state).state = state
  BY DEF Validation
<1>3. \A v \in DeploymentValidations(c) \cup ConfigMapValidations(c) : v.state = "ok"
  BY <1>1 DEF RamenValidations
<1>4. Found(Deployment(c))
  <2>1. Validation(c, "deployment", 0, "deleted", NotDeleted(Deployment(c))) \in DeploymentValidations(c)
    BY DEF DeploymentValidations
  <2>. QED
    BY <1>2, <1>3, <2>1 DEF NotDeleted, StateOf
<1>5. Found(ConfigMap(c))
  <2>1. Validation(c, "configMap", 0, "deleted", NotDeleted(ConfigMap(c))) \in ConfigMapValidations(c)
    BY DEF ConfigMapValidations
  <2>. QED
    BY <1>2, <1>3, <2>1 DEF NotDeleted, StateOf
<1>6. Parsed(c)
  <2>1. Validation(c, "configMap", 0, "parsed", StateOf(Parsed(c))) \in ConfigMapValidations(c)
    BY <1>5 DEF ConfigMapValidations
  <2>. QED
    BY <1>2, <1>3, <2>1 DEF StateOf
<1>7. ListOK(c)
  <2>1. Validation(c, "configMap", 0, "s3StoreProfiles", StateOf(ListOK(c))) \in ConfigMapValidations(c)
    BY <1>1, <1>6 DEF ConfigMapValidations
  <2>. QED
    BY <1>2, <1>3, <2>1 DEF StateOf
<1>8. ASSUME NEW i \in DOMAIN StoreProfiles(c), NEW p, p = StoreProfiles(c)[i]
      PROVE  /\ Found(Secret(c, p))
             /\ SecretName(c, i, p).state = "ok" /\ CertificateOK(c, p)
             /\ \A s \in Strings : StringOK(c, p, s)
             /\ \A key \in Keys : KeyOK(c, p, key)
  <2>1. \A v \in ProfileValidations(c, i, p) : v.state = "ok"
    BY <1>1, <1>3, <1>8 DEF ConfigMapValidations
  <2>2. Found(Secret(c, p))
    <3>1. Validation(c, "secretDeleted", i, "secret", NotDeleted(Secret(c, p))) \in ProfileValidations(c, i, p)
      BY DEF ProfileValidations
    <3>. QED
      BY <1>2, <2>1, <3>1 DEF NotDeleted, StateOf
  <2>3. SecretName(c, i, p).state = "ok"
    BY <2>1 DEF ProfileValidations, SecretRef
  <2>4. CertificateOK(c, p)
    <3>1. Validation(c, "caCertificate", i, "cert", StateOf(CertificateOK(c, p))) \in ProfileValidations(c, i, p)
      BY DEF ProfileValidations
    <3>. QED
      BY <1>2, <2>1, <3>1 DEF StateOf
  <2>5. ASSUME NEW s \in Strings PROVE StringOK(c, p, s)
    <3>1. Validation(c, "strings", i, s, StateOf(StringOK(c, p, s))) \in ProfileValidations(c, i, p)
      BY DEF ProfileValidations
    <3>. QED
      BY <1>2, <2>1, <3>1 DEF StateOf
  <2>6. ASSUME NEW key \in Keys PROVE KeyOK(c, p, key)
    <3>1. Validation(c, "secretKeys", i, key, StateOf(KeyOK(c, p, key))) \in ProfileValidations(c, i, p)
      BY <2>2 DEF ProfileValidations
    <3>. QED
      BY <1>2, <2>1, <3>1 DEF StateOf
  <2>. QED
    BY <2>2, <2>3, <2>4, <2>5, <2>6
<1>. QED
  BY <1>4, <1>5, <1>7, <1>8

(* A validation that passes has read both ramen objects of every cluster   *)
(* and the secret of every profile (validatedDeleted,                      *)
(* pkg/validate/clusters/command.go).                                      *)
THEOREM ClustersRead == Spec => []PassedMeansRead
<1>1. IInv => PassedMeansRead
  BY PassedClusters, ClusterInOrder DEF PassedMeansRead, Clusters
<1>. QED
  BY <1>1, ClustersInvariant, PTL
(***************************************************************************)
(* Looking a profile of the hub up by its name.                            *)
(***************************************************************************)
LEMMA LookupFirst ==
  ASSUME data \in Inputs, hubProfiles = HubReport, NEW name, NEW h \in Lookup(name)
  PROVE  \E j \in DOMAIN StoreProfiles(Hub) :
           /\ StoreProfiles(Hub)[j].name = name
           /\ \A g \in Lookup(name) : g = HubProfile(StoreProfiles(Hub)[j])
<1>. DEFINE named == {i \in DOMAIN hubProfiles : hubProfiles[i].name = name}
<1>1. DOMAIN hubProfiles = DOMAIN StoreProfiles(Hub)
      /\ \A i \in DOMAIN hubProfiles : hubProfiles[i] = HubProfile(StoreProfiles(Hub)[i])
  BY DEF HubReport
<1>2. DOMAIN StoreProfiles(Hub) \subseteq Int
  BY InputsFacts DEF Clusters, IsList
<1>3. \A g \in Lookup(name) : \E k \in named : g = hubProfiles[k] /\ \A j \in named : k <= j
  BY DEF Lookup
<1>4. PICK k \in named : h = hubProfiles[k] /\ \A j \in named : k <= j
  BY <1>3
<1>5. named \subseteq Int
  BY <1>1, <1>2
<1>6. \A g \in Lookup(name) : g = hubProfiles[k]
  <2>. SUFFICES ASSUME NEW g \in Lookup(name) PROVE g = hubProfiles[k]
    OBVIOUS
  <2>1. PICK m \in named : g = hubProfiles[m] /\ \A j \in named : m <= j
    BY <1>3
  <2>2. m \in Int /\ k \in Int /\ m <= k /\ k <= m
    BY <1>4, <1>5, <2>1
  <2>3. m = k
    BY <2>2
  <2>. QED
    BY <2>1, <2>3
<1>7. StoreProfiles(Hub)[k].name = name
  BY <1>1 DEF HubProfile
<1>. QED
  BY <1>1, <1>6, <1>7

LEMMA ReportedLength ==
  ASSUME data \in Inputs, hubProfiles = HubReport
  PROVE  Len(hubProfiles) = Len(StoreProfiles(Hub))
<1>1. IsList(StoreProfiles(Hub))
  BY InputsFacts DEF Clusters
<1>. DEFINE L == Len(StoreProfiles(Hub))
            S == {HubProfile(StoreProfiles(Hub)[i]) : i \in 1..L}
<1>2. L \in Nat /\ HubReport \in [1..L -> S]
  BY <1>1 DEF HubReport, IsList
<1>. HIDE DEF S, L
<1>3. HubReport \in Seq(S) /\ Len(HubReport) = L
  BY <1>2
<1>. QED
  BY <1>3 DEF L

(* Equal fingerprints are of equal values. *)
LEMMA SameKeys ==
  ASSUME NEW c, NEW p, NEW q, NEW key \in Keys,
         KeyFingerprint(c, p, key) # NoFingerprint,
         KeyFingerprint(Hub, q, key) = KeyFingerprint(c, p, key)
  PROVE  KeyValue(c, p, key) = KeyValue(Hub, q, key)
<1>1. /\ Found(Secret(c, p)) /\ key \in DOMAIN Secret(c, p).data /\ Secret(c, p).data[key] # ""
      /\ KeyFingerprint(c, p, key) = <<"salt", Secret(c, p).data[key]>>
  BY DEF KeyFingerprint, Fingerprint, Salt
<1>2. /\ Found(Secret(Hub, q)) /\ key \in DOMAIN Secret(Hub, q).data /\ Secret(Hub, q).data[key] # ""
      /\ KeyFingerprint(Hub, q, key) = <<"salt", Secret(Hub, q).data[key]>>
  BY DEF KeyFingerprint, Fingerprint, Salt
<1>3. \A x, y : <<"salt", x>> = <<"salt", y>> => x = y
  OBVIOUS
<1>4. Secret(c, p).data[key] = Secret(Hub, q).data[key]
  BY <1>1, <1>2, <1>3
<1>. QED
  BY <1>1, <1>2, <1>4 DEF KeyValue

LEMMA SameCertificates ==
  ASSUME NEW a, NEW b, a # "invalid", b # "invalid",
         CertificateFingerprint(a) = CertificateFingerprint(b)
  PROVE  a = b
<1>1. a \in {"", "invalid"} <=> b \in {"", "invalid"}
  BY DEF CertificateFingerprint, NoFingerprint
<1>. QED
  BY <1>1 DEF CertificateFingerprint

(* A profile of a managed cluster that is in order is on the hub.          *)
LEMMA ProfileAgrees ==
  ASSUME data \in Inputs, hubProfiles = HubReport, NEW c \in Clusters, c # Hub,
         NEW i \in DOMAIN StoreProfiles(c), NEW p, p = StoreProfiles(c)[i],
         SecretName(c, i, p).state = "ok", CertificateOK(c, p),
         \A s \in Strings : StringOK(c, p, s),
         \A key \in Keys : KeyOK(c, p, key)
  PROVE  \E j \in DOMAIN StoreProfiles(Hub) : SameProfile(c, p, Hub, StoreProfiles(Hub)[j])
<1>1. SecretName(c, i, p).state =
        StateOf(/\ p.secretName # ""
                /\ c # Hub => \E hub \in Lookup(p.name) : hub.secretName = p.secretName)
  BY DEF SecretName, Validation
<1>2. \E hub \in Lookup(p.name) : hub.secretName = p.secretName
  BY <1>1 DEF StateOf
<1>3. PICK j \in DOMAIN StoreProfiles(Hub) :
        /\ StoreProfiles(Hub)[j].name = p.name
        /\ \A g \in Lookup(p.name) : g = HubProfile(StoreProfiles(Hub)[j])
  BY <1>2, LookupFirst
<1>. DEFINE q == StoreProfiles(Hub)[j]
            h == HubProfile(q)
<1>4. /\ h.secretName = q.secretName /\ h.strings = q.strings /\ h.invalid = (q.cert = "invalid")
      /\ h.cert = CertificateFingerprint(q.cert)
      /\ \A key \in Keys : h.keys[key] = KeyFingerprint(Hub, q, key)
  BY DEF HubProfile
<1>5. p.secretName = q.secretName
  BY <1>2, <1>3, <1>4
<1>6. p.strings = q.strings
  <2>1. p.strings \in [Strings -> STRING] /\ q.strings \in [Strings -> STRING]
    BY InputsFacts DEF Clusters
  <2>2. \A s \in Strings : p.strings[s] = q.strings[s]
    BY <1>3, <1>4 DEF StringOK
  <2>. QED
    BY <2>1, <2>2
<1>7. p.cert = q.cert
  BY <1>3, <1>4, SameCertificates DEF CertificateOK
<1>8. ASSUME NEW key \in Keys PROVE KeyValue(c, p, key) = KeyValue(Hub, q, key)
  <2>1. KeyFingerprint(c, p, key) # NoFingerprint
        /\ KeyFingerprint(Hub, q, key) = KeyFingerprint(c, p, key)
    BY <1>3, <1>4 DEF KeyOK
  <2>. QED
    BY <2>1, SameKeys
<1>. QED
  BY <1>3, <1>5, <1>6, <1>7, <1>8 DEF SameProfile

(* As many profiles as on the hub, each of them on the hub, and no two of  *)
(* one name: then all of the hub's profiles are there.                     *)
LEMMA AllProfilesAgree ==
  ASSUME data \in Inputs, NEW c \in Clusters,
         Len(StoreProfiles(c)) = Len(StoreProfiles(Hub)),
         SameProfiles(c, Hub), ~Repeats(StoreProfiles(c))
  PROVE  SameProfiles(Hub, c)
<1>. DEFINE S == DOMAIN StoreProfiles(c)
            T == DOMAIN StoreProfiles(Hub)
            f == [i \in S |-> CHOOSE j \in T : SameProfile(c, StoreProfiles(c)[i], Hub, StoreProfiles(Hub)[j])]
<1>1. \A i \in S : f[i] \in T /\ SameProfile(c, StoreProfiles(c)[i], Hub, StoreProfiles(Hub)[f[i]])
  BY DEF SameProfiles
<1>2. S = T /\ IsFiniteSet(T)
  BY InputsFacts, ListFinite DEF Clusters, IsList
<1>3. f \in [S -> T]
  BY <1>1
<1>. HIDE DEF f, S, T
<1>4. ASSUME NEW i \in S, NEW k \in S, f[i] = f[k] PROVE i = k
  <2>1. StoreProfiles(c)[i].name = StoreProfiles(c)[k].name
    BY <1>1, <1>4 DEF SameProfile
  <2>. QED
    BY <2>1 DEF Repeats, S
<1>5. f \in Injection(S, T)
  BY <1>3, <1>4 DEF Injection, IsInjective
<1>6. f \in Surjection(S, T)
  BY <1>2, <1>5, FS_Injection
<1>7. ASSUME NEW j \in T
      PROVE  \E i \in S : SameProfile(Hub, StoreProfiles(Hub)[j], c, StoreProfiles(c)[i])
  <2>1. PICK i \in S : f[i] = j
    BY <1>6 DEF Surjection
  <2>2. SameProfile(c, StoreProfiles(c)[i], Hub, StoreProfiles(Hub)[j])
    BY <1>1, <2>1
  <2>. QED
    BY <2>2 DEF SameProfile
<1>. QED
  BY <1>7 DEF SameProfiles, S, T

(* A validation that passes means that the clusters agree, although the    *)
(* code looks profiles up by name, compares fingerprints and counts        *)
(* (validatedS3StoreProfiles, pkg/validate/clusters/command.go).           *)
THEOREM ClustersAgree == Spec => []PassedMeansAgree
<1>1. IInv => PassedMeansAgree
  <2>. SUFFICES ASSUME IInv, result = "passed", NEW k \in DOMAIN Managed
                PROVE  /\ Len(StoreProfiles(Managed[k])) >= 2
                       /\ SameProfiles(Managed[k], Hub)
                       /\ ~Repeats(StoreProfiles(Managed[k])) => SameProfiles(Hub, Managed[k])
    BY DEF PassedMeansAgree
  <2>. DEFINE c == Managed[k]
  <2>1. c \in Clusters /\ c # Hub /\ data \in Inputs
    BY ManagedAssumption DEF Clusters, IInv, StageInv
  <2>2. /\ hubProfiles = HubReport
        /\ ~RamenFails(c) /\ \A v \in RamenValidations(c) : v.state = "ok"
    BY <2>1, PassedClusters
  <2>. HIDE DEF c
  <2>3. /\ ListOK(c)
        /\ \A i \in DOMAIN StoreProfiles(c) :
              LET p == StoreProfiles(c)[i] IN
              /\ SecretName(c, i, p).state = "ok" /\ CertificateOK(c, p)
              /\ \A s \in Strings : StringOK(c, p, s)
              /\ \A key \in Keys : KeyOK(c, p, key)
    BY <2>2, ClusterInOrder
  <2>4. Len(StoreProfiles(c)) >= 2 /\ Len(StoreProfiles(c)) = Len(StoreProfiles(Hub))
    BY <2>1, <2>2, <2>3, ReportedLength DEF ListOK
  <2>5. SameProfiles(c, Hub)
    BY <2>1, <2>2, <2>3, ProfileAgrees DEF SameProfiles
  <2>6. ~Repeats(StoreProfiles(c)) => SameProfiles(Hub, c)
    BY <2>1, <2>4, <2>5, AllProfilesAgree
  <2>. QED
    BY <2>4, <2>5, <2>6 DEF c
<1>. QED
  BY <1>1, ClustersInvariant, PTL
(***************************************************************************)
(* A sound cluster next to a sound hub.                                    *)
(***************************************************************************)
LEMMA LookupFound ==
  ASSUME data \in Inputs, hubProfiles = HubReport, ~Repeats(StoreProfiles(Hub)),
         NEW j \in DOMAIN StoreProfiles(Hub)
  PROVE  HubProfile(StoreProfiles(Hub)[j]) \in Lookup(StoreProfiles(Hub)[j].name)
<1>. DEFINE name == StoreProfiles(Hub)[j].name
            named == {i \in DOMAIN hubProfiles : hubProfiles[i].name = name}
<1>1. DOMAIN hubProfiles = DOMAIN StoreProfiles(Hub)
      /\ \A i \in DOMAIN hubProfiles : hubProfiles[i] = HubProfile(StoreProfiles(Hub)[i])
  BY DEF HubReport
<1>2. \A i \in DOMAIN hubProfiles : hubProfiles[i].name = StoreProfiles(Hub)[i].name
  BY <1>1 DEF HubProfile
<1>3. j \in Int
  BY InputsFacts DEF Clusters, IsList
<1>4. named = {j}
  BY <1>1, <1>2 DEF Repeats
<1>5. j \in {k \in named : \A i \in named : k <= i}
  BY <1>3, <1>4
<1>. HIDE DEF name
<1>6. hubProfiles[j] \in Lookup(name)
  BY <1>5 DEF Lookup
<1>. QED
  BY <1>1, <1>6 DEF name

LEMMA KeySet ==
  ASSUME NEW c, NEW p, NEW key \in Keys, KeyValue(c, p, key) # ""
  PROVE  /\ KeyFingerprint(c, p, key) = <<"salt", KeyValue(c, p, key)>>
         /\ KeyFingerprint(c, p, key) # NoFingerprint
<1>1. /\ Found(Secret(c, p)) /\ key \in DOMAIN Secret(c, p).data
      /\ KeyValue(c, p, key) = Secret(c, p).data[key]
  BY DEF KeyValue
<1>2. KeyFingerprint(c, p, key) = <<"salt", KeyValue(c, p, key)>>
  BY <1>1 DEF KeyFingerprint, Fingerprint, Salt
<1>3. ASSUME NEW x, NEW y PROVE <<x, y>> # <<>>
  OBVIOUS
<1>. QED
  BY <1>2, <1>3 DEF NoFingerprint

LEMMA SoundProfileInOrder ==
  ASSUME data \in Inputs, hubProfiles = HubReport, NEW c \in Clusters, c # Hub,
         ~Repeats(StoreProfiles(Hub)), Sound(c), SameProfiles(c, Hub),
         NEW i \in DOMAIN StoreProfiles(c), NEW v \in ProfileValidations(c, i, StoreProfiles(c)[i])
  PROVE  v.state = "ok"
<1>. DEFINE p == StoreProfiles(c)[i]
<1>1. PICK j \in DOMAIN StoreProfiles(Hub) : SameProfile(c, p, Hub, StoreProfiles(Hub)[j])
  BY DEF SameProfiles
<1>. DEFINE q == StoreProfiles(Hub)[j]
            h == HubProfile(q)
<1>2. SameProfile(c, p, Hub, q)
  BY <1>1
<1>3. h \in Lookup(q.name)
  BY LookupFound
<1>4. /\ "" \notin {p.strings[s] : s \in Strings} \cup {p.secretName}
      /\ p.cert # "invalid"
      /\ p.secretNamespace \in {"", "own"}
      /\ Found(Secret(c, p)) /\ ~Secret(c, p).deleted
      /\ "" \notin {KeyValue(c, p, key) : key \in Keys}
  BY DEF Sound
<1>5. v \in ProfileValidations(c, i, p)
  OBVIOUS
<1>6. /\ h.secretName = q.secretName /\ h.strings = q.strings /\ h.invalid = (q.cert = "invalid")
      /\ h.cert = CertificateFingerprint(q.cert)
      /\ \A key \in Keys : h.keys[key] = KeyFingerprint(Hub, q, key)
  BY DEF HubProfile
<1>. HIDE DEF p, q, h
<1>7. /\ h \in Lookup(p.name) /\ h.secretName = p.secretName /\ h.strings = p.strings
      /\ ~h.invalid /\ h.cert = CertificateFingerprint(p.cert)
  BY <1>2, <1>3, <1>4, <1>6 DEF SameProfile
<1>8. SecretName(c, 0, p).state = "ok"
  <2>1. p.secretName # "" /\ \E hub \in Lookup(p.name) : hub.secretName = p.secretName
    BY <1>4, <1>7
  <2>. QED
    BY <2>1 DEF SecretName, Validation, StateOf
<1>9. ASSUME NEW key \in Keys PROVE KeyOK(c, p, key)
  <2>1. KeyValue(c, p, key) # "" /\ KeyValue(Hub, q, key) = KeyValue(c, p, key)
    BY <1>2, <1>4 DEF SameProfile
  <2>2. /\ KeyFingerprint(c, p, key) # NoFingerprint
        /\ KeyFingerprint(Hub, q, key) = KeyFingerprint(c, p, key)
    BY <2>1, KeySet
  <2>. QED
    BY <1>6, <1>7, <2>2 DEF KeyOK
<1>10. ASSUME NEW s \in Strings PROVE StringOK(c, p, s)
  BY <1>4, <1>7 DEF StringOK
<1>11. CertificateOK(c, p)
  BY <1>4, <1>7 DEF CertificateOK
<1>12. /\ v.section \in ProfileParts /\ v.state = ProfileField(c, p, v.section, v.key)
       /\ v.section = "secretKeys" => v.key \in Keys
       /\ v.section = "strings" => v.key \in Strings
  BY <1>5, ProfileShape DEF Validation
<1>13. NotDeleted(Secret(c, p)) = "ok"
  BY <1>4 DEF NotDeleted, StateOf
<1>. QED
  BY <1>4, <1>8, <1>9, <1>10, <1>11, <1>12, <1>13, PartsAreSections DEF ProfileField, StateOf

(* No cluster is blamed for another one: the two were read by two          *)
(* gatherings, and compared by fingerprint (validatedClusterS3Profiles,    *)
(* pkg/validate/clusters/command.go).                                      *)
THEOREM ClustersBlame == Spec => []OnlyFaultyBlamed
<1>1. IInv => OnlyFaultyBlamed
  <2>. SUFFICES ASSUME StageInv, NEW v \in shown, v.cluster # Hub,
                       ~Repeats(StoreProfiles(Hub)),
                       Sound(v.cluster), SameProfiles(v.cluster, Hub),
                       Len(StoreProfiles(v.cluster)) = Len(StoreProfiles(Hub))
                PROVE  v.state = "ok"
    BY DEF OnlyFaultyBlamed, IInv
  <2>. DEFINE c == v.cluster
  <2>1. /\ data \in Inputs /\ v \in RamenValidations(c) /\ c \in Clusters
        /\ hubProfiles = HubReport
    BY ShownShape DEF StageInv, Whole
  <2>2. /\ v = Validation(c, v.section, v.at, v.key, RamenField(c, v.section, v.at, v.key))
        /\ v.section \in RamenSections
        /\ IF v.section \in ProfileParts
           THEN v.at \in Complete(c) /\ v \in ProfileValidations(c, v.at, StoreProfiles(c)[v.at])
           ELSE v.at = 0
        /\ v.section = "deployment" => v.key \in {"deleted", "replicas", "controllerType"}
        /\ v.section = "conditions" => v.key \in DOMAIN Deployment(c).conditions
        /\ v.section = "configMap" => v.key \in {"deleted", "parsed", "s3StoreProfiles"}
    BY <2>1, RamenShape
  <2>3. v.state = RamenField(c, v.section, v.at, v.key)
    BY <2>2 DEF Validation
  <2>. HIDE DEF c
  <2>4. /\ Found(Deployment(c)) /\ ~Deployment(c).deleted /\ Replicas(c) = 1
        /\ \A type \in DOMAIN Deployment(c).conditions :
             Deployment(c).conditions[type] = ExpectedStatus(type)
        /\ Parsed(c) /\ Found(ConfigMap(c)) /\ ~ConfigMap(c).deleted
        /\ \/ Deployment(c).env = ExpectedType(c)
           \/ Deployment(c).env = "unset" /\ ConfigMap(c).controller = ExpectedType(c)
        /\ Len(StoreProfiles(c)) >= 2
    BY DEF Sound, Parsed, c
  <2>5. CASE v.section \in ProfileParts
    <3>1. v.at \in DOMAIN StoreProfiles(c)
      BY <2>2, <2>5 DEF Complete
    <3>. QED
      BY <2>1, <2>2, <2>5, <3>1, SoundProfileInOrder DEF c
  <2>6. CASE v.section \in {"deployment", "conditions"}
    <3>1. ControllerType(c) = ExpectedType(c)
      <4>1. ExpectedType(c) # "unset"
        BY DEF ExpectedType
      <4>. QED
        BY <2>4, <4>1 DEF ControllerType
    <3>2. NotDeleted(Deployment(c)) = "ok"
      BY <2>4 DEF NotDeleted, StateOf
    <3>3. v.state = DeploymentField(c, v.section, v.key)
      BY <2>3, <2>6, PartsAreSections DEF RamenField
    <3>. QED
      BY <2>2, <2>4, <2>6, <3>1, <3>2, <3>3 DEF DeploymentField, StateOf
  <2>7. CASE v.section = "configMap"
    <3>1. ListOK(c)
      BY <2>1, <2>4, ReportedLength DEF ListOK, c
    <3>2. NotDeleted(ConfigMap(c)) = "ok"
      BY <2>4 DEF NotDeleted, StateOf
    <3>3. v.state = ConfigMapField(c, v.key)
      BY <2>3, <2>7, PartsAreSections DEF RamenField
    <3>. QED
      BY <2>2, <2>4, <2>7, <3>1, <3>2, <3>3 DEF ConfigMapField, StateOf
  <2>. QED
    BY <2>2, <2>5, <2>6, <2>7 DEF RamenSections
<1>. QED
  BY <1>1, ClustersInvariant, PTL
(***************************************************************************)
(* The page.                                                               *)
(***************************************************************************)
(* The sections of a validation that is shown, as they do not overlap.     *)
InSection(v, s) ==
  \/ v.section = "drpolicies" /\ v.key = "peerClasses" /\ s = Section(Hub, "peerClasses", v.at)
  \/ /\ v.section \in {"drpolicies", "drclusters"} /\ v.key \notin {"peerClasses", "list"}
     /\ s = Section(Hub, v.section, v.at)
  \/ v.section = "conditions" /\ s = Section(v.cluster, "conditions", 0)
  \/ v.section \in ProfileParts /\ s = Section(v.cluster, "profiles", 0)
  \/ v.key = "s3StoreProfiles" /\ s = Section(v.cluster, "profiles", 0)

LEMMA ShownFields ==
  ASSUME StageInv, NEW v \in shown
  PROVE  /\ v.state \in Marks
         /\ v.key = "s3StoreProfiles" => v.section = "configMap"
         /\ v.key \in {"deleted", "parsed"} \/ v.section = "secretDeleted" => v.state \in {"ok", "problem"}
         /\ v.section = "conditions" => v.at = 0
         /\ v.section \in ProfileParts =>
              /\ v.at \in Complete(v.cluster) /\ v.cluster \in Clusters
              /\ v \in RamenValidations(v.cluster) /\ Whole(v.cluster)
<1>1. data \in Inputs /\ v.state \in Marks
  BY ShownStates DEF StageInv, States, Marks
<1>2. {"drpolicies", "drclusters", "s3"} \cap RamenSections = {}
  BY PartsAreSections DEF RamenSections
<1>3. CASE v.section \in {"drpolicies", "drclusters"} /\ v \in OfPolicies \cup OfDRClusters
  <2>1. v.key \in {"list", "peerClasses"} \/ v.key \notin Fields
    BY <1>1, <1>3, ListShape
  <2>2. v.key \notin {"s3StoreProfiles", "deleted", "parsed"}
    BY <2>1 DEF Fields
  <2>. QED
    BY <1>1, <1>3, <2>2, PartsAreSections
<1>4. CASE v.section = "s3" /\ v \in S3Profiles
  <2>1. v.key \in {"list", "accessible"}
    BY <1>4, S3Shape
  <2>. QED
    BY <1>1, <1>4, <2>1, PartsAreSections
<1>5. CASE /\ v.section \in RamenSections /\ v \in RamenValidations(v.cluster) /\ Whole(v.cluster)
           /\ v.cluster \in Clusters
  <2>1. /\ v.state \in {"ok", "problem"}
        /\ IF v.section \in ProfileParts
           THEN /\ v.at \in Complete(v.cluster)
                /\ v \in ProfileValidations(v.cluster, v.at, StoreProfiles(v.cluster)[v.at])
           ELSE v.at = 0
        /\ v.section = "deployment" => v.key \in {"deleted", "replicas", "controllerType"}
        /\ v.section = "conditions" => v.key \in DOMAIN Deployment(v.cluster).conditions
    BY <1>5, RamenShape
  <2>2. v.section \in ProfileParts => v.key # "s3StoreProfiles"
    BY <2>1, ProfileShape DEF Keys, Strings
  <2>3. v.section = "conditions" => v.key # "s3StoreProfiles"
    BY <1>1, <1>5, <2>1, InputsFacts DEF HasConditions, Fields
  <2>. QED
    BY <1>1, <1>5, <2>1, <2>2, <2>3, PartsAreSections DEF RamenSections
<1>. QED
  BY <1>3, <1>4, <1>5, ShownShape

LEMMA SectionsOfShown ==
  ASSUME StageInv, NEW v \in shown, NEW s
  PROVE  s \in SectionsOf(v) <=> InSection(v, s)
<1>1. v.key = "s3StoreProfiles" => v.section = "configMap"
  BY ShownFields
<1>2. CASE v.section \in {"drpolicies", "drclusters"}
  BY <1>1, <1>2, PartsAreSections DEF SectionsOf, InSection
<1>3. CASE v.section = "conditions"
  BY <1>1, <1>3, PartsAreSections DEF SectionsOf, InSection
<1>4. CASE v.section \in ProfileParts
  BY <1>1, <1>4, PartsAreSections DEF SectionsOf, InSection
<1>5. CASE v.section \notin {"drpolicies", "drclusters", "conditions"} \cup ProfileParts
  BY <1>1, <1>5, PartsAreSections DEF SectionsOf, InSection
<1>. QED
  BY <1>2, <1>3, <1>4, <1>5

(* A section with some of the validations that are shown. *)
LEMMA PartIssue ==
  ASSUME StageInv, NEW W \in SUBSET shown
  PROVE  LET a == Aggregate({v.state : v \in W}) IN
         /\ a \in Marks
         /\ IsIssue(a) <=> \E v \in W : IsIssue(v.state)
         /\ a = "" <=> \A v \in W : v.state = ""
<1>. DEFINE S == {v.state : v \in W}
<1>1. S \in SUBSET Marks
  BY ShownFields
<1>2. /\ (\E x \in S : IsIssue(x)) <=> \E v \in W : IsIssue(v.state)
      /\ (\A x \in S : x = "") <=> \A v \in W : v.state = ""
  OBVIOUS
<1>3. /\ Aggregate(S) \in Marks
      /\ IsIssue(Aggregate(S)) <=> \E x \in S : IsIssue(x)
      /\ Aggregate(S) = "" <=> \A x \in S : x = ""
  <2>. HIDE DEF S
  <2>. QED
    BY <1>1, AggregateIssue
<1>. QED
  BY <1>2, <1>3

LEMMA ProfileIssue ==
  ASSUME StageInv, NEW c, NEW i
  PROVE  /\ ProfileState(c, i) \in Marks
         /\ IsIssue(ProfileState(c, i)) <=>
              \E v \in shown : /\ v.cluster = c /\ v.section \in ProfileParts /\ v.at = i
                               /\ IsIssue(v.state)
<1>. DEFINE V(sections) == {w \in shown : w.cluster = c /\ w.section \in sections /\ w.at = i}
            A == Aggregate(StatesOf(c, ProfileParts \ SecretParts, i))
            B == SecretState(c, i)
<1>1. A \in Marks /\ (IsIssue(A) <=> \E v \in V(ProfileParts \ SecretParts) : IsIssue(v.state))
  BY PartIssue DEF StatesOf
<1>2. B \in Marks /\ (IsIssue(B) <=> \E v \in V(SecretParts) : IsIssue(v.state))
  BY PartIssue DEF StatesOf, SecretState
<1>3. ProfileState(c, i) = SignificantState(A, B)
  BY DEF ProfileState
<1>4. SecretParts \subseteq ProfileParts
  BY DEF ProfileParts
<1>. HIDE DEF A, B
<1>5. ProfileState(c, i) \in Marks /\ (IsIssue(ProfileState(c, i)) <=> IsIssue(A) \/ IsIssue(B))
  BY <1>1, <1>2, <1>3, SignificantIssue
<1>. QED
  BY <1>1, <1>2, <1>4, <1>5

(* A section is open exactly when a validation in it is an issue. *)
LEMMA OpenSections ==
  ASSUME StageInv, NEW u \in shown, NEW s, InSection(u, s)
  PROVE  ShouldOpen(s) <=> \E v \in shown : InSection(v, s) /\ IsIssue(v.state)
<1>1. CASE /\ u.section = "drpolicies" /\ u.key = "peerClasses"
           /\ s = Section(Hub, "peerClasses", u.at)
  <2>. DEFINE W == {w \in shown : w.section = "drpolicies" /\ w.at = u.at /\ w.key = "peerClasses"}
  <2>1. SectionState(s) = Aggregate({v.state : v \in W})
    BY <1>1 DEF SectionState, Section
  <2>2. \A v \in shown : InSection(v, s) <=> v \in W
    BY <1>1 DEF InSection, Section
  <2>. HIDE DEF W
  <2>3. W \in SUBSET shown
    BY DEF W
  <2>. QED
    BY <2>1, <2>2, <2>3, PartIssue DEF ShouldOpen
<1>2. CASE /\ u.section \in {"drpolicies", "drclusters"} /\ u.key \notin {"peerClasses", "list"}
           /\ s = Section(Hub, u.section, u.at)
  <2>. DEFINE W == {w \in shown : w.section = u.section /\ w.at = u.at
                                    /\ w.key \notin {"peerClasses", "list"}}
  <2>1. SectionState(s) = Aggregate({v.state : v \in W})
    BY <1>2 DEF SectionState, Section
  <2>2. \A v \in shown : InSection(v, s) <=> v \in W
    BY <1>2 DEF InSection, Section
  <2>. HIDE DEF W
  <2>3. W \in SUBSET shown
    BY DEF W
  <2>. QED
    BY <2>1, <2>2, <2>3, PartIssue DEF ShouldOpen
<1>3. CASE u.section = "conditions" /\ s = Section(u.cluster, "conditions", 0)
  <2>. DEFINE W == {w \in shown : w.cluster = u.cluster /\ w.section \in {"conditions"} /\ w.at = 0}
  <2>1. SectionState(s) = Aggregate({v.state : v \in W})
    BY <1>3 DEF SectionState, Section, StatesOf
  <2>2. \A v \in shown : InSection(v, s) <=> v \in W
    BY <1>3, ShownFields DEF InSection, Section
  <2>. HIDE DEF W
  <2>3. W \in SUBSET shown
    BY DEF W
  <2>. QED
    BY <2>1, <2>2, <2>3, PartIssue DEF ShouldOpen
<1>4. CASE s = Section(u.cluster, "profiles", 0)
  <2>. DEFINE c == u.cluster
              W == {w \in shown : w.cluster = c /\ w.key = "s3StoreProfiles"}
              P == {ProfileState(c, i) : i \in DOMAIN StoreProfiles(c)}
  <2>1. SectionState(s) = SignificantState(ListState(c), Aggregate(P))
    BY <1>4 DEF SectionState, Section
  <2>2. ListState(c) \in Marks /\ (IsIssue(ListState(c)) <=> \E v \in W : IsIssue(v.state))
    BY PartIssue DEF ListState
  <2>3. Aggregate(P) \in Marks /\ (IsIssue(Aggregate(P)) <=> \E x \in P : IsIssue(x))
    <3>1. P \in SUBSET Marks
      BY ProfileIssue
    <3>. HIDE DEF P
    <3>. QED
      BY <3>1, AggregateIssue
  <2>4. (\E x \in P : IsIssue(x)) <=>
          \E v \in shown : v.cluster = c /\ v.section \in ProfileParts /\ IsIssue(v.state)
    <3>1. ASSUME NEW v \in shown, v.cluster = c, v.section \in ProfileParts, IsIssue(v.state)
          PROVE  \E x \in P : IsIssue(x)
      <4>1. v.at \in DOMAIN StoreProfiles(c)
        BY <3>1, ShownFields DEF Complete
      <4>2. IsIssue(ProfileState(c, v.at))
        BY <3>1, ProfileIssue
      <4>. QED
        BY <4>1, <4>2
    <3>2. ASSUME NEW i \in DOMAIN StoreProfiles(c), IsIssue(ProfileState(c, i))
          PROVE  \E v \in shown : v.cluster = c /\ v.section \in ProfileParts /\ IsIssue(v.state)
      BY <3>2, ProfileIssue
    <3>. QED
      BY <3>1, <3>2
  <2>5. \A v \in shown : InSection(v, s) <=>
          v.cluster = c /\ (v.section \in ProfileParts \/ v.key = "s3StoreProfiles")
    BY <1>4, PartsAreSections DEF InSection, Section
  <2>6. IsIssue(SectionState(s)) <=> IsIssue(ListState(c)) \/ IsIssue(Aggregate(P))
    <3>. HIDE DEF P, c
    <3>. QED
      BY <2>1, <2>2, <2>3, SignificantIssue
  <2>. QED
    BY <2>2, <2>3, <2>4, <2>5, <2>6 DEF ShouldOpen
<1>. QED
  BY <1>1, <1>2, <1>3, <1>4 DEF InSection

(* The profiles of a report are left out when their list is not complete.  *)
LEMMA ProfilesListed ==
  ASSUME StageInv, NEW v \in shown, v.section \in ProfileParts,
         ~(v.cluster = Hub /\ ProfilesIncomplete)
  PROVE  ListState(v.cluster) # ""
<1>. DEFINE c == v.cluster
            x == Validation(c, "configMap", 0, "s3StoreProfiles", StateOf(ListOK(c)))
<1>1. v.at \in Complete(c) /\ c \in Clusters /\ v \in RamenValidations(c) /\ Whole(c)
      /\ data \in Inputs
  BY ShownFields DEF StageInv
<1>2. ~Unreadable(Deployment(c)) /\ ~Unreadable(ConfigMap(c))
  <2>1. \A w \in DeploymentValidations(c) \cup {ControllerValidation(c)} :
          w.section \in {"deployment", "conditions"}
    BY DEF DeploymentValidations, ControllerValidation, Validation
  <2>2. v \notin DeploymentValidations(c) \cup {ControllerValidation(c)}
    BY <2>1, PartsAreSections
  <2>. QED
    BY <1>1, <2>2 DEF RamenValidations
<1>3. Complete(c) = DOMAIN StoreProfiles(c)
  <2>1. CASE c # Hub
    BY <1>1, <2>1 DEF Whole, RamenFails
  <2>2. CASE c = Hub
    <3>1. \A i \in DOMAIN StoreProfiles(Hub) : ~Unreadable(Secret(Hub, StoreProfiles(Hub)[i]))
      BY <2>2 DEF ProfilesIncomplete
    <3>2. \A i \in DOMAIN StoreProfiles(Hub) : 1..i \subseteq DOMAIN StoreProfiles(Hub)
      BY <1>1, InputsFacts DEF Clusters, IsList
    <3>. QED
      BY <2>2, <3>1, <3>2 DEF Complete
  <2>. QED
    BY <2>1, <2>2
<1>4. Parsed(c)
  BY <1>1, <1>3 DEF StoreProfiles
<1>5. x \in ConfigMapValidations(c)
  BY <1>3, <1>4 DEF ConfigMapValidations
<1>6. x \in shown
  BY <1>1, <1>2, <1>5 DEF RamenValidations, Whole
<1>7. x.cluster = c /\ x.key = "s3StoreProfiles" /\ x.state # ""
  BY DEF Validation, StateOf
<1>. DEFINE W == {w \in shown : w.cluster = c /\ w.key = "s3StoreProfiles"}
<1>8. ListState(c) = "" <=> \A w \in W : w.state = ""
  BY PartIssue DEF ListState
<1>. QED
  BY <1>6, <1>7, <1>8

(* The page of `validate clusters` hides no issue: a section is open       *)
(* exactly when a validation in it is an issue, and every issue is on the  *)
(* page unless it is one of the hub's profiles and the list of these could *)
(* not be read to its end (shouldOpen and AggregateState,                  *)
(* pkg/report/html.go and pkg/report/clusters.go).                         *)
THEOREM ClustersIssuesAreOpen == Spec => []IssuesAreOpen
<1>1. IInv => IssuesAreOpen
  <2>. SUFFICES ASSUME StageInv
                PROVE  IssuesAreOpen
    BY DEF IInv
  <2>1. ASSUME NEW u \in shown, NEW s \in SectionsOf(u)
        PROVE  ShouldOpen(s) <=> \E v \in shown : s \in SectionsOf(v) /\ IsIssue(v.state)
    BY <2>1, SectionsOfShown, OpenSections
  <2>2. ASSUME NEW v \in shown, IsIssue(v.state)
        PROVE  Rendered(v) \/ (v.cluster = Hub /\ v.section \in ProfileParts /\ ProfilesIncomplete)
    BY <2>2, ShownFields, ProfilesListed DEF Rendered, IsIssue
  <2>. QED
    BY <2>1, <2>2 DEF IssuesAreOpen
<1>. QED
  BY <1>1, ClustersInvariant, PTL
=============================================================================
