-------------------------- MODULE MCClustersStatus --------------------------
(***************************************************************************)
(* Gathered data for ClustersStatus: a hub and one managed cluster that    *)
(* deviate from a sound configuration, each in its own way or in the same  *)
(* one, and DRPolicies and DRClusters that deviate next to sound clusters. *)
(***************************************************************************)
EXTENDS ClustersHTML

MCManaged == <<"c1", "c2">>

SoundDeployment(type) ==
  [read |-> "ok", deleted |-> FALSE, replicas |-> 1, env |-> type,
   conditions |-> [Available |-> "True", Progressing |-> "True"]]

SoundProfile(name) ==
  [name |-> name,
   strings |-> [s \in Strings |-> name],
   cert |-> "A", secretName |-> "s1", secretNamespace |-> "own"]

SoundConfigMap ==
  [read |-> "ok", deleted |-> FALSE, parsed |-> TRUE, controller |-> "",
   profiles |-> <<SoundProfile("p1"), SoundProfile("p2")>>]

SoundSecret == [read |-> "ok", deleted |-> FALSE, data |-> [key \in Keys |-> "x"]]

SoundCluster(type) ==
  [deployment |-> SoundDeployment(type),
   configMap |-> [SoundConfigMap EXCEPT !.controller = type],
   secrets |-> [s \in {"s1", "s2"} |-> SoundSecret]]

Reads == {"missing", "unreadable"}

Deployments(type) ==
  LET d == SoundDeployment(type) IN
  {[d EXCEPT !.read = r] : r \in Reads}
    \cup {[d EXCEPT !.deleted = TRUE]}
    \cup {[d EXCEPT !.replicas = r] : r \in {-1, 0}}
    \cup {[d EXCEPT !.env = e] : e \in {"unset", "dr-hub", "dr-cluster"}}
    \cup {[d EXCEPT !.conditions = c] :
            c \in {[Available |-> "False"], [ReplicaFailure |-> "False"],
                   [ReplicaFailure |-> "True"]}}

(* The second profile deviates, so that the first one is validated. *)
SecondProfiles ==
  LET p == SoundProfile("p2") IN
  {[p EXCEPT !.strings["s3Bucket"] = v] : v \in {"", "other"}}
    \cup {[p EXCEPT !.strings["s3Region"] = v] : v \in {"", "other"}}
    \cup {[p EXCEPT !.cert = v] : v \in {"", "invalid", "B"}}
    \cup {[p EXCEPT !.secretName = v] : v \in {"", "s2", "s3"}}
    \cup {[p EXCEPT !.secretNamespace = v] : v \in {"", "other"}}
    \cup {[p EXCEPT !.name = "p3"]}

ProfileLists ==
  {<<SoundProfile("p1"), p>> : p \in SecondProfiles}
    \cup {<<>>, <<SoundProfile("p1")>>, <<SoundProfile("p2"), SoundProfile("p1")>>}

ConfigMaps(type) ==
  LET m == [SoundConfigMap EXCEPT !.controller = type] IN
  {[m EXCEPT !.read = r] : r \in Reads}
    \cup {[m EXCEPT !.deleted = TRUE], [m EXCEPT !.parsed = FALSE]}
    \cup {[m EXCEPT !.profiles = l] : l \in ProfileLists}

SecretData == {[key \in {"AWS_ACCESS_KEY_ID"} |-> "x"],
               [key \in Keys |-> "y"],
               [key \in Keys |-> IF key = "AWS_ACCESS_KEY_ID" THEN "x" ELSE ""]}

Secrets ==
  {[SoundSecret EXCEPT !.read = r] : r \in Reads}
    \cup {[SoundSecret EXCEPT !.deleted = TRUE]}
    \cup {[SoundSecret EXCEPT !.data = d] : d \in SecretData}

(* A cluster with one deviation, or with two in the places that tell the   *)
(* controller type.                                                        *)
Variants(type) ==
  LET c == SoundCluster(type) IN
  {c}
    \cup {[c EXCEPT !.deployment = d] : d \in Deployments(type)}
    \cup {[c EXCEPT !.configMap = m] : m \in ConfigMaps(type)}
    \cup {[c EXCEPT !.secrets["s1"] = s] : s \in Secrets}
    \cup {[c EXCEPT !.deployment.env = "unset", !.configMap = m] :
            m \in {[SoundConfigMap EXCEPT !.parsed = FALSE], SoundConfigMap}}

(* A managed configmap may repeat a name; on the hub it stops the command. *)
RepeatedName ==
  [SoundCluster("dr-cluster") EXCEPT
     !.configMap.profiles = <<SoundProfile("p1"), SoundProfile("p1")>>]

(* The first profile has a fault, the secret of the second is unreadable. *)
IncompleteProfiles ==
  [SoundCluster("dr-hub") EXCEPT
     !.configMap.profiles = <<[SoundProfile("p1") EXCEPT !.strings["s3Bucket"] = ""],
                              [SoundProfile("p2") EXCEPT !.secretName = "s2"]>>,
     !.secrets["s2"].read = "unreadable"]

ConditionOf(stale, status) == [Validated |-> [stale |-> stale, status |-> status]]

Policy == [read |-> "ok", peerClasses |-> 1, conditions |-> ConditionOf(FALSE, "True")]

DRPolicyLists ==
  {<<>>, <<Policy>>, <<Policy, [Policy EXCEPT !.read = "unreadable"]>>}
    \cup {<<[Policy EXCEPT !.peerClasses = 0]>>}
    \cup {<<[Policy EXCEPT !.conditions = ConditionOf(stale, status)]>> :
            stale \in BOOLEAN, status \in {"True", "False"}}

Cluster == [read |-> "ok",
            conditions |-> [Fenced |-> [stale |-> FALSE, status |-> "False"],
                            Clean |-> [stale |-> FALSE, status |-> "True"]]]

DRClusterLists ==
  {<<Cluster>>, <<Cluster, Cluster>>, <<Cluster, [Cluster EXCEPT !.read = "unreadable"]>>,
   <<Cluster, [Cluster EXCEPT !.conditions["Fenced"].status = "True"]>>}

Input(hub, c1, c2, policies, clusters, accessible) ==
  [clusters |-> [c \in {"hub", "c1", "c2"} |->
                   CASE c = "hub" -> hub [] c = "c1" -> c1 [] OTHER -> c2],
   drPolicies |-> policies, drClusters |-> clusters, accessible |-> accessible]

MCInputs ==
  LET hub == SoundCluster("dr-hub")
      c == SoundCluster("dr-cluster")
      managed == Variants("dr-cluster") \cup {RepeatedName} IN
  {Input(h, m, c, <<Policy>>, <<Cluster, Cluster>>, TRUE) :
     h \in Variants("dr-hub") \cup {IncompleteProfiles}, m \in managed}
  \cup {Input(hub, c, m, <<Policy>>, <<Cluster, Cluster>>, a) : m \in managed, a \in BOOLEAN}
  \cup {Input(hub, c, c, p, d, TRUE) : p \in DRPolicyLists, d \in DRClusterLists}
  \cup {Input(h, m, m, <<Policy>>, <<Cluster, Cluster>>, TRUE) :
          h \in Variants("dr-hub"), m \in managed}
=============================================================================
