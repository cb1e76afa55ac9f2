--------------------------- MODULE ClustersStatus ---------------------------
(***************************************************************************)
(* The validation of the data `validate clusters` gathered: the hub first, *)
(* then the managed clusters, each compared with what the report already   *)
(* says of the hub, then the S3 profiles.  DataCommands shows what happens *)
(* before and after it.                                                    *)
(*                                                                         *)
(* A validation is a field of the report with a state.  It is counted in   *)
(* the summary when it is made; it is shown when the report keeps it.      *)
(***************************************************************************)
EXTENDS Integers, Sequences, FiniteSets

CONSTANTS
  Hub,                    \* the hub
  Managed,                \* the managed clusters, in the environment's order
  Inputs                  \* the gathered data considered

ASSUME ManagedAssumption ==
  /\ Managed \in Seq(STRING)
  /\ \A i \in DOMAIN Managed : Managed[i] # Hub
  /\ \A i, j \in DOMAIN Managed : Managed[i] = Managed[j] => i = j

Strings == {"s3Bucket", "s3CompatibleEndpoint", "s3Region"}

Keys == {"AWS_ACCESS_KEY_ID", "AWS_SECRET_ACCESS_KEY"}

(* Fields of the report that share a section with conditions, or a rule of *)
(* the page.  Types of conditions are capitalized, fields are not.         *)
Fields == {"peerClasses", "list", "deleted", "parsed", "s3StoreProfiles"}

IsList(items) == Len(items) \in Nat /\ DOMAIN items = 1..Len(items)

HasConditions(object) ==
  IsFiniteSet(DOMAIN object.conditions) /\ DOMAIN object.conditions \cap Fields = {}

ASSUME InputsAssumption ==
  \A d \in Inputs :
    /\ IsList(d.drPolicies) /\ \A i \in DOMAIN d.drPolicies : HasConditions(d.drPolicies[i])
    /\ IsList(d.drClusters) /\ \A i \in DOMAIN d.drClusters : HasConditions(d.drClusters[i])
    /\ \A c \in {Hub} \cup {Managed[i] : i \in DOMAIN Managed} :
         LET profiles == d.clusters[c].configMap.profiles IN
         /\ HasConditions(d.clusters[c].deployment)
         /\ IsList(profiles) /\ \A i \in DOMAIN profiles : profiles[i].strings \in [Strings -> STRING]

VARIABLES
  data,                   \* the gathered data
  pc,                     \* the section validated next
  n,                      \* the managed clusters validated
  hubProfiles,            \* the S3 profiles the report shows for the hub
  counted,                \* counted[state]: the summary of the report
  shown,                  \* the validations the report shows
  result                  \* "none", "passed", "issues" or "error"

vars == <<data, pc, n, hubProfiles, counted, shown, result>>

States == {"ok", "warning", "problem"}

StateOf(ok) == IF ok THEN "ok" ELSE "problem"

(* The field "key" of the item numbered "at" of a section of a cluster. *)
Validation(cluster, section, at, key, state) ==
  [cluster |-> cluster, section |-> section, at |-> at, key |-> key, state |-> state]

Init ==
  /\ data \in Inputs
  /\ pc = "drpolicies"
  /\ n = 0
  /\ hubProfiles = <<>>
  /\ counted = [s \in States |-> 0]
  /\ shown = {}
  /\ result = "none"

(* Count some validations and show some. *)
Count(validations) ==
  counted' = [s \in States |-> counted[s] + Cardinality({v \in validations : v.state = s})]

Show(validations) == shown' = shown \cup validations

(* An object read from the gathered data. *)
Found(object) == object.read = "ok"

Unreadable(object) == object.read = "unreadable"

(* Faulty NotDeleted: an object that is missing passes as one that is. *)
NotDeletedIfFound(object) == StateOf(Found(object) => ~object.deleted)

(* An object that is missing counts as deleted. *)
NotDeleted(object) == StateOf(Found(object) /\ ~object.deleted)

(* A condition of an older generation of its object says nothing. *)
Condition(condition, expected) ==
  IF condition.stale THEN "warning" ELSE StateOf(condition.status = expected)
-----------------------------------------------------------------------------
(* DRPolicies and DRClusters.  The first one that cannot be read stops the *)
(* validation; those before it are counted and shown.                      *)

ReadBefore(items) ==
  {i \in DOMAIN items : \A j \in 1..i : Found(items[j])}

(* The conditions of an object; "False" is the sound status of some types. *)
Conditions(section, i, item, soundFalse) ==
  {Validation(Hub, section, i, type,
     Condition(item.conditions[type], IF type \in soundFalse THEN "False" ELSE "True")) :
     type \in DOMAIN item.conditions}

DRPolicies ==
  LET items == data.drPolicies IN
  UNION {{Validation(Hub, "drpolicies", i, "peerClasses", StateOf(items[i].peerClasses > 0))}
           \cup Conditions("drpolicies", i, items[i], {}) : i \in ReadBefore(items)}

DRClusters ==
  LET items == data.drClusters IN
  UNION {Conditions("drclusters", i, items[i], {"Fenced"}) : i \in ReadBefore(items)}

(* Faulty ValidateList: the error of an object is logged, not returned. *)
ValidateListAnyway(section, items, validations, minimum, to) ==
  /\ pc = section
  /\ Count(validations)
  /\ Show(validations)
  /\ pc' = to
  /\ result' = IF ReadBefore(items) # DOMAIN items THEN "error" ELSE result
  /\ UNCHANGED <<data, n, hubProfiles>>

(* Validate a list of the hub, then go on to the next section. *)
ValidateList(section, items, validations, minimum, to) ==
  /\ pc = section
  /\ LET failed == ReadBefore(items) # DOMAIN items
         all == validations \cup
           IF failed THEN {}
           ELSE {Validation(Hub, section, 0, "list", StateOf(Len(items) >= minimum))}
     IN /\ Count(all)
        /\ Show(all)
        /\ pc' = IF failed THEN "done" ELSE to
        /\ result' = IF failed THEN "error" ELSE result
  /\ UNCHANGED <<data, n, hubProfiles>>

ValidateDRPolicies == ValidateList("drpolicies", data.drPolicies, DRPolicies, 1, "drclusters")

ValidateDRClusters == ValidateList("drclusters", data.drClusters, DRClusters, 2, "hub")
-----------------------------------------------------------------------------
(* The ramen deployment of a cluster. *)

Deployment(c) == data.clusters[c].deployment

ConfigMap(c) == data.clusters[c].configMap

Parsed(c) == Found(ConfigMap(c)) /\ ConfigMap(c).parsed

ExpectedStatus(type) == IF type = "ReplicaFailure" THEN "False" ELSE "True"

(* Replicas that are not set are 1, and 1 is expected. *)
Replicas(c) == IF Deployment(c).replicas = -1 THEN 1 ELSE Deployment(c).replicas

DeploymentValidations(c) ==
  {Validation(c, "deployment", 0, "deleted", NotDeleted(Deployment(c)))} \cup
  IF ~Found(Deployment(c)) THEN {}
  ELSE {Validation(c, "deployment", 0, "replicas", StateOf(Replicas(c) = 1))} \cup
       {Validation(c, "conditions", 0, type,
          StateOf(Deployment(c).conditions[type] = ExpectedStatus(type))) :
          type \in DOMAIN Deployment(c).conditions}

ExpectedType(c) == IF c = Hub THEN "dr-hub" ELSE "dr-cluster"

(* The environment of the deployment comes first, then the configmap. *)
ControllerType(c) ==
  CASE Found(Deployment(c)) /\ Deployment(c).env # "unset" -> Deployment(c).env
    [] OTHER -> IF Parsed(c) THEN ConfigMap(c).controller ELSE ""

ControllerValidation(c) ==
  Validation(c, "deployment", 0, "controllerType", StateOf(ControllerType(c) = ExpectedType(c)))
-----------------------------------------------------------------------------
(* The S3 profiles of a ramen configmap. *)

StoreProfiles(c) == IF Parsed(c) THEN ConfigMap(c).profiles ELSE <<>>

(* Faulty Salt: every cluster is gathered with a salt of its own. *)
SaltOf(c) == c

(* Secrets are sanitized when they are gathered, with one salt for all     *)
(* clusters: equal values stay equal.                                      *)
Salt(c) == "salt"

(* The fingerprint of a value, and the value of a fingerprint not set. *)
NoFingerprint == <<>>

Fingerprint(c, value) == <<Salt(c), value>>

CertificateFingerprint(cert) ==
  IF cert \in {"", "invalid"} THEN NoFingerprint ELSE <<cert>>

(* Namespaces are gathered by name: nothing is found in another one. *)
NoSecret == [read |-> "missing", deleted |-> FALSE, data |-> <<>>]

Secret(c, profile) ==
  LET secrets == data.clusters[c].secrets IN
  IF profile.secretName \in DOMAIN secrets /\ profile.secretNamespace \in {"", "own"}
  THEN secrets[profile.secretName] ELSE NoSecret

(* The fingerprint of a key of a profile's secret, if it has it. *)
KeyFingerprint(c, profile, key) ==
  LET secret == Secret(c, profile) IN
  IF Found(secret) /\ key \in DOMAIN secret.data /\ secret.data[key] # ""
  THEN Fingerprint(c, secret.data[key]) ELSE NoFingerprint

(* What the report says of a profile of the hub. *)
HubProfile(profile) ==
  [name |-> profile.name,
   strings |-> profile.strings,
   secretName |-> profile.secretName,
   invalid |-> profile.cert = "invalid",
   cert |-> CertificateFingerprint(profile.cert),
   keys |-> [key \in Keys |-> KeyFingerprint(Hub, profile, key)]]

(* The first of a name of those that the report shows for the hub, if any. *)
Lookup(name) ==
  LET named == {i \in DOMAIN hubProfiles : hubProfiles[i].name = name} IN
  {hubProfiles[i] : i \in {k \in named : \A j \in named : k <= j}}

(* The part of a profile validated before its secret is read. *)
SecretName(c, i, profile) ==
  Validation(c, "secretName", i, "secret", StateOf(
    /\ profile.secretName # ""
    /\ c # Hub => \E hub \in Lookup(profile.name) : hub.secretName = profile.secretName))

SecretNamespace(c, i, profile) ==
  Validation(c, "secretNamespace", i, "secret", StateOf(profile.secretNamespace \in {"", "own"}))

SecretRef(c, i, profile) == {SecretName(c, i, profile), SecretNamespace(c, i, profile)}

(* Faulty StringOK: a string of a managed cluster needs only be set. *)
StringSet(c, profile, s) == profile.strings[s] # ""

(* The strings of a profile are set, and agree with the hub's. *)
StringOK(c, profile, s) ==
  /\ profile.strings[s] # ""
  /\ c # Hub => \E hub \in Lookup(profile.name) : hub.strings[s] = profile.strings[s]

(* A certificate is optional, but not on one side only. *)
CertificateOK(c, profile) ==
  /\ profile.cert # "invalid"
  /\ c # Hub => \E hub \in Lookup(profile.name) :
                  ~hub.invalid /\ hub.cert = CertificateFingerprint(profile.cert)

(* The keys of the secret are set, and agree with the hub's. *)
KeyOK(c, profile, key) ==
  /\ KeyFingerprint(c, profile, key) # NoFingerprint
  /\ c # Hub => \E hub \in Lookup(profile.name) :
                  hub.keys[key] = KeyFingerprint(c, profile, key)

ProfileValidations(c, i, profile) ==
  SecretRef(c, i, profile)
    \cup {Validation(c, "secretDeleted", i, "secret", NotDeleted(Secret(c, profile)))}
    \cup {Validation(c, "secretKeys", i, key, StateOf(KeyOK(c, profile, key))) :
            key \in IF Found(Secret(c, profile)) THEN Keys ELSE {}}
    \cup {Validation(c, "strings", i, s, StateOf(StringOK(c, profile, s))) : s \in Strings}
    \cup {Validation(c, "caCertificate", i, "cert", StateOf(CertificateOK(c, profile)))}

(* The profiles in front of the first one whose secret cannot be read. *)
Complete(c) ==
  LET profiles == StoreProfiles(c) IN
  {i \in DOMAIN profiles : \A j \in 1..i : ~Unreadable(Secret(c, profiles[j]))}

(* The validations of the profile that stopped the list are counted, and   *)
(* dropped with it.                                                        *)
Dropped(c) ==
  UNION {SecretRef(c, i, StoreProfiles(c)[i]) :
           i \in {Cardinality(Complete(c)) + 1} \cap DOMAIN StoreProfiles(c)}

(* Two profiles, and as many as on the hub. *)
ListOK(c) ==
  /\ Len(StoreProfiles(c)) >= 2
  /\ c # Hub => Len(StoreProfiles(c)) = Len(hubProfiles)

ConfigMapValidations(c) ==
  {Validation(c, "configMap", 0, "deleted", NotDeleted(ConfigMap(c)))}
    \cup (IF Found(ConfigMap(c))
          THEN {Validation(c, "configMap", 0, "parsed", StateOf(Parsed(c)))} ELSE {})
    \cup (UNION {ProfileValidations(c, i, StoreProfiles(c)[i]) : i \in Complete(c)})
    \cup (IF Parsed(c) /\ Complete(c) = DOMAIN StoreProfiles(c)
          THEN {Validation(c, "configMap", 0, "s3StoreProfiles", StateOf(ListOK(c)))} ELSE {})
-----------------------------------------------------------------------------
(* Ramen on one cluster, and the clusters one after the other.             *)

RamenFails(c) ==
  \/ Unreadable(Deployment(c))
  \/ Unreadable(ConfigMap(c))
  \/ Complete(c) # DOMAIN StoreProfiles(c)

RamenValidations(c) ==
  (IF Unreadable(Deployment(c)) THEN {} ELSE DeploymentValidations(c))
    \cup (IF Unreadable(Deployment(c)) \/ Unreadable(ConfigMap(c)) THEN {}
          ELSE ConfigMapValidations(c))
    \cup (IF RamenFails(c) THEN {} ELSE {ControllerValidation(c)})

ValidateRamen(c) ==
  /\ Count(RamenValidations(c) \cup
           IF Unreadable(Deployment(c)) \/ Unreadable(ConfigMap(c)) THEN {} ELSE Dropped(c))
  /\ result' = IF RamenFails(c) THEN "error" ELSE result

(* The report holds what was validated of the hub before a failure. *)
ValidateHub ==
  /\ pc = "hub"
  /\ ValidateRamen(Hub)
  /\ Show(RamenValidations(Hub))
  /\ hubProfiles' = IF RamenFails(Hub) THEN <<>>
                    ELSE [i \in DOMAIN StoreProfiles(Hub) |-> HubProfile(StoreProfiles(Hub)[i])]
  /\ pc' = IF RamenFails(Hub) THEN "done" ELSE "managed"
  /\ UNCHANGED <<data, n>>

(* Faulty ManagedShown: a copy is appended before it is validated. *)
ManagedShownEmpty(c) == {}

(* A managed cluster that fails is not added to the report at all. *)
ManagedShown(c) == IF RamenFails(c) THEN {} ELSE RamenValidations(c)

ValidateManagedCluster ==
  /\ pc = "managed"
  /\ n < Len(Managed)
  /\ LET c == Managed[n + 1] IN
       /\ ValidateRamen(c)
       /\ Show(ManagedShown(c))
       /\ pc' = IF RamenFails(c) THEN "done" ELSE pc
       /\ n' = n + 1
  /\ UNCHANGED <<data, hubProfiles>>

(* One result per profile of the hub.  Its credentials were read from the  *)
(* live hub, whatever was gathered.                                        *)
S3Profiles ==
  {Validation(Hub, "s3", i, "accessible", StateOf(data.accessible)) : i \in DOMAIN StoreProfiles(Hub)}
    \cup {Validation(Hub, "s3", 0, "list", StateOf(StoreProfiles(Hub) # <<>>))}

ValidateS3Status ==
  /\ pc = "managed"
  /\ n = Len(Managed)
  /\ Count(S3Profiles)
  /\ Show(S3Profiles)
  /\ pc' = "done"
  /\ result' = IF counted'["warning"] + counted'["problem"] > 0 THEN "issues" ELSE "passed"
  /\ UNCHANGED <<data, n, hubProfiles>>

Next ==
  \/ ValidateDRPolicies
  \/ ValidateDRClusters
  \/ ValidateHub
  \/ ValidateManagedCluster
  \/ ValidateS3Status

Spec == Init /\ [][Next]_vars
-----------------------------------------------------------------------------
(* Values the variables range over.  A field is shown in one state only.   *)
TypeOK ==
  /\ pc \in {"drpolicies", "drclusters", "hub", "managed", "done"}
  /\ n \in 0..Len(Managed)
  /\ counted \in [States -> Nat]
  /\ result \in {"none", "passed", "issues", "error"}
  /\ pc = "done" <=> result # "none"
  /\ \A v, w \in shown :
       v.cluster = w.cluster /\ v.section = w.section /\ v.at = w.at /\ v.key = w.key => v = w

(* The gathered values, before any fingerprint: what a key of a profile's  *)
(* secret holds, or nothing.                                               *)
KeyValue(c, profile, key) ==
  LET secret == Secret(c, profile) IN
  IF Found(secret) /\ key \in DOMAIN secret.data THEN secret.data[key] ELSE ""

(* Two profiles of two clusters that the user would call the same. *)
SameProfile(c, p, d, q) ==
  /\ p.name = q.name
  /\ p.strings = q.strings
  /\ p.cert = q.cert
  /\ p.secretName = q.secretName
  /\ \A key \in Keys : KeyValue(c, p, key) = KeyValue(d, q, key)

Repeats(profiles) == \E i, j \in DOMAIN profiles : i # j /\ profiles[i].name = profiles[j].name

SameProfiles(c, d) ==
  \A i \in DOMAIN StoreProfiles(c) : \E j \in DOMAIN StoreProfiles(d) :
    SameProfile(c, StoreProfiles(c)[i], d, StoreProfiles(d)[j])

(* A validation that passes means that the clusters agree: what a managed  *)
(* cluster has is on the hub, with the same bucket, endpoint, region,      *)
(* certificate and credentials, and, unless the managed configmap repeats  *)
(* a profile, what is on the hub is on the managed cluster.  (The code     *)
(* looks hub profiles up by name, compares fingerprints and counts.)       *)
PassedMeansAgree ==
  result = "passed" =>
    \A k \in DOMAIN Managed :
      LET c == Managed[k] IN
      /\ Len(StoreProfiles(c)) >= 2
      /\ SameProfiles(c, Hub)
      /\ ~Repeats(StoreProfiles(c)) => SameProfiles(Hub, c)

(* A deployment, a configmap and profiles without a fault of their own. *)
Sound(c) ==
  /\ Found(Deployment(c)) /\ ~Deployment(c).deleted /\ Replicas(c) = 1
  /\ \A type \in DOMAIN Deployment(c).conditions :
       Deployment(c).conditions[type] = ExpectedStatus(type)
  /\ Parsed(c) /\ ~ConfigMap(c).deleted
  /\ \/ Deployment(c).env = ExpectedType(c)
     \/ Deployment(c).env = "unset" /\ ConfigMap(c).controller = ExpectedType(c)
  /\ Len(StoreProfiles(c)) >= 2
  /\ \A i \in DOMAIN StoreProfiles(c) :
       LET p == StoreProfiles(c)[i] IN
       /\ "" \notin {p.strings[s] : s \in Strings} \cup {p.secretName}
       /\ p.cert # "invalid"
       /\ p.secretNamespace \in {"", "own"}
       /\ Found(Secret(c, p)) /\ ~Secret(c, p).deleted
       /\ "" \notin {KeyValue(c, p, key) : key \in Keys}

(* No cluster is blamed for another one: a warning or a problem shown for  *)
(* ramen on a managed cluster means that this cluster has a fault, that    *)
(* its profiles are not the hub's, or that the hub has two profiles of one *)
(* name, of which only the first is found.  (The hub's secrets and this    *)
(* cluster's were read by two gatherings, and are compared by fingerprint.)*)
OnlyFaultyBlamed ==
  \A v \in shown :
    v.cluster # Hub /\ v.state # "ok" =>
      ~(/\ Sound(v.cluster) /\ SameProfiles(v.cluster, Hub)
        /\ Len(StoreProfiles(v.cluster)) = Len(StoreProfiles(Hub))
        /\ ~Repeats(StoreProfiles(Hub)))

(* The summary of a validation that ran to its end counts what the report  *)
(* shows, no more and no less.  (One that fails counts validations the     *)
(* report drops with the object that could not be read.)                   *)
SummaryIsShown ==
  result \in {"passed", "issues"} =>
    \A s \in States : counted[s] = Cardinality({v \in shown : v.state = s})

(* An object that cannot be read ends the validation with an error; one    *)
(* that is missing is a problem of the report.  A validation that passes   *)
(* has read both ramen objects of every cluster and every profile's secret.*)
PassedMeansRead ==
  result = "passed" =>
    \A c \in {Hub} \cup {Managed[k] : k \in DOMAIN Managed} :
      /\ Found(Deployment(c))
      /\ Found(ConfigMap(c))
      /\ \A i \in DOMAIN StoreProfiles(c) : Found(Secret(c, StoreProfiles(c)[i]))
=============================================================================
