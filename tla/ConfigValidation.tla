-------------------------- MODULE ConfigValidation --------------------------
(***************************************************************************)
(* The configuration of gather and validate: read from a file, then        *)
(* validated against the live clusters, with one timeout for all requests. *)
(* The distribution (k8s or OpenShift) and with it ramen's namespaces may  *)
(* be left to be detected.  Stages has the outcome of this as one step.    *)
(***************************************************************************)
EXTENDS Naturals, Sequences

CONSTANTS
  Hub,                    \* the hub
  C1, C2,                 \* the managed clusters
  PassiveHub              \* a second hub, which an environment may have

ASSUME ConfigAssumption ==
  Hub # C1 /\ Hub # C2 /\ C1 # C2 /\ PassiveHub \notin {Hub, C1, C2}

Managed == {C1, C2}

VARIABLES
  file,                   \* the file: its distro, the clusters that have a kubeconfig
  clusters,               \* the clusters of the environment, in the order they are probed
  real,                   \* the distribution each of them has
  members,                \* the clusters the cluster set has on the hub
  created,                \* the cluster set exists
  existed,                \* it existed, now or before
  met,                    \* both managed clusters were members, when or after it existed
  ctx,                    \* the timed context: "live", "expired" or "canceled"
  pc,                     \* the stage
  config,                 \* the shared configuration
  detected,               \* the distribution of the clusters probed so far
  probed,                 \* how many clusters were probed
  result                  \* "none", "passed", "failed" or "canceled"

cluster == <<clusters, real>>
hub == <<members, created, existed, met>>
vars == <<file, cluster, hub, ctx, pc, config, detected, probed, result>>

Distros == {"k8s", "ocp"}

(* Namespaces are those of a distribution.  Where none is known, or given,  *)
(* the code has the empty string: "unset" here.                            *)
NoConfig == [distro |-> "unset", namespaces |-> "unset"]

Required == {Hub} \cup Managed

Init ==
  /\ file \in [distro : Distros \cup {"unset", "other"}, kubeconfigs : {Required} \cup
                 {Required \ {c} : c \in Required}]
  /\ clusters \in {<<Hub, C1, C2>>, <<Hub, C1, C2, PassiveHub>>}
  /\ real \in [DOMAIN clusters -> Distros]
  /\ members \in SUBSET Managed
  /\ created \in BOOLEAN
  /\ existed = created
  /\ met = (created /\ members = Managed)
  /\ ctx = "live"
  /\ pc = "read"
  /\ config = NoConfig
  /\ detected = "unset"
  /\ probed = 0
  /\ result = "none"
-----------------------------------------------------------------------------
Stop(answer) == pc' = "done" /\ result' = answer

Go(to) == pc' = to /\ UNCHANGED result

(* ReadConfig: the distribution is checked first, then the clusters. *)
ReadConfig ==
  /\ pc = "read"
  /\ IF file.distro \in Distros \cup {"unset"} /\ file.kubeconfigs = Required
     THEN /\ config' = [distro |-> file.distro, namespaces |-> file.distro]
          /\ Go("detect")
     ELSE UNCHANGED config /\ Stop("failed")
  /\ UNCHANGED <<file, cluster, hub, ctx, detected, probed>>

(* Faulty SetDistro: the namespaces are left as they were. *)
SetDistroOnly(distro) == config' = [config EXCEPT !.distro = distro]

SetDistro(distro) == config' = [distro |-> distro, namespaces |-> distro]

(* The distribution the user gave is taken as it is. *)
SkipDetection ==
  /\ pc = "detect" /\ config.distro # "unset"
  /\ Go("get")
  /\ UNCHANGED <<file, cluster, hub, ctx, config, detected, probed>>

(* Faulty Probed: the configuration follows the first cluster at once. *)
ProbedAtOnce(distro) ==
  /\ detected' = distro
  /\ probed' = probed + 1
  /\ IF detected \notin {"unset", distro} THEN Stop("failed") /\ UNCHANGED config
     ELSE /\ IF probed' = Len(clusters) THEN Go("get") ELSE Go("probe")
          /\ SetDistro(distro)

(* A cluster's distribution is known: it must be that of the ones before.  *)
(* The configuration is set behind the last one.                           *)
Probed(distro) ==
  /\ detected' = distro
  /\ probed' = probed + 1
  /\ IF detected \notin {"unset", distro} THEN Stop("failed") /\ UNCHANGED config
     ELSE IF probed' = Len(clusters) THEN Go("get") /\ SetDistro(distro)
     ELSE Go("probe") /\ UNCHANGED config

Probing == (pc = "detect" /\ config.distro = "unset") \/ pc = "probe"

(* A cluster has a resource type of OpenShift, or its API says "no match": *)
(* the discovery of its types, which does not look at the context.         *)
ProbeDistro ==
  /\ Probing
  /\ ctx = "live" \/ real[probed + 1] = "k8s"
  /\ Probed(real[probed + 1])
  /\ UNCHANGED <<file, cluster, hub, ctx>>

(* Faulty SetFound: any answer of the server will do. *)
SetAnswered == TRUE

SetFound == created

(* The cluster set must exist; its clusters are listed by label. *)
GetClusterSet ==
  /\ pc = "get"
  /\ ctx = "live"
  /\ IF SetFound THEN Go("list") ELSE Stop("failed")
  /\ UNCHANGED <<file, cluster, hub, ctx, config, detected, probed>>

AllMembers == Managed \subseteq members

ListManagedClusters ==
  /\ pc = "list"
  /\ ctx = "live"
  /\ Stop(IF AllMembers THEN "passed" ELSE "failed")
  /\ UNCHANGED <<file, cluster, hub, ctx, config, detected, probed>>
-----------------------------------------------------------------------------
(* A request waits for its server as long as the context allows.           *)

Requesting == Probing \/ pc \in {"get", "list"}

(* The server, or the way to it, fails; that of a discovery, also when the *)
(* context is done.                                                        *)
RequestFails ==
  /\ Requesting /\ (ctx = "live" \/ Probing)
  /\ Stop("failed")
  /\ UNCHANGED <<file, cluster, hub, ctx, config, detected, probed>>

(* The context of a request is done.  Its error is passed on with its      *)
(* cause, so that FailStep tells a Ctrl-C from the timeout.                *)
RequestCut ==
  /\ Requesting /\ ctx # "live"
  /\ Stop(IF ctx = "canceled" THEN "canceled" ELSE "failed")
  /\ UNCHANGED <<file, cluster, hub, ctx, config, detected, probed>>

(* Faulty Deadline: the context with the timeout is not passed on. *)
NoDeadline == UNCHANGED ctx

Deadline == ctx' = "expired"

(* The timeout, which starts with the validation. *)
Expire ==
  /\ pc \notin {"read", "done"}
  /\ ctx = "live"
  /\ Deadline
  /\ UNCHANGED <<file, cluster, hub, pc, config, detected, probed, result>>

Interrupt ==
  /\ pc \notin {"read", "done"}
  /\ ctx = "live"
  /\ ctx' = "canceled"
  /\ UNCHANGED <<file, cluster, hub, pc, config, detected, probed, result>>

(* Somebody changes the cluster set on the hub. *)
ChangeClusterSet ==
  /\ pc # "done"
  /\ \/ /\ members' \in SUBSET Managed
        /\ UNCHANGED created
     \/ created' = ~created /\ UNCHANGED members
  /\ existed' = (existed \/ created')
  /\ met' = (met \/ (existed' /\ members' = Managed))
  /\ UNCHANGED <<file, cluster, ctx, pc, config, detected, probed, result>>

Next ==
  \/ ReadConfig
  \/ SkipDetection
  \/ ProbeDistro
  \/ GetClusterSet
  \/ ListManagedClusters
  \/ RequestFails
  \/ RequestCut
  \/ Expire
  \/ Interrupt
  \/ ChangeClusterSet

(* The program runs and the timer fires; a server may never answer. *)
Fairness ==
  /\ WF_vars(ReadConfig \/ SkipDetection)
  /\ WF_vars(RequestCut)
  /\ WF_vars(Expire)

Spec == Init /\ [][Next]_vars /\ Fairness
-----------------------------------------------------------------------------
(* Values the variables range over; the namespaces are those of the distro.*)
TypeOK ==
  /\ created \in BOOLEAN /\ (created => existed) /\ members \subseteq Managed
  /\ ctx \in {"live", "expired", "canceled"}
  /\ pc \in {"read", "detect", "probe", "get", "list", "done"}
  /\ config.distro \in Distros \cup {"unset"} /\ config.namespaces = config.distro
  /\ detected \in Distros \cup {"unset"}
  /\ probed \in 0..Len(clusters) /\ (probed = 0 <=> detected = "unset")
  /\ result \in {"none", "passed", "failed", "canceled"}
  /\ pc = "done" <=> result # "none"
  /\ result = "canceled" => ctx = "canceled"

(* The configuration is what the file says, or what all the clusters, the  *)
(* passive hub included, agree on: never the distribution of some of them. *)
(* (It is shared with the report, and names the namespaces to gather.)     *)
AllOrNothing ==
  /\ config.distro \notin {"unset", file.distro} =>
       \A i \in DOMAIN clusters : real[i] = config.distro
  /\ pc \in {"get", "list"} \/ result = "passed" => config.distro # "unset"

(* A configuration passes only if the cluster set existed, and both        *)
(* managed clusters were in it at one moment, then or later.  (The set and *)
(* its clusters are read in two requests: at the second one the set may be *)
(* gone, so that no moment need have had both.)                            *)
PassedMeansMembers == result = "passed" => met

(* The validation ends even if a server never answers: the timeout reaches *)
(* every request.                                                          *)
Ends == <>(pc = "done")
=============================================================================
