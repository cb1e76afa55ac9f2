---------------------------- MODULE ClustersHTML ----------------------------
(***************************************************************************)
(* What the HTML page of `validate clusters` makes of the report that      *)
(* ClustersStatus fills: fields that are left out, and foldable sections   *)
(* that are open or closed when the page is loaded.                        *)
(***************************************************************************)
EXTENDS ClustersStatus, Sections

Section(cluster, kind, at) == [cluster |-> cluster, kind |-> kind, at |-> at]

SecretParts == {"secretName", "secretNamespace", "secretDeleted", "secretKeys"}

ProfileParts == SecretParts \cup {"strings", "caCertificate"}

(* The foldable section a validation is in, if any. *)
SectionsOf(v) ==
  CASE v.section = "drpolicies" /\ v.key = "peerClasses" -> {Section(Hub, "peerClasses", v.at)}
    [] v.section \in {"drpolicies", "drclusters"} /\ v.key \notin {"peerClasses", "list"} ->
         {Section(Hub, v.section, v.at)}
    [] v.section = "conditions" -> {Section(v.cluster, "conditions", 0)}
    [] v.section \in ProfileParts \/ v.key = "s3StoreProfiles" -> {Section(v.cluster, "profiles", 0)}
    [] OTHER -> {}

(* The states of some fields of an item. *)
StatesOf(cluster, sections, at) ==
  {v.state : v \in {w \in shown : w.cluster = cluster /\ w.section \in sections /\ w.at = at}}

(* The state of the list of profiles itself, "" until the list is complete. *)
ListState(c) ==
  Aggregate({v.state : v \in {w \in shown : w.cluster = c /\ w.key = "s3StoreProfiles"}})

SecretState(c, i) == Aggregate(StatesOf(c, SecretParts, i))

(* Faulty ProfileState: the fields of the secret are forgotten. *)
ProfileStateNoSecret(c, i) == Aggregate(StatesOf(c, ProfileParts \ SecretParts, i))

ProfileState(c, i) ==
  SignificantState(Aggregate(StatesOf(c, ProfileParts \ SecretParts, i)), SecretState(c, i))

(* AggregateState of the value the template asks about. *)
SectionState(s) ==
  CASE s.kind = "peerClasses" ->
         Aggregate({v.state : v \in {w \in shown : w.section = "drpolicies" /\ w.at = s.at
                                                     /\ w.key = "peerClasses"}})
    [] s.kind \in {"drpolicies", "drclusters"} ->
         Aggregate({v.state : v \in {w \in shown : w.section = s.kind /\ w.at = s.at
                                                     /\ w.key \notin {"peerClasses", "list"}}})
    [] s.kind = "conditions" -> Aggregate(StatesOf(s.cluster, {"conditions"}, 0))
    [] s.kind = "profiles" ->
         SignificantState(ListState(s.cluster),
           Aggregate({ProfileState(s.cluster, i) : i \in DOMAIN StoreProfiles(s.cluster)}))

ShouldOpen(s) == IsIssue(SectionState(s))

(* Some fields are left out unless they are a problem, and the profiles    *)
(* are left out with the state of their list.                              *)
Rendered(v) ==
  /\ v.key \in {"deleted", "parsed"} \/ v.section = "secretDeleted" => v.state = "problem"
  /\ v.section \in ProfileParts => ListState(v.cluster) # ""
-----------------------------------------------------------------------------
(* A secret of the hub could not be read: the list has no state.           *)
ProfilesIncomplete ==
  \E i \in DOMAIN StoreProfiles(Hub) : Unreadable(Secret(Hub, StoreProfiles(Hub)[i]))

(* The page hides no issue and raises no false alarm: a section is open    *)
(* exactly when a validation in it is an issue, and every issue of the     *)
(* report is on the page - but for issues of the hub's profiles when the   *)
(* secret of one of them could not be read.  ("Sections are open only when *)
(* they have issues", html.go; each type adds up the states of its fields.)*)
IssuesAreOpen ==
  pc = "done" =>
    /\ \A s \in UNION {SectionsOf(v) : v \in shown} :
         ShouldOpen(s) <=> \E v \in shown : s \in SectionsOf(v) /\ IsIssue(v.state)
    /\ \A v \in shown :
         IsIssue(v.state) =>
           Rendered(v) \/ (v.cluster = Hub /\ v.section \in ProfileParts /\ ProfilesIncomplete)
=============================================================================
