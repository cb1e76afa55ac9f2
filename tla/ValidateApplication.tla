------------------------ MODULE ValidateApplication -------------------------
(***************************************************************************)
(* `ramenctl validate application` (pkg/validate/application).             *)
(***************************************************************************)
EXTENDS ValidateData

(* inspectS3Profiles reads the profiles and the prefix of the DRPC. *)
InspectApplicationS3 == InspectS3Then(TRUE)

(* Faulty gatherS3Profiles: a cancellation is taken for a failure. *)
GatherS3ProfilesAnyway == ProfilesDone("validate data")

(* gatherS3Profiles. *)
GatherS3Profiles == S3Done

(* The hub, the primary cluster, the secondary cluster, then S3. *)
ValidateApplicationData == ValidateGatheredData

ValidateApplication ==
  \/ ValidateConfigThen("inspect application")
  \/ InspectApplication
  \/ (\E c \in Clusters : ReceiveCluster(c)) \/ ClustersDone
  \/ InspectApplicationS3
  \/ (\E p \in Profiles : ReceiveProfile(p)) \/ GatherS3Profiles
  \/ ValidateApplicationData
  \/ Ended
=============================================================================
