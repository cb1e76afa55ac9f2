-------------------------- MODULE ValidateClusters --------------------------
(***************************************************************************)
(* `ramenctl validate clusters` (pkg/validate/clusters): there is no       *)
(* application to inspect, and S3 is only checked.                         *)
(***************************************************************************)
EXTENDS ValidateData

(* inspectS3Profiles reads the profiles only. *)
InspectClustersS3 == InspectS3Then(FALSE)

(* checkS3. *)
CheckS3 == S3Done

(* The hub, the managed clusters, then S3. *)
ValidateClustersData == ValidateGatheredData

ValidateClusters ==
  \/ ValidateConfigThen("gather")
  \/ (\E c \in Clusters : ReceiveCluster(c)) \/ ClustersDone
  \/ InspectClustersS3
  \/ (\E p \in Profiles : ReceiveProfile(p)) \/ CheckS3
  \/ ValidateClustersData
  \/ Ended
=============================================================================
