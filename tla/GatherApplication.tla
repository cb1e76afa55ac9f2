------------------------- MODULE GatherApplication --------------------------
(***************************************************************************)
(* `ramenctl gather application` (pkg/gather): any operation that does not *)
(* pass ends the gathering.                                                *)
(***************************************************************************)
EXTENDS Stages

(* inspectS3Profiles: the secrets of the live hub, then the prefix of the  *)
(* gathered DRPC.                                                          *)
GatherInspectS3 ==
  \/ ReadProfiles
  \/ pc = "read profiles" /\ InspectedS3("error", "finish")
  \/ \E p \in Profiles : ReadSecret(p)
  \/ /\ pc = "read secrets"
     /\ pending # {}
     /\ canceled
     /\ InspectedS3("canceled", "finish")
  \/ /\ pc = "read secrets"
     /\ pending = {}
     /\ \/ InspectedS3(Nil, "S3")
        \/ InspectedS3("error", "finish")

(* Faulty gatherApplicationS3Data: true although there were errors. *)
GatherS3DoneTrue ==
  ProfilesDone(IF current.status = Canceled THEN "finish" ELSE "finish passed")

(* gatherApplicationS3Data: true only if all profiles were gathered. *)
GatherS3Done ==
  ProfilesDone(IF current.status \in {Canceled, Failed} THEN "finish" ELSE "finish passed")

GatherApplication ==
  \/ ValidateConfigThen("inspect application")
  \/ InspectApplication
  \/ (\E c \in Clusters : ReceiveCluster(c)) \/ ClustersDone
  \/ GatherInspectS3
  \/ (\E p \in Profiles : ReceiveProfile(p)) \/ GatherS3Done
  \/ Ended
=============================================================================
