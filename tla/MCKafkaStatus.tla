---------------------------- MODULE MCKafkaStatus ----------------------------
(***************************************************************************)
(* Instances of KafkaStatus for TLC, with the compliance bundle types.     *)
(***************************************************************************)
EXTENDS KafkaStatus, ConflationRefinement

CONSTANTS h1, w1

MCTypes == {"ClustersPerPolicy", "CompleteCompliance", "DeltaCompliance"}

MCPriority == [t \in Types |-> CASE t = "ClustersPerPolicy" -> 0
                                 [] t = "CompleteCompliance" -> 1
                                 [] t = "DeltaCompliance" -> 2]
MCSyncMode == [t \in Types |-> IF t = "DeltaCompliance" THEN "delta" ELSE "complete"]
MCDependency == [t \in Types |-> CASE t = "ClustersPerPolicy" -> Nil
                                   [] t = "CompleteCompliance" -> "ClustersPerPolicy"
                                   [] t = "DeltaCompliance" -> "CompleteCompliance"]
MCDependencyType == [t \in Types |-> "ExactMatch"]

\* Not used: the consumer delivers the log.
MCDeliverable == [t \in Types |-> {}]

OneHub == {h1}
OneWorker == {w1}
==============================================================================
