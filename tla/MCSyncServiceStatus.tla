------------------------- MODULE MCSyncServiceStatus -------------------------
(***************************************************************************)
(* Instance of SyncServiceStatus for TLC: two leaf hubs and the first two  *)
(* bundle types of the policies database syncer.                           *)
(***************************************************************************)
EXTENDS SyncServiceStatus

CONSTANTS h1, h2, w1, w2

MCTypes == {"ClustersPerPolicy", "CompleteCompliance"}
MCPriority == [t \in Types |-> IF t = "ClustersPerPolicy" THEN 0 ELSE 1]
MCSyncMode == [t \in Types |-> "complete"]
MCDependency == [t \in Types |-> IF t = "ClustersPerPolicy" THEN Nil ELSE "ClustersPerPolicy"]
MCDependencyType == [t \in Types |-> "ExactMatch"]

\* Not used: the service delivers its objects.
MCDeliverable == [t \in Types |-> {}]

TwoHubs == {h1, h2}
TwoWorkers == {w1, w2}

\* Three objects of one leaf hub, or one of each.
MCBudgets == {[h \in Hubs |-> IF h = h1 THEN 3 ELSE 0], [h \in Hubs |-> 1]}
==============================================================================
