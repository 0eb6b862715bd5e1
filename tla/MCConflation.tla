----------------------------- MODULE MCConflation -----------------------------
(***************************************************************************)
(* Instances of Conflation for TLC: the compliance bundles of the policies *)
(* database syncer, registered as RegisterBundleHandlerFunctions does.     *)
(***************************************************************************)
EXTENDS ConflationRefinement

CONSTANTS h1, w1

MCTypes == {"ClustersPerPolicy", "CompleteCompliance", "DeltaCompliance"}

MCPriority == [t \in Types |-> CASE t = "ClustersPerPolicy" -> 0
                                 [] t = "CompleteCompliance" -> 1
                                 [] t = "DeltaCompliance" -> 2]
MCSyncMode == [t \in Types |-> IF t = "DeltaCompliance" THEN "delta" ELSE "complete"]
MCDependency == [t \in Types |-> CASE t = "ClustersPerPolicy" -> Nil
                                   [] t = "CompleteCompliance" -> "ClustersPerPolicy"
                                   [] t = "DeltaCompliance" -> "CompleteCompliance"]
MCDependencyType == [t \in Types |-> "ExactMatch"]

\* Bundle with version (i, g) built on the base version (j, k).
B(i, g, j, k) == [ver |-> NewBundleVersion(i, g), dep |-> NewBundleVersion(j, k)]

\* Two versions of each complete type, the second one of a restarted sender
\* for the base, and deltas of two lines.
MCDeliverable == [t \in Types |->
    CASE t = "ClustersPerPolicy"  -> {B(0, 1, 0, 0), B(1, 0, 0, 0)}
      [] t = "CompleteCompliance" -> {B(0, 1, 0, 1), B(0, 2, 1, 0)}
      [] t = "DeltaCompliance"    -> {B(0, 1, 0, 1), B(0, 2, 0, 1), B(0, 3, 0, 2)}]

OneHub == {h1}
OneWorker == {w1}
==============================================================================
