---------------------------- MODULE ComplianceTable ----------------------------
(***************************************************************************)
(* What the policy handlers do to the compliance table of the status       *)
(* database, as operators: the diff between a bundle and the rows read,    *)
(* the batch it is turned into, and the effect of the batch.  Only one     *)
(* leaf hub's rows are concerned: every statement names the leaf hub.      *)
(*                                                                         *)
(* A table is a function from policy and cluster to the compliance, None   *)
(* when there is no row.  The object list of a bundle is a function from   *)
(* the policies listed to the compliance of each cluster, None for the     *)
(* clusters in none of the object's lists.                                 *)
(***************************************************************************)
EXTENDS Integers, FiniteSets

CONSTANTS
    Policies,
    Clusters,
    maxColumnsUpdateInStatement   \* arguments of one SQL statement

ASSUME BatchAssumption == maxColumnsUpdateInStatement \in Nat
ASSUME FiniteAssumption == IsFiniteSet(Policies) /\ IsFiniteSet(Clusters)

ComplianceStatuses == {"compliant", "non_compliant", "unknown"}
None == "none"

Table == [Policies -> [Clusters -> ComplianceStatuses \cup {None}]]

\* The object lists of bundles.
ObjectLists == UNION {[S -> [Clusters -> ComplianceStatuses \cup {None}]] : S \in SUBSET Policies}

\* The object lists of complete bundles, which leave out what is compliant.
CompleteObjects == UNION {[S -> [Clusters -> {"non_compliant", "unknown", None}]] : S \in SUBSET Policies}

\* The same value for every policy and cluster.
EveryRow(value) == [p \in Policies |-> [c \in Clusters |-> value]]

\* What the object list says of policy p and cluster c.
Listed(objects, p, c) == IF p \in DOMAIN objects THEN objects[p][c] ELSE None

------------------------------------------------------------------------------
(* Batches *)

\* A batch without statements.
EmptyBatch == [deletePolicies |-> {}, inserts |-> EveryRow(None), updatePolicies |-> {},
               deleteClusters |-> {}, updateClusters |-> EveryRow(None)]

\* The statements of a batch in the order Build queues them: deletes of policies,
\* inserts, updates of policies, deletes of clusters, updates of clusters.  An
\* update changes only rows that exist.
ExecuteBatch(rows, batch) ==
    [p \in Policies |-> [c \in Clusters |->
        LET kept     == IF p \in batch.deletePolicies THEN None ELSE rows[p][c]
            inserted == IF batch.inserts[p][c] # None THEN batch.inserts[p][c] ELSE kept
            updated  == IF inserted # None /\ p \in batch.updatePolicies
                          THEN "compliant" ELSE inserted
            left     == IF <<p, c>> \in batch.deleteClusters THEN None ELSE updated
        IN  IF left # None /\ batch.updateClusters[p][c] # None
              THEN batch.updateClusters[p][c] ELSE left]]

\* The number of rows that a field of a batch names.
CountRows(field) == Cardinality({k \in Policies \X Clusters : field[k[1]][k[2]] # None})

\* The builder starts another statement when its arguments reach the limit; the
\* arguments of the full statements are queued as one argument, which the
\* database refuses.
BatchOverflows(batch) ==
    \/ 5 * CountRows(batch.inserts) >= maxColumnsUpdateInStatement
    \/ 4 * CountRows(batch.updateClusters) >= maxColumnsUpdateInStatement
    \/ 3 * Cardinality(batch.updatePolicies) >= maxColumnsUpdateInStatement
    \/ 1 + Cardinality(batch.deletePolicies) >= maxColumnsUpdateInStatement

\* An insert of a row that exists is refused, and with it the whole batch.
BatchConflicts(rows, batch) ==
    \E p \in Policies, c \in Clusters :
        batch.inserts[p][c] # None /\ rows[p][c] # None /\ p \notin batch.deletePolicies

BatchRefused(rows, batch) == BatchOverflows(batch) \/ BatchConflicts(rows, batch)

------------------------------------------------------------------------------
(* Handlers: the batch each builds from the rows it read and the bundle *)

\* Mutant: clusters the bundle no longer lists are kept.
clustersPerPolicyBatchKeepingClusters(read, objects) ==
    [EmptyBatch EXCEPT
        !.inserts = [p \in Policies |-> [c \in Clusters |->
            IF read[p][c] = None THEN Listed(objects, p, c) ELSE None]],
        !.updateClusters = [p \in Policies |-> [c \in Clusters |->
            IF read[p][c] # None /\ read[p][c] # Listed(objects, p, c)
              THEN Listed(objects, p, c) ELSE None]],
        !.deletePolicies = {p \in Policies \ DOMAIN objects :
                                \E c \in Clusters : read[p][c] # None}]

\* Mutant: a cluster is inserted without looking for its row.
clustersPerPolicyBatchInsertingAll(read, objects) ==
    [EmptyBatch EXCEPT
        !.inserts = [p \in Policies |-> [c \in Clusters |-> Listed(objects, p, c)]],
        !.deleteClusters = {k \in (DOMAIN objects) \X Clusters :
            read[k[1]][k[2]] # None /\ objects[k[1]][k[2]] = None},
        !.deletePolicies = {p \in Policies \ DOMAIN objects :
                                \E c \in Clusters : read[p][c] # None}]

\* handleClustersPerPolicyBundle: rows are inserted, updated and deleted so that
\* they become the bundle.
clustersPerPolicyBatch(read, objects) ==
    [EmptyBatch EXCEPT
        !.inserts = [p \in Policies |-> [c \in Clusters |->
            IF read[p][c] = None THEN Listed(objects, p, c) ELSE None]],
        !.updateClusters = [p \in Policies |-> [c \in Clusters |->
            IF read[p][c] # None /\ read[p][c] # Listed(objects, p, c)
              THEN Listed(objects, p, c) ELSE None]],
        !.deleteClusters = {k \in (DOMAIN objects) \X Clusters :
            read[k[1]][k[2]] # None /\ objects[k[1]][k[2]] = None},
        !.deletePolicies = {p \in Policies \ DOMAIN objects :
                                \E c \in Clusters : read[p][c] # None}]

\* The rows GetNonCompliantClustersByLeafHub returns.
NonCompliantRows(rows) ==
    [p \in Policies |-> [c \in Clusters |->
        IF rows[p][c] = "compliant" THEN None ELSE rows[p][c]]]

\* Mutant: policies the bundle does not list are left as they are.
completeComplianceBatchOfListed(read, objects) ==
    [EmptyBatch EXCEPT
        !.updateClusters = [p \in Policies |-> [c \in Clusters |->
            IF Listed(objects, p, c) # None
              THEN IF read[p][c] # Listed(objects, p, c) THEN Listed(objects, p, c) ELSE None
              ELSE IF p \in DOMAIN objects /\ read[p][c] # None THEN "compliant" ELSE None]]]

\* handleCompleteComplianceBundle: the bundle lists what is not compliant, the
\* other rows become compliant.  read holds the rows that are not compliant.
completeComplianceBatch(read, objects) ==
    [EmptyBatch EXCEPT
        !.updateClusters = [p \in Policies |-> [c \in Clusters |->
            IF Listed(objects, p, c) # None
              THEN IF read[p][c] # Listed(objects, p, c) THEN Listed(objects, p, c) ELSE None
              ELSE IF p \in DOMAIN objects /\ read[p][c] # None THEN "compliant" ELSE None]],
        !.updatePolicies = {p \in Policies \ DOMAIN objects :
                                \E c \in Clusters : read[p][c] # None}]

\* handleDeltaComplianceBundle: the clusters listed are updated as they are.
deltaComplianceBatch(objects) ==
    [EmptyBatch EXCEPT
        !.updateClusters = [p \in Policies |-> [c \in Clusters |-> Listed(objects, p, c)]]]

------------------------------------------------------------------------------
(* Delta bundles *)

\* Mutant: the older bundle wins.
inheritObjectsOlderFirst(objects, oldObjects) ==
    [p \in (DOMAIN objects) \cup (DOMAIN oldObjects) |-> [c \in Clusters |->
        IF Listed(oldObjects, p, c) # None THEN oldObjects[p][c] ELSE Listed(objects, p, c)]]

\* inheritObjects: the older objects fill in the policies and clusters that the
\* bundle does not list itself.
inheritObjects(objects, oldObjects) ==
    [p \in (DOMAIN objects) \cup (DOMAIN oldObjects) |-> [c \in Clusters |->
        IF Listed(objects, p, c) # None THEN objects[p][c] ELSE Listed(oldObjects, p, c)]]
==============================================================================
