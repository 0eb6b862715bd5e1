---------------------------- MODULE ComplianceStatus ----------------------------
(***************************************************************************)
(* The policy compliance of one leaf hub, from the leaf hub to the rows of *)
(* the status database, through the handlers of the policies syncer.       *)
(*                                                                         *)
(* The conflation layer is represented by what it promises its handlers    *)
(* (modules Conflation and KafkaStatus): at most one pending bundle of a   *)
(* kind, the newest one, deltas on one base merged; a handler runs when    *)
(* its base is the last one processed; one handler of the hub at a time.   *)
(* A complete-state bundle stays pending until its handler succeeded.  A   *)
(* pack of deltas is taken out when its handler starts; when that fails    *)
(* the pack is put back, unless another delta arrived meanwhile: then it   *)
(* is dropped.                                                             *)
(*                                                                         *)
(* SendBatch is one transaction.  Reads do not report errors: a read that  *)
(* fails or breaks off returns the rows seen so far, and the handler goes  *)
(* on with them.                                                           *)
(***************************************************************************)
EXTENDS ComplianceTable

CONSTANTS
    MaxSteps,           \* bound on the leaf hub's steps, for TLC
    Reported,           \* bound on the compliance that clusters have, for TLC
    Nil

ASSUME ComplianceAssumption == MaxSteps \in Nat /\ Reported \subseteq ComplianceStatuses

\* The counters a minimal bundle lists, per policy that has clusters.
Counter == 0..Cardinality(Clusters)
SummaryLists == UNION {[S -> Counter \X Counter] : S \in SUBSET Policies}

\* The bundles of all kinds.
Bundle == [ver : Nat, base : Nat, objects : ObjectLists \cup SummaryLists]

ASSUME NilAssumption == Nil \notin Bundle

VARIABLES
    aggregationLevel, \* configuration: "full" or "minimal", never changed
    truth,           \* leaf hub: the compliance of its policies and clusters
    changed,         \* leaf hub: rows that changed since it last reported them
    owesComplete,    \* leaf hub: clusters changed since the last complete bundle
    sent,            \* leaf hub: the last version of each kind of bundle
    steps,
    pending,         \* conflation unit: the pending bundle of each kind, or Nil
    inProcess,       \* conflation unit: the pack of deltas whose handler runs, or Nil
    lastProcessed,   \* conflation unit: the last version of each kind
    rows,            \* status.compliance, of this leaf hub
    minimalRows,     \* status.aggregated_compliance, of this leaf hub
    writtenClusters, \* the last object list that decided which rows there are
    brokenReads,     \* the kinds whose last batch was built from a broken read
    conflicted,      \* whether a batch built from a complete read inserted a row there is
    droppedRows      \* the rows last reported by a pack of deltas that was dropped

hubVars == <<aggregationLevel, truth, changed, owesComplete, sent, steps>>
unitVars == <<pending, inProcess, lastProcessed>>
dbVars == <<rows, minimalRows, writtenClusters, brokenReads, conflicted, droppedRows>>
vars == <<hubVars, unitVars, dbVars>>

Kinds == {"clustersPerPolicy", "completeCompliance", "deltaCompliance", "minimalCompliance"}

\* The counters of the aggregated table for policy p, Nil when it has no cluster.
Summary(table, p) ==
    LET applied == {c \in Clusters : table[p][c] # None}
    IN  IF applied = {} THEN Nil
          ELSE <<Cardinality(applied), Cardinality({c \in applied : table[p][c] # "compliant"})>>

------------------------------------------------------------------------------
(* Leaf hub, external *)

\* A bundle replaces the pending one of its kind.
Deliver(kind, bundle) == pending' = [pending EXCEPT ![kind] = bundle]

LeafHubStep ==
    /\ steps < MaxSteps
    /\ steps' = steps + 1
    /\ UNCHANGED <<aggregationLevel, inProcess, lastProcessed, dbVars>>

\* A cluster joins or leaves a policy.  The bundle lists every policy that has
\* clusters, and may list others without any.
ChangeClusters(p, c, compliance) ==
    /\ LeafHubStep
    /\ (truth[p][c] = None) # (compliance = None)
    /\ truth' = [truth EXCEPT ![p][c] = compliance]
    /\ owesComplete' = TRUE
    /\ UNCHANGED changed
    /\ IF aggregationLevel = "full"
         THEN /\ sent' = [sent EXCEPT !["clustersPerPolicy"] = @ + 1]
              /\ \E S \in {Policies, {q \in Policies : \E d \in Clusters : truth'[q][d] # None}} :
                   Deliver("clustersPerPolicy",
                       [ver |-> sent["clustersPerPolicy"] + 1, base |-> 0,
                        objects |-> [q \in S |-> truth'[q]]])
         ELSE UNCHANGED <<sent, pending>>

ChangeCompliance(p, c, compliance) ==
    /\ LeafHubStep
    /\ truth[p][c] # None /\ compliance # None /\ truth[p][c] # compliance
    /\ truth' = [truth EXCEPT ![p][c] = compliance]
    /\ changed' = changed \cup {<<p, c>>}
    /\ UNCHANGED <<owesComplete, sent, pending>>

\* A complete bundle lists only the policies and clusters that are not compliant.
SendComplete ==
    LET open == NonCompliantRows(truth)
        S == {p \in Policies : \E c \in Clusters : open[p][c] # None}
    IN  /\ LeafHubStep
        /\ aggregationLevel = "full"
        /\ changed # {} \/ owesComplete
        /\ sent' = [sent EXCEPT !["completeCompliance"] = @ + 1]
        /\ Deliver("completeCompliance",
            [ver |-> sent["completeCompliance"] + 1, base |-> sent["clustersPerPolicy"],
             objects |-> [p \in S |-> open[p]]])
        /\ changed' = {}
        /\ owesComplete' = FALSE
        /\ UNCHANGED truth

\* The rows that changed, listed by their new compliance.
ChangedObjects ==
    [p \in {k[1] : k \in changed} |-> [c \in Clusters |->
        IF <<p, c>> \in changed THEN truth[p][c] ELSE None]]

\* A pending delta is merged into one on the same base and dropped otherwise.
SendDelta ==
    LET old == pending["deltaCompliance"]
        base == sent["completeCompliance"]
    IN  /\ LeafHubStep
        /\ aggregationLevel = "full"
        /\ changed # {} /\ ~owesComplete
        /\ sent' = [sent EXCEPT !["deltaCompliance"] = @ + 1]
        /\ Deliver("deltaCompliance",
            [ver |-> sent["deltaCompliance"] + 1, base |-> base,
             objects |-> IF old # Nil /\ old.base = base
                           THEN inheritObjects(ChangedObjects, old.objects)
                           ELSE ChangedObjects])
        /\ changed' = {}
        /\ UNCHANGED <<truth, owesComplete>>

SendMinimal ==
    /\ LeafHubStep
    /\ aggregationLevel = "minimal"
    /\ changed # {} \/ owesComplete
    /\ sent' = [sent EXCEPT !["minimalCompliance"] = @ + 1]
    /\ Deliver("minimalCompliance",
        [ver |-> sent["minimalCompliance"] + 1, base |-> 0,
         objects |-> [p \in {q \in Policies : Summary(truth, q) # Nil} |-> Summary(truth, p)]])
    /\ changed' = {}
    /\ owesComplete' = FALSE
    /\ UNCHANGED truth

------------------------------------------------------------------------------
(* Handlers *)

\* What a read of the table may return: the table, or the rows seen before it broke.
ReadRows(table) ==
    {table} \cup {[p \in Policies |-> [c \in Clusters |->
                      IF <<p, c>> \in seen THEN table[p][c] ELSE None]] :
                        seen \in SUBSET (Policies \X Clusters)}

\* One handler of the leaf hub's bundles runs at a time.
IsIdle == inProcess = Nil

\* The bundle of the kind is released and its version remembered, unless the
\* acknowledgement of the write was lost.
Report(kind, acknowledged) ==
    IF acknowledged
      THEN /\ lastProcessed' = [lastProcessed EXCEPT ![kind] = pending[kind].ver]
           /\ pending' = [pending EXCEPT ![kind] = Nil]
      ELSE UNCHANGED <<lastProcessed, pending>>

\* The batch is executed as one transaction or refused.
SendBatch(kind, batch, readIsComplete, acknowledged) ==
    IF BatchRefused(rows, batch)
      THEN /\ conflicted' = (conflicted \/ (readIsComplete /\ BatchConflicts(rows, batch)))
           /\ UNCHANGED <<rows, lastProcessed, pending, writtenClusters, brokenReads, droppedRows>>
      ELSE /\ rows' = ExecuteBatch(rows, batch)
           /\ writtenClusters' = IF kind = "clustersPerPolicy" THEN pending[kind].objects
                                                              ELSE writtenClusters
           /\ brokenReads' = IF readIsComplete THEN brokenReads \ {kind}
                                              ELSE brokenReads \cup {kind}
           /\ droppedRows' = IF kind = "completeCompliance" THEN {} ELSE droppedRows
           /\ Report(kind, acknowledged)
           /\ UNCHANGED conflicted

handleClustersPerPolicyBundle(acknowledged) ==
    /\ IsIdle /\ pending["clustersPerPolicy"] # Nil
    /\ \E read \in ReadRows(rows) :
        SendBatch("clustersPerPolicy",
            clustersPerPolicyBatch(read, pending["clustersPerPolicy"].objects),
            read = rows, acknowledged)
    /\ UNCHANGED <<hubVars, inProcess, minimalRows>>

handleCompleteComplianceBundle(acknowledged) ==
    /\ IsIdle /\ pending["completeCompliance"] # Nil
    /\ pending["completeCompliance"].base = lastProcessed["clustersPerPolicy"]
    /\ \E read \in ReadRows(NonCompliantRows(rows)) :
        SendBatch("completeCompliance",
            completeComplianceBatch(read, pending["completeCompliance"].objects),
            read = NonCompliantRows(rows), acknowledged)
    /\ UNCHANGED <<hubVars, inProcess, minimalRows>>

\* GetNext gives the pack of deltas to a worker; later deltas start another pack.
GetNextDelta ==
    /\ IsIdle /\ pending["deltaCompliance"] # Nil
    /\ pending["deltaCompliance"].base = lastProcessed["completeCompliance"]
    /\ inProcess' = pending["deltaCompliance"]
    /\ pending' = [pending EXCEPT !["deltaCompliance"] = Nil]
    /\ UNCHANGED <<hubVars, lastProcessed, dbVars>>

\* handleFailure: the failed pack is pending again.  It is irrelevant, for the code,
\* when another delta arrived: that one starts the line anew, its pack being empty.
handleFailure(failed) ==
    [pending EXCEPT !["deltaCompliance"] = IF @ = Nil THEN failed ELSE @]

\* The rows that a bundle names.
RowsOf(bundle) == {k \in Policies \X Clusters : Listed(bundle.objects, k[1], k[2]) # None}

\* The pack is written or not, and the conflation unit is told that it was or not.
handleDeltaComplianceBundle(written, acknowledged) ==
    LET batch == deltaComplianceBatch(inProcess.objects)
        isDropped == ~acknowledged /\ pending["deltaCompliance"] # Nil
    IN  /\ ~IsIdle
        /\ written => ~BatchRefused(rows, batch)
        /\ acknowledged => written
        /\ rows' = IF written THEN ExecuteBatch(rows, batch) ELSE rows
        /\ droppedRows' = IF written THEN droppedRows \ RowsOf(inProcess)
                            ELSE IF isDropped THEN droppedRows \cup RowsOf(inProcess)
                            ELSE droppedRows
        /\ pending' = IF acknowledged THEN pending ELSE handleFailure(inProcess)
        /\ lastProcessed' = IF acknowledged
                              THEN [lastProcessed EXCEPT !["deltaCompliance"] = inProcess.ver]
                              ELSE lastProcessed
        /\ inProcess' = Nil
        /\ UNCHANGED <<hubVars, minimalRows, writtenClusters, brokenReads, conflicted>>

\* Mutant: the policies no longer reported are not deleted.
minimalRowsAfterUpdates(objects, updated, deleted) ==
    [p \in Policies |-> IF p \in updated THEN objects[p] ELSE minimalRows[p]]

\* The aggregated rows after some of the upserts and deletes were executed.
minimalRowsAfter(objects, updated, deleted) ==
    [p \in Policies |-> CASE p \in updated -> objects[p]
                          [] p \in deleted -> Nil
                          [] OTHER -> minimalRows[p]]

\* A statement per policy and no transaction: first an upsert for each policy of
\* the bundle, then a delete for each policy read that is not in it.  An error
\* ends the handler after some of them.
handleMinimalComplianceBundle ==
    /\ IsIdle /\ pending["minimalCompliance"] # Nil
    /\ LET objects == pending["minimalCompliance"].objects
           stale == {p \in Policies \ DOMAIN objects : minimalRows[p] # Nil}
       IN  \E read \in SUBSET stale, updated \in SUBSET DOMAIN objects :
           \E deleted \in SUBSET read :
             /\ deleted # {} => updated = DOMAIN objects
             /\ minimalRows' = minimalRowsAfter(objects, updated, deleted)
             /\ Report("minimalCompliance", updated = DOMAIN objects /\ deleted = read)
             /\ brokenReads' = IF read = stale THEN brokenReads \ {"minimalCompliance"}
                                              ELSE brokenReads \cup {"minimalCompliance"}
    /\ UNCHANGED <<hubVars, inProcess, rows, writtenClusters, conflicted, droppedRows>>

------------------------------------------------------------------------------
Init ==
    /\ aggregationLevel \in {"full", "minimal"}
    /\ truth = EveryRow(None)
    /\ changed = {}
    /\ owesComplete = FALSE
    /\ sent = [k \in Kinds |-> 0]
    /\ steps = 0
    /\ pending = [k \in Kinds |-> Nil]
    /\ inProcess = Nil
    /\ lastProcessed = [k \in Kinds |-> 0]
    /\ rows = EveryRow(None)
    /\ minimalRows = [p \in Policies |-> Nil]
    /\ writtenClusters = [p \in {} |-> None]
    /\ brokenReads = {}
    /\ conflicted = FALSE
    /\ droppedRows = {}

LeafHub ==
    \/ \E p \in Policies, c \in Clusters, s \in Reported \cup {None} :
        ChangeClusters(p, c, s) \/ ChangeCompliance(p, c, s)
    \/ SendComplete
    \/ SendDelta
    \/ SendMinimal

Handle ==
    \/ \E acknowledged \in BOOLEAN :
        \/ handleClustersPerPolicyBundle(acknowledged)
        \/ handleCompleteComplianceBundle(acknowledged)
        \/ \E written \in BOOLEAN : handleDeltaComplianceBundle(written, acknowledged)
    \/ GetNextDelta
    \/ handleMinimalComplianceBundle

Next == LeafHub \/ Handle

Spec == Init /\ [][Next]_vars

------------------------------------------------------------------------------
(* Properties *)

\* Nothing is left that a handler would still act on, and the leaf hub has
\* reported all it knows.  A delta on a base that is no longer the last one
\* processed is not acted on.
Quiescent ==
    /\ changed = {} /\ ~owesComplete
    /\ IsIdle
    /\ \A k \in Kinds \ {"deltaCompliance"} : pending[k] = Nil
    /\ pending["deltaCompliance"] # Nil =>
         pending["deltaCompliance"].base # lastProcessed["completeCompliance"]

\* "whatever is in the db and cannot be found in the bundle has to be deleted": the
\* rows present are those of the last clusters-per-policy bundle written, unless its
\* handler read only part of the rows; complete and delta bundles, late, merged,
\* handled twice or after broken reads of their own, neither add nor remove any.
\* A later bundle whose handler reads all rows makes up for a broken read.
RowsAreOfWrittenClusters ==
    "clustersPerPolicy" \notin brokenReads =>
        \A p \in Policies, c \in Clusters :
            (rows[p][c] # None) = (Listed(writtenClusters, p, c) # None)

\* When everything was handled the compliance table is what the leaf hub reported,
\* although complete bundles leave out the compliant clusters, deltas only say what
\* changed and were merged while they waited, and handlers were run again; only
\* the reads of the last bundle of each kind matter.  The exception is what a
\* dropped pack of deltas said: until a later delta names the row or a complete
\* bundle comes, the row is there and may have an older compliance.
QuiescentRowsAreTruth ==
    Quiescent /\ aggregationLevel = "full" /\ brokenReads = {} =>
        \A p \in Policies, c \in Clusters :
            \/ rows[p][c] = truth[p][c]
            \/ <<p, c>> \in droppedRows /\ rows[p][c] # None /\ truth[p][c] # None

\* The same for the aggregated table, whose handler is several statements that
\* can fail in the middle and be followed by a newer bundle.
QuiescentMinimalIsTruth ==
    Quiescent /\ aggregationLevel = "minimal" /\ brokenReads = {} =>
        \A p \in Policies : minimalRows[p] = Summary(truth, p)

\* A batch that a handler built from all rows is refused for its size only: it never
\* inserts a row that is there, which would make its handler fail again and again.
RefusedOnlyForSize == ~conflicted
==============================================================================
