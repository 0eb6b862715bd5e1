--------------------------- MODULE ComplianceProofs ---------------------------
(***************************************************************************)
(* Proofs about ComplianceTable and ComplianceStatus for any policies,     *)
(* clusters and histories: what the policy handlers make of any table, and *)
(* that the rows become what the leaf hub reported.                        *)
(*                                                                         *)
(* QuiescentRowsAreTruth says nothing of the states on the way.  What is   *)
(* invariant is where each row's compliance was reported to: it is in the  *)
(* pending deltas, or else in the pack of deltas in process, or else in    *)
(* the pending complete bundle, or else in the rows or in a pack that was  *)
(* dropped (IsReported), and a complete bundle that nothing made obsolete  *)
(* is on the last clusters-per-policy bundle (CompleteHasLastBase), so the *)
(* rows it updates are there.                                              *)
(***************************************************************************)
EXTENDS ComplianceStatus, FiniteSetTheorems, TLAPS

\* The set of values of a cell of the table.
Cell == ComplianceStatuses \cup {None}

------------------------------------------------------------------------------
(* The operators *)

\* The effect of a batch on one row.
LEMMA ExecuteBatchRow ==
    ASSUME NEW table, NEW batch, NEW p \in Policies, NEW c \in Clusters
    PROVE  ExecuteBatch(table, batch)[p][c] =
             LET kept     == IF p \in batch.deletePolicies THEN None ELSE table[p][c]
                 inserted == IF batch.inserts[p][c] # None THEN batch.inserts[p][c] ELSE kept
                 updated  == IF inserted # None /\ p \in batch.updatePolicies
                               THEN "compliant" ELSE inserted
                 left     == IF <<p, c>> \in batch.deleteClusters THEN None ELSE updated
             IN  IF left # None /\ batch.updateClusters[p][c] # None
                   THEN batch.updateClusters[p][c] ELSE left
  BY DEF ExecuteBatch

\* handleClustersPerPolicyBundle: whatever the table held, its rows become the
\* ones the bundle lists.
THEOREM ClustersPerPolicyBecomesTable ==
    ASSUME NEW table, NEW objects, NEW p \in Policies, NEW c \in Clusters
    PROVE  ExecuteBatch(table, clustersPerPolicyBatch(table, objects))[p][c]
             = Listed(objects, p, c)
  <1> DEFINE batch == clustersPerPolicyBatch(table, objects)
  <1>1. /\ batch.inserts[p][c] = IF table[p][c] = None THEN Listed(objects, p, c) ELSE None
        /\ batch.updateClusters[p][c] =
             IF table[p][c] # None /\ table[p][c] # Listed(objects, p, c)
               THEN Listed(objects, p, c) ELSE None
        /\ batch.updatePolicies = {}
    BY DEF clustersPerPolicyBatch, EmptyBatch, EveryRow
  <1>2. batch.deleteClusters = {k \in (DOMAIN objects) \X Clusters :
                                  table[k[1]][k[2]] # None /\ objects[k[1]][k[2]] = None}
    BY DEF clustersPerPolicyBatch, EmptyBatch, EveryRow
  <1>3. batch.deletePolicies = {q \in Policies \ DOMAIN objects :
                                  \E d \in Clusters : table[q][d] # None}
    BY DEF clustersPerPolicyBatch, EmptyBatch, EveryRow
  <1>4. <<p, c>> \in batch.deleteClusters
          <=> p \in DOMAIN objects /\ table[p][c] # None /\ objects[p][c] = None
    BY <1>2
  <1>5. p \in batch.deletePolicies <=> p \notin DOMAIN objects /\ \E d \in Clusters : table[p][d] # None
    BY <1>3
  <1> HIDE DEF batch
  <1>6. Listed(objects, p, c) = IF p \in DOMAIN objects THEN objects[p][c] ELSE None
    BY DEF Listed
  <1>7. ExecuteBatch(table, batch)[p][c] = Listed(objects, p, c)
    BY ExecuteBatchRow, <1>1, <1>4, <1>5, <1>6
  <1>. QED BY <1>7 DEF batch

\* handleCompleteComplianceBundle: the rows there are become what the bundle lists
\* and, where it lists nothing, compliant; no row appears or disappears.
THEOREM CompleteComplianceUpdatesRows ==
    ASSUME NEW table \in Table, NEW objects \in CompleteObjects,
           NEW p \in Policies, NEW c \in Clusters
    PROVE  ExecuteBatch(table, completeComplianceBatch(NonCompliantRows(table), objects))[p][c]
             = IF table[p][c] = None THEN None
                 ELSE IF Listed(objects, p, c) # None THEN Listed(objects, p, c)
                 ELSE "compliant"
  <1> DEFINE read == NonCompliantRows(table)
             batch == completeComplianceBatch(read, objects)
  <1>1. read[p][c] = IF table[p][c] = "compliant" THEN None ELSE table[p][c]
    BY DEF NonCompliantRows
  <1>2. table[p][c] \in Cell
    BY DEF Table, Cell
  <1> HIDE DEF read
  <1>3. /\ p \notin batch.deletePolicies
        /\ batch.inserts[p][c] = None
        /\ <<p, c>> \notin batch.deleteClusters
    BY DEF completeComplianceBatch, EmptyBatch, EveryRow
  <1>4. batch.updatePolicies = {q \in Policies \ DOMAIN objects : \E d \in Clusters : read[q][d] # None}
    BY DEF completeComplianceBatch, EmptyBatch, EveryRow
  <1>5. batch.updateClusters[p][c] =
          IF Listed(objects, p, c) # None
            THEN IF read[p][c] # Listed(objects, p, c) THEN Listed(objects, p, c) ELSE None
            ELSE IF p \in DOMAIN objects /\ read[p][c] # None THEN "compliant" ELSE None
    BY DEF completeComplianceBatch, EmptyBatch, EveryRow
  <1>6. p \notin DOMAIN objects => Listed(objects, p, c) = None
    BY DEF Listed
  <1>7. read[p][c] # None /\ p \notin DOMAIN objects => p \in batch.updatePolicies
    BY <1>4
  <1>8. Listed(objects, p, c) \in {"non_compliant", "unknown", None}
    <2>1. PICK S \in SUBSET Policies :
            objects \in [S -> [Clusters -> {"non_compliant", "unknown", None}]]
      BY DEF CompleteObjects
    <2>2. CASE p \in S
      BY <2>1, <2>2 DEF Listed
    <2>3. CASE p \notin S
      BY <2>1, <2>3 DEF Listed
    <2>. QED BY <2>2, <2>3
  <1>9. p \in batch.updatePolicies => p \notin DOMAIN objects
    BY <1>4
  <1> DEFINE after == ExecuteBatch(table, batch)
             wanted == IF table[p][c] = None THEN None
                         ELSE IF Listed(objects, p, c) # None THEN Listed(objects, p, c)
                         ELSE "compliant"
  <1> SUFFICES after[p][c] = wanted
    BY DEF read
  <1> HIDE DEF batch
  <1>10. ExecuteBatch(table, batch)[p][c] =
             LET updated == IF table[p][c] # None /\ p \in batch.updatePolicies
                              THEN "compliant" ELSE table[p][c]
             IN  IF updated # None /\ batch.updateClusters[p][c] # None
                   THEN batch.updateClusters[p][c] ELSE updated
    BY <1>3, ExecuteBatchRow
  <1>11. "compliant" # None /\ "non_compliant" # None /\ "unknown" # None
    BY DEF None
  <1>12. CASE table[p][c] = None
    BY <1>10, <1>12
  <1>13. CASE table[p][c] # None /\ Listed(objects, p, c) # None
    BY <1>1, <1>5, <1>6, <1>8, <1>9, <1>10, <1>11, <1>13
  <1>14. CASE table[p][c] # None /\ Listed(objects, p, c) = None
    <2>1. CASE table[p][c] = "compliant"
      BY <1>1, <1>5, <1>10, <1>11, <1>14, <2>1
    <2>2. CASE table[p][c] # "compliant"
      <3>1. read[p][c] # None
        BY <1>1, <1>14, <2>2
      <3>2. CASE p \in DOMAIN objects
        BY <1>5, <1>9, <1>10, <1>11, <1>14, <3>1, <3>2
      <3>3. CASE p \notin DOMAIN objects
        BY <1>5, <1>7, <1>10, <1>11, <1>14, <3>1, <3>3
      <3>. QED BY <3>2, <3>3
    <2>. QED BY <2>1, <2>2
  <1>. QED BY <1>12, <1>13, <1>14

\* handleDeltaComplianceBundle, on one row.
LEMMA DeltaUpdatesRow ==
    ASSUME NEW table, NEW objects, NEW p \in Policies, NEW c \in Clusters
    PROVE  ExecuteBatch(table, deltaComplianceBatch(objects))[p][c]
             = IF table[p][c] # None /\ Listed(objects, p, c) # None
                 THEN Listed(objects, p, c) ELSE table[p][c]
  <1> DEFINE batch == deltaComplianceBatch(objects)
  <1>1. /\ p \notin batch.deletePolicies
        /\ batch.inserts[p][c] = None
        /\ p \notin batch.updatePolicies
        /\ <<p, c>> \notin batch.deleteClusters
        /\ batch.updateClusters[p][c] = Listed(objects, p, c)
    BY DEF deltaComplianceBatch, EmptyBatch, EveryRow
  <1> HIDE DEF batch
  <1>2. ExecuteBatch(table, batch)[p][c] = IF table[p][c] # None /\ Listed(objects, p, c) # None
                 THEN Listed(objects, p, c) ELSE table[p][c]
    BY <1>1, ExecuteBatchRow
  <1>. QED BY <1>2 DEF batch

\* What a merged object list says: what the newer one says, else the older one.
LEMMA inheritObjectsListed ==
    ASSUME NEW older, NEW newer, NEW p \in Policies, NEW c \in Clusters
    PROVE  Listed(inheritObjects(newer, older), p, c)
             = IF Listed(newer, p, c) # None THEN Listed(newer, p, c) ELSE Listed(older, p, c)
  <1>1. DOMAIN inheritObjects(newer, older) = (DOMAIN newer) \cup (DOMAIN older)
    BY DEF inheritObjects
  <1>2. CASE p \in (DOMAIN newer) \cup (DOMAIN older)
    <2>1. inheritObjects(newer, older)[p][c]
            = IF Listed(newer, p, c) # None THEN newer[p][c] ELSE Listed(older, p, c)
      BY <1>2 DEF inheritObjects
    <2>2. Listed(newer, p, c) # None => newer[p][c] = Listed(newer, p, c)
      BY DEF Listed
    <2>3. Listed(inheritObjects(newer, older), p, c) = inheritObjects(newer, older)[p][c]
      BY <1>1, <1>2 DEF Listed
    <2>. QED BY <2>1, <2>2, <2>3
  <1>3. CASE p \notin (DOMAIN newer) \cup (DOMAIN older)
    BY <1>1, <1>3 DEF Listed
  <1>. QED BY <1>2, <1>3

\* InheritEvents is sound: a pack of two deltas handled at once leaves the table
\* as the two deltas handled one after the other would.
THEOREM MergedDeltasActInOrder ==
    ASSUME NEW table, NEW older, NEW newer,
           NEW p \in Policies, NEW c \in Clusters
    PROVE  ExecuteBatch(table, deltaComplianceBatch(inheritObjects(newer, older)))[p][c]
             = ExecuteBatch(ExecuteBatch(table, deltaComplianceBatch(older)),
                            deltaComplianceBatch(newer))[p][c]
  <1>1. Listed(inheritObjects(newer, older), p, c)
          = IF Listed(newer, p, c) # None THEN Listed(newer, p, c) ELSE Listed(older, p, c)
    BY inheritObjectsListed
  <1> DEFINE middle == ExecuteBatch(table, deltaComplianceBatch(older))
  <1>2. middle[p][c] = IF table[p][c] # None /\ Listed(older, p, c) # None
                         THEN Listed(older, p, c) ELSE table[p][c]
    BY DeltaUpdatesRow
  <1> HIDE DEF middle
  <1>3. ExecuteBatch(middle, deltaComplianceBatch(newer))[p][c]
          = IF middle[p][c] # None /\ Listed(newer, p, c) # None
              THEN Listed(newer, p, c) ELSE middle[p][c]
    BY DeltaUpdatesRow
  <1>4. ExecuteBatch(table, deltaComplianceBatch(inheritObjects(newer, older)))[p][c]
          = IF table[p][c] # None /\ Listed(inheritObjects(newer, older), p, c) # None
              THEN Listed(inheritObjects(newer, older), p, c) ELSE table[p][c]
    BY DeltaUpdatesRow
  <1>. QED BY <1>1, <1>2, <1>3, <1>4 DEF middle

------------------------------------------------------------------------------
(* The rows present *)

\* A batch that neither inserts nor deletes keeps the rows there are.
LEMMA UpdatesKeepRows ==
    ASSUME NEW table, NEW batch, NEW p \in Policies, NEW c \in Clusters,
           p \notin batch.deletePolicies,
           <<p, c>> \notin batch.deleteClusters,
           batch.inserts[p][c] = None
    PROVE  (ExecuteBatch(table, batch)[p][c] = None) <=> (table[p][c] = None)
  <1>1. "compliant" # None
    BY DEF None
  <1>. QED BY <1>1, ExecuteBatchRow

\* The batches of complete and delta bundles are such batches.
LEMMA ComplianceBatchesOnlyUpdate ==
    ASSUME NEW read, NEW objects, NEW p \in Policies, NEW c \in Clusters,
           NEW batch \in {completeComplianceBatch(read, objects), deltaComplianceBatch(objects)}
    PROVE  /\ p \notin batch.deletePolicies
           /\ <<p, c>> \notin batch.deleteClusters
           /\ batch.inserts[p][c] = None
  <1>1. CASE batch = completeComplianceBatch(read, objects)
    BY <1>1 DEF completeComplianceBatch, EmptyBatch, EveryRow
  <1>2. CASE batch = deltaComplianceBatch(objects)
    BY <1>2 DEF deltaComplianceBatch, EmptyBatch, EveryRow
  <1>. QED BY <1>1, <1>2

\* A batch of updates, written or refused, keeps RowsAreOfWrittenClusters.
LEMMA UpdatesKeepInvariant ==
    ASSUME RowsAreOfWrittenClusters, NEW kind, kind # "clustersPerPolicy",
           NEW batch, NEW readIsComplete, NEW acknowledged,
           SendBatch(kind, batch, readIsComplete, acknowledged),
           \A p \in Policies, c \in Clusters :
              /\ p \notin batch.deletePolicies
              /\ <<p, c>> \notin batch.deleteClusters
              /\ batch.inserts[p][c] = None
    PROVE  RowsAreOfWrittenClusters'
  <1>1. writtenClusters' = writtenClusters
    BY DEF SendBatch
  <1>2. rows' = rows \/ rows' = ExecuteBatch(rows, batch)
    BY DEF SendBatch
  <1>3. ASSUME NEW p \in Policies, NEW c \in Clusters
        PROVE  (rows'[p][c] = None) <=> (rows[p][c] = None)
    <2>1. (ExecuteBatch(rows, batch)[p][c] = None) <=> (rows[p][c] = None)
      BY <1>3, UpdatesKeepRows
    <2>2. CASE rows' = rows
      BY <2>2
    <2>3. CASE rows' = ExecuteBatch(rows, batch)
      BY <2>1, <2>3
    <2>. QED BY <1>2, <2>2, <2>3
  <1>4. ASSUME NEW p \in Policies, NEW c \in Clusters
        PROVE  Listed(writtenClusters', p, c) = Listed(writtenClusters, p, c)
    BY <1>1
  <1>5. "clustersPerPolicy" \notin brokenReads' => "clustersPerPolicy" \notin brokenReads
    BY DEF SendBatch
  <1>. QED BY <1>3, <1>4, <1>5 DEF RowsAreOfWrittenClusters

\* Every step keeps the rows those of the last clusters-per-policy bundle written.
LEMMA RowsPresentStep ==
    RowsAreOfWrittenClusters /\ [Next]_vars => RowsAreOfWrittenClusters'
  <1> SUFFICES ASSUME RowsAreOfWrittenClusters, [Next]_vars
               PROVE  RowsAreOfWrittenClusters'
    OBVIOUS
  <1>0. ASSUME UNCHANGED <<rows, writtenClusters>>,
               "clustersPerPolicy" \notin brokenReads' => "clustersPerPolicy" \notin brokenReads
        PROVE  RowsAreOfWrittenClusters'
    BY <1>0 DEF RowsAreOfWrittenClusters
  <1>1. CASE LeafHub
    <2>1. UNCHANGED <<rows, writtenClusters, brokenReads>>
      BY <1>1 DEF LeafHub, ChangeClusters, ChangeCompliance, SendComplete, SendDelta,
                  SendMinimal, LeafHubStep, dbVars
    <2>. QED BY <1>0, <2>1
  <1>2. ASSUME NEW acknowledged \in BOOLEAN, handleClustersPerPolicyBundle(acknowledged)
        PROVE  RowsAreOfWrittenClusters'
    <2> DEFINE objects == pending["clustersPerPolicy"].objects
    <2>1. PICK read : SendBatch("clustersPerPolicy", clustersPerPolicyBatch(read, objects),
                                read = rows, acknowledged)
      BY <1>2 DEF handleClustersPerPolicyBundle
    <2> DEFINE batch == clustersPerPolicyBatch(read, objects)
    <2>2. CASE UNCHANGED <<rows, writtenClusters, brokenReads>>
      BY <1>0, <2>2
    <2>3. CASE /\ rows' = ExecuteBatch(rows, batch)
               /\ writtenClusters' = objects
               /\ "clustersPerPolicy" \notin brokenReads' => read = rows
      <3>1. ASSUME "clustersPerPolicy" \notin brokenReads',
                   NEW p \in Policies, NEW c \in Clusters
            PROVE  rows'[p][c] = Listed(writtenClusters', p, c)
        BY <2>3, <3>1, ClustersPerPolicyBecomesTable
      <3>. QED BY <3>1 DEF RowsAreOfWrittenClusters
    <2>. QED BY <2>1, <2>2, <2>3 DEF SendBatch
  <1>3. ASSUME NEW acknowledged \in BOOLEAN, handleCompleteComplianceBundle(acknowledged)
        PROVE  RowsAreOfWrittenClusters'
    <2>1. PICK read, complete : SendBatch("completeCompliance",
              completeComplianceBatch(read, pending["completeCompliance"].objects),
              complete, acknowledged)
      BY <1>3 DEF handleCompleteComplianceBundle
    <2>. QED BY <2>1, ComplianceBatchesOnlyUpdate, UpdatesKeepInvariant
  <1>4. ASSUME NEW written \in BOOLEAN, NEW acknowledged \in BOOLEAN,
               handleDeltaComplianceBundle(written, acknowledged)
        PROVE  RowsAreOfWrittenClusters'
    <2> DEFINE batch == deltaComplianceBatch(inProcess.objects)
    <2>1. /\ rows' = rows \/ rows' = ExecuteBatch(rows, batch)
          /\ UNCHANGED <<writtenClusters, brokenReads>>
      BY <1>4 DEF handleDeltaComplianceBundle
    <2>2. ASSUME NEW p \in Policies, NEW c \in Clusters
          PROVE  (rows'[p][c] = None) <=> (rows[p][c] = None)
      <3>1. /\ p \notin batch.deletePolicies
            /\ <<p, c>> \notin batch.deleteClusters
            /\ batch.inserts[p][c] = None
        BY DEF deltaComplianceBatch, EmptyBatch, EveryRow
      <3> HIDE DEF batch
      <3>2. (ExecuteBatch(rows, batch)[p][c] = None) <=> (rows[p][c] = None)
        BY <3>1, UpdatesKeepRows
      <3>. QED BY <2>1, <3>2
    <2>. QED BY <2>1, <2>2 DEF RowsAreOfWrittenClusters, Listed
  <1>5. CASE handleMinimalComplianceBundle
    BY <1>0, <1>5 DEF handleMinimalComplianceBundle
  <1>6. CASE GetNextDelta
    BY <1>0, <1>6 DEF GetNextDelta, dbVars
  <1>7. CASE UNCHANGED vars
    BY <1>0, <1>7 DEF vars, dbVars
  <1>. QED BY <1>1, <1>2, <1>3, <1>4, <1>5, <1>6, <1>7 DEF Next, Handle

\* The rows present are those of the last clusters-per-policy bundle written when
\* its handler read all rows, whatever is late, merged or repeated and whatever
\* earlier reads and those of other handlers left out.
THEOREM RowsPresent == Spec => []RowsAreOfWrittenClusters
  <1>1. Init => RowsAreOfWrittenClusters
    BY DEF Init, RowsAreOfWrittenClusters, EveryRow, Listed
  <1>2. RowsAreOfWrittenClusters /\ [Next]_vars => RowsAreOfWrittenClusters'
    BY RowsPresentStep
  <1>. QED BY <1>1, <1>2, PTL DEF Spec

------------------------------------------------------------------------------
(* The rows and the leaf hub *)

ComplianceTypeOK ==
    /\ aggregationLevel \in {"full", "minimal"}
    /\ truth \in Table
    /\ changed \in SUBSET (Policies \X Clusters)
    /\ owesComplete \in BOOLEAN
    /\ sent \in [Kinds -> Nat]
    /\ lastProcessed \in [Kinds -> Nat]
    /\ pending \in [Kinds -> Bundle \cup {Nil}]
    /\ \A k \in {"clustersPerPolicy", "deltaCompliance"} :
            pending[k] # Nil => pending[k].objects \in ObjectLists
    /\ pending["completeCompliance"] # Nil =>
            pending["completeCompliance"].objects \in CompleteObjects
    /\ inProcess \in Bundle \cup {Nil}
    /\ inProcess # Nil => inProcess.objects \in ObjectLists
    /\ rows \in Table

\* The last bundle sent is pending until it is processed.
LastSentIsPending ==
    \A k \in {"clustersPerPolicy", "completeCompliance"} :
        IF pending[k] = Nil THEN lastProcessed[k] = sent[k]
          ELSE pending[k].ver = sent[k] /\ lastProcessed[k] < sent[k]

\* No delta is on a base that was not sent.
DeltaHasBase ==
    pending["deltaCompliance"] # Nil =>
        pending["deltaCompliance"].base <= sent["completeCompliance"]

\* No other handler changes the base of the pack in process.
PackHasLastBase ==
    inProcess # Nil => inProcess.base = lastProcessed["completeCompliance"]

\* When no cluster joined or left since the last complete bundle, that bundle is on
\* the last clusters-per-policy bundle, which was processed before it.
CompleteHasLastBase ==
    aggregationLevel = "full" /\ ~owesComplete =>
        IF pending["completeCompliance"] = Nil
          THEN lastProcessed["clustersPerPolicy"] = sent["clustersPerPolicy"]
          ELSE pending["completeCompliance"].base = sent["clustersPerPolicy"]

\* The last clusters-per-policy bundle, pending or written, lists the clusters.
ClustersAreReported ==
    aggregationLevel = "full" =>
        \A p \in Policies, c \in Clusters :
            (truth[p][c] # None) =
                (Listed(IF pending["clustersPerPolicy"] # Nil
                          THEN pending["clustersPerPolicy"].objects
                          ELSE writtenClusters, p, c) # None)

\* What a pack of deltas on the last complete bundle says of policy p and cluster c.
PackOf(pack, p, c) ==
    IF pack # Nil /\ pack.base = sent["completeCompliance"]
      THEN Listed(pack.objects, p, c) ELSE None

\* What the deltas not yet written say of them.
DeltaOf(p, c) ==
    IF PackOf(pending["deltaCompliance"], p, c) # None
      THEN PackOf(pending["deltaCompliance"], p, c) ELSE PackOf(inProcess, p, c)

\* What the leaf hub reported is in these deltas, or else in the pending complete
\* bundle, or else in the rows, unless it was dropped.
IsReported(p, c) ==
    LET complete == pending["completeCompliance"]
        open == Listed(complete.objects, p, c)
    IN  IF DeltaOf(p, c) # None THEN truth[p][c] = DeltaOf(p, c)
          ELSE IF complete # Nil
            THEN truth[p][c] = IF open # None THEN open ELSE "compliant"
            ELSE {"clustersPerPolicy", "completeCompliance"} \cap brokenReads = {}
                    => <<p, c>> \in droppedRows \/ rows[p][c] = truth[p][c]

ComplianceIsReported ==
    aggregationLevel = "full" /\ ~owesComplete =>
        \A p \in Policies, c \in Clusters :
            truth[p][c] # None /\ <<p, c>> \notin changed => IsReported(p, c)

\* The counters of every policy that has clusters.
Summaries == [p \in {q \in Policies : Summary(truth, q) # Nil} |-> Summary(truth, p)]

\* The same for the aggregated table.
SummariesAreReported ==
    aggregationLevel = "minimal" /\ changed = {} /\ ~owesComplete =>
        IF pending["minimalCompliance"] # Nil
          THEN pending["minimalCompliance"].objects = Summaries
          ELSE "minimalCompliance" \notin brokenReads =>
                  \A p \in Policies : minimalRows[p] = Summary(truth, p)

IInv ==
    /\ ComplianceTypeOK
    /\ RowsAreOfWrittenClusters
    /\ LastSentIsPending
    /\ DeltaHasBase
    /\ PackHasLastBase
    /\ CompleteHasLastBase
    /\ ClustersAreReported
    /\ ComplianceIsReported
    /\ SummariesAreReported

------------------------------------------------------------------------------
(* Types *)

\* What an object list says of a row is a compliance or nothing.
LEMMA ListedType ==
    ASSUME NEW objects \in ObjectLists, NEW p \in Policies, NEW c \in Clusters
    PROVE  Listed(objects, p, c) \in Cell
<1>1. PICK S \in SUBSET Policies : objects \in [S -> [Clusters -> Cell]]
  BY DEF ObjectLists, Cell
<1>2. CASE p \in S
  BY <1>1, <1>2 DEF Listed
<1>3. CASE p \notin S
  BY <1>1, <1>3 DEF Listed, Cell
<1>. QED
  BY <1>2, <1>3

\* Complete bundles hold object lists.
LEMMA CompleteObjectsAreLists == CompleteObjects \subseteq ObjectLists
<1>1. SUFFICES ASSUME NEW objects \in CompleteObjects PROVE objects \in ObjectLists
  OBVIOUS
<1>2. PICK S \in SUBSET Policies : objects \in [S -> [Clusters -> {"non_compliant", "unknown", None}]]
  BY DEF CompleteObjects
<1>3. objects \in [S -> [Clusters -> ComplianceStatuses \cup {None}]]
  BY <1>2 DEF ComplianceStatuses
<1>. QED
  BY <1>3 DEF ObjectLists

\* A batch of typed fields makes a table of a table.
LEMMA ExecuteBatchType ==
    ASSUME NEW table \in Table, NEW batch,
           batch.inserts \in Table, batch.updateClusters \in Table
    PROVE  ExecuteBatch(table, batch) \in Table
<1>1. SUFFICES ASSUME NEW p \in Policies, NEW c \in Clusters
               PROVE  ExecuteBatch(table, batch)[p][c] \in Cell
  BY DEF Table, Cell, ExecuteBatch
<1>2. /\ table[p][c] \in Cell
      /\ batch.inserts[p][c] \in Cell
      /\ batch.updateClusters[p][c] \in Cell
      /\ "compliant" \in Cell /\ None \in Cell
  BY DEF Table, Cell, ComplianceStatuses
<1> DEFINE kept == IF p \in batch.deletePolicies THEN None ELSE table[p][c]
           inserted == IF batch.inserts[p][c] # None THEN batch.inserts[p][c] ELSE kept
           updated == IF inserted # None /\ p \in batch.updatePolicies
                        THEN "compliant" ELSE inserted
           left == IF <<p, c>> \in batch.deleteClusters THEN None ELSE updated
<1>3. kept \in Cell
  BY <1>2
<1>4. inserted \in Cell
  BY <1>2, <1>3
<1>5. updated \in Cell
  BY <1>2, <1>4
<1>6. left \in Cell
  BY <1>2, <1>5
<1>7. ExecuteBatch(table, batch)[p][c] = IF left # None /\ batch.updateClusters[p][c] # None
                                           THEN batch.updateClusters[p][c] ELSE left
  BY ExecuteBatchRow
<1>. QED
  BY <1>2, <1>6, <1>7

\* Reads, broken or not, give tables.
LEMMA ReadRowsType ==
    ASSUME NEW table \in Table
    PROVE  /\ \A read \in ReadRows(table) : read \in Table
           /\ NonCompliantRows(table) \in Table
<1>1. \A p \in Policies, c \in Clusters : table[p][c] \in Cell
  BY DEF Table, Cell
<1>2. None \in Cell
  BY DEF Cell
<1>3. NonCompliantRows(table) \in Table
  BY <1>1, <1>2 DEF NonCompliantRows, Table, Cell
<1>4. ASSUME NEW read \in ReadRows(table) PROVE read \in Table
  <2>1. CASE read = table
    BY <2>1
  <2>2. ASSUME NEW seen \in SUBSET (Policies \X Clusters),
               read = [p \in Policies |-> [c \in Clusters |->
                        IF <<p, c>> \in seen THEN table[p][c] ELSE None]]
        PROVE  read \in Table
    BY <1>1, <1>2, <2>2 DEF Table, Cell
  <2>. QED
    BY <1>4, <2>1, <2>2 DEF ReadRows
<1>. QED
  BY <1>3, <1>4

\* The batches of the handlers have typed fields.
LEMMA BatchType ==
    ASSUME NEW read \in Table, NEW objects \in ObjectLists,
           NEW batch \in {clustersPerPolicyBatch(read, objects),
                          completeComplianceBatch(read, objects), deltaComplianceBatch(objects)}
    PROVE  batch.inserts \in Table /\ batch.updateClusters \in Table
<1>1. \A p \in Policies, c \in Clusters : Listed(objects, p, c) \in Cell
  BY ListedType
<1>2. "compliant" \in Cell /\ None \in Cell
  BY DEF Cell, ComplianceStatuses
<1>3. EveryRow(None) \in Table
  BY <1>2 DEF EveryRow, Table, Cell
<1>4. CASE batch = clustersPerPolicyBatch(read, objects)
  <2>1. /\ batch.inserts = [p \in Policies |-> [c \in Clusters |->
              IF read[p][c] = None THEN Listed(objects, p, c) ELSE None]]
        /\ batch.updateClusters = [p \in Policies |-> [c \in Clusters |->
              IF read[p][c] # None /\ read[p][c] # Listed(objects, p, c)
                THEN Listed(objects, p, c) ELSE None]]
    BY <1>4 DEF clustersPerPolicyBatch, EmptyBatch
  <2>. QED
    BY <1>1, <1>2, <2>1 DEF Table, Cell
<1>5. CASE batch = completeComplianceBatch(read, objects)
  <2>1. /\ batch.inserts = EveryRow(None)
        /\ batch.updateClusters = [p \in Policies |-> [c \in Clusters |->
              IF Listed(objects, p, c) # None
                THEN IF read[p][c] # Listed(objects, p, c) THEN Listed(objects, p, c) ELSE None
                ELSE IF p \in DOMAIN objects /\ read[p][c] # None THEN "compliant" ELSE None]]
    BY <1>5 DEF completeComplianceBatch, EmptyBatch
  <2>. QED
    BY <1>1, <1>2, <1>3, <2>1 DEF Table, Cell
<1>6. CASE batch = deltaComplianceBatch(objects)
  <2>1. /\ batch.inserts = EveryRow(None)
        /\ batch.updateClusters = [p \in Policies |-> [c \in Clusters |-> Listed(objects, p, c)]]
    BY <1>6 DEF deltaComplianceBatch, EmptyBatch
  <2>. QED
    BY <1>1, <1>3, <2>1 DEF Table, Cell
<1>. QED
  BY <1>4, <1>5, <1>6

\* Merged object lists are object lists.
LEMMA inheritObjectsType ==
    ASSUME NEW objects \in ObjectLists, NEW oldObjects \in ObjectLists
    PROVE  inheritObjects(objects, oldObjects) \in ObjectLists
<1>1. PICK S \in SUBSET Policies : objects \in [S -> [Clusters -> Cell]]
  BY DEF ObjectLists, Cell
<1>2. PICK R \in SUBSET Policies : oldObjects \in [R -> [Clusters -> Cell]]
  BY DEF ObjectLists, Cell
<1>3. ASSUME NEW p \in S \cup R, NEW c \in Clusters
      PROVE  (IF Listed(objects, p, c) # None THEN objects[p][c] ELSE Listed(oldObjects, p, c)) \in Cell
  <2>1. Listed(objects, p, c) \in Cell /\ Listed(oldObjects, p, c) \in Cell
    BY <1>1, <1>2, ListedType
  <2>2. Listed(objects, p, c) # None => objects[p][c] = Listed(objects, p, c)
    BY DEF Listed
  <2>. QED
    BY <2>1, <2>2
<1>4. inheritObjects(objects, oldObjects) \in [S \cup R -> [Clusters -> Cell]]
  BY <1>1, <1>2, <1>3 DEF inheritObjects
<1>5. S \cup R \in SUBSET Policies
  OBVIOUS
<1>. QED
  BY <1>4, <1>5 DEF ObjectLists, Cell

\* The pending bundles after one was delivered.
LEMMA Delivered ==
    ASSUME pending \in [Kinds -> Bundle \cup {Nil}],
           NEW kind \in Kinds, NEW bundle \in Bundle, Deliver(kind, bundle)
    PROVE  /\ pending' \in [Kinds -> Bundle \cup {Nil}]
           /\ pending'[kind] = bundle /\ bundle # Nil
           /\ \A k \in Kinds \ {kind} : pending'[k] = pending[k]
BY NilAssumption DEF Deliver

\* The three outcomes of a handler: refused, executed, executed without the
\* acknowledgement.
LEMMA BatchOutcome ==
    ASSUME ComplianceTypeOK, NEW kind \in Kinds, pending[kind] # Nil,
           NEW batch, batch.inserts \in Table, batch.updateClusters \in Table,
           NEW readIsComplete \in BOOLEAN, NEW acknowledged \in BOOLEAN,
           SendBatch(kind, batch, readIsComplete, acknowledged)
    PROVE  /\ \/ UNCHANGED <<rows, lastProcessed, pending, writtenClusters, brokenReads>>
              \/ /\ rows' = ExecuteBatch(rows, batch)
                 /\ writtenClusters' = IF kind = "clustersPerPolicy" THEN pending[kind].objects
                                                                    ELSE writtenClusters
                 /\ brokenReads' = IF readIsComplete THEN brokenReads \ {kind}
                                                    ELSE brokenReads \cup {kind}
                 /\ \/ UNCHANGED <<lastProcessed, pending>>
                    \/ /\ pending'[kind] = Nil
                       /\ lastProcessed'[kind] = pending[kind].ver
                       /\ \A k \in Kinds \ {kind} :
                            pending'[k] = pending[k] /\ lastProcessed'[k] = lastProcessed[k]
           /\ rows' \in Table
           /\ pending' \in [Kinds -> Bundle \cup {Nil}]
           /\ lastProcessed' \in [Kinds -> Nat]
<1>1. pending \in [Kinds -> Bundle \cup {Nil}] /\ lastProcessed \in [Kinds -> Nat] /\ rows \in Table
  BY DEF ComplianceTypeOK
<1>2. pending[kind].ver \in Nat
  BY <1>1 DEF Bundle
<1>3. ExecuteBatch(rows, batch) \in Table
  BY <1>1, ExecuteBatchType
<1>4. CASE BatchRefused(rows, batch)
  BY <1>1, <1>4 DEF SendBatch
<1>5. CASE ~BatchRefused(rows, batch) /\ acknowledged
  BY <1>1, <1>2, <1>3, <1>5 DEF SendBatch, Report
<1>6. CASE ~BatchRefused(rows, batch) /\ ~acknowledged
  BY <1>1, <1>3, <1>6 DEF SendBatch, Report
<1>. QED
  BY <1>4, <1>5, <1>6

------------------------------------------------------------------------------
(* The steps of the leaf hub *)

\* Nothing was reported and nothing is there to report.
LEMMA InitIInv == Init => IInv
<1> SUFFICES ASSUME Init PROVE IInv
  OBVIOUS
<1>1. EveryRow(None) \in Table /\ \A p \in Policies, c \in Clusters : EveryRow(None)[p][c] = None
  BY DEF EveryRow, Table
<1>2. \A k \in Kinds : pending[k] = Nil /\ lastProcessed[k] = 0 /\ sent[k] = 0
  BY DEF Init
<1>3. Kinds = {"clustersPerPolicy", "completeCompliance", "deltaCompliance", "minimalCompliance"}
  BY DEF Kinds
<1>4. \A p \in Policies : Summary(truth, p) = Nil
  <2>1. TAKE p \in Policies
  <2>2. {c \in Clusters : truth[p][c] # None} = {}
    BY <1>1 DEF Init
  <2>. QED
    BY <2>2 DEF Summary
<1>5. ComplianceTypeOK
  BY <1>1, <1>2, <1>3 DEF Init, ComplianceTypeOK
<1>6. \A p \in Policies, c \in Clusters : Listed(writtenClusters, p, c) = None
  BY DEF Init, Listed
<1>7. RowsAreOfWrittenClusters
  BY <1>1, <1>6 DEF Init, RowsAreOfWrittenClusters
<1>8. LastSentIsPending /\ DeltaHasBase /\ PackHasLastBase /\ CompleteHasLastBase
  BY <1>2, <1>3 DEF Init, LastSentIsPending, DeltaHasBase, PackHasLastBase, CompleteHasLastBase
<1>9. ClustersAreReported
  BY <1>1, <1>2, <1>3, <1>6 DEF Init, ClustersAreReported
<1>10. ComplianceIsReported
  BY <1>1 DEF Init, ComplianceIsReported
<1>11. SummariesAreReported
  BY <1>2, <1>3, <1>4 DEF Init, SummariesAreReported
<1>. QED
  BY <1>5, <1>7, <1>8, <1>9, <1>10, <1>11 DEF IInv

\* A cluster joins or leaves: the next clusters-per-policy bundle says so, and the
\* leaf hub owes a complete bundle.
LEMMA ChangeClustersIInv ==
    ASSUME IInv, NEW p0 \in Policies, NEW c0 \in Clusters, NEW s \in Cell,
           ChangeClusters(p0, c0, s)
    PROVE  IInv'
<1>1. ComplianceTypeOK /\ LastSentIsPending /\ DeltaHasBase
  BY DEF IInv
<1>2. UNCHANGED <<aggregationLevel, inProcess, lastProcessed, changed, rows, writtenClusters,
                  brokenReads>>
      /\ owesComplete' = TRUE
  BY DEF ChangeClusters, LeafHubStep, dbVars
<1>3. truth' \in Table
  BY <1>1 DEF ChangeClusters, ComplianceTypeOK, Table, Cell
<1>4. RowsAreOfWrittenClusters'
  BY <1>2 DEF IInv, RowsAreOfWrittenClusters, Listed
<1>5. PackHasLastBase' /\ CompleteHasLastBase' /\ ComplianceIsReported' /\ SummariesAreReported'
  BY <1>2 DEF IInv, PackHasLastBase, CompleteHasLastBase, ComplianceIsReported, SummariesAreReported
<1>6. CASE aggregationLevel # "full"
  <2>1. UNCHANGED <<sent, pending>>
    BY <1>6 DEF ChangeClusters
  <2>2. ComplianceTypeOK'
    BY <1>1, <1>2, <1>3, <2>1 DEF ComplianceTypeOK
  <2>3. LastSentIsPending' /\ DeltaHasBase' /\ ClustersAreReported'
    BY <1>1, <1>2, <1>6, <2>1 DEF LastSentIsPending, DeltaHasBase, ClustersAreReported
  <2>. QED
    BY <1>4, <1>5, <2>2, <2>3 DEF IInv
<1>7. CASE aggregationLevel = "full"
  <2>1. PICK S \in {Policies, {q \in Policies : \E d \in Clusters : truth'[q][d] # None}} :
          Deliver("clustersPerPolicy",
              [ver |-> sent["clustersPerPolicy"] + 1, base |-> 0,
               objects |-> [q \in S |-> truth'[q]]])
    BY <1>7 DEF ChangeClusters
  <2>2. sent' = [sent EXCEPT !["clustersPerPolicy"] = sent["clustersPerPolicy"] + 1]
    BY <1>7 DEF ChangeClusters
  <2> DEFINE objects == [q \in S |-> truth'[q]]
             bundle == [ver |-> sent["clustersPerPolicy"] + 1, base |-> 0, objects |-> objects]
  <2>3. sent \in [Kinds -> Nat] /\ lastProcessed \in [Kinds -> Nat]
        /\ "clustersPerPolicy" \in Kinds /\ "completeCompliance" \in Kinds
        /\ "deltaCompliance" \in Kinds
    BY <1>1 DEF ComplianceTypeOK, Kinds
  <2>4. objects \in ObjectLists
    <3>1. S \in SUBSET Policies
      OBVIOUS
    <3>2. objects \in [S -> [Clusters -> ComplianceStatuses \cup {None}]]
      BY <1>3 DEF Table
    <3>. QED
      BY <3>1, <3>2 DEF ObjectLists
  <2>5. ASSUME NEW q \in Policies, NEW d \in Clusters
        PROVE  (Listed(objects, q, d) # None) = (truth'[q][d] # None)
    BY DEF Listed
  <2> HIDE DEF objects
  <2>6. bundle \in Bundle /\ bundle.objects = objects /\ bundle.ver = sent["clustersPerPolicy"] + 1
    BY <2>3, <2>4 DEF Bundle
  <2>7. Deliver("clustersPerPolicy", bundle)
    BY <2>1 DEF objects
  <2> HIDE DEF bundle
  <2>8. /\ pending' \in [Kinds -> Bundle \cup {Nil}]
        /\ pending'["clustersPerPolicy"] = bundle /\ bundle # Nil
        /\ \A k \in Kinds \ {"clustersPerPolicy"} : pending'[k] = pending[k]
    BY <1>1, <2>3, <2>6, <2>7, Delivered DEF ComplianceTypeOK
  <2>9. sent' \in [Kinds -> Nat] /\ sent'["clustersPerPolicy"] = sent["clustersPerPolicy"] + 1
        /\ \A k \in Kinds \ {"clustersPerPolicy"} : sent'[k] = sent[k]
    BY <2>2, <2>3
  <2>10. pending'["completeCompliance"] = pending["completeCompliance"]
         /\ pending'["deltaCompliance"] = pending["deltaCompliance"]
         /\ sent'["completeCompliance"] = sent["completeCompliance"]
    BY <2>3, <2>8, <2>9
  <2>11. ComplianceTypeOK'
    BY <1>1, <1>2, <1>3, <2>4, <2>6, <2>8, <2>9, <2>10 DEF ComplianceTypeOK
  <2>12. LastSentIsPending'
    <3>1. lastProcessed["clustersPerPolicy"] <= sent["clustersPerPolicy"]
      BY <1>1, <2>3 DEF LastSentIsPending
    <3>. QED
      BY <1>1, <1>2, <2>3, <2>6, <2>8, <2>9, <2>10, <3>1 DEF LastSentIsPending
  <2>13. DeltaHasBase'
    BY <1>1, <2>10 DEF DeltaHasBase
  <2>14. ClustersAreReported'
    BY <2>5, <2>6, <2>8 DEF ClustersAreReported
  <2>. QED
    BY <1>4, <1>5, <2>11, <2>12, <2>13, <2>14 DEF IInv
<1>. QED
  BY <1>6, <1>7

\* The compliance of a cluster changes: the leaf hub remembers to report it.
LEMMA ChangeComplianceIInv ==
    ASSUME IInv, NEW p0 \in Policies, NEW c0 \in Clusters, NEW s \in Cell,
           ChangeCompliance(p0, c0, s)
    PROVE  IInv'
<1>1. ComplianceTypeOK /\ LastSentIsPending /\ DeltaHasBase /\ CompleteHasLastBase
      /\ ClustersAreReported /\ ComplianceIsReported
  BY DEF IInv
<1>2. UNCHANGED <<aggregationLevel, inProcess, lastProcessed, rows, minimalRows, writtenClusters,
                  brokenReads, droppedRows, owesComplete, sent, pending>>
      /\ changed' = changed \cup {<<p0, c0>>}
      /\ truth[p0][c0] # None /\ s # None
      /\ truth' = [truth EXCEPT ![p0][c0] = s]
  BY DEF ChangeCompliance, LeafHubStep, dbVars
<1>3. truth' \in Table
  BY <1>1, <1>2 DEF ComplianceTypeOK, Table, Cell
<1>4. ASSUME NEW p \in Policies, NEW c \in Clusters
      PROVE  /\ (truth'[p][c] # None) = (truth[p][c] # None)
             /\ <<p, c>> \notin changed' => <<p, c>> \notin changed /\ truth'[p][c] = truth[p][c]
  <2>1. truth \in Table
    BY <1>1 DEF ComplianceTypeOK
  <2>2. truth'[p][c] = IF p = p0 /\ c = c0 THEN s ELSE truth[p][c]
    BY <1>2, <2>1 DEF Table
  <2>. QED
    BY <1>2, <2>2
<1>5. RowsAreOfWrittenClusters'
  BY <1>2 DEF IInv, RowsAreOfWrittenClusters, Listed
<1>6. ComplianceTypeOK'
  BY <1>1, <1>2, <1>3 DEF ComplianceTypeOK
<1>7. LastSentIsPending' /\ DeltaHasBase' /\ PackHasLastBase' /\ CompleteHasLastBase'
  BY <1>1, <1>2 DEF IInv, LastSentIsPending, DeltaHasBase, PackHasLastBase, CompleteHasLastBase
<1>8. ClustersAreReported'
  BY <1>1, <1>2, <1>4 DEF ClustersAreReported, Listed
<1>9. SummariesAreReported'
  BY <1>2 DEF SummariesAreReported
<1>10. ComplianceIsReported'
  <2>1. SUFFICES ASSUME aggregationLevel = "full", ~owesComplete,
                        NEW p \in Policies, NEW c \in Clusters,
                        truth'[p][c] # None, <<p, c>> \notin changed'
                 PROVE  IsReported(p, c)'
    BY <1>2 DEF ComplianceIsReported
  <2>2. IsReported(p, c) /\ truth'[p][c] = truth[p][c]
    BY <1>1, <1>4, <2>1 DEF ComplianceIsReported
  <2>. QED
    BY <1>2, <2>2 DEF IsReported, DeltaOf, PackOf, Listed
<1>. QED
  BY <1>5, <1>6, <1>7, <1>8, <1>9, <1>10 DEF IInv

\* A complete bundle lists what is not compliant; no pending delta is on it yet.
LEMMA SendCompleteIInv ==
    ASSUME IInv, SendComplete
    PROVE  IInv'
<1>1. ComplianceTypeOK /\ LastSentIsPending /\ DeltaHasBase /\ PackHasLastBase
      /\ ClustersAreReported
  BY DEF IInv
<1> DEFINE open == NonCompliantRows(truth)
           S == {p \in Policies : \E c \in Clusters : open[p][c] # None}
           objects == [p \in S |-> open[p]]
           bundle == [ver |-> sent["completeCompliance"] + 1, base |-> sent["clustersPerPolicy"],
                      objects |-> objects]
<1>2. /\ UNCHANGED <<aggregationLevel, inProcess, lastProcessed, rows, minimalRows,
                     writtenClusters, brokenReads, droppedRows, truth>>
      /\ aggregationLevel = "full" /\ changed' = {} /\ owesComplete' = FALSE
      /\ sent' = [sent EXCEPT !["completeCompliance"] = sent["completeCompliance"] + 1]
      /\ Deliver("completeCompliance", bundle)
  BY DEF SendComplete, LeafHubStep, dbVars
<1>3. /\ truth \in Table /\ sent \in [Kinds -> Nat] /\ lastProcessed \in [Kinds -> Nat]
      /\ pending \in [Kinds -> Bundle \cup {Nil}]
      /\ "clustersPerPolicy" \in Kinds /\ "completeCompliance" \in Kinds
      /\ "deltaCompliance" \in Kinds
  BY <1>1 DEF ComplianceTypeOK, Kinds
<1>4. ASSUME NEW p \in Policies, NEW c \in Clusters
      PROVE  /\ open[p][c] = IF truth[p][c] = "compliant" THEN None ELSE truth[p][c]
             /\ open[p][c] \in {"non_compliant", "unknown", None}
             /\ Listed(objects, p, c) = open[p][c]
             /\ truth[p][c] # None =>
                  truth[p][c] = IF Listed(objects, p, c) # None THEN Listed(objects, p, c)
                                                               ELSE "compliant"
  <2>1. truth[p][c] \in {"compliant", "non_compliant", "unknown", None}
    BY <1>3 DEF Table, ComplianceStatuses
  <2>2. open[p][c] = IF truth[p][c] = "compliant" THEN None ELSE truth[p][c]
    BY DEF NonCompliantRows
  <2>3. "compliant" # None
    BY DEF None
  <2> HIDE DEF open
  <2>4. Listed(objects, p, c) = open[p][c]
    BY DEF Listed
  <2>. QED
    BY <2>1, <2>2, <2>3, <2>4
<1>5. objects \in CompleteObjects
  <2>1. S \in SUBSET Policies
    OBVIOUS
  <2>2. open = [p \in Policies |-> [c \in Clusters |-> open[p][c]]]
    BY DEF NonCompliantRows
  <2> HIDE DEF open
  <2>3. open \in [Policies -> [Clusters -> {"non_compliant", "unknown", None}]]
    BY <1>4, <2>2
  <2>4. objects \in [S -> [Clusters -> {"non_compliant", "unknown", None}]]
    BY <2>1, <2>3
  <2> HIDE DEF S, objects
  <2>. QED
    BY <2>1, <2>4 DEF CompleteObjects
<1> HIDE DEF objects, open, S
<1>6. bundle \in Bundle /\ bundle.objects = objects /\ bundle.ver = sent["completeCompliance"] + 1
      /\ bundle.base = sent["clustersPerPolicy"]
  BY <1>3, <1>5, CompleteObjectsAreLists DEF Bundle
<1> HIDE DEF bundle
<1>7. /\ pending' \in [Kinds -> Bundle \cup {Nil}]
      /\ pending'["completeCompliance"] = bundle /\ bundle # Nil
      /\ \A k \in Kinds \ {"completeCompliance"} : pending'[k] = pending[k]
  BY <1>2, <1>3, <1>6, Delivered
<1>8. sent' \in [Kinds -> Nat] /\ sent'["completeCompliance"] = sent["completeCompliance"] + 1
      /\ \A k \in Kinds \ {"completeCompliance"} : sent'[k] = sent[k]
  BY <1>2, <1>3
<1>9. pending'["clustersPerPolicy"] = pending["clustersPerPolicy"]
      /\ pending'["deltaCompliance"] = pending["deltaCompliance"]
      /\ sent'["clustersPerPolicy"] = sent["clustersPerPolicy"]
  BY <1>3, <1>7, <1>8
<1>10. ComplianceTypeOK'
  BY <1>1, <1>2, <1>5, <1>6, <1>7, <1>8, <1>9 DEF ComplianceTypeOK
<1>11. LastSentIsPending'
  <2>1. lastProcessed["completeCompliance"] <= sent["completeCompliance"]
    BY <1>1, <1>3 DEF LastSentIsPending
  <2>. QED
    BY <1>1, <1>2, <1>3, <1>6, <1>7, <1>8, <1>9, <2>1 DEF LastSentIsPending
<1>12. pending["deltaCompliance"] # Nil =>
          /\ pending["deltaCompliance"].base <= sent["completeCompliance"]
          /\ pending["deltaCompliance"].base \in Nat
  BY <1>1, <1>3 DEF DeltaHasBase, Bundle
<1>13. DeltaHasBase' /\ PackHasLastBase'
  BY <1>1, <1>2, <1>3, <1>8, <1>9, <1>12 DEF DeltaHasBase, PackHasLastBase
<1>18. inProcess # Nil =>
          /\ inProcess.base <= sent["completeCompliance"]
          /\ inProcess.base \in Nat
  BY <1>1, <1>3 DEF LastSentIsPending, PackHasLastBase
<1>14. CompleteHasLastBase'
  BY <1>6, <1>7, <1>9 DEF CompleteHasLastBase
<1>15. ClustersAreReported'
  BY <1>1, <1>2, <1>9 DEF ClustersAreReported, Listed
<1>16. ComplianceIsReported'
  <2>1. SUFFICES ASSUME NEW p \in Policies, NEW c \in Clusters, truth'[p][c] # None
                 PROVE  IsReported(p, c)'
    BY DEF ComplianceIsReported
  <2>2. DeltaOf(p, c)' = None
    BY <1>2, <1>3, <1>8, <1>9, <1>12, <1>18 DEF DeltaOf, PackOf
  <2>3. truth'[p][c] = IF Listed(objects, p, c) # None THEN Listed(objects, p, c) ELSE "compliant"
    BY <1>2, <1>4, <2>1
  <2>4. Listed(pending'["completeCompliance"].objects, p, c) = Listed(objects, p, c)
    BY <1>6, <1>7
  <2>. QED
    BY <1>7, <2>2, <2>3, <2>4 DEF IsReported
<1>17. SummariesAreReported' /\ RowsAreOfWrittenClusters'
  BY <1>2 DEF IInv, SummariesAreReported, RowsAreOfWrittenClusters, Listed
<1>. QED
  BY <1>10, <1>11, <1>13, <1>14, <1>15, <1>16, <1>17 DEF IInv

\* A delta lists what changed; it keeps what a pending delta on the same base says.
LEMMA SendDeltaIInv ==
    ASSUME IInv, SendDelta
    PROVE  IInv'
<1>1. ComplianceTypeOK /\ LastSentIsPending /\ CompleteHasLastBase
      /\ ClustersAreReported /\ ComplianceIsReported
  BY DEF IInv
<1> DEFINE old == pending["deltaCompliance"]
           base == sent["completeCompliance"]
           objects == IF old # Nil /\ old.base = base
                        THEN inheritObjects(ChangedObjects, old.objects) ELSE ChangedObjects
           bundle == [ver |-> sent["deltaCompliance"] + 1, base |-> base, objects |-> objects]
<1>2. /\ UNCHANGED <<aggregationLevel, inProcess, lastProcessed, rows, minimalRows,
                     writtenClusters, brokenReads, droppedRows, truth, owesComplete>>
      /\ aggregationLevel = "full" /\ changed' = {} /\ ~owesComplete
      /\ sent' = [sent EXCEPT !["deltaCompliance"] = sent["deltaCompliance"] + 1]
      /\ Deliver("deltaCompliance", bundle)
  BY DEF SendDelta, LeafHubStep, dbVars
<1>3. /\ truth \in Table /\ sent \in [Kinds -> Nat] /\ lastProcessed \in [Kinds -> Nat]
      /\ pending \in [Kinds -> Bundle \cup {Nil}] /\ changed \in SUBSET (Policies \X Clusters)
      /\ old # Nil => old.objects \in ObjectLists
      /\ "clustersPerPolicy" \in Kinds /\ "completeCompliance" \in Kinds
      /\ "deltaCompliance" \in Kinds
  BY <1>1 DEF ComplianceTypeOK, Kinds
<1>4. ChangedObjects \in ObjectLists
  <2> DEFINE S == {k[1] : k \in changed}
  <2>1. S \in SUBSET Policies
    BY <1>3
  <2>2. \A p \in S, c \in Clusters : truth[p][c] \in ComplianceStatuses \cup {None}
    BY <1>3, <2>1 DEF Table
  <2>3. ChangedObjects = [p \in S |-> [c \in Clusters |->
                             IF <<p, c>> \in changed THEN truth[p][c] ELSE None]]
    BY DEF ChangedObjects
  <2> HIDE DEF S
  <2>4. ChangedObjects \in [S -> [Clusters -> ComplianceStatuses \cup {None}]]
    BY <2>2, <2>3
  <2>. QED
    BY <2>1, <2>4 DEF ObjectLists
<1>5. ASSUME NEW p \in Policies, NEW c \in Clusters
      PROVE  Listed(ChangedObjects, p, c) = IF <<p, c>> \in changed THEN truth[p][c] ELSE None
  <2> DEFINE S == {k[1] : k \in changed}
  <2>1. ChangedObjects = [q \in S |-> [d \in Clusters |->
                             IF <<q, d>> \in changed THEN truth[q][d] ELSE None]]
    BY DEF ChangedObjects
  <2>2. <<p, c>> \in changed => p \in S
    BY <1>3
  <2> HIDE DEF S
  <2>. QED
    BY <2>1, <2>2 DEF Listed
<1>6. objects \in ObjectLists
  BY <1>3, <1>4, inheritObjectsType
<1>7. ASSUME NEW p \in Policies, NEW c \in Clusters, truth[p][c] # None
      PROVE  Listed(objects, p, c) = IF <<p, c>> \in changed THEN truth[p][c] ELSE PackOf(old, p, c)
  <2>1. CASE old # Nil /\ old.base = base
    <3>1. Listed(objects, p, c) = Listed(inheritObjects(ChangedObjects, old.objects), p, c)
      BY <2>1
    <3>2. Listed(inheritObjects(ChangedObjects, old.objects), p, c) =
            IF Listed(ChangedObjects, p, c) # None THEN Listed(ChangedObjects, p, c)
                                                   ELSE Listed(old.objects, p, c)
      BY inheritObjectsListed
    <3>3. PackOf(old, p, c) = Listed(old.objects, p, c)
      BY <2>1 DEF PackOf
    <3>. QED
      BY <1>5, <1>7, <3>1, <3>2, <3>3
  <2>2. CASE ~(old # Nil /\ old.base = base)
    <3>1. Listed(objects, p, c) = Listed(ChangedObjects, p, c)
      BY <2>2
    <3>2. PackOf(old, p, c) = None
      BY <2>2 DEF PackOf
    <3>. QED
      BY <1>5, <3>1, <3>2
  <2>. QED
    BY <2>1, <2>2
<1> HIDE DEF objects
<1>8. bundle \in Bundle /\ bundle.objects = objects /\ bundle.base = sent["completeCompliance"]
  BY <1>3, <1>6 DEF Bundle
<1> HIDE DEF bundle
<1>9. /\ pending' \in [Kinds -> Bundle \cup {Nil}]
      /\ pending'["deltaCompliance"] = bundle /\ bundle # Nil
      /\ \A k \in Kinds \ {"deltaCompliance"} : pending'[k] = pending[k]
  BY <1>2, <1>3, <1>8, Delivered
<1>10. sent' \in [Kinds -> Nat] /\ \A k \in Kinds \ {"deltaCompliance"} : sent'[k] = sent[k]
  BY <1>2, <1>3
<1>11. pending'["clustersPerPolicy"] = pending["clustersPerPolicy"]
      /\ pending'["completeCompliance"] = pending["completeCompliance"]
      /\ sent'["clustersPerPolicy"] = sent["clustersPerPolicy"]
      /\ sent'["completeCompliance"] = sent["completeCompliance"]
  BY <1>3, <1>9, <1>10
<1>12. ComplianceTypeOK'
  BY <1>1, <1>2, <1>6, <1>8, <1>9, <1>10, <1>11 DEF ComplianceTypeOK
<1>13. LastSentIsPending' /\ CompleteHasLastBase'
  BY <1>1, <1>2, <1>11 DEF LastSentIsPending, CompleteHasLastBase
<1>14. DeltaHasBase' /\ PackHasLastBase'
  BY <1>2, <1>3, <1>8, <1>9, <1>11 DEF IInv, DeltaHasBase, PackHasLastBase
<1>15. ClustersAreReported'
  BY <1>1, <1>2, <1>11 DEF ClustersAreReported, Listed
<1>16. ComplianceIsReported'
  <2>1. SUFFICES ASSUME NEW p \in Policies, NEW c \in Clusters, truth'[p][c] # None
                 PROVE  IsReported(p, c)'
    BY DEF ComplianceIsReported
  <2>2. DeltaOf(p, c)' = IF Listed(objects, p, c) # None THEN Listed(objects, p, c)
                                                         ELSE PackOf(inProcess, p, c)
    BY <1>2, <1>8, <1>9, <1>11 DEF DeltaOf, PackOf
  <2>3. truth[p][c] = truth'[p][c] /\ truth[p][c] # None
    BY <1>2, <2>1
  <2>4. CASE <<p, c>> \in changed
    BY <1>7, <2>2, <2>3, <2>4 DEF IsReported
  <2>5. CASE <<p, c>> \notin changed
    <3>1. IsReported(p, c)
      BY <1>1, <1>2, <2>3, <2>5 DEF ComplianceIsReported
    <3>2. DeltaOf(p, c)' = DeltaOf(p, c)
      BY <1>7, <2>2, <2>3, <2>5 DEF DeltaOf
    <3>3. Listed(pending'["completeCompliance"].objects, p, c)
            = Listed(pending["completeCompliance"].objects, p, c)
      BY <1>11
    <3>. QED
      BY <1>2, <1>11, <2>3, <3>1, <3>2, <3>3 DEF IsReported
  <2>. QED
    BY <2>4, <2>5
<1>17. SummariesAreReported' /\ RowsAreOfWrittenClusters'
  BY <1>2 DEF IInv, SummariesAreReported, RowsAreOfWrittenClusters, Listed
<1>. QED
  BY <1>12, <1>13, <1>14, <1>15, <1>16, <1>17 DEF IInv

\* A minimal bundle holds the counters of every policy that has clusters.
LEMMA SendMinimalIInv ==
    ASSUME IInv, SendMinimal
    PROVE  IInv'
<1>1. ComplianceTypeOK /\ LastSentIsPending /\ DeltaHasBase
  BY DEF IInv
<1> DEFINE bundle == [ver |-> sent["minimalCompliance"] + 1, base |-> 0, objects |-> Summaries]
<1>2. /\ UNCHANGED <<aggregationLevel, inProcess, lastProcessed, rows, minimalRows,
                     writtenClusters, brokenReads, droppedRows, truth>>
      /\ aggregationLevel = "minimal" /\ changed' = {} /\ owesComplete' = FALSE
      /\ sent' = [sent EXCEPT !["minimalCompliance"] = sent["minimalCompliance"] + 1]
      /\ Deliver("minimalCompliance", bundle)
  BY DEF SendMinimal, LeafHubStep, dbVars, Summaries
<1>3. /\ sent \in [Kinds -> Nat] /\ pending \in [Kinds -> Bundle \cup {Nil}]
      /\ Kinds = {"clustersPerPolicy", "completeCompliance", "deltaCompliance", "minimalCompliance"}
  BY <1>1 DEF ComplianceTypeOK, Kinds
<1>4. Summaries \in SummaryLists
  <2> DEFINE S == {q \in Policies : Summary(truth, q) # Nil}
  <2>1. ASSUME NEW p \in S PROVE Summary(truth, p) \in Counter \X Counter
    <3> DEFINE applied == {c \in Clusters : truth[p][c] # None}
               open == {c \in applied : truth[p][c] # "compliant"}
    <3>1. Summary(truth, p) = <<Cardinality(applied), Cardinality(open)>>
      BY DEF Summary
    <3>2. Cardinality(Clusters) \in Nat /\ Cardinality(applied) \in Nat /\ Cardinality(open) \in Nat
          /\ Cardinality(applied) <= Cardinality(Clusters)
          /\ Cardinality(open) <= Cardinality(Clusters)
      BY FiniteAssumption, FS_Subset, FS_CardinalityType
    <3> HIDE DEF applied, open
    <3>. QED
      BY <3>1, <3>2 DEF Counter
  <2>2. S \in SUBSET Policies
    OBVIOUS
  <2>3. Summaries = [p \in S |-> Summary(truth, p)]
    BY DEF Summaries
  <2> HIDE DEF S
  <2>4. Summaries \in [S -> Counter \X Counter]
    BY <2>1, <2>3
  <2>. QED
    BY <2>2, <2>4 DEF SummaryLists
<1>5. bundle \in Bundle /\ bundle.objects = Summaries
  BY <1>3, <1>4 DEF Bundle
<1> HIDE DEF bundle
<1>6. /\ pending' \in [Kinds -> Bundle \cup {Nil}]
      /\ pending'["minimalCompliance"] = bundle /\ bundle # Nil
      /\ \A k \in Kinds \ {"minimalCompliance"} : pending'[k] = pending[k]
  BY <1>2, <1>3, <1>5, Delivered
<1>7. sent' \in [Kinds -> Nat] /\ \A k \in Kinds \ {"minimalCompliance"} : sent'[k] = sent[k]
  BY <1>2, <1>3
<1>8. \A k \in {"clustersPerPolicy", "completeCompliance", "deltaCompliance"} :
         pending'[k] = pending[k] /\ sent'[k] = sent[k]
  BY <1>3, <1>6, <1>7
<1>9. ComplianceTypeOK'
  BY <1>1, <1>2, <1>6, <1>7, <1>8 DEF ComplianceTypeOK
<1>10. LastSentIsPending' /\ DeltaHasBase' /\ PackHasLastBase'
  BY <1>1, <1>2, <1>8 DEF IInv, LastSentIsPending, DeltaHasBase, PackHasLastBase
<1>11. CompleteHasLastBase' /\ ClustersAreReported' /\ ComplianceIsReported'
  BY <1>2 DEF CompleteHasLastBase, ClustersAreReported, ComplianceIsReported
<1>12. Summaries' = Summaries
  BY <1>2 DEF Summaries, Summary
<1>13. SummariesAreReported'
  BY <1>5, <1>6, <1>12 DEF SummariesAreReported
<1>14. RowsAreOfWrittenClusters'
  BY <1>2 DEF IInv, RowsAreOfWrittenClusters, Listed
<1>. QED
  BY <1>9, <1>10, <1>11, <1>13, <1>14 DEF IInv

------------------------------------------------------------------------------
(* The steps of the handlers *)

\* The conjuncts that a handler of the other tables leaves alone.
LEMMA HandlerFrame ==
    ASSUME IInv, UNCHANGED <<hubVars, minimalRows>>,
           NEW kind \in {"clustersPerPolicy", "completeCompliance", "deltaCompliance"},
           pending'["minimalCompliance"] = pending["minimalCompliance"],
           brokenReads' \in {brokenReads, brokenReads \ {kind}, brokenReads \cup {kind}}
    PROVE  SummariesAreReported'
<1>1. "minimalCompliance" \in brokenReads' <=> "minimalCompliance" \in brokenReads
  OBVIOUS
<1>2. UNCHANGED <<aggregationLevel, changed, owesComplete, truth, minimalRows>>
  BY DEF hubVars
<1>3. Summaries' = Summaries /\ \A p \in Policies : Summary(truth, p)' = Summary(truth, p)
  BY <1>2 DEF Summaries, Summary
<1>. QED
  BY <1>1, <1>2, <1>3 DEF IInv, SummariesAreReported

\* The clusters-per-policy bundle makes the rows what it lists; the complete bundle
\* on it is still to come.
LEMMA handleClustersPerPolicyBundleIInv ==
    ASSUME IInv, NEW acknowledged \in BOOLEAN, handleClustersPerPolicyBundle(acknowledged),
           RowsAreOfWrittenClusters'
    PROVE  IInv'
<1> DEFINE kind == "clustersPerPolicy"
           objects == pending[kind].objects
<1>1. ComplianceTypeOK /\ LastSentIsPending /\ DeltaHasBase /\ CompleteHasLastBase
      /\ ClustersAreReported /\ ComplianceIsReported
  BY DEF IInv
<1>2. PICK read \in ReadRows(rows) :
        SendBatch(kind, clustersPerPolicyBatch(read, objects), read = rows, acknowledged)
  BY DEF handleClustersPerPolicyBundle
<1> DEFINE batch == clustersPerPolicyBatch(read, objects)
           readIsComplete == read = rows
<1>3. pending[kind] # Nil /\ UNCHANGED <<hubVars, inProcess, minimalRows>>
      /\ inProcess = Nil
  BY DEF handleClustersPerPolicyBundle, IsIdle
<1>4. UNCHANGED <<aggregationLevel, truth, changed, owesComplete, sent>>
  BY <1>3 DEF hubVars
<1>5. kind \in Kinds /\ "completeCompliance" \in Kinds /\ "deltaCompliance" \in Kinds
      /\ "minimalCompliance" \in Kinds
  BY DEF Kinds
<1>6. objects \in ObjectLists /\ rows \in Table /\ pending[kind].ver = sent[kind]
      /\ lastProcessed[kind] < sent[kind] /\ sent[kind] \in Nat /\ lastProcessed[kind] \in Nat
  BY <1>1, <1>3, <1>5 DEF ComplianceTypeOK, LastSentIsPending
<1>7. batch.inserts \in Table /\ batch.updateClusters \in Table
  BY <1>6, ReadRowsType, BatchType
<1>8. readIsComplete \in BOOLEAN /\ SendBatch(kind, batch, readIsComplete, acknowledged)
  BY <1>2
<1> HIDE DEF batch, readIsComplete
<1>9. /\ \/ UNCHANGED <<rows, lastProcessed, pending, writtenClusters, brokenReads>>
         \/ /\ rows' = ExecuteBatch(rows, batch)
            /\ writtenClusters' = objects
            /\ brokenReads' = IF readIsComplete THEN brokenReads \ {kind}
                                               ELSE brokenReads \cup {kind}
            /\ \/ UNCHANGED <<lastProcessed, pending>>
               \/ /\ pending'[kind] = Nil
                  /\ lastProcessed'[kind] = pending[kind].ver
                  /\ \A k \in Kinds \ {kind} :
                       pending'[k] = pending[k] /\ lastProcessed'[k] = lastProcessed[k]
      /\ rows' \in Table
      /\ pending' \in [Kinds -> Bundle \cup {Nil}]
      /\ lastProcessed' \in [Kinds -> Nat]
  BY <1>1, <1>3, <1>5, <1>7, <1>8, BatchOutcome
<1>10. /\ pending'["completeCompliance"] = pending["completeCompliance"]
       /\ pending'["deltaCompliance"] = pending["deltaCompliance"]
       /\ pending'["minimalCompliance"] = pending["minimalCompliance"]
       /\ lastProcessed'["completeCompliance"] = lastProcessed["completeCompliance"]
       /\ \/ pending'[kind] = pending[kind] /\ lastProcessed'[kind] = lastProcessed[kind]
          \/ pending'[kind] = Nil /\ lastProcessed'[kind] = sent[kind] /\ writtenClusters' = objects
  BY <1>5, <1>6, <1>9
<1>11. ComplianceTypeOK'
  BY <1>1, <1>3, <1>4, <1>9, <1>10 DEF ComplianceTypeOK
<1>12. LastSentIsPending'
  BY <1>1, <1>4, <1>10 DEF LastSentIsPending
<1>13. DeltaHasBase' /\ PackHasLastBase'
  BY <1>1, <1>3, <1>4, <1>10 DEF DeltaHasBase, PackHasLastBase
<1>14. CompleteHasLastBase'
  BY <1>1, <1>4, <1>10 DEF CompleteHasLastBase
<1>15. ClustersAreReported'
  BY <1>1, <1>3, <1>4, <1>10 DEF ClustersAreReported
<1>16. ComplianceIsReported'
  <2>1. SUFFICES ASSUME aggregationLevel = "full", ~owesComplete,
                        NEW p \in Policies, NEW c \in Clusters,
                        truth[p][c] # None, <<p, c>> \notin changed
                 PROVE  IsReported(p, c)'
    BY <1>4 DEF ComplianceIsReported
  <2>2. IsReported(p, c)
    BY <1>1, <2>1 DEF ComplianceIsReported
  <2>3. pending["completeCompliance"] # Nil
    BY <1>1, <1>6, <2>1 DEF CompleteHasLastBase
  <2>4. DeltaOf(p, c)' = DeltaOf(p, c)
    BY <1>3, <1>4, <1>10 DEF DeltaOf, PackOf
  <2>. QED
    BY <1>4, <1>10, <2>2, <2>3, <2>4 DEF IsReported
<1>17. SummariesAreReported'
  BY <1>3, <1>9, <1>10, HandlerFrame
<1>. QED
  BY <1>11, <1>12, <1>13, <1>14, <1>15, <1>16, <1>17 DEF IInv

\* The complete bundle corrects every row there is, and its base is the last
\* clusters-per-policy bundle, unless the leaf hub owes another complete bundle.
LEMMA handleCompleteComplianceBundleIInv ==
    ASSUME IInv, NEW acknowledged \in BOOLEAN, handleCompleteComplianceBundle(acknowledged),
           RowsAreOfWrittenClusters'
    PROVE  IInv'
<1> DEFINE kind == "completeCompliance"
           objects == pending[kind].objects
<1>1. ComplianceTypeOK /\ LastSentIsPending /\ DeltaHasBase /\ CompleteHasLastBase
      /\ ClustersAreReported /\ ComplianceIsReported /\ RowsAreOfWrittenClusters
  BY DEF IInv
<1>2. PICK read \in ReadRows(NonCompliantRows(rows)) :
        SendBatch(kind, completeComplianceBatch(read, objects),
                  read = NonCompliantRows(rows), acknowledged)
  BY DEF handleCompleteComplianceBundle
<1> DEFINE batch == completeComplianceBatch(read, objects)
           readIsComplete == read = NonCompliantRows(rows)
<1>3. pending[kind] # Nil /\ UNCHANGED <<hubVars, inProcess, minimalRows>>
      /\ inProcess = Nil
      /\ pending[kind].base = lastProcessed["clustersPerPolicy"]
  BY DEF handleCompleteComplianceBundle, IsIdle
<1>4. UNCHANGED <<aggregationLevel, truth, changed, owesComplete, sent>>
  BY <1>3 DEF hubVars
<1>5. kind \in Kinds /\ "clustersPerPolicy" \in Kinds /\ "deltaCompliance" \in Kinds
      /\ "minimalCompliance" \in Kinds
  BY DEF Kinds
<1>6. objects \in CompleteObjects /\ rows \in Table /\ pending[kind].ver = sent[kind]
      /\ sent["clustersPerPolicy"] \in Nat /\ lastProcessed["clustersPerPolicy"] \in Nat
  BY <1>1, <1>3, <1>5 DEF ComplianceTypeOK, LastSentIsPending
<1>7. batch.inserts \in Table /\ batch.updateClusters \in Table
  BY <1>6, ReadRowsType, CompleteObjectsAreLists, BatchType
<1>8. readIsComplete \in BOOLEAN /\ SendBatch(kind, batch, readIsComplete, acknowledged)
  BY <1>2
<1> HIDE DEF batch, readIsComplete
<1>9. /\ \/ UNCHANGED <<rows, lastProcessed, pending, writtenClusters, brokenReads>>
         \/ /\ rows' = ExecuteBatch(rows, batch)
            /\ writtenClusters' = writtenClusters
            /\ brokenReads' = IF readIsComplete THEN brokenReads \ {kind}
                                               ELSE brokenReads \cup {kind}
            /\ \/ UNCHANGED <<lastProcessed, pending>>
               \/ /\ pending'[kind] = Nil
                  /\ lastProcessed'[kind] = pending[kind].ver
                  /\ \A k \in Kinds \ {kind} :
                       pending'[k] = pending[k] /\ lastProcessed'[k] = lastProcessed[k]
      /\ rows' \in Table
      /\ pending' \in [Kinds -> Bundle \cup {Nil}]
      /\ lastProcessed' \in [Kinds -> Nat]
  BY <1>1, <1>3, <1>5, <1>7, <1>8, BatchOutcome
<1>10. /\ pending'["clustersPerPolicy"] = pending["clustersPerPolicy"]
       /\ pending'["deltaCompliance"] = pending["deltaCompliance"]
       /\ pending'["minimalCompliance"] = pending["minimalCompliance"]
       /\ lastProcessed'["clustersPerPolicy"] = lastProcessed["clustersPerPolicy"]
       /\ writtenClusters' = writtenClusters
       /\ \/ pending'[kind] = pending[kind] /\ lastProcessed'[kind] = lastProcessed[kind]
          \/ /\ pending'[kind] = Nil
             /\ lastProcessed'[kind] = sent[kind]
             /\ rows' = ExecuteBatch(rows, batch)
             /\ brokenReads' = IF readIsComplete THEN brokenReads \ {kind}
                                                ELSE brokenReads \cup {kind}
  BY <1>5, <1>6, <1>9
<1>11. ComplianceTypeOK'
  BY <1>1, <1>3, <1>4, <1>9, <1>10 DEF ComplianceTypeOK
<1>12. LastSentIsPending'
  BY <1>1, <1>4, <1>10 DEF LastSentIsPending
<1>13. DeltaHasBase' /\ PackHasLastBase'
  BY <1>1, <1>3, <1>4, <1>10 DEF DeltaHasBase, PackHasLastBase
<1>14. CompleteHasLastBase'
  BY <1>1, <1>3, <1>4, <1>10 DEF CompleteHasLastBase
<1>15. ClustersAreReported'
  BY <1>1, <1>4, <1>10 DEF ClustersAreReported, Listed
<1>16. ComplianceIsReported'
  <2>1. SUFFICES ASSUME aggregationLevel = "full", ~owesComplete,
                        NEW p \in Policies, NEW c \in Clusters,
                        truth[p][c] # None, <<p, c>> \notin changed
                 PROVE  IsReported(p, c)'
    BY <1>4 DEF ComplianceIsReported
  <2>2. IsReported(p, c)
    BY <1>1, <2>1 DEF ComplianceIsReported
  <2>3. DeltaOf(p, c)' = DeltaOf(p, c)
    BY <1>3, <1>4, <1>10 DEF DeltaOf, PackOf
  <2>4. CASE DeltaOf(p, c) # None
    BY <1>4, <2>2, <2>3, <2>4 DEF IsReported
  <2>5. CASE DeltaOf(p, c) = None /\ pending'[kind] = pending[kind]
    BY <1>3, <1>4, <2>2, <2>3, <2>5 DEF IsReported
  <2>6. CASE /\ DeltaOf(p, c) = None /\ pending'[kind] = Nil
             /\ rows' = ExecuteBatch(rows, batch)
             /\ brokenReads' = IF readIsComplete THEN brokenReads \ {kind}
                                                ELSE brokenReads \cup {kind}
    <3>1. SUFFICES ASSUME {"clustersPerPolicy", "completeCompliance"} \cap brokenReads' = {}
                   PROVE  rows'[p][c] = truth'[p][c]
      BY <2>3, <2>6 DEF IsReported
    <3>2. readIsComplete /\ "clustersPerPolicy" \notin brokenReads
      BY <2>6, <3>1
    <3>3. pending["clustersPerPolicy"] = Nil
      BY <1>1, <1>3, <1>6, <2>1 DEF CompleteHasLastBase, LastSentIsPending
    <3>4. rows[p][c] # None
      BY <1>1, <2>1, <3>2, <3>3 DEF RowsAreOfWrittenClusters, ClustersAreReported
    <3>5. batch = completeComplianceBatch(NonCompliantRows(rows), objects)
      BY <3>2 DEF batch, readIsComplete
    <3>6. rows'[p][c] = IF Listed(objects, p, c) # None THEN Listed(objects, p, c)
                                                        ELSE "compliant"
      BY <1>6, <2>6, <3>4, <3>5, CompleteComplianceUpdatesRows
    <3>7. truth[p][c] = IF Listed(objects, p, c) # None THEN Listed(objects, p, c)
                                                        ELSE "compliant"
      BY <1>3, <2>2, <2>6 DEF IsReported
    <3>. QED
      BY <1>4, <3>6, <3>7
  <2>. QED
    BY <1>10, <2>4, <2>5, <2>6
<1>17. SummariesAreReported'
  BY <1>3, <1>9, <1>10, HandlerFrame
<1>. QED
  BY <1>11, <1>12, <1>13, <1>14, <1>15, <1>16, <1>17 DEF IInv

\* The pack of deltas is taken from the pending bundles; nothing else changes.
LEMMA GetNextDeltaIInv ==
    ASSUME IInv, GetNextDelta
    PROVE  IInv'
<1> DEFINE kind == "deltaCompliance"
<1>1. ComplianceTypeOK /\ LastSentIsPending /\ CompleteHasLastBase
      /\ ClustersAreReported /\ ComplianceIsReported /\ RowsAreOfWrittenClusters
  BY DEF IInv
<1>2. /\ inProcess = Nil /\ inProcess' = pending[kind] /\ pending[kind] # Nil
      /\ pending[kind].base = lastProcessed["completeCompliance"]
      /\ pending' = [pending EXCEPT ![kind] = Nil]
      /\ UNCHANGED <<aggregationLevel, truth, changed, owesComplete, sent, lastProcessed, rows,
                     minimalRows, writtenClusters, brokenReads, droppedRows>>
  BY DEF GetNextDelta, IsIdle, hubVars, dbVars
<1>3. pending \in [Kinds -> Bundle \cup {Nil}] /\ kind \in Kinds
      /\ Kinds = {"clustersPerPolicy", "completeCompliance", "deltaCompliance", "minimalCompliance"}
  BY <1>1 DEF ComplianceTypeOK, Kinds
<1>4. /\ pending' \in [Kinds -> Bundle \cup {Nil}] /\ pending'[kind] = Nil
      /\ \A k \in {"clustersPerPolicy", "completeCompliance", "minimalCompliance"} :
            pending'[k] = pending[k]
  BY <1>2, <1>3
<1>5. ComplianceTypeOK'
  BY <1>1, <1>2, <1>3, <1>4 DEF ComplianceTypeOK
<1>6. LastSentIsPending' /\ DeltaHasBase' /\ PackHasLastBase' /\ CompleteHasLastBase'
  BY <1>1, <1>2, <1>4
     DEF LastSentIsPending, DeltaHasBase, PackHasLastBase, CompleteHasLastBase
<1>7. ClustersAreReported' /\ RowsAreOfWrittenClusters'
  BY <1>1, <1>2, <1>4 DEF ClustersAreReported, RowsAreOfWrittenClusters, Listed
<1>8. ComplianceIsReported'
  <2>1. SUFFICES ASSUME NEW p \in Policies, NEW c \in Clusters, IsReported(p, c)
                 PROVE  IsReported(p, c)'
    BY <1>1, <1>2 DEF ComplianceIsReported
  <2>2. DeltaOf(p, c)' = DeltaOf(p, c)
    BY <1>2, <1>4 DEF DeltaOf, PackOf
  <2>. QED
    BY <1>2, <1>4, <2>1, <2>2 DEF IsReported
<1>9. SummariesAreReported'
  <2>1. Summaries' = Summaries /\ \A p \in Policies : Summary(truth, p)' = Summary(truth, p)
    BY <1>2 DEF Summaries, Summary
  <2>. QED
    BY <1>2, <1>4, <2>1 DEF IInv, SummariesAreReported
<1>. QED
  BY <1>5, <1>6, <1>7, <1>8, <1>9 DEF IInv

\* The delta updates the rows it lists, which exist unless the leaf hub owes a
\* complete bundle; a pack that failed is pending again or its rows are dropped.
LEMMA handleDeltaComplianceBundleIInv ==
    ASSUME IInv, NEW written \in BOOLEAN, NEW acknowledged \in BOOLEAN,
           handleDeltaComplianceBundle(written, acknowledged),
           RowsAreOfWrittenClusters'
    PROVE  IInv'
<1> DEFINE kind == "deltaCompliance"
           objects == inProcess.objects
           batch == deltaComplianceBatch(objects)
<1>1. ComplianceTypeOK /\ LastSentIsPending /\ DeltaHasBase /\ PackHasLastBase
      /\ CompleteHasLastBase /\ ClustersAreReported /\ ComplianceIsReported
      /\ RowsAreOfWrittenClusters
  BY DEF IInv
<1>2. /\ inProcess # Nil /\ inProcess' = Nil
      /\ acknowledged => written
      /\ rows' = IF written THEN ExecuteBatch(rows, batch) ELSE rows
      /\ droppedRows' = IF written THEN droppedRows \ RowsOf(inProcess)
                          ELSE IF ~acknowledged /\ pending[kind] # Nil
                            THEN droppedRows \cup RowsOf(inProcess)
                          ELSE droppedRows
      /\ pending' = IF acknowledged THEN pending ELSE handleFailure(inProcess)
      /\ lastProcessed' = IF acknowledged THEN [lastProcessed EXCEPT ![kind] = inProcess.ver]
                                          ELSE lastProcessed
      /\ UNCHANGED <<hubVars, minimalRows, writtenClusters, brokenReads>>
  BY DEF handleDeltaComplianceBundle, IsIdle
<1>3. UNCHANGED <<aggregationLevel, truth, changed, owesComplete, sent>>
  BY <1>2 DEF hubVars
<1>4. Kinds = {"clustersPerPolicy", "completeCompliance", "deltaCompliance", "minimalCompliance"}
      /\ pending \in [Kinds -> Bundle \cup {Nil}] /\ inProcess \in Bundle
      /\ objects \in ObjectLists /\ rows \in Table
      /\ sent \in [Kinds -> Nat] /\ lastProcessed \in [Kinds -> Nat]
  BY <1>1, <1>2 DEF ComplianceTypeOK, Kinds
<1>5. inProcess.ver \in Nat
  BY <1>4 DEF Bundle
<1>6. inProcess.base = lastProcessed["completeCompliance"]
  BY <1>1, <1>2 DEF PackHasLastBase
<1>7. batch.inserts \in Table /\ batch.updateClusters \in Table
  BY <1>4, BatchType
<1> HIDE DEF batch
<1>8. rows' \in Table
  <2>1. ExecuteBatch(rows, batch) \in Table
    BY <1>4, <1>7, ExecuteBatchType
  <2>. QED
    BY <1>2, <1>4, <2>1
<1>9. /\ pending' \in [Kinds -> Bundle \cup {Nil}]
      /\ pending'[kind] = IF ~acknowledged /\ pending[kind] = Nil THEN inProcess ELSE pending[kind]
      /\ \A k \in {"clustersPerPolicy", "completeCompliance", "minimalCompliance"} :
            pending'[k] = pending[k]
  BY <1>2, <1>4 DEF handleFailure
<1>10. /\ lastProcessed' \in [Kinds -> Nat]
       /\ \A k \in {"clustersPerPolicy", "completeCompliance"} : lastProcessed'[k] = lastProcessed[k]
  BY <1>2, <1>4, <1>5
<1>11. ComplianceTypeOK'
  BY <1>1, <1>2, <1>3, <1>4, <1>8, <1>9, <1>10 DEF ComplianceTypeOK
<1>12. LastSentIsPending' /\ CompleteHasLastBase' /\ PackHasLastBase'
  BY <1>1, <1>2, <1>3, <1>9, <1>10 DEF LastSentIsPending, CompleteHasLastBase, PackHasLastBase
<1>13. lastProcessed["completeCompliance"] <= sent["completeCompliance"]
  BY <1>1, <1>4 DEF LastSentIsPending
<1>14. DeltaHasBase'
  BY <1>1, <1>3, <1>6, <1>9, <1>13 DEF DeltaHasBase
<1>15. ClustersAreReported'
  BY <1>1, <1>2, <1>3, <1>9 DEF ClustersAreReported, Listed
<1>16. ComplianceIsReported'
  <2>1. SUFFICES ASSUME aggregationLevel = "full", ~owesComplete,
                        NEW p \in Policies, NEW c \in Clusters,
                        truth[p][c] # None, <<p, c>> \notin changed
                 PROVE  IsReported(p, c)'
    BY <1>3 DEF ComplianceIsReported
  <2>2. IsReported(p, c)
    BY <1>1, <2>1 DEF ComplianceIsReported
  <2>3. /\ PackOf(inProcess, p, c)' = None
        /\ PackOf(pending[kind], p, c)' =
             IF ~acknowledged /\ pending[kind] = Nil THEN PackOf(inProcess, p, c)
                                                     ELSE PackOf(pending[kind], p, c)
    BY <1>2, <1>3, <1>9 DEF PackOf
  <2>4. pending[kind] = Nil => PackOf(pending[kind], p, c) = None
    BY DEF PackOf
  <2>5. DeltaOf(p, c)' = DeltaOf(p, c) \/ DeltaOf(p, c)' = None
    BY <2>3, <2>4 DEF DeltaOf
  <2>6. CASE DeltaOf(p, c)' # None
    BY <1>3, <2>2, <2>5, <2>6 DEF IsReported
  <2>7. CASE DeltaOf(p, c)' = None /\ pending["completeCompliance"] # Nil
    <3>1. lastProcessed["completeCompliance"] # sent["completeCompliance"]
      BY <1>1, <1>4, <2>7 DEF LastSentIsPending
    <3>2. PackOf(inProcess, p, c) = None
      BY <1>6, <3>1 DEF PackOf
    <3>3. DeltaOf(p, c) = None
      BY <2>3, <2>4, <2>7, <3>2 DEF DeltaOf
    <3>. QED
      BY <1>3, <1>9, <2>2, <2>7, <3>3 DEF IsReported
  <2>8. CASE DeltaOf(p, c)' = None /\ pending["completeCompliance"] = Nil
    <3>1. SUFFICES ASSUME {"clustersPerPolicy", "completeCompliance"} \cap brokenReads = {}
                   PROVE  <<p, c>> \in droppedRows' \/ rows'[p][c] = truth[p][c]
      BY <1>2, <1>3, <1>9, <2>8 DEF IsReported
    <3>2. lastProcessed["completeCompliance"] = sent["completeCompliance"]
          /\ pending["clustersPerPolicy"] = Nil
      BY <1>1, <1>4, <2>1, <2>8 DEF LastSentIsPending, CompleteHasLastBase
    <3>3. PackOf(inProcess, p, c) = Listed(objects, p, c)
      BY <1>2, <1>6, <3>2 DEF PackOf
    <3>4. PackOf(pending[kind], p, c) = None
      BY <2>3, <2>4, <2>8 DEF DeltaOf
    <3>5. rows[p][c] # None
      BY <1>1, <2>1, <3>1, <3>2 DEF RowsAreOfWrittenClusters, ClustersAreReported
    <3>6. IF Listed(objects, p, c) # None
            THEN truth[p][c] = Listed(objects, p, c)
            ELSE <<p, c>> \in droppedRows \/ rows[p][c] = truth[p][c]
      BY <2>2, <2>8, <3>1, <3>3, <3>4 DEF IsReported, DeltaOf
    <3>7. <<p, c>> \in RowsOf(inProcess) <=> Listed(objects, p, c) # None
      BY DEF RowsOf
    <3>8. CASE written
      <4>1. rows'[p][c] = IF Listed(objects, p, c) # None THEN Listed(objects, p, c) ELSE rows[p][c]
        BY <1>2, <3>5, <3>8, DeltaUpdatesRow DEF batch
      <4>2. droppedRows' = droppedRows \ RowsOf(inProcess)
        BY <1>2, <3>8
      <4>. QED
        BY <3>6, <3>7, <4>1, <4>2
    <3>9. CASE ~written /\ Listed(objects, p, c) = None
      <4>1. rows' = rows /\ droppedRows \subseteq droppedRows'
        BY <1>2, <3>9
      <4>. QED
        BY <3>6, <3>9, <4>1
    <3>10. CASE ~written /\ Listed(objects, p, c) # None
      <4>1. ~acknowledged /\ pending[kind] # Nil
        BY <1>2, <2>3, <2>8, <3>3, <3>10 DEF DeltaOf
      <4>2. droppedRows' = droppedRows \cup RowsOf(inProcess)
        BY <1>2, <3>10, <4>1
      <4>. QED
        BY <3>7, <3>10, <4>2
    <3>. QED
      BY <3>8, <3>9, <3>10
  <2>. QED
    BY <2>6, <2>7, <2>8
<1>17. SummariesAreReported'
  BY <1>2, <1>9, HandlerFrame
<1>. QED
  BY <1>11, <1>12, <1>14, <1>15, <1>16, <1>17 DEF IInv

\* The handler of the aggregated table ends with the bundle's rows, or its bundle
\* stays pending.
LEMMA handleMinimalComplianceBundleIInv ==
    ASSUME IInv, handleMinimalComplianceBundle
    PROVE  IInv'
<1> DEFINE kind == "minimalCompliance"
           objects == pending[kind].objects
           stale == {p \in Policies \ DOMAIN objects : minimalRows[p] # Nil}
<1>1. ComplianceTypeOK /\ LastSentIsPending /\ DeltaHasBase /\ CompleteHasLastBase
      /\ ClustersAreReported /\ ComplianceIsReported
  BY DEF IInv
<1>2. PICK read \in SUBSET stale, updated \in SUBSET DOMAIN objects : \E deleted \in SUBSET read :
        /\ deleted # {} => updated = DOMAIN objects
        /\ minimalRows' = minimalRowsAfter(objects, updated, deleted)
        /\ Report("minimalCompliance", updated = DOMAIN objects /\ deleted = read)
        /\ brokenReads' = IF read = stale THEN brokenReads \ {"minimalCompliance"}
                                         ELSE brokenReads \cup {"minimalCompliance"}
  BY DEF handleMinimalComplianceBundle
<1>3. PICK deleted \in SUBSET read :
        /\ minimalRows' = minimalRowsAfter(objects, updated, deleted)
        /\ Report("minimalCompliance", updated = DOMAIN objects /\ deleted = read)
        /\ brokenReads' = IF read = stale THEN brokenReads \ {"minimalCompliance"}
                                         ELSE brokenReads \cup {"minimalCompliance"}
  BY <1>2
<1>4. pending[kind] # Nil /\ UNCHANGED <<hubVars, inProcess, rows, writtenClusters, droppedRows>>
      /\ inProcess = Nil
  BY DEF handleMinimalComplianceBundle, IsIdle
<1>5. UNCHANGED <<aggregationLevel, truth, changed, owesComplete, sent>>
  BY <1>4 DEF hubVars
<1>6. Kinds = {"clustersPerPolicy", "completeCompliance", "deltaCompliance", "minimalCompliance"}
      /\ pending \in [Kinds -> Bundle \cup {Nil}] /\ lastProcessed \in [Kinds -> Nat]
  BY <1>1 DEF Kinds, ComplianceTypeOK
<1>7. pending[kind].ver \in Nat
  BY <1>4, <1>6 DEF Bundle
<1>8. /\ pending' \in [Kinds -> Bundle \cup {Nil}] /\ lastProcessed' \in [Kinds -> Nat]
      /\ \A k \in Kinds \ {kind} : pending'[k] = pending[k] /\ lastProcessed'[k] = lastProcessed[k]
      /\ \/ pending'[kind] = pending[kind]
         \/ pending'[kind] = Nil /\ updated = DOMAIN objects /\ deleted = read
  BY <1>3, <1>6, <1>7 DEF Report
<1>9. /\ \A k \in {"clustersPerPolicy", "completeCompliance", "deltaCompliance"} :
            pending'[k] = pending[k] /\ lastProcessed'[k] = lastProcessed[k]
      /\ \A k \in {"clustersPerPolicy", "completeCompliance"} : k \in brokenReads' <=> k \in brokenReads
  BY <1>3, <1>6, <1>8
<1>10. ComplianceTypeOK'
  BY <1>1, <1>4, <1>5, <1>8, <1>9 DEF ComplianceTypeOK
<1>11. LastSentIsPending' /\ CompleteHasLastBase' /\ DeltaHasBase' /\ PackHasLastBase'
  BY <1>1, <1>4, <1>5, <1>9
     DEF LastSentIsPending, CompleteHasLastBase, DeltaHasBase, PackHasLastBase
<1>12. ClustersAreReported'
  BY <1>1, <1>4, <1>5, <1>9 DEF ClustersAreReported, Listed
<1>13. ComplianceIsReported'
  <2>1. SUFFICES ASSUME aggregationLevel = "full", ~owesComplete,
                        NEW p \in Policies, NEW c \in Clusters,
                        truth[p][c] # None, <<p, c>> \notin changed
                 PROVE  IsReported(p, c)'
    BY <1>5 DEF ComplianceIsReported
  <2>2. IsReported(p, c)
    BY <1>1, <2>1 DEF ComplianceIsReported
  <2>3. DeltaOf(p, c)' = DeltaOf(p, c)
    BY <1>4, <1>5, <1>9 DEF DeltaOf, PackOf
  <2>4. {"clustersPerPolicy", "completeCompliance"} \cap brokenReads' = {}
          => {"clustersPerPolicy", "completeCompliance"} \cap brokenReads = {}
    BY <1>9
  <2>. QED
    BY <1>4, <1>5, <1>9, <2>2, <2>3, <2>4 DEF IsReported
<1>14. SummariesAreReported'
  <2>1. SUFFICES ASSUME aggregationLevel = "minimal", changed = {}, ~owesComplete
                 PROVE  SummariesAreReported'
    BY <1>5 DEF SummariesAreReported
  <2>2. objects = Summaries
    BY <1>4, <2>1 DEF IInv, SummariesAreReported
  <2>3. Summaries' = Summaries /\ \A p \in Policies : Summary(truth, p)' = Summary(truth, p)
    BY <1>5 DEF Summaries, Summary
  <2>4. CASE pending'[kind] = pending[kind]
    BY <1>4, <2>2, <2>3, <2>4 DEF SummariesAreReported
  <2>5. CASE pending'[kind] = Nil /\ updated = DOMAIN objects /\ deleted = read
    <3>1. SUFFICES ASSUME kind \notin brokenReads', NEW p \in Policies
                   PROVE  minimalRows'[p] = Summary(truth, p)
      BY <2>3, <2>5 DEF SummariesAreReported
    <3>2. deleted = stale
      BY <1>3, <2>5, <3>1
    <3>3. p \in DOMAIN objects <=> Summary(truth, p) # Nil
      BY <2>2 DEF Summaries
    <3>4. p \in DOMAIN objects => objects[p] = Summary(truth, p)
      BY <2>2, <3>3 DEF Summaries
    <3>5. minimalRows'[p] = CASE p \in updated -> objects[p]
                              [] p \in deleted -> Nil
                              [] OTHER -> minimalRows[p]
      BY <1>3 DEF minimalRowsAfter
    <3>6. CASE p \in DOMAIN objects
      <4>1. p \in updated /\ p \notin deleted
        BY <2>5, <3>2, <3>6
      <4>. QED
        BY <3>4, <3>5, <3>6, <4>1
    <3>7. CASE p \notin DOMAIN objects
      <4>1. p \notin updated /\ (p \in deleted <=> minimalRows[p] # Nil)
        BY <2>5, <3>2, <3>7
      <4>. QED
        BY <3>3, <3>5, <3>7, <4>1
    <3>. QED
      BY <3>6, <3>7
  <2>. QED
    BY <1>8, <2>4, <2>5
<1>15. RowsAreOfWrittenClusters'
  <2>1. "clustersPerPolicy" \in brokenReads' <=> "clustersPerPolicy" \in brokenReads
    BY <1>9
  <2>2. UNCHANGED <<rows, writtenClusters>>
    BY <1>4
  <2>. QED
    BY <2>1, <2>2 DEF IInv, RowsAreOfWrittenClusters, Listed
<1>. QED
  BY <1>10, <1>11, <1>12, <1>13, <1>14, <1>15 DEF IInv

------------------------------------------------------------------------------
(* Results *)

\* The invariant is kept by every step.
LEMMA NextIInv == IInv /\ [Next]_vars => IInv'
<1> SUFFICES ASSUME IInv, [Next]_vars PROVE IInv'
  OBVIOUS
<1>1. RowsAreOfWrittenClusters'
  BY RowsPresentStep DEF IInv
<1>2. ComplianceStatuses \cup {None} = Cell
  BY DEF Cell
<1>3. CASE LeafHub
  BY <1>2, <1>3, ComplianceAssumption, ChangeClustersIInv, ChangeComplianceIInv, SendCompleteIInv, SendDeltaIInv,
     SendMinimalIInv DEF LeafHub
<1>4. CASE Handle
  BY <1>1, <1>4, handleClustersPerPolicyBundleIInv, handleCompleteComplianceBundleIInv,
     GetNextDeltaIInv, handleDeltaComplianceBundleIInv, handleMinimalComplianceBundleIInv DEF Handle
<1>5. CASE UNCHANGED vars
  <2>1. UNCHANGED <<aggregationLevel, truth, changed, owesComplete, sent, pending, inProcess,
                    lastProcessed, rows, minimalRows, writtenClusters, brokenReads, droppedRows>>
    BY <1>5 DEF vars, hubVars, unitVars, dbVars
  <2>2. ComplianceTypeOK' /\ LastSentIsPending' /\ DeltaHasBase' /\ PackHasLastBase'
        /\ CompleteHasLastBase'
    BY <2>1 DEF IInv, ComplianceTypeOK, LastSentIsPending, DeltaHasBase, PackHasLastBase,
                CompleteHasLastBase
  <2>3. ClustersAreReported' /\ ComplianceIsReported'
    BY <2>1 DEF IInv, ClustersAreReported, ComplianceIsReported, IsReported, DeltaOf, PackOf,
                Listed
  <2>4. SummariesAreReported'
    <3>1. Summaries' = Summaries /\ \A p \in Policies : Summary(truth, p)' = Summary(truth, p)
      BY <2>1 DEF Summaries, Summary
    <3>. QED
      BY <2>1, <3>1 DEF IInv, SummariesAreReported
  <2>. QED
    BY <1>1, <2>2, <2>3, <2>4 DEF IInv
<1>. QED
  BY <1>3, <1>4, <1>5 DEF Next

\* It holds in every reachable state.
LEMMA IInvIsInvariant == Spec => []IInv
  BY InitIInv, NextIInv, PTL DEF Spec

\* For any policies, clusters and histories: when everything was handled, the table
\* is what the leaf hub reported, however bundles were ordered, deltas merged and
\* handlers run again, except for the compliance of rows whose last report was in a
\* pack of deltas that failed and was dropped.
THEOREM RowsBecomeTruth == Spec => []QuiescentRowsAreTruth
<1>1. IInv => QuiescentRowsAreTruth
  <2> SUFFICES ASSUME IInv, Quiescent, aggregationLevel = "full", brokenReads = {},
                      NEW p \in Policies, NEW c \in Clusters
               PROVE  \/ rows[p][c] = truth[p][c]
                      \/ <<p, c>> \in droppedRows /\ rows[p][c] # None /\ truth[p][c] # None
    BY DEF QuiescentRowsAreTruth
  <2>1. /\ ComplianceTypeOK /\ LastSentIsPending /\ ClustersAreReported
        /\ ComplianceIsReported /\ RowsAreOfWrittenClusters
    BY DEF IInv
  <2>2. /\ changed = {} /\ ~owesComplete /\ inProcess = Nil
        /\ pending["clustersPerPolicy"] = Nil /\ pending["completeCompliance"] = Nil
        /\ pending["deltaCompliance"] # Nil =>
             pending["deltaCompliance"].base # lastProcessed["completeCompliance"]
    BY DEF Quiescent, IsIdle, Kinds
  <2>3. lastProcessed["completeCompliance"] = sent["completeCompliance"]
    BY <2>1, <2>2 DEF LastSentIsPending
  <2>4. (rows[p][c] # None) = (truth[p][c] # None)
    BY <2>1, <2>2 DEF RowsAreOfWrittenClusters, ClustersAreReported
  <2>5. CASE truth[p][c] = None
    BY <2>4, <2>5
  <2>6. CASE truth[p][c] # None
    <3>1. IsReported(p, c)
      BY <2>1, <2>2, <2>6 DEF ComplianceIsReported
    <3>2. DeltaOf(p, c) = None
      BY <2>2, <2>3 DEF DeltaOf, PackOf
    <3>. QED
      BY <2>2, <2>4, <2>6, <3>1, <3>2 DEF IsReported
  <2>. QED
    BY <2>5, <2>6
<1>. QED
  BY <1>1, IInvIsInvariant, PTL

\* The same for the counters of the aggregated table, which a handler writes one
\* by one and may leave half written.
THEOREM SummariesBecomeTruth == Spec => []QuiescentMinimalIsTruth
<1>1. IInv => QuiescentMinimalIsTruth
  BY DEF IInv, QuiescentMinimalIsTruth, Quiescent, SummariesAreReported, Kinds
<1>. QED
  BY <1>1, IInvIsInvariant, PTL

\* A batch that inserts no row there is leaves the ghost as it is.
LEMMA UnconflictingBatch ==
    ASSUME ~conflicted, NEW kind, NEW batch, NEW readIsComplete \in BOOLEAN, NEW acknowledged,
           readIsComplete => ~BatchConflicts(rows, batch),
           SendBatch(kind, batch, readIsComplete, acknowledged)
    PROVE  ~conflicted'
<1>1. CASE BatchRefused(rows, batch)
  BY <1>1 DEF SendBatch
<1>2. CASE ~BatchRefused(rows, batch)
  BY <1>2 DEF SendBatch
<1>. QED
  BY <1>1, <1>2

\* For any size of the statements and of the bundles: handlers that read all rows
\* never build a batch that inserts a row there is.
THEOREM BatchesConflictWithNothing == Spec => []RefusedOnlyForSize
<1>1. Init => RefusedOnlyForSize
  BY DEF Init, RefusedOnlyForSize
<1>2. RefusedOnlyForSize /\ [Next]_vars => RefusedOnlyForSize'
  <2> SUFFICES ASSUME ~conflicted, [Next]_vars PROVE ~conflicted'
    BY DEF RefusedOnlyForSize
  <2>1. ASSUME NEW acknowledged \in BOOLEAN, handleClustersPerPolicyBundle(acknowledged)
        PROVE  ~conflicted'
    <3> DEFINE objects == pending["clustersPerPolicy"].objects
    <3>1. PICK read : SendBatch("clustersPerPolicy", clustersPerPolicyBatch(read, objects),
                                read = rows, acknowledged)
      BY <2>1 DEF handleClustersPerPolicyBundle
    <3> DEFINE batch == clustersPerPolicyBatch(read, objects)
    <3>2. batch.inserts = [p \in Policies |-> [c \in Clusters |->
                             IF read[p][c] = None THEN Listed(objects, p, c) ELSE None]]
      BY DEF clustersPerPolicyBatch, EmptyBatch
    <3>3. read = rows => ~BatchConflicts(rows, batch)
      BY <3>2 DEF BatchConflicts
    <3> HIDE DEF batch
    <3>. QED
      BY <3>1, <3>3, UnconflictingBatch DEF batch
  <2>2. ASSUME NEW acknowledged \in BOOLEAN, handleCompleteComplianceBundle(acknowledged)
        PROVE  ~conflicted'
    <3> DEFINE objects == pending["completeCompliance"].objects
    <3>1. PICK read : SendBatch("completeCompliance", completeComplianceBatch(read, objects),
                                read = NonCompliantRows(rows), acknowledged)
      BY <2>2 DEF handleCompleteComplianceBundle
    <3>2. ~BatchConflicts(rows, completeComplianceBatch(read, objects))
      <4>1. \A p \in Policies, c \in Clusters : completeComplianceBatch(read, objects).inserts[p][c] = None
        BY DEF completeComplianceBatch, EmptyBatch, EveryRow
      <4>. QED
        BY <4>1 DEF BatchConflicts
    <3>. QED
      BY <3>1, <3>2, UnconflictingBatch
  <2>3. CASE GetNextDelta \/ \E written, acknowledged \in BOOLEAN :
                                handleDeltaComplianceBundle(written, acknowledged)
    BY <2>3 DEF GetNextDelta, handleDeltaComplianceBundle, dbVars
  <2>4. CASE handleMinimalComplianceBundle
    BY <2>4 DEF handleMinimalComplianceBundle
  <2>5. CASE LeafHub
    BY <2>5 DEF LeafHub, ChangeClusters, ChangeCompliance, SendComplete, SendDelta,
                SendMinimal, LeafHubStep, dbVars
  <2>6. CASE UNCHANGED vars
    BY <2>6 DEF vars, dbVars
  <2>. QED
    BY <2>1, <2>2, <2>3, <2>4, <2>5, <2>6 DEF Next, Handle
<1>. QED
  BY <1>1, <1>2, PTL DEF Spec
==============================================================================
