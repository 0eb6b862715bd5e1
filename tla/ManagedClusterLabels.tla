-------------------------- MODULE ManagedClusterLabels --------------------------
(***************************************************************************)
(* The labels of managed clusters: PATCH requests of the non-Kubernetes    *)
(* API write spec.managed_clusters_labels, a syncer sends the rows to the  *)
(* leaf hubs, and a status watcher trims the keys that were deleted once   *)
(* the status database no longer shows them, and names the leaf hub of the *)
(* rows that were patched without one.  All of them write or read the same *)
(* rows from goroutines of their own.                                      *)
(*                                                                         *)
(* A row's key is the leaf hub and the name of the cluster; "Clusters" are *)
(* the keys.  Names are taken to be unique across the leaf hubs, so a key  *)
(* without a leaf hub, of a request that did not name one, is filled as    *)
(* one other key.                                                          *)
(*                                                                         *)
(* Every statement is a transaction: it takes its timestamp, now(), when   *)
(* it begins, and its effect is visible when it ends.  Requests hold the   *)
(* connection of their SELECT, whose result is not read to its end, while  *)
(* they wait for the one of their UPDATE.                                  *)
(*                                                                         *)
(* The authorization of a request decides what it is answered and not      *)
(* whether it is done: Patch answers that it is forbidden and goes on.     *)
(***************************************************************************)
EXTENDS Integers, Sequences, FiniteSetsExt

CONSTANTS
    Clients,
    Clusters,
    HubOf,             \* the leaf hub of each key
    FilledAs,          \* of a key without a leaf hub, the same cluster's key with it
    Keys,
    Values,
    Documents,         \* of each key, the JSON patches it is sent: sequences of operations
    PoolSizes,         \* sizes that the API's pool of connections may have
    optimisticConcurrencyRetryAttempts,
    RequestBudgets,    \* bounds on the requests for each key, per size of pool, for TLC
    MaxFillTime,       \* bound on the timestamp up to which leaf hubs are filled, for TLC
    Trimming,          \* whether the status watcher runs
    Nil

ASSUME LabelsAssumption ==
    /\ PoolSizes \subseteq Nat \ {0}
    /\ optimisticConcurrencyRetryAttempts \in Nat \ {0}
    /\ RequestBudgets \in [PoolSizes -> SUBSET [Clusters -> Nat]]
    /\ MaxFillTime \in Nat
    /\ DOMAIN FilledAs \subseteq Clusters
    /\ \A c \in DOMAIN FilledAs : FilledAs[c] \in Clusters \ DOMAIN FilledAs
    /\ Trimming \in BOOLEAN
    /\ Clusters \subseteq DOMAIN HubOf

NoLabel == "no label"      \* the key is not among the labels to set
Removed == "removed"       \* an operation that removes the key
Untouched == "untouched"   \* a patch that does not concern the key
Unsupported == "unsupported"

\* The markers are not values; an operation of a document sets a label's value,
\* removes the label or is rejected.
ASSUME DocumentsAssumption ==
    /\ Values \cap {NoLabel, Removed, Untouched, Unsupported} = {}
    /\ \A c \in Clusters : \A document \in Documents[c] :
        document \in Seq([key : Keys, op : Values \cup {Removed, Unsupported}])

\* Rows of spec.managed_clusters_labels.
Row == [labels : [Keys -> Values \cup {NoLabel}], deleted : SUBSET Keys,
        version : Nat, updatedAt : Nat]

\* The entry the status watcher works on.
Entry == [pc : {"status", "update", "name", "fill"}, cluster : Clusters, version : Nat,
          deleted : SUBSET Keys, stamp : Nat]

ASSUME NilAssumption == Nil \notin Row \cup Entry \cup Nat

VARIABLES
    poolSize,  \* configuration: the connections of the API's pool, never changed
    row,       \* spec.managed_clusters_labels: the row of each cluster, or Nil
    clock,     \* database: the last timestamp given
    request,   \* API: the state of each client's request
    requests,  \* API: the number of requests made for each key
    lastSync,  \* labels syncer: *lastSyncTimestampPtr
    checked,   \* labels syncer: lastUpdateTimestamp, or Nil
    trim,      \* status watcher: the entry it works on, or Nil
    known,     \* transport: the last row each leaf hub was sent, or Nil
    hub,       \* leaf hub: the keys on the managed cluster
    status,    \* status database: the keys it shows
    intent     \* what the patches written so far ask of each key

vars == <<poolSize, row, clock, request, requests, lastSync, checked, trim, known, hub, status, intent>>

\* The keys whose rows have a leaf hub.
Named == Clusters \ DOMAIN FilledAs

EmptyPatch == [k \in Keys |-> Untouched]

\* A client without a request under way.
Answered == [pc |-> "answered", cluster |-> Nil, patch |-> EmptyPatch, read |-> Nil,
             stamp |-> 0, attempts |-> 0]

------------------------------------------------------------------------------
(* PATCH requests *)

\* getLabels: the operations take effect in their order; one that is not an add or
\* a remove of a label rejects the document.
IsSupported(document) == \A i \in DOMAIN document : document[i].op # Unsupported

getLabels(document) ==
    [k \in Keys |->
        LET mine == {i \in DOMAIN document : document[i].key = k}
        IN  IF mine = {} THEN Untouched ELSE document[Max(mine)].op]

\* Mutant: a second result is left open while the row is written.
HeldTwice(r) ==
    (IF r.pc \in {"selected", "writing"} /\ r.read # Nil THEN 2 ELSE 0)
        + (IF r.pc = "writing" THEN 1 ELSE 0)

\* Connections a client holds: that of the SELECT, while the row it found is not
\* read to its end, and that of a statement under way.
Held(r) ==
    (IF r.pc \in {"selected", "writing"} /\ r.read # Nil THEN 1 ELSE 0)
        + (IF r.pc = "writing" THEN 1 ELSE 0)

HasFreeConnection ==
    MapThenSumSet(LAMBDA c : Held(request[c]), Clients) < poolSize

\* A request is taken up whether or not its user may patch the cluster.
Patch(client, cluster, document) ==
    /\ request[client].pc = "answered"
    /\ requests' = [requests EXCEPT ![cluster] = @ + 1]
    /\ \E budget \in RequestBudgets[poolSize] : \A c \in Clusters : requests'[c] <= budget[c]
    /\ request' = [request EXCEPT ![client] =
         IF IsSupported(document) /\ getLabels(document) # EmptyPatch
           THEN [pc |-> "select", cluster |-> cluster, patch |-> getLabels(document), read |-> Nil,
                 stamp |-> 0, attempts |-> optimisticConcurrencyRetryAttempts]
           ELSE Answered]
    /\ UNCHANGED <<poolSize, row, clock, lastSync, checked, trim, known, hub, status, intent>>

\* updateLabels, its SELECT.
selectLabels(client) ==
    /\ request[client].pc = "select"
    /\ HasFreeConnection
    /\ request' = [request EXCEPT ![client].pc = "selected",
                                  ![client].read = row[request[client].cluster]]
    /\ UNCHANGED <<poolSize, requests, row, clock, lastSync, checked, trim, known, hub, status, intent>>

\* The INSERT or UPDATE begins on another connection.
beginWrite(client) ==
    /\ request[client].pc = "selected"
    /\ HasFreeConnection
    /\ clock' = clock + 1
    /\ request' = [request EXCEPT ![client].pc = "writing", ![client].stamp = clock + 1]
    /\ UNCHANGED <<poolSize, requests, row, lastSync, checked, trim, known, hub, status, intent>>

\* The row that the INSERT writes.
insertedRow(patch, stamp) ==
    [labels |-> [k \in Keys |-> IF patch[k] \in Values THEN patch[k] ELSE NoLabel],
     deleted |-> {k \in Keys : patch[k] = Removed},
     version |-> 0,
     updatedAt |-> stamp]

\* updateRow: the row that the UPDATE writes, from the row that was read.
updateRow(read, patch, stamp) ==
    [labels |-> [k \in Keys |-> CASE patch[k] \in Values -> patch[k]
                                  [] patch[k] = Removed -> NoLabel
                                  [] OTHER -> read.labels[k]],
     deleted |-> {k \in Keys : patch[k] = Removed \/ (k \in read.deleted /\ patch[k] \notin Values)},
     version |-> read.version + 1,
     updatedAt |-> stamp]

\* Mutant: the version is not compared.
writeSucceedsAlways(cluster, read) == read # Nil \/ row[cluster] = Nil

\* INSERT: the row must not exist.  UPDATE ... WHERE version = the version read.
writeSucceeds(cluster, read) ==
    IF read = Nil THEN row[cluster] = Nil
      ELSE row[cluster] # Nil /\ row[cluster].version = read.version

\* The statement ends; Patch tries again a limited number of times when it failed.
endWrite(client) ==
    LET r == request[client] IN
    /\ r.pc = "writing"
    /\ IF writeSucceeds(r.cluster, r.read)
         THEN /\ row' = [row EXCEPT ![r.cluster] =
                    IF r.read = Nil THEN insertedRow(r.patch, r.stamp)
                                    ELSE updateRow(r.read, r.patch, r.stamp)]
              /\ intent' = [intent EXCEPT ![r.cluster] =
                    [k \in Keys |-> IF r.patch[k] = Untouched THEN @[k] ELSE r.patch[k]]]
              /\ request' = [request EXCEPT ![client] = Answered]
         ELSE /\ request' = [request EXCEPT ![client] =
                    IF r.attempts > 1
                      THEN [r EXCEPT !.pc = "select", !.attempts = r.attempts - 1,
                                     !.read = Nil, !.stamp = 0]
                      ELSE Answered]
              /\ UNCHANGED <<row, intent>>
    /\ UNCHANGED <<poolSize, requests, clock, lastSync, checked, trim, known, hub, status>>

------------------------------------------------------------------------------
(* Labels syncer *)

LastUpdateTimestamp == Max({row[c].updatedAt : c \in {d \in Clusters : row[d] # Nil}} \cup {0})

\* syncManagedClusterLabelsBundles: the timestamp is read first.
checkTimestamp ==
    /\ checked = Nil
    /\ LastUpdateTimestamp > lastSync
    /\ checked' = LastUpdateTimestamp
    /\ UNCHANGED <<poolSize, row, clock, request, requests, lastSync, trim, known, hub, status, intent>>

\* The clusters of the leaf hubs with a row updated after the last bundle.
UpdatedClusters ==
    {c \in Named : /\ row[c] # Nil
                   /\ \E d \in Named : /\ row[d] # Nil
                                       /\ HubOf[d] = HubOf[c]
                                       /\ row[d].updatedAt > lastSync}

\* GetUpdatedManagedClusterLabelsBundles and the bundles sent.
syncLabels ==
    /\ checked # Nil
    /\ known' = [c \in Clusters |-> IF c \in UpdatedClusters THEN row[c] ELSE known[c]]
    /\ lastSync' = checked
    /\ checked' = Nil
    /\ UNCHANGED <<poolSize, row, clock, request, requests, trim, hub, status, intent>>

------------------------------------------------------------------------------
(* Leaf hub, external *)

\* The labels are set and the deleted keys are removed.
ApplyLabels(c) ==
    /\ known[c] # Nil
    /\ hub' = [hub EXCEPT ![c] = (@ \cup {k \in Keys : known[c].labels[k] # NoLabel})
                                   \ known[c].deleted]
    /\ hub' # hub
    /\ UNCHANGED <<poolSize, row, clock, request, requests, lastSync, checked, trim, known, status, intent>>

\* The managed cluster reaches the status database with its labels.
ReportStatus(c) ==
    /\ status[c] # hub[c]
    /\ status' = [status EXCEPT ![c] = hub[c]]
    /\ UNCHANGED <<poolSize, row, clock, request, requests, lastSync, checked, trim, known, hub, intent>>

------------------------------------------------------------------------------
(* Status watcher *)

\* trimDeletedLabelsByStatus: an entry is read, with its version.
GetEntriesWithDeletedLabels(c) ==
    /\ Trimming /\ trim = Nil
    /\ c \in Named
    /\ row[c] # Nil /\ row[c].deleted # {}
    /\ trim' = [pc |-> "status", cluster |-> c, version |-> row[c].version,
                deleted |-> row[c].deleted, stamp |-> 0]
    /\ UNCHANGED <<poolSize, row, clock, request, requests, lastSync, checked, known, hub, status, intent>>

\* The keys still in the status database are kept; when all are, nothing is written.
GetManagedClusterLabelsStatus ==
    /\ trim # Nil /\ trim.pc = "status"
    /\ LET still == trim.deleted \cap status[trim.cluster]
       IN  IF still = trim.deleted
             THEN trim' = Nil /\ UNCHANGED clock
             ELSE /\ clock' = clock + 1
                  /\ trim' = [trim EXCEPT !.pc = "update", !.deleted = still, !.stamp = clock + 1]
    /\ UNCHANGED <<poolSize, row, request, requests, lastSync, checked, known, hub, status, intent>>

\* Mutant: the version is not compared.
trimSucceedsAlways == TRUE

trimSucceeds == row[trim.cluster].version = trim.version

UpdateDeletedLabelKeys ==
    /\ trim # Nil /\ trim.pc = "update"
    /\ row' = IF trimSucceeds
                THEN [row EXCEPT ![trim.cluster] =
                        [@ EXCEPT !.deleted = trim.deleted,
                                  !.version = trim.version + 1,
                                  !.updatedAt = trim.stamp]]
                ELSE row
    /\ trim' = Nil
    /\ UNCHANGED <<poolSize, clock, request, requests, lastSync, checked, known, hub, status, intent>>

\* fillMissingLeafHubNames: an entry without a leaf hub is read, with its version.
GetEntriesWithoutLeafHubName(c) ==
    /\ Trimming /\ trim = Nil
    /\ c \in DOMAIN FilledAs
    /\ row[c] # Nil
    /\ clock < MaxFillTime
    /\ trim' = [pc |-> "name", cluster |-> c, version |-> row[c].version, deleted |-> {},
                stamp |-> 0]
    /\ UNCHANGED <<poolSize, row, clock, request, requests, lastSync, checked, known, hub, status, intent>>

\* The status database names the cluster's leaf hub, and the UPDATE begins.
GetManagedClusterLeafHubName ==
    /\ trim # Nil /\ trim.pc = "name"
    /\ clock' = clock + 1
    /\ trim' = [trim EXCEPT !.pc = "fill", !.stamp = clock + 1]
    /\ UNCHANGED <<poolSize, row, request, requests, lastSync, checked, known, hub, status, intent>>

\* The row with its leaf hub's name.
filledRow(r) == [r EXCEPT !.version = trim.version + 1, !.updatedAt = trim.stamp]

\* UPDATE ... WHERE managed_cluster_name and version match, whatever the leaf hub of
\* the row: when a row with the leaf hub exists next to the one without, the key
\* refuses the statement, or only the former is written.
UpdateLeafHubName ==
    LET target == FilledAs[trim.cluster]
        matching == {c \in {trim.cluster, target} : row[c] # Nil /\ row[c].version = trim.version}
        isFilled == matching = {trim.cluster} /\ row[target] = Nil
    IN  /\ trim # Nil /\ trim.pc = "fill"
        /\ row' = CASE isFilled ->
                         [row EXCEPT ![target] = filledRow(row[trim.cluster]), ![trim.cluster] = Nil]
                    [] matching = {target} -> [row EXCEPT ![target] = filledRow(row[target])]
                    [] OTHER -> row
        /\ intent' = IF isFilled
                       THEN [intent EXCEPT ![target] = intent[trim.cluster],
                                           ![trim.cluster] = EmptyPatch]
                       ELSE intent
        /\ trim' = Nil
        /\ UNCHANGED <<poolSize, clock, request, requests, lastSync, checked, known, hub, status>>

------------------------------------------------------------------------------
Init ==
    /\ poolSize \in PoolSizes
    /\ row = [c \in Clusters |-> Nil]
    /\ clock = 0
    /\ requests = [c \in Clusters |-> 0]
    /\ request = [c \in Clients |-> Answered]
    /\ lastSync = 0
    /\ checked = Nil
    /\ trim = Nil
    /\ known = [c \in Clusters |-> Nil]
    /\ hub = [c \in Clusters |-> {}]
    /\ status = [c \in Clusters |-> {}]
    /\ intent = [c \in Clusters |-> EmptyPatch]

HandleRequest(client) == selectLabels(client) \/ beginWrite(client) \/ endWrite(client)

Watcher ==
    \/ \E c \in Clusters : GetEntriesWithDeletedLabels(c)
    \/ GetManagedClusterLabelsStatus
    \/ UpdateDeletedLabelKeys
    \/ \E c \in Clusters : GetEntriesWithoutLeafHubName(c)
    \/ GetManagedClusterLeafHubName
    \/ UpdateLeafHubName

Next ==
    \/ \E client \in Clients :
        \/ \E cluster \in Clusters : \E document \in Documents[cluster] : Patch(client, cluster, document)
        \/ HandleRequest(client)
    \/ checkTimestamp
    \/ syncLabels
    \/ \E c \in Clusters : ApplyLabels(c) \/ ReportStatus(c)
    \/ Watcher

Spec == Init /\ [][Next]_vars

\* A request that can go on goes on.
FairSpec == Spec /\ \A client \in Clients : WF_vars(HandleRequest(client))

------------------------------------------------------------------------------
(* Properties *)

\* Rows that a leaf hub is sent, or will be once its name is filled.  A row without a
\* leaf hub next to the same cluster's row with it is not filled any more.
ReachesHub(c) == row[c] # Nil /\ (c \in DOMAIN FilledAs => row[FilledAs[c]] = Nil)

\* "under optimistic concurrency": whatever requests and the watcher interleave, the
\* row holds what the patches that were written ask for, in the order of the writes.
NoPatchLost ==
    \A c \in Clusters : ReachesHub(c) =>
        \A k \in Keys :
            row[c].labels[k] = IF intent[c][k] \in Values THEN intent[c][k] ELSE NoLabel

\* A key is never both to be set and to be deleted, nor deleted without a patch that
\* asks for it: the leaf hub would remove a label that the user has set again.
DeletedOnlyIfAsked ==
    \A c \in Clusters : ReachesHub(c) =>
        \A k \in row[c].deleted : intent[c][k] = Removed

\* Each connection of the pool is held by a request that has read a row and needs
\* another one to write it.
PoolIsHeldByReaders ==
    Cardinality({c \in Clients : request[c].pc = "selected" /\ request[c].read # Nil}) >= poolSize

\* A request is answered, its retries included, unless as many requests as the pool
\* has connections stand between their SELECT and their UPDATE at one time.  Nothing
\* limits the requests, so this exception is met; there is no other.
AnsweredUnlessPoolIsHeld ==
    \A client \in Clients :
        request[client].pc = "select" ~> (request[client].pc = "answered" \/ PoolIsHeldByReaders)

\* "objects belonging to a leaf-hub that had at least once update since the given
\* timestamp": a row the syncer will not look at again was sent as it is.
NothingMissed ==
    checked = Nil =>
        \A c \in Named : row[c] # Nil /\ row[c].updatedAt <= lastSync => known[c] = row[c]
==============================================================================
