------------------------------ MODULE DBToStatus ------------------------------
(***************************************************************************)
(* The syncers that show the status database on the resources of the hub   *)
(* of hubs: every tick starts a goroutine for each resource, which reads   *)
(* the rows of all leaf hubs, aggregates them and patches or creates the   *)
(* status resource.  One name of one kind is modelled; "owner" is the      *)
(* resource of that name that the user creates and deletes.                *)
(*                                                                         *)
(* Policies, placement rules and placements show the status on the owner   *)
(* itself.  Placement decisions, subscription reports and subscription     *)
(* statuses are resources of their own, which the syncer creates with an   *)
(* owner reference.  The placement binding controller writes to the status *)
(* of a policy as well.                                                    *)
(*                                                                         *)
(* External: the API server, its watch cache and garbage collector, and    *)
(* the rows, which the other modules write.  A row carries one number: the *)
(* compliance, the number of selected clusters, or the content of a list.  *)
(***************************************************************************)
EXTENDS Integers, Sequences, FiniteSetsExt, Functions

CONSTANTS
    LeafHubs,
    Values,        \* contents of a row
    StatusBudgets, \* bounds on the owner's creations, changes of rows, and faults
    MaxLag,        \* bound on the versions the watch holds, with the cached one
    MaxRequests,   \* bound on the requests on their way
    Nil

ASSUME StatusAssumption ==
    /\ Values \subseteq Nat
    /\ StatusBudgets \subseteq [uids : Nat, writes : Nat, faults : Nat]
    /\ MaxLag \in Nat
    /\ MaxRequests \in Nat

VARIABLES
    kind,
    owner,         \* UID of the owner, 0 when there is none
    uids,          \* how many UIDs were used
    specRow,       \* UID in the owner's row of the spec database, 0 when deleted
    rows,          \* status database: the row of each leaf hub, or Nil
    versions,      \* the status resource's history from what the cache holds to now
    handler,       \* the goroutine of the current tick, or Nil
    requests,      \* its requests, and those of earlier ticks, on their way
    binding,       \* the binding controller has a binding of this policy to reconcile
    boundUIDs,     \* ghost: policies that were patched with the binding
    budget         \* what is left of a bound

statusVars == <<kind, owner, uids, specRow, rows, versions, handler, requests, binding,
                boundUIDs, budget>>

OwnStatusKinds == {"policy", "placementrule", "placement"}
CreatedKinds == {"placementdecision", "subscriptionreport", "subscriptionstatus"}

Cached == Head(versions)
Deployed == versions[Len(versions)]

\* The API server stores a version of the status resource.
Store(resource) == versions' = Append(versions, resource)

\* Broken reads, failed queries, lost requests and cancelled ticks are bounded.
Fault == budget.faults > 0 /\ budget' = [budget EXCEPT !.faults = @ - 1]

\* A resource with an empty status.
Resource(uid) == [uid |-> uid, list |-> << >>, summary |-> 0, placement |-> FALSE]

------------------------------------------------------------------------------
(* Aggregation *)

\* Values of a policy's row; any other value is an unknown compliance.
compliant == 1
nonCompliant == 2

\* ComplianceState of a policy: 0 stands for none.
complianceState(found) ==
    IF nonCompliant \in Range(found) THEN nonCompliant
    ELSE IF DOMAIN found # {} THEN compliant
    ELSE 0

\* The sum of the rows' numbers; a text that is no number counts as 0.
sumOfRows(found) == MapThenSumSet(LAMBDA h : found[h], DOMAIN found)

\* The summary the syncer of the kind shows next to the merged lists.
aggregatedSummary(found) ==
    CASE kind = "policy" -> complianceState(found)
      [] kind \in {"placement", "subscriptionreport"} -> sumOfRows(found)
      [] OTHER -> 0

\* The merged list; a placement has none.
aggregatedList(found) == IF kind = "placement" THEN << >> ELSE found

------------------------------------------------------------------------------
(* The syncer *)

\* The goroutine started for the spec row; that of a policy is given its resource.
syncPolicies ==
    /\ specRow # 0
    /\ kind = "policy" => Cached # Nil
    /\ handler' = [uid |-> specRow, instance |-> IF kind = "policy" THEN Cached ELSE Nil,
                   found |-> Nil]

\* The tick: the goroutines of the last one are cancelled, and new ones started.
periodicSync ==
    /\ syncPolicies
    /\ IF handler = Nil THEN UNCHANGED budget ELSE Fault
    /\ UNCHANGED <<kind, owner, uids, specRow, rows, versions, requests, binding, boundUIDs>>

\* The leaf hubs whose row the query returns: by UID for a policy, else by name.
rowsOfQuery ==
    {h \in LeafHubs : rows[h] # Nil /\ (kind = "policy" => rows[h].uid = handler.instance.uid)}

\* Mutant: a policy without rows is left alone as well.
hasNothingToShow(found) == DOMAIN found = {}

\* No entries found: only a policy's status is then emptied.
isSkipped(found) == kind # "policy" /\ DOMAIN found = {}

\* The rows are read.  A connection that breaks ends the loop over the rows without
\* an error; a query or a row that fails ends the handler.
getStatus ==
    /\ handler # Nil
    /\ handler.found = Nil
    /\ \/ \E seen \in SUBSET rowsOfQuery :
            LET found == [h \in seen |-> rows[h].value]
            IN  /\ IF seen = rowsOfQuery THEN UNCHANGED budget ELSE Fault
                /\ handler' = IF isSkipped(found) THEN Nil ELSE [handler EXCEPT !.found = found]
       \/ Fault /\ handler' = Nil
    /\ UNCHANGED <<kind, owner, uids, specRow, rows, versions, requests, binding, boundUIDs>>

\* The status resource that the handler changes: the one it was given, or cached.
original == IF kind = "policy" THEN handler.instance ELSE Cached

\* Mutant: the patch carries the whole status.
changedFieldsAll(resource) == {"list", "summary", "placement"}

\* MergeFrom(original): the fields of the patch, those that differ.
changedFields(resource) ==
    {f \in {"list", "summary", "placement"} : resource[f] # original[f]}

\* A resource with the aggregated rows.
withAggregate(resource) ==
    [resource EXCEPT !.list = aggregatedList(handler.found),
                     !.summary = aggregatedSummary(handler.found)]

\* What Create stores; the status of a placement decision is no part of it.
createdResource ==
    IF kind = "placementdecision" THEN Resource(handler.uid)
                                  ELSE withAggregate(Resource(handler.uid))

\* Status().Patch, or createK8sResource when there is no resource.
statusRequest ==
    IF original # Nil
      THEN [op |-> "patch", resource |-> withAggregate(original),
            fields |-> changedFields(withAggregate(original))]
      ELSE [op |-> "create", resource |-> createdResource, fields |-> {}]

\* The resource that would show the status is not there: it is being deleted.
isBeingDeleted == kind \in OwnStatusKinds /\ original = Nil

\* The request is sent, unless there is nothing to patch.
updateStatus ==
    /\ handler # Nil
    /\ handler.found # Nil
    /\ Cardinality(requests) < MaxRequests
    /\ handler' = Nil
    /\ requests' = IF isBeingDeleted \/ (original # Nil /\ statusRequest.fields = {})
                     THEN requests ELSE requests \cup {statusRequest}
    /\ UNCHANGED <<kind, owner, uids, specRow, rows, versions, binding, boundUIDs, budget>>

------------------------------------------------------------------------------
(* The API server, its cache and its garbage collector, external *)

\* A request reaches the API server, possibly after the next tick.  A patch of a
\* resource that is gone and the creation of one that exists are refused.
Land(r) ==
    /\ r \in requests
    /\ Len(versions) < MaxLag
    /\ requests' = requests \ {r}
    /\ \/ r.op = "create" /\ Deployed = Nil /\ Store(r.resource)
       \/ r.op = "patch" /\ Deployed # Nil /\
            Store([f \in DOMAIN Deployed |-> IF f \in r.fields THEN r.resource[f] ELSE Deployed[f]])
       \/ (r.op = "create") = (Deployed # Nil) /\ UNCHANGED versions
    /\ UNCHANGED <<kind, owner, uids, specRow, rows, handler, binding, boundUIDs, budget>>

\* A request fails, or is cancelled with its tick before it is sent.
LoseRequest ==
    /\ Fault
    /\ \E r \in requests : requests' = requests \ {r}
    /\ UNCHANGED <<kind, owner, uids, specRow, rows, versions, handler, binding, boundUIDs>>

\* The watch delivers the next version to the cache.
Deliver ==
    /\ Len(versions) > 1
    /\ versions' = Tail(versions)
    /\ UNCHANGED <<kind, owner, uids, specRow, rows, handler, requests, binding, boundUIDs,
                   budget>>

\* The garbage collector removes a resource whose owner is gone.
CollectGarbage ==
    /\ kind \in CreatedKinds
    /\ Deployed # Nil
    /\ Deployed.uid # owner
    /\ Len(versions) < MaxLag
    /\ Store(Nil)
    /\ UNCHANGED <<kind, owner, uids, specRow, rows, handler, requests, binding, boundUIDs,
                   budget>>

------------------------------------------------------------------------------
(* The user, the spec database and the status database, external *)

\* The owner is created, or deleted when it exists.
ChangeOwner ==
    /\ owner # 0 \/ uids < budget.uids
    /\ owner' = IF owner = 0 THEN uids + 1 ELSE 0
    /\ uids' = IF owner = 0 THEN uids + 1 ELSE uids
    /\ IF kind \in OwnStatusKinds
         THEN /\ Len(versions) < MaxLag
              /\ Store(IF owner = 0 THEN Resource(uids + 1) ELSE Nil)
         ELSE UNCHANGED versions
    /\ UNCHANGED <<kind, specRow, rows, handler, requests, binding, boundUIDs, budget>>

SyncSpecRow ==
    /\ specRow # owner
    /\ specRow' = owner
    /\ UNCHANGED <<kind, owner, uids, rows, versions, handler, requests, binding, boundUIDs,
                   budget>>

\* A handler of the other direction writes or deletes a leaf hub's row.
WriteRow(h, v) ==
    /\ budget.writes > 0
    /\ budget' = [budget EXCEPT !.writes = @ - 1]
    /\ rows' = [rows EXCEPT ![h] = IF v = Nil THEN Nil ELSE [uid |-> owner, value |-> v]]
    /\ rows' # rows
    /\ UNCHANGED <<kind, owner, uids, specRow, versions, handler, requests, binding, boundUIDs>>

------------------------------------------------------------------------------
(* The placement binding controller *)

\* Reconcile: the binding is appended to what the cached policy shows, unless it
\* is there.  A policy that cannot be read or patched is tried again.
reconcileBinding ==
    /\ binding
    /\ Cached # Nil
    /\ Len(versions) < MaxLag
    /\ \/ Cached.placement /\ UNCHANGED <<versions, boundUIDs>> /\ binding' = FALSE
       \/ ~Cached.placement /\ Deployed = Nil /\ UNCHANGED <<versions, boundUIDs, binding>>
       \/ /\ ~Cached.placement
          /\ Deployed # Nil
          /\ Store([Deployed EXCEPT !.placement = TRUE])
          /\ boundUIDs' = boundUIDs \cup {Deployed.uid}
          /\ binding' = FALSE
    /\ UNCHANGED <<kind, owner, uids, specRow, rows, handler, requests, budget>>

------------------------------------------------------------------------------
StatusInit ==
    /\ kind \in OwnStatusKinds \cup CreatedKinds
    /\ owner = 0
    /\ uids = 0
    /\ specRow = 0
    /\ rows = [h \in LeafHubs |-> Nil]
    /\ versions = <<Nil>>
    /\ handler = Nil
    /\ requests = {}
    /\ binding = (kind = "policy")
    /\ boundUIDs = {}
    /\ budget \in StatusBudgets

Handle == getStatus \/ updateStatus

StatusNext ==
    \/ periodicSync
    \/ Handle
    \/ \E r \in requests : Land(r)
    \/ LoseRequest
    \/ Deliver
    \/ CollectGarbage
    \/ ChangeOwner
    \/ SyncSpecRow
    \/ \E h \in LeafHubs, v \in Values \cup {Nil} : WriteRow(h, v)
    \/ reconcileBinding

StatusSpec == StatusInit /\ [][StatusNext]_statusVars

\* The ticker fires whenever the last goroutine is done, requests arrive, the watch,
\* the garbage collector and the spec controllers make progress.  Faults are bounded.
StatusFairness ==
    /\ WF_statusVars(handler = Nil /\ periodicSync)
    /\ WF_statusVars(Handle)
    /\ WF_statusVars(\E r \in requests : Land(r))
    /\ WF_statusVars(Deliver)
    /\ WF_statusVars(CollectGarbage)
    /\ WF_statusVars(SyncSpecRow)

FairStatusSpec == StatusSpec /\ StatusFairness

------------------------------------------------------------------------------
(* Properties *)

\* The rows that are about the owner.
OwnRows == {h \in LeafHubs : rows[h] # Nil /\ (kind = "policy" => rows[h].uid = owner)}

\* What a reader of the rows expects to see.
Expected ==
    LET numbers == [h \in OwnRows |-> rows[h].value]
        total == MapThenSumSet(LAMBDA h : rows[h].value, OwnRows)
    IN  [list |-> IF kind = "placement" THEN << >> ELSE numbers,
         summary |-> CASE kind \in {"placement", "subscriptionreport"} -> total
                       [] kind = "policy" /\ OwnRows # {} ->
                            IF \E h \in OwnRows : rows[h].value = nonCompliant
                              THEN nonCompliant ELSE compliant
                       [] OTHER -> 0]

\* Once rows and owner rest, the status resource ends as the aggregate of the rows,
\* for good: although handlers work on stale copies, overtake each other, read part
\* of the rows, are cancelled, and owners are replaced by others of the same name.
\* Without any row only a policy is updated.  A status resource of an owner that is
\* gone does not come back.
EventuallyShown ==
    <>[](/\ owner # 0 /\ (OwnRows # {} \/ kind = "policy") =>
              /\ Deployed # Nil
              /\ Deployed.uid = owner
              /\ Deployed.list = Expected.list
              /\ Deployed.summary = Expected.summary
         /\ owner = 0 => Deployed = Nil)

\* The binding that the controller put on a policy stays there, although the syncer
\* patches the same status from a copy that may be older than the binding.
BindingKept ==
    Deployed # Nil /\ Deployed.uid \in boundUIDs => Deployed.placement
==============================================================================
