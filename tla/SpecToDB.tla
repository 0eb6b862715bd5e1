-------------------------------- MODULE SpecToDB --------------------------------
(***************************************************************************)
(* The spec-to-database controllers: one resource name of one kind, from   *)
(* the Kubernetes API through the informer cache and the generic           *)
(* reconciler to the rows of the spec table, which are keyed by UID.       *)
(*                                                                         *)
(* log is the history of the resource in the API server: log[i] is the     *)
(* resource after the change with resource version i, NoObject while it    *)
(* does not exist.  The informer cache holds log[seen].  A reconciliation  *)
(* works on the copy it read from the cache, log[at], and every call it    *)
(* makes to the API server or the database is a step of its own.           *)
(***************************************************************************)
EXTENDS Integers, Sequences

CONSTANTS
    Contents,      \* values of a part of a spec
    MaxUids,       \* bound on creations, for TLC
    MaxVersion,    \* bound on the users' changes, for TLC
    MaxFaults,     \* bound on failed calls and restarts, for TLC
    NoObject

ASSUME SpecToDBAssumption ==
    /\ MaxUids \in Nat
    /\ MaxVersion \in Nat \ {0}
    /\ MaxFaults \in Nat

VARIABLES
    log,      \* API server: the history of the resource
    created,  \* API server: the number of UIDs given out
    seen,     \* informer cache: the version it holds
    queued,   \* work queue: whether the name is in it
    pc,       \* reconciler: the next call
    at,       \* reconciler: the version it works on
    rows,     \* database: the row of each UID, or NoObject
    faults

apiVars == <<log, created>>
vars == <<apiVars, seen, queued, pc, at, rows, faults>>

Uids == 1..MaxUids

\* What a user writes: the part of the spec that areEqual compares and the part it
\* does not (the templates of a policy).
Specs == [compared : Contents, ignored : Contents]
Object == [uid : Uids, spec : Specs, finalizer : BOOLEAN, deleting : BOOLEAN, local : BOOLEAN]
Row == [spec : Specs, deleted : BOOLEAN]

ASSUME NoObjectAssumption == NoObject \notin Object \cup Row

api == log[Len(log)]
instance == log[at]

RowIsLive(uid) == rows[uid] # NoObject /\ ~rows[uid].deleted

------------------------------------------------------------------------------
(* API server and its users, external *)

Write(object) == log' = Append(log, object)

UserStep ==
    /\ Len(log) < MaxVersion
    /\ UNCHANGED <<seen, queued, pc, at, rows, faults>>

Create(spec) ==
    /\ UserStep
    /\ api = NoObject /\ created < MaxUids
    /\ created' = created + 1
    /\ Write([uid |-> created + 1, spec |-> spec, finalizer |-> FALSE,
              deleting |-> FALSE, local |-> FALSE])

Edit(spec) ==
    /\ UserStep
    /\ api # NoObject /\ api.spec # spec
    /\ Write([api EXCEPT !.spec = spec])
    /\ UNCHANGED created

LabelLocal ==
    /\ UserStep
    /\ api # NoObject
    /\ Write([api EXCEPT !.local = ~@])
    /\ UNCHANGED created

\* The resource disappears at once unless a finalizer holds it.
Delete ==
    /\ UserStep
    /\ api # NoObject /\ ~api.deleting
    /\ Write(IF api.finalizer THEN [api EXCEPT !.deleting = TRUE] ELSE NoObject)
    /\ UNCHANGED created

------------------------------------------------------------------------------
(* Informer cache and work queue, external *)

\* The event filter of the controller, on the resource after a change and, when it
\* was deleted, on its last state.
EventPasses(before, after) ==
    IF after # NoObject THEN ~after.local ELSE before # NoObject /\ ~before.local

Deliver ==
    /\ seen < Len(log)
    /\ seen' = seen + 1
    /\ queued' = (queued \/ EventPasses(log[seen], log[seen + 1]))
    /\ UNCHANGED <<apiVars, pc, at, rows, faults>>

------------------------------------------------------------------------------
(* Reconciler *)

isInstanceBeingDeleted(object) == object.deleting

\* processCR up to its first call: the copy in the cache decides what follows.
Reconcile ==
    /\ pc = "idle" /\ queued
    /\ queued' = FALSE
    /\ at' = seen
    /\ pc' = LET object == log[seen] IN
             CASE object = NoObject -> "delete_gone"
               [] object # NoObject /\ isInstanceBeingDeleted(object) ->
                    IF object.finalizer THEN "delete" ELSE "return"
               [] OTHER -> IF object.finalizer THEN "query" ELSE "add_finalizer"
    /\ UNCHANGED <<apiVars, seen, rows, faults>>

\* A call that failed: the request is put back into the queue.
Requeue ==
    /\ pc' = "idle"
    /\ queued' = TRUE

\* An update of a resource that changed since it was read is refused.
addFinalizer ==
    /\ pc = "add_finalizer"
    /\ IF at = Len(log)
         THEN /\ Write([instance EXCEPT !.finalizer = TRUE])
              /\ at' = Len(log) + 1
              /\ pc' = "query"
              /\ UNCHANGED queued
         ELSE Requeue /\ UNCHANGED <<log, at>>
    /\ UNCHANGED <<created, seen, rows, faults>>

\* DeleteSpecObject: every row with the name is marked, whatever its UID.
deleteFromTheDatabase ==
    rows' = [u \in Uids |-> IF RowIsLive(u) THEN [rows[u] EXCEPT !.deleted = TRUE] ELSE rows[u]]

\* processCR, when the cache does not hold the resource.
deleteGone ==
    /\ pc = "delete_gone"
    /\ deleteFromTheDatabase
    /\ pc' = "return"
    /\ UNCHANGED <<apiVars, seen, queued, at, faults>>

\* Mutant: the finalizer is removed before the rows are marked.
deleteBeforeFinalizerSkipped ==
    /\ pc = "delete"
    /\ pc' = "remove_finalizer"
    /\ UNCHANGED <<apiVars, seen, queued, at, rows, faults>>

\* removeFinalizerAndDelete, its first call.
deleteBeforeFinalizer ==
    /\ pc = "delete"
    /\ deleteFromTheDatabase
    /\ pc' = "remove_finalizer"
    /\ UNCHANGED <<apiVars, seen, queued, at, faults>>

\* removeFinalizerAndDelete, its second call: the last finalizer of a resource
\* that is being deleted, so the resource disappears.
removeFinalizer ==
    /\ pc = "remove_finalizer"
    /\ IF at = Len(log)
         THEN Write(NoObject) /\ pc' = "return" /\ UNCHANGED queued
         ELSE Requeue /\ UNCHANGED log
    /\ UNCHANGED <<created, seen, at, rows, faults>>

\* QuerySpecObject: rows marked as deleted are found too.
QuerySpecObject ==
    /\ pc = "query"
    /\ pc' = IF rows[instance.uid] = NoObject THEN "insert" ELSE "update"
    /\ UNCHANGED <<apiVars, seen, queued, at, rows, faults>>

\* What is written is the clean instance: its spec.
InsertSpecObject ==
    /\ pc = "insert"
    /\ rows' = [rows EXCEPT ![instance.uid] = [spec |-> instance.spec, deleted |-> FALSE]]
    /\ pc' = "return"
    /\ UNCHANGED <<apiVars, seen, queued, at, faults>>

\* Mutant: rows that exist are taken to be up to date.
areEqualOnceInserted(spec, specInTheDatabase) == TRUE

\* arePoliciesEqual: the templates are not compared.
areEqual(spec, specInTheDatabase) == spec.compared = specInTheDatabase.compared

UpdateSpecObject ==
    /\ pc = "update"
    /\ rows' = IF areEqual(instance.spec, rows[instance.uid].spec) THEN rows
                 ELSE [rows EXCEPT ![instance.uid].spec = instance.spec]
    /\ pc' = "return"
    /\ UNCHANGED <<apiVars, seen, queued, at, faults>>

Return ==
    /\ pc = "return"
    /\ pc' = "idle"
    /\ UNCHANGED <<apiVars, seen, queued, at, rows, faults>>

\* A call fails, or fails after it took effect (pc is then past it).
CallFails ==
    /\ pc # "idle" /\ faults < MaxFaults
    /\ Requeue
    /\ faults' = faults + 1
    /\ UNCHANGED <<apiVars, seen, at, rows>>

\* Mutant: reconciliations start before the cache is filled.
RestartBeforeCacheSync ==
    /\ faults < MaxFaults
    /\ faults' = faults + 1
    /\ pc' = "idle"
    /\ seen' = 1
    /\ queued' = TRUE
    /\ UNCHANGED <<apiVars, at, rows>>

\* The process restarts: the cache is listed anew, every resource is an event.
Restart ==
    /\ faults < MaxFaults
    /\ faults' = faults + 1
    /\ pc' = "idle"
    /\ seen' = Len(log)
    /\ queued' = (api # NoObject /\ EventPasses(NoObject, api))
    /\ UNCHANGED <<apiVars, at, rows>>

------------------------------------------------------------------------------
Init ==
    /\ log = <<NoObject>>
    /\ created = 0
    /\ seen = 1
    /\ queued = FALSE
    /\ pc = "idle"
    /\ at = 1
    /\ rows = [u \in Uids |-> NoObject]
    /\ faults = 0

Users == LabelLocal \/ Delete \/ \E spec \in Specs : Create(spec) \/ Edit(spec)

Controller ==
    \/ Reconcile
    \/ addFinalizer
    \/ deleteGone
    \/ deleteBeforeFinalizer
    \/ removeFinalizer
    \/ QuerySpecObject
    \/ InsertSpecObject
    \/ UpdateSpecObject
    \/ Return

Next == Users \/ Deliver \/ Controller \/ CallFails \/ Restart

Spec == Init /\ [][Next]_vars

\* Watch events are delivered and the controller's single worker keeps running.
FairSpec == Spec /\ WF_vars(Deliver) /\ WF_vars(Controller)

------------------------------------------------------------------------------
(* Properties *)

\* A row that is not marked as deleted belongs to the resource that exists and is
\* held by the finalizer, whatever was read from a stale cache and wherever the
\* process was interrupted: no leaf hub keeps a resource that the hub forgot.
NoOrphanRow ==
    \A u \in Uids : RowIsLive(u) => api # NoObject /\ api.uid = u /\ api.finalizer

\* "the instance on hub was deleted, update all the matching instances in the
\* database as deleted": marking by name never reaches the row of a resource that
\* is not being deleted, such as one created again under the same name.  A marked
\* row is never revived, so this would be final.
RowOfLiveObjectKept ==
    api # NoObject /\ ~api.deleting /\ rows[api.uid] # NoObject => ~rows[api.uid].deleted

InSync ==
    /\ api # NoObject => /\ ~api.deleting
                         /\ RowIsLive(api.uid)
                         /\ rows[api.uid].spec.compared = api.spec.compared
    /\ \A u \in Uids : RowIsLive(u) => api # NoObject /\ api.uid = u

\* The resource was never labelled as local: no event of it was filtered out.
NeverLocal == \A i \in DOMAIN log : log[i] = NoObject \/ ~log[i].local

\* Once users stop, and calls stop failing, the table becomes and stays what the
\* API server holds, as far as areEqual compares, and deletions complete, for a
\* resource whose events all reach the controller.
EventuallyInSync == <>[](NeverLocal => InSync)
==============================================================================
