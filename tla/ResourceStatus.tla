----------------------------- MODULE ResourceStatus -----------------------------
(***************************************************************************)
(* The status handlers that store whole lists of resources: the generic    *)
(* one (placements, subscriptions ...), the one of managed clusters and    *)
(* the one of local policies and placement rules.  All of them read the    *)
(* rows of the leaf hub, compare resource versions under a key and write   *)
(* one batch; they differ in the key.  Handlers of different leaf hubs run *)
(* at the same time on the same table, and the same global resource has a  *)
(* row for every leaf hub.                                                 *)
(*                                                                         *)
(* The layers below are represented by what they promise (Conflation,      *)
(* KafkaStatus): one handler of a leaf hub at a time, the newest bundle    *)
(* received next, and after a restart every bundle not handled again, with *)
(* some that were.                                                         *)
(***************************************************************************)
EXTENDS Integers, Sequences

CONSTANTS
    Hubs,
    Names,         \* names of resources
    Origins,       \* UIDs of resources of the hub of hubs
    NoOrigin,      \* the resource was created on the leaf hub
    MaxChanges,    \* bound on the changes of each leaf hub, for TLC
    MaxFailures,   \* bound on failures and restarts, for TLC
    Nil

ASSUME ResourceAssumption ==
    /\ MaxChanges \in Nat
    /\ MaxFailures \in Nat

VARIABLES
    kind,      \* the handler concerned
    bundles,   \* transport: the bundles each leaf hub has sent, sets of resources
    offset,    \* transport: the bundle of each leaf hub read last
    pending,   \* conflation unit: the bundle to handle, 0 when there is none
    job,       \* worker: the bundle of each leaf hub being handled, what was read, or Nil
    handled,   \* the last bundle reported as handled, before or after a restart
    payloads,  \* status database: the payloads of each leaf hub
    written,   \* the last bundle of each leaf hub that was written
    whole,     \* whether the handler that wrote it had read all rows
    failures

resourceVars ==
    <<kind, bundles, offset, pending, job, handled, payloads, written, whole, failures>>

Kinds == {"generic", "managed_clusters", "local"}

\* A payload; version is its resourceVersion, which no other state of a resource
\* of the same leaf hub has.
Resource == [name : Names, uid : Nat, origin : Origins \cup {NoOrigin}, version : Nat]

resources(h) == bundles[h][Len(bundles[h])]

------------------------------------------------------------------------------
(* Keys *)

getGenericResourceUID(o) == IF o.origin # NoOrigin THEN o.origin ELSE o.uid
managedClusterKey(o) == o.name
localResourceKey(o) == o.uid

Key(o) == CASE kind = "generic" -> getGenericResourceUID(o)
            [] kind = "managed_clusters" -> managedClusterKey(o)
            [] kind = "local" -> localResourceKey(o)

KeysOf(objects) == {Key(o) : o \in objects}

------------------------------------------------------------------------------
(* Leaf hub, external: every change is sent; the receiver skips some *)

LeafHubSends(h, objects) ==
    /\ Len(bundles[h]) <= MaxChanges
    /\ bundles' = [bundles EXCEPT ![h] = Append(@, objects)]
    /\ UNCHANGED <<kind, offset, pending, job, handled, payloads, written, whole, failures>>

CreateResource(h, name, origin) ==
    LET now == Len(bundles[h])
        o == [name |-> name, uid |-> now, origin |-> origin, version |-> now]
    IN  /\ Key(o) \notin KeysOf(resources(h))
        /\ \A r \in resources(h) : r.name # name
        /\ LeafHubSends(h, resources(h) \cup {o})

EditResource(h, o) ==
    LeafHubSends(h, (resources(h) \ {o}) \cup {[o EXCEPT !.version = Len(bundles[h])]})

DeleteResource(h, o) == LeafHubSends(h, resources(h) \ {o})

------------------------------------------------------------------------------
(* Transport and conflation: a newer bundle replaces the pending one *)

Receive(h) ==
    /\ offset[h] < Len(bundles[h])
    /\ offset' = [offset EXCEPT ![h] = @ + 1]
    /\ pending' = [pending EXCEPT ![h] = offset[h] + 1]
    /\ UNCHANGED <<kind, bundles, job, handled, payloads, written, whole, failures>>

------------------------------------------------------------------------------
(* Handlers *)

\* The batch that turns the rows read into the bundle.
diff(objects, read) ==
    [inserts |-> {o \in objects : Key(o) \notin KeysOf(read)},
     updates |-> {o \in objects : \E r \in read : Key(r) = Key(o) /\ r.version # o.version},
     deletes |-> KeysOf(read) \ KeysOf(objects)]

\* The rows of a leaf hub after its batch: deletes, inserts, then updates.
rowsAfter(table, batch) ==
    LET inserted == {r \in table : Key(r) \notin batch.deletes} \cup batch.inserts
    IN  {r \in inserted : Key(r) \notin KeysOf(batch.updates)}
          \cup {o \in batch.updates : Key(o) \in KeysOf(inserted)}

\* An insert of a key that exists is refused, and with it the whole batch.
BatchRefused(table, batch) ==
    \E r \in table, o \in batch.inserts : Key(r) = Key(o) /\ Key(r) \notin batch.deletes

\* Mutant: the statements do not name the leaf hub.
tableAfterOnAllHubs(h, batch) == [g \in Hubs |-> rowsAfter(payloads[g], batch)]

\* Every statement names the leaf hub.
tableAfter(h, batch) == [payloads EXCEPT ![h] = rowsAfter(payloads[h], batch)]

\* The handler's read.  It reports no error: one that fails or breaks off returns
\* the rows seen so far.
startHandler(h) ==
    /\ job[h] = Nil /\ pending[h] # 0
    /\ \/ /\ job' = [job EXCEPT ![h] = [at |-> pending[h], read |-> payloads[h], whole |-> TRUE]]
          /\ UNCHANGED failures
       \/ /\ failures < MaxFailures
          /\ failures' = failures + 1
          /\ \E read \in SUBSET payloads[h] :
               job' = [job EXCEPT ![h] = [at |-> pending[h], read |-> read,
                                          whole |-> read = payloads[h]]]
    /\ UNCHANGED <<kind, bundles, offset, pending, handled, payloads, written, whole>>

\* Mutant: a bundle received in the meantime is released with the one handled.
pendingAfterAny(h) == [pending EXCEPT ![h] = 0]

\* A bundle received in the meantime stays pending.
pendingAfter(h) == [pending EXCEPT ![h] = IF @ = job[h].at THEN 0 ELSE @]

\* The handler's batch, one transaction, and the report to the conflation unit.
sendBatch(h) ==
    LET batch == diff(bundles[h][job[h].at], job[h].read)
    IN  /\ job[h] # Nil
        /\ ~BatchRefused(payloads[h], batch)
        /\ payloads' = tableAfter(h, batch)
        /\ written' = [written EXCEPT ![h] = bundles[h][job[h].at]]
        /\ whole' = [whole EXCEPT ![h] = job[h].whole]
        /\ job' = [job EXCEPT ![h] = Nil]
        /\ \/ /\ handled' = [handled EXCEPT ![h] = IF @ < job[h].at THEN job[h].at ELSE @]
              /\ pending' = pendingAfter(h)
              /\ UNCHANGED failures
           \/ \* the acknowledgement is lost: the unit keeps the bundle
              /\ failures < MaxFailures
              /\ failures' = failures + 1
              /\ UNCHANGED <<handled, pending>>
        /\ UNCHANGED <<kind, bundles, offset>>

\* The batch is refused or the connection lost: the handler returns an error.
handlerFails(h) ==
    /\ job[h] # Nil
    /\ IF BatchRefused(payloads[h], diff(bundles[h][job[h].at], job[h].read))
         THEN UNCHANGED failures
         ELSE failures < MaxFailures /\ failures' = failures + 1
    /\ job' = [job EXCEPT ![h] = Nil]
    /\ UNCHANGED <<kind, bundles, offset, pending, handled, payloads, written, whole>>

handleResourcesBundle(h) == kind = "generic" /\ (startHandler(h) \/ sendBatch(h))
handleManagedClustersBundle(h) == kind = "managed_clusters" /\ (startHandler(h) \/ sendBatch(h))
handleLocalObjectsBundle(h) == kind = "local" /\ (startHandler(h) \/ sendBatch(h))

Handler(h) ==
    \/ handleResourcesBundle(h)
    \/ handleManagedClustersBundle(h)
    \/ handleLocalObjectsBundle(h)

\* The process restarts and reads again from a committed offset, which is not
\* after the first bundle that was not handled.
RestartHandlers ==
    /\ failures < MaxFailures
    /\ failures' = failures + 1
    /\ offset' \in {f \in [Hubs -> 0..(MaxChanges + 1)] : \A h \in Hubs : f[h] <= handled[h]}
    /\ pending' = [h \in Hubs |-> 0]
    /\ job' = [h \in Hubs |-> Nil]
    /\ UNCHANGED <<kind, bundles, handled, payloads, written, whole>>

------------------------------------------------------------------------------
ResourceInit ==
    /\ kind \in Kinds
    /\ bundles = [h \in Hubs |-> <<{}>>]
    /\ offset = [h \in Hubs |-> 0]
    /\ pending = [h \in Hubs |-> 0]
    /\ job = [h \in Hubs |-> Nil]
    /\ handled = [h \in Hubs |-> 0]
    /\ payloads = [h \in Hubs |-> {}]
    /\ written = [h \in Hubs |-> {}]
    /\ whole = [h \in Hubs |-> TRUE]
    /\ failures = 0

LeafHub(h) ==
    \/ \E name \in Names, origin \in Origins \cup {NoOrigin} : CreateResource(h, name, origin)
    \/ \E o \in resources(h) : EditResource(h, o) \/ DeleteResource(h, o)

ResourceNext ==
    \/ \E h \in Hubs : LeafHub(h) \/ Receive(h) \/ Handler(h) \/ handlerFails(h)
    \/ RestartHandlers

ResourceSpec == ResourceInit /\ [][ResourceNext]_resourceVars

\* The transport is read and every leaf hub's bundles are handled.
ResourceFairness ==
    \A h \in Hubs : /\ WF_resourceVars(Receive(h))
                    /\ WF_resourceVars(Handler(h) \/ handlerFails(h))

FairResourceSpec == ResourceSpec /\ ResourceFairness

------------------------------------------------------------------------------
(* Properties *)

\* "whatever is in the db and cannot be found in the bundle has to be deleted from
\* the db": the rows of a leaf hub are the last bundle that was written, whether it
\* was the newest or one read again after a restart, and whatever the handlers of
\* other leaf hubs write to the same table between the read and the batch.  When
\* the handler read only part of the rows, none of the bundle is missing still.
RowsAreOfWrittenBundle ==
    \A h \in Hubs : /\ written[h] \subseteq payloads[h]
                    /\ whole[h] => payloads[h] = written[h]

\* Once the leaf hubs stop changing and failures stop, the rows hold and keep what the
\* leaf hubs have, and nothing else unless the last handler did not read all rows.
ResourcesEventuallyStored ==
    <>[](\A h \in Hubs : /\ resources(h) \subseteq payloads[h]
                         /\ whole[h] => payloads[h] = resources(h))
==============================================================================
