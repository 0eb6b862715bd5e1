-------------------------- MODULE SyncServiceStatus --------------------------
(***************************************************************************)
(* The conflation layer fed by the sync service, the other status          *)
(* transport: the manager polls the service for objects, hands them to the *)
(* conflation manager one at a time and marks them received; a committer   *)
(* marks as consumed the objects whose bundles were processed; crashes.    *)
(*                                                                         *)
(* External, modelled from how the client is used: the service keeps one   *)
(* object per leaf hub and bundle type, the last one published.  A poll    *)
(* returns the objects that are not marked received, the first poll of a   *)
(* process all that are not consumed.  A mark names a version and has no   *)
(* effect on another one; data that is fetched is of the current version.  *)
(*                                                                         *)
(* A reception creates the transport metadata object of its number.        *)
(***************************************************************************)
EXTENDS Conflation, FiniteSetsExt

CONSTANTS
    Budgets,       \* bounds on the objects each leaf hub publishes, for TLC
    MaxFaults      \* bound on failed calls and crashes, for TLC

ASSUME SyncServiceAssumption == Budgets \subseteq [Hubs -> Nat] /\ MaxFaults \in Nat

VARIABLES
    objects,       \* the service: the object of each leaf hub and type, or Nil
    registered,    \* the syncers registered their bundle types
    firstPoll,     \* the client has not polled since the process started
    polled,        \* object metadata the client polled and did not hand over yet
    handled,       \* the object inserted and not marked received yet, or Nil
    deliveries,    \* the object metadata of each reception
    toCommit,      \* committer: processed objects not yet marked consumed
    committedVersions,  \* committer: committedMetadataToVersionMap
    skipped,       \* ghost: objects skipped although they are marked received
    faults

clientVars == <<registered, firstPoll, polled, handled, deliveries, skipped>>
markerVars == <<toCommit, committedVersions>>
syncVars == <<vars, objects, clientVars, markerVars, faults>>

\* The service's object of one leaf hub and type, and the metadata a poll returns.
SyncObject == [ver : BundleVersions, dep : BundleVersions, received : BOOLEAN,
               consumed : BOOLEAN]
ObjectMeta == [hub : Hubs, type : Types, ver : BundleVersions]

ASSUME NilObjectAssumption == Nil \notin SyncObject /\ Nil \notin ObjectMeta

Fault == faults < MaxFaults /\ faults' = faults + 1

------------------------------------------------------------------------------
(* The service and the leaf hubs, external *)

Published == {p \in Hubs \X Types : objects[p[1]][p[2]] # Nil}

LastVersion(h, t) == IF objects[h][t] = Nil THEN noBundleVersion ELSE objects[h][t].ver

\* The metadata of the current object of hub h and type t.
ObjectMetaData(h, t) == [hub |-> h, type |-> t, ver |-> LastVersion(h, t)]

\* How many objects leaf hub h published.
SentBy(h) == LET generation(t) == LastVersion(h, t).generation
             IN  MapThenSumSet(generation, Types)

\* A leaf hub publishes its next bundle of type t, which replaces the last one;
\* the base it names is the last bundle it published of the type depended on.
Publish(h, t) ==
    /\ \E budget \in Budgets : \A k \in Hubs :
            SentBy(k) + (IF k = h THEN 1 ELSE 0) <= budget[k]
    /\ Dependency[t] # Nil => objects[h][Dependency[t]] # Nil
    /\ objects' = [objects EXCEPT ![h][t] =
            [ver |-> NewBundleVersion(0, LastVersion(h, t).generation + 1),
             dep |-> IF Dependency[t] = Nil THEN noBundleVersion
                                            ELSE LastVersion(h, Dependency[t]),
             received |-> FALSE, consumed |-> FALSE]]
    /\ UNCHANGED <<vars, clientVars, markerVars, faults>>

\* Object o is still the current one of its hub and type.
IsCurrent(o) == o = ObjectMetaData(o.hub, o.type)

------------------------------------------------------------------------------
(* SyncService *)

\* One poll, and the list of objects it gives to the channel.
StartPollingForUpdates ==
    /\ polled = {}
    /\ polled' = {ObjectMetaData(p[1], p[2]) : p \in {q \in Published :
            /\ ~objects[q[1]][q[2]].consumed
            /\ objects[q[1]][q[2]].received => firstPoll}}
    /\ firstPoll' = FALSE
    /\ polled' # {} \/ firstPoll
    /\ UNCHANGED <<vars, objects, registered, handled, deliveries, skipped, markerVars,
                   faults>>

\* Mutant: an object that was not used is marked received as well.
receivedAfterSkip(o) ==
    IF IsCurrent(o) THEN [objects EXCEPT ![o.hub][o.type].received = TRUE] ELSE objects

\* The objects after one was skipped: it is not marked.
objectsAfterSkip(o) == objects

\* An object is read from the channel and not used: nobody registered for its
\* type, or a fault: its data cannot be fetched or parsed, or the registration's
\* predicate refuses it while another aggregation level is configured.
skipObject(o) ==
    /\ handled = Nil
    /\ o \in polled
    /\ IF registered THEN Fault ELSE UNCHANGED faults
    /\ polled' = polled \ {o}
    /\ objects' = objectsAfterSkip(o)
    /\ skipped' = IF IsCurrent(o) /\ objects[o.hub][o.type].received
                    THEN skipped \cup {o} ELSE skipped
    /\ UNCHANGED <<vars, registered, firstPoll, handled, deliveries, markerVars>>

\* An object is read from the channel, fetched and inserted.
handleBundle(o) ==
    /\ handled = Nil
    /\ o \in polled
    /\ registered
    /\ polled' = polled \ {o}
    /\ received' = received + 1
    /\ deliveries' = Append(deliveries, o)
    /\ Insert(o.hub, o.type, objects[o.hub][o.type], received + 1)
    /\ handled' = o
    /\ UNCHANGED <<dispatchVars, processed, dbVars, objects, registered, firstPoll, skipped,
                   markerVars, faults>>

MarkObjectReceived ==
    /\ handled # Nil
    /\ handled' = Nil
    /\ \/ /\ objects' = IF IsCurrent(handled)
                          THEN [objects EXCEPT ![handled.hub][handled.type].received = TRUE]
                          ELSE objects
          /\ UNCHANGED faults
       \/ Fault /\ UNCHANGED objects
    /\ UNCHANGED <<vars, registered, firstPoll, polled, deliveries, skipped, markerVars>>

\* The syncers register their bundle types; the transport was started before.
Register ==
    /\ ~registered
    /\ registered' = TRUE
    /\ UNCHANGED <<vars, objects, firstPoll, polled, handled, deliveries, skipped,
                   markerVars, faults>>

------------------------------------------------------------------------------
(* Committer *)

\* The transport metadata GetBundlesMetadata returns.  It reads one unit after the
\* other, which is one step here: an object depends on the metadata of its own unit.
BundlesMetadata ==
    {metadata[e[1]][e[2]].transportBundleMetadata :
        e \in {f \in Hubs \X Types : metadata[f[1]][f[2]] # Nil}}

\* Mutant: everything read is committed, processed or not.
processedAndPendingMetadata == BundlesMetadata

\* The metadata of a pass whose bundle is processed.
processedMetadata == BundlesMetadata \cap processed

\* The ticker fires: the processed objects, without those already committed.
commitMetadata ==
    /\ toCommit = {}
    /\ toCommit' = {o \in {deliveries[m] : m \in processedMetadata} :
            ~Equals(o.ver, committedVersions[o.hub][o.type])}
    /\ toCommit' # {}
    /\ UNCHANGED <<vars, objects, clientVars, committedVersions, faults>>

\* One iteration of commitObjectsMetadata.
MarkObjectConsumed(o) ==
    /\ o \in toCommit
    /\ toCommit' = toCommit \ {o}
    /\ objects' = IF IsCurrent(o)
                    THEN [objects EXCEPT ![o.hub][o.type].consumed = TRUE] ELSE objects
    /\ committedVersions' = [committedVersions EXCEPT ![o.hub][o.type] = o.ver]
    /\ UNCHANGED <<vars, clientVars, faults>>

\* "stopping bulk commit".
stopBulkCommit ==
    /\ toCommit # {}
    /\ Fault
    /\ toCommit' = {}
    /\ UNCHANGED <<vars, objects, clientVars, committedVersions>>

------------------------------------------------------------------------------
\* The manager dies and comes back: all memory is as newly made.
RestartManager ==
    /\ Fault
    /\ NewMemory
    /\ registered' = FALSE
    /\ firstPoll' = TRUE
    /\ polled' = {}
    /\ handled' = Nil
    /\ toCommit' = {}
    /\ committedVersions' = EveryElement(noBundleVersion)
    /\ skipped' = {}
    /\ received' = 0
    /\ deliveries' = << >>
    /\ applied' = {}
    /\ UNCHANGED <<stored, objects>>

SyncInit ==
    /\ Init
    /\ objects = EveryElement(Nil)
    /\ registered = FALSE
    /\ firstPoll = TRUE
    /\ polled = {}
    /\ handled = Nil
    /\ deliveries = << >>
    /\ toCommit = {}
    /\ committedVersions = EveryElement(noBundleVersion)
    /\ skipped = {}
    /\ faults = 0

\* The goroutine of handleBundles.
HandleBundles ==
    \/ \E o \in polled : handleBundle(o) \/ skipObject(o)
    \/ MarkObjectReceived

CommitObjects ==
    \/ commitMetadata
    \/ \E o \in toCommit : MarkObjectConsumed(o)
    \/ stopBulkCommit

\* A worker's step; a handler that fails is a fault.
WorkOrFault(w) ==
    /\ \/ RunHandler(w, "success") /\ UNCHANGED faults
       \/ \E h \in Hubs, t \in Types : ReportResult(w, h, t) /\ UNCHANGED faults
       \/ RunHandler(w, "error") /\ Fault
    /\ UNCHANGED <<objects, clientVars, markerVars>>

DispatchStep == Dispatch /\ UNCHANGED <<objects, clientVars, markerVars, faults>>

SyncNext ==
    \/ \E h \in Hubs, t \in Types : Publish(h, t)
    \/ Register
    \/ StartPollingForUpdates
    \/ HandleBundles
    \/ DispatchStep
    \/ \E w \in Workers : WorkOrFault(w)
    \/ CommitObjects
    \/ RestartManager

SyncSpec == SyncInit /\ [][SyncNext]_syncVars

\* Start-up, the poller, the handler of objects, the dispatcher and the workers are
\* threads that run whenever they can; faults are bounded.  Nothing is assumed of the committer.
SyncFairness ==
    /\ WF_syncVars(Register)
    /\ WF_syncVars(StartPollingForUpdates)
    /\ WF_syncVars(HandleBundles)
    /\ WF_syncVars(DispatchStep)
    /\ \A w \in Workers : WF_syncVars(WorkOrFault(w))

FairSyncSpec == SyncSpec /\ SyncFairness

------------------------------------------------------------------------------
(* Properties *)

\* "sync service objects should be committed only if processed": an object that
\* no restarted manager will be given again is in the database, itself or a newer
\* one of its kind, although data and metadata are read at different moments,
\* bundles are conflated and the committer works on what it read before.
ConsumedIsStored ==
    \A p \in Published : objects[p[1]][p[2]].consumed =>
        ~NewerThan(LastVersion(p[1], p[2]), stored[p[1]][p[2]])

\* Version v of hub h and type t is stored, or it or a newer one is pending, or in
\* the delta pack that a worker has.
IsHeld(h, t, v) ==
    \/ ~NewerThan(v, stored[h][t])
    \/ bundle[h][t] # Nil /\ ~NewerThan(v, bundle[h][t].ver)
    \/ SyncMode[t] = "delta" /\ \E w \in Workers :
         job[w] # Nil /\ job[w].hub = h /\ job[w].type = t /\ ~NewerThan(v, job[w].bundle.ver)

\* An object that is marked received, so that the service does not offer it again,
\* is stored, or its bundle is pending, or it is yet to be read from the first
\* poll of the process.  The exception is one that was received by an earlier
\* process and is skipped in the first poll of this one.
ReceivedIsHeld ==
    \A p \in Published :
        LET h == p[1]
            t == p[2]
        IN  objects[h][t].received =>
              \/ IsHeld(h, t, LastVersion(h, t))
              \/ firstPoll
              \/ ObjectMetaData(h, t) \in polled \cup skipped

\* The object of h and t builds on the current objects of its chain, each of them
\* is processed or will be given to this process, and none was skipped for good.
Servable(h, t) ==
    \A u \in {t} \cup DependencyChain[t] :
        /\ objects[h][u] # Nil
        /\ Dependency[u] # Nil => Equals(objects[h][u].dep, LastVersion(h, Dependency[u]))
        /\ Equals(lastProcessedBundleVersion[h][u], LastVersion(h, u)) \/ ~objects[h][u].consumed
        /\ ObjectMetaData(h, u) \notin skipped

\* The database catches up with the leaf hubs through failed fetches, marks and
\* handlers, objects replaced while they are handled, and crashes: every object
\* that can still be served is eventually stored for good, unless the dispatcher
\* dropped a unit.
ObjectsEventuallyStored ==
    <>[](\/ UnitDropped
         \/ \A h \in Hubs, t \in Types :
                Servable(h, t) => Equals(stored[h][t], LastVersion(h, t)))
==============================================================================
