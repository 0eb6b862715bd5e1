------------------------------ MODULE Conflation ------------------------------
(***************************************************************************)
(* The conflation layer between the status transport and the status        *)
(* database: one conflation unit per leaf hub, the ready queue the units   *)
(* share, the dispatcher that empties it and the pool of database workers. *)
(*                                                                         *)
(* A conflation unit keeps one element per registered bundle type.  The    *)
(* fields of a conflationElement and of its bundleInfo are variables here, *)
(* indexed by leaf hub and bundle type; ConflationUnit.lock makes insert,  *)
(* GetNext, ReportResult and getBundlesMetadata atomic, so each is one     *)
(* action.                                                                 *)
(*                                                                         *)
(* Abstraction of the data: a bundle is its version, the version of the    *)
(* bundle it depends on, and the set of transport messages whose content   *)
(* it carries ("events").  A message's transport metadata object is named  *)
(* by the message's position in the order of reception.                    *)
(***************************************************************************)
EXTENDS BundleVersion, FiniteSets, Sequences

CONSTANTS
    Hubs,             \* leaf hubs, each with a conflation unit
    Types,            \* registered bundle types
    Workers,          \* database workers
    Priority,         \* [Types -> Nat], the registered ConflationPriority
    SyncMode,         \* [Types -> {"complete", "delta"}]
    Dependency,       \* [Types -> Types \cup {Nil}], nil when there is none
    DependencyType,   \* [Types -> {"ExactMatch", "AtLeast"}]
    RequireInitialDependencyChecks,
    Deliverable,      \* [Types -> set of versions a transport may deliver]
    MaxReceived,      \* bound on the messages received, for TLC
    Nil

ASSUME RegistrationAssumption ==
    /\ Priority \in [Types -> Nat]
    /\ \A t, u \in Types : Priority[t] = Priority[u] => t = u
    /\ SyncMode \in [Types -> {"complete", "delta"}]
    /\ Dependency \in [Types -> Types \cup {Nil}]
    /\ DependencyType \in [Types -> {"ExactMatch", "AtLeast"}]
    /\ RequireInitialDependencyChecks \in BOOLEAN

\* The types that others depend on are complete-state ones.
ASSUME BasesAssumption ==
    \A t \in Types : Dependency[t] # Nil => SyncMode[Dependency[t]] = "complete"

ASSUME DeliveryAssumption ==
    /\ Deliverable \in [Types -> SUBSET [ver : BundleVersions, dep : BundleVersions]]
    /\ MaxReceived \in Nat

VARIABLES
    \* conflationElement and bundleInfo, per leaf hub and bundle type
    bundle,                      \* the pending bundle, or Nil
    metadata,                    \* the BundleMetadata pointed to, or Nil
    isInProcess,
    lastProcessedBundleVersion,
    lastDispatchedDelta,         \* delta only: content kept for recovery, or Nil
    lastReceivedTransportMetadata,  \* delta only, or Nil
    deltaLineHeadBundleVersion,  \* delta only
    \* ConflationUnit, per leaf hub
    isInReadyQueue,
    \* shared by all units
    readyQueue,                  \* ConflationReadyQueue.queue
    held,                        \* the unit the dispatcher dequeued, or Nil
    acquired,                    \* the worker the dispatcher acquired, or Nil
    dbWorkers,                   \* workers waiting in the pool
    job,                         \* the DBJob of each worker, or Nil
    \* transport side
    received,                    \* messages received so far
    processed,                   \* transport metadata marked as processed
    \* status database, as written by the handler functions
    stored,                      \* version of the last bundle written
    applied                      \* messages whose content was written

elementVars == <<bundle, metadata, isInProcess, lastProcessedBundleVersion,
                 lastDispatchedDelta, lastReceivedTransportMetadata,
                 deltaLineHeadBundleVersion>>
queueVars == <<isInReadyQueue, readyQueue>>
dispatchVars == <<held, acquired, dbWorkers>>
dbVars == <<stored, applied>>
vars == <<elementVars, queueVars, dispatchVars, job, received, processed, dbVars>>

Bundle == [ver : BundleVersions, dep : BundleVersions, events : SUBSET Nat]
BundleMetadata == [bundleVersion : BundleVersions, transportBundleMetadata : Nat]
RecoverableDelta == [bundle : Bundle, lowestPendingTransportMetadata : Nat]

\* A worker's job.  The job points to the metadata object of the element it
\* was taken from; shared is TRUE while the element still points to the same
\* object, and metadata is a copy of the object from the moment it no longer is.
DBJob == [hub : Hubs, type : Types, bundle : Bundle, shared : BOOLEAN,
          metadata : BundleMetadata, result : {"none", "success", "error"}]

ASSUME NilAssumption ==
    /\ Nil \notin Hubs /\ Nil \notin Workers /\ Nil \notin Types
    /\ Nil \notin Nat /\ Nil \notin BundleVersions
    /\ Nil \notin Bundle /\ Nil \notin BundleMetadata
    /\ Nil \notin RecoverableDelta /\ Nil \notin DBJob

------------------------------------------------------------------------------
(* Dependencies between bundle types *)

\* The chain of types that t depends on, t itself left out.
DependencyChain ==
    [t \in Types |->
        {u \in Types : \E n \in 1..Cardinality(Types) : \E path \in [0..n -> Types] :
            /\ path[0] = t
            /\ path[n] = u
            /\ \A i \in 1..n : path[i] = Dependency[path[i - 1]]}]

isCurrentOrAnyDependencyInProcess(h, t) ==
    \/ isInProcess[h][t]
    \/ \E u \in DependencyChain[t] : isInProcess[h][u]

\* Mutant: a base newer than the one asked for is accepted for every type.
DependencyAtLeast(t, b, lastVersion) == ~NewerThan(b.dep, lastVersion)

\* Mutant: the comparison with the base asked for is strict.
DependencyStrictlyNewer(t, b, lastVersion) == NewerThan(lastVersion, b.dep)

\* The dependency of bundle b of type t, given the last processed version of
\* the type it depends on.
DependencyMet(t, b, lastVersion) ==
    \/ ~RequireInitialDependencyChecks /\ Equals(lastVersion, noBundleVersion)
    \/ /\ DependencyType[t] = "ExactMatch"
       /\ Equals(b.dep, lastVersion)
    \/ /\ DependencyType[t] = "AtLeast"
       /\ ~NewerThan(b.dep, lastVersion)

checkDependency(h, t) ==
    \/ Dependency[t] = Nil
    \/ DependencyMet(t, bundle[h][t], lastProcessedBundleVersion[h][Dependency[t]])

\* The types of hub h with a bundle ready to be processed.
ReadyTypes(h) ==
    {t \in Types : /\ bundle[h][t] # Nil
                   /\ ~isCurrentOrAnyDependencyInProcess(h, t)
                   /\ checkDependency(h, t)}

\* getNextReadyBundlePriority: the ready bundle of the lowest priority number.
isNextReady(h, t) ==
    /\ t \in ReadyTypes(h)
    /\ \A u \in ReadyTypes(h) : Priority[t] <= Priority[u]

isUnitInProcess(h) == \E t \in Types : isInProcess[h][t]

------------------------------------------------------------------------------
(* The metadata objects shared between elements and jobs *)

\* The assignment m to a metadata object's transportBundleMetadata.
WithTransportMetadata(object, m) ==
    [bundleVersion |-> object.bundleVersion, transportBundleMetadata |-> m]

\* What the metadata pointer of worker w's job points to.
JobMetadata(w) ==
    IF job[w].shared THEN metadata[job[w].hub][job[w].type] ELSE job[w].metadata

\* The element (h, t) is about to point to a new metadata object: the jobs that
\* hold the old one keep it as it is.
KeepMetadataOfJobs(h, t) ==
    [w \in Workers |->
        IF job[w] # Nil /\ job[w].hub = h /\ job[w].type = t
          THEN [job[w] EXCEPT !.shared = FALSE, !.metadata = JobMetadata(w)]
          ELSE job[w]]

\* Mutant: the metadata object is always overwritten in place.
JobsSeeUpdate(h, t) == job

\* A new object is made when there is none or when the element is in process;
\* otherwise the object is overwritten in place, under every pointer to it.
JobsAfterUpdate(h, t) ==
    IF metadata[h][t] = Nil \/ isInProcess[h][t] THEN KeepMetadataOfJobs(h, t) ELSE job

------------------------------------------------------------------------------
(* ConflationUnit *)

\* Mutant: the unit queues itself although one of its bundles is in process.
addCUToReadyQueueWhileInProcess(h) ==
    IF isInReadyQueue[h] \/ ReadyTypes(h)' = {}
      THEN UNCHANGED queueVars
      ELSE /\ readyQueue' = Append(readyQueue, h)
           /\ isInReadyQueue' = [isInReadyQueue EXCEPT ![h] = TRUE]

\* Mutant: readiness is evaluated before the call's own changes.
addCUToReadyQueueTooEarly(h) ==
    IF isInReadyQueue[h] \/ isUnitInProcess(h)' \/ ReadyTypes(h) = {}
      THEN UNCHANGED queueVars
      ELSE /\ readyQueue' = Append(readyQueue, h)
           /\ isInReadyQueue' = [isInReadyQueue EXCEPT ![h] = TRUE]

\* The call that ends insert and ReportResult; it reads the fields as they are
\* after the rest of the call.
addCUToReadyQueueIfNeeded(h) ==
    IF isInReadyQueue[h] \/ isUnitInProcess(h)' \/ ReadyTypes(h)' = {}
      THEN UNCHANGED queueVars
      ELSE /\ readyQueue' = Append(readyQueue, h)
           /\ isInReadyQueue' = [isInReadyQueue EXCEPT ![h] = TRUE]

\* completeStateBundleInfo.update with the message m.
updateComplete(h, t, b, m) ==
    /\ bundle' = [bundle EXCEPT ![h][t] = [ver |-> b.ver, dep |-> b.dep, events |-> {m}]]
    /\ metadata' = [metadata EXCEPT ![h][t] =
            [bundleVersion |-> b.ver, transportBundleMetadata |-> m]]
    /\ UNCHANGED <<lastDispatchedDelta, lastReceivedTransportMetadata,
                   deltaLineHeadBundleVersion>>

\* Bundle b after b.InheritEvents(older): events on another base are dropped.
InheritEvents(b, older) ==
    IF older # Nil /\ Equals(older.dep, b.dep)
      THEN [ver |-> b.ver, dep |-> b.dep, events |-> b.events \cup older.events]
      ELSE b

bundleStartsNewLine(h, t, b) ==
    bundle[h][t] = Nil \/ NewerThan(b.dep, bundle[h][t].dep)

\* deltaStateBundleInfo.update with the message m.  The transport metadata stays
\* that of the earliest delta of the pack unless b starts a new line.
updateDelta(h, t, b, m) ==
    LET newLine == bundleStartsNewLine(h, t, b)
    IN  /\ bundle' = [bundle EXCEPT ![h][t] =
                InheritEvents([ver |-> b.ver, dep |-> b.dep, events |-> {m}], @)]
        /\ metadata' = [metadata EXCEPT ![h][t] =
                [bundleVersion |-> b.ver,
                 transportBundleMetadata |->
                    IF newLine \/ @ = Nil THEN m ELSE @.transportBundleMetadata]]
        /\ lastReceivedTransportMetadata' = [lastReceivedTransportMetadata EXCEPT ![h][t] = m]
        /\ deltaLineHeadBundleVersion' = [deltaLineHeadBundleVersion EXCEPT ![h][t] =
                IF newLine THEN b.ver ELSE @]
        /\ UNCHANGED lastDispatchedDelta

\* Mutant: only the pending bundle is looked at, not what was processed.
isNewerThanPending(h, t, b) ==
    bundle[h][t] # Nil => NewerThan(b.ver, bundle[h][t].ver)

\* The two early returns of insert.
isNewerBundle(h, t, b) ==
    /\ NewerThan(b.ver, lastProcessedBundleVersion[h][t])
    /\ bundle[h][t] # Nil => NewerThan(b.ver, bundle[h][t].ver)

\* ConflationManager.Insert of bundle b carried by message m.
Insert(h, t, b, m) ==
    IF isNewerBundle(h, t, b)
      THEN /\ IF SyncMode[t] = "complete" THEN updateComplete(h, t, b, m)
                                          ELSE updateDelta(h, t, b, m)
           /\ job' = JobsAfterUpdate(h, t)
           /\ UNCHANGED <<isInProcess, lastProcessedBundleVersion>>
           /\ addCUToReadyQueueIfNeeded(h)
      ELSE UNCHANGED <<elementVars, queueVars, job>>

------------------------------------------------------------------------------
(* Dispatcher *)

BlockingDequeue ==
    /\ held = Nil
    /\ readyQueue # << >>
    /\ held' = Head(readyQueue)
    /\ readyQueue' = Tail(readyQueue)
    /\ UNCHANGED <<elementVars, isInReadyQueue, acquired, dbWorkers, job, received,
                   processed, dbVars>>

Acquire ==
    /\ held # Nil
    /\ acquired = Nil
    /\ \E w \in dbWorkers :
        /\ acquired' = w
        /\ dbWorkers' = dbWorkers \ {w}
    /\ UNCHANGED <<elementVars, queueVars, held, job, received, processed, dbVars>>

\* deltaStateBundleInfo.getMetadata: the content is kept for recovery, the
\* metadata names the last message of the pack and a new pack starts.
getMetadataDelta(h, t) ==
    /\ lastDispatchedDelta' = [lastDispatchedDelta EXCEPT ![h][t] =
            [bundle |-> bundle[h][t],
             lowestPendingTransportMetadata |-> metadata[h][t].transportBundleMetadata]]
    /\ metadata' = [metadata EXCEPT ![h][t] =
            WithTransportMetadata(@, lastReceivedTransportMetadata[h][t])]
    /\ bundle' = [bundle EXCEPT ![h][t] = Nil]

\* GetNext on the unit in hand, and RunAsync on the acquired worker.
GetNext(h, t) ==
    /\ held = h
    /\ acquired # Nil
    /\ isNextReady(h, t)
    /\ isInReadyQueue' = [isInReadyQueue EXCEPT ![h] = FALSE]
    /\ isInProcess' = [isInProcess EXCEPT ![h][t] = TRUE]
    /\ job' = [job EXCEPT ![acquired] =
            [hub |-> h, type |-> t, bundle |-> bundle[h][t], shared |-> TRUE,
             metadata |-> metadata[h][t], result |-> "none"]]
    /\ IF SyncMode[t] = "delta"
         THEN getMetadataDelta(h, t)
         ELSE UNCHANGED <<lastDispatchedDelta, metadata, bundle>>
    /\ held' = Nil
    /\ acquired' = Nil
    /\ UNCHANGED <<lastProcessedBundleVersion, lastReceivedTransportMetadata,
                   deltaLineHeadBundleVersion, readyQueue, dbWorkers, received,
                   processed, dbVars>>

\* errNoReadyBundle: the dispatcher drops the unit and the worker it holds.
GetNextFails ==
    /\ held # Nil
    /\ acquired # Nil
    /\ ReadyTypes(held) = {}
    /\ held' = Nil
    /\ acquired' = Nil
    /\ UNCHANGED <<elementVars, queueVars, dbWorkers, job, received, processed, dbVars>>

------------------------------------------------------------------------------
(* Database workers *)

\* The handler function of the job.  A failed handler may have written before it
\* failed (a lost acknowledgement, or a handler of several statements).
RunHandler(w, result) ==
    /\ job[w] # Nil
    /\ job[w].result = "none"
    /\ job' = [job EXCEPT ![w].result = result]
    /\ \/ /\ stored' = [stored EXCEPT ![job[w].hub][job[w].type] = job[w].bundle.ver]
          /\ applied' = applied \cup job[w].bundle.events
       \/ /\ result = "error"
          /\ UNCHANGED dbVars
    /\ UNCHANGED <<elementVars, queueVars, dispatchVars, received, processed>>

\* Mutant: whatever is pending is released.
releaseAnyBundle(h, t, jobMetadata) == bundle' = [bundle EXCEPT ![h][t] = Nil]

\* completeStateBundleInfo.markAsProcessed: a newer pending bundle stays.
releaseBundle(h, t, jobMetadata) ==
    bundle' = IF Equals(jobMetadata.bundleVersion, metadata[h][t].bundleVersion)
                THEN [bundle EXCEPT ![h][t] = Nil]
                ELSE bundle

\* Mutant: the recovery data is released before it is read.
handleFailureAfterRelease(h, t, failed) ==
    /\ lastDispatchedDelta' = [lastDispatchedDelta EXCEPT ![h][t] = Nil]
    /\ IF NewerThan(deltaLineHeadBundleVersion[h][t], failed.bundleVersion)
         THEN UNCHANGED <<bundle, metadata>>
         ELSE /\ metadata' = [metadata EXCEPT ![h][t] = WithTransportMetadata(@, Nil)]
              /\ UNCHANGED bundle

\* deltaStateBundleInfo.handleFailure, given the metadata of the failed job.
handleFailure(h, t, failed) ==
    LET last == lastDispatchedDelta[h][t]
    IN  /\ lastDispatchedDelta' = [lastDispatchedDelta EXCEPT ![h][t] = Nil]
        /\ IF NewerThan(deltaLineHeadBundleVersion[h][t], failed.bundleVersion)
             THEN UNCHANGED <<bundle, metadata>>
             ELSE /\ bundle' = [bundle EXCEPT ![h][t] =
                          IF @ = Nil THEN last.bundle ELSE InheritEvents(@, last.bundle)]
                  /\ metadata' = [metadata EXCEPT ![h][t] =
                          WithTransportMetadata(@, last.lowestPendingTransportMetadata)]

\* Mutant: the element's metadata is marked instead of the reported one.
reportSuccessOfElement(h, t, jobMetadata) ==
    /\ lastProcessedBundleVersion' = [lastProcessedBundleVersion EXCEPT ![h][t] =
            IF NewerThan(jobMetadata.bundleVersion, @) THEN jobMetadata.bundleVersion ELSE @]
    /\ processed' = processed \cup {metadata[h][t].transportBundleMetadata}
    /\ UNCHANGED metadata
    /\ IF SyncMode[t] = "complete"
         THEN /\ releaseBundle(h, t, jobMetadata)
              /\ UNCHANGED lastDispatchedDelta
         ELSE /\ lastDispatchedDelta' = [lastDispatchedDelta EXCEPT ![h][t] = Nil]
              /\ UNCHANGED bundle

\* ReportResult, success: what it does to the element and the transport metadata.
reportSuccess(h, t, jobMetadata) ==
    /\ lastProcessedBundleVersion' = [lastProcessedBundleVersion EXCEPT ![h][t] =
            IF NewerThan(jobMetadata.bundleVersion, @) THEN jobMetadata.bundleVersion ELSE @]
    /\ processed' = processed \cup {jobMetadata.transportBundleMetadata}
    /\ UNCHANGED metadata
    /\ IF SyncMode[t] = "complete"
         THEN /\ releaseBundle(h, t, jobMetadata)
              /\ UNCHANGED lastDispatchedDelta
         ELSE /\ lastDispatchedDelta' = [lastDispatchedDelta EXCEPT ![h][t] = Nil]
              /\ UNCHANGED bundle

\* Mutant: a delta's version is remembered before the error is looked at.
reportErrorAfterVersion(h, t, jobMetadata) ==
    /\ IF SyncMode[t] = "delta"
         THEN /\ handleFailure(h, t, jobMetadata)
              /\ lastProcessedBundleVersion' = [lastProcessedBundleVersion EXCEPT ![h][t] =
                        jobMetadata.bundleVersion]
         ELSE UNCHANGED <<bundle, metadata, lastDispatchedDelta, lastProcessedBundleVersion>>
    /\ UNCHANGED processed

\* ReportResult, error: a complete bundle simply stays pending.
reportError(h, t, jobMetadata) ==
    /\ IF SyncMode[t] = "delta"
         THEN handleFailure(h, t, jobMetadata)
         ELSE UNCHANGED <<bundle, metadata, lastDispatchedDelta>>
    /\ UNCHANGED <<lastProcessedBundleVersion, processed>>

\* The worker reports to the unit and returns to the pool.
ReportResult(w, h, t) ==
    /\ job[w] # Nil
    /\ job[w].hub = h
    /\ job[w].type = t
    /\ job[w].result # "none"
    /\ isInProcess' = [isInProcess EXCEPT ![h][t] = FALSE]
    /\ IF job[w].result = "success" THEN reportSuccess(h, t, JobMetadata(w))
                                    ELSE reportError(h, t, JobMetadata(w))
    /\ addCUToReadyQueueIfNeeded(h)
    /\ job' = [job EXCEPT ![w] = Nil]
    /\ dbWorkers' = dbWorkers \cup {w}
    /\ UNCHANGED <<lastReceivedTransportMetadata, deltaLineHeadBundleVersion, held,
                   acquired, received, dbVars>>

------------------------------------------------------------------------------
(* The specification, with a transport that delivers anything in any order *)

Receive(h, t, b) ==
    /\ received < MaxReceived
    /\ received' = received + 1
    /\ Insert(h, t, b, received + 1)
    /\ UNCHANGED <<dispatchVars, processed, dbVars>>

\* The same value in every element of every unit.
EveryElement(value) == [h \in Hubs |-> [t \in Types |-> value]]

\* The state newConflationUnit gives every hub, an empty queue, all workers idle.
Init ==
    /\ bundle = EveryElement(Nil)
    /\ metadata = EveryElement(Nil)
    /\ isInProcess = EveryElement(FALSE)
    /\ lastProcessedBundleVersion = EveryElement(noBundleVersion)
    /\ lastDispatchedDelta = EveryElement(Nil)
    /\ lastReceivedTransportMetadata = EveryElement(Nil)
    /\ deltaLineHeadBundleVersion = EveryElement(Nil)
    /\ isInReadyQueue = [h \in Hubs |-> FALSE]
    /\ readyQueue = << >>
    /\ held = Nil
    /\ acquired = Nil
    /\ dbWorkers = Workers
    /\ job = [w \in Workers |-> Nil]
    /\ processed = {}
    /\ received = 0
    /\ stored = EveryElement(noBundleVersion)
    /\ applied = {}

\* The conflation manager, the queue and the worker pool of a new process.
NewMemory ==
    /\ bundle' = EveryElement(Nil)
    /\ metadata' = EveryElement(Nil)
    /\ isInProcess' = EveryElement(FALSE)
    /\ lastProcessedBundleVersion' = EveryElement(noBundleVersion)
    /\ lastDispatchedDelta' = EveryElement(Nil)
    /\ lastReceivedTransportMetadata' = EveryElement(Nil)
    /\ deltaLineHeadBundleVersion' = EveryElement(Nil)
    /\ isInReadyQueue' = [h \in Hubs |-> FALSE]
    /\ readyQueue' = << >>
    /\ held' = Nil
    /\ acquired' = Nil
    /\ dbWorkers' = Workers
    /\ job' = [w \in Workers |-> Nil]
    /\ processed' = {}

Dispatch ==
    \/ BlockingDequeue
    \/ Acquire
    \/ \E h \in Hubs, t \in Types : GetNext(h, t)
    \/ GetNextFails

Work(w) ==
    \/ \E result \in {"success", "error"} : RunHandler(w, result)
    \/ \E h \in Hubs, t \in Types : ReportResult(w, h, t)

Next ==
    \/ \E h \in Hubs, t \in Types : \E b \in Deliverable[t] : Receive(h, t, b)
    \/ Dispatch
    \/ \E w \in Workers : Work(w)

Spec == Init /\ [][Next]_vars

------------------------------------------------------------------------------
(* Properties *)

CompleteTypes == {t \in Types : SyncMode[t] = "complete"}

\* Every field holds a value of its Go type.
TypeOK ==
    /\ bundle \in [Hubs -> [Types -> Bundle \cup {Nil}]]
    /\ metadata \in [Hubs -> [Types -> BundleMetadata \cup {Nil}]]
    /\ isInProcess \in [Hubs -> [Types -> BOOLEAN]]
    /\ lastProcessedBundleVersion \in [Hubs -> [Types -> BundleVersions]]
    /\ lastDispatchedDelta \in [Hubs -> [Types -> RecoverableDelta \cup {Nil}]]
    /\ lastReceivedTransportMetadata \in [Hubs -> [Types -> Nat \cup {Nil}]]
    /\ deltaLineHeadBundleVersion \in [Hubs -> [Types -> BundleVersions \cup {Nil}]]
    /\ isInReadyQueue \in [Hubs -> BOOLEAN]
    /\ readyQueue \in Seq(Hubs)
    /\ held \in Hubs \cup {Nil}
    /\ acquired \in Workers \cup {Nil}
    /\ dbWorkers \subseteq Workers
    /\ job \in [Workers -> DBJob \cup {Nil}]
    /\ received \in Nat
    /\ processed \subseteq Nat
    /\ stored \in [Hubs -> [Types -> BundleVersions]]
    /\ applied \subseteq Nat

\* Unit h is in the ready queue or in the dispatcher's hand.
Queued(h) == held = h \/ \E i \in 1..Len(readyQueue) : readyQueue[i] = h

\* "allow CU to appear only once in RQ/processing": a unit is in the ready queue,
\* in the dispatcher's hand or in one worker's job, at most one of them and at
\* most once, although insert, GetNext and ReportResult run on three threads.
SerialPerHub ==
    /\ \A i, j \in 1..Len(readyQueue) : readyQueue[i] = readyQueue[j] => i = j
    /\ \A i \in 1..Len(readyQueue) : readyQueue[i] # held
    /\ \A w \in Workers : job[w] # Nil =>
        /\ ~Queued(job[w].hub)
        /\ \A v \in Workers \ {w} : job[v] # Nil => job[v].hub # job[w].hub

\* No lost wake-up: a unit with a bundle ready to be processed and none in
\* process is marked as being in the ready queue, whichever of insert and
\* ReportResult came last.
NoIdleReadyUnit ==
    \A h \in Hubs : ReadyTypes(h) # {} /\ ~isUnitInProcess(h) => isInReadyQueue[h]

\* What the unit remembers as processed and what the database holds, for
\* complete-state types: memory is never ahead of the database, and the database
\* is ahead only while a bundle at least as new is still to be (re)processed.
\* Breaks if the metadata a worker holds is overwritten by a newer bundle.
MemoryTracksDB ==
    \A h \in Hubs, t \in CompleteTypes :
        /\ ~NewerThan(lastProcessedBundleVersion[h][t], stored[h][t])
        /\ NewerThan(stored[h][t], lastProcessedBundleVersion[h][t]) =>
             bundle[h][t] # Nil /\ ~NewerThan(stored[h][t], bundle[h][t].ver)

\* Transport metadata is marked as processed (and so may be committed) only
\* after the content of its message was written to the database.
MarkedIsApplied == processed \subseteq applied

\* While a worker handles a bundle with an exact-match dependency, the database
\* holds exactly the base version the bundle names; the exceptions are the
\* first base after a start when initial checks are off, and a base whose newer
\* version was written by a handler that then failed and will run again.
DependencyHeld ==
    \A w \in Workers : job[w] # Nil =>
        LET h == job[w].hub
            u == Dependency[job[w].type]
        IN  u # Nil /\ DependencyType[job[w].type] = "ExactMatch" =>
              \/ Equals(stored[h][u], job[w].bundle.dep)
              \/ /\ ~RequireInitialDependencyChecks
                 /\ Equals(lastProcessedBundleVersion[h][u], noBundleVersion)
              \/ /\ Equals(lastProcessedBundleVersion[h][u], job[w].bundle.dep)
                 /\ NewerThan(stored[h][u], job[w].bundle.dep)
                 /\ bundle[h][u] # Nil

\* "if we got inside the handler function, then the bundle version is newer than
\* what was already handled": whatever is delivered late or twice, the version
\* of a complete-state type in the database never goes back.
StoredNeverRegresses ==
    [][\A h \in Hubs, t \in CompleteTypes : ~NewerThan(stored[h][t], stored'[h][t])]_vars

\* "CU adds itself to RQ only when it has ready to process bundle, therefore
\* this shouldn't happen": GetNext always finds a bundle.  It does not when a delta
\* on a base that is not stored yet replaces the only ready bundle of a unit in
\* the queue.
GetNextFindsBundle == held # Nil /\ acquired # Nil => ReadyTypes(held) # {}

\* The dispatcher found no ready bundle in a unit and dropped it: the unit takes
\* itself to be in the ready queue from then on, and nothing of it is handled.
UnitDropped == \E h \in Hubs : isInReadyQueue[h] /\ ~Queued(h)

\* "The failed bundle's content is re-merged (not as source of truth) into the
\* current active bundle": a delta pack whose handler failed is pending again,
\* unless the pending bundle builds on another base.
FailedDeltaIsMerged ==
    [][\A w \in Workers :
        (job[w] # Nil /\ job'[w] = Nil /\ job[w].result = "error"
            /\ SyncMode[job[w].type] = "delta") =>
          LET now == bundle'[job[w].hub][job[w].type]
          IN  /\ now # Nil
              /\ NewerThan(now.ver, job[w].bundle.ver) /\ Equals(now.dep, job[w].bundle.dep)
                   => job[w].bundle.events \subseteq now.events
      ]_vars
==============================================================================
