# A TLA+ verification of hub-of-hubs-manager

hub-of-hubs-manager runs on the hub of hubs. It moves *spec* (policies, placements,
applications, labels ...) from the hub's Kubernetes API through a database to a
transport that leaf hubs read, and *status* (compliance, managed clusters, placement
decisions ...) from the transport that leaf hubs write through a database back to the
status of the hub's Kubernetes objects. This directory holds TLA+ models of its core,
the TLC runs that check them and TLAPS proofs of the results that hold for every
instance.

## 1. Inventory

`T/` stands for `src/pkg/statussyncer/transport2db/`, `X/` for `src/pkg/specsyncer/`.

| Component | State it keeps | Operations | Talks to |
|---|---|---|---|
| Conflation manager and units (`T/conflator`) | per leaf hub a priority queue of elements (pending bundle, metadata, in-process flag, last processed version), a flag "in ready queue" | `insert`, `GetNext`, `ReportResult`, `getBundlesMetadata` | transport (inserts), dispatcher, workers, committer; one lock per unit |
| Ready queue, dispatcher, worker pool (`T/conflator/ready_queue.go`, `T/syncer/dispatcher`, `T/db/workerpool`) | queue of units, idle workers, one job per worker | `BlockingDequeue`, `Acquire`, `RunAsync` | conflation units, handlers |
| Kafka status transport (`T/transport/kafka`) | consumer position, the offsets committed since the start | `processMessage`, periodic commit | broker, conflation manager |
| Sync-service status transport (`T/transport/syncservice`) | registrations by message id, versions already committed | `handleBundles` (poll, fetch, insert, mark received), periodic commit (mark consumed) | sync service, conflation manager |
| Status handlers (`T/syncer/dbsyncer`, `T/db/postgresql`, `T/db/postgresql/batch`) | none; rows of the status database per leaf hub | one handler per bundle type: read rows, diff, write a batch | status database |
| Spec controllers (`X/spec2db`) | none; finalizers on the hub's objects, rows of the spec database | `Reconcile` per object | Kubernetes API (through a cache), spec database |
| Spec syncers (`X/db2transport`) | last synced timestamp and interval per table | periodic `syncObjectsBundle` | spec database, producer |
| Managed cluster labels (`src/pkg/nonk8sapi/managedclusters/patch.go`, the labels syncer and `X/db2transport/syncer/statuswatcher`) | rows of `spec.managed_clusters_labels` with a version column | `Patch`, periodic trim of deleted keys, fill of leaf hub names, sync per leaf hub | spec and status database, producer |
| Database to status syncers (`src/pkg/statussyncer/db2status`) and the placement binding controller | none; status of the hub's objects | periodic sync per policy, placement rule, placement, placement decision, subscription report and status; `Reconcile` of a binding | status database, Kubernetes API (through a cache) |
| Non-Kubernetes API (`src/pkg/nonk8sapi`) | per watch the names sent before | authentication, list and watch of managed clusters filtered by an authorization answer, read of policy status | status database, authentication and authorization services, clients |
| Configuration, statistics, compression | one shared configuration object | | |

What is hard here, and what makes each component correct:

* **Conflation.** Three threads meet on a unit: the transport inserts, the dispatcher takes,
  a worker reports. Bundles are replaced while one is being processed, a job's metadata
  object may be shared with the element, a failed delta pack must be merged back, and
  dependent bundles must find their base. Correct means: a unit is in one place at a time,
  is never forgotten while it has work, never marks as processed what was not written, and
  never lets a bundle run on the wrong base.
* **Commits and crashes.** What is replayed after a crash is the lowest pending offset a
  committer saw, while it looked at one unit after the other. Correct means: nothing that is
  still needed lies below the committed offset, and everything is eventually stored.
* **Status handlers.** They diff a bundle against rows they read, and optimised bundles
  leave the compliant clusters out. Correct means: after a handler succeeded, the rows are
  what the leaf hub reported, also when packs of deltas were merged first.
* **Spec controllers.** They read a cache that lags, and a crash can fall between any two
  calls. Correct means: no row stays alive for an object that is gone, and the rows follow
  the objects.
* **Spec syncers and labels.** Several writers and a reader that only compares timestamps;
  optimistic concurrency on a version column; sends that may be lost. Correct means: what
  was written is eventually sent, and no user's change is silently undone.
* **Database to status syncers.** They patch from cached copies, are cancelled by the next
  tick, and share a policy's status with the binding controller, while owners are deleted and
  created again. Correct means: the status ends as the aggregate of the rows, and neither
  writer undoes the other.
* **Managed clusters API.** The authorization answer, of any form, becomes an SQL condition,
  with its three truth values; a watch infers deletions from what a query did not return.
  Correct means: nothing is shown that the answer does not allow, and a watch ends up right.

`PROJECT.json` lists the hazards line by line under "hazards".

## 2. Plan

The modules, in the order in which they were or will be written; those marked "done"
exist.

| Order | Module | Subject | State |
|---|---|---|---|
| 1 | `BundleVersion`, `Conflation` | units, ready queue, dispatcher, workers | done |
| 2 | `ConflationProofs` | types, one place per unit, no lost wake-up, metadata, database | done |
| 3 | `KafkaStatus` (extends `Conflation`), `StatusTransportProofs` | consumer, committer, crashes | done |
| 4 | `ComplianceTable`, `ComplianceStatus`, `ComplianceProofs` | the four policy handlers | done |
| 5 | `ResourceStatus`, `ResourceProofs` | generic, managed cluster and local handlers | done |
| 6 | `SpecToDB`, `SpecProofs` | spec controllers | done |
| 7 | `IntervalPolicy`, `DBToTransport`, `TransportProofs` | spec syncers | done |
| 8 | `ManagedClusterLabels`, `LabelsProofs` | PATCH requests, labels syncer, status watcher | done |
| 9 | `SyncServiceStatus` (extends `Conflation`), `StatusTransportProofs` | the other status transport | done |
| 10 | `HandlerContract`, `ConflationRefinement` | what handlers are promised; `Conflation`, `KafkaStatus` and `SyncServiceStatus` implement it | done |
| 11 | `DBToStatus` | database to status syncers, binding controller | done |
| 12 | `AuthorizationFilter`, `ManagedClustersWatch`, `StatusReaders`, `ReadersProofs` | list and watch of managed clusters; both readers of the status database | done |
| 13 | `DatabaseWriters` | `ResourceStatus` and `SpecToDB` in one run | done |
| 14 | `fillMissingLeafHubNames` in `ManagedClusterLabels` | | done |
| 15 | registration type by type, and units created by the first message | | to do |
| 16 | heartbeats in `ResourceStatus`, `policies/list_status.go` | | to do |

The abstract specification of the conflation layer is `HandlerContract`: one handler of a
leaf hub at a time, a complete-state bundle newer than all before, a dependent bundle right
after the base it names. `ComplianceStatus` and `ResourceStatus` assume it as their environment,
and `ConflationRefinement` states that `Conflation` implements it.

Every safety property of the passing runs is a theorem (section 6). Worth proving next:
what `CommittedIsCovered` becomes for deltas, which packs in flight pass (section 4), and what
remains true of complete-state types when several leaf hubs share a partition.

## 3. Modules and the code

Every module says in its header what it abstracts; `PROJECT.json` maps every definition to
lines. The general rule: what runs under one lock, in one transaction or in one call of an
external system is one action; the control (guards, early returns, error paths, order) is
kept, and content is reduced to what tells two outcomes apart.

* **`BundleVersion`** - incarnation and generation, `NewerThan` and `Equals`.
* **`Conflation`** - the fields of `conflationElement` and of the two `bundleInfo`s are
  variables indexed by leaf hub and type. `Insert`, `GetNext` and `ReportResult` are each one
  action because `ConflationUnit.lock` is held; `BlockingDequeue`, `Acquire`, `RunHandler`
  (the handler with its database write) are actions of the dispatcher and the workers. A
  job shares the metadata object with its element until `update` replaces the object; the
  flag `shared` keeps apart what the code keeps apart by pointers. A bundle is its version,
  the version it depends on and the set of messages whose content it carries. The transport
  (`Receive`) loses, duplicates and reorders. A handler may fail before or after its write.
* **`KafkaStatus`** extends `Conflation`: `processMessage` delivers a log in order instead of
  `Receive`; the committer reads one unit per step (`getBundlesMetadata`), filters and
  commits (`commitOffsets`); `Restart` forgets all memory and resumes from the broker.
* **`SyncServiceStatus`** extends `Conflation`: the service (external) keeps the last object of
  each leaf hub and type with its "received" and "consumed" marks. A poll, the fetch and insert
  of one object, the mark that it was received, a pass of the committer and each mark it makes are
  actions; fetches, marks and handlers may fail, the syncers register only after the transport
  started, and `RestartManager` loses all memory. Assumed of the service: a mark names a version and
  does nothing to another one; a poll returns what is not received, the first poll of a process
  all that is not consumed.
* **`HandlerContract`**, **`ConflationRefinement`** - the promise to the handlers, with three
  variables per leaf hub (`handling`, `done`, `stored`), and the mapping: `handling` is the job of
  the worker that holds the unit, `done` is `lastProcessedBundleVersion`.
* **`ComplianceTable`** - pure operators: the diffs of the policy handlers, the batch and its
  execution in the order of `Build`, the split at the statement's argument limit, the merge
  of deltas.
* **`ComplianceStatus`** - one leaf hub (external) that changes its clusters and compliance
  and sends the bundles of the configured aggregation level, the pending bundle of each kind, and the four
  handlers. A pack of deltas is taken out by `GetNextDelta`, so that deltas arrive while its handler
  runs, and comes back when the handler fails, unless one did (`handleFailure`). Reads may break off:
  `rows.Next()` returns false and nobody asks `rows.Err()`. `brokenReads` remembers for which kinds
  the last batch was built from such a read, `droppedRows` what a dropped pack was the last to name.
* **`ResourceStatus`** - the handlers that store whole lists, for several leaf hubs on one
  table. `kind` selects the key: origin-owner annotation or UID, cluster name, UID.
  Read and batch are two steps, so handlers of different leaf hubs interleave.
* **`SpecToDB`** - one name of one kind. `log` is its history in the API server, the informer
  cache is a position in it, and every call of `processCR` is an action. Users create, edit,
  label, delete and re-create it; calls fail before or after they took effect; the process
  restarts between any two calls.
* **`IntervalPolicy`, `DBToTransport`** - `syncObjectsBundle` as its separate reads (timestamp,
  timestamp again, rows) and the send, with writers in between; the interval policy; a
  transport that sends in order, may fail to send and loses its queue at a restart.
* **`ManagedClusterLabels`** - PATCH requests as SELECT, begin and end of the write, with the
  connections they hold; the labels syncer; the status watcher, which trims deleted keys and
  fills missing leaf hub names; the leaf hub (external). Every statement takes its timestamp
  when it begins and is seen when it ends.
* **`DBToStatus`** - one name of one kind. `periodicSync` starts the goroutine of a tick (and
  cancels the last one), `getStatus` reads the rows, `updateStatus` sends the request, which
  lands later (`Land`), so requests overtake each other. `versions` is the history of the status
  resource from what the cache holds to what is deployed. A patch carries the fields that differ
  from the copy it was made from. Owners are deleted and created again, the garbage collector
  follows, and `reconcileBinding` patches the same policy.
* **`AuthorizationFilter`** - the translation of an authorization answer, as the truth value
  that the database gives the condition on a cluster: terms with their types, texts and paths, the
  checks of `getOperand` and `handleRefTerm` as they are coded, and what PostgreSQL makes of the
  operands. A cluster maps the paths of its attributes to a type and a text, of which `->>` gives
  the text. Next to it `Allows` says what the answer means, by its own operators: an equality of
  texts and attributes of `input.cluster`, by type and text. The two differ on some answers;
  `IsMeant` (`RefersToCluster`, `HasPlainTexts`, `HasStrings`) names the ones they are compared on.
* **`ManagedClustersWatch`** - a request is authenticated, then answered by a list or by a watch
  whose ticks read, send and remember names. The client (external) keeps what it was sent.
* **`StatusReaders`** - both readers of the status database. They use different tables and
  share no state, so each is explored while the other is at rest.

* **`DatabaseWriters`** - the handlers of `ResourceStatus` and the controllers of `SpecToDB`. They
  write different databases and share no state, so each is explored while the other is at rest.

Between the layers: `ComplianceStatus` and `ResourceStatus` replace the conflation layer by
its promise; `DBToTransport` writes rows nondeterministically in place of `SpecToDB`.

Ghost variables, which no code reads: `stored`, `applied` (database content), `writtenClusters`,
`brokenReads`, `conflicted`, `droppedRows`, `written`, `whole`, `lost`, `intent`, `skipped`, `boundUIDs`.

## 4. Runs

Passing runs:

| Run | Instance | What it shows |
|---|---|---|
| `core_chain` | one hub, one worker, three compliance types, 7 deliverable bundles of two incarnations, 6 receptions in any order | what a unit remembers, what it marks for commit and what the database holds agree (`MemoryTracksDB`, `MarkedIsApplied`), dependent bundles find their base, stored versions never go back, and the handlers see what `HandlerContract` promises (`ImplementsContract`) |
| `kafka_chain` | every log of 4 messages of one hub, one crash, fair | the committed offset only advances and passes no complete bundle that is needed, `HandlerContract` holds across the crash, the last bundles are stored for good unless the dispatcher drops a unit (`EventuallyStored`) |
| `syncservice` | two hubs, two workers, two types, three objects of one hub or one of each, one fault, fair | a unit is in one place (`SerialPerHub`), none is forgotten (`NoIdleReadyUnit`), only stored objects are consumed, received ones are held, what can be served is eventually stored |
| `compliance` | two policies, one cluster, 7 steps of the leaf hub, two compliances, a limit that two rows reach, full and minimal level | the rows end as the leaf hub's compliance, except what a dropped pack of deltas was the last to say (`QuiescentRowsAreTruth`), also beside batches that are too large; no batch inserts a row that is there (`RefusedOnlyForSize`) |
| `status_readers` | six kinds, two hubs, two owners of one name or two writes, one fault; one request, three cluster rows of two names, 136 answers, one change, one failed read; fair | the status ends as the aggregate of the rows (`EventuallyShown`), the binding stays (`BindingKept`), nothing is shown that is not allowed (`ShownIsAllowed`, for the answers of `IsMeant`), a watch ends as the rows (`WatchConverges`) |
| `writers` | controllers: 2 UIDs, 6 versions, 2 failed calls; handlers: two hubs, one name, 2 changes per hub, one failure, all kinds; fair | no orphan row and no deletion of another resource's row, rows follow the resources (`EventuallyInSync`); the rows of the handlers are those of the last bundle written (`RowsAreOfWrittenBundle`) and end as the leaf hubs' resources |
| `transport` | two rows, 4 writes, 2 faults, fair | no change is missed, leaf hubs do not go back, the interval exceeds neither the maximum nor what was configured beyond it, all is known eventually |
| `labels` | two clients; 3 connections and 3 requests for one row of two keys, or 3 that do not name the leaf hub, 2 that do, or one of each; 2 connections and 3 requests for one row; a fill of the name up to the second timestamp; fair | no patch is lost from a row that a leaf hub is sent (`NoPatchLost`), a deletion is always asked for (`DeletedOnlyIfAsked`), requests are answered unless requests that have read hold all connections (`AnsweredUnlessPoolIsHeld`) |

Why the bounds suffice: a unit has three places in the dependency chain and a type needs
three bundles (in process, pending, arriving) for every branch of `update`, `handleFailure`
and `getMetadata`; two hubs are needed for two units, two workers for two jobs. Two policies
distinguish "in the bundle", "not in it" and "read but gone", and two compliances a row that is
right from one that is old; a limit of 10 arguments is reached by two inserts. Two UIDs make a re-creation,
two rows a bundle that is newer in one row than in the other. A removal and a set of the key are
what a trim in between can spoil; three requests without the leaf hub's name are what an
insert, a fill and a second insert under an old read take. Three objects of one leaf hub are a
base, its dependent and a newer base; one object of each of two hubs occupies both workers.
A re-created owner, one write and one fault are what a late request of the first owner's goroutine
takes; two requests on their way can overtake each other. Two hubs with a cluster of one name
and one other name tell memory by name from memory by row; the answers are all sets of up to two
queries of at most one expression and all single queries of up to two, over equalities, unknown
operators, missing terms, negation and malformed parts, and single equalities with operands
that are not translated, or to something else than they mean. Bounds that are named for TLC only:
`MaxReceived`, `Budgets`, `MaxFaults`, `MaxFailures`, `StatusBudgets`, `WatchBudgets`, `RequestBudgets`, `MaxFillTime`,
`MaxLag`, `MaxRequests`, `Reported` and their like in the other modules; a budget is a set of alternatives, so
that no behaviour has all of them at once. The mutants of
`PROJECT.json` confirm it: each property is violated on its instance when the code is
changed in one plausible way. `CHECK_DEADLOCK FALSE` is set everywhere because every
environment is bounded and then the system may rest.

Runs that show where the code departs from what it says (details under "findings"):

| Run | Property | What happens |
|---|---|---|
| `core_failed_delta` | `FailedDeltaIsMerged` | a failed delta pack is dropped when another delta of its line arrived during its handling |
| `kafka_delta_commit` | `CommittedIsCovered` | while a pack is in flight the committer passes its earlier deltas |
| `kafka_dropped_unit` | `GetNextFindsBundle` | a ready bundle of a queued unit is replaced by one whose base is missing: `GetNext` fails, the unit stays flagged as queued and the acquired worker is not given back |
| `labels_timestamp` | `NothingMissed` | of two writes that end in the other order than they began, the older timestamp is never sent |

Further deviations, which need another instance or which a property names as its exception:

* Two leaf hubs in `KafkaStatus` break `CompleteCommittedIsCovered`: `GetBundlesMetadata` locks one
  unit after the other, and a message for a unit already read is passed by the commit.
* After a crash the first dependent bundle read again is accepted although its base was
  conflated into a newer one that the database already holds (`checkDependency` with no
  processed base). `DependencyHeld` names this as an exception.
* A batch whose rows reach the limit of a statement's arguments is refused, at every retry: the
  arguments of a full statement are queued as one value. Nothing bounds the rows of a bundle.
  In the run `compliance` it happens with two rows; no property says that batches are accepted.
* A pack of deltas that fails while another delta of its line arrives is dropped
  (`core_failed_delta`). What it said is missing from the rows until a later delta names them or a
  complete bundle comes; `QuiescentRowsAreTruth` names these rows (`droppedRows`) as its exception.
* Broken reads and lost messages. The properties of `ComplianceStatus`, `ResourceStatus` and
  `DBToTransport` say exactly what remains true: rows that were not seen survive until the
  next bundle of the kind, and a lost last message is not repeated.
* As many concurrent patches of existing rows as the pool has connections wait for each
  other for ever, and nothing limits the requests. The run `labels` has pools of two and of
  three connections (`PoolSizes`), and two clients hold the smaller one; `AnsweredUnlessPoolIsHeld`
  shows that there is no other way for a request to stay without an answer.
* `Patch` answers 403 to a user who may not patch the cluster and does not return: the labels are
  updated as for any other user. In `ManagedClusterLabels` the authorization therefore decides
  nothing, and every request is taken up.
* A configured interval is not compared to the maximum (60 seconds): a longer one is used until the
  first backoff, and again after every reset. `IntervalIsLimited` allows it.
* The status watcher trims a deleted key that the leaf hub has and the status database does
  not show yet; the label then stays on the leaf hub.
* A high-priority bundle that is refused for ever starves the hub's other bundles.
* A delta on a base that was superseded never becomes ready; its offset holds the committed
  offset back until the next delta replaces it. A delta older than the one in process, delivered
  late by a transport that reorders, is accepted and handled after it.
* A synced resource that is labelled local and then deleted hangs on its finalizer and keeps its
  row: the event filter hides its deletion from the controller (`EventuallyInSync` exempts
  resources that were labelled local).
* Sync service. `ObjectsEventuallyStored` names three exceptions: a base that was consumed before
  a restart is not delivered again, and with initial dependency checks its dependents wait
  for the next base; an object that an earlier process received and this one skipped in its
  first poll is not offered again; the dispatcher drops a unit whose ready bundle was
  replaced by one that is not ready, as in `kafka_dropped_unit`.
* Start-up. `doMain` starts the transport before `AddTransport2DBSyncers` registers the types,
  one after the other. Kafka messages of a type not yet registered are dropped for good (the
  sync service offers them again). A unit created while only some types are registered has
  elements for those only, and a type missing from its priority map is taken for priority 0,
  the managed clusters' element, or indexes past the end. The maps are written and read by different
  goroutines without a lock.
* Database to status. The binding controller appends to the list its cached copy shows: of
  two bindings reconciled from the same stale copy the first is lost, and a policy created
  again is bound only if its bindings have new events. Without rows, kinds other than
  policies keep their last status. A late patch can land on a resource created again under the
  same name; `EventuallyShown` shows that the next tick corrects it, and list and compliance
  state may disagree in between. Queries have no ORDER BY, so whose name a merged resource
  takes is open.
* Watch. A failed query sends DELETED for every cluster; the next tick adds them again. The
  condition can be narrower than the answer: a negated equality on an attribute that is NULL, an
  empty query among several, and a malformed expression, which makes the database refuse all
  of the query. For answers of the kind that is meant, `ShownIsAllowed` shows that it is not wider.
* Operands of the authorization. The condition is another one than the answer where the answer is
  not of that kind. A path is accepted when its first part is `input` *or* its second one `cluster`
  (`&&` between the negations), so that `data.cluster.x` or `input.user.x` is read as the attribute
  `x` of the cluster; the service is asked to leave only `input.cluster` open, so its answers should
  have no such path. `->>` compares an attribute that is no string by its text. A path of two parts
  is the bare payload, and a text beside it makes a condition that the database refuses. Texts
  and parts of a path are put between quotes without escaping; what the database makes of one with an
  apostrophe is the constant `misquoted`: a refusal in the run, anything in the proofs.
* Versions of a labels row start over when a row without a leaf hub is filled and another request
  inserts it again: a third request, which read the first of the two rows, finds its version 0
  again and overwrites the second. Without its condition `ReachesHub`, `DeletedOnlyIfAsked` is
  violated on the instance of `labels` in this way. No leaf hub is sent such a row: that is what
  the next point says.
* A second patch that does not name the leaf hub, after the first one's row was filled, makes
  a row that can never be filled, because its key exists; its labels do not reach the leaf hub. With
  one cluster name on two leaf hubs `UpdateLeafHubName` may write the row of the other one.

## 5. Fairness

* `KafkaStatus`: weak fairness of consumer, dispatcher and each worker, which are goroutines
  that loop without conditions; strong fairness of a successful handler per hub and type,
  because a handler is retried until the database accepts it. None for the committer,
  whose commits may all fail, and none for crashes.
* `ResourceStatus` (and in `DatabaseWriters`): weak fairness of reading the transport and of each leaf hub's handler, whose
  failures are bounded.
* `SpecToDB` (and in `DatabaseWriters`): weak fairness of the watch and of the controller's single worker. A failed
  request is requeued by controller-runtime.
* `DBToTransport`: weak fairness of the ticker's loop and of the transport's sender.
* `SyncServiceStatus`: weak fairness of registration, poller, handler of objects, dispatcher and
  each worker, all of them loops of their own goroutines; failures are bounded. None for the
  committer.
* `DBToStatus`: weak fairness of the ticker when the last goroutine is done (a handler is much
  shorter than the interval), of the goroutine, of requests on their way, the watch, the garbage
  collector and the spec controllers; failures and cancellations are bounded. None for the binding
  controller, users and rows.
* `ManagedClustersWatch`: weak fairness of the ticks of a watch. None for the client.
* `ManagedClusterLabels`: weak fairness of each request; the pool gives a connection to a
  waiting request when one is free.

## 6. Proofs

All of them are for every value of the constants that satisfies the named assumptions, and for any
number of steps. The assumptions are evaluated on every run:

* bounds are naturals, sets that are counted are finite, and `Nil`, `NoObject` and the like are no
  value of the types they are added to (`NilAssumption`, `NilObjectAssumption`, `HandledAssumption`,
  `NoObjectAssumption`);
* `RegistrationAssumption`: types are registered with priorities of their own;
* `BasesAssumption`: the types that others depend on are complete-state ones, as the three
  dependencies that the policies syncer registers;
* `DocumentsAssumption`: a patch document is a sequence of operations on known keys;
* `FilterAssumption`, `AnswersAssumption`: a failed authorization is no answer, an expression is
  negated or not, and a path has a length;
* `IntervalAssumption`: the configured interval is positive, as `time.NewTicker` demands.

**`ConflationProofs`.** The first inductive invariant, `IInv`, is about threads: `TypeOK`,
`QueueFlags` (units in the queue or with the dispatcher are there once and flagged
`isInReadyQueue`, and a flagged unit has nothing in process), `JobFlags` (a job's element is
in process and keeps what its report reads, no two jobs are of one unit, a busy worker is not
in the pool) and `PendingHasMetadata` (a pending bundle has metadata).
`TypeCorrect` (`TypeOK`) needs the last two: without them a worker could report on
an element without metadata. `UnitsAreSerial` (`SerialPerHub`) follows from the
flags. `NoLostWakeUp` (`NoIdleReadyUnit`): each action either leaves the ready types
of a unit and its in-process flags alone or ends with `addCUToReadyQueueIfNeeded`.

The second, `CInv`, is about what a job points to. The worker's metadata is the element's own object
until `update` replaces it, and a failed pack returns to the element, so it must be known that a
pending bundle, a dispatched pack and a job are each described by the metadata that will be
read for them (`ElementIsDescribed`, `PackIsDescribed`, `JobIsDescribed`), that a pending complete
bundle is newer than what was processed (`PendingIsNewer`), and that a job's bundle is due: newer
than what was processed, its base processed (`BundleIsDue`). From it: `MarkedAfterWritten`
(`MarkedIsApplied`) and `BaseIsHeld` (`DependencyHeld`). The third, `DInv`, adds the database and
holds while the manager does not crash: `MemoryFollowsDatabase` (`MemoryTracksDB`) and
`DatabaseNeverRegresses` (`StoredNeverRegresses`), by `HandledIsNewer`: no handler is about to
write what is older than the database.

Last, `ConflationImplementsContract` (`Spec => ImplementsContract`): `GetNext` maps to the contract's
`Start`, `RunHandler` to `Return`, `ReportResult` to `Finish`, everything else to a stutter;
`BundleIsDue` is what makes `Start` legal.

**`StatusTransportProofs`, Kafka.** `KafkaIInv` keeps `IInv` and `CInv` through crashes, with the
types of log and committer and `CommitterIsAhead`: the committer forgets at a crash what it
committed, so either it still knows it, or every offset that a unit remembers is at least what the
broker holds (`UnitOffsets`). From it `KafkaTypeCorrect` (`KafkaTypeOK`), `CommitsOnlyAdvance`
(`CommitNeverGoesBack`), `KafkaImplementsContract`, where `Restart` is the contract's `Forget`,
`KafkaNoLostWakeUp` and `KafkaMarkedAfterWritten`. `Min` and `Max` are shown to exist by the
well-foundedness of `<`.

`CompleteIsCovered` (`CompleteCommittedIsCovered`) has one hypothesis, `OneLeafHub`: section 4 says
what happens with two. Its invariant `KafkaSafety` was first checked by TLC on the instance of
`kafka_chain` and follows a message of a complete-state type from the log to the committed offset:

* `LogIsInOrder`: a leaf hub's versions of a type grow along the log, by the cardinality of what it sent;
* `UnreadIsNewer`: a message not read yet is newer than all its unit has, so `insert` never refuses it;
* `OffsetsAreOfType`: metadata, also a dispatched delta's, names a message of its element, with its version;
* `ReadIsKnown`: a message read and not yet committed is at or below its element's metadata;
* `PassIsWhole`: what a pass collected knows every message of its types before it. A pass reads the only
  unit in one step under its lock; here `OneLeafHub` is needed;
* `ProcessedIsStored`: what is marked is not newer than what the unit remembers, nor that than the database;
* `CommittedIsSafe`: a passed message is superseded by one the broker still has (`IsSuperseded`), or it is
  stored and neither the pending bundle nor a job is older (`IsSafelyStored`). A commit passes it only if
  the collected offset that knows it is processed, which makes it safely stored, or is pending and
  then a newer message at or above the new offset.

**`StatusTransportProofs`, sync service.** `SyncIInv` keeps `IInv` and `CInv` under registration,
lost and failed calls and crashes, and adds `SyncInv`: the service delivers only its current
version, so versions do not grow on the way from it to the database and to what a unit remembers
(`VersionsInOrder`); a dispatched pack keeps its content and what is pending is not older, so that
a failure can restore it (`PacksCanReturn`); a bundle carries only deliveries of its kind that are
not newer than itself (`EventsAreDelivered`); what was written, and what is to be marked consumed,
is stored (`WrittenIsStored`); deliveries and marks are of objects that exist (`KnownExist`). From
it `SyncUnitsAreSerial` (`SerialPerHub`), `SyncNeverRegresses` (`StoredNeverRegresses`) and
`SyncImplementsContract` (`ImplementsContract`); `SyncNoLostWakeUp` (`NoIdleReadyUnit`),
`ConsumedAfterStored` (`ConsumedIsStored`) and `ReceivedStaysHeld` (`ReceivedIsHeld`) are
inductive on top of it (`SyncGoals`), the last with `HandledIsHeld` for the object that was
inserted and whose mark is still to be made.

**`ComplianceProofs`.** `ClustersPerPolicyBecomesTable`, `CompleteComplianceUpdatesRows`: what the
batches make of any table; `MergedDeltasActInOrder`: a merged delta acts as its parts in
order; from them `RowsPresent` (`RowsAreOfWrittenClusters`), inductive as it stands
because complete and delta batches only update. `RowsBecomeTruth` (`QuiescentRowsAreTruth`) says
nothing of the states before everything was handled, so its invariant `IInv` says where each
compliance is on its way: in the pending delta on the last complete bundle, or else in the pack
that is in process, or else in that bundle while it is pending, or else in the rows, unless a pack
that named it was dropped (`IsReported`). That a complete bundle finds its rows
takes `CompleteHasLastBase` (unless another one is owed, it is on the last clusters-per-policy bundle),
`LastSentIsPending` and `ClustersAreReported`. `SummariesBecomeTruth` (`QuiescentMinimalIsTruth`)
is the same for the aggregated table. `BatchesConflictWithNothing` (`RefusedOnlyForSize`): what a
complete read shows is not inserted. That batches are not too large has no proof, being false
(section 4).

**`ResourceProofs`.** `DiffMakesBundle`: the batch built from any part of the rows makes the
table the bundle plus the rows not read. It needs that keys are unique and that a version
never means two states. `RowsFollowBundles` (`RowsAreOfWrittenBundle`): the inductive
invariant `ResourceInv` adds types, `LogIsCoherent` (unique keys in a bundle, versions that
identify states in all bundles), `PositionsExist`, `RowsWereSent` (every row is of some
bundle) and `ReadIsCurrent` (what a handler read is still there, because only its leaf hub's
statements name its rows).

**`SpecProofs`.** `RowsAreNotOrphaned` (`NoOrphanRow`) and `LiveRowsAreKept` (`RowOfLiveObjectKept`).
Both rest on how far the informer cache may lag: the history of the resource is sound
(`HistoryIsSound`), the finalizer is removed only by the controller, whose write is refused
unless its copy is the latest (`FinalizerHolds`: from the cache's version on, a resource with the
finalizer that is not being deleted is there and still has it), a row is written only for a UID that the cache has
shown (`RowsAreSeen`), and what the controller knows at each of its calls (`AtCall`).

**`TransportProofs`.** `CoveredChangesAreSent` (`NothingMissed`): `ClockIsAhead`, `BundleCovers` (a
whole bundle holds every row that did not change after the timestamp read before it) and `LastMessageCovers` (the last
message has all that the timestamp to compare with covers, unless a fault is named).
`LeafHubsNeverGoBack` (`NeverGoesBack`): `InOrder`, from the leaf hubs through the queue and the
bundle back to the table. `IntervalStaysLimited` (`IntervalIsLimited`): by types, whether or
not the configured interval exceeds the maximum.

**`LabelsProofs`.** `PatchesAreKept` (`NoPatchLost`) and `DeletionsAreAsked` (`DeletedOnlyIfAsked`). What
makes a write from an old read safe is `ReadsAreCurrent` and `TrimIsCurrent`: a row whose version is
the one that was read holds what was read. The proof failed for rows that no leaf hub is sent, where
versions start over (section 4); both properties are about the rows for which `ReachesHub` holds.

**`ReadersProofs`.** `FilterIsSound`: the SQL condition made of an answer, with its three truth
values, is true only on clusters that the answer allows; `FilterIsExact`: for a
well-formed answer and a cluster that has the attributes, it is true on all of them. Both have
the hypothesis `IsMeant`: the answer refers only to attributes of `input.cluster`, those that the
cluster has are strings, and no text has an apostrophe. Section 4 says what happens otherwise.
`OperandsAreValues` is what they share: of such operands the two texts are equal when the
two values are. From the first
`ClientsAreShownTheAllowed` (`ShownIsAllowed`), with what a request that was just sent has shown.
`BindingsAreKept` (`BindingKept`): a patch on its way holds only the fields that the syncer changed, so it
leaves the binding alone (`RequestsKeepBinding`), and only policies are bound, whose UIDs were given
out (`BoundArePolicies`).
The two readers share no state (`ReadersAreApart`), so each has its own invariant.

What is only model-checked, and why:

* liveness (`EventuallyStored`, `ObjectsEventuallyStored`, `ResourcesEventuallyStored`,
  `EventuallyInSync`, `EventuallyKnown`, `EventuallyShown`, `WatchConverges`,
  `AnsweredUnlessPoolIsHeld`): fairness and `ENABLED` are out of the prover's reach;
* what the violation runs refute (`GetNextFindsBundle`, `FailedDeltaIsMerged`, `CommittedIsCovered`, and
  `NothingMissed` when timestamps are those of `now()`): false, so there is nothing to prove.

## 7. Limits

* Units exist from the start with all their elements, and in `SyncServiceStatus` the types are
  registered in one step. In `KafkaStatus` messages that do not parse or that a predicate drops
  are not modelled.
* One Kafka partition; filtering and committing of one pass are one step.
* `ComplianceStatus`: one leaf hub; the handler of a pack of deltas begins and ends in steps of its own,
  those of the other bundles are one step; the leaf hub's bundles arrive in the order sent (Kafka). In
  `ResourceStatus` a leaf hub sends unique keys.
* Tables have the primary keys that the statements imply; the schema is not part of the repository.
* `DBToTransport`: `updated_at` grows with the order of writes. What happens when it does not is
  what `labels_timestamp` shows for the labels table.
* `SpecToDB` models `arePoliciesEqual`, which ignores the templates; kinds that compare all of
  the spec are the case of equal contents.

* `SpecToDB`, `DBToStatus`: one name; `DBToStatus` has one binding, and a row carries one number
  (compliance, count of clusters, or the content of a list).
* `ManagedClusterLabels`: cluster names are unique across leaf hubs; the watcher's own errors, after
  which it tries again with a longer interval, are the case that it does not run.
* `AuthorizationFilter`: the quoting of texts is not followed character by character, a text beside the
  bare payload is taken to be no JSON, and attributes that are null are taken to be missing.

Not modelled: `policies/list_status.go` (one query, formatted), tables, TLS and start of the HTTP
server, heartbeats, configuration parsing, statistics, compression, generated API types: they are
formatting or library calls, or keep no state that a property of the system depends on.
