--------------------------- MODULE ConflationProofs ---------------------------
(***************************************************************************)
(* Proofs about Conflation for every set of hubs, types and workers, every *)
(* registration and every transport behaviour.                             *)
(*                                                                         *)
(* TypeOK alone is not inductive: ReportResult of a failed delta reads     *)
(* lastDispatchedDelta, which is there only because no second job of the   *)
(* same unit has released it.  SerialPerHub is not inductive either: it    *)
(* rests on the flags isInReadyQueue and isInProcess, which are set and    *)
(* cleared by three different threads.  IInv ties them together.           *)
(*                                                                         *)
(* What a job reports is about the bundle it was given only if the         *)
(* metadata it points to still describes that bundle, although newer       *)
(* bundles overwrite the element: CInv relates bundles, metadata objects   *)
(* and recovery data to one another, under any transport and any crash,    *)
(* and DInv relates them to the database, as long as the manager does not  *)
(* crash.  On CInv rests that Conflation implements HandlerContract.       *)
(***************************************************************************)
EXTENDS ConflationRefinement, TLAPS

\* The ready queue and the dispatcher's hand hold only units flagged as queued,
\* and a flagged unit has no bundle in process.
QueueFlags ==
    /\ \A i, j \in 1..Len(readyQueue) : readyQueue[i] = readyQueue[j] => i = j
    /\ \A i \in 1..Len(readyQueue) : readyQueue[i] # held /\ isInReadyQueue[readyQueue[i]]
    /\ held # Nil => isInReadyQueue[held]
    /\ \A h \in Hubs : isInReadyQueue[h] => \A t \in Types : ~isInProcess[h][t]

\* A job's element is flagged as in process and keeps what the report reads; no
\* two jobs are of the same unit; a busy worker is neither in the pool nor in
\* the dispatcher's hand.
JobFlags ==
    /\ \A w \in Workers : job[w] # Nil =>
        /\ isInProcess[job[w].hub][job[w].type]
        /\ metadata[job[w].hub][job[w].type] # Nil
        /\ SyncMode[job[w].type] = "delta" =>
             lastDispatchedDelta[job[w].hub][job[w].type] # Nil
    /\ \A w, v \in Workers : job[w] # Nil /\ job[v] # Nil /\ w # v => job[w].hub # job[v].hub
    /\ \A w \in Workers : w = acquired \/ w \in dbWorkers => job[w] = Nil
    /\ acquired \notin dbWorkers

\* A pending bundle has the metadata that dispatching it reads.
PendingHasMetadata ==
    \A h \in Hubs, t \in Types :
        /\ bundle[h][t] # Nil => metadata[h][t] # Nil
        /\ SyncMode[t] = "delta" /\ metadata[h][t] # Nil =>
             lastReceivedTransportMetadata[h][t] # Nil

IInv == TypeOK /\ QueueFlags /\ JobFlags /\ PendingHasMetadata

------------------------------------------------------------------------------
(* The operators the actions are built from *)

\* Assigning a field of one element leaves the others alone.
LEMMA ElementUpdate ==
    ASSUME NEW S, NEW f \in [Hubs -> [Types -> S]],
           NEW h \in Hubs, NEW t \in Types, NEW v \in S
    PROVE  /\ [f EXCEPT ![h][t] = v] \in [Hubs -> [Types -> S]]
           /\ [f EXCEPT ![h][t] = v][h][t] = v
           /\ \A g \in Hubs, u \in Types :
                g # h \/ u # t => [f EXCEPT ![h][t] = v][g][u] = f[g][u]
OBVIOUS

\* Merging an older pack into a bundle gives a bundle.
LEMMA InheritEventsType ==
    ASSUME NEW b \in Bundle, NEW older \in Bundle \cup {Nil}
    PROVE  InheritEvents(b, older) \in Bundle
BY DEF InheritEvents, Bundle

\* The call that ends insert and ReportResult keeps the queue and the flags in
\* step, when it is made on unit h and only unit h's isInProcess flags changed.
LEMMA AddCUKeepsQueueFlags ==
    ASSUME TypeOK, QueueFlags, NEW h \in Hubs,
           isInProcess' \in [Hubs -> [Types -> BOOLEAN]],
           \A g \in Hubs \ {h} : isInProcess'[g] = isInProcess[g],
           isInReadyQueue[h] => \A t \in Types : ~isInProcess'[h][t],
           held' = held,
           addCUToReadyQueueIfNeeded(h)
    PROVE  /\ QueueFlags'
           /\ isInReadyQueue' \in [Hubs -> BOOLEAN]
           /\ readyQueue' \in Seq(Hubs)
<1>0. /\ isInReadyQueue \in [Hubs -> BOOLEAN]
      /\ readyQueue \in Seq(Hubs)
      /\ held \in Hubs \cup {Nil}
      /\ Nil \notin Hubs
  BY NilAssumption DEF TypeOK
<1>1. CASE UNCHANGED queueVars
  BY <1>0, <1>1 DEF QueueFlags, queueVars
<1>2. CASE /\ ~isInReadyQueue[h]
           /\ ~isUnitInProcess(h)'
           /\ readyQueue' = Append(readyQueue, h)
           /\ isInReadyQueue' = [isInReadyQueue EXCEPT ![h] = TRUE]
  <2>1. /\ readyQueue' \in Seq(Hubs)
        /\ isInReadyQueue' \in [Hubs -> BOOLEAN]
        /\ Len(readyQueue') = Len(readyQueue) + 1
        /\ readyQueue'[Len(readyQueue) + 1] = h
        /\ \A i \in 1..Len(readyQueue) : readyQueue'[i] = readyQueue[i]
        /\ Len(readyQueue) \in Nat
    BY <1>0, <1>2
  <2>2. \A i \in 1..Len(readyQueue) : readyQueue[i] \in Hubs /\ readyQueue[i] # h
    BY <1>0, <1>2 DEF QueueFlags
  <2>3. \A i, j \in 1..Len(readyQueue') : readyQueue'[i] = readyQueue'[j] => i = j
    BY <2>1, <2>2 DEF QueueFlags
  <2>4. held # h
    BY <1>0, <1>2 DEF QueueFlags
  <2>5. \A i \in 1..Len(readyQueue') :
            readyQueue'[i] # held' /\ isInReadyQueue'[readyQueue'[i]]
    <3> SUFFICES ASSUME NEW i \in 1..Len(readyQueue')
                 PROVE  readyQueue'[i] # held' /\ isInReadyQueue'[readyQueue'[i]]
      OBVIOUS
    <3>1. CASE i = Len(readyQueue) + 1
      BY <3>1, <1>0, <1>2, <2>1, <2>4
    <3>2. CASE i \in 1..Len(readyQueue)
      BY <3>2, <1>0, <1>2, <2>1, <2>2 DEF QueueFlags
    <3> QED
      BY <3>1, <3>2, <2>1
  <2>6. held' # Nil => isInReadyQueue'[held']
    BY <1>0, <1>2 DEF QueueFlags
  <2>7. \A g \in Hubs : isInReadyQueue'[g] => \A t \in Types : ~isInProcess'[g][t]
    BY <1>0, <1>2 DEF QueueFlags, isUnitInProcess
  <2> QED
    BY <2>1, <2>3, <2>5, <2>6, <2>7 DEF QueueFlags
<1> QED
  BY <1>1, <1>2 DEF addCUToReadyQueueIfNeeded

------------------------------------------------------------------------------
(* The inductive invariant *)

\* Newly made units, an empty queue and idle workers satisfy the invariant.
LEMMA InitIInv == Init => IInv
<1> SUFFICES ASSUME Init PROVE IInv
  OBVIOUS
<1>1. TypeOK
  BY DEF Init, TypeOK, EveryElement, noBundleVersion, NewBundleVersion, BundleVersions
<1>2. QueueFlags
  BY DEF Init, QueueFlags
<1>3. JobFlags
  BY NilAssumption DEF Init, JobFlags
<1>4. PendingHasMetadata
  BY DEF Init, PendingHasMetadata, EveryElement
<1> QED
  BY <1>1, <1>2, <1>3, <1>4 DEF IInv

\* BlockingDequeue moves a unit from the queue to the dispatcher's hand.
LEMMA BlockingDequeueIInv == IInv /\ BlockingDequeue => IInv'
<1> SUFFICES ASSUME IInv, BlockingDequeue PROVE IInv'
  OBVIOUS
<1>0. /\ readyQueue \in Seq(Hubs)
      /\ readyQueue # << >>
      /\ Len(readyQueue) \in Nat \ {0}
      /\ Nil \notin Hubs
  BY NilAssumption DEF IInv, TypeOK, BlockingDequeue
<1>1. /\ held' = readyQueue[1]
      /\ held' \in Hubs
      /\ readyQueue' \in Seq(Hubs)
      /\ Len(readyQueue') = Len(readyQueue) - 1
      /\ \A i \in 1..Len(readyQueue') : readyQueue'[i] = readyQueue[i + 1]
  BY <1>0 DEF BlockingDequeue
<1>2. TypeOK'
  BY <1>1 DEF IInv, TypeOK, BlockingDequeue, elementVars, dbVars
<1>3. QueueFlags'
  <2>1. \A i \in 1..Len(readyQueue') : i + 1 \in 1..Len(readyQueue) /\ i + 1 # 1
    BY <1>0, <1>1
  <2>2. isInReadyQueue' = isInReadyQueue /\ isInProcess' = isInProcess
    BY DEF BlockingDequeue, elementVars
  <2>3. \A i, j \in 1..Len(readyQueue') : readyQueue'[i] = readyQueue'[j] => i = j
    BY <1>0, <1>1, <2>1 DEF IInv, QueueFlags
  <2>4. \A i \in 1..Len(readyQueue') :
            readyQueue'[i] # held' /\ isInReadyQueue'[readyQueue'[i]]
    <3> SUFFICES ASSUME NEW i \in 1..Len(readyQueue')
                 PROVE  readyQueue'[i] # held' /\ isInReadyQueue'[readyQueue'[i]]
      OBVIOUS
    <3>1. readyQueue'[i] = readyQueue[i + 1] /\ i + 1 \in 1..Len(readyQueue) /\ i + 1 # 1
      BY <1>1, <2>1
    <3>2. 1 \in 1..Len(readyQueue)
      BY <1>0
    <3>3. readyQueue[i + 1] # readyQueue[1]
      BY <3>1, <3>2 DEF IInv, QueueFlags
    <3>4. isInReadyQueue[readyQueue[i + 1]]
      BY <3>1 DEF IInv, QueueFlags
    <3> QED
      BY <1>1, <2>2, <3>1, <3>3, <3>4
  <2>5. isInReadyQueue'[held']
    BY <1>0, <1>1, <2>2 DEF IInv, QueueFlags
  <2> QED
    BY <2>2, <2>3, <2>4, <2>5 DEF IInv, QueueFlags
<1>4. JobFlags' /\ PendingHasMetadata'
  BY DEF IInv, JobFlags, PendingHasMetadata, BlockingDequeue, elementVars
<1> QED
  BY <1>2, <1>3, <1>4 DEF IInv

\* Acquire moves a worker from the pool to the dispatcher's hand.
LEMMA AcquireIInv == IInv /\ Acquire => IInv'
<1> SUFFICES ASSUME IInv, Acquire PROVE IInv'
  OBVIOUS
<1>1. TypeOK'
  BY DEF IInv, TypeOK, Acquire, elementVars, queueVars, dbVars
<1>2. QueueFlags' /\ PendingHasMetadata'
  BY DEF IInv, QueueFlags, PendingHasMetadata, Acquire, elementVars, queueVars
<1>3. JobFlags'
  BY DEF IInv, TypeOK, JobFlags, Acquire, elementVars
<1> QED
  BY <1>1, <1>2, <1>3 DEF IInv

\* GetNextFails only empties the dispatcher's hands.
LEMMA GetNextFailsIInv == IInv /\ GetNextFails => IInv'
<1> SUFFICES ASSUME IInv, GetNextFails PROVE IInv'
  OBVIOUS
<1>1. TypeOK'
  BY DEF IInv, TypeOK, GetNextFails, elementVars, queueVars, dbVars
<1>2. QueueFlags' /\ PendingHasMetadata'
  <2>1. \A i \in 1..Len(readyQueue) : readyQueue[i] \in Hubs /\ readyQueue[i] # Nil
    BY NilAssumption DEF IInv, TypeOK
  <2> QED
    BY <2>1 DEF IInv, QueueFlags, PendingHasMetadata, GetNextFails, elementVars, queueVars
<1>3. JobFlags'
  BY NilAssumption DEF IInv, TypeOK, JobFlags, GetNextFails, elementVars
<1> QED
  BY <1>1, <1>2, <1>3 DEF IInv

\* GetNext gives the unit in hand to the worker in hand, as its only job.
LEMMA GetNextIInv ==
    ASSUME IInv, NEW h \in Hubs, NEW t \in Types, GetNext(h, t)
    PROVE  IInv'
<1>0. /\ h # Nil /\ held = h /\ held' = Nil
      /\ acquired \in Workers /\ acquired' = Nil /\ Nil \notin Workers
      /\ t \in ReadyTypes(h)
  BY NilAssumption DEF IInv, TypeOK, GetNext, isNextReady
<1>1. /\ bundle[h][t] \in Bundle
      /\ metadata[h][t] \in BundleMetadata
      /\ SyncMode[t] = "delta" => lastReceivedTransportMetadata[h][t] \in Nat
  BY <1>0 DEF IInv, TypeOK, PendingHasMetadata, ReadyTypes
<1>2. isInReadyQueue[h] /\ \A u \in Types : ~isInProcess[h][u]
  BY <1>0 DEF IInv, QueueFlags
<1>3. \A w \in Workers : job[w] # Nil => job[w].hub # h
  BY <1>2 DEF IInv, TypeOK, JobFlags, DBJob
<1>4. /\ bundle' \in [Hubs -> [Types -> Bundle \cup {Nil}]]
      /\ metadata' \in [Hubs -> [Types -> BundleMetadata \cup {Nil}]]
      /\ lastDispatchedDelta' \in [Hubs -> [Types -> RecoverableDelta \cup {Nil}]]
      /\ \A g \in Hubs, u \in Types :
            /\ bundle'[g][u] # Nil => bundle'[g][u] = bundle[g][u]
            /\ metadata[g][u] # Nil <=> metadata'[g][u] # Nil
            /\ lastDispatchedDelta[g][u] # Nil => lastDispatchedDelta'[g][u] # Nil
      /\ SyncMode[t] = "delta" => lastDispatchedDelta'[h][t] # Nil
  <2>1. CASE SyncMode[t] = "delta"
    <3>1. getMetadataDelta(h, t)
      BY <2>1 DEF GetNext
    <3>2. /\ bundle \in [Hubs -> [Types -> Bundle \cup {Nil}]]
          /\ metadata \in [Hubs -> [Types -> BundleMetadata \cup {Nil}]]
          /\ lastDispatchedDelta \in [Hubs -> [Types -> RecoverableDelta \cup {Nil}]]
      BY DEF IInv, TypeOK
    <3> DEFINE pack == [bundle |-> bundle[h][t],
                        lowestPendingTransportMetadata |-> metadata[h][t].transportBundleMetadata]
               object == WithTransportMetadata(metadata[h][t], lastReceivedTransportMetadata[h][t])
    <3>3. /\ pack \in RecoverableDelta /\ pack # Nil
          /\ object \in BundleMetadata /\ object # Nil
          /\ metadata[h][t] # Nil
      BY <1>1, <2>1, NilAssumption DEF RecoverableDelta, BundleMetadata, WithTransportMetadata
    <3>4. /\ bundle' = [bundle EXCEPT ![h][t] = Nil]
          /\ metadata' = [metadata EXCEPT ![h][t] = object]
          /\ lastDispatchedDelta' = [lastDispatchedDelta EXCEPT ![h][t] = pack]
      BY <3>1 DEF getMetadataDelta
    <3> HIDE DEF pack, object
    <3> QED
      BY <2>1, <3>2, <3>3, <3>4
  <2>2. CASE SyncMode[t] # "delta"
    BY <2>2 DEF IInv, TypeOK, GetNext
  <2> QED
    BY <2>1, <2>2
<1>5. /\ job' \in [Workers -> DBJob \cup {Nil}]
      /\ job'[acquired] # Nil => job'[acquired].hub = h /\ job'[acquired].type = t
      /\ \A w \in Workers \ {acquired} : job'[w] = job[w]
  BY <1>0, <1>1 DEF IInv, TypeOK, GetNext, DBJob
<1>6. /\ isInProcess' \in [Hubs -> [Types -> BOOLEAN]]
      /\ isInProcess'[h][t]
      /\ \A g \in Hubs, u \in Types : isInProcess[g][u] => isInProcess'[g][u]
      /\ \A g \in Hubs \ {h} : isInProcess'[g] = isInProcess[g]
  BY DEF IInv, TypeOK, GetNext
<1>7. TypeOK'
  BY <1>4, <1>5, <1>6 DEF IInv, TypeOK, GetNext, dbVars
<1>8. QueueFlags'
  <2>1. /\ readyQueue' = readyQueue
        /\ isInReadyQueue' = [isInReadyQueue EXCEPT ![h] = FALSE]
        /\ isInReadyQueue \in [Hubs -> BOOLEAN]
    BY DEF IInv, TypeOK, GetNext
  <2>2. \A i \in 1..Len(readyQueue) : readyQueue[i] \in Hubs /\ readyQueue[i] # h
    BY <1>0 DEF IInv, TypeOK, QueueFlags
  <2>3. \A g \in Hubs : isInReadyQueue'[g] => \A u \in Types : ~isInProcess'[g][u]
    <3> SUFFICES ASSUME NEW g \in Hubs, isInReadyQueue'[g], NEW u \in Types
                 PROVE  ~isInProcess'[g][u]
      OBVIOUS
    <3>1. g # h
      BY <2>1
    <3>2. isInReadyQueue'[g] = isInReadyQueue[g]
      BY <2>1, <3>1
    <3>3. isInProcess'[g] = isInProcess[g]
      BY <1>6, <3>1
    <3>4. ~isInProcess[g][u]
      BY <3>2 DEF IInv, QueueFlags
    <3> QED
      BY <3>3, <3>4
  <2>4. \A i \in 1..Len(readyQueue) :
            readyQueue[i] # Nil /\ isInReadyQueue'[readyQueue[i]]
    BY <1>0, <2>1, <2>2, NilAssumption DEF IInv, QueueFlags
  <2> QED
    BY <1>0, <2>1, <2>3, <2>4 DEF IInv, QueueFlags
<1>9. JobFlags'
  <2>1. \A w \in Workers : job'[w] # Nil =>
            /\ isInProcess'[job'[w].hub][job'[w].type]
            /\ metadata'[job'[w].hub][job'[w].type] # Nil
            /\ SyncMode[job'[w].type] = "delta" =>
                 lastDispatchedDelta'[job'[w].hub][job'[w].type] # Nil
    <3> SUFFICES ASSUME NEW w \in Workers, job'[w] # Nil
                 PROVE  /\ isInProcess'[job'[w].hub][job'[w].type]
                        /\ metadata'[job'[w].hub][job'[w].type] # Nil
                        /\ SyncMode[job'[w].type] = "delta" =>
                             lastDispatchedDelta'[job'[w].hub][job'[w].type] # Nil
      OBVIOUS
    <3>1. CASE w = acquired
      <4>1. metadata[h][t] # Nil
        BY <1>0 DEF IInv, PendingHasMetadata, ReadyTypes
      <4> QED
        BY <3>1, <4>1, <1>4, <1>5, <1>6
    <3>2. CASE w # acquired
      <4>1. /\ job'[w] = job[w]
            /\ job[w].hub \in Hubs
            /\ job[w].type \in Types
        BY <3>2, <1>5 DEF IInv, TypeOK, DBJob
      <4>2. /\ isInProcess[job[w].hub][job[w].type]
            /\ metadata[job[w].hub][job[w].type] # Nil
            /\ SyncMode[job[w].type] = "delta" =>
                 lastDispatchedDelta[job[w].hub][job[w].type] # Nil
        BY <4>1 DEF IInv, JobFlags
      <4> QED
        BY <4>1, <4>2, <1>4, <1>6
    <3> QED
      BY <3>1, <3>2
  <2>2. \A w, v \in Workers :
            job'[w] # Nil /\ job'[v] # Nil /\ w # v => job'[w].hub # job'[v].hub
    BY <1>3, <1>5 DEF IInv, JobFlags
  <2>3. \A w \in Workers : w = acquired' \/ w \in dbWorkers' => job'[w] = Nil
    BY <1>0, <1>5 DEF IInv, JobFlags, GetNext
  <2>4. acquired' \notin dbWorkers'
    BY <1>0 DEF IInv, TypeOK, GetNext
  <2> QED
    BY <2>1, <2>2, <2>3, <2>4 DEF JobFlags
<1>10. PendingHasMetadata'
  BY <1>4 DEF IInv, PendingHasMetadata, GetNext
<1> QED
  BY <1>7, <1>8, <1>9, <1>10 DEF IInv

\* RunHandler writes to the database and notes the result in the job.
LEMMA RunHandlerIInv ==
    ASSUME IInv, NEW w \in Workers, NEW result \in {"success", "error"},
           RunHandler(w, result)
    PROVE  IInv'
<1>1. /\ job[w] \in DBJob
      /\ job[w].hub \in Hubs /\ job[w].type \in Types
      /\ job[w].bundle.ver \in BundleVersions
      /\ job[w].bundle.events \subseteq Nat
  BY DEF IInv, TypeOK, RunHandler, DBJob, Bundle
<1>2. job' \in [Workers -> DBJob \cup {Nil}]
  BY <1>1 DEF IInv, TypeOK, RunHandler, DBJob
<1>3. \A v \in Workers :
        /\ job'[v] = Nil <=> job[v] = Nil
        /\ job[v] # Nil => job'[v].hub = job[v].hub /\ job'[v].type = job[v].type
  BY <1>1, NilAssumption DEF IInv, TypeOK, RunHandler, DBJob
<1>4. /\ stored' \in [Hubs -> [Types -> BundleVersions]]
      /\ applied' \subseteq Nat
  <2>1. stored \in [Hubs -> [Types -> BundleVersions]] /\ applied \subseteq Nat
    BY DEF IInv, TypeOK
  <2>2. CASE UNCHANGED dbVars
    BY <2>1, <2>2 DEF dbVars
  <2>3. CASE /\ stored' = [stored EXCEPT ![job[w].hub][job[w].type] = job[w].bundle.ver]
             /\ applied' = applied \cup job[w].bundle.events
    BY <1>1, <2>1, <2>3
  <2> QED
    BY <2>2, <2>3 DEF RunHandler
<1>5. TypeOK'
  BY <1>2, <1>4 DEF IInv, TypeOK, RunHandler, elementVars, queueVars, dispatchVars
<1>6. QueueFlags' /\ PendingHasMetadata'
  BY DEF IInv, QueueFlags, PendingHasMetadata, RunHandler, elementVars, queueVars, dispatchVars
<1>7. JobFlags'
  BY <1>3 DEF IInv, JobFlags, RunHandler, elementVars, dispatchVars
<1> QED
  BY <1>5, <1>6, <1>7 DEF IInv

\* What the two update functions do to the element they are called on.
LEMMA UpdateElement ==
    ASSUME IInv, NEW h \in Hubs, NEW t \in Types,
           NEW b, b.ver \in BundleVersions, b.dep \in BundleVersions, NEW m \in Nat,
           \/ SyncMode[t] = "complete" /\ updateComplete(h, t, b, m)
           \/ SyncMode[t] # "complete" /\ updateDelta(h, t, b, m)
    PROVE  /\ bundle' \in [Hubs -> [Types -> Bundle \cup {Nil}]]
           /\ metadata' \in [Hubs -> [Types -> BundleMetadata \cup {Nil}]]
           /\ lastDispatchedDelta' = lastDispatchedDelta
           /\ lastReceivedTransportMetadata' \in [Hubs -> [Types -> Nat \cup {Nil}]]
           /\ deltaLineHeadBundleVersion' \in [Hubs -> [Types -> BundleVersions \cup {Nil}]]
           /\ metadata'[h][t] # Nil
           /\ SyncMode[t] = "delta" => lastReceivedTransportMetadata'[h][t] # Nil
           /\ \A g \in Hubs, u \in Types : g # h \/ u # t =>
                /\ bundle'[g][u] = bundle[g][u]
                /\ metadata'[g][u] = metadata[g][u]
                /\ lastReceivedTransportMetadata'[g][u] = lastReceivedTransportMetadata[g][u]
<1>0. /\ bundle \in [Hubs -> [Types -> Bundle \cup {Nil}]]
      /\ metadata \in [Hubs -> [Types -> BundleMetadata \cup {Nil}]]
      /\ lastReceivedTransportMetadata \in [Hubs -> [Types -> Nat \cup {Nil}]]
      /\ deltaLineHeadBundleVersion \in [Hubs -> [Types -> BundleVersions \cup {Nil}]]
  BY DEF IInv, TypeOK
<1> DEFINE new == [ver |-> b.ver, dep |-> b.dep, events |-> {m}]
<1>1. new \in Bundle /\ b.ver \in BundleVersions
  BY DEF Bundle
<1>2. CASE SyncMode[t] = "complete" /\ updateComplete(h, t, b, m)
  <2> DEFINE object == [bundleVersion |-> b.ver, transportBundleMetadata |-> m]
  <2>1. object \in BundleMetadata /\ object # Nil
    BY <1>1, NilAssumption DEF BundleMetadata
  <2>2. /\ bundle' = [bundle EXCEPT ![h][t] = new]
        /\ metadata' = [metadata EXCEPT ![h][t] = object]
        /\ UNCHANGED <<lastDispatchedDelta, lastReceivedTransportMetadata,
                       deltaLineHeadBundleVersion>>
        /\ SyncMode[t] # "delta"
    BY <1>2 DEF updateComplete
  <2> HIDE DEF new, object
  <2> QED
    BY <1>0, <1>1, <2>1, <2>2
<1>3. CASE SyncMode[t] # "complete" /\ updateDelta(h, t, b, m)
  <2> DEFINE merged == InheritEvents(new, bundle[h][t])
             newLine == bundleStartsNewLine(h, t, b)
             first == IF newLine \/ metadata[h][t] = Nil
                        THEN m ELSE metadata[h][t].transportBundleMetadata
             object == [bundleVersion |-> b.ver, transportBundleMetadata |-> first]
             lineHead == IF newLine THEN b.ver ELSE deltaLineHeadBundleVersion[h][t]
  <2>1. merged \in Bundle
    BY <1>0, <1>1, InheritEventsType
  <2>2. first \in Nat
    BY <1>0 DEF BundleMetadata
  <2>3. object \in BundleMetadata /\ object # Nil
    BY <1>1, <2>2, NilAssumption DEF BundleMetadata
  <2>4. lineHead \in BundleVersions \cup {Nil}
    BY <1>0, <1>1
  <2>5. /\ bundle' = [bundle EXCEPT ![h][t] = merged]
        /\ metadata' = [metadata EXCEPT ![h][t] = object]
        /\ lastReceivedTransportMetadata' = [lastReceivedTransportMetadata EXCEPT ![h][t] = m]
        /\ deltaLineHeadBundleVersion' = [deltaLineHeadBundleVersion EXCEPT ![h][t] = lineHead]
        /\ lastDispatchedDelta' = lastDispatchedDelta
    BY <1>3 DEF updateDelta
  <2>6. m # Nil
    BY NilAssumption
  <2> HIDE DEF merged, object, lineHead
  <2> QED
    BY <1>0, <2>1, <2>3, <2>4, <2>5, <2>6
<1> QED
  BY <1>2, <1>3

\* A job keeps its hub and type when its unit gets a newer bundle.
LEMMA JobsAfterUpdateType ==
    ASSUME IInv, NEW h \in Hubs, NEW t \in Types
    PROVE  /\ JobsAfterUpdate(h, t) \in [Workers -> DBJob \cup {Nil}]
           /\ \A w \in Workers :
                /\ JobsAfterUpdate(h, t)[w] = Nil <=> job[w] = Nil
                /\ job[w] # Nil =>
                     /\ JobsAfterUpdate(h, t)[w].hub = job[w].hub
                     /\ JobsAfterUpdate(h, t)[w].type = job[w].type
<1>0. job \in [Workers -> DBJob \cup {Nil}]
  BY DEF IInv, TypeOK
<1>1. ASSUME NEW w \in Workers, job[w] # Nil
      PROVE  /\ job[w] \in DBJob
             /\ JobMetadata(w) \in BundleMetadata
  <2>1. job[w] \in DBJob
    BY <1>0, <1>1
  <2>2. metadata[job[w].hub][job[w].type] \in BundleMetadata
    BY <1>1, <2>1 DEF IInv, TypeOK, JobFlags, DBJob
  <2> QED
    BY <2>1, <2>2 DEF JobMetadata, DBJob
<1>2. ASSUME NEW w \in Workers, job[w] # Nil
      PROVE  /\ [job[w] EXCEPT !.shared = FALSE, !.metadata = JobMetadata(w)] \in DBJob
             /\ [job[w] EXCEPT !.shared = FALSE, !.metadata = JobMetadata(w)].hub = job[w].hub
             /\ [job[w] EXCEPT !.shared = FALSE, !.metadata = JobMetadata(w)].type = job[w].type
  BY <1>1, <1>2 DEF DBJob
<1>3. \A w \in Workers :
        LET kept == KeepMetadataOfJobs(h, t)[w]
        IN  /\ kept \in DBJob \cup {Nil}
            /\ kept = Nil <=> job[w] = Nil
            /\ job[w] # Nil => kept.hub = job[w].hub /\ kept.type = job[w].type
  BY <1>0, <1>2, NilAssumption DEF KeepMetadataOfJobs
<1>4. KeepMetadataOfJobs(h, t) \in [Workers -> DBJob \cup {Nil}]
  BY <1>3 DEF KeepMetadataOfJobs
<1> QED
  BY <1>0, <1>3, <1>4 DEF JobsAfterUpdate

\* Insert, whichever transport calls it, returns early or updates one element.
LEMMA InsertIInv ==
    ASSUME IInv, NEW h \in Hubs, NEW t \in Types, NEW m \in Nat,
           NEW b, b.ver \in BundleVersions, b.dep \in BundleVersions, Insert(h, t, b, m),
           received' \in Nat, UNCHANGED <<dispatchVars, processed, dbVars>>
    PROVE  IInv'
<1>0. /\ b.ver \in BundleVersions /\ b.dep \in BundleVersions
      /\ received' \in Nat
      /\ Insert(h, t, b, m)
      /\ UNCHANGED <<dispatchVars, processed, dbVars>>
  OBVIOUS
<1>1. CASE UNCHANGED <<elementVars, queueVars, job>>
  <2>1. TypeOK'
    BY <1>0, <1>1 DEF IInv, TypeOK, elementVars, queueVars, dispatchVars, dbVars
  <2>2. QueueFlags' /\ JobFlags' /\ PendingHasMetadata'
    BY <1>0, <1>1 DEF IInv, QueueFlags, JobFlags, PendingHasMetadata, elementVars, queueVars,
                      dispatchVars
  <2> QED
    BY <2>1, <2>2 DEF IInv
<1>2. CASE /\ \/ SyncMode[t] = "complete" /\ updateComplete(h, t, b, m)
              \/ SyncMode[t] # "complete" /\ updateDelta(h, t, b, m)
           /\ job' = JobsAfterUpdate(h, t)
           /\ UNCHANGED <<isInProcess, lastProcessedBundleVersion>>
           /\ addCUToReadyQueueIfNeeded(h)
  <2>2. /\ bundle' \in [Hubs -> [Types -> Bundle \cup {Nil}]]
        /\ metadata' \in [Hubs -> [Types -> BundleMetadata \cup {Nil}]]
        /\ lastDispatchedDelta' = lastDispatchedDelta
        /\ lastReceivedTransportMetadata' \in [Hubs -> [Types -> Nat \cup {Nil}]]
        /\ deltaLineHeadBundleVersion' \in [Hubs -> [Types -> BundleVersions \cup {Nil}]]
        /\ metadata'[h][t] # Nil
        /\ SyncMode[t] = "delta" => lastReceivedTransportMetadata'[h][t] # Nil
        /\ \A g \in Hubs, u \in Types : g # h \/ u # t =>
             /\ bundle'[g][u] = bundle[g][u]
             /\ metadata'[g][u] = metadata[g][u]
             /\ lastReceivedTransportMetadata'[g][u] = lastReceivedTransportMetadata[g][u]
    BY <1>0, <1>2, UpdateElement
  <2>3. /\ job' \in [Workers -> DBJob \cup {Nil}]
        /\ \A w \in Workers :
             /\ job'[w] = Nil <=> job[w] = Nil
             /\ job[w] # Nil => job'[w].hub = job[w].hub /\ job'[w].type = job[w].type
    BY <1>2, JobsAfterUpdateType
  <2>4. /\ QueueFlags'
        /\ isInReadyQueue' \in [Hubs -> BOOLEAN]
        /\ readyQueue' \in Seq(Hubs)
    <3>1. /\ isInProcess' = isInProcess
          /\ isInProcess \in [Hubs -> [Types -> BOOLEAN]]
          /\ held' = held
      BY <1>0, <1>2 DEF IInv, TypeOK, dispatchVars
    <3>2. isInReadyQueue[h] => \A u \in Types : ~isInProcess'[h][u]
      BY <3>1 DEF IInv, QueueFlags
    <3> QED
      BY <1>2, <3>1, <3>2, AddCUKeepsQueueFlags DEF IInv
  <2>5. TypeOK'
    BY <1>0, <1>2, <2>2, <2>3, <2>4 DEF IInv, TypeOK, dispatchVars, dbVars
  <2>6. JobFlags'
    <3>1. /\ isInProcess' = isInProcess
          /\ acquired' = acquired /\ dbWorkers' = dbWorkers
      BY <1>0, <1>2 DEF dispatchVars
    <3>2. \A w \in Workers : job[w] # Nil => job[w].hub \in Hubs /\ job[w].type \in Types
      BY DEF IInv, TypeOK, DBJob
    <3>3. \A g \in Hubs, u \in Types : metadata[g][u] # Nil => metadata'[g][u] # Nil
      BY <2>2
    <3>4. \A w \in Workers : job'[w] # Nil =>
            /\ isInProcess'[job'[w].hub][job'[w].type]
            /\ metadata'[job'[w].hub][job'[w].type] # Nil
            /\ SyncMode[job'[w].type] = "delta" =>
                 lastDispatchedDelta'[job'[w].hub][job'[w].type] # Nil
      <4> SUFFICES ASSUME NEW w \in Workers, job'[w] # Nil
                   PROVE  /\ isInProcess'[job'[w].hub][job'[w].type]
                          /\ metadata'[job'[w].hub][job'[w].type] # Nil
                          /\ SyncMode[job'[w].type] = "delta" =>
                               lastDispatchedDelta'[job'[w].hub][job'[w].type] # Nil
        OBVIOUS
      <4>1. job[w] # Nil /\ job'[w].hub = job[w].hub /\ job'[w].type = job[w].type
        BY <2>3
      <4>2. /\ isInProcess[job[w].hub][job[w].type]
            /\ metadata[job[w].hub][job[w].type] # Nil
            /\ SyncMode[job[w].type] = "delta" =>
                 lastDispatchedDelta[job[w].hub][job[w].type] # Nil
        BY <4>1 DEF IInv, JobFlags
      <4> QED
        BY <2>2, <3>1, <3>2, <3>3, <4>1, <4>2
    <3>5. \A w, v \in Workers :
            job'[w] # Nil /\ job'[v] # Nil /\ w # v => job'[w].hub # job'[v].hub
      BY <2>3 DEF IInv, JobFlags
    <3>6. \A w \in Workers : w = acquired' \/ w \in dbWorkers' => job'[w] = Nil
      BY <2>3, <3>1 DEF IInv, JobFlags
    <3>7. acquired' \notin dbWorkers'
      BY <3>1 DEF IInv, JobFlags
    <3> QED
      BY <3>4, <3>5, <3>6, <3>7 DEF JobFlags
  <2>7. PendingHasMetadata'
    <3> SUFFICES ASSUME NEW g \in Hubs, NEW u \in Types
                 PROVE  /\ bundle'[g][u] # Nil => metadata'[g][u] # Nil
                        /\ SyncMode[u] = "delta" /\ metadata'[g][u] # Nil =>
                             lastReceivedTransportMetadata'[g][u] # Nil
      BY DEF PendingHasMetadata
    <3>1. CASE g = h /\ u = t
      BY <2>2, <3>1
    <3>2. CASE ~(g = h /\ u = t)
      <4>1. /\ bundle'[g][u] = bundle[g][u]
            /\ metadata'[g][u] = metadata[g][u]
            /\ lastReceivedTransportMetadata'[g][u] = lastReceivedTransportMetadata[g][u]
        BY <2>2, <3>2
      <4> QED
        BY <4>1 DEF IInv, PendingHasMetadata
    <3> QED
      BY <3>1, <3>2
  <2> QED
    BY <2>4, <2>5, <2>6, <2>7 DEF IInv
<1> QED
  BY <1>0, <1>1, <1>2 DEF Insert

\* Receiving a bundle.
LEMMA ReceiveIInv ==
    ASSUME IInv, NEW h \in Hubs, NEW t \in Types, NEW b \in Deliverable[t], Receive(h, t, b)
    PROVE  IInv'
<1>1. /\ b.ver \in BundleVersions /\ b.dep \in BundleVersions
      /\ received + 1 \in Nat /\ received' = received + 1
      /\ Insert(h, t, b, received + 1)
      /\ UNCHANGED <<dispatchVars, processed, dbVars>>
  BY DeliveryAssumption DEF IInv, TypeOK, Receive
<1> QED
  BY <1>1, InsertIInv

\* What a report does to the element it is about, whatever the result.
LEMMA ReportElement ==
    ASSUME IInv, NEW w \in Workers, NEW h \in Hubs, NEW t \in Types, ReportResult(w, h, t)
    PROVE  /\ bundle' \in [Hubs -> [Types -> Bundle \cup {Nil}]]
           /\ metadata' \in [Hubs -> [Types -> BundleMetadata \cup {Nil}]]
           /\ lastDispatchedDelta' \in [Hubs -> [Types -> RecoverableDelta \cup {Nil}]]
           /\ lastProcessedBundleVersion' \in [Hubs -> [Types -> BundleVersions]]
           /\ processed' \subseteq Nat
           /\ metadata'[h][t] # Nil
           /\ \A g \in Hubs, u \in Types : g # h \/ u # t =>
                /\ bundle'[g][u] = bundle[g][u]
                /\ metadata'[g][u] = metadata[g][u]
                /\ lastDispatchedDelta'[g][u] = lastDispatchedDelta[g][u]
                /\ lastProcessedBundleVersion'[g][u] = lastProcessedBundleVersion[g][u]
<1>0. /\ bundle \in [Hubs -> [Types -> Bundle \cup {Nil}]]
      /\ metadata \in [Hubs -> [Types -> BundleMetadata \cup {Nil}]]
      /\ lastDispatchedDelta \in [Hubs -> [Types -> RecoverableDelta \cup {Nil}]]
      /\ lastProcessedBundleVersion \in [Hubs -> [Types -> BundleVersions]]
      /\ processed \subseteq Nat
  BY DEF IInv, TypeOK
<1>1. /\ job[w] \in DBJob
      /\ metadata[h][t] \in BundleMetadata
      /\ metadata[h][t] # Nil
      /\ SyncMode[t] = "delta" => lastDispatchedDelta[h][t] \in RecoverableDelta
  BY <1>0 DEF IInv, TypeOK, JobFlags, ReportResult
<1> DEFINE md == JobMetadata(w)
<1>2. md \in BundleMetadata
  BY <1>1 DEF JobMetadata, ReportResult, DBJob
<1>3. md.bundleVersion \in BundleVersions /\ md.transportBundleMetadata \in Nat
  BY <1>2 DEF BundleMetadata
<1>4. CASE reportSuccess(h, t, md)
  <2> DEFINE newest == IF NewerThan(md.bundleVersion, lastProcessedBundleVersion[h][t])
                         THEN md.bundleVersion ELSE lastProcessedBundleVersion[h][t]
  <2>1. newest \in BundleVersions
    BY <1>0, <1>3
  <2>2. /\ lastProcessedBundleVersion' =
             [lastProcessedBundleVersion EXCEPT ![h][t] = newest]
        /\ processed' = processed \cup {md.transportBundleMetadata}
        /\ metadata' = metadata
        /\ bundle' = bundle \/ bundle' = [bundle EXCEPT ![h][t] = Nil]
        /\ \/ lastDispatchedDelta' = lastDispatchedDelta
           \/ lastDispatchedDelta' = [lastDispatchedDelta EXCEPT ![h][t] = Nil]
    BY <1>4 DEF reportSuccess, releaseBundle
  <2> HIDE DEF newest, md
  <2>3. /\ bundle' \in [Hubs -> [Types -> Bundle \cup {Nil}]]
        /\ lastDispatchedDelta' \in [Hubs -> [Types -> RecoverableDelta \cup {Nil}]]
        /\ \A g \in Hubs, u \in Types : g # h \/ u # t =>
             /\ bundle'[g][u] = bundle[g][u]
             /\ lastDispatchedDelta'[g][u] = lastDispatchedDelta[g][u]
    <3>1. /\ bundle' \in [Hubs -> [Types -> Bundle \cup {Nil}]]
          /\ \A g \in Hubs, u \in Types : g # h \/ u # t => bundle'[g][u] = bundle[g][u]
      <4>1. CASE bundle' = bundle
        BY <1>0, <4>1
      <4>2. CASE bundle' = [bundle EXCEPT ![h][t] = Nil]
        BY <1>0, <4>2
      <4> QED
        BY <2>2, <4>1, <4>2
    <3>2. /\ lastDispatchedDelta' \in [Hubs -> [Types -> RecoverableDelta \cup {Nil}]]
          /\ \A g \in Hubs, u \in Types : g # h \/ u # t =>
               lastDispatchedDelta'[g][u] = lastDispatchedDelta[g][u]
      <4>1. CASE lastDispatchedDelta' = lastDispatchedDelta
        BY <1>0, <4>1
      <4>2. CASE lastDispatchedDelta' = [lastDispatchedDelta EXCEPT ![h][t] = Nil]
        BY <1>0, <4>2
      <4> QED
        BY <2>2, <4>1, <4>2
    <3> QED
      BY <3>1, <3>2
  <2>4. /\ lastProcessedBundleVersion' \in [Hubs -> [Types -> BundleVersions]]
        /\ processed' \subseteq Nat
        /\ \A g \in Hubs, u \in Types : g # h \/ u # t =>
             lastProcessedBundleVersion'[g][u] = lastProcessedBundleVersion[g][u]
    BY <1>0, <1>3, <2>1, <2>2
  <2> QED
    BY <1>0, <1>1, <2>2, <2>3, <2>4
<1>5. CASE reportError(h, t, md)
  <2>0. lastProcessedBundleVersion' = lastProcessedBundleVersion /\ processed' = processed
    BY <1>5 DEF reportError
  <2>1. CASE UNCHANGED <<bundle, metadata, lastDispatchedDelta>>
    BY <1>0, <1>1, <2>0, <2>1
  <2>2. CASE SyncMode[t] = "delta" /\ handleFailure(h, t, md)
    <3> DEFINE last == lastDispatchedDelta[h][t]
               restored == IF bundle[h][t] = Nil
                             THEN last.bundle ELSE InheritEvents(bundle[h][t], last.bundle)
               object == WithTransportMetadata(metadata[h][t], last.lowestPendingTransportMetadata)
    <3>1. last.bundle \in Bundle /\ last.lowestPendingTransportMetadata \in Nat
      BY <1>1, <2>2 DEF RecoverableDelta
    <3>2. restored \in Bundle
      BY <1>0, <3>1, InheritEventsType
    <3>3. object \in BundleMetadata /\ object # Nil
      BY <1>1, <3>1, NilAssumption DEF BundleMetadata, WithTransportMetadata
    <3>4. /\ lastDispatchedDelta' = [lastDispatchedDelta EXCEPT ![h][t] = Nil]
          /\ \/ UNCHANGED <<bundle, metadata>>
             \/ /\ bundle' = [bundle EXCEPT ![h][t] = restored]
                /\ metadata' = [metadata EXCEPT ![h][t] = object]
      BY <2>2 DEF handleFailure
    <3> HIDE DEF last, restored, object
    <3>5. CASE UNCHANGED <<bundle, metadata>>
      BY <1>0, <1>1, <2>0, <3>4, <3>5
    <3>6. CASE /\ bundle' = [bundle EXCEPT ![h][t] = restored]
               /\ metadata' = [metadata EXCEPT ![h][t] = object]
      <4>1. /\ bundle' \in [Hubs -> [Types -> Bundle \cup {Nil}]]
            /\ \A g \in Hubs, u \in Types : g # h \/ u # t => bundle'[g][u] = bundle[g][u]
        BY <1>0, <3>2, <3>6
      <4>2. /\ metadata' \in [Hubs -> [Types -> BundleMetadata \cup {Nil}]]
            /\ metadata'[h][t] # Nil
            /\ \A g \in Hubs, u \in Types : g # h \/ u # t => metadata'[g][u] = metadata[g][u]
        BY <1>0, <3>3, <3>6
      <4>3. /\ lastDispatchedDelta' \in [Hubs -> [Types -> RecoverableDelta \cup {Nil}]]
            /\ \A g \in Hubs, u \in Types : g # h \/ u # t =>
                 lastDispatchedDelta'[g][u] = lastDispatchedDelta[g][u]
        BY <1>0, <3>4
      <4> QED
        BY <1>0, <2>0, <4>1, <4>2, <4>3
    <3> QED
      BY <3>4, <3>5, <3>6
  <2> QED
    BY <1>5, <2>1, <2>2 DEF reportError
<1> QED
  BY <1>4, <1>5 DEF ReportResult

\* A report ends the unit's only job and may queue the unit again.
LEMMA ReportResultIInv ==
    ASSUME IInv, NEW w \in Workers, NEW h \in Hubs, NEW t \in Types, ReportResult(w, h, t)
    PROVE  IInv'
<1>1. /\ bundle' \in [Hubs -> [Types -> Bundle \cup {Nil}]]
      /\ metadata' \in [Hubs -> [Types -> BundleMetadata \cup {Nil}]]
      /\ lastDispatchedDelta' \in [Hubs -> [Types -> RecoverableDelta \cup {Nil}]]
      /\ lastProcessedBundleVersion' \in [Hubs -> [Types -> BundleVersions]]
      /\ processed' \subseteq Nat
      /\ metadata'[h][t] # Nil
      /\ \A g \in Hubs, u \in Types : g # h \/ u # t =>
           /\ bundle'[g][u] = bundle[g][u]
           /\ metadata'[g][u] = metadata[g][u]
           /\ lastDispatchedDelta'[g][u] = lastDispatchedDelta[g][u]
  BY ReportElement
<1>2. /\ isInProcess' = [isInProcess EXCEPT ![h][t] = FALSE]
      /\ isInProcess \in [Hubs -> [Types -> BOOLEAN]]
      /\ job[w] # Nil /\ job[w].hub = h /\ job[w].type = t
      /\ job' = [job EXCEPT ![w] = Nil]
      /\ job \in [Workers -> DBJob \cup {Nil}]
      /\ dbWorkers' = dbWorkers \cup {w}
      /\ held' = held /\ acquired' = acquired
      /\ addCUToReadyQueueIfNeeded(h)
  BY DEF IInv, TypeOK, ReportResult
<1>3. /\ isInProcess' \in [Hubs -> [Types -> BOOLEAN]]
      /\ \A g \in Hubs, u \in Types : g # h \/ u # t => isInProcess'[g][u] = isInProcess[g][u]
      /\ \A g \in Hubs \ {h} : isInProcess'[g] = isInProcess[g]
  BY <1>2
<1>4. ~isInReadyQueue[h]
  <2>1. isInProcess[h][t]
    BY <1>2 DEF IInv, JobFlags
  <2> QED
    BY <2>1 DEF IInv, QueueFlags
<1>5. /\ QueueFlags'
      /\ isInReadyQueue' \in [Hubs -> BOOLEAN]
      /\ readyQueue' \in Seq(Hubs)
  BY <1>2, <1>3, <1>4, AddCUKeepsQueueFlags DEF IInv
<1>6. job' \in [Workers -> DBJob \cup {Nil}]
  BY <1>2
<1>7. TypeOK'
  BY <1>1, <1>2, <1>3, <1>5, <1>6 DEF IInv, TypeOK, ReportResult, dbVars
<1>8. JobFlags'
  <2>1. \A v \in Workers : job'[v] # Nil =>
            v # w /\ job'[v] = job[v] /\ job[v].hub \in Hubs /\ job[v].type \in Types
    BY <1>2 DEF DBJob
  <2>2. \A v \in Workers : job'[v] # Nil =>
            /\ isInProcess'[job'[v].hub][job'[v].type]
            /\ metadata'[job'[v].hub][job'[v].type] # Nil
            /\ SyncMode[job'[v].type] = "delta" =>
                 lastDispatchedDelta'[job'[v].hub][job'[v].type] # Nil
    <3> SUFFICES ASSUME NEW v \in Workers, job'[v] # Nil
                 PROVE  /\ isInProcess'[job'[v].hub][job'[v].type]
                        /\ metadata'[job'[v].hub][job'[v].type] # Nil
                        /\ SyncMode[job'[v].type] = "delta" =>
                             lastDispatchedDelta'[job'[v].hub][job'[v].type] # Nil
      OBVIOUS
    <3>1. /\ v # w /\ job'[v] = job[v]
          /\ job[v].hub \in Hubs /\ job[v].type \in Types
      BY <2>1
    <3>2. job[v].hub # h
      BY <1>2, <3>1 DEF IInv, JobFlags
    <3>3. /\ isInProcess[job[v].hub][job[v].type]
          /\ metadata[job[v].hub][job[v].type] # Nil
          /\ SyncMode[job[v].type] = "delta" =>
               lastDispatchedDelta[job[v].hub][job[v].type] # Nil
      BY <3>1 DEF IInv, JobFlags
    <3> QED
      BY <1>1, <1>3, <3>1, <3>2, <3>3
  <2>3. \A u, v \in Workers :
            job'[u] # Nil /\ job'[v] # Nil /\ u # v => job'[u].hub # job'[v].hub
    BY <2>1 DEF IInv, JobFlags
  <2>4. \A v \in Workers : v = acquired' \/ v \in dbWorkers' => job'[v] = Nil
    BY <1>2 DEF IInv, JobFlags
  <2>5. acquired' \notin dbWorkers'
    BY <1>2 DEF IInv, JobFlags
  <2> QED
    BY <2>2, <2>3, <2>4, <2>5 DEF JobFlags
<1>9. PendingHasMetadata'
  <2>1. lastReceivedTransportMetadata' = lastReceivedTransportMetadata
    BY DEF ReportResult
  <2> SUFFICES ASSUME NEW g \in Hubs, NEW u \in Types
               PROVE  /\ bundle'[g][u] # Nil => metadata'[g][u] # Nil
                      /\ SyncMode[u] = "delta" /\ metadata'[g][u] # Nil =>
                           lastReceivedTransportMetadata'[g][u] # Nil
    BY DEF PendingHasMetadata
  <2>2. CASE g # h \/ u # t
    <3>1. bundle'[g][u] = bundle[g][u] /\ metadata'[g][u] = metadata[g][u]
      BY <1>1, <2>2
    <3> QED
      BY <2>1, <3>1 DEF IInv, PendingHasMetadata
  <2>3. CASE g = h /\ u = t
    <3>1. metadata[h][t] # Nil
      BY <1>2 DEF IInv, JobFlags
    <3> QED
      BY <1>1, <2>1, <2>3, <3>1 DEF IInv, PendingHasMetadata
  <2> QED
    BY <2>2, <2>3
<1> QED
  BY <1>5, <1>7, <1>8, <1>9 DEF IInv

\* Every step keeps the invariant.
LEMMA NextIInv == IInv /\ [Next]_vars => IInv'
<1> SUFFICES ASSUME IInv, [Next]_vars PROVE IInv'
  OBVIOUS
<1>1. CASE UNCHANGED vars
  <2>1. /\ UNCHANGED elementVars /\ UNCHANGED queueVars /\ UNCHANGED dispatchVars
        /\ UNCHANGED dbVars /\ UNCHANGED <<job, received, processed>>
    BY <1>1 DEF vars
  <2>2. TypeOK'
    BY <2>1 DEF IInv, TypeOK, elementVars, queueVars, dispatchVars, dbVars
  <2>3. QueueFlags' /\ JobFlags' /\ PendingHasMetadata'
    BY <2>1 DEF IInv, QueueFlags, JobFlags, PendingHasMetadata, elementVars, queueVars,
                dispatchVars
  <2> QED
    BY <2>2, <2>3 DEF IInv
<1>2. CASE \E h \in Hubs, t \in Types : \E b \in Deliverable[t] : Receive(h, t, b)
  BY <1>2, ReceiveIInv
<1>3. CASE Dispatch
  BY <1>3, BlockingDequeueIInv, AcquireIInv, GetNextIInv, GetNextFailsIInv DEF Dispatch
<1>4. CASE \E w \in Workers : Work(w)
  BY <1>4, RunHandlerIInv, ReportResultIInv DEF Work
<1> QED
  BY <1>1, <1>2, <1>3, <1>4 DEF Next

\* The strengthened invariant holds in every reachable state.
LEMMA IInvIsInvariant == Spec => []IInv
BY InitIInv, NextIInv, PTL DEF Spec

\* Type correctness: no nil metadata, pack or version is ever dereferenced into a
\* field, for any transport and any registration of types.
THEOREM TypeCorrect == Spec => []TypeOK
<1>1. IInv => TypeOK
  BY DEF IInv
<1> QED
  BY <1>1, IInvIsInvariant, PTL

\* The flags imply that a unit is in one place at a time.
LEMMA FlagsImplySerial == IInv => SerialPerHub
<1> SUFFICES ASSUME IInv PROVE SerialPerHub
  OBVIOUS
<1>1. \A i \in 1..Len(readyQueue) : readyQueue[i] # held
  BY DEF IInv, QueueFlags
<1>2. ASSUME NEW w \in Workers, job[w] # Nil
      PROVE  ~Queued(job[w].hub)
  <2>1. job[w].hub \in Hubs /\ job[w].type \in Types /\ job[w].hub # Nil
    BY <1>2, NilAssumption DEF IInv, TypeOK, DBJob
  <2>2. isInProcess[job[w].hub][job[w].type]
    BY <1>2 DEF IInv, JobFlags
  <2>3. ~isInReadyQueue[job[w].hub]
    BY <2>1, <2>2 DEF IInv, QueueFlags
  <2> QED
    BY <2>1, <2>3 DEF IInv, QueueFlags, Queued
<1> QED
  BY <1>1, <1>2 DEF IInv, QueueFlags, JobFlags, SerialPerHub

\* "allow CU to appear only once in RQ/processing", for any number of hubs, types
\* and workers: bundles of one leaf hub are processed strictly one at a time.
THEOREM UnitsAreSerial == Spec => []SerialPerHub
BY IInvIsInvariant, FlagsImplySerial, PTL

------------------------------------------------------------------------------
(* No lost wake-up *)

\* Which bundles of a unit are ready depends on that unit's elements only.
LEMMA ReadyTypesUnchanged ==
    ASSUME NEW g \in Hubs,
           \A u \in Types : /\ bundle'[g][u] = bundle[g][u]
                            /\ isInProcess'[g][u] = isInProcess[g][u]
                            /\ lastProcessedBundleVersion'[g][u] =
                                 lastProcessedBundleVersion[g][u]
    PROVE  /\ ReadyTypes(g)' = ReadyTypes(g)
           /\ isUnitInProcess(g)' <=> isUnitInProcess(g)
<1>1. \A u \in Types :
        isCurrentOrAnyDependencyInProcess(g, u)' <=> isCurrentOrAnyDependencyInProcess(g, u)
  <2>1. \A u \in Types : DependencyChain[u] \subseteq Types
    BY DEF DependencyChain
  <2> QED
    BY <2>1 DEF isCurrentOrAnyDependencyInProcess
<1>2. \A u \in Types : checkDependency(g, u)' <=> checkDependency(g, u)
  BY RegistrationAssumption DEF checkDependency, DependencyMet
<1> QED
  BY <1>1, <1>2 DEF ReadyTypes, isUnitInProcess

\* A step that changes the elements of unit h only, and ends with the call that
\* queues the unit, leaves no ready unit idle.
LEMMA AddCUKeepsNoIdle ==
    ASSUME NoIdleReadyUnit, NEW h \in Hubs,
           isInReadyQueue \in [Hubs -> BOOLEAN],
           \A g \in Hubs, u \in Types : g # h =>
                /\ bundle'[g][u] = bundle[g][u]
                /\ isInProcess'[g][u] = isInProcess[g][u]
                /\ lastProcessedBundleVersion'[g][u] = lastProcessedBundleVersion[g][u],
           addCUToReadyQueueIfNeeded(h)
    PROVE  NoIdleReadyUnit'
<1> SUFFICES ASSUME NEW g \in Hubs, ReadyTypes(g)' # {}, ~isUnitInProcess(g)'
             PROVE  isInReadyQueue'[g]
  BY DEF NoIdleReadyUnit
<1>1. CASE g = h
  BY <1>1 DEF addCUToReadyQueueIfNeeded, queueVars
<1>2. CASE g # h
  <2>1. ReadyTypes(g) # {} /\ ~isUnitInProcess(g)
    BY <1>2, ReadyTypesUnchanged
  <2>2. isInReadyQueue[g]
    BY <2>1 DEF NoIdleReadyUnit
  <2>3. isInReadyQueue'[g] = isInReadyQueue[g]
    BY <1>2 DEF addCUToReadyQueueIfNeeded, queueVars
  <2> QED
    BY <2>2, <2>3
<1> QED
  BY <1>1, <1>2

\* The steps that touch neither an element nor a flag.
LEMMA StutterKeepsNoIdle ==
    ASSUME NoIdleReadyUnit, UNCHANGED elementVars, UNCHANGED isInReadyQueue
    PROVE  NoIdleReadyUnit'
<1>1. \A g \in Hubs : /\ ReadyTypes(g)' = ReadyTypes(g)
                      /\ isUnitInProcess(g)' <=> isUnitInProcess(g)
  BY ReadyTypesUnchanged DEF elementVars
<1> QED
  BY <1>1 DEF NoIdleReadyUnit

\* Nor does insert, whichever transport calls it.
LEMMA InsertNoIdle ==
    ASSUME IInv, NoIdleReadyUnit, NEW h \in Hubs, NEW t \in Types, NEW m \in Nat,
           NEW b, b.ver \in BundleVersions, b.dep \in BundleVersions, Insert(h, t, b, m)
    PROVE  NoIdleReadyUnit'
<1>0. isInReadyQueue \in [Hubs -> BOOLEAN]
  BY DEF IInv, TypeOK
<1>1. CASE UNCHANGED <<elementVars, queueVars, job>>
  BY <1>1, StutterKeepsNoIdle DEF queueVars
<1>2. CASE /\ \/ SyncMode[t] = "complete" /\ updateComplete(h, t, b, m)
              \/ SyncMode[t] # "complete" /\ updateDelta(h, t, b, m)
           /\ UNCHANGED <<isInProcess, lastProcessedBundleVersion>>
           /\ addCUToReadyQueueIfNeeded(h)
  <2>1. \A g \in Hubs, u \in Types : g # h \/ u # t => bundle'[g][u] = bundle[g][u]
    BY <1>2, UpdateElement
  <2>. QED
    BY <1>0, <1>2, <2>1, AddCUKeepsNoIdle
<1>. QED
  BY <1>1, <1>2 DEF Insert

\* No step leaves a unit with a ready bundle idle and unqueued.
LEMMA NextNoIdle == IInv /\ NoIdleReadyUnit /\ [Next]_vars => NoIdleReadyUnit'
<1> SUFFICES ASSUME IInv, NoIdleReadyUnit, [Next]_vars PROVE NoIdleReadyUnit'
  OBVIOUS
<1>0. /\ isInReadyQueue \in [Hubs -> BOOLEAN]
      /\ isInProcess \in [Hubs -> [Types -> BOOLEAN]]
  BY DEF IInv, TypeOK
<1>1. CASE UNCHANGED vars
  BY <1>1, StutterKeepsNoIdle DEF vars, queueVars
<1>2. ASSUME NEW h \in Hubs, NEW t \in Types, NEW b \in Deliverable[t], Receive(h, t, b)
      PROVE  NoIdleReadyUnit'
  <2>1. b.ver \in BundleVersions /\ b.dep \in BundleVersions /\ received + 1 \in Nat
    BY DeliveryAssumption DEF IInv, TypeOK
  <2>. QED
    BY <1>2, <2>1, InsertNoIdle DEF Receive
<1>3. CASE BlockingDequeue \/ Acquire \/ GetNextFails
  BY <1>3, StutterKeepsNoIdle DEF BlockingDequeue, Acquire, GetNextFails, queueVars
<1>4. ASSUME NEW h \in Hubs, NEW t \in Types, GetNext(h, t)
      PROVE  NoIdleReadyUnit'
  <2>1. isUnitInProcess(h)'
    BY <1>0, <1>4 DEF GetNext, isUnitInProcess
  <2>2. ASSUME NEW g \in Hubs, g # h, ReadyTypes(g)' # {}, ~isUnitInProcess(g)'
        PROVE  isInReadyQueue'[g]
    <3>1. \A u \in Types : /\ bundle'[g][u] = bundle[g][u]
                           /\ isInProcess'[g][u] = isInProcess[g][u]
                           /\ lastProcessedBundleVersion'[g][u] =
                                lastProcessedBundleVersion[g][u]
      <4>1. bundle \in [Hubs -> [Types -> Bundle \cup {Nil}]]
        BY DEF IInv, TypeOK
      <4>2. bundle' = bundle \/ bundle' = [bundle EXCEPT ![h][t] = Nil]
        BY <1>4 DEF GetNext, getMetadataDelta
      <4>3. \A u \in Types : bundle'[g][u] = bundle[g][u]
        BY <2>2, <4>1, <4>2
      <4> QED
        BY <1>0, <1>4, <2>2, <4>3 DEF GetNext
    <3>2. isInReadyQueue[g]
      BY <2>2, <3>1, ReadyTypesUnchanged DEF NoIdleReadyUnit
    <3>3. isInReadyQueue'[g] = isInReadyQueue[g]
      BY <1>0, <1>4, <2>2 DEF GetNext
    <3> QED
      BY <3>2, <3>3
  <2> QED
    BY <2>1, <2>2 DEF NoIdleReadyUnit
<1>5. ASSUME NEW w \in Workers, NEW result \in {"success", "error"}, RunHandler(w, result)
      PROVE  NoIdleReadyUnit'
  BY <1>5, StutterKeepsNoIdle DEF RunHandler, queueVars
<1>6. ASSUME NEW w \in Workers, NEW h \in Hubs, NEW t \in Types, ReportResult(w, h, t)
      PROVE  NoIdleReadyUnit'
  <2>1. \A g \in Hubs, u \in Types : g # h =>
            /\ bundle'[g][u] = bundle[g][u]
            /\ lastProcessedBundleVersion'[g][u] = lastProcessedBundleVersion[g][u]
    BY <1>6, ReportElement
  <2>2. \A g \in Hubs, u \in Types : g # h => isInProcess'[g][u] = isInProcess[g][u]
    BY <1>0, <1>6 DEF ReportResult
  <2>3. addCUToReadyQueueIfNeeded(h)
    BY <1>6 DEF ReportResult
  <2> QED
    BY <1>0, <2>1, <2>2, <2>3, AddCUKeepsNoIdle
<1> QED
  BY <1>1, <1>2, <1>3, <1>4, <1>5, <1>6 DEF Next, Dispatch, Work

\* A bundle that can be processed is never forgotten: its unit is flagged as
\* queued from the moment it becomes ready until GetNext takes it.
THEOREM NoLostWakeUp == Spec => []NoIdleReadyUnit
<1>1. Init => NoIdleReadyUnit
  BY DEF Init, NoIdleReadyUnit, ReadyTypes, EveryElement
<1> QED
  BY <1>1, IInvIsInvariant, NextNoIdle, PTL DEF Spec

------------------------------------------------------------------------------
(* Metadata objects, bundles and the database *)

\* A pending bundle's metadata has its version and names a message it carries; for
\* a delta the message is the one that getMetadata will name.
ElementIsDescribed ==
    \A h \in Hubs, t \in Types : bundle[h][t] # Nil =>
        /\ metadata[h][t].bundleVersion = bundle[h][t].ver
        /\ SyncMode[t] = "complete" =>
             metadata[h][t].transportBundleMetadata \in bundle[h][t].events
        /\ SyncMode[t] = "delta" => lastReceivedTransportMetadata[h][t] \in bundle[h][t].events

\* So is a dispatched pack that may become pending again, until something newer is.
PackIsDescribed ==
    \A h \in Hubs, t \in Types :
        SyncMode[t] = "delta" /\ lastDispatchedDelta[h][t] # Nil /\ bundle[h][t] = Nil =>
            /\ metadata[h][t].bundleVersion = lastDispatchedDelta[h][t].bundle.ver
            /\ lastReceivedTransportMetadata[h][t] \in lastDispatchedDelta[h][t].bundle.events

\* A pending complete-state bundle is newer than what was processed.
PendingIsNewer ==
    \A h \in Hubs, t \in CompleteTypes :
        bundle[h][t] # Nil => NewerThan(bundle[h][t].ver, lastProcessedBundleVersion[h][t])

\* The metadata that worker w's job points to describes the job's bundle.
MetadataIsOfJob(w) ==
    /\ JobMetadata(w).bundleVersion = job[w].bundle.ver
    /\ JobMetadata(w).transportBundleMetadata \in job[w].bundle.events

\* What worker w's handler has reported is true of the database.
ResultIsTrue(w) ==
    job[w].result = "success" =>
        /\ stored[job[w].hub][job[w].type] = job[w].bundle.ver
        /\ job[w].bundle.events \subseteq applied

\* The bundle of worker w is newer than what was processed, is still pending or
\* replaced by a newer one when it is a complete state, and its base is processed.
BundleIsDue(w) ==
    LET h == job[w].hub
        t == job[w].type
    IN  /\ SyncMode[t] = "complete" =>
             /\ NewerThan(job[w].bundle.ver, lastProcessedBundleVersion[h][t])
             /\ bundle[h][t] # Nil
             /\ ~NewerThan(job[w].bundle.ver, bundle[h][t].ver)
        /\ Dependency[t] # Nil =>
             DependencyMet(t, job[w].bundle, lastProcessedBundleVersion[h][Dependency[t]])

JobIsDescribed ==
    \A w \in Workers : job[w] # Nil => MetadataIsOfJob(w) /\ ResultIsTrue(w) /\ BundleIsDue(w)

CInv == ElementIsDescribed /\ PackIsDescribed /\ PendingIsNewer /\ JobIsDescribed /\ MarkedIsApplied

\* The database holds nothing newer than a bundle that a worker is about to write.
HandledIsNewer ==
    \A w \in Workers :
        job[w] # Nil /\ job[w].result = "none" /\ SyncMode[job[w].type] = "complete" =>
            ~NewerThan(stored[job[w].hub][job[w].type], job[w].bundle.ver)

DInv == MemoryTracksDB /\ HandledIsNewer

------------------------------------------------------------------------------
(* Versions are totally ordered *)

\* NewerThan is a strict order in which any two versions are comparable or equal.
LEMMA VersionOrder ==
    ASSUME NEW a \in BundleVersions, NEW b \in BundleVersions, NEW c \in BundleVersions
    PROVE  /\ ~NewerThan(a, a)
           /\ NewerThan(a, b) => ~NewerThan(b, a)
           /\ ~NewerThan(a, b) /\ ~NewerThan(b, a) => a = b
           /\ ~NewerThan(a, b) /\ NewerThan(c, b) => NewerThan(c, a)
           /\ ~NewerThan(a, b) /\ ~NewerThan(b, c) => ~NewerThan(a, c)
           /\ Equals(a, b) <=> a = b
           /\ ~NewerThan(noBundleVersion, a)
<1>1. PICK i \in Nat, g \in Nat : a = [incarnation |-> i, generation |-> g]
  BY DEF BundleVersions
<1>2. PICK j \in Nat, k \in Nat : b = [incarnation |-> j, generation |-> k]
  BY DEF BundleVersions
<1>3. PICK m \in Nat, n \in Nat : c = [incarnation |-> m, generation |-> n]
  BY DEF BundleVersions
<1>. QED
  BY <1>1, <1>2, <1>3 DEF NewerThan, Equals, noBundleVersion, NewBundleVersion

------------------------------------------------------------------------------
(* What the calls do to the element they are made on *)

\* Insert describes the bundle it leaves pending by the message it was called with.
LEMMA InsertElement ==
    ASSUME IInv, NEW h \in Hubs, NEW t \in Types, NEW m \in Nat,
           NEW b, b.ver \in BundleVersions, b.dep \in BundleVersions,
           \/ SyncMode[t] = "complete" /\ updateComplete(h, t, b, m)
           \/ SyncMode[t] # "complete" /\ updateDelta(h, t, b, m)
    PROVE  /\ bundle'[h][t] # Nil /\ bundle'[h][t].ver = b.ver /\ m \in bundle'[h][t].events
           /\ metadata'[h][t].bundleVersion = b.ver
           /\ SyncMode[t] = "complete" => metadata'[h][t].transportBundleMetadata = m
           /\ SyncMode[t] = "delta" => lastReceivedTransportMetadata'[h][t] = m
<1>0. /\ bundle \in [Hubs -> [Types -> Bundle \cup {Nil}]]
      /\ metadata \in [Hubs -> [Types -> BundleMetadata \cup {Nil}]]
      /\ lastReceivedTransportMetadata \in [Hubs -> [Types -> Nat \cup {Nil}]]
  BY DEF IInv, TypeOK
<1> DEFINE new == [ver |-> b.ver, dep |-> b.dep, events |-> {m}]
<1>1. new \in Bundle /\ new # Nil
  BY NilAssumption DEF Bundle
<1>2. CASE SyncMode[t] = "complete" /\ updateComplete(h, t, b, m)
  BY <1>0, <1>1, <1>2 DEF updateComplete
<1>3. CASE SyncMode[t] # "complete" /\ updateDelta(h, t, b, m)
  <2> DEFINE merged == InheritEvents(new, bundle[h][t])
             first == IF bundleStartsNewLine(h, t, b) \/ metadata[h][t] = Nil
                        THEN m ELSE metadata[h][t].transportBundleMetadata
  <2>1. merged \in Bundle /\ merged # Nil
    BY <1>0, <1>1, InheritEventsType, NilAssumption
  <2>2. merged.ver = b.ver /\ m \in merged.events
    BY DEF InheritEvents
  <2>3. /\ bundle' = [bundle EXCEPT ![h][t] = merged]
        /\ metadata' = [metadata EXCEPT ![h][t] =
                          [bundleVersion |-> b.ver, transportBundleMetadata |-> first]]
        /\ lastReceivedTransportMetadata' = [lastReceivedTransportMetadata EXCEPT ![h][t] = m]
    BY <1>3 DEF updateDelta
  <2> HIDE DEF merged, first
  <2>. QED
    BY <1>0, <1>3, <2>1, <2>2, <2>3
<1>. QED
  BY <1>2, <1>3

\* Insert leaves the jobs with the bundles and the metadata they have.
LEMMA InsertJobs ==
    ASSUME IInv, NEW h \in Hubs, NEW t \in Types,
           job' = JobsAfterUpdate(h, t),
           \A g \in Hubs, u \in Types : g # h \/ u # t => metadata'[g][u] = metadata[g][u],
           NEW w \in Workers
    PROVE  /\ job'[w] = Nil <=> job[w] = Nil
           /\ job[w] # Nil => /\ job'[w].hub = job[w].hub /\ job'[w].type = job[w].type
                              /\ job'[w].bundle = job[w].bundle /\ job'[w].result = job[w].result
                              /\ JobMetadata(w)' = JobMetadata(w)
<1>1. /\ job'[w] = Nil <=> job[w] = Nil
      /\ job[w] # Nil => job'[w].hub = job[w].hub /\ job'[w].type = job[w].type
  BY JobsAfterUpdateType
<1>2. SUFFICES ASSUME job[w] # Nil
      PROVE  /\ job'[w].bundle = job[w].bundle /\ job'[w].result = job[w].result
             /\ JobMetadata(w)' = JobMetadata(w)
  BY <1>1
<1>3. /\ job[w] \in DBJob /\ job[w].hub \in Hubs /\ job[w].type \in Types
      /\ isInProcess[job[w].hub][job[w].type]
  BY <1>2 DEF IInv, TypeOK, JobFlags, DBJob
<1>4. CASE job[w].hub = h /\ job[w].type = t
  <2>1. job'[w] = [job[w] EXCEPT !.shared = FALSE, !.metadata = JobMetadata(w)]
    BY <1>2, <1>3, <1>4 DEF JobsAfterUpdate, KeepMetadataOfJobs
  <2>2. /\ job'[w].bundle = job[w].bundle /\ job'[w].result = job[w].result
        /\ job'[w].shared = FALSE /\ job'[w].metadata = JobMetadata(w)
    BY <1>3, <2>1 DEF DBJob
  <2>. QED
    BY <2>2 DEF JobMetadata
<1>5. CASE ~(job[w].hub = h /\ job[w].type = t)
  <2>1. job'[w] = job[w]
    BY <1>5 DEF JobsAfterUpdate, KeepMetadataOfJobs
  <2>2. metadata'[job[w].hub][job[w].type] = metadata[job[w].hub][job[w].type]
    BY <1>3, <1>5
  <2>. QED
    BY <2>1, <2>2 DEF JobMetadata
<1>. QED
  BY <1>4, <1>5

\* What JobIsDescribed says of a job that a step leaves alone, when the step changes
\* nothing of its unit.
LEMMA JobUntouched ==
    ASSUME JobIsDescribed, NEW w \in Workers, job'[w] = job[w], job[w] # Nil, job[w] \in DBJob,
           \A u \in Types :
                /\ bundle'[job[w].hub][u] = bundle[job[w].hub][u]
                /\ metadata'[job[w].hub][u] = metadata[job[w].hub][u]
                /\ lastProcessedBundleVersion'[job[w].hub][u] =
                     lastProcessedBundleVersion[job[w].hub][u]
                /\ stored'[job[w].hub][u] = stored[job[w].hub][u],
           applied \subseteq applied'
    PROVE  (MetadataIsOfJob(w) /\ ResultIsTrue(w) /\ BundleIsDue(w))'
<1>1. job[w].type \in Types
  BY DEF DBJob
<1>2. MetadataIsOfJob(w) /\ ResultIsTrue(w) /\ BundleIsDue(w)
  BY DEF JobIsDescribed
<1>3. MetadataIsOfJob(w)' /\ ResultIsTrue(w)'
  BY <1>1, <1>2 DEF MetadataIsOfJob, JobMetadata, ResultIsTrue
<1>4. BundleIsDue(w)'
  BY <1>1, <1>2, RegistrationAssumption DEF BundleIsDue, DependencyMet
<1>. QED
  BY <1>3, <1>4

------------------------------------------------------------------------------
(* Every step keeps the metadata true to the bundles *)

\* The steps that touch no element, no job and not the database.
LEMMA QuietKeeps ==
    ASSUME UNCHANGED <<elementVars, job, processed, dbVars>>
    PROVE  /\ CInv => CInv'
           /\ DInv => DInv'
<1>1. /\ bundle' = bundle /\ metadata' = metadata /\ job' = job /\ processed' = processed
      /\ lastProcessedBundleVersion' = lastProcessedBundleVersion
      /\ lastDispatchedDelta' = lastDispatchedDelta
      /\ lastReceivedTransportMetadata' = lastReceivedTransportMetadata
      /\ stored' = stored /\ applied' = applied
  BY DEF elementVars, dbVars
<1>2. ElementIsDescribed => ElementIsDescribed'
  BY <1>1 DEF ElementIsDescribed
<1>3. PackIsDescribed => PackIsDescribed'
  BY <1>1 DEF PackIsDescribed
<1>4. PendingIsNewer => PendingIsNewer'
  BY <1>1 DEF PendingIsNewer
<1>5. JobIsDescribed => JobIsDescribed'
  BY <1>1 DEF JobIsDescribed, MetadataIsOfJob, JobMetadata, ResultIsTrue, BundleIsDue,
              DependencyMet
<1>6. MarkedIsApplied => MarkedIsApplied'
  BY <1>1 DEF MarkedIsApplied
<1>7. MemoryTracksDB => MemoryTracksDB'
  BY <1>1 DEF MemoryTracksDB
<1>8. HandledIsNewer => HandledIsNewer'
  BY <1>1 DEF HandledIsNewer
<1>. QED
  BY <1>2, <1>3, <1>4, <1>5, <1>6, <1>7, <1>8 DEF CInv, DInv

\* An insert that is not an early return: newer bundles only, and the jobs keep theirs.
LEMMA UpdateKeeps ==
    ASSUME IInv, CInv, NEW h \in Hubs, NEW t \in Types, NEW m \in Nat,
           NEW b, b.ver \in BundleVersions, b.dep \in BundleVersions,
           isNewerBundle(h, t, b),
           \/ SyncMode[t] = "complete" /\ updateComplete(h, t, b, m)
           \/ SyncMode[t] # "complete" /\ updateDelta(h, t, b, m),
           job' = JobsAfterUpdate(h, t),
           UNCHANGED <<isInProcess, lastProcessedBundleVersion, processed, dbVars>>
    PROVE  /\ CInv'
           /\ DInv => DInv'
<1>0. /\ bundle \in [Hubs -> [Types -> Bundle \cup {Nil}]]
      /\ lastProcessedBundleVersion \in [Hubs -> [Types -> BundleVersions]]
      /\ stored \in [Hubs -> [Types -> BundleVersions]]
      /\ lastProcessedBundleVersion' = lastProcessedBundleVersion
      /\ stored' = stored /\ applied' = applied /\ processed' = processed
  BY DEF IInv, TypeOK, dbVars
<1>1. /\ lastDispatchedDelta' = lastDispatchedDelta
      /\ \A g \in Hubs, u \in Types : g # h \/ u # t =>
           /\ bundle'[g][u] = bundle[g][u]
           /\ metadata'[g][u] = metadata[g][u]
           /\ lastReceivedTransportMetadata'[g][u] = lastReceivedTransportMetadata[g][u]
  BY UpdateElement
<1>2. /\ bundle'[h][t] # Nil /\ bundle'[h][t].ver = b.ver /\ m \in bundle'[h][t].events
      /\ metadata'[h][t].bundleVersion = b.ver
      /\ SyncMode[t] = "complete" => metadata'[h][t].transportBundleMetadata = m
      /\ SyncMode[t] = "delta" => lastReceivedTransportMetadata'[h][t] = m
  BY InsertElement
<1>3. \A w \in Workers :
        /\ job'[w] = Nil <=> job[w] = Nil
        /\ job[w] # Nil => /\ job'[w].hub = job[w].hub /\ job'[w].type = job[w].type
                           /\ job'[w].bundle = job[w].bundle /\ job'[w].result = job[w].result
                           /\ JobMetadata(w)' = JobMetadata(w)
  BY <1>1, InsertJobs
<1>4. ASSUME NEW g \in Hubs, NEW u \in Types
      PROVE  \/ g = h /\ u = t
             \/ /\ bundle'[g][u] = bundle[g][u]
                /\ metadata'[g][u] = metadata[g][u]
                /\ lastReceivedTransportMetadata'[g][u] = lastReceivedTransportMetadata[g][u]
  BY <1>1
<1>5. \A g \in Hubs, u \in Types : bundle[g][u] # Nil => bundle[g][u].ver \in BundleVersions
  BY <1>0 DEF Bundle
<1>6. ElementIsDescribed'
  BY <1>2, <1>4 DEF CInv, ElementIsDescribed
<1>7. PackIsDescribed'
  BY <1>1, <1>2, <1>4 DEF CInv, PackIsDescribed
<1>8. PendingIsNewer'
  BY <1>0, <1>2, <1>4 DEF CInv, PendingIsNewer, isNewerBundle, CompleteTypes
<1>9. \* a bundle at most as new as the pending one is at most as new as b
      ASSUME NEW v \in BundleVersions, NEW g \in Hubs, NEW u \in Types,
             bundle[g][u] # Nil, ~NewerThan(v, bundle[g][u].ver)
      PROVE  bundle'[g][u] # Nil /\ ~NewerThan(v, bundle'[g][u].ver)
  <2>1. CASE g = h /\ u = t
    <3>1. NewerThan(b.ver, bundle[g][u].ver) /\ bundle[g][u].ver \in BundleVersions
      BY <1>5, <1>9, <2>1 DEF isNewerBundle
    <3>2. ~NewerThan(v, b.ver)
      BY <1>9, <3>1, VersionOrder
    <3>. QED
      BY <1>2, <2>1, <3>2
  <2>. QED
    BY <1>4, <1>9, <2>1
<1>10. JobIsDescribed'
  <2> SUFFICES ASSUME NEW w \in Workers, job'[w] # Nil
               PROVE  (MetadataIsOfJob(w) /\ ResultIsTrue(w) /\ BundleIsDue(w))'
    BY DEF JobIsDescribed
  <2>1. job[w] # Nil /\ MetadataIsOfJob(w) /\ ResultIsTrue(w) /\ BundleIsDue(w)
    BY <1>3 DEF CInv, JobIsDescribed
  <2>2. job[w].hub \in Hubs /\ job[w].type \in Types /\ job[w].bundle.ver \in BundleVersions
    BY <2>1 DEF IInv, TypeOK, DBJob, Bundle
  <2>3. MetadataIsOfJob(w)'
    BY <1>3, <2>1 DEF MetadataIsOfJob
  <2>4. ResultIsTrue(w)'
    BY <1>0, <1>3, <2>1 DEF ResultIsTrue
  <2>5. SyncMode[job[w].type] = "complete" =>
          /\ bundle'[job[w].hub][job[w].type] # Nil
          /\ ~NewerThan(job[w].bundle.ver, bundle'[job[w].hub][job[w].type].ver)
    BY <1>9, <2>1, <2>2 DEF BundleIsDue
  <2>6. BundleIsDue(w)'
    BY <1>0, <1>3, <2>1, <2>5 DEF BundleIsDue, DependencyMet
  <2>. QED
    BY <2>3, <2>4, <2>6
<1>11. MarkedIsApplied'
  BY <1>0 DEF CInv, MarkedIsApplied
<1>12. MemoryTracksDB => MemoryTracksDB'
  BY <1>0, <1>9 DEF MemoryTracksDB, CompleteTypes
<1>13. HandledIsNewer => HandledIsNewer'
  BY <1>0, <1>3 DEF HandledIsNewer
<1>. QED
  BY <1>6, <1>7, <1>8, <1>10, <1>11, <1>12, <1>13 DEF CInv, DInv

\* Insert, whichever transport calls it.
LEMMA InsertKeeps ==
    ASSUME IInv, CInv, NEW h \in Hubs, NEW t \in Types, NEW m \in Nat,
           NEW b, b.ver \in BundleVersions, b.dep \in BundleVersions, Insert(h, t, b, m),
           UNCHANGED <<processed, dbVars>>
    PROVE  /\ CInv'
           /\ DInv => DInv'
<1>1. CASE UNCHANGED <<elementVars, queueVars, job>>
  BY <1>1, QuietKeeps
<1>2. CASE /\ isNewerBundle(h, t, b)
           /\ \/ SyncMode[t] = "complete" /\ updateComplete(h, t, b, m)
              \/ SyncMode[t] # "complete" /\ updateDelta(h, t, b, m)
           /\ job' = JobsAfterUpdate(h, t)
           /\ UNCHANGED <<isInProcess, lastProcessedBundleVersion>>
  BY <1>2, UpdateKeeps
<1>. QED
  BY <1>1, <1>2 DEF Insert

\* What GetNext gives to the worker: the pending bundle, and a pointer to the metadata
\* that getMetadata has just changed to name the last message of a delta pack.
LEMMA GetNextElement ==
    ASSUME IInv, CInv, NEW h \in Hubs, NEW t \in Types, GetNext(h, t)
    PROVE  /\ acquired \in Workers /\ bundle[h][t] # Nil /\ bundle[h][t] \in Bundle
           /\ checkDependency(h, t)
           /\ \A w \in Workers : job[w] # Nil => w # acquired /\ job[w].hub # h
           /\ job' = [job EXCEPT ![acquired] =
                  [hub |-> h, type |-> t, bundle |-> bundle[h][t], shared |-> TRUE,
                   metadata |-> metadata[h][t], result |-> "none"]]
           /\ metadata'[h][t].bundleVersion = bundle[h][t].ver
           /\ metadata'[h][t].transportBundleMetadata \in bundle[h][t].events
           /\ SyncMode[t] = "complete" => bundle'[h][t] = bundle[h][t] /\ metadata'[h][t] = metadata[h][t]
           /\ SyncMode[t] = "delta" =>
                /\ bundle'[h][t] = Nil
                /\ lastDispatchedDelta'[h][t].bundle = bundle[h][t]
                /\ lastReceivedTransportMetadata[h][t] \in bundle[h][t].events
           /\ \A g \in Hubs, u \in Types : g # h \/ u # t =>
                /\ bundle'[g][u] = bundle[g][u]
                /\ metadata'[g][u] = metadata[g][u]
                /\ lastDispatchedDelta'[g][u] = lastDispatchedDelta[g][u]
<1>0. /\ bundle \in [Hubs -> [Types -> Bundle \cup {Nil}]]
      /\ metadata \in [Hubs -> [Types -> BundleMetadata \cup {Nil}]]
      /\ lastDispatchedDelta \in [Hubs -> [Types -> RecoverableDelta \cup {Nil}]]
      /\ SyncMode[t] \in {"complete", "delta"}
  BY RegistrationAssumption DEF IInv, TypeOK
<1>1. /\ acquired \in Workers /\ held = h /\ h # Nil
      /\ bundle[h][t] # Nil /\ bundle[h][t] \in Bundle /\ checkDependency(h, t)
      /\ job' = [job EXCEPT ![acquired] =
             [hub |-> h, type |-> t, bundle |-> bundle[h][t], shared |-> TRUE,
              metadata |-> metadata[h][t], result |-> "none"]]
  BY NilAssumption DEF IInv, TypeOK, GetNext, isNextReady, ReadyTypes
<1>2. \A w \in Workers : job[w] # Nil => w # acquired /\ job[w].hub # h
  <2>1. \A u \in Types : ~isInProcess[h][u]
    BY <1>1 DEF IInv, QueueFlags
  <2>. QED
    BY <1>1, <2>1 DEF IInv, TypeOK, JobFlags, DBJob
<1>3. /\ metadata[h][t].bundleVersion = bundle[h][t].ver
      /\ SyncMode[t] = "complete" => metadata[h][t].transportBundleMetadata \in bundle[h][t].events
      /\ SyncMode[t] = "delta" => lastReceivedTransportMetadata[h][t] \in bundle[h][t].events
  BY <1>1 DEF CInv, ElementIsDescribed
<1>4. CASE SyncMode[t] = "complete"
  <2>1. UNCHANGED <<lastDispatchedDelta, metadata, bundle>>
    BY <1>4 DEF GetNext
  <2>. QED
    BY <1>1, <1>2, <1>3, <1>4, <2>1
<1>5. CASE SyncMode[t] = "delta"
  <2> DEFINE pack == [bundle |-> bundle[h][t],
                      lowestPendingTransportMetadata |-> metadata[h][t].transportBundleMetadata]
             object == WithTransportMetadata(metadata[h][t], lastReceivedTransportMetadata[h][t])
  <2>1. /\ pack.bundle = bundle[h][t]
        /\ object.bundleVersion = bundle[h][t].ver
        /\ object.transportBundleMetadata \in bundle[h][t].events
    BY <1>3, <1>5 DEF WithTransportMetadata
  <2>2. /\ bundle' = [bundle EXCEPT ![h][t] = Nil]
        /\ metadata' = [metadata EXCEPT ![h][t] = object]
        /\ lastDispatchedDelta' = [lastDispatchedDelta EXCEPT ![h][t] = pack]
    BY <1>5 DEF GetNext, getMetadataDelta
  <2> HIDE DEF pack, object
  <2>3. /\ bundle'[h][t] = Nil /\ metadata'[h][t] = object /\ lastDispatchedDelta'[h][t] = pack
        /\ \A g \in Hubs, u \in Types : g # h \/ u # t =>
             /\ bundle'[g][u] = bundle[g][u]
             /\ metadata'[g][u] = metadata[g][u]
             /\ lastDispatchedDelta'[g][u] = lastDispatchedDelta[g][u]
    BY <1>0, <2>2
  <2>. QED
    BY <1>1, <1>2, <1>3, <1>5, <2>1, <2>3
<1>. QED
  BY <1>0, <1>4, <1>5

\* GetNext hands out what the element describes.
LEMMA GetNextKeeps ==
    ASSUME IInv, CInv, NEW h \in Hubs, NEW t \in Types, GetNext(h, t)
    PROVE  /\ CInv'
           /\ DInv => DInv'
<1>0. /\ lastProcessedBundleVersion \in [Hubs -> [Types -> BundleVersions]]
      /\ stored \in [Hubs -> [Types -> BundleVersions]]
      /\ job \in [Workers -> DBJob \cup {Nil}]
      /\ lastProcessedBundleVersion' = lastProcessedBundleVersion
      /\ lastReceivedTransportMetadata' = lastReceivedTransportMetadata
      /\ stored' = stored /\ applied' = applied /\ processed' = processed
      /\ SyncMode[t] \in {"complete", "delta"}
  BY RegistrationAssumption DEF IInv, TypeOK, GetNext, dbVars
<1>1. /\ acquired \in Workers /\ bundle[h][t] # Nil /\ bundle[h][t] \in Bundle
      /\ checkDependency(h, t)
      /\ \A w \in Workers : job[w] # Nil => w # acquired /\ job[w].hub # h
      /\ job' = [job EXCEPT ![acquired] =
             [hub |-> h, type |-> t, bundle |-> bundle[h][t], shared |-> TRUE,
              metadata |-> metadata[h][t], result |-> "none"]]
      /\ metadata'[h][t].bundleVersion = bundle[h][t].ver
      /\ metadata'[h][t].transportBundleMetadata \in bundle[h][t].events
      /\ SyncMode[t] = "complete" => bundle'[h][t] = bundle[h][t] /\ metadata'[h][t] = metadata[h][t]
      /\ SyncMode[t] = "delta" =>
           /\ bundle'[h][t] = Nil
           /\ lastDispatchedDelta'[h][t].bundle = bundle[h][t]
           /\ lastReceivedTransportMetadata[h][t] \in bundle[h][t].events
      /\ \A g \in Hubs, u \in Types : g # h \/ u # t =>
           /\ bundle'[g][u] = bundle[g][u]
           /\ metadata'[g][u] = metadata[g][u]
           /\ lastDispatchedDelta'[g][u] = lastDispatchedDelta[g][u]
  BY GetNextElement
<1>2. bundle[h][t].ver \in BundleVersions
  BY <1>1 DEF Bundle
<1>3. /\ job'[acquired].hub = h /\ job'[acquired].type = t
      /\ job'[acquired].bundle = bundle[h][t] /\ job'[acquired].shared
      /\ job'[acquired].result = "none"
      /\ \A w \in Workers : w # acquired => job'[w] = job[w]
  BY <1>0, <1>1
<1>4. SyncMode[t] = "complete" =>
        NewerThan(bundle[h][t].ver, lastProcessedBundleVersion[h][t])
  BY <1>1 DEF CInv, PendingIsNewer, CompleteTypes
<1>5. ElementIsDescribed'
  <2> SUFFICES ASSUME NEW g \in Hubs, NEW u \in Types, bundle'[g][u] # Nil
               PROVE  /\ metadata'[g][u].bundleVersion = bundle'[g][u].ver
                      /\ SyncMode[u] = "complete" =>
                           metadata'[g][u].transportBundleMetadata \in bundle'[g][u].events
                      /\ SyncMode[u] = "delta" =>
                           lastReceivedTransportMetadata'[g][u] \in bundle'[g][u].events
    BY DEF ElementIsDescribed
  <2>1. bundle'[g][u] = bundle[g][u] /\ metadata'[g][u] = metadata[g][u]
    BY <1>0, <1>1
  <2>. QED
    BY <1>0, <2>1 DEF CInv, ElementIsDescribed
<1>6. PackIsDescribed'
  <2> SUFFICES ASSUME NEW g \in Hubs, NEW u \in Types, SyncMode[u] = "delta",
                      lastDispatchedDelta'[g][u] # Nil, bundle'[g][u] = Nil
               PROVE  /\ metadata'[g][u].bundleVersion = lastDispatchedDelta'[g][u].bundle.ver
                      /\ lastReceivedTransportMetadata'[g][u] \in
                           lastDispatchedDelta'[g][u].bundle.events
    BY DEF PackIsDescribed
  <2>1. CASE g = h /\ u = t
    BY <1>0, <1>1, <2>1
  <2>2. CASE ~(g = h /\ u = t)
    <3>1. /\ bundle'[g][u] = bundle[g][u] /\ metadata'[g][u] = metadata[g][u]
          /\ lastDispatchedDelta'[g][u] = lastDispatchedDelta[g][u]
      BY <1>1, <2>2
    <3>. QED
      BY <1>0, <3>1 DEF CInv, PackIsDescribed
  <2>. QED
    BY <2>1, <2>2
<1>7. \A g \in Hubs, u \in CompleteTypes : bundle'[g][u] = bundle[g][u]
  BY <1>1 DEF CompleteTypes
<1>8. PendingIsNewer'
  BY <1>0, <1>7 DEF CInv, PendingIsNewer
<1>9. JobIsDescribed'
  <2> SUFFICES ASSUME NEW w \in Workers, job'[w] # Nil
               PROVE  (MetadataIsOfJob(w) /\ ResultIsTrue(w) /\ BundleIsDue(w))'
    BY DEF JobIsDescribed
  <2>1. CASE w = acquired
    <3>1. MetadataIsOfJob(w)' /\ ResultIsTrue(w)'
      BY <1>1, <1>3, <2>1 DEF MetadataIsOfJob, JobMetadata, ResultIsTrue
    <3>2. SyncMode[t] = "complete" =>
            /\ NewerThan(bundle[h][t].ver, lastProcessedBundleVersion[h][t])
            /\ bundle'[h][t] # Nil
            /\ ~NewerThan(bundle[h][t].ver, bundle'[h][t].ver)
      BY <1>1, <1>2, <1>4, VersionOrder
    <3>3. Dependency[t] # Nil =>
            DependencyMet(t, bundle[h][t], lastProcessedBundleVersion[h][Dependency[t]])
      BY <1>1 DEF checkDependency
    <3>4. BundleIsDue(w)'
      BY <1>0, <1>3, <2>1, <3>2, <3>3 DEF BundleIsDue, DependencyMet
    <3>. QED
      BY <3>1, <3>4
  <2>2. CASE w # acquired
    <3>1. /\ job'[w] = job[w] /\ job[w] # Nil /\ job[w] \in DBJob
          /\ job[w].hub # h /\ job[w].hub \in Hubs
      BY <1>0, <1>1, <1>3, <2>2 DEF DBJob
    <3>2. \A u \in Types :
            /\ bundle'[job[w].hub][u] = bundle[job[w].hub][u]
            /\ metadata'[job[w].hub][u] = metadata[job[w].hub][u]
            /\ lastProcessedBundleVersion'[job[w].hub][u] =
                 lastProcessedBundleVersion[job[w].hub][u]
            /\ stored'[job[w].hub][u] = stored[job[w].hub][u]
      BY <1>0, <1>1, <3>1
    <3>. QED
      BY <1>0, <3>1, <3>2, JobUntouched DEF CInv
  <2>. QED
    BY <2>1, <2>2
<1>10. MarkedIsApplied'
  BY <1>0 DEF CInv, MarkedIsApplied
<1>11. MemoryTracksDB => MemoryTracksDB'
  BY <1>0, <1>7 DEF MemoryTracksDB
<1>12. ASSUME DInv PROVE HandledIsNewer'
  <2> SUFFICES ASSUME NEW w \in Workers, job'[w] # Nil, job'[w].result = "none",
                      SyncMode[job'[w].type] = "complete"
               PROVE  ~NewerThan(stored'[job'[w].hub][job'[w].type], job'[w].bundle.ver)
    BY DEF HandledIsNewer
  <2>1. CASE w = acquired
    <3>1. SyncMode[t] = "complete" /\ stored[h][t] \in BundleVersions
          /\ lastProcessedBundleVersion[h][t] \in BundleVersions
      BY <1>0, <1>3, <2>1
    <3>2. \/ ~NewerThan(stored[h][t], lastProcessedBundleVersion[h][t])
          \/ ~NewerThan(stored[h][t], bundle[h][t].ver)
      BY <1>12, <3>1 DEF DInv, MemoryTracksDB, CompleteTypes
    <3>3. ~NewerThan(stored[h][t], bundle[h][t].ver)
      BY <1>2, <1>4, <3>1, <3>2, VersionOrder
    <3>. QED
      BY <1>0, <1>3, <2>1, <3>3
  <2>2. CASE w # acquired
    BY <1>0, <1>3, <1>12, <2>2 DEF DInv, HandledIsNewer
  <2>. QED
    BY <2>1, <2>2
<1>. QED
  BY <1>5, <1>6, <1>8, <1>9, <1>10, <1>11, <1>12 DEF CInv, DInv

\* The handler function writes what the job describes, and only to its own unit's rows.
LEMMA RunHandlerKeeps ==
    ASSUME IInv, CInv, NEW w \in Workers, NEW result \in {"success", "error"},
           RunHandler(w, result)
    PROVE  /\ CInv'
           /\ DInv => DInv' /\ \A g \in Hubs, u \in CompleteTypes :
                                  ~NewerThan(stored[g][u], stored'[g][u])
<1>0. /\ stored \in [Hubs -> [Types -> BundleVersions]]
      /\ lastProcessedBundleVersion \in [Hubs -> [Types -> BundleVersions]]
      /\ bundle' = bundle /\ metadata' = metadata /\ processed' = processed
      /\ lastProcessedBundleVersion' = lastProcessedBundleVersion
      /\ lastDispatchedDelta' = lastDispatchedDelta
      /\ lastReceivedTransportMetadata' = lastReceivedTransportMetadata
  BY DEF IInv, TypeOK, RunHandler, elementVars
<1> DEFINE h == job[w].hub
           t == job[w].type
           ver == job[w].bundle.ver
<1>1. /\ job[w] # Nil /\ job[w] \in DBJob /\ job[w].result = "none"
      /\ h \in Hubs /\ t \in Types /\ ver \in BundleVersions
      /\ MetadataIsOfJob(w) /\ BundleIsDue(w)
  BY DEF CInv, JobIsDescribed, IInv, TypeOK, RunHandler, DBJob, Bundle
<1>2. /\ job'[w] = [job[w] EXCEPT !.result = result]
      /\ \A v \in Workers : v # w => job'[v] = job[v]
  BY DEF IInv, TypeOK, RunHandler
<1>3. /\ job'[w].hub = h /\ job'[w].type = t /\ job'[w].bundle = job[w].bundle
      /\ job'[w].shared = job[w].shared /\ job'[w].metadata = job[w].metadata
      /\ job'[w].result = result
  BY <1>1, <1>2 DEF DBJob
<1>4. \/ /\ stored' = [stored EXCEPT ![h][t] = ver]
         /\ applied' = applied \cup job[w].bundle.events
      \/ result = "error" /\ stored' = stored /\ applied' = applied
  BY DEF RunHandler, dbVars
<1>5. \A v \in Workers : v # w /\ job[v] # Nil => job[v].hub \in Hubs /\ job[v].hub # h
  BY <1>1 DEF IInv, TypeOK, JobFlags, DBJob
<1> HIDE DEF h, t, ver
<1>6. /\ applied \subseteq applied'
      /\ result = "success" => stored'[h][t] = ver /\ job[w].bundle.events \subseteq applied'
      /\ \A g \in Hubs, u \in Types :
           \/ stored'[g][u] = stored[g][u]
           \/ g = h /\ u = t /\ stored'[g][u] = ver
  BY <1>0, <1>1, <1>4
<1>7. ElementIsDescribed' /\ PackIsDescribed' /\ PendingIsNewer'
  BY <1>0 DEF CInv, ElementIsDescribed, PackIsDescribed, PendingIsNewer
<1>8. JobIsDescribed'
  <2> SUFFICES ASSUME NEW v \in Workers, job'[v] # Nil
               PROVE  (MetadataIsOfJob(v) /\ ResultIsTrue(v) /\ BundleIsDue(v))'
    BY DEF JobIsDescribed
  <2>1. CASE v = w
    <3>1. MetadataIsOfJob(w)'
      BY <1>0, <1>1, <1>3 DEF MetadataIsOfJob, JobMetadata, h, t
    <3>2. ResultIsTrue(w)'
      BY <1>3, <1>6 DEF ResultIsTrue, ver
    <3>3. BundleIsDue(w)'
      BY <1>0, <1>1, <1>3 DEF BundleIsDue, DependencyMet, h, t
    <3>. QED
      BY <2>1, <3>1, <3>2, <3>3
  <2>2. CASE v # w
    <3>1. job'[v] = job[v] /\ job[v] # Nil /\ job[v] \in DBJob
      BY <1>2, <2>2 DEF IInv, TypeOK
    <3>2. job[v].hub \in Hubs /\ job[v].hub # h
      BY <1>5, <2>2, <3>1
    <3>3. \A u \in Types : stored'[job[v].hub][u] = stored[job[v].hub][u]
      BY <1>6, <3>2
    <3>. QED
      BY <1>0, <1>6, <3>1, <3>3, JobUntouched DEF CInv
  <2>. QED
    BY <2>1, <2>2
<1>9. MarkedIsApplied'
  BY <1>0, <1>6 DEF CInv, MarkedIsApplied
<1>10. ASSUME DInv
       PROVE  DInv' /\ \A g \in Hubs, u \in CompleteTypes : ~NewerThan(stored[g][u], stored'[g][u])
  <2>1. SyncMode[t] = "complete" =>
          /\ ~NewerThan(lastProcessedBundleVersion[h][t], ver)
          /\ bundle[h][t] # Nil /\ ~NewerThan(ver, bundle[h][t].ver)
          /\ ~NewerThan(stored[h][t], ver)
    <3>1. SyncMode[t] = "complete" =>
            /\ NewerThan(ver, lastProcessedBundleVersion[h][t])
            /\ bundle[h][t] # Nil /\ ~NewerThan(ver, bundle[h][t].ver)
      BY <1>1 DEF BundleIsDue, h, t, ver
    <3>2. SyncMode[t] = "complete" => ~NewerThan(stored[h][t], ver)
      BY <1>1, <1>10 DEF DInv, HandledIsNewer, h, t, ver
    <3>3. lastProcessedBundleVersion[h][t] \in BundleVersions
      BY <1>0, <1>1
    <3>. QED
      BY <1>1, <3>1, <3>2, <3>3, VersionOrder
  <2>2. MemoryTracksDB'
    <3> SUFFICES ASSUME NEW g \in Hubs, NEW u \in CompleteTypes
                 PROVE  /\ ~NewerThan(lastProcessedBundleVersion'[g][u], stored'[g][u])
                        /\ NewerThan(stored'[g][u], lastProcessedBundleVersion'[g][u]) =>
                             bundle'[g][u] # Nil /\ ~NewerThan(stored'[g][u], bundle'[g][u].ver)
      BY DEF MemoryTracksDB
    <3>1. u \in Types /\ SyncMode[u] = "complete"
      BY DEF CompleteTypes
    <3>2. CASE stored'[g][u] = stored[g][u]
      BY <1>0, <1>10, <3>2 DEF DInv, MemoryTracksDB
    <3>3. CASE g = h /\ u = t /\ stored'[g][u] = ver
      BY <1>0, <2>1, <3>1, <3>3
    <3>. QED
      BY <1>6, <3>1, <3>2, <3>3
  <2>3. HandledIsNewer'
    <3> SUFFICES ASSUME NEW v \in Workers, job'[v] # Nil, job'[v].result = "none",
                        SyncMode[job'[v].type] = "complete"
                 PROVE  ~NewerThan(stored'[job'[v].hub][job'[v].type], job'[v].bundle.ver)
      BY DEF HandledIsNewer
    <3>1. v # w
      BY <1>3
    <3>2. job'[v] = job[v] /\ job[v] # Nil /\ job[v].type \in Types
      BY <1>2, <3>1 DEF IInv, TypeOK, DBJob
    <3>3. stored'[job[v].hub][job[v].type] = stored[job[v].hub][job[v].type]
      BY <1>5, <1>6, <3>1, <3>2
    <3>. QED
      BY <1>10, <3>2, <3>3 DEF DInv, HandledIsNewer
  <2>4. ASSUME NEW g \in Hubs, NEW u \in CompleteTypes
        PROVE  ~NewerThan(stored[g][u], stored'[g][u])
    <3>1. u \in Types /\ SyncMode[u] = "complete" /\ stored[g][u] \in BundleVersions
      BY <1>0 DEF CompleteTypes
    <3>2. CASE stored'[g][u] = stored[g][u]
      BY <3>1, <3>2, VersionOrder
    <3>3. CASE g = h /\ u = t /\ stored'[g][u] = ver
      BY <2>1, <3>1, <3>3
    <3>. QED
      BY <1>6, <3>1, <3>2, <3>3
  <2>. QED
    BY <2>2, <2>3, <2>4 DEF DInv
<1>. QED
  BY <1>7, <1>8, <1>9, <1>10 DEF CInv

\* A successful report remembers the version the worker handled, not the element's, and
\* releases a complete-state bundle only if it is that one.
LEMMA SuccessElement ==
    ASSUME IInv, CInv, NEW w \in Workers, NEW h \in Hubs, NEW t \in Types,
           ReportResult(w, h, t), job[w].result = "success"
    PROVE  LET ver == job[w].bundle.ver
           IN  /\ lastProcessedBundleVersion'[h][t] =
                    (IF NewerThan(ver, lastProcessedBundleVersion[h][t])
                       THEN ver ELSE lastProcessedBundleVersion[h][t])
               /\ processed' \subseteq applied
               /\ metadata' = metadata
               /\ SyncMode[t] = "complete" =>
                    /\ lastProcessedBundleVersion'[h][t] = ver
                    /\ bundle'[h][t] # Nil =>
                         bundle'[h][t] = bundle[h][t] /\ NewerThan(bundle[h][t].ver, ver)
               /\ SyncMode[t] = "delta" =>
                    bundle' = bundle /\ lastDispatchedDelta'[h][t] = Nil
<1> DEFINE ver == job[w].bundle.ver
           md == JobMetadata(w)
<1>0. /\ bundle \in [Hubs -> [Types -> Bundle \cup {Nil}]]
      /\ lastProcessedBundleVersion \in [Hubs -> [Types -> BundleVersions]]
      /\ lastDispatchedDelta \in [Hubs -> [Types -> RecoverableDelta \cup {Nil}]]
  BY DEF IInv, TypeOK
<1>1. /\ job[w] # Nil /\ job[w].hub = h /\ job[w].type = t /\ job[w] \in DBJob
      /\ reportSuccess(h, t, md)
  BY DEF ReportResult, IInv, TypeOK
<1>2. /\ md.bundleVersion = ver /\ md.transportBundleMetadata \in job[w].bundle.events
      /\ job[w].bundle.events \subseteq applied
      /\ BundleIsDue(w) /\ processed \subseteq applied /\ ver \in BundleVersions
  BY <1>1 DEF CInv, JobIsDescribed, MetadataIsOfJob, ResultIsTrue, MarkedIsApplied, DBJob, Bundle
<1>3. /\ lastProcessedBundleVersion' = [lastProcessedBundleVersion EXCEPT ![h][t] =
              IF NewerThan(md.bundleVersion, @) THEN md.bundleVersion ELSE @]
      /\ processed' = processed \cup {md.transportBundleMetadata}
      /\ metadata' = metadata
      /\ SyncMode[t] = "complete" =>
           bundle' = IF Equals(md.bundleVersion, metadata[h][t].bundleVersion)
                       THEN [bundle EXCEPT ![h][t] = Nil] ELSE bundle
      /\ SyncMode[t] = "delta" =>
           /\ bundle' = bundle
           /\ lastDispatchedDelta' = [lastDispatchedDelta EXCEPT ![h][t] = Nil]
  BY <1>1 DEF reportSuccess, releaseBundle
<1>4. SyncMode[t] = "complete" =>
        /\ NewerThan(ver, lastProcessedBundleVersion[h][t])
        /\ bundle[h][t] # Nil /\ ~NewerThan(ver, bundle[h][t].ver)
        /\ metadata[h][t].bundleVersion = bundle[h][t].ver
        /\ bundle[h][t].ver \in BundleVersions
  BY <1>0, <1>1, <1>2 DEF BundleIsDue, CInv, ElementIsDescribed, Bundle
<1> HIDE DEF ver, md
<1>5. /\ lastProcessedBundleVersion'[h][t] =
           (IF NewerThan(ver, lastProcessedBundleVersion[h][t])
              THEN ver ELSE lastProcessedBundleVersion[h][t])
      /\ processed' \subseteq applied
      /\ metadata' = metadata
  BY <1>0, <1>2, <1>3
<1>6. ASSUME SyncMode[t] = "complete"
      PROVE  /\ lastProcessedBundleVersion'[h][t] = ver
             /\ bundle'[h][t] # Nil =>
                  bundle'[h][t] = bundle[h][t] /\ NewerThan(bundle[h][t].ver, ver)
  <2>1. CASE Equals(ver, bundle[h][t].ver)
    BY <1>0, <1>2, <1>3, <1>4, <1>5, <1>6, <2>1
  <2>2. CASE ~Equals(ver, bundle[h][t].ver)
    <3>1. bundle' = bundle
      BY <1>2, <1>3, <1>4, <1>6, <2>2
    <3>2. NewerThan(bundle[h][t].ver, ver)
      BY <1>2, <1>4, <1>6, <2>2, VersionOrder
    <3>. QED
      BY <1>4, <1>5, <1>6, <3>1, <3>2
  <2>. QED
    BY <2>1, <2>2
<1>7. SyncMode[t] = "delta" => bundle' = bundle /\ lastDispatchedDelta'[h][t] = Nil
  BY <1>0, <1>3
<1>. QED
  BY <1>5, <1>6, <1>7 DEF ver

\* A failed report leaves a complete-state element alone; a delta pack goes back into the
\* element, which is described as before.
LEMMA ErrorElement ==
    ASSUME IInv, CInv, NEW w \in Workers, NEW h \in Hubs, NEW t \in Types,
           ReportResult(w, h, t), job[w].result # "success"
    PROVE  /\ lastProcessedBundleVersion' = lastProcessedBundleVersion
           /\ processed' = processed
           /\ SyncMode[t] = "complete" => bundle' = bundle /\ metadata' = metadata
           /\ SyncMode[t] = "delta" =>
                /\ lastDispatchedDelta'[h][t] = Nil
                /\ bundle'[h][t] # Nil =>
                     /\ metadata'[h][t].bundleVersion = bundle'[h][t].ver
                     /\ lastReceivedTransportMetadata[h][t] \in bundle'[h][t].events
<1> DEFINE md == JobMetadata(w)
<1>0. /\ bundle \in [Hubs -> [Types -> Bundle \cup {Nil}]]
      /\ metadata \in [Hubs -> [Types -> BundleMetadata \cup {Nil}]]
      /\ lastDispatchedDelta \in [Hubs -> [Types -> RecoverableDelta \cup {Nil}]]
      /\ SyncMode[t] \in {"complete", "delta"}
  BY RegistrationAssumption DEF IInv, TypeOK
<1>1. reportError(h, t, md)
  BY DEF ReportResult
<1>2. lastProcessedBundleVersion' = lastProcessedBundleVersion /\ processed' = processed
  BY <1>1 DEF reportError
<1>3. CASE SyncMode[t] = "complete"
  BY <1>1, <1>2, <1>3 DEF reportError
<1>4. CASE SyncMode[t] = "delta"
  <2> DEFINE last == lastDispatchedDelta[h][t]
             restored == IF bundle[h][t] = Nil
                           THEN last.bundle ELSE InheritEvents(bundle[h][t], last.bundle)
             object == WithTransportMetadata(metadata[h][t], last.lowestPendingTransportMetadata)
  <2>1. last # Nil /\ last.bundle \in Bundle
    BY <1>4 DEF IInv, TypeOK, JobFlags, ReportResult, RecoverableDelta
  <2>2. /\ bundle[h][t] # Nil =>
             /\ metadata[h][t].bundleVersion = bundle[h][t].ver
             /\ lastReceivedTransportMetadata[h][t] \in bundle[h][t].events
        /\ bundle[h][t] = Nil =>
             /\ metadata[h][t].bundleVersion = last.bundle.ver
             /\ lastReceivedTransportMetadata[h][t] \in last.bundle.events
    BY <1>4, <2>1 DEF CInv, ElementIsDescribed, PackIsDescribed
  <2>3. /\ object.bundleVersion = restored.ver
        /\ lastReceivedTransportMetadata[h][t] \in restored.events
    <3>1. object.bundleVersion = metadata[h][t].bundleVersion
      BY DEF WithTransportMetadata
    <3>2. CASE bundle[h][t] = Nil
      BY <2>2, <3>1, <3>2
    <3>3. CASE bundle[h][t] # Nil
      <4>1. /\ InheritEvents(bundle[h][t], last.bundle).ver = bundle[h][t].ver
            /\ bundle[h][t].events \subseteq InheritEvents(bundle[h][t], last.bundle).events
        BY DEF InheritEvents
      <4>. QED
        BY <2>2, <3>1, <3>3, <4>1
    <3>. QED
      BY <3>2, <3>3
  <2>4. /\ lastDispatchedDelta' = [lastDispatchedDelta EXCEPT ![h][t] = Nil]
        /\ \/ UNCHANGED <<bundle, metadata>>
           \/ /\ bundle' = [bundle EXCEPT ![h][t] = restored]
              /\ metadata' = [metadata EXCEPT ![h][t] = object]
    BY <1>1, <1>4 DEF reportError, handleFailure
  <2> HIDE DEF last, restored, object
  <2>5. /\ lastDispatchedDelta'[h][t] = Nil
        /\ \/ bundle'[h][t] = bundle[h][t] /\ metadata'[h][t] = metadata[h][t]
           \/ bundle'[h][t] = restored /\ metadata'[h][t] = object
    BY <1>0, <2>4
  <2>. QED
    BY <1>2, <1>4, <2>2, <2>3, <2>5
<1>. QED
  BY <1>0, <1>3, <1>4

\* ReportResult, whatever the result.
LEMMA ReportResultKeeps ==
    ASSUME IInv, CInv, NEW w \in Workers, NEW h \in Hubs, NEW t \in Types,
           ReportResult(w, h, t)
    PROVE  /\ CInv'
           /\ DInv => DInv'
<1> DEFINE ver == job[w].bundle.ver
           succeeded == job[w].result = "success"
<1>0. /\ bundle \in [Hubs -> [Types -> Bundle \cup {Nil}]]
      /\ lastProcessedBundleVersion \in [Hubs -> [Types -> BundleVersions]]
      /\ stored \in [Hubs -> [Types -> BundleVersions]]
      /\ lastReceivedTransportMetadata' = lastReceivedTransportMetadata
      /\ stored' = stored /\ applied' = applied
      /\ SyncMode[t] \in {"complete", "delta"}
      /\ job[w] # Nil /\ job[w].hub = h /\ job[w].type = t
      /\ job' = [job EXCEPT ![w] = Nil] /\ job \in [Workers -> DBJob \cup {Nil}]
  BY RegistrationAssumption DEF IInv, TypeOK, ReportResult, dbVars
<1>1. \A g \in Hubs, u \in Types : g # h \/ u # t =>
        /\ bundle'[g][u] = bundle[g][u]
        /\ metadata'[g][u] = metadata[g][u]
        /\ lastDispatchedDelta'[g][u] = lastDispatchedDelta[g][u]
        /\ lastProcessedBundleVersion'[g][u] = lastProcessedBundleVersion[g][u]
  BY ReportElement
<1>2. succeeded =>
        /\ processed' \subseteq applied /\ metadata' = metadata
        /\ SyncMode[t] = "complete" =>
             /\ lastProcessedBundleVersion'[h][t] = ver
             /\ bundle'[h][t] # Nil =>
                  bundle'[h][t] = bundle[h][t] /\ NewerThan(bundle[h][t].ver, ver)
        /\ SyncMode[t] = "delta" =>
             bundle' = bundle /\ lastDispatchedDelta'[h][t] = Nil
  BY SuccessElement
<1>3. ~succeeded =>
        /\ lastProcessedBundleVersion' = lastProcessedBundleVersion
        /\ processed' = processed
        /\ SyncMode[t] = "complete" => bundle' = bundle /\ metadata' = metadata
        /\ SyncMode[t] = "delta" =>
             /\ lastDispatchedDelta'[h][t] = Nil
             /\ bundle'[h][t] # Nil =>
                  /\ metadata'[h][t].bundleVersion = bundle'[h][t].ver
                  /\ lastReceivedTransportMetadata[h][t] \in bundle'[h][t].events
  BY ErrorElement
<1>4. succeeded => stored[h][t] = ver
  BY <1>0 DEF CInv, JobIsDescribed, ResultIsTrue
<1>5. \A v \in Workers : job'[v] # Nil =>
        /\ v # w /\ job'[v] = job[v] /\ job[v] \in DBJob
        /\ job[v].hub \in Hubs /\ job[v].type \in Types /\ job[v].hub # h
  BY <1>0 DEF IInv, JobFlags, DBJob
<1> HIDE DEF ver, succeeded
<1>6. ElementIsDescribed'
  <2> SUFFICES ASSUME NEW g \in Hubs, NEW u \in Types, bundle'[g][u] # Nil
               PROVE  /\ metadata'[g][u].bundleVersion = bundle'[g][u].ver
                      /\ SyncMode[u] = "complete" =>
                           metadata'[g][u].transportBundleMetadata \in bundle'[g][u].events
                      /\ SyncMode[u] = "delta" =>
                           lastReceivedTransportMetadata'[g][u] \in bundle'[g][u].events
    BY DEF ElementIsDescribed
  <2>1. CASE bundle'[g][u] = bundle[g][u] /\ metadata'[g][u] = metadata[g][u]
    BY <1>0, <2>1 DEF CInv, ElementIsDescribed
  <2>2. CASE g = h /\ u = t /\ SyncMode[t] = "delta" /\ ~succeeded
    BY <1>0, <1>3, <2>2
  <2>. QED
    BY <1>0, <1>1, <1>2, <1>3, <2>1, <2>2
<1>7. PackIsDescribed'
  <2> SUFFICES ASSUME NEW g \in Hubs, NEW u \in Types, SyncMode[u] = "delta",
                      lastDispatchedDelta'[g][u] # Nil, bundle'[g][u] = Nil
               PROVE  /\ metadata'[g][u].bundleVersion = lastDispatchedDelta'[g][u].bundle.ver
                      /\ lastReceivedTransportMetadata'[g][u] \in
                           lastDispatchedDelta'[g][u].bundle.events
    BY DEF PackIsDescribed
  <2>1. ~(g = h /\ u = t)
    BY <1>2, <1>3
  <2>2. /\ bundle'[g][u] = bundle[g][u] /\ metadata'[g][u] = metadata[g][u]
        /\ lastDispatchedDelta'[g][u] = lastDispatchedDelta[g][u]
    BY <1>1, <2>1
  <2>. QED
    BY <1>0, <2>2 DEF CInv, PackIsDescribed
<1>8. PendingIsNewer'
  <2> SUFFICES ASSUME NEW g \in Hubs, NEW u \in CompleteTypes, bundle'[g][u] # Nil
               PROVE  NewerThan(bundle'[g][u].ver, lastProcessedBundleVersion'[g][u])
    BY DEF PendingIsNewer
  <2>1. u \in Types /\ SyncMode[u] = "complete"
    BY DEF CompleteTypes
  <2>2. CASE g = h /\ u = t /\ succeeded
    BY <1>2, <2>1, <2>2
  <2>3. CASE ~(g = h /\ u = t /\ succeeded)
    <3>1. /\ bundle'[g][u] = bundle[g][u]
          /\ lastProcessedBundleVersion'[g][u] = lastProcessedBundleVersion[g][u]
      BY <1>1, <1>3, <2>1, <2>3
    <3>. QED
      BY <3>1 DEF CInv, PendingIsNewer
  <2>. QED
    BY <2>2, <2>3
<1>9. JobIsDescribed'
  <2> SUFFICES ASSUME NEW v \in Workers, job'[v] # Nil
               PROVE  (MetadataIsOfJob(v) /\ ResultIsTrue(v) /\ BundleIsDue(v))'
    BY DEF JobIsDescribed
  <2>1. /\ job'[v] = job[v] /\ job[v] # Nil /\ job[v] \in DBJob
        /\ job[v].hub \in Hubs /\ job[v].hub # h
    BY <1>5
  <2>2. \A u \in Types :
          /\ bundle'[job[v].hub][u] = bundle[job[v].hub][u]
          /\ metadata'[job[v].hub][u] = metadata[job[v].hub][u]
          /\ lastProcessedBundleVersion'[job[v].hub][u] =
               lastProcessedBundleVersion[job[v].hub][u]
          /\ stored'[job[v].hub][u] = stored[job[v].hub][u]
    BY <1>0, <1>1, <2>1
  <2>. QED
    BY <1>0, <2>1, <2>2, JobUntouched DEF CInv
<1>10. MarkedIsApplied'
  BY <1>0, <1>2, <1>3 DEF CInv, MarkedIsApplied
<1>11. ASSUME DInv PROVE MemoryTracksDB'
  <2> SUFFICES ASSUME NEW g \in Hubs, NEW u \in CompleteTypes
               PROVE  /\ ~NewerThan(lastProcessedBundleVersion'[g][u], stored'[g][u])
                      /\ NewerThan(stored'[g][u], lastProcessedBundleVersion'[g][u]) =>
                           bundle'[g][u] # Nil /\ ~NewerThan(stored'[g][u], bundle'[g][u].ver)
    BY DEF MemoryTracksDB
  <2>1. u \in Types /\ SyncMode[u] = "complete"
    BY DEF CompleteTypes
  <2>2. CASE g = h /\ u = t /\ succeeded
    <3>1. stored'[g][u] = ver /\ lastProcessedBundleVersion'[g][u] = ver
          /\ ver \in BundleVersions
      BY <1>0, <1>2, <1>4, <2>1, <2>2
    <3>. QED
      BY <3>1, VersionOrder
  <2>3. CASE ~(g = h /\ u = t /\ succeeded)
    <3>1. /\ bundle'[g][u] = bundle[g][u] /\ stored'[g][u] = stored[g][u]
          /\ lastProcessedBundleVersion'[g][u] = lastProcessedBundleVersion[g][u]
      BY <1>0, <1>1, <1>3, <2>1, <2>3
    <3>. QED
      BY <1>11, <3>1 DEF DInv, MemoryTracksDB
  <2>. QED
    BY <2>2, <2>3
<1>12. HandledIsNewer => HandledIsNewer'
  BY <1>0, <1>5 DEF HandledIsNewer
<1>. QED
  BY <1>6, <1>7, <1>8, <1>9, <1>10, <1>11, <1>12 DEF CInv, DInv

\* Newly made units satisfy both invariants.
LEMMA InitKeeps == Init => CInv /\ DInv
<1> SUFFICES ASSUME Init PROVE CInv /\ DInv
  OBVIOUS
<1>1. /\ \A h \in Hubs, t \in Types :
           /\ bundle[h][t] = Nil /\ lastDispatchedDelta[h][t] = Nil
           /\ lastProcessedBundleVersion[h][t] = noBundleVersion
           /\ stored[h][t] = noBundleVersion
      /\ \A w \in Workers : job[w] = Nil
      /\ processed = {}
  BY DEF Init, EveryElement
<1>2. noBundleVersion \in BundleVersions
  BY DEF noBundleVersion, NewBundleVersion, BundleVersions
<1>3. CInv
  BY <1>1 DEF CInv, ElementIsDescribed, PackIsDescribed, PendingIsNewer, JobIsDescribed,
              MarkedIsApplied, CompleteTypes
<1>4. DInv
  BY <1>1, <1>2, VersionOrder DEF DInv, MemoryTracksDB, HandledIsNewer, CompleteTypes
<1>. QED
  BY <1>3, <1>4

\* Every step keeps CInv, and DInv with it; the database never goes back.
LEMMA NextKeeps ==
    ASSUME IInv, CInv, [Next]_vars
    PROVE  /\ CInv'
           /\ DInv => DInv' /\ \A g \in Hubs, u \in CompleteTypes :
                                  ~NewerThan(stored[g][u], stored'[g][u])
<1>0. ASSUME UNCHANGED stored
      PROVE  \A g \in Hubs, u \in CompleteTypes : ~NewerThan(stored[g][u], stored'[g][u])
  BY <1>0, VersionOrder DEF IInv, TypeOK, CompleteTypes
<1>1. CASE UNCHANGED vars
  BY <1>0, <1>1, QuietKeeps DEF vars, dbVars
<1>2. ASSUME NEW h \in Hubs, NEW t \in Types, NEW b \in Deliverable[t], Receive(h, t, b)
      PROVE  CInv' /\ (DInv => DInv') /\ UNCHANGED stored
  <2>1. /\ b.ver \in BundleVersions /\ b.dep \in BundleVersions /\ received + 1 \in Nat
        /\ Insert(h, t, b, received + 1) /\ UNCHANGED <<processed, dbVars>>
    BY <1>2, DeliveryAssumption DEF IInv, TypeOK, Receive
  <2>. QED
    BY <2>1, InsertKeeps DEF dbVars
<1>3. CASE BlockingDequeue \/ Acquire \/ GetNextFails
  BY <1>0, <1>3, QuietKeeps DEF BlockingDequeue, Acquire, GetNextFails, dbVars
<1>4. ASSUME NEW h \in Hubs, NEW t \in Types, GetNext(h, t)
      PROVE  CInv' /\ (DInv => DInv') /\ UNCHANGED stored
  BY <1>4, GetNextKeeps DEF GetNext, dbVars
<1>5. CASE \E w \in Workers : \E result \in {"success", "error"} : RunHandler(w, result)
  BY <1>5, RunHandlerKeeps
<1>6. ASSUME NEW w \in Workers, NEW h \in Hubs, NEW t \in Types, ReportResult(w, h, t)
      PROVE  CInv' /\ (DInv => DInv') /\ UNCHANGED stored
  BY <1>6, ReportResultKeeps DEF ReportResult, dbVars
<1>. QED
  BY <1>0, <1>1, <1>2, <1>3, <1>4, <1>5, <1>6 DEF Next, Dispatch, Work

\* The invariants hold in every reachable state.
LEMMA DescribedIsInvariant == Spec => [](IInv /\ CInv /\ DInv)
<1>1. Init => IInv /\ CInv /\ DInv
  BY InitIInv, InitKeeps
<1>2. IInv /\ CInv /\ DInv /\ [Next]_vars => (IInv /\ CInv /\ DInv)'
  BY NextIInv, NextKeeps
<1>. QED
  BY <1>1, <1>2, PTL DEF Spec

------------------------------------------------------------------------------
(* What the units remember, and what the database holds *)

\* For every registration, transport and number of workers: the unit never counts as
\* processed what the database does not hold, and what a failed handler has written is
\* still to be processed.
THEOREM MemoryFollowsDatabase == Spec => []MemoryTracksDB
<1>1. DInv => MemoryTracksDB
  BY DEF DInv
<1>. QED
  BY <1>1, DescribedIsInvariant, PTL

\* Transport metadata is marked as processed only after the content of its message was
\* written, although the worker holds a pointer to an object that newer bundles share.
THEOREM MarkedAfterWritten == Spec => []MarkedIsApplied
<1>1. CInv => MarkedIsApplied
  BY DEF CInv
<1>. QED
  BY <1>1, DescribedIsInvariant, PTL

\* The database holds the base of the bundle that a worker handles: the one processed
\* last, by BundleIsDue, and memory tracks the database.
LEMMA DueHasBase == IInv /\ CInv /\ DInv => DependencyHeld
<1> SUFFICES ASSUME IInv, CInv, DInv, NEW w \in Workers, job[w] # Nil,
                    Dependency[job[w].type] # Nil, DependencyType[job[w].type] = "ExactMatch"
             PROVE  LET h == job[w].hub
                        u == Dependency[job[w].type]
                    IN  \/ Equals(stored[h][u], job[w].bundle.dep)
                        \/ /\ ~RequireInitialDependencyChecks
                           /\ Equals(lastProcessedBundleVersion[h][u], noBundleVersion)
                        \/ /\ Equals(lastProcessedBundleVersion[h][u], job[w].bundle.dep)
                           /\ NewerThan(stored[h][u], job[w].bundle.dep)
                           /\ bundle[h][u] # Nil
  BY DEF DependencyHeld
<1> DEFINE h == job[w].hub
           u == Dependency[job[w].type]
           dep == job[w].bundle.dep
           last == lastProcessedBundleVersion[h][u]
<1>1. /\ h \in Hubs /\ job[w].type \in Types /\ u \in CompleteTypes /\ u \in Types
      /\ dep \in BundleVersions /\ last \in BundleVersions /\ stored[h][u] \in BundleVersions
  <2>1. h \in Hubs /\ job[w].type \in Types /\ dep \in BundleVersions
    BY DEF IInv, TypeOK, DBJob, Bundle
  <2>2. u \in Types /\ SyncMode[u] = "complete"
    BY <2>1, RegistrationAssumption, BasesAssumption
  <2>. QED
    BY <2>1, <2>2 DEF IInv, TypeOK, CompleteTypes
<1>2. DependencyMet(job[w].type, job[w].bundle, last)
  BY DEF CInv, JobIsDescribed, BundleIsDue
<1>3. \/ ~RequireInitialDependencyChecks /\ Equals(last, noBundleVersion)
      \/ Equals(dep, last)
  BY <1>2 DEF DependencyMet
<1>4. /\ ~NewerThan(last, stored[h][u])
      /\ NewerThan(stored[h][u], last) => bundle[h][u] # Nil
  BY <1>1 DEF DInv, MemoryTracksDB
<1>5. CASE Equals(dep, last)
  <2>1. dep = last /\ Equals(last, dep)
    BY <1>1, <1>5, VersionOrder
  <2>2. NewerThan(stored[h][u], last) \/ Equals(stored[h][u], dep)
    <3> HIDE DEF h, u, dep, last
    <3>. QED
      BY <1>1, <1>4, <2>1, VersionOrder
  <2>. QED
    BY <1>4, <2>1, <2>2
<1>. QED
  BY <1>3, <1>5

\* No handler works on a base that the database does not hold, up to the two exceptions
\* that DependencyHeld names, for every dependency between registered types.
THEOREM BaseIsHeld == Spec => []DependencyHeld
BY DescribedIsInvariant, DueHasBase, PTL

\* Whatever is delivered late, twice or out of order, the version of a complete-state
\* type in the database never goes back.
THEOREM DatabaseNeverRegresses == Spec => StoredNeverRegresses
<1>1. IInv /\ CInv /\ DInv /\ [Next]_vars =>
        [\A h \in Hubs, t \in CompleteTypes : ~NewerThan(stored[h][t], stored'[h][t])]_vars
  BY NextKeeps
<1>. QED
  BY <1>1, DescribedIsInvariant, PTL DEF Spec, StoredNeverRegresses

------------------------------------------------------------------------------
(* The conflation layer implements HandlerContract *)

\* The bundle of worker w as the contract sees it.
HandledBy(w) ==
    [type |-> job[w].type, ver |-> job[w].bundle.ver, dep |-> job[w].bundle.dep,
     result |-> job[w].result]

\* A unit has one job at most, so the worker chosen for it is the only one; jobs is the
\* value of job before a step or after it.
LEMMA ChosenWorker ==
    ASSUME NEW jobs, NEW h, NEW w \in Workers, jobs[w] # Nil, jobs[w].hub = h,
           \A v \in Workers \ {w} : jobs[v] # Nil => jobs[v].hub # h
    PROVE  (CHOOSE v \in Workers : jobs[v] # Nil /\ jobs[v].hub = h) = w
OBVIOUS

\* What the contract sees of a unit is its job, before a step.
LEMMA HandledIsOfJob ==
    ASSUME IInv, NEW w \in Workers, job[w] # Nil
    PROVE  HandledBundle(job[w].hub) = HandledBy(w) /\ HandledBy(w) # Nil
<1>1. \A v \in Workers \ {w} : job[v] # Nil => job[v].hub # job[w].hub
  BY DEF IInv, JobFlags
<1>2. HandledBundle(job[w].hub) = HandledBy(w)
  BY <1>1, ChosenWorker DEF HandledBundle, HandledBy
<1>3. /\ job[w].type \in Types /\ job[w].bundle.ver \in BundleVersions
      /\ job[w].bundle.dep \in BundleVersions
      /\ job[w].result \in {"none", "success", "error"}
  BY DEF IInv, TypeOK, DBJob, Bundle
<1>. QED
  BY <1>2, <1>3, HandledAssumption DEF HandledBy

\* And after it.
LEMMA HandledIsOfNextJob ==
    ASSUME IInv', NEW w \in Workers, job'[w] # Nil, NEW h, job'[w].hub = h
    PROVE  HandledBundle(h)' = HandledBy(w)' /\ HandledBy(w)' # Nil
<1>1. \A v \in Workers \ {w} : job'[v] # Nil => job'[v].hub # h
  BY DEF IInv, JobFlags
<1>2. HandledBundle(h)' = HandledBy(w)'
  BY <1>1, ChosenWorker DEF HandledBundle, HandledBy
<1>3. /\ job'[w].type \in Types /\ job'[w].bundle.ver \in BundleVersions
      /\ job'[w].bundle.dep \in BundleVersions
      /\ job'[w].result \in {"none", "success", "error"}
  BY DEF IInv, TypeOK, DBJob, Bundle
<1>. QED
  BY <1>2, <1>3, HandledAssumption DEF HandledBy

\* A step that leaves the jobs of unit h with their bundles and results is a stutter
\* for what the contract sees of h.
LEMMA HandledUnchanged ==
    ASSUME IInv, IInv', NEW h \in Hubs,
           \A w \in Workers :
             /\ job[w] # Nil /\ job[w].hub = h =>
                  /\ job'[w] # Nil /\ job'[w].hub = h /\ job'[w].type = job[w].type
                  /\ job'[w].bundle = job[w].bundle /\ job'[w].result = job[w].result
             /\ job'[w] # Nil /\ job'[w].hub = h => job[w] # Nil /\ job[w].hub = h
    PROVE  HandledBundle(h)' = HandledBundle(h)
<1>1. CASE \E w \in Workers : job[w] # Nil /\ job[w].hub = h
  <2>1. PICK w \in Workers : job[w] # Nil /\ job[w].hub = h
    BY <1>1
  <2>2. job'[w] # Nil /\ job'[w].hub = h /\ HandledBy(w)' = HandledBy(w)
    BY <2>1 DEF HandledBy
  <2>3. HandledBundle(h) = HandledBy(w)
    BY <2>1, HandledIsOfJob
  <2>4. HandledBundle(h)' = HandledBy(w)'
    BY <2>2, HandledIsOfNextJob
  <2>. QED
    BY <2>2, <2>3, <2>4
<1>2. CASE \A w \in Workers : job[w] = Nil \/ job[w].hub # h
  <2>1. \A w \in Workers : job'[w] = Nil \/ job'[w].hub # h
    BY <1>2
  <2>. QED
    BY <1>2, <2>1 DEF HandledBundle
<1>. QED
  BY <1>1, <1>2

\* Steps that start, end and write nothing are stutters of the contract.
LEMMA StutterOfContract ==
    ASSUME IInv, IInv', UNCHANGED <<lastProcessedBundleVersion, stored>>,
           \A w \in Workers :
             /\ job'[w] = Nil <=> job[w] = Nil
             /\ job[w] # Nil => /\ job'[w].hub = job[w].hub /\ job'[w].type = job[w].type
                                /\ job'[w].bundle = job[w].bundle /\ job'[w].result = job[w].result
    PROVE  UNCHANGED Contract!contractVars
<1>1. \A h \in Hubs : HandledBundle(h)' = HandledBundle(h)
  BY HandledUnchanged
<1>. QED
  BY <1>1 DEF Contract!contractVars

\* Insert is a stutter.
LEMMA InsertOfContract ==
    ASSUME IInv, IInv', NEW h \in Hubs, NEW t \in Types, NEW m \in Nat,
           NEW b, b.ver \in BundleVersions, b.dep \in BundleVersions, Insert(h, t, b, m),
           UNCHANGED dbVars
    PROVE  UNCHANGED Contract!contractVars
<1>1. CASE UNCHANGED <<elementVars, queueVars, job>>
  BY <1>1, StutterOfContract DEF elementVars, dbVars
<1>2. CASE /\ \/ SyncMode[t] = "complete" /\ updateComplete(h, t, b, m)
              \/ SyncMode[t] # "complete" /\ updateDelta(h, t, b, m)
           /\ job' = JobsAfterUpdate(h, t)
           /\ UNCHANGED lastProcessedBundleVersion
  <2>1. \A g \in Hubs, u \in Types : g # h \/ u # t => metadata'[g][u] = metadata[g][u]
    BY <1>2, UpdateElement
  <2>2. \A w \in Workers :
          /\ job'[w] = Nil <=> job[w] = Nil
          /\ job[w] # Nil => /\ job'[w].hub = job[w].hub /\ job'[w].type = job[w].type
                             /\ job'[w].bundle = job[w].bundle /\ job'[w].result = job[w].result
    BY <1>2, <2>1, InsertJobs
  <2>. QED
    BY <1>2, <2>2, StutterOfContract DEF dbVars
<1>. QED
  BY <1>1, <1>2 DEF Insert

\* GetNext starts a handler function.
LEMMA GetNextOfContract ==
    ASSUME IInv, CInv, IInv', NEW h \in Hubs, NEW t \in Types, GetNext(h, t)
    PROVE  Contract!Start(h, t)
<1>0. /\ job \in [Workers -> DBJob \cup {Nil}]
      /\ lastProcessedBundleVersion' = lastProcessedBundleVersion /\ stored' = stored
  BY DEF IInv, TypeOK, GetNext, dbVars
<1>1. /\ acquired \in Workers /\ bundle[h][t] # Nil /\ checkDependency(h, t)
      /\ \A w \in Workers : job[w] # Nil => w # acquired /\ job[w].hub # h
      /\ job' = [job EXCEPT ![acquired] =
             [hub |-> h, type |-> t, bundle |-> bundle[h][t], shared |-> TRUE,
              metadata |-> metadata[h][t], result |-> "none"]]
  BY GetNextElement
<1>2. /\ job'[acquired].hub = h /\ job'[acquired].type = t
      /\ job'[acquired].bundle = bundle[h][t] /\ job'[acquired].result = "none"
      /\ job'[acquired] # Nil
      /\ \A w \in Workers : w # acquired => job'[w] = job[w]
  <2>1. job'[acquired] = [hub |-> h, type |-> t, bundle |-> bundle[h][t], shared |-> TRUE,
                          metadata |-> metadata[h][t], result |-> "none"]
    BY <1>0, <1>1
  <2>2. job'[acquired] \in DBJob
    <3>1. metadata[h][t] \in BundleMetadata /\ bundle[h][t] \in Bundle
      BY <1>1 DEF IInv, TypeOK, PendingHasMetadata
    <3>. QED
      BY <2>1, <3>1 DEF DBJob
  <2>. QED
    BY <1>0, <1>1, <2>1, <2>2, NilAssumption
<1>3. HandledBundle(h) = Nil
  BY <1>1 DEF HandledBundle
<1>4. /\ HandledBundle(h)' # Nil
      /\ HandledBundle(h)' = [type |-> t, ver |-> bundle[h][t].ver, dep |-> bundle[h][t].dep,
                              result |-> "none"]
  <2>1. PICK w \in Workers : w = acquired
    BY <1>1
  <2>2. HandledBundle(h)' = HandledBy(w)' /\ HandledBy(w)' # Nil
    BY <1>2, <2>1, HandledIsOfNextJob
  <2>. QED
    BY <1>2, <2>1, <2>2 DEF HandledBy
<1>5. \A k \in Hubs \ {h} : HandledBundle(k)' = HandledBundle(k)
  BY <1>1, <1>2, HandledUnchanged
<1>6. SyncMode[t] = "complete" =>
        NewerThan(bundle[h][t].ver, lastProcessedBundleVersion[h][t])
  BY <1>1 DEF CInv, PendingIsNewer, CompleteTypes
<1>7. Dependency[t] # Nil =>
        Contract!BaseIsHandled(t, bundle[h][t].dep, lastProcessedBundleVersion[h][Dependency[t]])
  BY <1>1 DEF checkDependency, DependencyMet, Contract!BaseIsHandled, Contract!NewerThan,
              Contract!Equals, Contract!noBundleVersion, Contract!NewBundleVersion,
              NewerThan, Equals, noBundleVersion, NewBundleVersion
<1>. QED
  BY <1>0, <1>3, <1>4, <1>5, <1>6, <1>7 DEF Contract!Start, Contract!NewerThan, NewerThan

\* RunHandler is the return of the unit's handler function.
LEMMA RunHandlerOfContract ==
    ASSUME IInv, IInv', NEW w \in Workers, NEW result \in {"success", "error"},
           RunHandler(w, result), NEW h \in Hubs, job[w].hub = h
    PROVE  Contract!Return(h, result)
<1>1. /\ job[w] # Nil /\ job[w] \in DBJob /\ job[w].result = "none"
      /\ lastProcessedBundleVersion' = lastProcessedBundleVersion
      /\ \/ stored' = [stored EXCEPT ![h][job[w].type] = job[w].bundle.ver]
         \/ result = "error" /\ stored' = stored
  BY DEF IInv, TypeOK, RunHandler, elementVars, dbVars
<1>2. /\ job'[w] = [job[w] EXCEPT !.result = result]
      /\ \A v \in Workers : v # w => job'[v] = job[v]
  BY DEF IInv, TypeOK, RunHandler
<1>3. /\ job'[w].hub = h /\ job'[w].type = job[w].type /\ job'[w].bundle = job[w].bundle
      /\ job'[w].result = result /\ job'[w] # Nil
  BY <1>1, <1>2, NilAssumption DEF DBJob
<1>4. HandledBundle(h) = HandledBy(w) /\ HandledBundle(h) # Nil
  BY <1>1, HandledIsOfJob
<1>5. HandledBundle(h)' = HandledBy(w)'
  BY <1>3, HandledIsOfNextJob
<1>6. /\ HandledBundle(h).type = job[w].type /\ HandledBundle(h).ver = job[w].bundle.ver
      /\ HandledBundle(h).result = "none"
      /\ HandledBundle(h)' = [HandledBundle(h) EXCEPT !.result = result]
  BY <1>1, <1>3, <1>4, <1>5 DEF HandledBy
<1>7. \A k \in Hubs : k # h => HandledBundle(k)' = HandledBundle(k)
  BY <1>2, <1>3, HandledUnchanged
<1> DEFINE handling == [k \in Hubs |-> HandledBundle(k)]
<1>8. handling' = [handling EXCEPT ![h].result = result]
  BY <1>6, <1>7
<1>. QED
  BY <1>1, <1>4, <1>6, <1>8 DEF Contract!Return

\* ReportResult takes the result in: what counts is the version the worker handled.
LEMMA ReportResultOfContract ==
    ASSUME IInv, CInv, IInv', NEW w \in Workers, NEW h \in Hubs, NEW t \in Types,
           ReportResult(w, h, t)
    PROVE  Contract!Finish(h)
<1> DEFINE ver == job[w].bundle.ver
<1>1. /\ job[w] # Nil /\ job[w].hub = h /\ job[w].type = t /\ job[w].result # "none"
      /\ job' = [job EXCEPT ![w] = Nil] /\ job \in [Workers -> DBJob \cup {Nil}]
      /\ stored' = stored
      /\ lastProcessedBundleVersion \in [Hubs -> [Types -> BundleVersions]]
      /\ lastProcessedBundleVersion' \in [Hubs -> [Types -> BundleVersions]]
  BY DEF IInv, TypeOK, ReportResult, dbVars
<1>2. \A v \in Workers \ {w} : job'[v] = job[v] /\ (job[v] # Nil => job[v].hub # h)
  BY <1>1 DEF IInv, JobFlags
<1>3. HandledBundle(h) = HandledBy(w) /\ HandledBundle(h) # Nil
  BY <1>1, HandledIsOfJob
<1>4. /\ HandledBundle(h).type = t /\ HandledBundle(h).ver = ver
      /\ HandledBundle(h).result = job[w].result
  BY <1>1, <1>3 DEF HandledBy
<1>5. HandledBundle(h)' = Nil
  <2>1. \A v \in Workers : job'[v] = Nil \/ job'[v].hub # h
    BY <1>1, <1>2
  <2>. QED
    BY <2>1 DEF HandledBundle
<1>6. \A k \in Hubs : k # h => HandledBundle(k)' = HandledBundle(k)
  BY <1>1, <1>2, HandledUnchanged
<1> DEFINE handling == [k \in Hubs |-> HandledBundle(k)]
<1>7. handling' = [handling EXCEPT ![h] = Nil]
  BY <1>5, <1>6
<1>8. \A g \in Hubs, u \in Types : g # h \/ u # t =>
        lastProcessedBundleVersion'[g][u] = lastProcessedBundleVersion[g][u]
  BY ReportElement
<1>9. lastProcessedBundleVersion' =
        IF job[w].result = "success" /\ NewerThan(ver, lastProcessedBundleVersion[h][t])
          THEN [lastProcessedBundleVersion EXCEPT ![h][t] = ver]
          ELSE lastProcessedBundleVersion
  <2>1. CASE job[w].result = "success"
    <3>1. lastProcessedBundleVersion'[h][t] =
            (IF NewerThan(ver, lastProcessedBundleVersion[h][t])
               THEN ver ELSE lastProcessedBundleVersion[h][t])
      BY <2>1, SuccessElement
    <3> HIDE DEF ver
    <3>2. CASE NewerThan(ver, lastProcessedBundleVersion[h][t])
      BY <1>1, <1>8, <2>1, <3>1, <3>2
    <3>3. CASE ~NewerThan(ver, lastProcessedBundleVersion[h][t])
      BY <1>1, <1>8, <2>1, <3>1, <3>3
    <3>. QED
      BY <3>2, <3>3
  <2>2. CASE job[w].result # "success"
    BY <2>2, ErrorElement
  <2>. QED
    BY <2>1, <2>2
<1>. QED
  BY <1>1, <1>3, <1>4, <1>7, <1>9 DEF Contract!Finish, Contract!NewerThan, NewerThan

\* The steps of the dispatcher and of the workers, under whichever transport.
LEMMA ProcessOfContract ==
    ASSUME IInv, CInv, IInv', Dispatch \/ \E w \in Workers : Work(w)
    PROVE  [Contract!ContractNext]_(Contract!contractVars)
<1>1. CASE BlockingDequeue \/ Acquire \/ GetNextFails
  BY <1>1, StutterOfContract DEF BlockingDequeue, Acquire, GetNextFails, elementVars, dbVars
<1>2. CASE \E h \in Hubs, t \in Types : GetNext(h, t)
  BY <1>2, GetNextOfContract DEF Contract!ContractNext
<1>3. ASSUME NEW w \in Workers, NEW result \in {"success", "error"}, RunHandler(w, result)
      PROVE  Contract!ContractNext
  <2>1. job[w].hub \in Hubs
    BY <1>3 DEF IInv, TypeOK, RunHandler, DBJob
  <2>. QED
    BY <1>3, <2>1, RunHandlerOfContract DEF Contract!ContractNext
<1>4. CASE \E w \in Workers, h \in Hubs, t \in Types : ReportResult(w, h, t)
  BY <1>4, ReportResultOfContract DEF Contract!ContractNext
<1>. QED
  BY <1>1, <1>2, <1>3, <1>4 DEF Dispatch, Work

\* The initial states are initial states of the contract.
LEMMA InitOfContract == Init => Contract!ContractInit
<1> SUFFICES ASSUME Init PROVE Contract!ContractInit
  OBVIOUS
<1>1. \A h \in Hubs : HandledBundle(h) = Nil
  BY DEF Init, HandledBundle
<1>. QED
  BY <1>1 DEF Init, EveryElement, Contract!ContractInit, Contract!noBundleVersion,
              Contract!NewBundleVersion, noBundleVersion, NewBundleVersion

\* The detailed conflation layer implements what the handler functions are promised, for
\* every registration, every transport and every number of workers: GetNext calls a
\* handler function, RunHandler returns from it, ReportResult takes its result in, and
\* every other step is a stutter.
THEOREM ConflationImplementsContract == Spec => ImplementsContract
<1>1. Init => Contract!ContractInit
  BY InitOfContract
<1>2. IInv /\ CInv /\ IInv' /\ [Next]_vars => [Contract!ContractNext]_(Contract!contractVars)
  <2> SUFFICES ASSUME IInv, CInv, IInv', [Next]_vars
               PROVE  [Contract!ContractNext]_(Contract!contractVars)
    OBVIOUS
  <2>1. CASE UNCHANGED vars
    BY <2>1, StutterOfContract DEF vars, elementVars, dbVars
  <2>2. ASSUME NEW h \in Hubs, NEW t \in Types, NEW b \in Deliverable[t], Receive(h, t, b)
        PROVE  UNCHANGED Contract!contractVars
    <3>1. /\ b.ver \in BundleVersions /\ b.dep \in BundleVersions /\ received + 1 \in Nat
          /\ Insert(h, t, b, received + 1) /\ UNCHANGED dbVars
      BY <2>2, DeliveryAssumption DEF IInv, TypeOK, Receive
    <3>. QED
      BY <3>1, InsertOfContract
  <2>3. CASE Dispatch \/ \E w \in Workers : Work(w)
    BY <2>3, ProcessOfContract
  <2>. QED
    BY <2>1, <2>2, <2>3 DEF Next
<1>. QED
  BY <1>1, <1>2, DescribedIsInvariant, PTL DEF Spec, ImplementsContract, Contract!ContractSpec
==============================================================================
