------------------------- MODULE StatusTransportProofs -------------------------
(***************************************************************************)
(* The conflation layer fed by the Kafka consumer and fed by the sync      *)
(* service, with crashes between any two steps: HandlerContract still      *)
(* holds, and what the committers tell the broker and the service is true  *)
(* of the database.                                                        *)
(*                                                                         *)
(* IInv and CInv of ConflationProofs hold through crashes under both.      *)
(* CommitNeverGoesBack is not inductive: the committer forgets what it     *)
(* committed when the manager restarts, so CommitterIsAhead bounds from    *)
(* below every offset that this process may still collect.                 *)
(*                                                                         *)
(* KafkaSafety follows a message of a complete-state type: read, it is     *)
(* known to its unit until it may be committed; collected, a processed one *)
(* is stored and a pending one is not passed; passed, it stays stored or   *)
(* the broker has a newer one.  SyncInv does so for the sync service:      *)
(* versions grow from the leaf hub to the database, and the service's      *)
(* marks name versions that are on their way or stored.                    *)
(***************************************************************************)
EXTENDS ConflationProofs, KafkaStatus, SyncServiceStatus, FiniteSetTheorems, WellFoundedInduction

------------------------------------------------------------------------------
(* What the calls do to bundles and jobs, for both transports *)

\* A step leaves every worker with the job it has, apart from its result.
JobsStay ==
    \A w \in Workers :
        /\ job'[w] = Nil <=> job[w] = Nil
        /\ job[w] # Nil => /\ job'[w].hub = job[w].hub /\ job'[w].type = job[w].type
                           /\ job'[w].bundle = job[w].bundle

\* A step leaves the bundles of all elements but (h, t) alone.
OtherElementsStay(h, t) ==
    \A g \in Hubs, u \in Types : g # h \/ u # t =>
        /\ bundle'[g][u] = bundle[g][u]
        /\ lastDispatchedDelta'[g][u] = lastDispatchedDelta[g][u]
        /\ deltaLineHeadBundleVersion'[g][u] = deltaLineHeadBundleVersion[g][u]
        /\ lastProcessedBundleVersion'[g][u] = lastProcessedBundleVersion[g][u]

\* Insert returns early, or leaves its bundle pending with what it inherits.
LEMMA InsertEffect ==
    ASSUME IInv, NEW h \in Hubs, NEW t \in Types, NEW m \in Nat,
           NEW b, b.ver \in BundleVersions, b.dep \in BundleVersions, Insert(h, t, b, m)
    PROVE  /\ JobsStay /\ OtherElementsStay(h, t)
           /\ UNCHANGED <<lastDispatchedDelta, lastProcessedBundleVersion, isInProcess>>
           /\ \/ ~isNewerBundle(h, t, b) /\ UNCHANGED elementVars
              \/ /\ isNewerBundle(h, t, b)
                 /\ bundle'[h][t] # Nil /\ bundle'[h][t].ver = b.ver
                 /\ \A e \in bundle'[h][t].events :
                        e = m \/ (bundle[h][t] # Nil /\ e \in bundle[h][t].events)
                 /\ SyncMode[t] = "delta" =>
                      \/ deltaLineHeadBundleVersion'[h][t] = b.ver
                      \/ /\ bundle[h][t] # Nil
                         /\ deltaLineHeadBundleVersion'[h][t] = deltaLineHeadBundleVersion[h][t]
<1>0. /\ bundle \in [Hubs -> [Types -> Bundle \cup {Nil}]]
      /\ deltaLineHeadBundleVersion \in [Hubs -> [Types -> BundleVersions \cup {Nil}]]
  BY DEF IInv, TypeOK
<1>1. CASE ~isNewerBundle(h, t, b)
  <2>1. UNCHANGED <<elementVars, queueVars, job>>
    BY <1>1 DEF Insert
  <2>. QED
    BY <1>1, <2>1 DEF JobsStay, OtherElementsStay, elementVars
<1>2. CASE isNewerBundle(h, t, b)
  <2>1. /\ \/ SyncMode[t] = "complete" /\ updateComplete(h, t, b, m)
           \/ SyncMode[t] # "complete" /\ updateDelta(h, t, b, m)
        /\ job' = JobsAfterUpdate(h, t)
        /\ UNCHANGED <<isInProcess, lastProcessedBundleVersion>>
    BY <1>2 DEF Insert
  <2>2. /\ lastDispatchedDelta' = lastDispatchedDelta
        /\ \A g \in Hubs, u \in Types : g # h \/ u # t =>
             bundle'[g][u] = bundle[g][u] /\ metadata'[g][u] = metadata[g][u]
    BY <2>1, UpdateElement
  <2>3. JobsStay
    BY <2>1, <2>2, InsertJobs DEF JobsStay
  <2>4. \A g \in Hubs, u \in Types : g # h \/ u # t =>
          deltaLineHeadBundleVersion'[g][u] = deltaLineHeadBundleVersion[g][u]
    BY <1>0, <2>1 DEF updateComplete, updateDelta
  <2>5. bundle'[h][t] # Nil /\ bundle'[h][t].ver = b.ver
    BY <2>1, InsertElement
  <2> DEFINE new == [ver |-> b.ver, dep |-> b.dep, events |-> {m}]
  <2>6. \A e \in bundle'[h][t].events :
          e = m \/ (bundle[h][t] # Nil /\ e \in bundle[h][t].events)
    <3>1. CASE SyncMode[t] = "complete"
      <4>1. bundle' = [bundle EXCEPT ![h][t] = new]
        BY <2>1, <3>1 DEF updateComplete
      <4>2. bundle'[h][t] = new
        BY <1>0, <4>1
      <4>. QED
        BY <4>2
    <3>2. CASE SyncMode[t] # "complete"
      <4>1. bundle'[h][t] = InheritEvents(new, bundle[h][t])
        BY <1>0, <2>1, <3>2 DEF updateDelta
      <4>. QED
        BY <4>1 DEF InheritEvents
    <3>. QED
      BY <3>1, <3>2
  <2>7. SyncMode[t] = "delta" =>
          \/ deltaLineHeadBundleVersion'[h][t] = b.ver
          \/ /\ bundle[h][t] # Nil
             /\ deltaLineHeadBundleVersion'[h][t] = deltaLineHeadBundleVersion[h][t]
    BY <1>0, <2>1 DEF updateDelta, bundleStartsNewLine
  <2>. QED
    BY <1>2, <2>1, <2>2, <2>3, <2>4, <2>5, <2>6, <2>7 DEF OtherElementsStay
<1>. QED
  BY <1>1, <1>2

\* GetNext gives the pending bundle to one more worker; a delta pack leaves the element.
LEMMA GetNextEffect ==
    ASSUME IInv, CInv, NEW h \in Hubs, NEW t \in Types, GetNext(h, t)
    PROVE  /\ OtherElementsStay(h, t)
           /\ UNCHANGED <<lastProcessedBundleVersion, deltaLineHeadBundleVersion, processed, dbVars>>
           /\ bundle[h][t] # Nil
           /\ SyncMode[t] = "complete" => bundle'[h][t] = bundle[h][t]
           /\ SyncMode[t] = "delta" =>
                bundle'[h][t] = Nil /\ lastDispatchedDelta'[h][t].bundle = bundle[h][t]
           /\ \A w \in Workers : job[w] # Nil => job[w].hub # h
           /\ \E a \in Workers :
                /\ job[a] = Nil /\ job'[a] # Nil
                /\ job'[a].hub = h /\ job'[a].type = t /\ job'[a].bundle = bundle[h][t]
                /\ job'[a].result = "none"
                /\ \A w \in Workers : w # a => job'[w] = job[w]
<1>0. /\ job \in [Workers -> DBJob \cup {Nil}]
      /\ UNCHANGED <<lastProcessedBundleVersion, deltaLineHeadBundleVersion, processed, dbVars>>
  BY DEF IInv, TypeOK, GetNext
<1>1. /\ acquired \in Workers /\ bundle[h][t] # Nil /\ bundle[h][t] \in Bundle
      /\ \A w \in Workers : job[w] # Nil => w # acquired /\ job[w].hub # h
      /\ job' = [job EXCEPT ![acquired] =
             [hub |-> h, type |-> t, bundle |-> bundle[h][t], shared |-> TRUE,
              metadata |-> metadata[h][t], result |-> "none"]]
      /\ SyncMode[t] = "complete" => bundle'[h][t] = bundle[h][t]
      /\ SyncMode[t] = "delta" =>
           bundle'[h][t] = Nil /\ lastDispatchedDelta'[h][t].bundle = bundle[h][t]
      /\ \A g \in Hubs, u \in Types : g # h \/ u # t =>
           /\ bundle'[g][u] = bundle[g][u]
           /\ lastDispatchedDelta'[g][u] = lastDispatchedDelta[g][u]
  BY GetNextElement
<1>2. /\ job'[acquired] = [hub |-> h, type |-> t, bundle |-> bundle[h][t], shared |-> TRUE,
                           metadata |-> metadata[h][t], result |-> "none"]
      /\ \A w \in Workers : w # acquired => job'[w] = job[w]
  BY <1>0, <1>1
<1>3. metadata[h][t] \in BundleMetadata
  BY <1>1 DEF IInv, TypeOK, PendingHasMetadata
<1>4. job'[acquired] # Nil
  <2>1. bundle[h][t] \in Bundle
    BY <1>1
  <2>2. job'[acquired] \in DBJob
    BY <1>2, <1>3, <2>1 DEF DBJob
  <2>. QED
    BY <2>2, NilAssumption
<1>5. job[acquired] = Nil
  BY <1>1
<1>. QED
  BY <1>0, <1>1, <1>2, <1>4, <1>5 DEF OtherElementsStay

\* A handler function writes its bundle or, when it fails, perhaps nothing.
LEMMA RunHandlerEffect ==
    ASSUME IInv, NEW w \in Workers, NEW result \in {"success", "error"}, RunHandler(w, result)
    PROVE  /\ JobsStay /\ UNCHANGED <<elementVars, queueVars, processed>>
           /\ job[w] # Nil /\ job[w].hub \in Hubs /\ job[w].type \in Types
           /\ job[w].bundle \in Bundle
           /\ \/ UNCHANGED dbVars
              \/ /\ stored' = [stored EXCEPT ![job[w].hub][job[w].type] = job[w].bundle.ver]
                 /\ applied' = applied \cup job[w].bundle.events
<1>1. job[w] # Nil /\ job[w] \in DBJob /\ job \in [Workers -> DBJob \cup {Nil}]
  BY DEF IInv, TypeOK, RunHandler
<1>2. /\ job' = [job EXCEPT ![w].result = result]
      /\ UNCHANGED <<elementVars, queueVars, processed>>
  BY DEF RunHandler
<1>3. /\ job'[w] = [job[w] EXCEPT !.result = result] /\ job'[w] \in DBJob
      /\ \A v \in Workers : v # w => job'[v] = job[v]
  BY <1>1, <1>2 DEF DBJob
<1>4. /\ job'[w].hub = job[w].hub /\ job'[w].type = job[w].type
      /\ job'[w].bundle = job[w].bundle /\ job'[w] # Nil
  BY <1>1, <1>3, NilAssumption DEF DBJob
<1>5. JobsStay
  BY <1>1, <1>3, <1>4 DEF JobsStay
<1>. QED
  BY <1>1, <1>2, <1>5 DEF RunHandler, DBJob

\* A report ends a job.  What was pending stays, unless it is the complete-state bundle that
\* was just written; a failed delta pack is pending again or merged into what is, unless a
\* newer line of deltas has started.
LEMMA ReportEffect ==
    ASSUME IInv, CInv, NEW w \in Workers, NEW h \in Hubs, NEW t \in Types,
           ReportResult(w, h, t)
    PROVE  LET pack == lastDispatchedDelta[h][t].bundle
               now == bundle'[h][t]
           IN  /\ OtherElementsStay(h, t)
               /\ job[w] # Nil /\ job[w].hub = h /\ job[w].type = t
               /\ job[w].bundle \in Bundle
               /\ job' = [job EXCEPT ![w] = Nil]
               /\ job'[w] = Nil /\ \A v \in Workers : v # w => job'[v] = job[v]
               /\ \A v \in Workers : v # w /\ job[v] # Nil => job[v].hub # h
               /\ UNCHANGED <<deltaLineHeadBundleVersion, dbVars>>
               /\ \/ /\ job[w].result = "success"
                     /\ stored[h][t] = job[w].bundle.ver
                     /\ lastProcessedBundleVersion'[h][t] \in
                          {job[w].bundle.ver, lastProcessedBundleVersion[h][t]}
                     /\ \/ now = bundle[h][t]
                        \/ /\ now = Nil /\ bundle[h][t] # Nil
                           /\ bundle[h][t].ver = job[w].bundle.ver
                  \/ /\ job[w].result = "error"
                     /\ UNCHANGED <<lastProcessedBundleVersion, processed>>
                     /\ \/ /\ now = bundle[h][t]
                           /\ SyncMode[t] = "delta" =>
                                NewerThan(deltaLineHeadBundleVersion[h][t], job[w].bundle.ver)
                        \/ /\ SyncMode[t] = "delta" /\ bundle[h][t] = Nil /\ now = pack
                           /\ ~NewerThan(deltaLineHeadBundleVersion[h][t], job[w].bundle.ver)
                        \/ /\ SyncMode[t] = "delta" /\ bundle[h][t] # Nil /\ now # Nil
                           /\ now.ver = bundle[h][t].ver
                           /\ now.events \subseteq bundle[h][t].events \cup pack.events
<1> DEFINE pack == lastDispatchedDelta[h][t].bundle
           md == JobMetadata(w)
           ver == job[w].bundle.ver
<1>0. /\ bundle \in [Hubs -> [Types -> Bundle \cup {Nil}]]
      /\ lastProcessedBundleVersion \in [Hubs -> [Types -> BundleVersions]]
      /\ job \in [Workers -> DBJob \cup {Nil}]
      /\ SyncMode[t] \in {"complete", "delta"}
  BY RegistrationAssumption DEF IInv, TypeOK
<1>1. /\ job[w] # Nil /\ job[w].hub = h /\ job[w].type = t /\ job[w] \in DBJob
      /\ job[w].bundle \in Bundle /\ job[w].result \in {"success", "error"}
      /\ job' = [job EXCEPT ![w] = Nil]
      /\ UNCHANGED <<deltaLineHeadBundleVersion, dbVars>>
      /\ IF job[w].result = "success" THEN reportSuccess(h, t, md) ELSE reportError(h, t, md)
  BY <1>0 DEF ReportResult, DBJob
<1>2. /\ job'[w] = Nil /\ \A v \in Workers : v # w => job'[v] = job[v]
      /\ \A v \in Workers : v # w /\ job[v] # Nil => job[v].hub # h
  BY <1>0, <1>1 DEF IInv, JobFlags
<1>3. OtherElementsStay(h, t)
  BY <1>1, ReportElement DEF OtherElementsStay
<1>4. md.bundleVersion = ver /\ ResultIsTrue(w)
  BY <1>1 DEF CInv, JobIsDescribed, MetadataIsOfJob
<1>5. ASSUME job[w].result = "success"
      PROVE  /\ stored[h][t] = ver
             /\ lastProcessedBundleVersion'[h][t] \in {ver, lastProcessedBundleVersion[h][t]}
             /\ \/ bundle'[h][t] = bundle[h][t]
                \/ bundle'[h][t] = Nil /\ bundle[h][t] # Nil /\ bundle[h][t].ver = ver
  <2>1. stored[h][t] = ver
    BY <1>1, <1>4, <1>5 DEF ResultIsTrue
  <2>2. lastProcessedBundleVersion'[h][t] \in {ver, lastProcessedBundleVersion[h][t]}
    BY <1>5, SuccessElement
  <2>3. CASE SyncMode[t] = "complete"
    <3>1. bundle' = IF Equals(ver, metadata[h][t].bundleVersion)
                      THEN [bundle EXCEPT ![h][t] = Nil] ELSE bundle
      BY <1>1, <1>4, <1>5, <2>3 DEF reportSuccess, releaseBundle
    <3>2. bundle[h][t] # Nil => metadata[h][t].bundleVersion = bundle[h][t].ver
      BY DEF CInv, ElementIsDescribed
    <3>3. bundle[h][t] # Nil /\ bundle[h][t].ver \in BundleVersions /\ ver \in BundleVersions
      BY <1>0, <1>1, <2>3 DEF CInv, JobIsDescribed, BundleIsDue, Bundle
    <3>4. CASE Equals(ver, bundle[h][t].ver)
      <4>1. bundle'[h][t] = Nil
        BY <1>0, <3>1, <3>2, <3>3, <3>4
      <4>. QED
        BY <2>1, <2>2, <3>3, <3>4, <4>1, VersionOrder
    <3>5. CASE ~Equals(ver, bundle[h][t].ver)
      BY <2>1, <2>2, <3>1, <3>2, <3>3, <3>5
    <3>. QED
      BY <3>4, <3>5
  <2>4. CASE SyncMode[t] = "delta"
    BY <1>1, <1>5, <2>1, <2>2, <2>4, SuccessElement
  <2>. QED
    BY <1>0, <2>3, <2>4
<1>6. ASSUME job[w].result = "error"
      PROVE  /\ UNCHANGED <<lastProcessedBundleVersion, processed>>
             /\ \/ /\ bundle'[h][t] = bundle[h][t]
                   /\ SyncMode[t] = "delta" => NewerThan(deltaLineHeadBundleVersion[h][t], ver)
                \/ /\ SyncMode[t] = "delta" /\ bundle[h][t] = Nil /\ bundle'[h][t] = pack
                   /\ ~NewerThan(deltaLineHeadBundleVersion[h][t], ver)
                \/ /\ SyncMode[t] = "delta" /\ bundle[h][t] # Nil /\ bundle'[h][t] # Nil
                   /\ bundle'[h][t].ver = bundle[h][t].ver
                   /\ bundle'[h][t].events \subseteq bundle[h][t].events \cup pack.events
  <2>1. UNCHANGED <<lastProcessedBundleVersion, processed>>
    BY <1>1, <1>6, ErrorElement
  <2>2. CASE SyncMode[t] = "complete"
    BY <1>1, <1>6, <2>1, <2>2, ErrorElement
  <2>3. CASE SyncMode[t] = "delta"
    <3>1. handleFailure(h, t, md)
      BY <1>1, <1>6, <2>3 DEF reportError
    <3>2. CASE NewerThan(deltaLineHeadBundleVersion[h][t], ver)
      BY <1>4, <2>1, <3>1, <3>2 DEF handleFailure
    <3>3. CASE ~NewerThan(deltaLineHeadBundleVersion[h][t], ver)
      <4>1. bundle'[h][t] = IF bundle[h][t] = Nil THEN pack
                                                  ELSE InheritEvents(bundle[h][t], pack)
        BY <1>0, <1>4, <3>1, <3>3 DEF handleFailure
      <4>2. CASE bundle[h][t] = Nil
        BY <2>1, <2>3, <3>3, <4>1, <4>2
      <4>3. CASE bundle[h][t] # Nil
        <5>1. /\ bundle[h][t] \in Bundle
              /\ bundle'[h][t] = InheritEvents(bundle[h][t], pack)
          BY <1>0, <4>1, <4>3
        <5>2. pack \in Bundle
          BY <1>1, <2>3 DEF IInv, TypeOK, JobFlags, RecoverableDelta
        <5>3. bundle'[h][t] # Nil
          BY <5>1, <5>2, InheritEventsType, NilAssumption
        <5>4. /\ bundle'[h][t].ver = bundle[h][t].ver
              /\ bundle'[h][t].events \subseteq bundle[h][t].events \cup pack.events
          BY <5>1 DEF InheritEvents
        <5>. QED
          BY <2>1, <2>3, <4>3, <5>3, <5>4
      <4>. QED
        BY <4>2, <4>3
    <3>. QED
      BY <3>2, <3>3
  <2>. QED
    BY <1>0, <2>2, <2>3
<1> HIDE DEF pack, ver, md
<1>. QED
  BY <1>1, <1>2, <1>3, <1>5, <1>6 DEF pack, ver

------------------------------------------------------------------------------
(* Fed by the Kafka consumer, with crashes: the lowest and the highest offset *)

\* Min of FiniteSetsExt, on naturals: the least element of any set there is one in.
LEMMA LeastOfNaturals ==
    ASSUME NEW S \in SUBSET Nat, S # {}
    PROVE  Min(S) \in S /\ \A y \in S : Min(S) <= y
<1> DEFINE less == OpToRel(<, Nat)
<1>1. IsWellFoundedOn(less, Nat)
  BY NatLessThanWellFounded
<1>2. \A x, y \in Nat : <<y, x>> \in less <=> y < x
  BY DEF OpToRel
<1> HIDE DEF less
<1>3. PICK x \in S : \A y \in S : ~(<<y, x>> \in less)
  BY <1>1, WFMin
<1>4. \A y \in S : x <= y
  <2> SUFFICES ASSUME NEW y \in S PROVE x <= y
    OBVIOUS
  <2>1. x \in Nat /\ y \in Nat /\ ~(y < x)
    BY <1>2, <1>3
  <2>. QED
    BY <2>1
<1>. QED
  BY <1>4 DEF Min

\* Max of FiniteSetsExt, on bounded sets: what is left of the bound is least.
LEMMA GreatestOfBounded ==
    ASSUME NEW n \in Nat, NEW S \in SUBSET (0..n), S # {}
    PROVE  Max(S) \in S /\ \A y \in S : y <= Max(S)
<1> DEFINE rest == {n - x : x \in S}
<1>1. \A x \in S : x \in Int /\ n - x \in Nat /\ n - x \in rest
  <2> SUFFICES ASSUME NEW x \in S PROVE x \in Int /\ n - x \in Nat /\ n - x \in rest
    OBVIOUS
  <2>1. x \in 0..n
    OBVIOUS
  <2>. QED
    BY <2>1
<1>2. rest \in SUBSET Nat /\ rest # {}
  BY <1>1
<1>3. Min(rest) \in rest /\ \A y \in rest : Min(rest) <= y
  BY <1>2, LeastOfNaturals
<1>4. PICK m \in S : Min(rest) = n - m
  BY <1>3
<1> HIDE DEF rest
<1>5. \A y \in S : m >= y
  <2> SUFFICES ASSUME NEW y \in S PROVE m >= y
    OBVIOUS
  <2>1. n - m <= n - y /\ m \in Int /\ y \in Int
    BY <1>1, <1>3, <1>4
  <2>. QED
    BY <2>1
<1>6. \A y, z \in S : y >= z <=> z <= y
  BY <1>1
<1>. QED
  BY <1>5, <1>6 DEF Max

\* The committer commits an offset it collected, or the one after it.
LEMMA OffsetToCommitRange ==
    ASSUME NEW first \in Nat, NEW n \in Nat, NEW offsets \in SUBSET (first..n), offsets # {}
    PROVE  offsetToCommit(offsets) \in first..(n + 1)
<1> DEFINE pending == offsets \ processed
<1>1. CASE pending # {}
  <2>1. pending \in SUBSET Nat
    <3>1. \A x \in pending : x \in first..n
      OBVIOUS
    <3>2. \A x \in first..n : x \in Nat
      OBVIOUS
    <3>. QED
      BY <3>1, <3>2
  <2>2. Min(pending) \in pending
    BY <1>1, <2>1, LeastOfNaturals
  <2>3. offsetToCommit(offsets) = Min(pending)
    BY <1>1 DEF offsetToCommit
  <2>4. Min(pending) \in first..n
    BY <2>2
  <2>. QED
    BY <2>3, <2>4
<1>2. CASE pending = {}
  <2>1. offsets \in SUBSET (0..n)
    OBVIOUS
  <2>2. Max(offsets) \in first..n
    BY <2>1, GreatestOfBounded
  <2>3. offsetToCommit(offsets) = Max(offsets) + 1
    BY <1>2 DEF offsetToCommit
  <2>. QED
    BY <2>2, <2>3
<1>. QED
  BY <1>1, <1>2

\* The fields of the messages have the types of those of a bundle.
LogIsTyped ==
    \A i \in 1..LogLength :
        /\ log[i].hub \in Hubs /\ log[i].type \in Types
        /\ log[i].ver \in BundleVersions /\ log[i].dep \in BundleVersions

\* The messages of a log have the fields of a bundle: a leaf hub counts what it sent.
LEMMA LogsAreTyped == log \in Logs => LogIsTyped
<1> SUFFICES ASSUME log \in Logs, NEW i \in 1..LogLength
             PROVE  /\ log[i].hub \in Hubs /\ log[i].type \in Types
                    /\ log[i].ver \in BundleVersions /\ log[i].dep \in BundleVersions
  BY DEF LogIsTyped
<1>1. PICK choice \in [1..LogLength -> [hub : Hubs, type : Types]] :
        log = [k \in 1..LogLength |-> SentMessage(choice, k)]
  BY DEF Logs
<1>2. log[i] = SentMessage(choice, i)
  BY <1>1
<1>3. choice[i].hub \in Hubs /\ choice[i].type \in Types
  BY <1>1
<1>4. ASSUME NEW h, NEW t PROVE CountSent(choice, i, h, t) \in Nat
  <2> DEFINE sent == {k \in 1..i : choice[k].hub = h /\ choice[k].type = t}
  <2>1. IsFiniteSet(1..i)
    BY FS_Interval, KafkaAssumption
  <2>2. sent \in SUBSET (1..i)
    OBVIOUS
  <2>3. IsFiniteSet(sent)
    BY <2>1, <2>2, FS_Subset
  <2>4. Cardinality(sent) \in Nat
    BY <2>3, FS_CardinalityType
  <2>. QED
    BY <2>4 DEF CountSent
<1>5. \A n \in Nat : NewBundleVersion(0, n) \in BundleVersions
  BY DEF NewBundleVersion, BundleVersions
<1>6. noBundleVersion \in BundleVersions
  BY DEF noBundleVersion, NewBundleVersion, BundleVersions
<1>. QED
  BY <1>2, <1>3, <1>4, <1>5, <1>6 DEF SentMessage

\* The process of a new manager is as newly made, and keeps what is in the database.
LEMMA NewMemoryKeeps ==
    ASSUME IInv, NewMemory, received' \in Nat, UNCHANGED stored, applied' \subseteq Nat
    PROVE  IInv' /\ CInv'
<1>1. TypeOK'
  BY DEF IInv, NewMemory, TypeOK, EveryElement, noBundleVersion, NewBundleVersion,
         BundleVersions
<1>2. QueueFlags'
  BY DEF NewMemory, QueueFlags
<1>3. JobFlags'
  BY NilAssumption DEF NewMemory, JobFlags
<1>4. PendingHasMetadata'
  BY DEF NewMemory, PendingHasMetadata, EveryElement
<1>5. /\ \A h \in Hubs, t \in Types : bundle'[h][t] = Nil /\ lastDispatchedDelta'[h][t] = Nil
      /\ \A w \in Workers : job'[w] = Nil
      /\ processed' = {}
  BY DEF NewMemory, EveryElement
<1>6. CInv'
  BY <1>5 DEF CInv, ElementIsDescribed, PackIsDescribed, PendingIsNewer, JobIsDescribed,
              MarkedIsApplied, CompleteTypes
<1>. QED
  BY <1>1, <1>2, <1>3, <1>4, <1>6 DEF IInv

------------------------------------------------------------------------------
(* The offsets a unit remembers *)

\* Every offset that a unit remembers, also the one that a failed delta pack would give
\* back, is one the consumer has read, and not before offset first.
UnitOffsets(first) ==
    \A h \in Hubs, t \in Types :
        /\ metadata[h][t] # Nil => metadata[h][t].transportBundleMetadata \in first..received
        /\ lastReceivedTransportMetadata[h][t] # Nil =>
             lastReceivedTransportMetadata[h][t] \in first..received
        /\ lastDispatchedDelta[h][t] # Nil =>
             lastDispatchedDelta[h][t].lowestPendingTransportMetadata \in first..received

\* The committer knows what it committed, or it has committed nothing since the start
\* and everything this process has read comes after what the broker holds.
CommitterIsAhead ==
    \/ commitsMap = committed /\ UnitOffsets(1) /\ collected \subseteq 1..LogLength
    \/ /\ commitsMap = 0 /\ UnitOffsets(committed) /\ collected \subseteq committed..LogLength
       /\ received >= committed - 1

\* The inductive invariant.
KafkaIInv == IInv /\ CInv /\ KafkaTypeOK /\ LogIsTyped /\ CommitterIsAhead

\* Steps that change no metadata and receive nothing.
LEMMA QuietOffsets ==
    ASSUME NEW first, UnitOffsets(first), received' = received,
           UNCHANGED <<metadata, lastReceivedTransportMetadata, lastDispatchedDelta>>
    PROVE  UnitOffsets(first)'
BY DEF UnitOffsets

\* Insert brings in the offset of its message, and keeps at most the one before it.
LEMMA InsertOffsets ==
    ASSUME IInv, NEW first \in Nat, UnitOffsets(first), received' = received + 1,
           first <= received + 1, NEW h \in Hubs, NEW t \in Types, NEW b,
           b.ver \in BundleVersions, b.dep \in BundleVersions, Insert(h, t, b, received + 1)
    PROVE  UnitOffsets(first)'
<1> DEFINE m == received + 1
<1>0. /\ received \in Nat /\ m \in first..m /\ \A o \in first..received : o \in first..m
      /\ metadata \in [Hubs -> [Types -> BundleMetadata \cup {Nil}]]
      /\ lastReceivedTransportMetadata \in [Hubs -> [Types -> Nat \cup {Nil}]]
  BY DEF IInv, TypeOK
<1> HIDE DEF m
<1>1. received' = m
  BY DEF m
<1>2. CASE UNCHANGED <<elementVars, queueVars, job>>
  BY <1>0, <1>1, <1>2 DEF UnitOffsets, elementVars
<1>3. CASE \/ SyncMode[t] = "complete" /\ updateComplete(h, t, b, m)
           \/ SyncMode[t] # "complete" /\ updateDelta(h, t, b, m)
  <2>1. /\ lastDispatchedDelta' = lastDispatchedDelta
        /\ \A g \in Hubs, u \in Types : g # h \/ u # t =>
             /\ metadata'[g][u] = metadata[g][u]
             /\ lastReceivedTransportMetadata'[g][u] = lastReceivedTransportMetadata[g][u]
    BY <1>0, <1>3, UpdateElement
  <2>2. /\ \/ metadata'[h][t].transportBundleMetadata = m
           \/ /\ metadata[h][t] # Nil
              /\ metadata'[h][t].transportBundleMetadata = metadata[h][t].transportBundleMetadata
        /\ \/ lastReceivedTransportMetadata'[h][t] = m
           \/ lastReceivedTransportMetadata'[h][t] = lastReceivedTransportMetadata[h][t]
    <3>1. CASE updateComplete(h, t, b, m)
      BY <1>0, <3>1 DEF updateComplete
    <3>2. CASE updateDelta(h, t, b, m)
      <4> DEFINE old == IF bundleStartsNewLine(h, t, b) \/ metadata[h][t] = Nil
                          THEN m ELSE metadata[h][t].transportBundleMetadata
      <4>1. /\ metadata' = [metadata EXCEPT ![h][t] =
                    [bundleVersion |-> b.ver, transportBundleMetadata |-> old]]
            /\ lastReceivedTransportMetadata' = [lastReceivedTransportMetadata EXCEPT ![h][t] = m]
        BY <3>2 DEF updateDelta
      <4>2. \/ old = m
            \/ metadata[h][t] # Nil /\ old = metadata[h][t].transportBundleMetadata
        OBVIOUS
      <4> HIDE DEF old
      <4>. QED
        BY <1>0, <4>1, <4>2
    <3>. QED
      BY <1>3, <3>1, <3>2
  <2> SUFFICES ASSUME NEW g \in Hubs, NEW u \in Types
               PROVE  /\ metadata'[g][u] # Nil =>
                           metadata'[g][u].transportBundleMetadata \in first..received'
                      /\ lastReceivedTransportMetadata'[g][u] # Nil =>
                           lastReceivedTransportMetadata'[g][u] \in first..received'
                      /\ lastDispatchedDelta'[g][u] # Nil =>
                           lastDispatchedDelta'[g][u].lowestPendingTransportMetadata
                             \in first..received'
    BY DEF UnitOffsets
  <2>3. /\ metadata[g][u] # Nil => metadata[g][u].transportBundleMetadata \in first..m
        /\ lastReceivedTransportMetadata[g][u] # Nil =>
             lastReceivedTransportMetadata[g][u] \in first..m
        /\ lastDispatchedDelta[g][u] # Nil =>
             lastDispatchedDelta[g][u].lowestPendingTransportMetadata \in first..m
    BY <1>0 DEF UnitOffsets
  <2>4. CASE g = h /\ u = t
    BY <1>0, <1>1, <2>1, <2>2, <2>3, <2>4
  <2>5. CASE ~(g = h /\ u = t)
    BY <1>1, <2>1, <2>3, <2>5
  <2>. QED
    BY <2>4, <2>5
<1>. QED
  BY <1>2, <1>3 DEF Insert, m

\* GetNext moves offsets between the fields of an element.
LEMMA GetNextOffsets ==
    ASSUME IInv, NEW first, UnitOffsets(first), NEW h \in Hubs, NEW t \in Types, GetNext(h, t)
    PROVE  UnitOffsets(first)'
<1>0. /\ metadata \in [Hubs -> [Types -> BundleMetadata \cup {Nil}]]
      /\ lastDispatchedDelta \in [Hubs -> [Types -> RecoverableDelta \cup {Nil}]]
      /\ lastReceivedTransportMetadata' = lastReceivedTransportMetadata
      /\ received' = received
  BY DEF IInv, TypeOK, GetNext
<1>1. CASE SyncMode[t] # "delta"
  <2>1. UNCHANGED <<lastDispatchedDelta, metadata>>
    BY <1>1 DEF GetNext
  <2>. QED
    BY <1>0, <2>1, QuietOffsets
<1>2. CASE SyncMode[t] = "delta"
  <2> DEFINE pack == [bundle |-> bundle[h][t],
                      lowestPendingTransportMetadata |-> metadata[h][t].transportBundleMetadata]
             object == WithTransportMetadata(metadata[h][t], lastReceivedTransportMetadata[h][t])
  <2>1. metadata[h][t] # Nil /\ lastReceivedTransportMetadata[h][t] # Nil
    BY <1>2 DEF IInv, PendingHasMetadata, GetNext, isNextReady, ReadyTypes
  <2>2. /\ pack.lowestPendingTransportMetadata \in first..received
        /\ object.transportBundleMetadata \in first..received
    BY <2>1 DEF UnitOffsets, WithTransportMetadata
  <2>3. /\ metadata' = [metadata EXCEPT ![h][t] = object]
        /\ lastDispatchedDelta' = [lastDispatchedDelta EXCEPT ![h][t] = pack]
    BY <1>2 DEF GetNext, getMetadataDelta
  <2> HIDE DEF pack, object
  <2>4. \A g \in Hubs, u \in Types :
          /\ \/ metadata'[g][u] = metadata[g][u]
             \/ metadata'[g][u] = object
          /\ \/ lastDispatchedDelta'[g][u] = lastDispatchedDelta[g][u]
             \/ lastDispatchedDelta'[g][u] = pack
    BY <1>0, <2>3
  <2>. QED
    BY <1>0, <2>2, <2>4 DEF UnitOffsets
<1>. QED
  BY <1>1, <1>2

\* A failed delta pack takes back the offset of its first message.
LEMMA ReportResultOffsets ==
    ASSUME IInv, NEW first, UnitOffsets(first), NEW w \in Workers, NEW h \in Hubs,
           NEW t \in Types, ReportResult(w, h, t)
    PROVE  UnitOffsets(first)'
<1>0. /\ metadata \in [Hubs -> [Types -> BundleMetadata \cup {Nil}]]
      /\ lastDispatchedDelta \in [Hubs -> [Types -> RecoverableDelta \cup {Nil}]]
      /\ lastReceivedTransportMetadata' = lastReceivedTransportMetadata
      /\ received' = received
  BY DEF IInv, TypeOK, ReportResult
<1> DEFINE object == WithTransportMetadata(metadata[h][t],
                         lastDispatchedDelta[h][t].lowestPendingTransportMetadata)
<1>1. /\ \/ metadata' = metadata
         \/ SyncMode[t] = "delta" /\ metadata' = [metadata EXCEPT ![h][t] = object]
      /\ \/ lastDispatchedDelta' = lastDispatchedDelta
         \/ lastDispatchedDelta' = [lastDispatchedDelta EXCEPT ![h][t] = Nil]
  BY DEF ReportResult, reportSuccess, reportError, handleFailure
<1>2. SyncMode[t] = "delta" => object.transportBundleMetadata \in first..received
  <2>1. SyncMode[t] = "delta" => lastDispatchedDelta[h][t] # Nil
    BY DEF IInv, JobFlags, ReportResult
  <2>. QED
    BY <2>1 DEF UnitOffsets, WithTransportMetadata
<1> HIDE DEF object
<1>3. \A g \in Hubs, u \in Types :
        /\ \/ metadata'[g][u] = metadata[g][u]
           \/ SyncMode[t] = "delta" /\ metadata'[g][u] = object
        /\ \/ lastDispatchedDelta'[g][u] = lastDispatchedDelta[g][u]
           \/ lastDispatchedDelta'[g][u] = Nil
  <2>1. \A g \in Hubs, u \in Types :
          \/ metadata'[g][u] = metadata[g][u]
          \/ SyncMode[t] = "delta" /\ metadata'[g][u] = object
    BY <1>0, <1>1
  <2>2. \A g \in Hubs, u \in Types :
          \/ lastDispatchedDelta'[g][u] = lastDispatchedDelta[g][u]
          \/ lastDispatchedDelta'[g][u] = Nil
    BY <1>0, <1>1
  <2>. QED
    BY <2>1, <2>2
<1>. QED
  BY <1>0, <1>2, <1>3 DEF UnitOffsets

\* The dispatcher and the workers.
LEMMA ProcessOffsets ==
    ASSUME IInv, NEW first, UnitOffsets(first), Process
    PROVE  UnitOffsets(first)' /\ received' = received
<1>1. CASE BlockingDequeue \/ Acquire \/ GetNextFails
  BY <1>1, QuietOffsets DEF BlockingDequeue, Acquire, GetNextFails, elementVars
<1>2. ASSUME NEW h \in Hubs, NEW t \in Types, GetNext(h, t)
      PROVE  UnitOffsets(first)' /\ received' = received
  BY <1>2, GetNextOffsets DEF GetNext
<1>3. ASSUME NEW w \in Workers, NEW result \in {"success", "error"}, RunHandler(w, result)
      PROVE  UnitOffsets(first)' /\ received' = received
  BY <1>3, QuietOffsets DEF RunHandler, elementVars
<1>4. ASSUME NEW w \in Workers, NEW h \in Hubs, NEW t \in Types, ReportResult(w, h, t)
      PROVE  UnitOffsets(first)' /\ received' = received
  BY <1>4, ReportResultOffsets DEF ReportResult
<1>. QED
  BY <1>1, <1>2, <1>3, <1>4 DEF Process, Dispatch, Work

------------------------------------------------------------------------------
(* The steps of the manager under Kafka *)

\* The consumer hands the next message of the log to the conflation manager.
LEMMA processMessageKeeps ==
    ASSUME KafkaIInv, processMessage
    PROVE  KafkaIInv' /\ UNCHANGED Contract!contractVars
<1> DEFINE m == received + 1
<1>0. /\ received \in 0..LogLength /\ received < LogLength /\ received' = m
      /\ m \in 1..LogLength /\ m \in Nat /\ LogLength \in Nat
      /\ UNCHANGED <<dispatchVars, processed, dbVars, log, committerVars, restarts>>
      /\ IInv /\ CInv /\ LogIsTyped /\ KafkaTypeOK /\ CommitterIsAhead
  BY KafkaAssumption DEF processMessage, KafkaIInv, KafkaTypeOK
<1> HIDE DEF m
<1>1. PICK h \in Hubs, t \in Types : Insert(h, t, log[m], m)
  BY DEF processMessage, m
<1>2. log[m].ver \in BundleVersions /\ log[m].dep \in BundleVersions
  BY <1>0 DEF LogIsTyped
<1>3. IInv' /\ CInv'
  BY <1>0, <1>1, <1>2, InsertIInv, InsertKeeps
<1>4. UNCHANGED Contract!contractVars
  BY <1>0, <1>1, <1>2, <1>3, InsertOfContract
<1>5. LogIsTyped'
  BY <1>0 DEF LogIsTyped
<1>6. KafkaTypeOK'
  BY <1>0, <1>3 DEF KafkaTypeOK, IInv, committerVars
<1>7. CommitterIsAhead'
  <2>1. ASSUME NEW first \in Nat, UnitOffsets(first), first <= received + 1
        PROVE  UnitOffsets(first)'
    BY <1>0, <1>1, <1>2, <2>1, InsertOffsets DEF m
  <2>2. committed \in Nat /\ committed' = committed /\ commitsMap' = commitsMap
        /\ collected' = collected
    BY <1>0 DEF KafkaTypeOK, committerVars
  <2>3. CASE commitsMap = committed /\ UnitOffsets(1) /\ collected \subseteq 1..LogLength
    <3>1. UnitOffsets(1)'
      BY <1>0, <2>1, <2>3
    <3>. QED
      BY <2>2, <2>3, <3>1 DEF CommitterIsAhead
  <2>4. CASE /\ commitsMap = 0 /\ UnitOffsets(committed) /\ collected \subseteq committed..LogLength
             /\ received >= committed - 1
    <3>1. PICK first \in Nat : first = committed
      BY <2>2
    <3>2. UnitOffsets(first)'
      BY <1>0, <2>1, <2>4, <3>1
    <3>3. UnitOffsets(committed)'
      BY <2>2, <3>1, <3>2 DEF UnitOffsets
    <3>4. received' >= committed' - 1
      BY <1>0, <2>2, <2>4 DEF m
    <3>. QED
      BY <2>2, <2>4, <3>3, <3>4 DEF CommitterIsAhead
  <2>. QED
    BY <1>0, <2>3, <2>4 DEF CommitterIsAhead
<1>. QED
  BY <1>3, <1>4, <1>5, <1>6, <1>7 DEF KafkaIInv

\* The dispatcher and the workers.
LEMMA ProcessKeeps ==
    ASSUME KafkaIInv, Process, UNCHANGED <<log, committerVars, restarts>>
    PROVE  KafkaIInv' /\ [Contract!ContractNext]_(Contract!contractVars)
<1>0. IInv /\ CInv /\ LogIsTyped /\ KafkaTypeOK /\ CommitterIsAhead
  BY DEF KafkaIInv
<1>1. IInv' /\ CInv'
  BY <1>0, NextIInv, NextKeeps DEF Process, Next
<1>2. [Contract!ContractNext]_(Contract!contractVars)
  BY <1>0, <1>1, ProcessOfContract DEF Process
<1>3. received' = received /\ LogIsTyped'
  BY <1>0, ProcessOffsets DEF LogIsTyped, CommitterIsAhead
<1>4. KafkaTypeOK'
  BY <1>0, <1>1, <1>3 DEF KafkaTypeOK, IInv, committerVars
<1>5. CommitterIsAhead'
  <2>1. \A first \in Nat : UnitOffsets(first) => UnitOffsets(first)'
    BY <1>0, ProcessOffsets
  <2>2. committed \in Nat /\ committed' = committed /\ commitsMap' = commitsMap
        /\ collected' = collected
    BY <1>0 DEF KafkaTypeOK, committerVars
  <2>3. PICK first \in Nat : first = committed
    BY <2>2
  <2>4. UnitOffsets(1) => UnitOffsets(1)'
    BY <2>1
  <2>5. UnitOffsets(committed) => UnitOffsets(committed)'
    BY <2>1, <2>2, <2>3 DEF UnitOffsets
  <2>. QED
    BY <1>0, <1>3, <2>2, <2>4, <2>5 DEF CommitterIsAhead
<1>. QED
  BY <1>1, <1>2, <1>3, <1>4, <1>5 DEF KafkaIInv

\* The committer: an offset it commits was collected from metadata of this process.
LEMMA CommitKeeps ==
    ASSUME KafkaIInv, Commit
    PROVE  KafkaIInv' /\ UNCHANGED Contract!contractVars /\ committed' >= committed
<1>0. /\ IInv /\ CInv /\ LogIsTyped /\ KafkaTypeOK /\ CommitterIsAhead
      /\ LogLength \in Nat
      /\ UNCHANGED <<vars, log, restarts>>
  BY KafkaAssumption DEF KafkaIInv, Commit, startCommit, commitOffsets, commitNothing,
                         getBundlesMetadata
<1>1. IInv' /\ CInv' /\ LogIsTyped' /\ received' = received
  <2>1. IInv'
    BY <1>0, NextIInv
  <2>2. CInv'
    BY <1>0, NextKeeps
  <2>. QED
    BY <1>0, <2>1, <2>2 DEF LogIsTyped, vars
<1>2. UNCHANGED Contract!contractVars
  BY <1>0, <1>1, StutterOfContract DEF vars, elementVars, dbVars
<1>3. \A first : UnitOffsets(first) => UnitOffsets(first)'
  BY <1>0, QuietOffsets DEF vars, elementVars
<1>4. /\ received \in 0..LogLength /\ committed \in 1..(LogLength + 1)
      /\ commitsMap \in 0..(LogLength + 1)
      /\ (unitsToRead = Nil \/ unitsToRead \subseteq Hubs) /\ collected \subseteq 1..LogLength
  BY <1>0 DEF KafkaTypeOK
<1>5. SUFFICES /\ committed' \in 1..(LogLength + 1) /\ commitsMap' \in 0..(LogLength + 1)
               /\ (unitsToRead' = Nil \/ unitsToRead' \subseteq Hubs)
               /\ collected' \subseteq 1..LogLength
               /\ CommitterIsAhead' /\ committed' >= committed
  BY <1>0, <1>1, <1>2 DEF KafkaIInv, KafkaTypeOK, IInv
<1>6. ASSUME collected' = {} , UNCHANGED <<committed, commitsMap>>
      PROVE  CommitterIsAhead'
  <2>1. UnitOffsets(1) => UnitOffsets(1)'
    BY <1>3
  <2>2. UnitOffsets(committed) => UnitOffsets(committed)'
    BY <1>3, <1>6 DEF UnitOffsets
  <2>. QED
    BY <1>0, <1>1, <1>6, <2>1, <2>2 DEF CommitterIsAhead
<1>7. CASE startCommit \/ commitNothing
  <2>1. collected' = {} /\ UNCHANGED <<committed, commitsMap>>
        /\ (unitsToRead' = Nil \/ unitsToRead' \subseteq Hubs)
    BY <1>7 DEF startCommit, commitNothing, endPass
  <2>. QED
    BY <1>4, <1>6, <2>1
<1>8. ASSUME NEW h \in Hubs, getBundlesMetadata(h)
      PROVE  /\ committed' \in 1..(LogLength + 1) /\ commitsMap' \in 0..(LogLength + 1)
             /\ (unitsToRead' = Nil \/ unitsToRead' \subseteq Hubs)
             /\ collected' \subseteq 1..LogLength
             /\ CommitterIsAhead' /\ committed' >= committed
  <2> DEFINE read == {metadata[h][t].transportBundleMetadata :
                          t \in {u \in Types : metadata[h][u] # Nil}}
  <2>1. /\ collected' = collected \cup read /\ UNCHANGED <<committed, commitsMap>>
        /\ unitsToRead' \subseteq Hubs
    BY <1>4, <1>8 DEF getBundlesMetadata
  <2>2. \A first \in Nat : UnitOffsets(first) => read \subseteq first..LogLength
    <3> SUFFICES ASSUME NEW first \in Nat, UnitOffsets(first),
                        NEW t \in Types, metadata[h][t] # Nil
                 PROVE  metadata[h][t].transportBundleMetadata \in first..LogLength
      OBVIOUS
    <3>1. metadata[h][t].transportBundleMetadata \in first..received
      BY DEF UnitOffsets
    <3>. QED
      BY <1>0, <1>4, <3>1
  <2> HIDE DEF read
  <2>3. CASE commitsMap = committed /\ UnitOffsets(1) /\ collected \subseteq 1..LogLength
    <3>1. read \subseteq 1..LogLength /\ UnitOffsets(1)'
      BY <1>3, <2>2, <2>3
    <3>. QED
      BY <1>4, <2>1, <2>3, <3>1 DEF CommitterIsAhead
  <2>4. CASE /\ commitsMap = 0 /\ UnitOffsets(committed) /\ collected \subseteq committed..LogLength
             /\ received >= committed - 1
    <3>0. PICK first \in Nat : first = committed
      BY <1>4
    <3>1. read \subseteq committed..LogLength /\ UnitOffsets(committed)'
      <4>1. read \subseteq first..LogLength /\ UnitOffsets(first)'
        BY <1>3, <2>2, <2>4, <3>0
      <4>. QED
        BY <2>1, <3>0, <4>1 DEF UnitOffsets
    <3>2. committed..LogLength \subseteq 1..LogLength
      BY <1>4
    <3>. QED
      BY <1>1, <1>4, <2>1, <2>4, <3>1, <3>2 DEF CommitterIsAhead
  <2>. QED
    BY <1>0, <2>3, <2>4 DEF CommitterIsAhead
<1>9. CASE commitOffsets
  <2> DEFINE offset == offsetToCommit(collected)
  <2>1. /\ collected # {} /\ offset > commitsMap
        /\ committed' = offset /\ commitsMap' = offset
        /\ unitsToRead' = Nil /\ collected' = {}
    BY <1>9 DEF commitOffsets, isAboveCommitted, endPass
  <2>2. \A first \in Nat : collected \subseteq first..LogLength => offset \in first..(LogLength + 1)
    BY <1>0, <2>1, OffsetToCommitRange
  <2> HIDE DEF offset
  <2>3. UnitOffsets(1)'
    <3>1. CASE UnitOffsets(1)
      BY <1>3, <3>1
    <3>2. CASE UnitOffsets(committed)
      <4>1. \A o \in committed..received : o \in 1..received
        BY <1>4
      <4>2. UnitOffsets(1)
        BY <3>2, <4>1 DEF UnitOffsets
      <4>. QED
        BY <1>3, <4>2
    <3>. QED
      BY <1>0, <3>1, <3>2 DEF CommitterIsAhead
  <2>4. offset \in 1..(LogLength + 1)
    BY <1>4, <2>2
  <2>5. offset >= committed
    <3>1. CASE commitsMap = committed
      BY <1>4, <2>1, <2>4, <3>1
    <3>2. CASE collected \subseteq committed..LogLength
      <4>1. offset \in committed..(LogLength + 1)
        BY <1>4, <2>2, <3>2
      <4>. QED
        BY <1>4, <4>1
    <3>. QED
      BY <1>0, <3>1, <3>2 DEF CommitterIsAhead
  <2>. QED
    BY <2>1, <2>3, <2>4, <2>5 DEF CommitterIsAhead
<1>. QED
  BY <1>7, <1>8, <1>9 DEF Commit

\* A crash forgets what was handled, and reads again from what the broker holds.
LEMMA RestartKeeps ==
    ASSUME KafkaIInv, Restart
    PROVE  KafkaIInv' /\ Contract!Forget
<1>0. /\ IInv /\ LogIsTyped /\ KafkaTypeOK /\ NewMemory /\ UNCHANGED <<dbVars, log, committed>>
      /\ received' = committed - 1 /\ commitsMap' = 0 /\ unitsToRead' = Nil /\ collected' = {}
      /\ LogLength \in Nat /\ committed \in 1..(LogLength + 1)
      /\ restarts' \in 0..MaxRestarts
  BY KafkaAssumption DEF KafkaIInv, Restart, endPass, KafkaTypeOK
<1>1. received' \in 0..LogLength /\ received' \in Nat /\ received' >= committed' - 1
  BY <1>0
<1>2. IInv' /\ CInv'
  BY <1>0, <1>1, NewMemoryKeeps DEF IInv, TypeOK, dbVars
<1>3. LogIsTyped'
  BY <1>0 DEF LogIsTyped
<1>4. UnitOffsets(committed)'
  BY <1>0 DEF UnitOffsets, NewMemory, EveryElement
<1>5. CommitterIsAhead'
  BY <1>0, <1>1, <1>4 DEF CommitterIsAhead
<1>6. KafkaTypeOK'
  BY <1>0, <1>1, <1>2 DEF KafkaTypeOK, IInv
<1>7. Contract!Forget
  <2>1. \A h \in Hubs : HandledBundle(h)' = Nil
    BY <1>0 DEF NewMemory, HandledBundle
  <2>. QED
    BY <1>0, <2>1 DEF Contract!Forget, Contract!noBundleVersion, Contract!NewBundleVersion,
                      noBundleVersion, NewBundleVersion, NewMemory, EveryElement, dbVars
<1>. QED
  BY <1>2, <1>3, <1>5, <1>6, <1>7 DEF KafkaIInv

\* The first process finds the broker at the first offset.
LEMMA KafkaInitKeeps == KafkaInit => KafkaIInv
<1> SUFFICES ASSUME KafkaInit PROVE KafkaIInv
  OBVIOUS
<1>1. IInv /\ CInv /\ LogIsTyped
  BY InitIInv, InitKeeps, LogsAreTyped DEF KafkaInit
<1>2. LogLength \in Nat /\ MaxRestarts \in Nat
  BY KafkaAssumption
<1>3. KafkaTypeOK
  BY <1>1, <1>2 DEF KafkaTypeOK, IInv, KafkaInit, Init
<1>4. UnitOffsets(committed) /\ received >= committed - 1
  BY DEF UnitOffsets, KafkaInit, Init, EveryElement
<1>5. CommitterIsAhead
  BY <1>4 DEF CommitterIsAhead, KafkaInit
<1>. QED
  BY <1>1, <1>3, <1>5 DEF KafkaIInv

\* Every step under Kafka keeps the invariant, is a step of the contract or a stutter of
\* it, and moves the broker's offset forward if at all.
LEMMA KafkaNextKeeps ==
    ASSUME KafkaIInv, [KafkaNext]_kafkaVars
    PROVE  /\ KafkaIInv'
           /\ [Contract!ContractNext]_(Contract!contractVars)
           /\ committed' >= committed
<1>0. committed \in Nat /\ committed >= committed
  BY KafkaAssumption DEF KafkaIInv, KafkaTypeOK
<1>1. CASE UNCHANGED kafkaVars
  <2>1. UNCHANGED vars /\ UNCHANGED <<log, committerVars, restarts>>
    BY <1>1 DEF kafkaVars
  <2>2. IInv'
    BY <2>1, NextIInv DEF KafkaIInv
  <2>3. CInv'
    BY <2>1, NextKeeps DEF KafkaIInv
  <2>4. LogIsTyped' /\ KafkaTypeOK'
    BY <2>1, <2>2 DEF KafkaIInv, LogIsTyped, KafkaTypeOK, IInv, committerVars, vars
  <2>5. CommitterIsAhead'
    BY <2>1 DEF KafkaIInv, CommitterIsAhead, UnitOffsets, committerVars, vars, elementVars
  <2>6. UNCHANGED Contract!contractVars
    BY <2>1, <2>2, StutterOfContract DEF KafkaIInv, vars, elementVars, dbVars
  <2>. QED
    BY <1>0, <2>1, <2>2, <2>3, <2>4, <2>5, <2>6 DEF KafkaIInv, committerVars
<1>2. CASE processMessage
  BY <1>0, <1>2, processMessageKeeps DEF processMessage, committerVars
<1>3. CASE Process /\ UNCHANGED <<log, committerVars, restarts>>
  BY <1>0, <1>3, ProcessKeeps DEF committerVars
<1>4. CASE Commit
  BY <1>4, CommitKeeps
<1>5. CASE Restart
  BY <1>0, <1>5, RestartKeeps DEF Restart, Contract!ContractNext
<1>. QED
  BY <1>1, <1>2, <1>3, <1>4, <1>5 DEF KafkaNext

\* The invariant holds in every reachable state, whatever crashes.
LEMMA KafkaIsDescribed == KafkaSpec => []KafkaIInv
BY KafkaInitKeeps, KafkaNextKeeps, PTL DEF KafkaSpec

\* Type correctness of the consumer and the committer: the offset the broker holds is
\* always one of the log or the one after its last.
THEOREM KafkaTypeCorrect == KafkaSpec => []KafkaTypeOK
<1>1. KafkaIInv => KafkaTypeOK
  BY DEF KafkaIInv
<1>. QED
  BY <1>1, KafkaIsDescribed, PTL

\* The offset a restarted consumer resumes from never goes back, for any log and any
\* number of crashes, although the committer forgets what it committed.
THEOREM CommitsOnlyAdvance == KafkaSpec => CommitNeverGoesBack
<1>1. KafkaIInv /\ [KafkaNext]_kafkaVars => [committed' >= committed]_kafkaVars
  BY KafkaNextKeeps
<1>. QED
  BY <1>1, KafkaIsDescribed, PTL DEF KafkaSpec, CommitNeverGoesBack

\* With the Kafka consumer too, and crashes between any two steps, the handler functions
\* see what HandlerContract promises: a crash is the contract's Forget.
THEOREM KafkaImplementsContract == KafkaSpec => ImplementsContract
<1>1. KafkaInit => Contract!ContractInit
  BY InitOfContract DEF KafkaInit
<1>2. KafkaIInv /\ [KafkaNext]_kafkaVars => [Contract!ContractNext]_(Contract!contractVars)
  BY KafkaNextKeeps
<1>. QED
  BY <1>1, <1>2, KafkaIsDescribed, PTL DEF KafkaSpec, ImplementsContract, Contract!ContractSpec

\* No step under Kafka leaves a unit with a ready bundle idle and unqueued; a new
\* manager's units have nothing ready.
LEMMA KafkaNoIdle ==
    ASSUME KafkaIInv, [KafkaNext]_kafkaVars, NoIdleReadyUnit
    PROVE  NoIdleReadyUnit'
<1>0. IInv
  BY DEF KafkaIInv
<1>1. CASE [Next]_vars
  BY <1>0, <1>1, NextNoIdle
<1>2. CASE processMessage
  <2> DEFINE m == received + 1
  <2>1. m \in 1..LogLength /\ m \in Nat
    BY <1>2, KafkaAssumption DEF processMessage, KafkaIInv, KafkaTypeOK
  <2>2. log[m].ver \in BundleVersions /\ log[m].dep \in BundleVersions
    BY <2>1 DEF KafkaIInv, LogIsTyped
  <2>3. PICK h \in Hubs, t \in Types : Insert(h, t, log[m], m)
    BY <1>2 DEF processMessage
  <2> HIDE DEF m
  <2>. QED
    BY <1>0, <2>1, <2>2, <2>3, InsertNoIdle
<1>3. CASE Restart
  BY <1>3 DEF Restart, NewMemory, NoIdleReadyUnit, ReadyTypes, EveryElement
<1>4. CASE UNCHANGED vars
  BY <1>1, <1>4
<1>5. CASE Process
  BY <1>1, <1>5 DEF Process, Next
<1>. QED
  BY <1>2, <1>3, <1>4, <1>5
     DEF KafkaNext, Commit, startCommit, commitOffsets, commitNothing, getBundlesMetadata,
         kafkaVars

\* With crashes between any two steps, too, no bundle waits in an idle unit that is not
\* queued, whichever of insert, GetNext and ReportResult came last.
THEOREM KafkaNoLostWakeUp == KafkaSpec => []NoIdleReadyUnit
<1>1. KafkaInit => NoIdleReadyUnit
  BY DEF KafkaInit, Init, NoIdleReadyUnit, ReadyTypes, EveryElement
<1>. QED
  BY <1>1, KafkaNoIdle, KafkaIsDescribed, PTL DEF KafkaSpec

\* What ReportResult marks for the committer was written, also by a process that crashes
\* and reads the same messages again.
THEOREM KafkaMarkedAfterWritten == KafkaSpec => []MarkedIsApplied
<1>1. KafkaIInv => MarkedIsApplied
  BY DEF KafkaIInv, CInv
<1>. QED
  BY <1>1, KafkaIsDescribed, PTL

------------------------------------------------------------------------------
(* Under Kafka: the log, what this process has read of it, and what it committed *)

\* Message m of the log is of hub h and type t.
IsOf(m, h, t) == m \in 1..LogLength /\ log[m].hub = h /\ log[m].type = t

\* A leaf hub's versions of a type grow along the log, from above noBundleVersion.
LogIsInOrder ==
    \A h \in Hubs, t \in Types, k \in 1..LogLength : IsOf(k, h, t) =>
        /\ NewerThan(log[k].ver, noBundleVersion)
        /\ \A i \in 1..LogLength : i < k /\ IsOf(i, h, t) => NewerThan(log[k].ver, log[i].ver)

\* A metadata object of element (h, t) names a message of h and t; for a complete-state
\* type, the one whose version it holds.
NamesMessage(object, h, t) ==
    /\ IsOf(object.transportBundleMetadata, h, t)
    /\ SyncMode[t] = "complete" =>
         log[object.transportBundleMetadata].ver = object.bundleVersion

\* So do the metadata of elements and jobs, and the offsets that deltas keep.
OffsetsAreOfType ==
    /\ \A h \in Hubs, t \in Types :
        /\ metadata[h][t] # Nil => NamesMessage(metadata[h][t], h, t)
        /\ lastReceivedTransportMetadata[h][t] # Nil =>
             IsOf(lastReceivedTransportMetadata[h][t], h, t)
        /\ lastDispatchedDelta[h][t] # Nil =>
             IsOf(lastDispatchedDelta[h][t].lowestPendingTransportMetadata, h, t)
    /\ \A w \in Workers : job[w] # Nil => NamesMessage(JobMetadata(w), job[w].hub, job[w].type)

\* For complete-state types: what is marked as processed is not newer than what the unit
\* remembers, which is not newer than what is stored.
ProcessedIsStored ==
    \A h \in Hubs, t \in CompleteTypes :
        /\ ~NewerThan(lastProcessedBundleVersion[h][t], stored[h][t])
        /\ \A m \in processed :
             IsOf(m, h, t) => ~NewerThan(log[m].ver, lastProcessedBundleVersion[h][t])

\* A message that this process has not read is newer than all that its unit has.
UnreadIsNewer ==
    \A h \in Hubs, t \in CompleteTypes, k \in 1..LogLength : received < k /\ IsOf(k, h, t) =>
        /\ NewerThan(log[k].ver, lastProcessedBundleVersion[h][t])
        /\ bundle[h][t] # Nil => NewerThan(log[k].ver, bundle[h][t].ver)
        /\ \A w \in Workers : job[w] # Nil /\ job[w].hub = h /\ job[w].type = t =>
             NewerThan(log[k].ver, job[w].bundle.ver)

\* Every message read that may still be committed is known to its unit, by itself or by a
\* later one that replaced it.
ReadIsKnown ==
    \A h \in Hubs, t \in CompleteTypes, i \in 1..LogLength :
        committed <= i /\ i <= received /\ IsOf(i, h, t) =>
          metadata[h][t] # Nil /\ i <= metadata[h][t].transportBundleMetadata

\* What a pass of the committer collected knows every message before it, too.
PassIsWhole ==
    /\ collected \subseteq 1..received
    /\ unitsToRead # Nil /\ unitsToRead # {} => collected = {}
    /\ \A h \in Hubs, t \in CompleteTypes, i \in 1..LogLength :
         committed <= i /\ IsOf(i, h, t) /\ (\E x \in collected : i <= x) =>
           \E m \in collected : i <= m /\ IsOf(m, h, t)

\* The broker has a newer message of h and t to give to a restarted consumer.
IsSuperseded(v, h, t) ==
    \E k \in committed..LogLength : IsOf(k, h, t) /\ NewerThan(log[k].ver, v)

\* Version v of h and t is stored and nothing older is about to be.
IsSafelyStored(v, h, t) ==
    /\ ~NewerThan(v, stored[h][t])
    /\ bundle[h][t] # Nil => ~NewerThan(v, bundle[h][t].ver)
    /\ \A w \in Workers : job[w] # Nil /\ job[w].hub = h /\ job[w].type = t =>
         ~NewerThan(v, job[w].bundle.ver)

CommittedIsSafe ==
    /\ committed <= received + 1
    /\ \A h \in Hubs, t \in CompleteTypes, i \in 1..LogLength :
         i < committed /\ IsOf(i, h, t) =>
           IsSuperseded(log[i].ver, h, t) \/ IsSafelyStored(log[i].ver, h, t)

\* The invariant of the committed offset.
KafkaSafety ==
    /\ LogIsInOrder
    /\ OffsetsAreOfType
    /\ ProcessedIsStored
    /\ UnreadIsNewer
    /\ ReadIsKnown
    /\ PassIsWhole
    /\ CommittedIsSafe

\* What CountSent counts.
SentUpTo(choice, n, h, t) == {i \in 1..n : choice[i].hub = h /\ choice[i].type = t}

\* A leaf hub counts the bundles of a type: no two have the same number.
LEMMA CountSentGrows ==
    ASSUME NEW choice, NEW i \in 1..LogLength, NEW k \in 1..LogLength
    PROVE  LET h == choice[k].hub
               t == choice[k].type
           IN  /\ CountSent(choice, k, h, t) \in Nat /\ CountSent(choice, i, h, t) \in Nat
               /\ CountSent(choice, k, h, t) > 0
               /\ i < k => CountSent(choice, i, h, t) < CountSent(choice, k, h, t)
<1> DEFINE h == choice[k].hub
           t == choice[k].type
           S == SentUpTo(choice, i, h, t)
           T == SentUpTo(choice, k, h, t)
<1>1. ASSUME NEW n \in 1..LogLength
      PROVE  /\ IsFiniteSet(SentUpTo(choice, n, h, t))
             /\ CountSent(choice, n, h, t) = Cardinality(SentUpTo(choice, n, h, t))
  <2>1. IsFiniteSet(1..n)
    BY FS_Interval, KafkaAssumption
  <2>2. SentUpTo(choice, n, h, t) \in SUBSET (1..n)
    BY DEF SentUpTo
  <2>. QED
    BY <2>1, <2>2, FS_Subset DEF CountSent, SentUpTo
<1>2. k \in T /\ (i < k => S \subseteq T /\ k \notin S)
  BY KafkaAssumption DEF SentUpTo
<1> HIDE DEF h, t
<1>3. /\ IsFiniteSet(S) /\ CountSent(choice, i, h, t) = Cardinality(S)
      /\ IsFiniteSet(T) /\ CountSent(choice, k, h, t) = Cardinality(T)
  BY <1>1
<1> HIDE DEF S, T
<1>4. Cardinality(S) \in Nat /\ Cardinality(T) \in Nat /\ Cardinality(T) # 0
  BY <1>2, <1>3, FS_CardinalityType, FS_EmptySet
<1>5. i < k => Cardinality(S) < Cardinality(T)
  <2> SUFFICES ASSUME i < k PROVE Cardinality(S) < Cardinality(T)
    OBVIOUS
  <2>1. S \in SUBSET T /\ S # T
    BY <1>2
  <2>2. Cardinality(S) <= Cardinality(T) /\ (Cardinality(S) = Cardinality(T) => S = T)
    BY <1>3, <2>1, FS_Subset
  <2>. QED
    BY <1>4, <2>1, <2>2
<1>. QED
  BY <1>3, <1>4, <1>5 DEF h, t

\* The versions along a log.
LEMMA LogsAreInOrder == log \in Logs => LogIsInOrder
<1> SUFFICES ASSUME log \in Logs, NEW h \in Hubs, NEW t \in Types,
                    NEW k \in 1..LogLength, IsOf(k, h, t)
             PROVE  /\ NewerThan(log[k].ver, noBundleVersion)
                    /\ \A i \in 1..LogLength :
                         i < k /\ IsOf(i, h, t) => NewerThan(log[k].ver, log[i].ver)
  BY DEF LogIsInOrder
<1>1. PICK choice \in [1..LogLength -> [hub : Hubs, type : Types]] :
        log = [i \in 1..LogLength |-> SentMessage(choice, i)]
  BY DEF Logs
<1>2. \A i \in 1..LogLength :
        /\ log[i].hub = choice[i].hub /\ log[i].type = choice[i].type
        /\ log[i].ver = NewBundleVersion(0, CountSent(choice, i, choice[i].hub, choice[i].type))
  BY <1>1 DEF SentMessage
<1>3. choice[k].hub = h /\ choice[k].type = t
  BY <1>2 DEF IsOf
<1> DEFINE Count(i) == CountSent(choice, i, h, t)
<1>4. Count(k) \in Nat /\ Count(k) > 0 /\ log[k].ver = NewBundleVersion(0, Count(k))
  BY <1>2, <1>3, CountSentGrows
<1>5. ASSUME NEW i \in 1..LogLength, i < k, IsOf(i, h, t)
      PROVE  Count(i) \in Nat /\ Count(i) < Count(k) /\ log[i].ver = NewBundleVersion(0, Count(i))
  <2>1. choice[i].hub = h /\ choice[i].type = t
    BY <1>2, <1>5 DEF IsOf
  <2>. QED
    BY <1>2, <1>3, <1>5, <2>1, CountSentGrows
<1> HIDE DEF Count
<1>6. \A x, y \in Nat :
        x > y => NewerThan(NewBundleVersion(0, x), NewBundleVersion(0, y))
  BY DEF NewerThan, NewBundleVersion
<1>. QED
  BY <1>4, <1>5, <1>6 DEF noBundleVersion

\* The types of the versions that are compared.
LEMMA KafkaVersionTypes ==
    ASSUME KafkaIInv
    PROVE  /\ \A h \in Hubs, t \in Types :
                /\ lastProcessedBundleVersion[h][t] \in BundleVersions
                /\ stored[h][t] \in BundleVersions
                /\ bundle[h][t] # Nil => bundle[h][t].ver \in BundleVersions
           /\ \A w \in Workers : job[w] # Nil =>
                /\ job[w].hub \in Hubs /\ job[w].type \in Types
                /\ job[w].bundle.ver \in BundleVersions
           /\ \A k \in 1..LogLength : log[k].ver \in BundleVersions
           /\ LogLength \in Nat /\ received \in 0..LogLength /\ committed \in 1..(LogLength + 1)
<1>1. \A h \in Hubs, t \in Types :
        /\ lastProcessedBundleVersion[h][t] \in BundleVersions
        /\ stored[h][t] \in BundleVersions
        /\ bundle[h][t] # Nil => bundle[h][t].ver \in BundleVersions
  BY DEF KafkaIInv, IInv, TypeOK, Bundle
<1>2. \A w \in Workers : job[w] # Nil =>
        /\ job[w].hub \in Hubs /\ job[w].type \in Types /\ job[w].bundle.ver \in BundleVersions
  BY DEF KafkaIInv, IInv, TypeOK, DBJob, Bundle
<1>. QED
  BY <1>1, <1>2, KafkaAssumption DEF KafkaIInv, LogIsTyped, KafkaTypeOK

------------------------------------------------------------------------------
(* The consumer keeps the committed offset safe *)

\* Insert takes the message or returns early, as far as offsets are concerned.
LEMMA InsertNames ==
    ASSUME IInv, NEW h \in Hubs, NEW t \in Types, NEW m \in Nat, IsOf(m, h, t),
           log[m].ver \in BundleVersions, log[m].dep \in BundleVersions,
           Insert(h, t, log[m], m), UNCHANGED log, OffsetsAreOfType
    PROVE  /\ OffsetsAreOfType'
           /\ \A g \in Hubs, u \in Types : g # h \/ u # t => metadata'[g][u] = metadata[g][u]
           /\ IF isNewerBundle(h, t, log[m])
                THEN SyncMode[t] = "complete" =>
                       metadata'[h][t] # Nil /\ metadata'[h][t].transportBundleMetadata = m
                ELSE UNCHANGED <<bundle, metadata, job>>
<1> DEFINE b == log[m]
<1>0. \A k, g, u : IsOf(k, g, u)' <=> IsOf(k, g, u)
  BY DEF IsOf
<1>1. CASE ~isNewerBundle(h, t, b)
  <2>1. UNCHANGED <<elementVars, job>>
    BY <1>1 DEF Insert
  <2>2. \A w \in Workers : JobMetadata(w)' = JobMetadata(w)
    BY <2>1 DEF JobMetadata, elementVars
  <2>. QED
    BY <1>0, <1>1, <2>1, <2>2 DEF OffsetsAreOfType, NamesMessage, elementVars
<1>2. CASE isNewerBundle(h, t, b)
  <2>1. /\ \/ SyncMode[t] = "complete" /\ updateComplete(h, t, b, m)
           \/ SyncMode[t] # "complete" /\ updateDelta(h, t, b, m)
        /\ job' = JobsAfterUpdate(h, t)
    BY <1>2 DEF Insert
  <2>2. /\ lastDispatchedDelta' = lastDispatchedDelta /\ metadata'[h][t] # Nil
        /\ \A g \in Hubs, u \in Types : g # h \/ u # t =>
             /\ metadata'[g][u] = metadata[g][u]
             /\ lastReceivedTransportMetadata'[g][u] = lastReceivedTransportMetadata[g][u]
    BY <2>1, UpdateElement
  <2>3. /\ metadata'[h][t].bundleVersion = b.ver
        /\ SyncMode[t] = "complete" => metadata'[h][t].transportBundleMetadata = m
    BY <2>1, InsertElement
  <2>4. \A w \in Workers :
          /\ job'[w] = Nil <=> job[w] = Nil
          /\ job[w] # Nil => /\ job'[w].hub = job[w].hub /\ job'[w].type = job[w].type
                             /\ JobMetadata(w)' = JobMetadata(w)
    BY <2>1, <2>2, InsertJobs
  <2>5. /\ metadata \in [Hubs -> [Types -> BundleMetadata \cup {Nil}]]
        /\ lastReceivedTransportMetadata \in [Hubs -> [Types -> Nat \cup {Nil}]]
    BY DEF IInv, TypeOK
  <2>6. /\ NamesMessage(metadata'[h][t], h, t)
        /\ lastReceivedTransportMetadata'[h][t] # Nil =>
             IsOf(lastReceivedTransportMetadata'[h][t], h, t)
    <3>1. CASE SyncMode[t] = "complete"
      <4>1. lastReceivedTransportMetadata' = lastReceivedTransportMetadata
        BY <2>1, <3>1 DEF updateComplete
      <4>. QED
        BY <2>3, <3>1, <4>1 DEF NamesMessage, OffsetsAreOfType
    <3>2. CASE SyncMode[t] # "complete"
      <4> DEFINE old == IF bundleStartsNewLine(h, t, b) \/ metadata[h][t] = Nil
                          THEN m ELSE metadata[h][t].transportBundleMetadata
      <4>1. /\ metadata' = [metadata EXCEPT ![h][t] =
                    [bundleVersion |-> b.ver, transportBundleMetadata |-> old]]
            /\ lastReceivedTransportMetadata' = [lastReceivedTransportMetadata EXCEPT ![h][t] = m]
        BY <2>1, <3>2 DEF updateDelta
      <4>2. IsOf(old, h, t)
        BY DEF OffsetsAreOfType, NamesMessage
      <4> HIDE DEF old
      <4>. QED
        BY <2>5, <3>2, <4>1, <4>2 DEF NamesMessage
    <3>. QED
      BY <3>1, <3>2
  <2>7. ASSUME NEW g \in Hubs, NEW u \in Types
        PROVE  /\ metadata'[g][u] # Nil => NamesMessage(metadata'[g][u], g, u)
               /\ lastReceivedTransportMetadata'[g][u] # Nil =>
                    IsOf(lastReceivedTransportMetadata'[g][u], g, u)
               /\ lastDispatchedDelta'[g][u] # Nil =>
                    IsOf(lastDispatchedDelta'[g][u].lowestPendingTransportMetadata, g, u)
    BY <2>2, <2>6 DEF OffsetsAreOfType
  <2>8. \A w \in Workers : job'[w] # Nil =>
          NamesMessage(JobMetadata(w)', job'[w].hub, job'[w].type)
    BY <2>4 DEF OffsetsAreOfType
  <2>9. \A o, g, u : NamesMessage(o, g, u) => NamesMessage(o, g, u)'
    BY <1>0 DEF NamesMessage
  <2>. QED
    BY <1>0, <1>2, <2>2, <2>3, <2>7, <2>8, <2>9 DEF OffsetsAreOfType
<1>. QED
  BY <1>1, <1>2

\* The next message is newer than all that its unit has, so insert takes it.
LEMMA processMessageSafe ==
    ASSUME KafkaIInv, KafkaSafety, processMessage
    PROVE  KafkaSafety'
<1> DEFINE m == received + 1
<1>0. /\ received \in 0..LogLength /\ m \in 1..LogLength /\ m \in Nat /\ received' = m
      /\ received < m /\ LogLength \in Nat /\ committed \in 1..(LogLength + 1)
      /\ committed <= m /\ \A i \in 1..LogLength : i <= m => i = m \/ i <= received
      /\ \A i \in 1..LogLength : m < i => received < i
      /\ UNCHANGED <<processed, stored, log, committed, unitsToRead, collected>>
      /\ IInv /\ CInv /\ LogIsInOrder
  BY KafkaVersionTypes
     DEF processMessage, KafkaIInv, committerVars, dbVars, KafkaSafety, CommittedIsSafe
<1> HIDE DEF m
<1>1. PICK h \in Hubs, t \in Types : IsOf(m, h, t) /\ Insert(h, t, log[m], m)
  BY <1>0 DEF processMessage, m, IsOf
<1> DEFINE b == log[m]
<1>2. b.ver \in BundleVersions /\ b.dep \in BundleVersions
  BY <1>0 DEF KafkaIInv, LogIsTyped
<1>3. /\ JobsStay /\ OtherElementsStay(h, t) /\ UNCHANGED lastProcessedBundleVersion
      /\ \/ ~isNewerBundle(h, t, b) /\ bundle' = bundle
         \/ isNewerBundle(h, t, b) /\ bundle'[h][t] # Nil /\ bundle'[h][t].ver = b.ver
  BY <1>0, <1>1, <1>2, InsertEffect DEF elementVars
<1>4. /\ \A g \in Hubs, u \in Types : IsOf(m, g, u) => g = h /\ u = t
      /\ \A k, g, u : IsOf(k, g, u)' <=> IsOf(k, g, u)
  BY <1>0, <1>1 DEF IsOf
<1>5. t \in CompleteTypes => isNewerBundle(h, t, b)
  BY <1>0, <1>1 DEF KafkaSafety, UnreadIsNewer, isNewerBundle
<1>6. /\ OffsetsAreOfType'
      /\ \A g \in Hubs, u \in Types : g # h \/ u # t => metadata'[g][u] = metadata[g][u]
      /\ t \in CompleteTypes =>
           metadata'[h][t] # Nil /\ metadata'[h][t].transportBundleMetadata = m
  BY <1>0, <1>1, <1>2, <1>5, InsertNames DEF KafkaSafety, CompleteTypes
<1>7. \A g \in Hubs, u \in Types :
        /\ bundle'[g][u] # Nil =>
             \/ bundle[g][u] # Nil /\ bundle'[g][u].ver = bundle[g][u].ver
             \/ g = h /\ u = t /\ bundle'[g][u].ver = b.ver
        /\ \A w \in Workers : job'[w] # Nil =>
             /\ job[w] # Nil /\ job'[w].hub = job[w].hub /\ job'[w].type = job[w].type
             /\ job'[w].bundle = job[w].bundle
  BY <1>3 DEF JobsStay, OtherElementsStay
<1>8. LogIsInOrder' /\ ProcessedIsStored'
  BY <1>0, <1>3, <1>4 DEF KafkaSafety, LogIsInOrder, ProcessedIsStored
<1>9. UnreadIsNewer'
  <2> SUFFICES ASSUME NEW g \in Hubs, NEW u \in CompleteTypes, NEW k \in 1..LogLength,
                      m < k, IsOf(k, g, u)
               PROVE  /\ NewerThan(log[k].ver, lastProcessedBundleVersion[g][u])
                      /\ bundle'[g][u] # Nil => NewerThan(log[k].ver, bundle'[g][u].ver)
                      /\ \A w \in Workers : job'[w] # Nil /\ job'[w].hub = g /\ job'[w].type = u =>
                           NewerThan(log[k].ver, job'[w].bundle.ver)
    BY <1>0, <1>3, <1>4 DEF UnreadIsNewer
  <2>1. /\ NewerThan(log[k].ver, lastProcessedBundleVersion[g][u])
        /\ bundle[g][u] # Nil => NewerThan(log[k].ver, bundle[g][u].ver)
        /\ \A w \in Workers : job[w] # Nil /\ job[w].hub = g /\ job[w].type = u =>
                           NewerThan(log[k].ver, job[w].bundle.ver)
    BY <1>0 DEF KafkaSafety, UnreadIsNewer
  <2>2. g = h /\ u = t => NewerThan(log[k].ver, b.ver)
    BY <1>0, <1>1 DEF LogIsInOrder, CompleteTypes
  <2>. QED
    BY <1>7, <2>1, <2>2 DEF CompleteTypes
<1>10. ReadIsKnown'
  <2> SUFFICES ASSUME NEW g \in Hubs, NEW u \in CompleteTypes, NEW i \in 1..LogLength,
                      committed <= i, i <= m, IsOf(i, g, u)
               PROVE  metadata'[g][u] # Nil /\ i <= metadata'[g][u].transportBundleMetadata
    BY <1>0, <1>4 DEF ReadIsKnown
  <2>1. CASE g = h /\ u = t
    BY <1>6, <2>1
  <2>2. CASE ~(g = h /\ u = t)
    <3>1. i <= received
      BY <1>0, <1>4, <2>2 DEF CompleteTypes
    <3>2. metadata'[g][u] = metadata[g][u]
      BY <1>6, <2>2 DEF CompleteTypes
    <3>. QED
      BY <3>1, <3>2 DEF KafkaSafety, ReadIsKnown
  <2>. QED
    BY <2>1, <2>2
<1>11. PassIsWhole'
  <2>1. \A x \in 1..received : x \in 1..m
    BY <1>0
  <2>2. collected' \subseteq 1..received'
    BY <1>0, <2>1 DEF KafkaSafety, PassIsWhole
  <2>. QED
    BY <1>0, <1>4, <2>2 DEF KafkaSafety, PassIsWhole
<1>12. CommittedIsSafe'
  <2>1. committed' <= received' + 1
    BY <1>0
  <2> SUFFICES ASSUME NEW g \in Hubs, NEW u \in CompleteTypes, NEW i \in 1..LogLength,
                      i < committed, IsOf(i, g, u)
               PROVE  IsSuperseded(log[i].ver, g, u)' \/ IsSafelyStored(log[i].ver, g, u)'
    BY <1>0, <1>4, <2>1 DEF CommittedIsSafe
  <2>2. IsSuperseded(log[i].ver, g, u) \/ IsSafelyStored(log[i].ver, g, u)
    BY DEF KafkaSafety, CommittedIsSafe
  <2>3. CASE IsSuperseded(log[i].ver, g, u)
    BY <1>0, <1>4, <2>3 DEF IsSuperseded
  <2>4. CASE IsSafelyStored(log[i].ver, g, u)
    <3>1. g = h /\ u = t => ~NewerThan(log[i].ver, b.ver)
      <4>1. i < m /\ log[i].ver \in BundleVersions
        BY <1>0, KafkaVersionTypes
      <4>. QED
        BY <1>0, <1>1, <1>2, <4>1, VersionOrder DEF LogIsInOrder, CompleteTypes
    <3>. QED
      BY <1>0, <1>7, <2>4, <3>1 DEF IsSafelyStored, CompleteTypes
  <2>. QED
    BY <2>2, <2>3, <2>4
<1>. QED
  BY <1>6, <1>8, <1>9, <1>10, <1>11, <1>12 DEF KafkaSafety

------------------------------------------------------------------------------
(* The dispatcher and the workers keep the committed offset safe *)

\* For complete-state types: the dispatcher and the workers only move bundles on, from
\* the element to a job and from a job to the unit's memory and to the database.
BundlesMoveOn ==
    /\ \A h \in Hubs, t \in CompleteTypes :
        /\ metadata'[h][t] = metadata[h][t]
        /\ bundle'[h][t] # Nil => bundle[h][t] # Nil /\ bundle'[h][t].ver = bundle[h][t].ver
        /\ \/ lastProcessedBundleVersion'[h][t] = lastProcessedBundleVersion[h][t]
           \/ \E w \in Workers : /\ job[w] # Nil /\ job[w].hub = h /\ job[w].type = t
                                 /\ lastProcessedBundleVersion'[h][t] = job[w].bundle.ver
        /\ \/ stored'[h][t] = stored[h][t]
           \/ \E w \in Workers : /\ job[w] # Nil /\ job[w].hub = h /\ job[w].type = t
                                 /\ stored'[h][t] = job[w].bundle.ver
    /\ \A w \in Workers : job'[w] # Nil /\ job'[w].type \in CompleteTypes =>
        LET h == job'[w].hub
            t == job'[w].type
        IN  \/ /\ job[w] # Nil /\ job[w].hub = h /\ job[w].type = t
               /\ job'[w].bundle = job[w].bundle
            \/ h \in Hubs /\ bundle[h][t] # Nil /\ job'[w].bundle.ver = bundle[h][t].ver

\* That is enough for what the log and the committer are concerned with.
LEMMA MovingOnIsSafe ==
    ASSUME KafkaIInv, KafkaSafety, BundlesMoveOn, received' = received,
           UNCHANGED <<log, committerVars>>
    PROVE  /\ LogIsInOrder' /\ UnreadIsNewer' /\ ReadIsKnown' /\ PassIsWhole'
           /\ CommittedIsSafe'
<1>0. /\ \A k, g, u : IsOf(k, g, u)' <=> IsOf(k, g, u)
      /\ UNCHANGED <<log, committed, unitsToRead, collected>>
  BY DEF IsOf, committerVars
<1>1. LogIsInOrder' /\ PassIsWhole'
  BY <1>0 DEF KafkaSafety, LogIsInOrder, PassIsWhole
<1>2. ReadIsKnown'
  BY <1>0 DEF KafkaSafety, ReadIsKnown, BundlesMoveOn
<1>3. UnreadIsNewer'
  <2> SUFFICES ASSUME NEW g \in Hubs, NEW u \in CompleteTypes, NEW k \in 1..LogLength,
                      received < k, IsOf(k, g, u)
               PROVE  /\ NewerThan(log[k].ver, lastProcessedBundleVersion'[g][u])
                      /\ bundle'[g][u] # Nil => NewerThan(log[k].ver, bundle'[g][u].ver)
                      /\ \A w \in Workers : job'[w] # Nil /\ job'[w].hub = g /\ job'[w].type = u =>
                           NewerThan(log[k].ver, job'[w].bundle.ver)
    BY <1>0 DEF UnreadIsNewer
  <2>1. /\ NewerThan(log[k].ver, lastProcessedBundleVersion[g][u])
        /\ bundle[g][u] # Nil => NewerThan(log[k].ver, bundle[g][u].ver)
        /\ \A w \in Workers : job[w] # Nil /\ job[w].hub = g /\ job[w].type = u =>
                           NewerThan(log[k].ver, job[w].bundle.ver)
    BY DEF KafkaSafety, UnreadIsNewer
  <2>. QED
    BY <2>1 DEF BundlesMoveOn
<1>4. CommittedIsSafe'
  <2> SUFFICES ASSUME NEW g \in Hubs, NEW u \in CompleteTypes, NEW i \in 1..LogLength,
                      i < committed, IsOf(i, g, u)
               PROVE  IsSuperseded(log[i].ver, g, u)' \/ IsSafelyStored(log[i].ver, g, u)'
    BY <1>0 DEF KafkaSafety, CommittedIsSafe
  <2>1. IsSuperseded(log[i].ver, g, u) \/ IsSafelyStored(log[i].ver, g, u)
    BY DEF KafkaSafety, CommittedIsSafe
  <2>2. CASE IsSuperseded(log[i].ver, g, u)
    BY <1>0, <2>2 DEF IsSuperseded
  <2>3. CASE IsSafelyStored(log[i].ver, g, u)
    BY <1>0, <2>3 DEF IsSafelyStored, BundlesMoveOn
  <2>. QED
    BY <2>1, <2>2, <2>3
<1>. QED
  BY <1>1, <1>2, <1>3, <1>4

\* GetNext: a delta pack takes the offset of its last message.
LEMMA GetNextMovesOn ==
    ASSUME KafkaIInv, KafkaSafety, NEW h \in Hubs, NEW t \in Types, GetNext(h, t), UNCHANGED log
    PROVE  BundlesMoveOn /\ OffsetsAreOfType' /\ ProcessedIsStored'
<1>0. /\ IInv /\ CInv /\ SyncMode[t] \in {"complete", "delta"}
      /\ lastReceivedTransportMetadata' = lastReceivedTransportMetadata
      /\ \A k, g, u : IsOf(k, g, u)' <=> IsOf(k, g, u)
      /\ \A w \in Workers : job[w] # Nil => job[w].hub \in Hubs /\ job[w].type \in Types
  BY RegistrationAssumption DEF KafkaIInv, GetNext, IsOf, IInv, TypeOK, DBJob
<1>1. /\ OtherElementsStay(h, t)
      /\ UNCHANGED <<lastProcessedBundleVersion, processed, stored>>
      /\ bundle[h][t] # Nil
      /\ SyncMode[t] = "complete" => bundle'[h][t] = bundle[h][t]
      /\ SyncMode[t] = "delta" => bundle'[h][t] = Nil
  BY <1>0, GetNextEffect DEF dbVars
<1>2. /\ acquired \in Workers
      /\ \A w \in Workers : job[w] # Nil => w # acquired /\ job[w].hub # h
      /\ job' = [job EXCEPT ![acquired] =
             [hub |-> h, type |-> t, bundle |-> bundle[h][t], shared |-> TRUE,
              metadata |-> metadata[h][t], result |-> "none"]]
      /\ SyncMode[t] = "complete" => metadata'[h][t] = metadata[h][t]
      /\ \A g \in Hubs, u \in Types : g # h \/ u # t =>
             /\ metadata'[g][u] = metadata[g][u]
             /\ lastDispatchedDelta'[g][u] = lastDispatchedDelta[g][u]
  BY <1>0, GetNextElement
<1>3. /\ job'[acquired] = [hub |-> h, type |-> t, bundle |-> bundle[h][t], shared |-> TRUE,
                           metadata |-> metadata[h][t], result |-> "none"]
      /\ \A w \in Workers : w # acquired => job'[w] = job[w]
  BY <1>0, <1>2 DEF IInv, TypeOK
<1>4. BundlesMoveOn
  <2>1. \A g \in Hubs, u \in CompleteTypes :
          /\ metadata'[g][u] = metadata[g][u]
          /\ bundle'[g][u] = bundle[g][u]
    BY <1>1, <1>2 DEF CompleteTypes, OtherElementsStay
  <2>2. \A w \in Workers : w = acquired \/ job'[w] = job[w]
    BY <1>3
  <2>. QED
    BY <1>1, <1>3, <2>1, <2>2 DEF BundlesMoveOn
<1>5. /\ NamesMessage(metadata'[h][t], h, t)
      /\ lastDispatchedDelta'[h][t] # Nil =>
           IsOf(lastDispatchedDelta'[h][t].lowestPendingTransportMetadata, h, t)
  <2>1. metadata[h][t] # Nil /\ NamesMessage(metadata[h][t], h, t)
    BY <1>0, <1>1 DEF IInv, PendingHasMetadata, KafkaSafety, OffsetsAreOfType
  <2>2. CASE SyncMode[t] = "complete"
    <3>1. UNCHANGED <<lastDispatchedDelta, metadata>>
      BY <2>2 DEF GetNext
    <3>. QED
      BY <2>1, <3>1 DEF KafkaSafety, OffsetsAreOfType
  <2>3. CASE SyncMode[t] = "delta"
    <3>1. lastReceivedTransportMetadata[h][t] # Nil
      BY <1>0, <1>1, <2>3 DEF IInv, PendingHasMetadata
    <3>2. IsOf(lastReceivedTransportMetadata[h][t], h, t)
      BY <3>1 DEF KafkaSafety, OffsetsAreOfType
    <3>3. /\ metadata'[h][t] = WithTransportMetadata(metadata[h][t],
                                                     lastReceivedTransportMetadata[h][t])
          /\ lastDispatchedDelta'[h][t] =
               [bundle |-> bundle[h][t],
                lowestPendingTransportMetadata |-> metadata[h][t].transportBundleMetadata]
      BY <1>0, <2>3 DEF GetNext, getMetadataDelta, IInv, TypeOK
    <3>. QED
      BY <2>1, <2>3, <3>2, <3>3 DEF NamesMessage, WithTransportMetadata
  <2>. QED
    BY <1>0, <2>2, <2>3
<1>6. OffsetsAreOfType'
  <2>1. ASSUME NEW w \in Workers, job'[w] # Nil
        PROVE  NamesMessage(JobMetadata(w)', job'[w].hub, job'[w].type)
    <3>1. CASE w = acquired
      BY <1>3, <1>5, <3>1 DEF JobMetadata
    <3>2. CASE w # acquired
      <4>1. job'[w] = job[w] /\ job[w] # Nil /\ job[w].hub # h
        BY <1>2, <1>3, <2>1, <3>2
      <4>2. metadata'[job[w].hub][job[w].type] = metadata[job[w].hub][job[w].type]
        BY <1>0, <1>2, <4>1
      <4>3. JobMetadata(w)' = JobMetadata(w)
        BY <4>1, <4>2 DEF JobMetadata
      <4>. QED
        BY <4>1, <4>3 DEF KafkaSafety, OffsetsAreOfType
    <3>. QED
      BY <3>1, <3>2
  <2>2. ASSUME NEW g \in Hubs, NEW u \in Types
        PROVE  /\ metadata'[g][u] # Nil => NamesMessage(metadata'[g][u], g, u)
               /\ lastReceivedTransportMetadata'[g][u] # Nil =>
                    IsOf(lastReceivedTransportMetadata'[g][u], g, u)
               /\ lastDispatchedDelta'[g][u] # Nil =>
                    IsOf(lastDispatchedDelta'[g][u].lowestPendingTransportMetadata, g, u)
    BY <1>0, <1>2, <1>5 DEF KafkaSafety, OffsetsAreOfType
  <2>3. \A o, g, u : NamesMessage(o, g, u) => NamesMessage(o, g, u)'
    BY <1>0 DEF NamesMessage
  <2>. QED
    BY <1>0, <2>1, <2>2, <2>3 DEF OffsetsAreOfType
<1>7. ProcessedIsStored'
  BY <1>0, <1>1 DEF KafkaSafety, ProcessedIsStored
<1>. QED
  BY <1>4, <1>6, <1>7

\* A handler writes what is newer than what the unit remembers.
LEMMA RunHandlerMovesOn ==
    ASSUME KafkaIInv, KafkaSafety, NEW w \in Workers, NEW result \in {"success", "error"},
           RunHandler(w, result), UNCHANGED log
    PROVE  BundlesMoveOn /\ OffsetsAreOfType' /\ ProcessedIsStored'
<1>0. /\ IInv /\ CInv /\ job[w] # Nil /\ job[w] \in DBJob
      /\ job \in [Workers -> DBJob \cup {Nil}] /\ stored \in [Hubs -> [Types -> BundleVersions]]
      /\ job' = [job EXCEPT ![w].result = result]
      /\ UNCHANGED <<elementVars, processed>>
      /\ \A k, g, u : IsOf(k, g, u)' <=> IsOf(k, g, u)
  BY DEF KafkaIInv, RunHandler, IsOf, IInv, TypeOK
<1> DEFINE h == job[w].hub
           t == job[w].type
           ver == job[w].bundle.ver
<1>1. /\ JobsStay /\ h \in Hubs /\ t \in Types
      /\ stored' = stored \/ stored' = [stored EXCEPT ![h][t] = ver]
  BY <1>0, RunHandlerEffect DEF dbVars
<1>2. \A v \in Workers :
        /\ job'[v] = Nil <=> job[v] = Nil
        /\ job[v] # Nil => /\ job'[v].hub = job[v].hub /\ job'[v].type = job[v].type
                           /\ job'[v].bundle = job[v].bundle
                           /\ JobMetadata(v)' = JobMetadata(v)
  <2> SUFFICES ASSUME NEW v \in Workers, job[v] # Nil PROVE JobMetadata(v)' = JobMetadata(v)
    BY <1>1 DEF JobsStay
  <2>1. job[v] \in DBJob
    BY <1>0
  <2>2. job'[v] = IF v = w THEN [job[v] EXCEPT !.result = result] ELSE job[v]
    BY <1>0
  <2>3. /\ job'[v].shared = job[v].shared /\ job'[v].metadata = job[v].metadata
        /\ job'[v].hub = job[v].hub /\ job'[v].type = job[v].type
    BY <2>1, <2>2 DEF DBJob
  <2>. QED
    BY <1>0, <2>3 DEF JobMetadata, elementVars
<1>3. \A g \in Hubs, u \in Types :
        stored'[g][u] = stored[g][u] \/ (g = h /\ u = t /\ stored'[g][u] = ver)
  BY <1>0, <1>1
<1>4. BundlesMoveOn
  BY <1>0, <1>2, <1>3 DEF BundlesMoveOn, CompleteTypes, elementVars
<1>5. OffsetsAreOfType'
  BY <1>0, <1>2 DEF KafkaSafety, OffsetsAreOfType, NamesMessage, elementVars
<1>6. ProcessedIsStored'
  <2>1. t \in CompleteTypes => ~NewerThan(lastProcessedBundleVersion[h][t], ver)
    <3>1. t \in CompleteTypes => NewerThan(ver, lastProcessedBundleVersion[h][t])
      BY <1>0 DEF CInv, JobIsDescribed, BundleIsDue, CompleteTypes
    <3>. QED
      BY <1>0, <1>1, <3>1, KafkaVersionTypes, VersionOrder
  <2>2. ASSUME NEW g \in Hubs, NEW u \in CompleteTypes
        PROVE  ~NewerThan(lastProcessedBundleVersion[g][u], stored'[g][u])
    BY <1>3, <2>1 DEF KafkaSafety, ProcessedIsStored, CompleteTypes
  <2>. QED
    BY <1>0, <2>2 DEF KafkaSafety, ProcessedIsStored, elementVars
<1>. QED
  BY <1>4, <1>5, <1>6

\* A report marks the message whose version it makes the unit remember.
LEMMA ReportMovesOn ==
    ASSUME KafkaIInv, KafkaSafety, NEW w \in Workers, NEW h \in Hubs, NEW t \in Types,
           ReportResult(w, h, t), UNCHANGED log
    PROVE  BundlesMoveOn /\ OffsetsAreOfType' /\ ProcessedIsStored'
<1> DEFINE ver == job[w].bundle.ver
           m == JobMetadata(w).transportBundleMetadata
           last == lastDispatchedDelta[h][t]
<1>0. /\ IInv /\ CInv /\ SyncMode[t] \in {"complete", "delta"}
      /\ metadata \in [Hubs -> [Types -> BundleMetadata \cup {Nil}]]
      /\ lastDispatchedDelta \in [Hubs -> [Types -> RecoverableDelta \cup {Nil}]]
      /\ lastReceivedTransportMetadata' = lastReceivedTransportMetadata
      /\ \A k, g, u : IsOf(k, g, u)' <=> IsOf(k, g, u)
      /\ \A v \in Workers : job[v] # Nil => job[v].hub \in Hubs /\ job[v].type \in Types
  BY RegistrationAssumption DEF KafkaIInv, ReportResult, IsOf, IInv, TypeOK, DBJob
<1>1. /\ OtherElementsStay(h, t)
      /\ job[w] # Nil /\ job[w].hub = h /\ job[w].type = t
      /\ job'[w] = Nil /\ \A v \in Workers : v # w => job'[v] = job[v]
      /\ \A v \in Workers : v # w /\ job[v] # Nil => job[v].hub # h
      /\ stored' = stored
      /\ \/ job[w].result = "success" /\ stored[h][t] = ver
         \/ job[w].result = "error"
      /\ SyncMode[t] = "complete" /\ bundle'[h][t] # Nil =>
           bundle[h][t] # Nil /\ bundle'[h][t].ver = bundle[h][t].ver
  BY <1>0, ReportEffect DEF dbVars
<1>2. \A g \in Hubs, u \in Types : g # h \/ u # t =>
        /\ bundle'[g][u] = bundle[g][u]
        /\ metadata'[g][u] = metadata[g][u]
        /\ lastDispatchedDelta'[g][u] = lastDispatchedDelta[g][u]
        /\ lastProcessedBundleVersion'[g][u] = lastProcessedBundleVersion[g][u]
  BY <1>0, ReportElement
<1>3. /\ metadata[h][t] # Nil /\ (SyncMode[t] = "delta" => last # Nil)
      /\ NamesMessage(metadata[h][t], h, t) /\ (last # Nil =>
            IsOf(last.lowestPendingTransportMetadata, h, t))
      /\ NamesMessage(JobMetadata(w), h, t) /\ JobMetadata(w).bundleVersion = ver
  BY <1>0, <1>1 DEF IInv, JobFlags, KafkaSafety, OffsetsAreOfType, CInv, JobIsDescribed,
                    MetadataIsOfJob
<1>4. /\ \/ metadata' = metadata
         \/ SyncMode[t] = "delta"
            /\ metadata' = [metadata EXCEPT ![h][t] =
                   WithTransportMetadata(@, last.lowestPendingTransportMetadata)]
      /\ \/ lastDispatchedDelta' = lastDispatchedDelta
         \/ lastDispatchedDelta' = [lastDispatchedDelta EXCEPT ![h][t] = Nil]
  BY <1>1 DEF ReportResult, reportSuccess, reportError, handleFailure
<1>5. /\ NamesMessage(metadata'[h][t], h, t)
      /\ lastDispatchedDelta'[h][t] # Nil => lastDispatchedDelta'[h][t] = last
      /\ SyncMode[t] = "complete" => metadata'[h][t] = metadata[h][t]
  <2>1. \/ metadata'[h][t] = metadata[h][t]
        \/ SyncMode[t] = "delta"
           /\ metadata'[h][t] = WithTransportMetadata(metadata[h][t],
                                    last.lowestPendingTransportMetadata)
    BY <1>0, <1>4
  <2>2. lastDispatchedDelta'[h][t] # Nil => lastDispatchedDelta'[h][t] = last
    BY <1>0, <1>4
  <2>. QED
    BY <1>3, <2>1, <2>2 DEF NamesMessage, WithTransportMetadata
<1>6. OffsetsAreOfType'
  <2>1. ASSUME NEW v \in Workers, job'[v] # Nil
        PROVE  NamesMessage(JobMetadata(v)', job'[v].hub, job'[v].type)
    <3>1. job'[v] = job[v] /\ job[v] # Nil /\ job[v].hub # h
      BY <1>1, <2>1
    <3>2. metadata'[job[v].hub][job[v].type] = metadata[job[v].hub][job[v].type]
      BY <1>0, <1>2, <3>1
    <3>3. JobMetadata(v)' = JobMetadata(v)
      BY <3>1, <3>2 DEF JobMetadata
    <3>. QED
      BY <3>1, <3>3 DEF KafkaSafety, OffsetsAreOfType
  <2>2. ASSUME NEW g \in Hubs, NEW u \in Types
        PROVE  /\ metadata'[g][u] # Nil => NamesMessage(metadata'[g][u], g, u)
               /\ lastReceivedTransportMetadata'[g][u] # Nil =>
                    IsOf(lastReceivedTransportMetadata'[g][u], g, u)
               /\ lastDispatchedDelta'[g][u] # Nil =>
                    IsOf(lastDispatchedDelta'[g][u].lowestPendingTransportMetadata, g, u)
    BY <1>0, <1>2, <1>3, <1>5 DEF KafkaSafety, OffsetsAreOfType
  <2>3. \A o, g, u : NamesMessage(o, g, u) => NamesMessage(o, g, u)'
    BY <1>0 DEF NamesMessage
  <2>. QED
    BY <1>0, <2>1, <2>2, <2>3 DEF OffsetsAreOfType
<1>7. /\ \/ /\ job[w].result = "success" /\ processed' = processed \cup {m}
            /\ SyncMode[t] = "complete" => lastProcessedBundleVersion'[h][t] = ver
         \/ /\ job[w].result # "success"
            /\ UNCHANGED <<processed, lastProcessedBundleVersion>>
  <2>1. CASE job[w].result = "success"
    <3>1. processed' = processed \cup {m}
      BY <2>1 DEF ReportResult, reportSuccess
    <3>. QED
      BY <1>0, <2>1, <3>1, SuccessElement
  <2>2. CASE job[w].result # "success"
    BY <1>0, <2>2, ErrorElement
  <2>. QED
    BY <2>1, <2>2
<1> HIDE DEF ver, m, last
<1>8. BundlesMoveOn
  <2>1. \A g \in Hubs, u \in CompleteTypes :
          /\ metadata'[g][u] = metadata[g][u]
          /\ bundle'[g][u] # Nil => bundle[g][u] # Nil /\ bundle'[g][u].ver = bundle[g][u].ver
          /\ \/ lastProcessedBundleVersion'[g][u] = lastProcessedBundleVersion[g][u]
             \/ g = h /\ u = t /\ lastProcessedBundleVersion'[g][u] = ver
    BY <1>1, <1>2, <1>5, <1>7 DEF CompleteTypes
  <2>2. \A v \in Workers : job'[v] # Nil => job'[v] = job[v]
    BY <1>1
  <2>. QED
    BY <1>1, <2>1, <2>2 DEF BundlesMoveOn, ver
<1>9. ProcessedIsStored'
  <2> SUFFICES ASSUME NEW g \in Hubs, NEW u \in CompleteTypes
               PROVE  /\ ~NewerThan(lastProcessedBundleVersion'[g][u], stored[g][u])
                      /\ \A k \in processed' : IsOf(k, g, u) =>
                           ~NewerThan(log[k].ver, lastProcessedBundleVersion'[g][u])
    BY <1>0, <1>1 DEF ProcessedIsStored
  <2>1. /\ ~NewerThan(lastProcessedBundleVersion[g][u], stored[g][u])
        /\ \A k \in processed : IsOf(k, g, u) =>
             ~NewerThan(log[k].ver, lastProcessedBundleVersion[g][u])
        /\ u \in Types
    BY DEF KafkaSafety, ProcessedIsStored, CompleteTypes
  <2>2. CASE job[w].result # "success"
    BY <1>7, <2>1, <2>2
  <2>3. CASE job[w].result = "success" /\ ~(g = h /\ u = t)
    <3>1. lastProcessedBundleVersion'[g][u] = lastProcessedBundleVersion[g][u]
      BY <1>2, <2>1, <2>3
    <3>2. \A k \in processed' : IsOf(k, g, u) => k \in processed
      BY <1>3, <1>7, <2>3 DEF IsOf, NamesMessage, m
    <3>. QED
      BY <2>1, <3>1, <3>2
  <2>4. CASE job[w].result = "success" /\ g = h /\ u = t
    <3>1. /\ lastProcessedBundleVersion'[h][t] = ver /\ stored[h][t] = ver
          /\ processed' = processed \cup {m} /\ log[m].ver = ver
          /\ NewerThan(ver, lastProcessedBundleVersion[h][t])
      BY <1>0, <1>1, <1>3, <1>7, <2>4
         DEF CompleteTypes, NamesMessage, m, CInv, JobIsDescribed, BundleIsDue, ver
    <3>2. /\ ver \in BundleVersions /\ lastProcessedBundleVersion[h][t] \in BundleVersions
          /\ \A k : IsOf(k, h, t) => log[k].ver \in BundleVersions
      BY <1>1, KafkaVersionTypes DEF ver, IsOf
    <3>3. ~NewerThan(ver, ver)
      BY <3>2, VersionOrder
    <3>4. \A k \in processed : IsOf(k, h, t) => ~NewerThan(log[k].ver, ver)
      <4> SUFFICES ASSUME NEW k \in processed, IsOf(k, h, t) PROVE ~NewerThan(log[k].ver, ver)
        OBVIOUS
      <4>1. ~NewerThan(log[k].ver, lastProcessedBundleVersion[h][t])
        BY <2>1, <2>4
      <4>2. NewerThan(ver, log[k].ver)
        BY <3>1, <3>2, <4>1, VersionOrder
      <4>. QED
        BY <3>2, <4>2, VersionOrder
    <3>. QED
      BY <2>4, <3>1, <3>3, <3>4
  <2>. QED
    BY <2>2, <2>3, <2>4
<1>. QED
  BY <1>6, <1>8, <1>9

\* The dispatcher and the workers.
LEMMA ProcessSafe ==
    ASSUME KafkaIInv, KafkaSafety, Process, UNCHANGED <<log, committerVars, restarts>>
    PROVE  KafkaSafety'
<1>0. UNCHANGED log /\ received' = received
  BY ProcessOffsets DEF KafkaIInv, CommitterIsAhead
<1>1. SUFFICES BundlesMoveOn /\ OffsetsAreOfType' /\ ProcessedIsStored'
  BY <1>0, MovingOnIsSafe DEF KafkaSafety
<1>2. CASE BlockingDequeue \/ Acquire \/ GetNextFails
  <2>1. UNCHANGED <<elementVars, job, processed, dbVars>>
    BY <1>2 DEF BlockingDequeue, Acquire, GetNextFails
  <2>2. \A h \in Hubs, t \in Types : /\ metadata'[h][t] = metadata[h][t]
                                     /\ bundle'[h][t] = bundle[h][t]
                                     /\ stored'[h][t] = stored[h][t]
    BY <2>1 DEF elementVars, dbVars
  <2>3. BundlesMoveOn
    <3>1. \A w \in Workers : job[w] # Nil => job[w].hub \in Hubs /\ job[w].type \in Types
      BY KafkaVersionTypes
    <3>. QED
      BY <2>1, <2>2, <3>1 DEF BundlesMoveOn, CompleteTypes, elementVars
  <2>4. \A w \in Workers : JobMetadata(w)' = JobMetadata(w)
    BY <2>1 DEF JobMetadata, elementVars
  <2>5. OffsetsAreOfType' /\ ProcessedIsStored'
    BY <1>0, <2>1, <2>4
       DEF KafkaSafety, OffsetsAreOfType, NamesMessage, ProcessedIsStored, IsOf,
           elementVars, dbVars
  <2>. QED
    BY <2>3, <2>5
<1>3. ASSUME NEW h \in Hubs, NEW t \in Types, GetNext(h, t)
      PROVE  BundlesMoveOn /\ OffsetsAreOfType' /\ ProcessedIsStored'
  BY <1>0, <1>3, GetNextMovesOn
<1>4. ASSUME NEW w \in Workers, NEW result \in {"success", "error"}, RunHandler(w, result)
      PROVE  BundlesMoveOn /\ OffsetsAreOfType' /\ ProcessedIsStored'
  BY <1>0, <1>4, RunHandlerMovesOn
<1>5. ASSUME NEW w \in Workers, NEW h \in Hubs, NEW t \in Types, ReportResult(w, h, t)
      PROVE  BundlesMoveOn /\ OffsetsAreOfType' /\ ProcessedIsStored'
  BY <1>0, <1>5, ReportMovesOn
<1>. QED
  BY <1>2, <1>3, <1>4, <1>5 DEF Process, Dispatch, Work

------------------------------------------------------------------------------
(* The committer, the crashes and the start keep the committed offset safe *)

\* The committer locks one unit at a time: with a second leaf hub, messages of the first
\* arrive behind a pass that has read it, and CompleteCommittedIsCovered does not hold.
OneLeafHub == \A g, h \in Hubs : g = h

\* Steps that leave the process, the broker and the database as they are.
LEMMA SameProcessIsSafe ==
    ASSUME KafkaSafety, UNCHANGED <<vars, log, committed>>, PassIsWhole'
    PROVE  KafkaSafety'
<1>1. /\ \A k, g, u : IsOf(k, g, u)' <=> IsOf(k, g, u)
      /\ UNCHANGED <<elementVars, job, processed, stored, received, committed, log>>
  BY DEF IsOf, vars, dbVars
<1>2. \A w \in Workers : JobMetadata(w)' = JobMetadata(w)
  BY <1>1 DEF JobMetadata, elementVars
<1>3. LogIsInOrder' /\ OffsetsAreOfType' /\ ProcessedIsStored'
  BY <1>1, <1>2 DEF KafkaSafety, LogIsInOrder, OffsetsAreOfType, NamesMessage,
                    ProcessedIsStored, elementVars
<1>4. UnreadIsNewer' /\ ReadIsKnown'
  BY <1>1 DEF KafkaSafety, UnreadIsNewer, ReadIsKnown, elementVars
<1>5. CommittedIsSafe'
  BY <1>1 DEF KafkaSafety, CommittedIsSafe, IsSuperseded, IsSafelyStored, elementVars
<1>. QED
  BY <1>3, <1>4, <1>5 DEF KafkaSafety

\* What the committer commits: no pending offset that it collected is below, and it
\* collected something from the offset before on.
LEMMA CommittedOffset ==
    ASSUME NEW n \in Nat, NEW offsets \in SUBSET (1..n), offsets # {}
    PROVE  LET new == offsetToCommit(offsets)
           IN  /\ new \in 1..(n + 1)
               /\ \E x \in offsets : new <= x + 1
               /\ \A x \in offsets \ processed : new <= x
<1> DEFINE new == offsetToCommit(offsets)
           pending == offsets \ processed
<1> SUFFICES /\ new \in 1..(n + 1)
             /\ \E x \in offsets : new <= x + 1
             /\ \A x \in pending : new <= x
  OBVIOUS
<1>0. new \in 1..(n + 1)
  BY OffsetToCommitRange
<1>1. offsets \in SUBSET (0..n) /\ \A x \in offsets : x \in Nat
  OBVIOUS
<1>2. CASE pending # {}
  <2>1. pending \in SUBSET Nat
    BY <1>1
  <2>2. Min(pending) \in pending /\ \A y \in pending : Min(pending) <= y
    BY <1>2, <2>1, LeastOfNaturals
  <2>3. new = Min(pending)
    BY <1>2 DEF offsetToCommit
  <2>4. new \in offsets /\ new <= new + 1
    BY <1>0, <2>2, <2>3
  <2>. QED
    BY <1>0, <2>2, <2>3, <2>4
<1>3. CASE pending = {}
  <2>1. Max(offsets) \in offsets
    BY <1>1, GreatestOfBounded
  <2>2. new = Max(offsets) + 1
    BY <1>3 DEF offsetToCommit
  <2>3. new <= Max(offsets) + 1
    BY <1>0, <2>2
  <2> HIDE DEF new, pending
  <2>. QED
    BY <1>0, <1>3, <2>1, <2>3
<1>. QED
  BY <1>2, <1>3

\* A processed message is safely stored, and so is any version that is not newer.
LEMMA ProcessedIsSafe ==
    ASSUME KafkaIInv, KafkaSafety, NEW h \in Hubs, NEW t \in CompleteTypes,
           NEW m \in processed, IsOf(m, h, t),
           NEW v \in BundleVersions, ~NewerThan(v, log[m].ver)
    PROVE  IsSafelyStored(v, h, t)
<1> DEFINE last == lastProcessedBundleVersion[h][t]
<1>0. /\ t \in Types /\ SyncMode[t] = "complete" /\ CInv
      /\ last \in BundleVersions /\ stored[h][t] \in BundleVersions
      /\ log[m].ver \in BundleVersions
      /\ bundle[h][t] # Nil => bundle[h][t].ver \in BundleVersions
      /\ \A w \in Workers : job[w] # Nil => job[w].bundle.ver \in BundleVersions
  BY KafkaVersionTypes DEF CompleteTypes, KafkaIInv, IsOf
<1>1. ~NewerThan(log[m].ver, last) /\ ~NewerThan(last, stored[h][t])
  BY DEF KafkaSafety, ProcessedIsStored
<1> HIDE DEF last
<1>2. ~NewerThan(v, last)
  BY <1>0, <1>1, VersionOrder
<1>3. ~NewerThan(v, stored[h][t])
  BY <1>0, <1>1, <1>2, VersionOrder
<1>4. \A c \in BundleVersions : NewerThan(c, last) => ~NewerThan(v, c)
  BY <1>0, <1>2, VersionOrder
<1>5. /\ bundle[h][t] # Nil => NewerThan(bundle[h][t].ver, last)
      /\ \A w \in Workers : job[w] # Nil /\ job[w].hub = h /\ job[w].type = t =>
           NewerThan(job[w].bundle.ver, last)
  BY <1>0 DEF CInv, PendingIsNewer, JobIsDescribed, BundleIsDue, last
<1>. QED
  BY <1>0, <1>3, <1>4, <1>5 DEF IsSafelyStored

\* The step that tells the broker: what was collected of (h, t) from i on is pending and
\* will be read again, or is processed.
LEMMA commitOffsetsSafe ==
    ASSUME KafkaIInv, KafkaSafety, commitOffsets
    PROVE  KafkaSafety'
<1> DEFINE new == offsetToCommit(collected)
<1>0. /\ UNCHANGED <<vars, log>> /\ collected # {} /\ unitsToRead' = Nil /\ collected' = {}
      /\ committed' = new
      /\ \A k, g, u : IsOf(k, g, u)' <=> IsOf(k, g, u)
      /\ UNCHANGED <<elementVars, job, processed, stored, received, log>>
  BY DEF commitOffsets, endPass, IsOf, vars, dbVars
<1>1. /\ LogLength \in Nat /\ received \in 0..LogLength /\ committed \in 1..(LogLength + 1)
      /\ committed <= received + 1 /\ collected \subseteq 1..received
      /\ committed' >= committed /\ LogIsInOrder
      /\ \A k \in 1..LogLength : log[k].ver \in BundleVersions
  BY KafkaVersionTypes, CommitKeeps DEF KafkaSafety, CommittedIsSafe, PassIsWhole, Commit
<1>2. /\ new \in 1..(received + 1)
      /\ \E x \in collected : new <= x + 1
      /\ \A x \in collected \ processed : new <= x
  BY <1>0, <1>1, CommittedOffset
<1> HIDE DEF new
<1>3. PassIsWhole'
  BY <1>0, NilAssumption DEF PassIsWhole
<1>4. ReadIsKnown'
  <2> SUFFICES ASSUME NEW g \in Hubs, NEW u \in CompleteTypes, NEW i \in 1..LogLength,
                      new <= i, i <= received, IsOf(i, g, u)
               PROVE  metadata[g][u] # Nil /\ i <= metadata[g][u].transportBundleMetadata
    BY <1>0 DEF ReadIsKnown, elementVars
  <2>1. committed <= i
    BY <1>0, <1>1, <1>2
  <2>. QED
    BY <2>1 DEF KafkaSafety, ReadIsKnown
\* A message that the new offset passes and the old one did not.
<1>5. ASSUME NEW h \in Hubs, NEW t \in CompleteTypes, NEW i \in 1..LogLength,
             committed <= i, i < new, IsOf(i, h, t),
             NEW v \in BundleVersions, ~NewerThan(v, log[i].ver)
      PROVE  \/ \E k \in new..LogLength : IsOf(k, h, t) /\ NewerThan(log[k].ver, v)
             \/ IsSafelyStored(v, h, t)
  <2>1. PICK x \in collected : new <= x + 1
    BY <1>2
  <2>2. i <= x
    BY <1>1, <1>2, <1>5, <2>1
  <2>3. PICK m \in collected : i <= m /\ IsOf(m, h, t)
    BY <1>5, <2>2 DEF KafkaSafety, PassIsWhole
  <2>4. m \in 1..LogLength /\ t \in Types /\ log[m].ver \in BundleVersions
        /\ log[i].ver \in BundleVersions
    BY <1>1, <2>3 DEF IsOf, CompleteTypes
  <2>5. i < m => NewerThan(log[m].ver, log[i].ver)
    BY <1>1, <1>5, <2>3, <2>4 DEF LogIsInOrder
  <2>6. CASE m \in processed
    <3>1. ~NewerThan(v, log[m].ver)
      <4>1. CASE i = m
        BY <1>5, <4>1
      <4>2. CASE i < m
        BY <1>5, <2>4, <2>5, <4>2, VersionOrder
      <4>. QED
        BY <2>3, <2>4, <4>1, <4>2
    <3>. QED
      BY <1>5, <2>3, <2>6, <3>1, ProcessedIsSafe
  <2>7. CASE m \notin processed
    <3>1. new <= m
      BY <1>2, <2>7
    <3>2. i < m /\ m \in new..LogLength
      BY <1>1, <1>2, <1>5, <2>4, <3>1
    <3>3. NewerThan(log[m].ver, v)
      BY <1>5, <2>4, <2>5, <3>2, VersionOrder
    <3>. QED
      BY <2>3, <3>2, <3>3
  <2>. QED
    BY <2>6, <2>7
<1>6. CommittedIsSafe'
  <2> SUFFICES ASSUME NEW h \in Hubs, NEW t \in CompleteTypes, NEW i \in 1..LogLength,
                      i < new, IsOf(i, h, t)
               PROVE  \/ \E k \in new..LogLength :
                           IsOf(k, h, t) /\ NewerThan(log[k].ver, log[i].ver)
                      \/ IsSafelyStored(log[i].ver, h, t)
    <3>1. \A v, h, t : IsSafelyStored(v, h, t)' <=> IsSafelyStored(v, h, t)
      BY <1>0 DEF IsSafelyStored, elementVars
    <3>. QED
      BY <1>0, <1>1, <1>2, <3>1 DEF CommittedIsSafe, IsSuperseded
  <2>1. log[i].ver \in BundleVersions
    BY <1>1
  <2>2. CASE committed <= i
    <3>1. ~NewerThan(log[i].ver, log[i].ver)
      BY <2>1, VersionOrder
    <3>. QED
      BY <1>5, <2>1, <2>2, <3>1
  <2>3. CASE i < committed
    <3>1. IsSuperseded(log[i].ver, h, t) \/ IsSafelyStored(log[i].ver, h, t)
      BY <2>3 DEF KafkaSafety, CommittedIsSafe
    <3>2. CASE IsSuperseded(log[i].ver, h, t)
      <4>1. PICK k \in committed..LogLength : IsOf(k, h, t) /\ NewerThan(log[k].ver, log[i].ver)
        BY <3>2 DEF IsSuperseded
      <4>2. k \in 1..LogLength /\ committed <= k /\ log[k].ver \in BundleVersions
        BY <1>1, <4>1
      <4>3. CASE k < new
        <5>1. ~NewerThan(log[i].ver, log[k].ver)
          BY <2>1, <4>1, <4>2, VersionOrder
        <5>. QED
          BY <1>5, <2>1, <4>1, <4>2, <4>3, <5>1
      <4>4. CASE ~(k < new)
        <5>1. k \in new..LogLength
          BY <1>1, <1>2, <4>2, <4>4
        <5>. QED
          BY <4>1, <5>1
      <4>. QED
        BY <4>3, <4>4
    <3>. QED
      BY <3>1, <3>2
  <2>. QED
    BY <1>1, <2>2, <2>3
<1>7. CommittedIsSafe' /\ committed' <= received' + 1
  BY <1>6 DEF CommittedIsSafe
<1>8. LogIsInOrder' /\ OffsetsAreOfType' /\ ProcessedIsStored' /\ UnreadIsNewer'
  <2>1. \A w \in Workers : JobMetadata(w)' = JobMetadata(w)
    BY <1>0 DEF JobMetadata, elementVars
  <2>. QED
    BY <1>0, <2>1 DEF KafkaSafety, LogIsInOrder, OffsetsAreOfType, NamesMessage,
                      ProcessedIsStored, UnreadIsNewer, elementVars
<1>. QED
  BY <1>3, <1>4, <1>6, <1>8 DEF KafkaSafety

\* The other steps of the committer: it reads the whole unit under the unit's lock.
LEMMA CommitSafe ==
    ASSUME OneLeafHub, KafkaIInv, KafkaSafety, Commit
    PROVE  KafkaSafety'
<1>1. CASE startCommit \/ commitNothing
  <2>1. UNCHANGED <<vars, log, committed>> /\ collected' = {}
    BY <1>1 DEF startCommit, commitNothing, endPass
  <2>2. PassIsWhole'
    BY <2>1 DEF PassIsWhole
  <2>. QED
    BY <2>1, <2>2, SameProcessIsSafe
<1>2. CASE commitOffsets
  BY <1>2, commitOffsetsSafe
<1>3. ASSUME NEW h \in Hubs, getBundlesMetadata(h)
      PROVE  KafkaSafety'
  <2> DEFINE read == {metadata[h][t].transportBundleMetadata :
                          t \in {u \in Types : metadata[h][u] # Nil}}
  <2>1. /\ UNCHANGED <<vars, log, committed>> /\ received' = received
        /\ unitsToRead' = unitsToRead \ {h} /\ unitsToRead # Nil /\ h \in unitsToRead
        /\ collected' = collected \cup read
        /\ \A k, g, u : IsOf(k, g, u)' <=> IsOf(k, g, u)
    BY <1>3 DEF getBundlesMetadata, vars, IsOf
  <2>2. unitsToRead' = {} /\ collected = {}
    BY <2>1 DEF OneLeafHub, KafkaIInv, KafkaTypeOK, KafkaSafety, PassIsWhole
  <2>3. \A x \in read : x \in 1..received
    <3> SUFFICES ASSUME NEW t \in Types, metadata[h][t] # Nil
                 PROVE  metadata[h][t].transportBundleMetadata \in 1..received
      OBVIOUS
    <3>1. received \in Nat /\ committed \in 1..(LogLength + 1) /\ LogLength \in Nat
      BY KafkaVersionTypes
    <3>2. \A o \in committed..received : o \in 1..received
      BY <3>1
    <3>. QED
      BY <3>2 DEF KafkaIInv, CommitterIsAhead, UnitOffsets
  <2>4. ASSUME NEW g \in Hubs, NEW t \in CompleteTypes, NEW i \in 1..LogLength,
               committed <= i, IsOf(i, g, t), NEW x \in read, i <= x
        PROVE  \E m \in read : i <= m /\ IsOf(m, g, t)
    <3>1. g = h /\ t \in Types
      BY DEF OneLeafHub, CompleteTypes
    <3>2. i <= received
      <4>1. x \in 1..received /\ received \in Nat
        BY <2>3, KafkaVersionTypes
      <4>. QED
        BY <2>4, <4>1
    <3>3. metadata[h][t] # Nil /\ i <= metadata[h][t].transportBundleMetadata
      BY <2>4, <3>1, <3>2 DEF KafkaSafety, ReadIsKnown
    <3>4. IsOf(metadata[h][t].transportBundleMetadata, h, t)
      BY <3>1, <3>3 DEF KafkaSafety, OffsetsAreOfType, NamesMessage
    <3>5. metadata[h][t].transportBundleMetadata \in read
      BY <3>1, <3>3
    <3>. QED
      BY <3>1, <3>3, <3>4, <3>5
  <2> HIDE DEF read
  <2>5. PassIsWhole'
    BY <2>1, <2>2, <2>3, <2>4 DEF PassIsWhole
  <2>. QED
    BY <2>1, <2>5, SameProcessIsSafe
<1>. QED
  BY <1>1, <1>2, <1>3 DEF Commit

\* A unit with nothing in memory: the database has what it had, the broker the rest.
LEMMA NothingInMemoryIsSafe ==
    ASSUME LogIsInOrder', KafkaIInv',
           (/\ bundle = EveryElement(Nil) /\ metadata = EveryElement(Nil)
            /\ lastProcessedBundleVersion = EveryElement(noBundleVersion)
            /\ lastDispatchedDelta = EveryElement(Nil)
            /\ lastReceivedTransportMetadata = EveryElement(Nil)
            /\ job = [w \in Workers |-> Nil] /\ processed = {}
            /\ received = committed - 1 /\ unitsToRead = Nil /\ collected = {})'
    PROVE  /\ OffsetsAreOfType' /\ ProcessedIsStored' /\ UnreadIsNewer' /\ ReadIsKnown'
           /\ PassIsWhole'
<1>1. /\ \A h \in Hubs, t \in Types : /\ bundle'[h][t] = Nil
                                      /\ metadata'[h][t] = Nil
                                      /\ lastProcessedBundleVersion'[h][t] = noBundleVersion
                                      /\ lastDispatchedDelta'[h][t] = Nil
                                      /\ lastReceivedTransportMetadata'[h][t] = Nil
                                      /\ stored'[h][t] \in BundleVersions
      /\ \A w \in Workers : job'[w] = Nil
  BY DEF EveryElement, KafkaIInv, IInv, TypeOK
<1>2. OffsetsAreOfType'
  BY <1>1 DEF OffsetsAreOfType
<1>3. ProcessedIsStored'
  BY <1>1, VersionOrder DEF ProcessedIsStored, CompleteTypes
<1>4. UnreadIsNewer'
  BY <1>1 DEF UnreadIsNewer, LogIsInOrder, CompleteTypes
<1>5. ReadIsKnown'
  <2>1. received' \in Int /\ committed' \in Int /\ received' = committed' - 1
    BY KafkaAssumption DEF KafkaIInv, KafkaTypeOK
  <2>. QED
    BY <2>1 DEF ReadIsKnown
<1>6. PassIsWhole'
  BY DEF PassIsWhole
<1>. QED
  BY <1>2, <1>3, <1>4, <1>5, <1>6

\* A crash: what the broker holds is safe without the memory, too.
LEMMA RestartSafe ==
    ASSUME KafkaIInv, KafkaSafety, Restart
    PROVE  KafkaSafety'
<1>0. /\ NewMemory /\ UNCHANGED <<dbVars, log, committed>>
      /\ received' = committed - 1 /\ unitsToRead' = Nil /\ collected' = {}
      /\ \A k, g, u : IsOf(k, g, u)' <=> IsOf(k, g, u)
      /\ committed \in Int /\ KafkaIInv'
  BY RestartKeeps, KafkaVersionTypes DEF Restart, endPass, IsOf
<1>1. LogIsInOrder'
  BY <1>0 DEF KafkaSafety, LogIsInOrder
<1>2. /\ OffsetsAreOfType' /\ ProcessedIsStored' /\ UnreadIsNewer' /\ ReadIsKnown'
      /\ PassIsWhole'
  BY <1>0, <1>1, NothingInMemoryIsSafe DEF NewMemory
<1>3. CommittedIsSafe'
  <2>1. /\ \A h \in Hubs, t \in Types : bundle'[h][t] = Nil
        /\ \A w \in Workers : job'[w] = Nil
        /\ stored' = stored
    BY <1>0 DEF NewMemory, EveryElement, dbVars
  <2>2. \A v : \A h \in Hubs, t \in CompleteTypes :
          /\ IsSafelyStored(v, h, t) => IsSafelyStored(v, h, t)'
          /\ IsSuperseded(v, h, t) => IsSuperseded(v, h, t)'
    BY <1>0, <2>1 DEF IsSafelyStored, IsSuperseded, CompleteTypes
  <2>3. committed' <= received' + 1
    BY <1>0
  <2>. QED
    BY <1>0, <2>2, <2>3 DEF KafkaSafety, CommittedIsSafe
<1>. QED
  BY <1>1, <1>2, <1>3 DEF KafkaSafety

\* The first process, likewise.
LEMMA KafkaInitSafe == KafkaInit => KafkaSafety
<1> SUFFICES ASSUME KafkaInit PROVE KafkaSafety
  OBVIOUS
<1>0. LogIsInOrder /\ KafkaIInv
  BY LogsAreInOrder, KafkaInitKeeps DEF KafkaInit
<1>1. /\ \A h \in Hubs, t \in Types : /\ bundle[h][t] = Nil
                                      /\ metadata[h][t] = Nil
                                      /\ lastProcessedBundleVersion[h][t] = noBundleVersion
                                      /\ lastDispatchedDelta[h][t] = Nil
                                      /\ lastReceivedTransportMetadata[h][t] = Nil
                                      /\ stored[h][t] \in BundleVersions
      /\ \A w \in Workers : job[w] = Nil
      /\ processed = {} /\ received = 0 /\ committed = 1 /\ unitsToRead = Nil /\ collected = {}
  BY <1>0, KafkaVersionTypes DEF EveryElement, KafkaInit, Init
<1>2. OffsetsAreOfType /\ PassIsWhole
  BY <1>1 DEF OffsetsAreOfType, PassIsWhole
<1>3. ProcessedIsStored
  BY <1>1, VersionOrder DEF ProcessedIsStored, CompleteTypes
<1>4. UnreadIsNewer
  BY <1>0, <1>1 DEF UnreadIsNewer, LogIsInOrder, CompleteTypes
<1>5. ReadIsKnown /\ CommittedIsSafe
  BY <1>1 DEF ReadIsKnown, CommittedIsSafe
<1>. QED
  BY <1>0, <1>2, <1>3, <1>4, <1>5 DEF KafkaSafety

\* Every step under Kafka keeps the committed offset safe.
LEMMA KafkaNextSafe ==
    ASSUME OneLeafHub, KafkaIInv, KafkaSafety, [KafkaNext]_kafkaVars
    PROVE  KafkaSafety'
<1>1. CASE UNCHANGED kafkaVars
  <2>1. UNCHANGED <<vars, log, committed, unitsToRead, collected, received>>
    BY <1>1 DEF kafkaVars, committerVars, vars
  <2>2. PassIsWhole'
    BY <2>1 DEF KafkaSafety, PassIsWhole, IsOf
  <2>. QED
    BY <2>1, <2>2, SameProcessIsSafe
<1>2. CASE processMessage
  BY <1>2, processMessageSafe
<1>3. CASE Process /\ UNCHANGED <<log, committerVars, restarts>>
  BY <1>3, ProcessSafe
<1>4. CASE Commit
  BY <1>4, CommitSafe
<1>5. CASE Restart
  BY <1>5, RestartSafe
<1>. QED
  BY <1>1, <1>2, <1>3, <1>4, <1>5 DEF KafkaNext

\* The invariant says that the committed offset passes no message that is still needed.
LEMMA SafeIsCovered ==
    ASSUME KafkaIInv, KafkaSafety
    PROVE  CompleteCommittedIsCovered
<1> SUFFICES ASSUME NEW i \in 1..(committed - 1), SyncMode[log[i].type] = "complete"
             PROVE  Covered(i)
  BY DEF CompleteCommittedIsCovered
<1> DEFINE h == log[i].hub
           t == log[i].type
<1>1. i \in 1..LogLength /\ i < committed
  BY KafkaVersionTypes
<1>2. h \in Hubs /\ t \in CompleteTypes /\ IsOf(i, h, t)
  BY <1>1 DEF KafkaIInv, LogIsTyped, CompleteTypes, IsOf
<1>3. IsSuperseded(log[i].ver, h, t) \/ IsSafelyStored(log[i].ver, h, t)
  BY <1>1, <1>2 DEF KafkaSafety, CommittedIsSafe
<1>. QED
  BY <1>3 DEF Covered, IsSuperseded, IsSafelyStored, IsOf

\* With one leaf hub in the partition, the offset that a restarted consumer resumes from
\* never passes a message of a complete-state type whose content, or that of a newer
\* message, is neither in the database nor still to be read: for any log, any number of
\* workers and crashes at any step, whatever was conflated or failed in between.
THEOREM CompleteIsCovered ==
    OneLeafHub /\ KafkaSpec => []CompleteCommittedIsCovered
<1> SUFFICES ASSUME OneLeafHub PROVE KafkaSpec => []CompleteCommittedIsCovered
  OBVIOUS
<1>1. KafkaInit => KafkaSafety
  BY KafkaInitSafe
<1>2. OneLeafHub /\ KafkaIInv /\ KafkaSafety /\ [KafkaNext]_kafkaVars => KafkaSafety'
  BY KafkaNextSafe
<1>3. KafkaIInv /\ KafkaSafety => CompleteCommittedIsCovered
  BY SafeIsCovered
<1>4. KafkaSpec => []KafkaSafety
  BY <1>1, <1>2, KafkaIsDescribed, PTL DEF KafkaSpec
<1>. QED
  BY <1>3, <1>4, KafkaIsDescribed, PTL

------------------------------------------------------------------------------
(* Fed by the sync service, with crashes: versions, packs and deliveries *)

\* Every variable of the service, the client and the committer has its type.
SyncTypeOK ==
    /\ objects \in [Hubs -> [Types -> SyncObject \cup {Nil}]]
    /\ polled \subseteq ObjectMeta
    /\ handled \in ObjectMeta \cup {Nil}
    /\ deliveries \in Seq(ObjectMeta) /\ Len(deliveries) = received
    /\ toCommit \subseteq ObjectMeta

\* Version v of hub h and type t is not older than what the database holds, and not newer
\* than what the service has.
InOrder(h, t, v) == ~NewerThan(stored[h][t], v) /\ ~NewerThan(v, LastVersion(h, t))

\* Along the way from the service to the database and back to memory, versions only
\* decrease: the service delivers nothing but the current version.
VersionsInOrder ==
    /\ \A h \in Hubs, t \in Types :
        /\ ~NewerThan(lastProcessedBundleVersion[h][t], stored[h][t])
        /\ ~NewerThan(stored[h][t], LastVersion(h, t))
        /\ LastVersion(h, t).incarnation = 0
        /\ bundle[h][t] # Nil => InOrder(h, t, bundle[h][t].ver)
    /\ \A w \in Workers : job[w] # Nil => InOrder(job[w].hub, job[w].type, job[w].bundle.ver)
    /\ \A o \in polled : objects[o.hub][o.type] # Nil /\ ~NewerThan(o.ver, LastVersion(o.hub, o.type))

\* While worker w has a delta pack it can be restored: the unit keeps its content, what is
\* pending is not older, and the first of a line that started after it is not gone.
PackCanReturn(w) ==
    LET h == job[w].hub
        t == job[w].type
    IN  SyncMode[t] = "delta" =>
          /\ lastDispatchedDelta[h][t].bundle = job[w].bundle
          /\ bundle[h][t] # Nil => ~NewerThan(job[w].bundle.ver, bundle[h][t].ver)
          /\ deltaLineHeadBundleVersion[h][t] # Nil
          /\ NewerThan(deltaLineHeadBundleVersion[h][t], job[w].bundle.ver) => bundle[h][t] # Nil

PacksCanReturn ==
    /\ \A w \in Workers : job[w] # Nil => PackCanReturn(w)
    /\ \A h \in Hubs, t \in Types : SyncMode[t] = "delta" /\ bundle[h][t] # Nil =>
        /\ deltaLineHeadBundleVersion[h][t] # Nil
        /\ ~NewerThan(deltaLineHeadBundleVersion[h][t], bundle[h][t].ver)

\* Bundle b carries the content of deliveries of hub h and type t, none newer than b.
Carries(delivered, h, t, b) ==
    \A m \in b.events :
        /\ m \in 1..Len(delivered)
        /\ delivered[m].hub = h /\ delivered[m].type = t
        /\ ~NewerThan(delivered[m].ver, b.ver)

EventsAreDelivered ==
    /\ \A h \in Hubs, t \in Types : bundle[h][t] # Nil => Carries(deliveries, h, t, bundle[h][t])
    /\ \A w \in Workers : job[w] # Nil => Carries(deliveries, job[w].hub, job[w].type, job[w].bundle)

\* Object o, or a newer one of its kind, is in the database.
IsStored(o) == ~NewerThan(o.ver, stored[o.hub][o.type])

WrittenIsStored ==
    /\ \A m \in applied : m \in 1..Len(deliveries) /\ IsStored(deliveries[m])
    /\ \A o \in toCommit : IsStored(o)

\* What was delivered, and what is marked, is of an object that the service has.
Exists(o) == objects[o.hub][o.type] # Nil

KnownExist ==
    /\ \A m \in 1..Len(deliveries) : Exists(deliveries[m])
    /\ handled # Nil => Exists(handled)
    /\ \A o \in toCommit : Exists(o)

SyncInv == VersionsInOrder /\ PacksCanReturn /\ EventsAreDelivered /\ WrittenIsStored /\ KnownExist

SyncIInv == IInv /\ CInv /\ SyncTypeOK /\ SyncInv

\* What a step may not do: take a version out of the database, or drop what is held.
NothingIsLost ==
    /\ \A h \in Hubs, t \in Types : ~NewerThan(stored[h][t], stored'[h][t])
    /\ \A h \in Hubs, t \in Types, v \in BundleVersions : IsHeld(h, t, v) => IsHeld(h, t, v)'

LEMMA LastVersionType ==
    ASSUME SyncTypeOK, NEW h \in Hubs, NEW t \in Types
    PROVE  LastVersion(h, t) \in BundleVersions
BY DEF SyncTypeOK, SyncObject, LastVersion, noBundleVersion, NewBundleVersion, BundleVersions

\* The types of the versions that are compared.
LEMMA VersionTypes ==
    ASSUME IInv, SyncTypeOK
    PROVE  /\ \A h \in Hubs, t \in Types :
                /\ lastProcessedBundleVersion[h][t] \in BundleVersions
                /\ stored[h][t] \in BundleVersions /\ LastVersion(h, t) \in BundleVersions
                /\ bundle[h][t] # Nil =>
                     bundle[h][t].ver \in BundleVersions /\ bundle[h][t].events \subseteq Nat
                /\ deltaLineHeadBundleVersion[h][t] # Nil =>
                     deltaLineHeadBundleVersion[h][t] \in BundleVersions
           /\ \A w \in Workers : job[w] # Nil =>
                /\ job[w].hub \in Hubs /\ job[w].type \in Types
                /\ job[w].bundle.ver \in BundleVersions /\ job[w].bundle.events \subseteq Nat
           /\ \A o \in ObjectMeta : o.hub \in Hubs /\ o.type \in Types /\ o.ver \in BundleVersions
           /\ Nil \notin ObjectMeta
<1>1. \A h \in Hubs, t \in Types :
        /\ lastProcessedBundleVersion[h][t] \in BundleVersions
        /\ stored[h][t] \in BundleVersions
        /\ bundle[h][t] # Nil =>
             bundle[h][t].ver \in BundleVersions /\ bundle[h][t].events \subseteq Nat
        /\ deltaLineHeadBundleVersion[h][t] # Nil =>
             deltaLineHeadBundleVersion[h][t] \in BundleVersions
  BY DEF IInv, TypeOK, Bundle
<1>2. \A w \in Workers : job[w] # Nil =>
        /\ job[w].hub \in Hubs /\ job[w].type \in Types
        /\ job[w].bundle.ver \in BundleVersions /\ job[w].bundle.events \subseteq Nat
  BY DEF IInv, TypeOK, DBJob, Bundle
<1>3. \A o \in ObjectMeta : o.hub \in Hubs /\ o.type \in Types /\ o.ver \in BundleVersions
  BY DEF ObjectMeta
<1>. QED
  BY <1>1, <1>2, <1>3, LastVersionType, NilObjectAssumption

\* One more delivery leaves what a bundle carries as it is.
LEMMA CarriesStays ==
    ASSUME NEW delivered \in Seq(ObjectMeta), NEW o \in ObjectMeta, NEW h, NEW t, NEW b,
           Carries(delivered, h, t, b)
    PROVE  Carries(Append(delivered, o), h, t, b)
<1>1. /\ Len(Append(delivered, o)) = Len(delivered) + 1 /\ Len(delivered) \in Nat
      /\ \A m \in 1..Len(delivered) : Append(delivered, o)[m] = delivered[m]
  OBVIOUS
<1>. QED
  BY <1>1 DEF Carries

\* insert of the current object of o's hub and type: it is held afterwards.
LEMMA handleBundleKeeps ==
    ASSUME SyncIInv, NEW o \in polled, handleBundle(o)
    PROVE  /\ SyncIInv' /\ NothingIsLost
           /\ ~NewerThan(o.ver, LastVersion(o.hub, o.type))
           /\ \A v \in BundleVersions : ~NewerThan(v, LastVersion(o.hub, o.type)) =>
                IsHeld(o.hub, o.type, v)'
<1> DEFINE h == o.hub
           t == o.type
           b == objects[h][t]
           m == received + 1
<1>0. /\ IInv /\ CInv /\ SyncTypeOK /\ VersionsInOrder /\ PacksCanReturn /\ EventsAreDelivered
      /\ WrittenIsStored
      /\ polled \subseteq ObjectMeta /\ deliveries \in Seq(ObjectMeta)
      /\ Len(deliveries) = received /\ received \in Nat
  BY DEF SyncIInv, SyncInv, SyncTypeOK, IInv, TypeOK
<1>1. /\ h \in Hubs /\ t \in Types /\ o.ver \in BundleVersions /\ o \in ObjectMeta
      /\ b # Nil /\ b.ver = LastVersion(h, t) /\ b.ver \in BundleVersions
      /\ b.dep \in BundleVersions /\ m \in Nat /\ ~NewerThan(o.ver, b.ver)
  <2>1. o \in ObjectMeta /\ h \in Hubs /\ t \in Types /\ o.ver \in BundleVersions
    BY <1>0, VersionTypes
  <2>2. b # Nil /\ b \in SyncObject /\ ~NewerThan(o.ver, LastVersion(h, t))
    BY <1>0, <2>1 DEF VersionsInOrder, SyncTypeOK
  <2>. QED
    BY <1>0, <2>1, <2>2 DEF SyncObject, LastVersion
<1>2. /\ Insert(h, t, b, m) /\ received' = m /\ deliveries' = Append(deliveries, o)
      /\ polled' = polled \ {o} /\ handled' = o
      /\ UNCHANGED <<dispatchVars, processed, dbVars, objects, toCommit>>
  BY DEF handleBundle, markerVars
<1> HIDE DEF h, t, b, m
<1>3. IInv' /\ CInv'
  BY <1>0, <1>1, <1>2, InsertIInv, InsertKeeps
<1>4. /\ JobsStay /\ OtherElementsStay(h, t)
      /\ UNCHANGED <<lastDispatchedDelta, lastProcessedBundleVersion>>
      /\ \/ ~isNewerBundle(h, t, b) /\ UNCHANGED elementVars
         \/ /\ isNewerBundle(h, t, b)
            /\ bundle'[h][t] # Nil /\ bundle'[h][t].ver = b.ver
            /\ \A e \in bundle'[h][t].events :
                   e = m \/ (bundle[h][t] # Nil /\ e \in bundle[h][t].events)
            /\ SyncMode[t] = "delta" =>
                 \/ deltaLineHeadBundleVersion'[h][t] = b.ver
                 \/ /\ bundle[h][t] # Nil
                    /\ deltaLineHeadBundleVersion'[h][t] = deltaLineHeadBundleVersion[h][t]
  BY <1>0, <1>1, <1>2, InsertEffect
<1>5. SyncTypeOK'
  BY <1>0, <1>1, <1>2, m = Len(deliveries) + 1 DEF SyncTypeOK, m
<1>6. VersionsInOrder'
  <2>1. \A g \in Hubs, u \in Types :
          /\ ~NewerThan(lastProcessedBundleVersion'[g][u], stored'[g][u])
          /\ ~NewerThan(stored'[g][u], LastVersion(g, u)')
          /\ LastVersion(g, u)'.incarnation = 0
    BY <1>0, <1>2, <1>4 DEF VersionsInOrder, LastVersion, dbVars
  <2>2. ASSUME NEW g \in Hubs, NEW u \in Types, bundle'[g][u] # Nil
        PROVE  InOrder(g, u, bundle[g][u].ver)'
    <3>1. CASE bundle'[g][u] = bundle[g][u]
      BY <1>0, <1>2, <2>2, <3>1 DEF VersionsInOrder, InOrder, LastVersion, dbVars
    <3>2. CASE bundle'[g][u] # bundle[g][u]
      <4>1. g = h /\ u = t /\ bundle'[h][t].ver = b.ver
        BY <1>4, <3>2 DEF OtherElementsStay, elementVars
      <4>2. ~NewerThan(b.ver, b.ver) /\ ~NewerThan(stored[h][t], b.ver)
        BY <1>0, <1>1, VersionOrder, VersionTypes DEF VersionsInOrder
      <4>. QED
        BY <1>1, <1>2, <4>1, <4>2 DEF InOrder, LastVersion, dbVars
    <3>. QED
      BY <3>1, <3>2
  <2>3. ASSUME NEW w \in Workers, job'[w] # Nil
        PROVE  InOrder(job[w].hub, job[w].type, job[w].bundle.ver)'
    BY <1>0, <1>2, <1>4, <2>3 DEF VersionsInOrder, InOrder, LastVersion, dbVars, JobsStay
  <2>4. \A p \in polled' : /\ objects'[p.hub][p.type] # Nil
                           /\ ~NewerThan(p.ver, LastVersion(p.hub, p.type)')
    BY <1>0, <1>2 DEF VersionsInOrder, LastVersion
  <2>. QED
    BY <2>1, <2>2, <2>3, <2>4 DEF VersionsInOrder
<1>7. PacksCanReturn'
  <2>1. ASSUME NEW w \in Workers, job'[w] # Nil
        PROVE  PackCanReturn(w)'
    <3>1. /\ job[w] # Nil /\ job'[w].hub = job[w].hub /\ job'[w].type = job[w].type
          /\ job'[w].bundle = job[w].bundle /\ job[w].hub \in Hubs /\ job[w].type \in Types
          /\ job[w].bundle.ver \in BundleVersions
          /\ PackCanReturn(w) /\ InOrder(job[w].hub, job[w].type, job[w].bundle.ver)
      BY <1>0, <1>4, <2>1, VersionTypes DEF JobsStay, PacksCanReturn, VersionsInOrder
    <3>2. CASE UNCHANGED elementVars
      BY <3>1, <3>2 DEF PackCanReturn, elementVars
    <3>3. CASE job[w].hub # h \/ job[w].type # t
      BY <1>4, <3>1, <3>3 DEF PackCanReturn, OtherElementsStay
    <3>4. CASE ~(UNCHANGED elementVars) /\ job[w].hub = h /\ job[w].type = t
      <4>1. bundle'[h][t] # Nil /\ bundle'[h][t].ver = b.ver
        BY <1>4, <3>4
      <4>2. ~NewerThan(job[w].bundle.ver, b.ver)
        BY <1>1, <3>1, <3>4 DEF InOrder
      <4>3. SyncMode[t] = "delta" => deltaLineHeadBundleVersion'[h][t] # Nil
        BY <1>0, <1>1, <1>4, <3>4, NilAssumption DEF PacksCanReturn
      <4>. QED
        BY <1>4, <3>1, <3>4, <4>1, <4>2, <4>3 DEF PackCanReturn
    <3>. QED
      BY <3>2, <3>3, <3>4
  <2>2. ASSUME NEW g \in Hubs, NEW u \in Types, SyncMode[u] = "delta", bundle'[g][u] # Nil
        PROVE  /\ deltaLineHeadBundleVersion'[g][u] # Nil
               /\ ~NewerThan(deltaLineHeadBundleVersion'[g][u], bundle'[g][u].ver)
    <3>1. CASE UNCHANGED elementVars \/ g # h \/ u # t
      BY <1>0, <1>4, <2>2, <3>1 DEF PacksCanReturn, OtherElementsStay, elementVars
    <3>2. CASE ~(UNCHANGED elementVars) /\ g = h /\ u = t
      <4>1. /\ bundle'[h][t].ver = b.ver
            /\ \/ deltaLineHeadBundleVersion'[h][t] = b.ver
               \/ /\ bundle[h][t] # Nil /\ NewerThan(b.ver, bundle[h][t].ver)
                  /\ deltaLineHeadBundleVersion'[h][t] = deltaLineHeadBundleVersion[h][t]
        BY <1>4, <2>2, <3>2 DEF isNewerBundle
      <4>2. CASE deltaLineHeadBundleVersion'[h][t] = b.ver
        BY <1>1, <3>2, <4>1, <4>2, NilAssumption, VersionOrder
      <4>3. CASE /\ bundle[h][t] # Nil /\ NewerThan(b.ver, bundle[h][t].ver)
                 /\ deltaLineHeadBundleVersion'[h][t] = deltaLineHeadBundleVersion[h][t]
        <5>1. /\ deltaLineHeadBundleVersion[h][t] # Nil
              /\ ~NewerThan(deltaLineHeadBundleVersion[h][t], bundle[h][t].ver)
              /\ deltaLineHeadBundleVersion[h][t] \in BundleVersions
              /\ bundle[h][t].ver \in BundleVersions
          BY <1>0, <1>1, <2>2, <3>2, <4>3, VersionTypes DEF PacksCanReturn
        <5>2. ~NewerThan(deltaLineHeadBundleVersion[h][t], b.ver)
          BY <1>1, <4>3, <5>1, VersionOrder
        <5>. QED
          BY <3>2, <4>1, <4>3, <5>1, <5>2
      <4>. QED
        BY <4>1, <4>2, <4>3
    <3>. QED
      BY <3>1, <3>2
  <2>. QED
    BY <2>1, <2>2 DEF PacksCanReturn
<1>8. EventsAreDelivered'
  <2>1. \A g, u, c : Carries(deliveries, g, u, c) => Carries(deliveries', g, u, c)
    BY <1>0, <1>1, <1>2, CarriesStays
  <2>2. ASSUME NEW g \in Hubs, NEW u \in Types, bundle'[g][u] # Nil
        PROVE  Carries(deliveries', g, u, bundle'[g][u])
    <3>1. CASE bundle'[g][u] = bundle[g][u]
      BY <1>0, <2>1, <2>2, <3>1 DEF EventsAreDelivered
    <3>2. CASE bundle'[g][u] # bundle[g][u]
      <4>1. /\ g = h /\ u = t /\ bundle'[h][t].ver = b.ver
            /\ bundle[h][t] # Nil => NewerThan(b.ver, bundle[h][t].ver)
            /\ \A e \in bundle'[h][t].events :
                   e = m \/ (bundle[h][t] # Nil /\ e \in bundle[h][t].events)
        BY <1>4, <3>2 DEF OtherElementsStay, elementVars, isNewerBundle
      <4>2. SUFFICES ASSUME NEW e \in bundle'[h][t].events
                     PROVE  /\ e \in 1..Len(deliveries')
                            /\ deliveries'[e].hub = h /\ deliveries'[e].type = t
                            /\ ~NewerThan(deliveries'[e].ver, b.ver)
        BY <4>1 DEF Carries
      <4>3. CASE e = m
        <5>1. deliveries'[m] = o /\ m \in 1..Len(deliveries')
          BY <1>0, <1>1, <1>2 DEF m
        <5>. QED
          BY <1>1, <4>3, <5>1 DEF h, t
      <4>4. CASE bundle[h][t] # Nil /\ e \in bundle[h][t].events
        <5>1. Carries(deliveries', h, t, bundle[h][t])
          BY <1>0, <1>1, <2>1, <4>4 DEF EventsAreDelivered
        <5>2. /\ e \in 1..Len(deliveries')
              /\ deliveries'[e].hub = h /\ deliveries'[e].type = t
              /\ ~NewerThan(deliveries'[e].ver, bundle[h][t].ver)
          BY <4>4, <5>1 DEF Carries
        <5>3. deliveries'[e].ver \in BundleVersions /\ bundle[h][t].ver \in BundleVersions
          BY <1>0, <1>1, <1>5, <4>4, <5>2, VersionTypes DEF SyncTypeOK
        <5>. QED
          BY <1>1, <4>1, <4>4, <5>2, <5>3, VersionOrder
      <4>. QED
        BY <4>1, <4>3, <4>4
    <3>. QED
      BY <3>1, <3>2
  <2>3. ASSUME NEW w \in Workers, job'[w] # Nil
        PROVE  Carries(deliveries', job'[w].hub, job'[w].type, job'[w].bundle)
    BY <1>0, <1>4, <2>1, <2>3 DEF JobsStay, EventsAreDelivered
  <2>. QED
    BY <2>2, <2>3 DEF EventsAreDelivered
<1>9. WrittenIsStored'
  <2>1. \A k \in 1..Len(deliveries) : k \in 1..Len(deliveries') /\ deliveries'[k] = deliveries[k]
    BY <1>0, <1>1, <1>2
  <2>. QED
    BY <1>0, <1>2, <2>1 DEF WrittenIsStored, IsStored, dbVars
<1>10. KnownExist'
  <2>1. objects[o.hub][o.type] # Nil /\ Exists(o)'
    BY <1>0, <1>2 DEF VersionsInOrder, Exists
  <2>2. \A k \in 1..Len(deliveries') :
          deliveries'[k] = o \/ (k \in 1..Len(deliveries) /\ deliveries'[k] = deliveries[k])
    BY <1>0, <1>1, <1>2
  <2>. QED
    BY <1>2, <2>1, <2>2 DEF KnownExist, Exists, SyncIInv, SyncInv
<1>11. NothingIsLost
  <2>1. \A g \in Hubs, u \in Types : ~NewerThan(stored[g][u], stored'[g][u])
    BY <1>0, <1>2, VersionTypes, VersionOrder DEF dbVars
  <2>2. ASSUME NEW g \in Hubs, NEW u \in Types, NEW v \in BundleVersions, IsHeld(g, u, v)
        PROVE  IsHeld(g, u, v)'
    <3>1. CASE ~NewerThan(v, stored[g][u])
      BY <1>2, <3>1 DEF IsHeld, dbVars
    <3>2. CASE bundle[g][u] # Nil /\ ~NewerThan(v, bundle[g][u].ver)
      <4>1. CASE bundle'[g][u] = bundle[g][u]
        BY <3>2, <4>1 DEF IsHeld
      <4>2. CASE bundle'[g][u] # bundle[g][u]
        <5>1. /\ g = h /\ u = t /\ bundle'[h][t].ver = b.ver /\ bundle'[h][t] # Nil
              /\ NewerThan(b.ver, bundle[h][t].ver)
          BY <1>4, <3>2, <4>2 DEF OtherElementsStay, elementVars, isNewerBundle
        <5>2. ~NewerThan(v, b.ver)
          BY <1>0, <1>1, <3>2, <5>1, VersionTypes, VersionOrder
        <5>. QED
          BY <5>1, <5>2 DEF IsHeld
      <4>. QED
        BY <4>1, <4>2
    <3>3. CASE SyncMode[u] = "delta" /\ \E w \in Workers :
                 job[w] # Nil /\ job[w].hub = g /\ job[w].type = u /\ ~NewerThan(v, job[w].bundle.ver)
      BY <1>4, <3>3 DEF IsHeld, JobsStay
    <3>. QED
      BY <2>2, <3>1, <3>2, <3>3 DEF IsHeld
  <2>. QED
    BY <2>1, <2>2 DEF NothingIsLost
<1>12. \A v \in BundleVersions : ~NewerThan(v, b.ver) => IsHeld(h, t, v)'
  <2> SUFFICES ASSUME NEW v \in BundleVersions, ~NewerThan(v, b.ver) PROVE IsHeld(h, t, v)'
    OBVIOUS
  <2>1. CASE isNewerBundle(h, t, b)
    BY <1>4, <2>1 DEF IsHeld
  <2>2. CASE ~NewerThan(b.ver, lastProcessedBundleVersion[h][t])
    <3>1. ~NewerThan(lastProcessedBundleVersion[h][t], stored[h][t])
      BY <1>0, <1>1 DEF VersionsInOrder
    <3>2. ~NewerThan(v, stored[h][t])
      BY <1>0, <1>1, <2>2, <3>1, VersionTypes, VersionOrder
    <3>. QED
      BY <1>2, <3>2 DEF IsHeld, dbVars
  <2>3. CASE ~isNewerBundle(h, t, b) /\ bundle[h][t] # Nil /\ ~NewerThan(b.ver, bundle[h][t].ver)
    <3>1. ~NewerThan(v, bundle[h][t].ver)
      BY <1>0, <1>1, <2>3, VersionTypes, VersionOrder
    <3>2. bundle' = bundle
      BY <1>4, <2>3 DEF elementVars
    <3>. QED
      BY <2>3, <3>1, <3>2 DEF IsHeld
  <2>. QED
    BY <2>1, <2>2, <2>3 DEF isNewerBundle
<1>. QED
  BY <1>1, <1>3, <1>5, <1>6, <1>7, <1>8, <1>9, <1>10, <1>11, <1>12 DEF SyncIInv, SyncInv, h, t

\* A step of the service, the client or the committer that leaves the conflation layer alone.
LEMMA ClientStepKeeps ==
    ASSUME SyncIInv, UNCHANGED <<vars, deliveries>>, SyncTypeOK',
           \A h \in Hubs, t \in Types :
               /\ objects[h][t] # Nil => objects'[h][t] # Nil
               /\ ~NewerThan(LastVersion(h, t), LastVersion(h, t)')
               /\ LastVersion(h, t)'.incarnation = 0,
           handled' \in {handled, Nil},
           \A o \in polled' :
               /\ objects'[o.hub][o.type] # Nil
               /\ ~NewerThan(o.ver, LastVersion(o.hub, o.type)'),
           \A o \in toCommit' : IsStored(o) /\ Exists(o)
    PROVE  SyncIInv' /\ NothingIsLost
<1>0. /\ IInv /\ CInv /\ SyncTypeOK /\ VersionsInOrder /\ PacksCanReturn /\ EventsAreDelivered
      /\ WrittenIsStored
      /\ UNCHANGED <<elementVars, queueVars, dispatchVars, job, received, processed, dbVars>>
      /\ UNCHANGED <<bundle, lastDispatchedDelta, deltaLineHeadBundleVersion,
                     lastProcessedBundleVersion, stored, applied, deliveries>>
  BY DEF SyncIInv, SyncInv, vars, elementVars, dbVars
<1>1. IInv' /\ CInv'
  BY <1>0, NextIInv, NextKeeps
<1>2. VersionsInOrder'
  <2>1. ASSUME NEW h \in Hubs, NEW t \in Types, NEW v \in BundleVersions,
               ~NewerThan(v, LastVersion(h, t))
        PROVE  ~NewerThan(v, LastVersion(h, t)')
    <3>1. LastVersion(h, t) \in BundleVersions /\ LastVersion(h, t)' \in BundleVersions
      <4>1. SyncTypeOK' => LastVersion(h, t)' \in BundleVersions
        BY DEF SyncTypeOK, SyncObject, LastVersion, noBundleVersion, NewBundleVersion,
               BundleVersions
      <4>. QED
        BY <1>0, <4>1, LastVersionType
    <3>. QED
      BY <2>1, <3>1, VersionOrder
  <2>2. \A h \in Hubs, t \in Types :
          /\ ~NewerThan(lastProcessedBundleVersion'[h][t], stored'[h][t])
          /\ ~NewerThan(stored'[h][t], LastVersion(h, t)')
    BY <1>0, <2>1, VersionTypes DEF VersionsInOrder
  <2>3. \A h \in Hubs, t \in Types : bundle'[h][t] # Nil => InOrder(h, t, bundle[h][t].ver)'
    BY <1>0, <2>1, VersionTypes DEF VersionsInOrder, InOrder
  <2>4. \A w \in Workers :
          job'[w] # Nil => InOrder(job[w].hub, job[w].type, job[w].bundle.ver)'
    BY <1>0, <2>1, VersionTypes DEF VersionsInOrder, InOrder
  <2>. QED
    BY <2>2, <2>3, <2>4 DEF VersionsInOrder
<1>3. PacksCanReturn' /\ EventsAreDelivered'
  BY <1>0 DEF PacksCanReturn, PackCanReturn, EventsAreDelivered
<1>4. WrittenIsStored'
  BY <1>0 DEF WrittenIsStored, IsStored
<1>5. NothingIsLost
  BY <1>0, VersionTypes, VersionOrder DEF NothingIsLost, IsHeld
<1>6. KnownExist'
  <2>1. ASSUME NEW o \in ObjectMeta, Exists(o)
        PROVE  Exists(o)'
    BY <2>1 DEF Exists, ObjectMeta
  <2>2. /\ \A m \in 1..Len(deliveries) : deliveries[m] \in ObjectMeta /\ Exists(deliveries[m])
        /\ handled # Nil => handled \in ObjectMeta /\ Exists(handled)
        /\ toCommit' \subseteq ObjectMeta /\ deliveries' = deliveries
    BY <1>0 DEF SyncTypeOK, KnownExist, SyncIInv, SyncInv
  <2>3. \A m \in 1..Len(deliveries') : Exists(deliveries[m])'
    BY <2>1, <2>2 DEF Exists
  <2>4. handled' # Nil => Exists(handled)'
    BY <2>1, <2>2 DEF Exists
  <2>. QED
    BY <2>1, <2>2, <2>3, <2>4 DEF KnownExist
<1>. QED
  BY <1>1, <1>2, <1>3, <1>4, <1>5, <1>6 DEF SyncIInv, SyncInv

\* The parts of the invariant that a step of the dispatcher or of a worker touches.
ProcessStepIsSafe ==
    VersionsInOrder' /\ PacksCanReturn' /\ EventsAreDelivered' /\ WrittenIsStored' /\ NothingIsLost

\* What a dispatcher's or a worker's step relies on.
LEMMA ProcessStepFacts ==
    ASSUME SyncIInv, UNCHANGED <<objects, clientVars, markerVars>>
    PROVE  /\ IInv /\ CInv /\ SyncTypeOK /\ VersionsInOrder /\ PacksCanReturn
           /\ EventsAreDelivered /\ WrittenIsStored
           /\ UNCHANGED <<objects, polled, deliveries, toCommit>>
           /\ \A h \in Hubs, t \in Types : LastVersion(h, t)' = LastVersion(h, t)
           /\ \A o \in polled' :
                /\ objects'[o.hub][o.type] # Nil
                /\ ~NewerThan(o.ver, LastVersion(o.hub, o.type)')
<1>1. /\ IInv /\ CInv /\ SyncTypeOK /\ VersionsInOrder /\ PacksCanReturn
      /\ EventsAreDelivered /\ WrittenIsStored
      /\ UNCHANGED <<objects, polled, deliveries, toCommit>>
  BY DEF SyncIInv, SyncInv, clientVars, markerVars
<1>. QED
  BY <1>1 DEF LastVersion, VersionsInOrder

\* GetNext moves the pending bundle, or leaves it there and gives it to a worker as well.
LEMMA GetNextIsSafe ==
    ASSUME SyncIInv, NEW h \in Hubs, NEW t \in Types, GetNext(h, t),
           UNCHANGED <<objects, clientVars, markerVars>>
    PROVE  ProcessStepIsSafe
<1>0. /\ IInv /\ CInv /\ SyncTypeOK /\ VersionsInOrder /\ PacksCanReturn
      /\ EventsAreDelivered /\ WrittenIsStored
      /\ UNCHANGED <<objects, polled, deliveries, toCommit>>
      /\ \A g \in Hubs, u \in Types : LastVersion(g, u)' = LastVersion(g, u)
      /\ \A o \in polled' : /\ objects'[o.hub][o.type] # Nil
                            /\ ~NewerThan(o.ver, LastVersion(o.hub, o.type)')
  BY ProcessStepFacts
<1>1. /\ OtherElementsStay(h, t)
      /\ UNCHANGED <<lastProcessedBundleVersion, deltaLineHeadBundleVersion, dbVars>>
      /\ bundle[h][t] # Nil
      /\ SyncMode[t] = "complete" => bundle'[h][t] = bundle[h][t]
      /\ SyncMode[t] = "delta" =>
           bundle'[h][t] = Nil /\ lastDispatchedDelta'[h][t].bundle = bundle[h][t]
      /\ \A w \in Workers : job[w] # Nil => job[w].hub # h
      /\ SyncMode[t] \in {"complete", "delta"}
  BY <1>0, GetNextEffect, RegistrationAssumption
<1>2. PICK a \in Workers :
        /\ job[a] = Nil /\ job'[a] # Nil
        /\ job'[a].hub = h /\ job'[a].type = t /\ job'[a].bundle = bundle[h][t]
        /\ \A w \in Workers : w # a => job'[w] = job[w]
  BY <1>0, GetNextEffect
<1>3. \A g \in Hubs, u \in Types : bundle'[g][u] # Nil => bundle'[g][u] = bundle[g][u]
  BY <1>1 DEF OtherElementsStay
<1>4. VersionsInOrder'
  <2>1. \A g \in Hubs, u \in Types :
          /\ ~NewerThan(lastProcessedBundleVersion'[g][u], stored'[g][u])
          /\ ~NewerThan(stored'[g][u], LastVersion(g, u)')
          /\ LastVersion(g, u)'.incarnation = 0
          /\ bundle'[g][u] # Nil => InOrder(g, u, bundle[g][u].ver)'
    BY <1>0, <1>1, <1>3 DEF VersionsInOrder, InOrder, dbVars
  <2>2. ASSUME NEW w \in Workers, job'[w] # Nil
        PROVE  InOrder(job[w].hub, job[w].type, job[w].bundle.ver)'
    <3>1. CASE w = a
      BY <1>0, <1>1, <1>2, <3>1 DEF VersionsInOrder, InOrder, dbVars
    <3>2. CASE w # a
      BY <1>0, <1>1, <1>2, <2>2, <3>2, VersionTypes DEF VersionsInOrder, InOrder, dbVars
    <3>. QED
      BY <3>1, <3>2
  <2>. QED
    BY <1>0, <2>1, <2>2 DEF VersionsInOrder
<1>5. PacksCanReturn'
  <2>1. ASSUME NEW w \in Workers, job'[w] # Nil
        PROVE  PackCanReturn(w)'
    <3>1. CASE w = a
      <4>1. SyncMode[t] = "delta" =>
              /\ deltaLineHeadBundleVersion'[h][t] # Nil
              /\ ~NewerThan(deltaLineHeadBundleVersion'[h][t], bundle[h][t].ver)
        BY <1>0, <1>1 DEF PacksCanReturn
      <4>. QED
        BY <1>1, <1>2, <3>1, <4>1 DEF PackCanReturn
    <3>2. CASE w # a
      <4>1. /\ job'[w] = job[w] /\ job[w] # Nil /\ PackCanReturn(w)
            /\ job[w].hub \in Hubs /\ job[w].type \in Types /\ job[w].hub # h
        BY <1>0, <1>1, <1>2, <2>1, <3>2, VersionTypes DEF PacksCanReturn
      <4>2. /\ bundle'[job[w].hub][job[w].type] = bundle[job[w].hub][job[w].type]
            /\ lastDispatchedDelta'[job[w].hub][job[w].type] =
                 lastDispatchedDelta[job[w].hub][job[w].type]
            /\ deltaLineHeadBundleVersion' = deltaLineHeadBundleVersion
        BY <1>1, <4>1 DEF OtherElementsStay
      <4>. QED
        BY <4>1, <4>2 DEF PackCanReturn
    <3>. QED
      BY <3>1, <3>2
  <2>. QED
    BY <1>0, <1>1, <1>3, <2>1 DEF PacksCanReturn
<1>6. EventsAreDelivered'
  BY <1>0, <1>2, <1>3, <1>1 DEF EventsAreDelivered
<1>7. WrittenIsStored'
  BY <1>0, <1>1 DEF WrittenIsStored, IsStored, dbVars
<1>8. NothingIsLost
  <2>1. \A g \in Hubs, u \in Types : ~NewerThan(stored[g][u], stored'[g][u])
    BY <1>0, <1>1, VersionTypes, VersionOrder DEF dbVars
  <2>2. ASSUME NEW g \in Hubs, NEW u \in Types, NEW v \in BundleVersions, IsHeld(g, u, v)
        PROVE  IsHeld(g, u, v)'
    <3>1. CASE ~NewerThan(v, stored[g][u])
      BY <1>1, <3>1 DEF IsHeld, dbVars
    <3>2. CASE bundle[g][u] # Nil /\ ~NewerThan(v, bundle[g][u].ver)
      <4>1. CASE bundle'[g][u] = bundle[g][u]
        BY <3>2, <4>1 DEF IsHeld
      <4>2. CASE bundle'[g][u] # bundle[g][u]
        <5>1. g = h /\ u = t /\ SyncMode[t] = "delta"
          BY <1>1, <4>2 DEF OtherElementsStay
        <5>. QED
          BY <1>2, <3>2, <5>1 DEF IsHeld
      <4>. QED
        BY <4>1, <4>2
    <3>3. CASE SyncMode[u] = "delta" /\ \E w \in Workers :
                 job[w] # Nil /\ job[w].hub = g /\ job[w].type = u /\ ~NewerThan(v, job[w].bundle.ver)
      BY <1>2, <3>3 DEF IsHeld
    <3>. QED
      BY <2>2, <3>1, <3>2, <3>3 DEF IsHeld
  <2>. QED
    BY <2>1, <2>2 DEF NothingIsLost
<1>. QED
  BY <1>4, <1>5, <1>6, <1>7, <1>8 DEF ProcessStepIsSafe

\* A handler function writes a version between what is stored and what is pending.
LEMMA RunHandlerIsSafe ==
    ASSUME SyncIInv, NEW w \in Workers, NEW result \in {"success", "error"},
           RunHandler(w, result), UNCHANGED <<objects, clientVars, markerVars>>
    PROVE  ProcessStepIsSafe
<1> DEFINE h == job[w].hub
           t == job[w].type
           ver == job[w].bundle.ver
<1>0. /\ IInv /\ CInv /\ SyncTypeOK /\ VersionsInOrder /\ PacksCanReturn
      /\ EventsAreDelivered /\ WrittenIsStored
      /\ UNCHANGED <<objects, polled, deliveries, toCommit>>
      /\ \A g \in Hubs, u \in Types : LastVersion(g, u)' = LastVersion(g, u)
      /\ \A o \in polled' : /\ objects'[o.hub][o.type] # Nil
                            /\ ~NewerThan(o.ver, LastVersion(o.hub, o.type)')
  BY ProcessStepFacts
<1>1. /\ JobsStay /\ UNCHANGED elementVars
      /\ job[w] # Nil /\ h \in Hubs /\ t \in Types /\ ver \in BundleVersions
      /\ \/ UNCHANGED dbVars
         \/ /\ stored' = [stored EXCEPT ![h][t] = ver]
            /\ applied' = applied \cup job[w].bundle.events
  BY <1>0, RunHandlerEffect DEF Bundle
<1>2. /\ ~NewerThan(stored[h][t], ver) /\ ~NewerThan(ver, LastVersion(h, t))
      /\ \A v \in Workers : v # w /\ job[v] # Nil => job[v].hub # h
      /\ stored \in [Hubs -> [Types -> BundleVersions]]
  BY <1>0, <1>1 DEF VersionsInOrder, InOrder, IInv, JobFlags, TypeOK
<1>3. bundle[h][t] # Nil => ~NewerThan(ver, bundle[h][t].ver)
  <2>1. SyncMode[t] \in {"complete", "delta"}
    BY <1>1, RegistrationAssumption
  <2>2. BundleIsDue(w) /\ PackCanReturn(w)
    BY <1>0, <1>1 DEF CInv, JobIsDescribed, PacksCanReturn
  <2>. QED
    BY <2>1, <2>2 DEF BundleIsDue, PackCanReturn
<1>4. Carries(deliveries, h, t, job[w].bundle)
  BY <1>0, <1>1 DEF EventsAreDelivered
<1> HIDE DEF h, t, ver
<1>5. \A g \in Hubs, u \in Types :
        /\ stored'[g][u] = stored[g][u] \/ (g = h /\ u = t /\ stored'[g][u] = ver)
        /\ ~NewerThan(stored[g][u], stored'[g][u])
  <2>1. CASE UNCHANGED dbVars
    BY <1>0, <2>1, VersionTypes, VersionOrder DEF dbVars
  <2>2. CASE stored' = [stored EXCEPT ![h][t] = ver]
    BY <1>0, <1>1, <1>2, <2>2, VersionTypes, VersionOrder
  <2>. QED
    BY <1>1, <2>1, <2>2
<1>6. /\ UNCHANGED <<bundle, lastDispatchedDelta, deltaLineHeadBundleVersion,
                     lastProcessedBundleVersion>>
  BY <1>1 DEF elementVars
<1>7. VersionsInOrder'
  <2>1. ASSUME NEW g \in Hubs, NEW u \in Types
        PROVE  /\ ~NewerThan(lastProcessedBundleVersion'[g][u], stored'[g][u])
               /\ ~NewerThan(stored'[g][u], LastVersion(g, u)')
               /\ LastVersion(g, u)'.incarnation = 0
               /\ bundle'[g][u] # Nil => InOrder(g, u, bundle[g][u].ver)'
    <3>1. CASE stored'[g][u] = stored[g][u]
      BY <1>0, <1>6, <3>1 DEF VersionsInOrder, InOrder
    <3>2. CASE g = h /\ u = t /\ stored'[g][u] = ver
      <4>1. ~NewerThan(lastProcessedBundleVersion[h][t], ver)
        BY <1>0, <1>1, <1>2, VersionTypes, VersionOrder DEF VersionsInOrder
      <4>. QED
        BY <1>0, <1>2, <1>3, <1>6, <3>2, <4>1 DEF VersionsInOrder, InOrder
    <3>. QED
      BY <1>5, <3>1, <3>2
  <2>2. ASSUME NEW v \in Workers, job'[v] # Nil
        PROVE  InOrder(job[v].hub, job[v].type, job[v].bundle.ver)'
    <3>1. /\ job[v] # Nil /\ job'[v].hub = job[v].hub /\ job'[v].type = job[v].type
          /\ job'[v].bundle = job[v].bundle /\ job[v].hub \in Hubs /\ job[v].type \in Types
          /\ InOrder(job[v].hub, job[v].type, job[v].bundle.ver)
      BY <1>0, <1>1, <2>2, VersionTypes DEF JobsStay, VersionsInOrder
    <3>2. CASE v = w
      <4>1. job'[w].hub = h /\ job'[w].type = t /\ job'[w].bundle.ver = ver
        BY <3>1, <3>2 DEF h, t, ver
      <4>2. ~NewerThan(ver, ver)
        BY <1>1, VersionOrder
      <4>3. ~NewerThan(stored'[h][t], ver)
        BY <1>1, <1>2, <1>5, <4>2
      <4>. QED
        BY <1>0, <1>1, <1>2, <3>2, <4>1, <4>3 DEF InOrder
    <3>3. CASE v # w
      BY <1>0, <1>2, <1>5, <3>1, <3>3 DEF InOrder
    <3>. QED
      BY <3>2, <3>3
  <2>. QED
    BY <1>0, <2>1, <2>2 DEF VersionsInOrder
<1>8. PacksCanReturn'
  BY <1>0, <1>1, <1>6 DEF PacksCanReturn, PackCanReturn, JobsStay
<1>9. EventsAreDelivered'
  BY <1>0, <1>1, <1>6 DEF EventsAreDelivered, JobsStay
<1>10. ASSUME NEW o \in ObjectMeta, IsStored(o)
       PROVE  IsStored(o)'
  <2>1. /\ o.hub \in Hubs /\ o.type \in Types /\ o.ver \in BundleVersions
        /\ stored[o.hub][o.type] \in BundleVersions /\ ver \in BundleVersions
        /\ ~NewerThan(o.ver, stored[o.hub][o.type])
    BY <1>0, <1>1, <1>10, VersionTypes DEF IsStored
  <2>2. ~NewerThan(o.ver, stored'[o.hub][o.type])
    BY <1>5, <2>1, VersionOrder
  <2>. QED
    BY <2>2 DEF IsStored
<1>11. WrittenIsStored'
  <2>1. \A m \in 1..Len(deliveries) : deliveries[m] \in ObjectMeta
    BY <1>0 DEF SyncTypeOK
  <2>2. ASSUME NEW m \in applied'
        PROVE  m \in 1..Len(deliveries') /\ IsStored(deliveries[m])'
    <3>1. CASE m \in applied
      BY <1>0, <1>10, <2>1, <3>1 DEF WrittenIsStored, IsStored
    <3>2. CASE m \notin applied
      <4>1. m \in job[w].bundle.events /\ stored' = [stored EXCEPT ![h][t] = ver]
        BY <1>1, <2>2, <3>2 DEF dbVars
      <4>2. /\ m \in 1..Len(deliveries) /\ deliveries[m].hub = h /\ deliveries[m].type = t
            /\ ~NewerThan(deliveries[m].ver, ver)
        BY <1>4, <4>1 DEF Carries, ver
      <4>3. stored'[h][t] = ver
        BY <1>1, <1>2, <4>1
      <4>. QED
        BY <1>0, <4>2, <4>3 DEF IsStored
    <3>. QED
      BY <3>1, <3>2
  <2>3. \A o \in toCommit' : IsStored(o)'
    BY <1>0, <1>10 DEF WrittenIsStored, SyncTypeOK
  <2>. QED
    BY <2>2, <2>3 DEF WrittenIsStored
<1>12. NothingIsLost
  <2>1. ASSUME NEW g \in Hubs, NEW u \in Types, NEW v \in BundleVersions, IsHeld(g, u, v)
        PROVE  IsHeld(g, u, v)'
    <3>1. CASE ~NewerThan(v, stored[g][u])
      BY <1>0, <1>1, <1>5, <3>1, VersionTypes, VersionOrder DEF IsHeld
    <3>2. CASE NewerThan(v, stored[g][u])
      BY <1>1, <1>6, <2>1, <3>2 DEF IsHeld, JobsStay
    <3>. QED
      BY <3>1, <3>2
  <2>. QED
    BY <1>5, <2>1 DEF NothingIsLost
<1>. QED
  BY <1>7, <1>8, <1>9, <1>11, <1>12 DEF ProcessStepIsSafe

\* ReportResult drops a bundle only when its version is stored; a failed pack is pending again.
LEMMA ReportIsSafe ==
    ASSUME SyncIInv, NEW w \in Workers, NEW h \in Hubs, NEW t \in Types, ReportResult(w, h, t),
           UNCHANGED <<objects, clientVars, markerVars>>
    PROVE  ProcessStepIsSafe
<1> DEFINE pack == job[w].bundle
           now == bundle'[h][t]
<1>0. /\ IInv /\ CInv /\ SyncTypeOK /\ VersionsInOrder /\ PacksCanReturn
      /\ EventsAreDelivered /\ WrittenIsStored
      /\ UNCHANGED <<objects, polled, deliveries, toCommit>>
      /\ \A g \in Hubs, u \in Types : LastVersion(g, u)' = LastVersion(g, u)
      /\ \A o \in polled' : /\ objects'[o.hub][o.type] # Nil
                            /\ ~NewerThan(o.ver, LastVersion(o.hub, o.type)')
  BY ProcessStepFacts
<1>1. /\ OtherElementsStay(h, t)
      /\ job[w] # Nil /\ job[w].hub = h /\ job[w].type = t /\ pack \in Bundle
      /\ job'[w] = Nil /\ \A v \in Workers : v # w => job'[v] = job[v]
      /\ \A v \in Workers : v # w /\ job[v] # Nil => job[v].hub # h
      /\ UNCHANGED <<deltaLineHeadBundleVersion, dbVars>>
  BY <1>0, ReportEffect
<1>2. PackCanReturn(w) /\ InOrder(h, t, pack.ver) /\ Carries(deliveries, h, t, pack)
      /\ pack.ver \in BundleVersions
  BY <1>0, <1>1, VersionTypes DEF PacksCanReturn, VersionsInOrder, EventsAreDelivered
<1>3. SyncMode[t] = "delta" => lastDispatchedDelta[h][t].bundle = pack
  BY <1>1, <1>2 DEF PackCanReturn
<1>4. \/ /\ stored[h][t] = pack.ver
         /\ lastProcessedBundleVersion'[h][t] \in {pack.ver, lastProcessedBundleVersion[h][t]}
         /\ \/ now = bundle[h][t]
            \/ now = Nil /\ bundle[h][t] # Nil /\ bundle[h][t].ver = pack.ver
      \/ /\ UNCHANGED lastProcessedBundleVersion
         /\ \/ /\ now = bundle[h][t]
               /\ SyncMode[t] = "delta" => NewerThan(deltaLineHeadBundleVersion[h][t], pack.ver)
            \/ /\ SyncMode[t] = "delta" /\ bundle[h][t] = Nil /\ now = pack
               /\ ~NewerThan(deltaLineHeadBundleVersion[h][t], pack.ver)
            \/ /\ SyncMode[t] = "delta" /\ bundle[h][t] # Nil /\ now # Nil
               /\ now.ver = bundle[h][t].ver
               /\ now.events \subseteq bundle[h][t].events \cup pack.events
  BY <1>0, <1>3, ReportEffect
<1> HIDE DEF pack, now
<1>5. \/ now = bundle[h][t]
      \/ now = Nil
      \/ /\ SyncMode[t] = "delta" /\ bundle[h][t] = Nil /\ now = pack
         /\ ~NewerThan(deltaLineHeadBundleVersion[h][t], pack.ver)
      \/ /\ SyncMode[t] = "delta" /\ bundle[h][t] # Nil /\ now.ver = bundle[h][t].ver
         /\ now.events \subseteq bundle[h][t].events \cup pack.events
  BY <1>4
<1>6. VersionsInOrder'
  <2>1. ASSUME NEW g \in Hubs, NEW u \in Types
        PROVE  /\ ~NewerThan(lastProcessedBundleVersion'[g][u], stored'[g][u])
               /\ ~NewerThan(stored'[g][u], LastVersion(g, u)')
               /\ LastVersion(g, u)'.incarnation = 0
    <3>1. CASE lastProcessedBundleVersion'[g][u] = lastProcessedBundleVersion[g][u]
      BY <1>0, <1>1, <3>1 DEF VersionsInOrder, dbVars
    <3>2. CASE lastProcessedBundleVersion'[g][u] # lastProcessedBundleVersion[g][u]
      <4>1. g = h /\ u = t /\ lastProcessedBundleVersion'[h][t] = stored[h][t]
        BY <1>1, <1>4, <3>2 DEF OtherElementsStay
      <4>2. ~NewerThan(stored[h][t], stored[h][t])
        BY <1>0, VersionTypes, VersionOrder
      <4>. QED
        BY <1>0, <1>1, <4>1, <4>2 DEF VersionsInOrder, dbVars
    <3>. QED
      BY <3>1, <3>2
  <2>2. ASSUME NEW g \in Hubs, NEW u \in Types, bundle'[g][u] # Nil
        PROVE  InOrder(g, u, bundle[g][u].ver)'
    <3>1. CASE bundle'[g][u] = bundle[g][u]
      BY <1>0, <1>1, <2>2, <3>1 DEF VersionsInOrder, InOrder, dbVars
    <3>2. CASE bundle'[g][u] # bundle[g][u]
      <4>1. g = h /\ u = t
        BY <1>1, <3>2 DEF OtherElementsStay
      <4>2. now.ver = pack.ver \/ (bundle[h][t] # Nil /\ now.ver = bundle[h][t].ver)
        BY <1>5, <2>2, <3>2, <4>1 DEF now
      <4>. QED
        BY <1>0, <1>1, <1>2, <4>1, <4>2 DEF VersionsInOrder, InOrder, dbVars, now
    <3>. QED
      BY <3>1, <3>2
  <2>3. ASSUME NEW v \in Workers, job'[v] # Nil
        PROVE  InOrder(job[v].hub, job[v].type, job[v].bundle.ver)'
    BY <1>0, <1>1, <2>3, VersionTypes DEF VersionsInOrder, InOrder, dbVars
  <2>. QED
    BY <1>0, <2>1, <2>2, <2>3 DEF VersionsInOrder
<1>7. PacksCanReturn'
  <2>1. ASSUME NEW v \in Workers, job'[v] # Nil
        PROVE  PackCanReturn(v)'
    <3>1. /\ job'[v] = job[v] /\ job[v] # Nil /\ PackCanReturn(v)
          /\ job[v].hub \in Hubs /\ job[v].type \in Types /\ job[v].hub # h
      BY <1>0, <1>1, <2>1, VersionTypes DEF PacksCanReturn
    <3>2. /\ bundle'[job[v].hub][job[v].type] = bundle[job[v].hub][job[v].type]
          /\ lastDispatchedDelta'[job[v].hub][job[v].type] =
               lastDispatchedDelta[job[v].hub][job[v].type]
          /\ deltaLineHeadBundleVersion' = deltaLineHeadBundleVersion
      BY <1>1, <3>1 DEF OtherElementsStay
    <3>. QED
      BY <3>1, <3>2 DEF PackCanReturn
  <2>2. ASSUME NEW g \in Hubs, NEW u \in Types, SyncMode[u] = "delta", bundle'[g][u] # Nil
        PROVE  /\ deltaLineHeadBundleVersion'[g][u] # Nil
               /\ ~NewerThan(deltaLineHeadBundleVersion'[g][u], bundle'[g][u].ver)
    <3>1. CASE bundle'[g][u] = bundle[g][u]
      BY <1>0, <1>1, <2>2, <3>1 DEF PacksCanReturn
    <3>2. CASE bundle'[g][u] # bundle[g][u]
      <4>1. g = h /\ u = t
        BY <1>1, <3>2 DEF OtherElementsStay
      <4>2. deltaLineHeadBundleVersion[h][t] # Nil
        BY <1>1, <1>2, <2>2, <4>1 DEF PackCanReturn
      <4>3. \/ now = pack /\ ~NewerThan(deltaLineHeadBundleVersion[h][t], pack.ver)
            \/ bundle[h][t] # Nil /\ now.ver = bundle[h][t].ver
        BY <1>5, <2>2, <3>2, <4>1 DEF now
      <4>. QED
        BY <1>0, <1>1, <2>2, <4>1, <4>2, <4>3 DEF PacksCanReturn, now
    <3>. QED
      BY <3>1, <3>2
  <2>. QED
    BY <2>1, <2>2 DEF PacksCanReturn
<1>8. EventsAreDelivered'
  <2>1. ASSUME NEW g \in Hubs, NEW u \in Types, bundle'[g][u] # Nil
        PROVE  Carries(deliveries', g, u, bundle'[g][u])
    <3>1. CASE bundle'[g][u] = bundle[g][u]
      BY <1>0, <2>1, <3>1 DEF EventsAreDelivered
    <3>2. CASE bundle'[g][u] # bundle[g][u]
      <4>1. g = h /\ u = t
        BY <1>1, <3>2 DEF OtherElementsStay
      <4>2. CASE now = pack
        BY <1>0, <1>2, <4>1, <4>2 DEF now
      <4>3. CASE /\ SyncMode[t] = "delta" /\ bundle[h][t] # Nil /\ now.ver = bundle[h][t].ver
                 /\ now.events \subseteq bundle[h][t].events \cup pack.events
        <5>1. ~NewerThan(pack.ver, now.ver) /\ now.ver \in BundleVersions
          BY <1>0, <1>1, <1>2, <4>3, VersionTypes DEF PackCanReturn, pack
        <5>2. Carries(deliveries, h, t, bundle[h][t])
          BY <1>0, <4>3 DEF EventsAreDelivered
        <5>3. ASSUME NEW m \in now.events
              PROVE  /\ m \in 1..Len(deliveries)
                     /\ deliveries[m].hub = h /\ deliveries[m].type = t
                     /\ ~NewerThan(deliveries[m].ver, now.ver)
          <6>1. CASE m \in bundle[h][t].events
            BY <4>3, <5>2, <6>1 DEF Carries
          <6>2. CASE m \in pack.events
            <7>1. /\ m \in 1..Len(deliveries)
                  /\ deliveries[m].hub = h /\ deliveries[m].type = t
                  /\ ~NewerThan(deliveries[m].ver, pack.ver)
              BY <1>2, <6>2 DEF Carries
            <7>2. deliveries[m].ver \in BundleVersions
              BY <1>0, <7>1, VersionTypes DEF SyncTypeOK
            <7>. QED
              BY <1>2, <5>1, <7>1, <7>2, VersionOrder
          <6>. QED
            BY <4>3, <6>1, <6>2
        <5>. QED
          BY <1>0, <4>1, <5>3 DEF Carries, now
      <4>. QED
        BY <1>5, <2>1, <3>2, <4>1, <4>2, <4>3 DEF now
    <3>. QED
      BY <3>1, <3>2
  <2>2. ASSUME NEW v \in Workers, job'[v] # Nil
        PROVE  Carries(deliveries', job'[v].hub, job'[v].type, job'[v].bundle)
    BY <1>0, <1>1, <2>2 DEF EventsAreDelivered
  <2>. QED
    BY <2>1, <2>2 DEF EventsAreDelivered
<1>9. WrittenIsStored'
  BY <1>0, <1>1 DEF WrittenIsStored, IsStored, dbVars
<1>10. NothingIsLost
  <2>1. \A g \in Hubs, u \in Types : ~NewerThan(stored[g][u], stored'[g][u])
    BY <1>0, <1>1, VersionTypes, VersionOrder DEF dbVars
  <2>2. ASSUME NEW g \in Hubs, NEW u \in Types, NEW v \in BundleVersions, IsHeld(g, u, v)
        PROVE  IsHeld(g, u, v)'
    <3>1. CASE ~NewerThan(v, stored[g][u])
      BY <1>1, <3>1 DEF IsHeld, dbVars
    <3>2. CASE bundle[g][u] # Nil /\ ~NewerThan(v, bundle[g][u].ver)
      <4>1. CASE bundle'[g][u] = bundle[g][u]
        BY <3>2, <4>1 DEF IsHeld
      <4>2. CASE bundle'[g][u] # bundle[g][u]
        <5>1. g = h /\ u = t
          BY <1>1, <4>2 DEF OtherElementsStay
        <5>2. \/ stored[h][t] = pack.ver /\ bundle[h][t].ver = pack.ver
              \/ now # Nil /\ now.ver = bundle[h][t].ver
          BY <1>4, <3>2, <4>2, <5>1 DEF now
        <5>. QED
          BY <1>1, <3>2, <5>1, <5>2 DEF IsHeld, dbVars, now
      <4>. QED
        BY <4>1, <4>2
    <3>3. ASSUME SyncMode[u] = "delta", NEW x \in Workers, job[x] # Nil, job[x].hub = g,
                 job[x].type = u, ~NewerThan(v, job[x].bundle.ver)
          PROVE  IsHeld(g, u, v)'
      <4>1. CASE x # w
        BY <1>1, <3>3, <4>1 DEF IsHeld
      <4>2. CASE x = w
        <5>1. g = h /\ u = t /\ ~NewerThan(v, pack.ver)
          BY <1>1, <3>3, <4>2 DEF pack
        <5>2. CASE stored[h][t] = pack.ver
          BY <1>1, <5>1, <5>2 DEF IsHeld, dbVars
        <5>3. CASE now # Nil /\ ~NewerThan(pack.ver, now.ver) /\ now.ver \in BundleVersions
          <6>1. ~NewerThan(v, now.ver)
            BY <1>2, <5>1, <5>3, VersionOrder
          <6>. QED
            BY <5>1, <5>3, <6>1 DEF IsHeld, now
        <5>4. stored[h][t] = pack.ver \/ (now # Nil /\ ~NewerThan(pack.ver, now.ver)
                                            /\ now.ver \in BundleVersions)
          <6>1. /\ bundle[h][t] # Nil => /\ ~NewerThan(pack.ver, bundle[h][t].ver)
                                         /\ bundle[h][t].ver \in BundleVersions
                /\ NewerThan(deltaLineHeadBundleVersion[h][t], pack.ver) => bundle[h][t] # Nil
            BY <1>0, <1>1, <1>2, <3>3, <5>1, VersionTypes DEF PackCanReturn, pack
          <6>2. ~NewerThan(pack.ver, pack.ver) /\ pack # Nil
            BY <1>1, <1>2, VersionOrder, NilAssumption DEF pack
          <6>. QED
            BY <1>2, <1>4, <3>3, <5>1, <6>1, <6>2
        <5>. QED
          BY <5>2, <5>3, <5>4
      <4>. QED
        BY <4>1, <4>2
    <3>. QED
      BY <2>2, <3>1, <3>2, <3>3 DEF IsHeld
  <2>. QED
    BY <2>1, <2>2 DEF NothingIsLost
<1>. QED
  BY <1>6, <1>7, <1>8, <1>9, <1>10 DEF ProcessStepIsSafe

\* The dispatcher and the workers.
LEMMA SyncProcessKeeps ==
    ASSUME SyncIInv, Dispatch \/ \E w \in Workers : Work(w),
           UNCHANGED <<objects, clientVars, markerVars>>
    PROVE  SyncIInv' /\ NothingIsLost
<1>0. /\ IInv /\ CInv /\ SyncTypeOK /\ VersionsInOrder
      /\ UNCHANGED <<objects, polled, handled, deliveries, toCommit>>
  BY DEF SyncIInv, SyncInv, clientVars, markerVars
<1>1. IInv' /\ CInv'
  BY <1>0, NextIInv, NextKeeps DEF Next
<1>2. SyncTypeOK'
  BY <1>0 DEF SyncTypeOK, Dispatch, BlockingDequeue, Acquire, GetNext, GetNextFails, Work,
              RunHandler, ReportResult
<1>3. ASSUME UNCHANGED <<elementVars, job, received, processed, dbVars>>
      PROVE  ProcessStepIsSafe
  <2>1. UNCHANGED <<bundle, lastDispatchedDelta, deltaLineHeadBundleVersion,
                    lastProcessedBundleVersion, stored, applied, job>>
    BY <1>3 DEF elementVars, dbVars
  <2>2. VersionsInOrder'
    BY <1>0, <2>1 DEF VersionsInOrder, InOrder, LastVersion
  <2>3. PacksCanReturn' /\ EventsAreDelivered' /\ WrittenIsStored'
    BY <1>0, <2>1 DEF SyncIInv, SyncInv, PacksCanReturn, PackCanReturn, EventsAreDelivered,
                      WrittenIsStored, IsStored
  <2>4. NothingIsLost
    BY <1>0, <2>1, VersionTypes, VersionOrder DEF NothingIsLost, IsHeld
  <2>. QED
    BY <2>2, <2>3, <2>4 DEF ProcessStepIsSafe
<1>4. KnownExist'
  BY <1>0 DEF SyncIInv, SyncInv, KnownExist, Exists
<1>5. ProcessStepIsSafe
  <2>1. CASE BlockingDequeue \/ Acquire \/ GetNextFails
    BY <1>3, <2>1 DEF BlockingDequeue, Acquire, GetNextFails
  <2>2. CASE \E h \in Hubs, t \in Types : GetNext(h, t)
    BY <2>2, GetNextIsSafe
  <2>3. ASSUME NEW w \in Workers, Work(w)
        PROVE  ProcessStepIsSafe
    BY <2>3, RunHandlerIsSafe, ReportIsSafe DEF Work
  <2>. QED
    BY <2>1, <2>2, <2>3 DEF Dispatch
<1>. QED
  BY <1>1, <1>2, <1>4, <1>5 DEF SyncIInv, SyncInv, ProcessStepIsSafe

\* A leaf hub publishes the next version.
LEMMA PublishKeeps ==
    ASSUME SyncIInv, NEW h \in Hubs, NEW t \in Types, Publish(h, t)
    PROVE  /\ SyncIInv' /\ NothingIsLost
           /\ objects'[h][t].received = FALSE /\ objects'[h][t].consumed = FALSE
           /\ objects'[h][t] # Nil
           /\ \A g \in Hubs, u \in Types : g # h \/ u # t => objects'[g][u] = objects[g][u]
<1> DEFINE new == [ver |-> NewBundleVersion(0, LastVersion(h, t).generation + 1),
                   dep |-> IF Dependency[t] = Nil THEN noBundleVersion
                                                  ELSE LastVersion(h, Dependency[t]),
                   received |-> FALSE, consumed |-> FALSE]
<1>1. /\ SyncTypeOK /\ VersionsInOrder /\ WrittenIsStored
      /\ UNCHANGED <<vars, deliveries>> /\ UNCHANGED <<polled, handled, deliveries, toCommit>>
      /\ objects' = [objects EXCEPT ![h][t] = new]
      /\ received' = received
  BY DEF SyncIInv, SyncInv, Publish, clientVars, markerVars, vars
<1>2. new \in SyncObject /\ new.ver \in BundleVersions /\ new # Nil
  <2>1. \A g \in Hubs, u \in Types : LastVersion(g, u) \in BundleVersions
    BY <1>1, LastVersionType
  <2>2. Dependency[t] # Nil => Dependency[t] \in Types
    BY RegistrationAssumption
  <2>3. new.ver \in BundleVersions /\ new.dep \in BundleVersions
    BY <2>1, <2>2 DEF BundleVersions, NewBundleVersion, noBundleVersion
  <2>4. \A v, d \in BundleVersions :
          [ver |-> v, dep |-> d, received |-> FALSE, consumed |-> FALSE] \in SyncObject
    BY DEF SyncObject
  <2>5. new \in SyncObject
    BY <2>3, <2>4
  <2>. QED
    BY <2>3, <2>5, NilObjectAssumption
<1>3. /\ objects'[h][t] = new
      /\ \A g \in Hubs, u \in Types : g # h \/ u # t => objects'[g][u] = objects[g][u]
      /\ objects' \in [Hubs -> [Types -> SyncObject \cup {Nil}]]
  BY <1>1, <1>2 DEF SyncTypeOK
<1>4. SyncTypeOK'
  BY <1>1, <1>3 DEF SyncTypeOK
<1>5. ASSUME NEW g \in Hubs, NEW u \in Types
      PROVE  /\ ~NewerThan(LastVersion(g, u), LastVersion(g, u)')
             /\ LastVersion(g, u)'.incarnation = 0
  <2>1. LastVersion(g, u) \in BundleVersions /\ LastVersion(g, u).incarnation = 0
    BY <1>1, LastVersionType DEF VersionsInOrder
  <2>2. CASE g = h /\ u = t
    <3>1. LastVersion(g, u)' = NewBundleVersion(0, LastVersion(g, u).generation + 1)
      BY <1>2, <1>3, <2>2 DEF LastVersion
    <3>2. LastVersion(g, u).generation \in Nat
      BY <2>1 DEF BundleVersions
    <3>. QED
      BY <2>1, <3>1, <3>2 DEF NewerThan, NewBundleVersion
  <2>3. CASE g # h \/ u # t
    BY <1>3, <2>1, <2>3, VersionOrder DEF LastVersion
  <2>. QED
    BY <2>2, <2>3
<1>6. ASSUME NEW o \in polled'
      PROVE  /\ objects'[o.hub][o.type] # Nil
             /\ ~NewerThan(o.ver, LastVersion(o.hub, o.type)')
  <2>1. /\ o \in polled /\ o.hub \in Hubs /\ o.type \in Types /\ o.ver \in BundleVersions
        /\ objects[o.hub][o.type] # Nil /\ ~NewerThan(o.ver, LastVersion(o.hub, o.type))
    BY <1>1, <1>6 DEF SyncTypeOK, ObjectMeta, VersionsInOrder
  <2>2. /\ LastVersion(o.hub, o.type) \in BundleVersions
        /\ LastVersion(o.hub, o.type)' \in BundleVersions
    <3>1. LastVersion(o.hub, o.type) \in BundleVersions
      BY <1>1, <2>1, LastVersionType
    <3>2. LastVersion(o.hub, o.type)' \in BundleVersions
      BY <1>4, <2>1 DEF SyncTypeOK, SyncObject, LastVersion, noBundleVersion, NewBundleVersion,
                        BundleVersions
    <3>. QED
      BY <3>1, <3>2
  <2>3. ~NewerThan(LastVersion(o.hub, o.type), LastVersion(o.hub, o.type)')
    BY <1>5, <2>1
  <2>4. ~NewerThan(o.ver, LastVersion(o.hub, o.type)')
    BY <2>1, <2>2, <2>3, VersionOrder
  <2>. QED
    BY <1>2, <1>3, <2>1, <2>4
<1>7. \A o \in toCommit' : IsStored(o) /\ Exists(o)
  BY <1>1 DEF WrittenIsStored, SyncIInv, SyncInv, KnownExist
<1> HIDE DEF new
<1>. QED
  BY <1>1, <1>2, <1>3, <1>4, <1>5, <1>6, <1>7, ClientStepKeeps DEF new

\* A client or committer step that publishes nothing, and polls current objects only.
LEMMA SameVersionsKeep ==
    ASSUME SyncIInv, UNCHANGED <<vars, deliveries>>, SyncTypeOK', handled' \in {handled, Nil},
           \A h \in Hubs, t \in Types :
               /\ objects'[h][t] = Nil <=> objects[h][t] = Nil
               /\ LastVersion(h, t)' = LastVersion(h, t),
           \A o \in polled' : o \in polled \/ (Exists(o) /\ IsCurrent(o)),
           \A o \in toCommit' : IsStored(o) /\ Exists(o)
    PROVE  SyncIInv' /\ NothingIsLost
<1>1. SyncTypeOK /\ VersionsInOrder /\ polled' \subseteq ObjectMeta
  BY DEF SyncIInv, SyncInv, SyncTypeOK
<1>2. ASSUME NEW h \in Hubs, NEW t \in Types
      PROVE  /\ LastVersion(h, t)' = LastVersion(h, t) /\ LastVersion(h, t) \in BundleVersions
             /\ ~NewerThan(LastVersion(h, t), LastVersion(h, t)')
             /\ LastVersion(h, t)'.incarnation = 0
  <2>1. LastVersion(h, t) \in BundleVersions
    BY <1>1, LastVersionType
  <2>. QED
    BY <1>1, <2>1, VersionOrder DEF VersionsInOrder
<1>3. ASSUME NEW o \in polled'
      PROVE  /\ objects'[o.hub][o.type] # Nil
             /\ ~NewerThan(o.ver, LastVersion(o.hub, o.type)')
  <2>1. o.hub \in Hubs /\ o.type \in Types
    BY <1>1, <1>3 DEF ObjectMeta
  <2>2. objects[o.hub][o.type] # Nil /\ ~NewerThan(o.ver, LastVersion(o.hub, o.type))
    <3>1. CASE o \in polled
      BY <1>1, <3>1 DEF VersionsInOrder
    <3>2. CASE Exists(o) /\ IsCurrent(o)
      <4>1. o.ver = LastVersion(o.hub, o.type)
        BY <3>2 DEF IsCurrent, ObjectMetaData
      <4>. QED
        BY <1>2, <2>1, <3>2, <4>1 DEF Exists
    <3>. QED
      BY <1>3, <3>1, <3>2
  <2>. QED
    BY <1>2, <2>1, <2>2
<1>. QED
  BY <1>2, <1>3, ClientStepKeeps

\* A mark: one flag of one object is set.
LEMMA MarkedObject ==
    ASSUME SyncTypeOK, NEW o \in ObjectMeta, Exists(o), NEW flags,
           flags = [objects[o.hub][o.type] EXCEPT !.received = TRUE]
             \/ flags = [objects[o.hub][o.type] EXCEPT !.consumed = TRUE],
           objects' = [objects EXCEPT ![o.hub][o.type] = flags]
    PROVE  /\ objects' \in [Hubs -> [Types -> SyncObject \cup {Nil}]]
           /\ \A h \in Hubs, t \in Types :
                /\ objects'[h][t] = Nil <=> objects[h][t] = Nil
                /\ LastVersion(h, t)' = LastVersion(h, t)
                /\ h # o.hub \/ t # o.type => objects'[h][t] = objects[h][t]
           /\ objects'[o.hub][o.type] = flags
<1>1. /\ o.hub \in Hubs /\ o.type \in Types /\ objects[o.hub][o.type] \in SyncObject
      /\ objects \in [Hubs -> [Types -> SyncObject \cup {Nil}]]
  BY DEF SyncTypeOK, Exists, ObjectMeta
<1>2. flags \in SyncObject /\ flags.ver = objects[o.hub][o.type].ver /\ flags # Nil
  BY <1>1, NilObjectAssumption DEF SyncObject
<1>3. /\ objects'[o.hub][o.type] = flags
      /\ \A h \in Hubs, t \in Types : h # o.hub \/ t # o.type => objects'[h][t] = objects[h][t]
      /\ objects' \in [Hubs -> [Types -> SyncObject \cup {Nil}]]
  BY <1>1, <1>2
<1>. QED
  BY <1>1, <1>2, <1>3 DEF LastVersion, Exists

\* Start-up, polls, objects that are not used, marks and the committer's passes: what the
\* committer takes up was marked as processed, so it is stored.
LEMMA ClientKeeps ==
    ASSUME SyncIInv,
           \/ Register \/ StartPollingForUpdates \/ MarkObjectReceived \/ CommitObjects
           \/ \E o \in polled : skipObject(o)
    PROVE  /\ SyncIInv' /\ NothingIsLost
           /\ \A h \in Hubs, t \in Types :
                /\ objects'[h][t] = Nil <=> objects[h][t] = Nil
                /\ LastVersion(h, t)' = LastVersion(h, t)
<1>0. /\ SyncTypeOK /\ VersionsInOrder /\ WrittenIsStored /\ MarkedIsApplied /\ KnownExist
      /\ Len(deliveries) = received /\ deliveries \in Seq(ObjectMeta)
      /\ polled \subseteq ObjectMeta /\ toCommit \subseteq ObjectMeta
      /\ \A o \in toCommit : IsStored(o) /\ Exists(o)
  BY DEF SyncIInv, SyncInv, CInv, SyncTypeOK, WrittenIsStored, KnownExist
<1> DEFINE SameVersions ==
        /\ objects' \in [Hubs -> [Types -> SyncObject \cup {Nil}]]
        /\ \A h \in Hubs, t \in Types :
             /\ objects'[h][t] = Nil <=> objects[h][t] = Nil
             /\ LastVersion(h, t)' = LastVersion(h, t)
<1> HIDE DEF SameVersions
<1>1. SUFFICES /\ UNCHANGED <<vars, deliveries>> /\ SameVersions /\ handled' \in {handled, Nil}
               /\ \A o \in polled' : o \in polled \/ (o \in ObjectMeta /\ Exists(o) /\ IsCurrent(o))
               /\ \A o \in toCommit' : o \in ObjectMeta /\ IsStored(o) /\ Exists(o)
  <2> SUFFICES ASSUME UNCHANGED <<vars, deliveries>>, SameVersions, handled' \in {handled, Nil},
                      \A o \in polled' : o \in polled \/ (o \in ObjectMeta /\ Exists(o) /\ IsCurrent(o)),
                      \A o \in toCommit' : o \in ObjectMeta /\ IsStored(o) /\ Exists(o)
               PROVE  SyncIInv' /\ NothingIsLost
    BY DEF SameVersions
  <2>1. SyncTypeOK'
    BY <1>0 DEF SyncTypeOK, SameVersions, vars
  <2>. QED
    BY <2>1, SameVersionsKeep DEF SameVersions
<1>2. UNCHANGED objects => SameVersions
  BY <1>0 DEF SyncTypeOK, LastVersion, SameVersions
<1>3. CASE Register
  BY <1>0, <1>2, <1>3 DEF Register, markerVars
<1>4. CASE StartPollingForUpdates
  <2>1. ASSUME NEW o \in polled'
        PROVE  o \in ObjectMeta /\ Exists(o) /\ IsCurrent(o)
    <3>1. PICK p \in Published : o = ObjectMetaData(p[1], p[2])
      BY <1>4, <2>1 DEF StartPollingForUpdates
    <3>2. p[1] \in Hubs /\ p[2] \in Types /\ objects[p[1]][p[2]] # Nil
      BY DEF Published
    <3>3. LastVersion(p[1], p[2]) \in BundleVersions
      BY <1>0, <3>2, LastVersionType
    <3>. QED
      BY <3>1, <3>2, <3>3 DEF ObjectMetaData, ObjectMeta, IsCurrent, Exists
  <2>. QED
    BY <1>0, <1>2, <1>4, <2>1 DEF StartPollingForUpdates, markerVars
<1>5. CASE \E o \in polled : skipObject(o)
  BY <1>0, <1>2, <1>5 DEF skipObject, objectsAfterSkip, markerVars
<1>6. CASE MarkObjectReceived
  <2>1. UNCHANGED <<vars, deliveries, polled, toCommit>> /\ handled' = Nil
    BY <1>6 DEF MarkObjectReceived, markerVars
  <2>2. SameVersions
    <3>1. CASE UNCHANGED objects
      BY <1>2, <3>1
    <3>2. CASE ~UNCHANGED objects
      <4>1. /\ handled \in ObjectMeta /\ Exists(handled)
            /\ objects' = [objects EXCEPT ![handled.hub][handled.type].received = TRUE]
        BY <1>0, <1>6, <3>2 DEF MarkObjectReceived, SyncTypeOK, KnownExist
      <4>. QED
        BY <1>0, <4>1, MarkedObject DEF SameVersions
    <3>. QED
      BY <3>1, <3>2
  <2>. QED
    BY <1>0, <2>1, <2>2
<1>7. CASE commitMetadata
  <2>1. \A o \in toCommit' : \E m \in processed : o = deliveries[m]
    BY <1>7 DEF commitMetadata, processedMetadata
  <2>2. \A m \in processed : m \in 1..Len(deliveries) /\ IsStored(deliveries[m])
    BY <1>0 DEF MarkedIsApplied, WrittenIsStored
  <2>3. ASSUME NEW o \in toCommit'
        PROVE  o \in ObjectMeta /\ IsStored(o) /\ Exists(o)
    BY <1>0, <2>1, <2>2 DEF KnownExist
  <2>. QED
    BY <1>0, <1>2, <1>7, <2>3 DEF commitMetadata, clientVars
<1>8. ASSUME NEW o \in toCommit, MarkObjectConsumed(o)
      PROVE  SameVersions
  <2>1. o \in ObjectMeta /\ Exists(o)
    BY <1>0
  <2>2. CASE IsCurrent(o)
    BY <1>0, <1>8, <2>1, <2>2, MarkedObject DEF MarkObjectConsumed, SameVersions
  <2>3. CASE ~IsCurrent(o)
    BY <1>2, <1>8, <2>3 DEF MarkObjectConsumed
  <2>. QED
    BY <2>2, <2>3
<1>9. CASE \E o \in toCommit : MarkObjectConsumed(o)
  BY <1>0, <1>8, <1>9 DEF MarkObjectConsumed, clientVars
<1>10. CASE stopBulkCommit
  BY <1>2, <1>10 DEF stopBulkCommit, clientVars
<1>. QED
  BY <1>3, <1>4, <1>5, <1>6, <1>7, <1>9, <1>10 DEF CommitObjects

\* A crash forgets everything but the service's objects and the database.
LEMMA RestartManagerKeeps ==
    ASSUME SyncIInv, RestartManager
    PROVE  SyncIInv' /\ UNCHANGED <<stored, objects>> /\ Contract!Forget
<1>0. /\ IInv /\ SyncTypeOK /\ VersionsInOrder /\ NewMemory
      /\ UNCHANGED <<stored, objects>> /\ received' = 0 /\ deliveries' = << >>
      /\ applied' = {} /\ polled' = {} /\ handled' = Nil /\ toCommit' = {}
  BY DEF SyncIInv, SyncInv, RestartManager
<1>1. /\ \A h \in Hubs, t \in Types :
           /\ bundle'[h][t] = Nil /\ lastDispatchedDelta'[h][t] = Nil
           /\ lastProcessedBundleVersion'[h][t] = noBundleVersion
      /\ \A w \in Workers : job'[w] = Nil
      /\ processed' = {}
  BY <1>0 DEF NewMemory, EveryElement
<1>3. IInv' /\ CInv'
  BY <1>0, NewMemoryKeeps
<1>5. SyncTypeOK'
  BY <1>0 DEF SyncTypeOK
<1>6. VersionsInOrder'
  <2>1. ASSUME NEW h \in Hubs, NEW t \in Types
        PROVE  /\ ~NewerThan(lastProcessedBundleVersion'[h][t], stored'[h][t])
               /\ ~NewerThan(stored'[h][t], LastVersion(h, t)')
               /\ LastVersion(h, t)'.incarnation = 0
    BY <1>0, <1>1, VersionTypes, VersionOrder DEF VersionsInOrder, LastVersion
  <2>. QED
    BY <1>0, <1>1, <2>1 DEF VersionsInOrder
<1>7. PacksCanReturn' /\ EventsAreDelivered' /\ WrittenIsStored' /\ KnownExist'
  BY <1>0, <1>1 DEF PacksCanReturn, EventsAreDelivered, WrittenIsStored, KnownExist
<1>8. Contract!Forget
  <2>1. \A h \in Hubs : HandledBundle(h)' = Nil
    BY <1>1 DEF HandledBundle
  <2>. QED
    BY <1>0, <2>1 DEF Contract!Forget, Contract!noBundleVersion, Contract!NewBundleVersion,
                      noBundleVersion, NewBundleVersion, NewMemory, EveryElement
<1>. QED
  BY <1>0, <1>3, <1>5, <1>6, <1>7, <1>8 DEF SyncIInv, SyncInv

\* The service starts empty.
LEMMA SyncInitKeeps == SyncInit => SyncIInv
<1> SUFFICES ASSUME SyncInit PROVE SyncIInv
  OBVIOUS
<1>1. IInv /\ CInv
  BY InitIInv, InitKeeps DEF SyncInit
<1>2. SyncTypeOK
  BY DEF SyncTypeOK, SyncInit, Init, EveryElement
<1>3. /\ \A h \in Hubs, t \in Types :
           /\ bundle[h][t] = Nil /\ LastVersion(h, t) = noBundleVersion
           /\ lastProcessedBundleVersion[h][t] = noBundleVersion
           /\ stored[h][t] = noBundleVersion
      /\ \A w \in Workers : job[w] = Nil
      /\ polled = {} /\ handled = Nil /\ toCommit = {} /\ applied = {} /\ deliveries = << >>
  BY DEF SyncInit, Init, EveryElement, LastVersion
<1>4. /\ noBundleVersion.incarnation = 0
      /\ ~NewerThan(noBundleVersion, noBundleVersion)
  BY DEF noBundleVersion, NewBundleVersion, NewerThan
<1>5. VersionsInOrder
  BY <1>3, <1>4 DEF VersionsInOrder
<1>6. PacksCanReturn /\ EventsAreDelivered /\ WrittenIsStored /\ KnownExist
  BY <1>3 DEF PacksCanReturn, EventsAreDelivered, WrittenIsStored, KnownExist
<1>. QED
  BY <1>1, <1>2, <1>5, <1>6 DEF SyncIInv, SyncInv

\* Every step under the sync service keeps the invariant and is a step of the contract or a
\* stutter of it; only a crash loses what is held, and none loses what is stored.
LEMMA SyncNextKeeps ==
    ASSUME SyncIInv, [SyncNext]_syncVars
    PROVE  /\ SyncIInv'
           /\ [Contract!ContractNext]_(Contract!contractVars)
           /\ NothingIsLost \/ RestartManager
           /\ \A h \in Hubs, t \in Types : ~NewerThan(stored[h][t], stored'[h][t])
<1>0. IInv /\ CInv /\ SyncTypeOK
  BY DEF SyncIInv
<1>1. ASSUME SyncIInv', UNCHANGED vars
      PROVE  UNCHANGED Contract!contractVars
  BY <1>0, <1>1, StutterOfContract DEF SyncIInv, vars, elementVars, dbVars
<1>2. CASE UNCHANGED syncVars
  <2>1. /\ UNCHANGED <<vars, deliveries, objects, polled, handled, toCommit>>
        /\ UNCHANGED received
    BY <1>2 DEF syncVars, clientVars, markerVars, vars
  <2>2. SyncTypeOK'
    BY <1>0, <2>1 DEF SyncTypeOK
  <2>3. /\ \A h \in Hubs, t \in Types : /\ objects'[h][t] = Nil <=> objects[h][t] = Nil
                                        /\ LastVersion(h, t)' = LastVersion(h, t)
        /\ \A o \in toCommit' : IsStored(o) /\ Exists(o)
    BY <2>1 DEF LastVersion, SyncIInv, SyncInv, WrittenIsStored, KnownExist
  <2>4. SyncIInv' /\ NothingIsLost
    BY <2>1, <2>2, <2>3, SameVersionsKeep
  <2>. QED
    BY <1>1, <2>1, <2>4 DEF NothingIsLost
<1>3. ASSUME NEW h \in Hubs, NEW t \in Types, Publish(h, t)
      PROVE  SyncIInv' /\ NothingIsLost /\ UNCHANGED Contract!contractVars
  BY <1>1, <1>3, PublishKeeps DEF Publish
<1>4. CASE \/ Register \/ StartPollingForUpdates \/ MarkObjectReceived \/ CommitObjects
           \/ \E o \in polled : skipObject(o)
  <2>1. SyncIInv' /\ NothingIsLost
    BY <1>4, ClientKeeps
  <2>2. UNCHANGED vars
    BY <1>4 DEF Register, StartPollingForUpdates, MarkObjectReceived, CommitObjects, skipObject,
                commitMetadata, MarkObjectConsumed, stopBulkCommit
  <2>. QED
    BY <1>1, <2>1, <2>2 DEF NothingIsLost
<1>5. ASSUME NEW o \in polled, handleBundle(o)
      PROVE  SyncIInv' /\ NothingIsLost /\ UNCHANGED Contract!contractVars
  <2>1. SyncIInv' /\ NothingIsLost
    BY <1>5, handleBundleKeeps
  <2>2. /\ o.hub \in Hubs /\ o.type \in Types /\ received + 1 \in Nat
        /\ objects[o.hub][o.type] \in SyncObject
    BY <1>0 DEF SyncIInv, SyncInv, VersionsInOrder, SyncTypeOK, ObjectMeta, IInv, TypeOK
  <2>3. /\ objects[o.hub][o.type].ver \in BundleVersions
        /\ objects[o.hub][o.type].dep \in BundleVersions
    BY <2>2 DEF SyncObject
  <2>4. Insert(o.hub, o.type, objects[o.hub][o.type], received + 1) /\ UNCHANGED dbVars
    BY <1>5 DEF handleBundle
  <2>. QED
    BY <1>0, <2>1, <2>2, <2>3, <2>4, InsertOfContract DEF SyncIInv
<1>6. CASE DispatchStep \/ \E w \in Workers : WorkOrFault(w)
  <2>1. /\ Dispatch \/ \E w \in Workers : Work(w)
        /\ UNCHANGED <<objects, clientVars, markerVars>>
    BY <1>6 DEF DispatchStep, WorkOrFault, Work
  <2>2. SyncIInv' /\ NothingIsLost
    BY <2>1, SyncProcessKeeps
  <2>3. [Contract!ContractNext]_(Contract!contractVars)
    BY <1>0, <2>1, <2>2, ProcessOfContract DEF SyncIInv
  <2>. QED
    BY <2>2, <2>3 DEF NothingIsLost
<1>7. CASE RestartManager
  <2>1. SyncIInv' /\ UNCHANGED stored /\ Contract!Forget
    BY <1>7, RestartManagerKeeps
  <2>. QED
    BY <1>0, <1>7, <2>1, VersionTypes, VersionOrder DEF Contract!ContractNext
<1>. QED
  BY <1>2, <1>3, <1>4, <1>5, <1>6, <1>7 DEF SyncNext, HandleBundles, NothingIsLost

\* The invariant holds in every reachable state, whatever fails.
LEMMA SyncIsDescribed == SyncSpec => []SyncIInv
BY SyncInitKeeps, SyncNextKeeps, PTL DEF SyncSpec

------------------------------------------------------------------------------
(* What the service is told is true of the database and of memory *)

\* The object that was inserted and is about to be marked received is held.
HandledIsHeld == handled # Nil => IsHeld(handled.hub, handled.type, handled.ver)

SyncGoals == NoIdleReadyUnit /\ ConsumedIsStored /\ HandledIsHeld /\ ReceivedIsHeld

\* What is held of a hub and type that publishes nothing in a step stays held.
LEMMA LastStaysHeld ==
    ASSUME SyncTypeOK, NothingIsLost, NEW h \in Hubs, NEW t \in Types,
           LastVersion(h, t)' = LastVersion(h, t), IsHeld(h, t, LastVersion(h, t))
    PROVE  IsHeld(h, t, LastVersion(h, t))'
<1>1. PICK v \in BundleVersions : v = LastVersion(h, t)
  BY LastVersionType
<1>2. IsHeld(h, t, v)
  BY <1>1
<1>3. IsHeld(h, t, v)'
  BY <1>2 DEF NothingIsLost
<1>. QED
  BY <1>1, <1>3 DEF IsHeld

\* Consumed objects stay stored: the committer marks what is stored, a new version is not
\* marked.
LEMMA ConsumedStep ==
    ASSUME SyncIInv, SyncIInv', [SyncNext]_syncVars, ConsumedIsStored
    PROVE  ConsumedIsStored'
<1>1. ASSUME NEW h \in Hubs, NEW t \in Types, objects[h][t] # Nil, objects[h][t].consumed,
             LastVersion(h, t)' = LastVersion(h, t)
      PROVE  ~NewerThan(LastVersion(h, t)', stored'[h][t])
  <2>1. ~NewerThan(LastVersion(h, t), stored[h][t])
    <3>1. <<h, t>> \in Published
      BY <1>1 DEF Published
    <3>. QED
      BY <1>1, <3>1 DEF ConsumedIsStored
  <2>2. ~NewerThan(stored[h][t], stored'[h][t])
    BY SyncNextKeeps
  <2>3. /\ stored[h][t] \in BundleVersions /\ stored'[h][t] \in BundleVersions
        /\ LastVersion(h, t) \in BundleVersions
    BY VersionTypes DEF SyncIInv, IInv, TypeOK
  <2>. QED
    BY <1>1, <2>1, <2>2, <2>3, VersionOrder
<1>2. SUFFICES ASSUME NEW h \in Hubs, NEW t \in Types, objects'[h][t] # Nil,
                      objects'[h][t].consumed
               PROVE  ~NewerThan(LastVersion(h, t)', stored'[h][t])
  BY DEF ConsumedIsStored, Published
<1>3. CASE objects'[h][t] = objects[h][t]
  BY <1>1, <1>2, <1>3 DEF LastVersion
<1>4. ASSUME NEW g \in Hubs, NEW u \in Types, Publish(g, u)
      PROVE  objects'[h][t] = objects[h][t]
  BY <1>2, <1>4, PublishKeeps DEF SyncIInv
<1>5. CASE MarkObjectReceived
  <2>1. /\ objects[h][t] # Nil /\ LastVersion(h, t)' = LastVersion(h, t)
    BY <1>2, <1>5, ClientKeeps
  <2>2. objects[h][t].consumed
    <3>1. CASE UNCHANGED objects
      BY <1>2, <3>1
    <3>2. CASE ~UNCHANGED objects
      <4>1. /\ SyncTypeOK /\ handled \in ObjectMeta /\ Exists(handled)
            /\ objects' = [objects EXCEPT ![handled.hub][handled.type].received = TRUE]
        BY <1>5, <3>2 DEF MarkObjectReceived, SyncIInv, SyncInv, SyncTypeOK, KnownExist
      <4> DEFINE flags == [objects[handled.hub][handled.type] EXCEPT !.received = TRUE]
      <4>2. /\ objects'[handled.hub][handled.type] = flags
            /\ h # handled.hub \/ t # handled.type => objects'[h][t] = objects[h][t]
        BY <4>1, MarkedObject
      <4>3. flags.consumed = objects[handled.hub][handled.type].consumed
        BY <4>1 DEF SyncTypeOK, SyncObject, ObjectMeta, Exists
      <4>. QED
        BY <1>2, <4>2, <4>3
    <3>. QED
      BY <3>1, <3>2
  <2>. QED
    BY <1>1, <2>1, <2>2
<1>6. ASSUME NEW o \in toCommit, MarkObjectConsumed(o)
      PROVE  ~NewerThan(LastVersion(h, t)', stored'[h][t])
  <2>1. /\ objects[h][t] # Nil /\ LastVersion(h, t)' = LastVersion(h, t)
    BY <1>2, <1>6, ClientKeeps DEF CommitObjects
  <2>2. CASE objects'[h][t] = objects[h][t]
    BY <1>3, <2>2
  <2>3. CASE objects'[h][t] # objects[h][t]
    <3>1. /\ SyncTypeOK /\ o \in ObjectMeta /\ Exists(o) /\ IsStored(o) /\ IsCurrent(o)
          /\ objects' = [objects EXCEPT ![o.hub][o.type].consumed = TRUE]
          /\ UNCHANGED vars
      BY <1>6, <2>3 DEF MarkObjectConsumed, SyncIInv, SyncInv, SyncTypeOK, KnownExist,
                        WrittenIsStored
    <3>2. h = o.hub /\ t = o.type
      BY <2>3, <3>1, MarkedObject
    <3>3. o.ver = LastVersion(h, t) /\ UNCHANGED stored
      BY <3>1, <3>2 DEF IsCurrent, ObjectMetaData, vars, dbVars
    <3>. QED
      BY <2>1, <3>1, <3>2, <3>3 DEF IsStored
  <2>. QED
    BY <2>2, <2>3
<1>7. CASE UNCHANGED objects
  BY <1>3, <1>7
<1>. QED
  BY <1>3, <1>4, <1>5, <1>6, <1>7
     DEF SyncNext, HandleBundles, CommitObjects, DispatchStep, WorkOrFault, Register,
         StartPollingForUpdates, skipObject, objectsAfterSkip, handleBundle, commitMetadata,
         stopBulkCommit, RestartManager, syncVars

\* The object in hand is held from its insert on.
LEMMA HandledStep ==
    ASSUME SyncIInv, [SyncNext]_syncVars, HandledIsHeld
    PROVE  HandledIsHeld'
<1>0. SyncTypeOK /\ IInv
  BY DEF SyncIInv
<1>1. ASSUME UNCHANGED handled, NothingIsLost
      PROVE  HandledIsHeld'
  <2>1. SUFFICES ASSUME handled # Nil PROVE HandledIsHeld'
    BY <1>1 DEF HandledIsHeld
  <2>2. PICK o \in ObjectMeta : o = handled
    BY <1>0, <2>1 DEF SyncTypeOK
  <2>3. o.hub \in Hubs /\ o.type \in Types /\ o.ver \in BundleVersions
    BY DEF ObjectMeta
  <2>4. IsHeld(o.hub, o.type, o.ver)
    BY <2>1, <2>2 DEF HandledIsHeld
  <2>5. IsHeld(o.hub, o.type, o.ver)'
    BY <1>1, <2>3, <2>4 DEF NothingIsLost
  <2>. QED
    BY <1>1, <2>2, <2>5 DEF HandledIsHeld, IsHeld
<1>2. CASE handled' = Nil
  BY <1>2 DEF HandledIsHeld
<1>3. ASSUME NEW o \in polled, handleBundle(o)
      PROVE  HandledIsHeld'
  <2>1. o.ver \in BundleVersions /\ handled' = o
    BY <1>0, <1>3 DEF SyncTypeOK, ObjectMeta, handleBundle
  <2>2. IsHeld(o.hub, o.type, o.ver)'
    BY <1>3, <2>1, handleBundleKeeps
  <2>. QED
    BY <2>1, <2>2 DEF HandledIsHeld, IsHeld
<1>4. NothingIsLost \/ RestartManager
  BY SyncNextKeeps
<1>. QED
  BY <1>1, <1>2, <1>3, <1>4
     DEF SyncNext, HandleBundles, CommitObjects, DispatchStep, WorkOrFault, Register, Publish,
         StartPollingForUpdates, skipObject, MarkObjectReceived, commitMetadata,
         MarkObjectConsumed, stopBulkCommit, RestartManager, syncVars, clientVars

\* An object marked received is held, offered again, or skipped for good.
LEMMA ReceivedStep ==
    ASSUME SyncIInv, SyncIInv', [SyncNext]_syncVars, ConsumedIsStored, HandledIsHeld,
           ReceivedIsHeld
    PROVE  ReceivedIsHeld'
<1> DEFINE Safe(h, t) == \/ IsHeld(h, t, LastVersion(h, t))
                         \/ firstPoll
                         \/ ObjectMetaData(h, t) \in polled \cup skipped
<1>0. SyncTypeOK /\ SyncTypeOK' /\ IInv
  BY DEF SyncIInv
<1>1. SUFFICES ASSUME NEW h \in Hubs, NEW t \in Types, objects'[h][t] # Nil,
                      objects'[h][t].received
               PROVE  Safe(h, t)'
  <2> HIDE DEF Safe
  <2>1. \A h \in Hubs, t \in Types :
          objects'[h][t] # Nil /\ objects'[h][t].received => Safe(h, t)'
    BY <1>1
  <2>. QED
    BY <2>1 DEF ReceivedIsHeld, Published, Safe
<1>2. objects[h][t] # Nil /\ objects[h][t].received => Safe(h, t)
  <2>1. objects[h][t] # Nil => <<h, t>> \in Published
    BY DEF Published
  <2>. QED
    BY <2>1 DEF ReceivedIsHeld
<1>3. ASSUME LastVersion(h, t)' = LastVersion(h, t), NothingIsLost, Safe(h, t),
             UNCHANGED <<firstPoll, polled, skipped>>
      PROVE  Safe(h, t)'
  <2>1. ObjectMetaData(h, t)' = ObjectMetaData(h, t)
    BY <1>3 DEF ObjectMetaData
  <2>2. IsHeld(h, t, LastVersion(h, t)) => IsHeld(h, t, LastVersion(h, t))'
    BY <1>0, <1>3, LastStaysHeld
  <2>. QED
    BY <1>3, <2>1, <2>2
<1>4. CASE UNCHANGED <<objects, firstPoll, polled, skipped>> /\ NothingIsLost
  BY <1>1, <1>2, <1>3, <1>4 DEF LastVersion
<1>5. ASSUME NEW g \in Hubs, NEW u \in Types, Publish(g, u)
      PROVE  Safe(h, t)'
  <2>1. objects'[h][t] = objects[h][t] /\ NothingIsLost
    BY <1>1, <1>5, PublishKeeps
  <2>. QED
    BY <1>1, <1>2, <1>3, <1>5, <2>1 DEF LastVersion, Publish, clientVars
<1>6. CASE StartPollingForUpdates
  <2>1. /\ polled = {} /\ UNCHANGED <<objects, skipped>>
        /\ polled' = {ObjectMetaData(p[1], p[2]) : p \in {q \in Published :
              /\ ~objects[q[1]][q[2]].consumed
              /\ objects[q[1]][q[2]].received => firstPoll}}
        /\ NothingIsLost
    BY <1>6, ClientKeeps DEF StartPollingForUpdates
  <2>2. /\ objects[h][t] # Nil /\ objects[h][t].received /\ <<h, t>> \in Published
        /\ ObjectMetaData(h, t)' = ObjectMetaData(h, t)
        /\ LastVersion(h, t)' = LastVersion(h, t)
    BY <1>1, <2>1 DEF Published, ObjectMetaData, LastVersion
  <2>3. IsHeld(h, t, LastVersion(h, t)) => Safe(h, t)'
    BY <1>0, <2>1, <2>2, LastStaysHeld
  <2>4. CASE objects[h][t].consumed
    <3>1. IsHeld(h, t, LastVersion(h, t))
      BY <2>2, <2>4 DEF ConsumedIsStored, IsHeld
    <3>. QED
      BY <2>3, <3>1
  <2>5. CASE firstPoll /\ ~objects[h][t].consumed
    <3>1. ObjectMetaData(h, t) \in polled'
      BY <2>1, <2>2, <2>5
    <3>. QED
      BY <2>2, <3>1
  <2>6. CASE ~firstPoll
    BY <1>2, <2>1, <2>2, <2>3, <2>6
  <2>. QED
    BY <2>4, <2>5, <2>6
<1>7. ASSUME NEW o \in polled, skipObject(o)
      PROVE  Safe(h, t)'
  <2>1. /\ polled' = polled \ {o} /\ UNCHANGED <<objects, firstPoll>>
        /\ skipped' = IF IsCurrent(o) /\ objects[o.hub][o.type].received
                        THEN skipped \cup {o} ELSE skipped
        /\ NothingIsLost
    BY <1>7, ClientKeeps DEF skipObject, objectsAfterSkip
  <2>2. /\ objects[h][t] # Nil /\ objects[h][t].received
        /\ ObjectMetaData(h, t)' = ObjectMetaData(h, t)
        /\ LastVersion(h, t)' = LastVersion(h, t)
    BY <1>1, <2>1 DEF ObjectMetaData, LastVersion
  <2>3. CASE ObjectMetaData(h, t) = o
    <3>1. o.hub = h /\ o.type = t /\ IsCurrent(o)
      BY <2>3 DEF IsCurrent, ObjectMetaData
    <3>. QED
      BY <2>1, <2>2, <2>3, <3>1
  <2>4. CASE ObjectMetaData(h, t) # o
    <3>1. IsHeld(h, t, LastVersion(h, t)) => IsHeld(h, t, LastVersion(h, t))'
      BY <1>0, <2>1, <2>2, LastStaysHeld
    <3>. QED
      BY <1>2, <2>1, <2>2, <2>4, <3>1
  <2>. QED
    BY <2>3, <2>4
<1>8. ASSUME NEW o \in polled, handleBundle(o)
      PROVE  Safe(h, t)'
  <2>1. /\ polled' = polled \ {o} /\ UNCHANGED <<objects, firstPoll, skipped>>
        /\ NothingIsLost
    BY <1>8, handleBundleKeeps DEF handleBundle
  <2>2. /\ objects[h][t] # Nil /\ objects[h][t].received
        /\ ObjectMetaData(h, t)' = ObjectMetaData(h, t)
        /\ LastVersion(h, t)' = LastVersion(h, t)
    BY <1>1, <2>1 DEF ObjectMetaData, LastVersion
  <2>3. CASE ObjectMetaData(h, t) = o
    <3>1. o.hub = h /\ o.type = t /\ o.ver = LastVersion(h, t) /\ o.ver \in BundleVersions
      BY <1>0, <2>3, LastVersionType DEF ObjectMetaData
    <3>2. IsHeld(h, t, o.ver)'
      BY <1>8, <3>1, handleBundleKeeps
    <3>3. IsHeld(h, t, LastVersion(h, t))'
      BY <2>2, <3>1, <3>2 DEF IsHeld
    <3>. QED
      BY <3>3
  <2>4. CASE ObjectMetaData(h, t) # o
    <3>1. IsHeld(h, t, LastVersion(h, t)) => IsHeld(h, t, LastVersion(h, t))'
      BY <1>0, <2>1, <2>2, LastStaysHeld
    <3>. QED
      BY <1>2, <2>1, <2>2, <2>4, <3>1
  <2>. QED
    BY <2>3, <2>4
<1>9. CASE MarkObjectReceived
  <2>1. /\ UNCHANGED <<firstPoll, polled, skipped>> /\ NothingIsLost
        /\ LastVersion(h, t)' = LastVersion(h, t)
    BY <1>9, ClientKeeps DEF MarkObjectReceived
  <2>2. CASE objects'[h][t] = objects[h][t]
    BY <1>1, <1>2, <1>3, <2>1, <2>2
  <2>3. CASE objects'[h][t] # objects[h][t]
    <3>1. /\ handled \in ObjectMeta /\ handled # Nil /\ Exists(handled) /\ IsCurrent(handled)
          /\ objects' = [objects EXCEPT ![handled.hub][handled.type].received = TRUE]
      BY <1>0, <1>9, <2>3 DEF MarkObjectReceived, SyncTypeOK, SyncIInv, SyncInv, KnownExist
    <3>2. h = handled.hub /\ t = handled.type
      BY <1>0, <2>3, <3>1, MarkedObject
    <3>3. handled.ver = LastVersion(h, t)
      BY <3>1, <3>2 DEF IsCurrent, ObjectMetaData
    <3>4. IsHeld(h, t, LastVersion(h, t))
      BY <3>1, <3>2, <3>3 DEF HandledIsHeld
    <3>5. IsHeld(h, t, LastVersion(h, t))'
      BY <1>0, <2>1, <3>4, LastStaysHeld
    <3>. QED
      BY <3>5
  <2>. QED
    BY <2>2, <2>3
<1>10. ASSUME NEW o \in toCommit, MarkObjectConsumed(o)
       PROVE  Safe(h, t)'
  <2>1. /\ UNCHANGED <<firstPoll, polled, skipped>> /\ NothingIsLost
        /\ LastVersion(h, t)' = LastVersion(h, t)
        /\ objects[h][t] # Nil
    BY <1>1, <1>10, ClientKeeps DEF CommitObjects, MarkObjectConsumed, clientVars
  <2>2. objects[h][t].received
    <3>1. CASE UNCHANGED objects
      BY <1>1, <3>1
    <3>2. CASE ~UNCHANGED objects
      <4>1. /\ o \in ObjectMeta /\ Exists(o)
            /\ objects' = [objects EXCEPT ![o.hub][o.type].consumed = TRUE]
        BY <1>10, <3>2 DEF MarkObjectConsumed, SyncIInv, SyncInv, SyncTypeOK, KnownExist
      <4> DEFINE flags == [objects[o.hub][o.type] EXCEPT !.consumed = TRUE]
      <4>2. /\ objects'[o.hub][o.type] = flags
            /\ h # o.hub \/ t # o.type => objects'[h][t] = objects[h][t]
        BY <1>0, <4>1, MarkedObject
      <4>3. flags.received = objects[o.hub][o.type].received
        BY <1>0, <4>1 DEF SyncTypeOK, SyncObject, ObjectMeta, Exists
      <4>. QED
        BY <1>1, <4>2, <4>3
    <3>. QED
      BY <3>1, <3>2
  <2>. QED
    BY <1>2, <1>3, <2>1, <2>2
<1>11. CASE RestartManager
  BY <1>11 DEF RestartManager
<1>12. CASE Register \/ commitMetadata \/ stopBulkCommit
  BY <1>4, <1>12, ClientKeeps DEF CommitObjects, Register, commitMetadata, stopBulkCommit, clientVars
<1>13. CASE DispatchStep \/ (\E w \in Workers : WorkOrFault(w)) \/ UNCHANGED syncVars
  <2>1. NothingIsLost \/ RestartManager
    BY SyncNextKeeps
  <2>. QED
    BY <1>4, <1>11, <1>13, <2>1 DEF DispatchStep, WorkOrFault, syncVars, clientVars
<1> HIDE DEF Safe
<1>. QED
  BY <1>5, <1>6, <1>7, <1>8, <1>9, <1>10, <1>11, <1>12, <1>13
     DEF SyncNext, HandleBundles, CommitObjects

\* No step leaves a unit with a ready bundle idle and unqueued.
LEMMA SyncNoIdle ==
    ASSUME SyncIInv, [SyncNext]_syncVars, NoIdleReadyUnit
    PROVE  NoIdleReadyUnit'
<1>0. IInv /\ SyncTypeOK /\ polled \subseteq ObjectMeta
  BY DEF SyncIInv, SyncTypeOK
<1>1. CASE [Next]_vars
  BY <1>0, <1>1, NextNoIdle
<1>2. ASSUME NEW o \in polled, handleBundle(o)
      PROVE  NoIdleReadyUnit'
  <2>1. /\ o.hub \in Hubs /\ o.type \in Types /\ received + 1 \in Nat
        /\ objects[o.hub][o.type] \in SyncObject
    BY <1>0 DEF SyncIInv, SyncInv, VersionsInOrder, SyncTypeOK, ObjectMeta, IInv, TypeOK
  <2>2. /\ objects[o.hub][o.type].ver \in BundleVersions
        /\ objects[o.hub][o.type].dep \in BundleVersions
    BY <2>1 DEF SyncObject
  <2>3. Insert(o.hub, o.type, objects[o.hub][o.type], received + 1)
    BY <1>2 DEF handleBundle
  <2>. QED
    BY <1>0, <2>1, <2>2, <2>3, InsertNoIdle
<1>3. CASE RestartManager
  BY <1>3 DEF RestartManager, NewMemory, NoIdleReadyUnit, ReadyTypes, EveryElement
<1>4. CASE UNCHANGED vars
  BY <1>1, <1>4
<1>5. CASE DispatchStep \/ \E w \in Workers : WorkOrFault(w)
  BY <1>1, <1>5 DEF DispatchStep, WorkOrFault, Next, Work
<1>. QED
  BY <1>2, <1>3, <1>4, <1>5
     DEF SyncNext, HandleBundles, CommitObjects, Register, Publish, StartPollingForUpdates,
         skipObject, MarkObjectReceived, commitMetadata, MarkObjectConsumed, stopBulkCommit,
         syncVars

\* All of it holds in every reachable state.
LEMMA SyncGoalsHold == SyncSpec => [](SyncIInv /\ SyncGoals)
<1>1. SyncInit => SyncIInv /\ SyncGoals
  BY SyncInitKeeps
     DEF SyncInit, Init, SyncGoals, NoIdleReadyUnit, ReadyTypes, ConsumedIsStored, HandledIsHeld,
         ReceivedIsHeld, Published, EveryElement
<1>2. SyncIInv /\ SyncGoals /\ [SyncNext]_syncVars => SyncIInv' /\ SyncGoals'
  BY SyncNextKeeps, SyncNoIdle, ConsumedStep, HandledStep, ReceivedStep DEF SyncGoals
<1>. QED
  BY <1>1, <1>2, PTL DEF SyncSpec

\* Under the sync service too a unit is in the ready queue, in the dispatcher's hand or in
\* one worker's job, once at most, through crashes.
THEOREM SyncUnitsAreSerial == SyncSpec => []SerialPerHub
<1>1. SyncIInv => SerialPerHub
  BY FlagsImplySerial DEF SyncIInv
<1>. QED
  BY <1>1, SyncIsDescribed, PTL

\* No object's bundle waits in an idle unit that is not queued, whichever of handleBundle,
\* GetNext and ReportResult came last.
THEOREM SyncNoLostWakeUp == SyncSpec => []NoIdleReadyUnit
<1>1. SyncGoals => NoIdleReadyUnit
  BY DEF SyncGoals
<1>. QED
  BY <1>1, SyncGoalsHold, PTL

\* The committer tells the service that an object is consumed only when it, or a newer one
\* of its kind, is in the database, for any hubs, types, workers and failures.
THEOREM ConsumedAfterStored == SyncSpec => []ConsumedIsStored
<1>1. SyncGoals => ConsumedIsStored
  BY DEF SyncGoals
<1>. QED
  BY <1>1, SyncGoalsHold, PTL

\* An object that the service will not offer again is not lost: it is stored, pending, in the
\* delta pack of a worker, or to be read from the first poll; or it was skipped in the first
\* poll although an earlier process had received it.
THEOREM ReceivedStaysHeld == SyncSpec => []ReceivedIsHeld
<1>1. SyncGoals => ReceivedIsHeld
  BY DEF SyncGoals
<1>. QED
  BY <1>1, SyncGoalsHold, PTL

\* The service offers nothing but the current version, so that the database never goes back
\* for any type, not even through crashes: a stronger fact than the conflation layer alone
\* gives.
THEOREM SyncNeverRegresses ==
    SyncSpec => /\ StoredNeverRegresses
                /\ [][\A h \in Hubs, t \in Types : ~NewerThan(stored[h][t], stored'[h][t])]_syncVars
<1>1. SyncIInv /\ [SyncNext]_syncVars =>
        /\ [\A h \in Hubs, t \in CompleteTypes : ~NewerThan(stored[h][t], stored'[h][t])]_vars
        /\ [\A h \in Hubs, t \in Types : ~NewerThan(stored[h][t], stored'[h][t])]_syncVars
  BY SyncNextKeeps DEF CompleteTypes
<1>. QED
  BY <1>1, SyncIsDescribed, PTL DEF SyncSpec, StoredNeverRegresses

\* With the sync service too the handler functions see what HandlerContract promises.
THEOREM SyncImplementsContract == SyncSpec => ImplementsContract
<1>1. SyncInit => Contract!ContractInit
  BY InitOfContract DEF SyncInit
<1>2. SyncIInv /\ [SyncNext]_syncVars => [Contract!ContractNext]_(Contract!contractVars)
  BY SyncNextKeeps
<1>. QED
  BY <1>1, <1>2, SyncIsDescribed, PTL DEF SyncSpec, ImplementsContract, Contract!ContractSpec
==============================================================================
