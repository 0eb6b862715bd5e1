------------------------------ MODULE KafkaStatus ------------------------------
(***************************************************************************)
(* The conflation layer fed by the Kafka consumer: one partition of the    *)
(* status topic, the consumer that hands its messages to the conflation    *)
(* manager in order, the committer that decides which offset a restarted   *)
(* consumer resumes from, and crashes of the manager.                      *)
(*                                                                         *)
(* The whole log is chosen at the start: a message the consumer has not    *)
(* reached is the same as one not sent yet.  Offsets start at 1, so        *)
(* "received" of Conflation is the consumer's position and a message's     *)
(* transport metadata is its offset.                                       *)
(***************************************************************************)
EXTENDS Conflation, FiniteSetsExt

CONSTANTS
    LogLength,     \* messages in the partition
    MaxRestarts    \* bound on crashes, for TLC

ASSUME KafkaAssumption == LogLength \in Nat /\ MaxRestarts \in Nat

VARIABLES
    log,           \* the partition
    committed,     \* broker: the offset the consumer group resumes from
    commitsMap,    \* committer: the last offset it committed since it started
    unitsToRead,   \* committer: units not yet read in this pass, Nil between passes
    collected,     \* committer: transport metadata read in this pass
    restarts

committerVars == <<committed, commitsMap, unitsToRead, collected>>
kafkaVars == <<vars, log, committerVars, restarts>>

------------------------------------------------------------------------------
(* The leaf hubs' status sync, external *)

\* How many of the first n entries of choice are of hub h and type t.
CountSent(choice, n, h, t) ==
    Cardinality({i \in 1..n : choice[i].hub = h /\ choice[i].type = t})

\* A leaf hub numbers its bundles of a type and names as base the last bundle it
\* sent of the type depended on.
SentMessage(choice, i) ==
    LET h == choice[i].hub
        t == choice[i].type
    IN  [hub |-> h, type |-> t,
         ver |-> NewBundleVersion(0, CountSent(choice, i, h, t)),
         dep |-> IF Dependency[t] = Nil
                   THEN noBundleVersion
                   ELSE NewBundleVersion(0, CountSent(choice, i, h, Dependency[t]))]

\* A bundle is sent only after one of the type it depends on.
BaseSentBefore(choice, i) ==
    LET u == Dependency[choice[i].type]
    IN  u # Nil => CountSent(choice, i, choice[i].hub, u) > 0

Logs ==
    {[i \in 1..LogLength |-> SentMessage(choice, i)] :
        choice \in {c \in [1..LogLength -> [hub : Hubs, type : Types]] :
                        \A i \in 1..LogLength : BaseSentBefore(c, i)}}

------------------------------------------------------------------------------
(* Consumer *)

processMessage ==
    /\ received < LogLength
    /\ received' = received + 1
    /\ \E h \in Hubs, t \in Types :
        /\ log[received + 1].hub = h
        /\ log[received + 1].type = t
        /\ Insert(h, t, log[received + 1], received + 1)
    /\ UNCHANGED <<dispatchVars, processed, dbVars, log, committerVars, restarts>>

------------------------------------------------------------------------------
(* Committer *)

\* The ticker fires.
startCommit ==
    /\ unitsToRead = Nil
    /\ unitsToRead' = Hubs
    /\ collected' = {}
    /\ UNCHANGED <<vars, log, committed, commitsMap, restarts>>

\* One iteration of GetBundlesMetadata: the unit is locked, the manager is not.
getBundlesMetadata(h) ==
    /\ unitsToRead # Nil
    /\ h \in unitsToRead
    /\ unitsToRead' = unitsToRead \ {h}
    /\ collected' = collected \cup
            {metadata[h][t].transportBundleMetadata : t \in {u \in Types : metadata[h][u] # Nil}}
    /\ UNCHANGED <<vars, log, committed, commitsMap, restarts>>

\* Mutant: the highest pending offset instead of the lowest.
highestOffset(metadataArray) ==
    LET pending == metadataArray \ processed
    IN  IF pending # {} THEN Max(pending) ELSE Max(metadataArray) + 1

\* Mutant: the offset after the last processed one is incremented twice.
offsetIncrementedTwice(metadataArray) ==
    LET pending == metadataArray \ processed
    IN  IF pending # {} THEN Min(pending) ELSE Max(metadataArray) + 2

\* filterMetadataPerPartition and the patch after it: the lowest pending offset,
\* or else the one after the highest processed offset.
offsetToCommit(metadataArray) ==
    LET pending == metadataArray \ processed
    IN  IF pending # {} THEN Min(pending) ELSE Max(metadataArray) + 1

\* Mutant: every offset is committed, also one below the last committed offset.
isNewOffset(offset) == TRUE

\* commitOffsets skips an offset that is not above the one it committed last.
isAboveCommitted(offset) == offset > commitsMap

endPass == unitsToRead' = Nil /\ collected' = {}

commitOffsets ==
    /\ unitsToRead = {}
    /\ endPass
    /\ collected # {}
    /\ isAboveCommitted(offsetToCommit(collected))
    /\ committed' = offsetToCommit(collected)
    /\ commitsMap' = offsetToCommit(collected)
    /\ UNCHANGED <<vars, log, restarts>>

\* Nothing to commit, or the broker refuses the commit.
commitNothing ==
    /\ unitsToRead = {}
    /\ endPass
    /\ UNCHANGED <<vars, log, committed, commitsMap, restarts>>

------------------------------------------------------------------------------
(* Crashes *)

\* The manager dies and comes back: all memory is as newly made, the database
\* and the broker keep what they have, the consumer resumes from the broker.
Restart ==
    /\ restarts < MaxRestarts
    /\ restarts' = restarts + 1
    /\ NewMemory
    /\ received' = committed - 1
    /\ commitsMap' = 0
    /\ endPass
    /\ UNCHANGED <<dbVars, log, committed>>

------------------------------------------------------------------------------
KafkaInit ==
    /\ Init
    /\ log \in Logs
    /\ committed = 1
    /\ commitsMap = 0
    /\ unitsToRead = Nil
    /\ collected = {}
    /\ restarts = 0

Commit == startCommit \/ commitOffsets \/ commitNothing \/ \E h \in Hubs : getBundlesMetadata(h)

Process == Dispatch \/ \E w \in Workers : Work(w)

KafkaNext ==
    \/ processMessage
    \/ Process /\ UNCHANGED <<log, committerVars, restarts>>
    \/ Commit
    \/ Restart

KafkaSpec == KafkaInit /\ [][KafkaNext]_kafkaVars

\* The consumer, the dispatcher and the workers are goroutines that run whenever
\* they can; a handler is retried until the database accepts it, and the
\* database does not refuse the bundles of one hub and type for ever.
Fairness ==
    /\ WF_kafkaVars(processMessage)
    /\ WF_kafkaVars(Dispatch /\ UNCHANGED <<log, committerVars, restarts>>)
    /\ \A w \in Workers :
        WF_kafkaVars(Work(w) /\ UNCHANGED <<log, committerVars, restarts>>)
    /\ \A h \in Hubs, t \in Types :
        SF_kafkaVars(\E w \in Workers :
            /\ job[w] # Nil
            /\ job[w].hub = h
            /\ job[w].type = t
            /\ RunHandler(w, "success")
            /\ UNCHANGED <<log, committerVars, restarts>>)

FairKafkaSpec == KafkaSpec /\ Fairness

------------------------------------------------------------------------------
(* Properties *)

\* Every field of the consumer and the committer holds a value of its type, and
\* the broker's offset is one of the log.
KafkaTypeOK ==
    /\ TypeOK
    /\ received \in 0..LogLength
    /\ committed \in 1..(LogLength + 1)
    /\ commitsMap \in 0..(LogLength + 1)
    /\ unitsToRead = Nil \/ unitsToRead \subseteq Hubs
    /\ collected \subseteq 1..LogLength
    /\ restarts \in 0..MaxRestarts

\* Message i needs no further processing: its content, or for a complete-state
\* type that of a newer bundle, is in the database; or it is superseded by a
\* newer bundle (for a delta, a newer base) that a restarted consumer reads.
Covered(i) ==
    LET h == log[i].hub
        t == log[i].type
        supersededBy(u, version) == \E k \in committed..LogLength :
            log[k].hub = h /\ log[k].type = u /\ NewerThan(log[k].ver, version)
    IN  IF SyncMode[t] = "complete"
          THEN ~NewerThan(log[i].ver, stored[h][t]) \/ supersededBy(t, log[i].ver)
          ELSE \/ i \in applied
               \/ NewerThan(stored[h][Dependency[t]], log[i].dep)
               \/ supersededBy(Dependency[t], log[i].dep)

\* "once kafka consumer loads up, it starts reading from the earliest un-processed
\* bundle, as in all bundles that precede the latter have been processed": the
\* offset the broker holds never passes a message that is still needed.
CommittedIsCovered == \A i \in 1..(committed - 1) : Covered(i)

\* The same for the bundles of complete-state types of one leaf hub, which holds
\* although they are conflated, fail, wait for their base and are read again, with
\* deltas in between.
CompleteCommittedIsCovered ==
    \A i \in 1..(committed - 1) : SyncMode[log[i].type] = "complete" => Covered(i)

\* The offset a restarted consumer would resume from never goes back, although
\* the committer forgets what it committed when the manager restarts and a
\* failed delta pack takes back the offset of its first message.
CommitNeverGoesBack == [][committed' >= committed]_kafkaVars

\* The last message of hub h and type t, 0 when there is none.
LastOf(h, t) == Max({0} \cup {i \in 1..LogLength : log[i].hub = h /\ log[i].type = t})

\* The last bundle of h and t builds on the last bundles of the types it needs.
BuildsOnLast(h, t) ==
    \A u \in {t} \cup DependencyChain[t] :
        /\ LastOf(h, u) # 0
        /\ Dependency[u] # Nil =>
             Equals(log[LastOf(h, u)].dep, log[LastOf(h, Dependency[u])].ver)

\* The database catches up with the leaf hubs: the last bundle of each type that
\* builds on the last bundles of its chain is eventually stored for good, whatever
\* was conflated, failed and retried, or read again after a crash, unless the
\* dispatcher dropped a unit.
EventuallyStored ==
    <>[](\/ UnitDropped
         \/ \A h \in Hubs, t \in Types :
                BuildsOnLast(h, t) => Equals(stored[h][t], log[LastOf(h, t)].ver))
==============================================================================
