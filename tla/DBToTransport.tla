------------------------------ MODULE DBToTransport ------------------------------
(***************************************************************************)
(* A database-to-transport syncer: it polls one table of the spec database *)
(* and sends the whole table to the leaf hubs when something changed since *)
(* the last bundle.  Rows are written by the spec-to-database controllers  *)
(* (module SpecToDB) while the syncer reads; a row stands for its last     *)
(* change, updated_at, which also stands for its content.  A row marked as *)
(* deleted is a changed row like any other.                                *)
(***************************************************************************)
EXTENDS IntervalPolicy, Sequences, FiniteSetsExt

CONSTANTS
    Objects,        \* rows of the table
    MaxWrites,      \* bound on writes, for TLC
    MaxFaults       \* bound on faults, for TLC

ASSUME DBToTransportAssumption ==
    /\ MaxWrites \in Nat
    /\ MaxFaults \in Nat

VARIABLES
    updatedAt,   \* table: the last change of each row, 0 when there is no row
    local,       \* table: the rows labelled as local resources
    clock,       \* database: the time of the last write
    lastSync,    \* syncer: *lastSyncTimestampPtr
    pc,          \* syncer: the next step
    timestamp,   \* syncer: the timestamp GetObjectsBundle read
    bundle,      \* syncer: the rows GetObjectsBundle read, 0 for a row left out
    whole,       \* syncer: whether it read all of them
    policy,      \* syncer: the interval policy
    queue,       \* transport: messages handed to SendAsync and not sent yet
    known,       \* leaf hubs: the last change of each row they were sent
    lost,        \* transport: whether the last message failed or was not whole
    faults

tableVars == <<updatedAt, local, clock>>
syncerVars == <<lastSync, pc, timestamp, bundle, whole, policy>>
vars == <<tableVars, syncerVars, queue, known, lost, faults>>

Nothing == [o \in Objects |-> 0]

\* The rows the queries return: local resources are filtered.
SyncedRows == [o \in Objects |-> IF o \in local THEN 0 ELSE updatedAt[o]]

\* SELECT MAX(updated_at), the zero time for a table without rows.
LastUpdateTimestamp == Max({SyncedRows[o] : o \in Objects} \cup {0})

Fault ==
    /\ faults < MaxFaults
    /\ faults' = faults + 1

------------------------------------------------------------------------------
(* Table, external *)

\* A controller inserts, updates or marks a row; its labels may change with it.
WriteRow(o) ==
    /\ clock < MaxWrites
    /\ clock' = clock + 1
    /\ updatedAt' = [updatedAt EXCEPT ![o] = clock + 1]
    /\ local' \in {local \cup {o}, local \ {o}}
    /\ UNCHANGED <<syncerVars, queue, known, lost, faults>>

------------------------------------------------------------------------------
(* Syncer *)

\* The sync function returned without sending: the interval policy is reset.
Skip ==
    /\ pc' = "idle"
    /\ policy' = NewPolicy

\* Mutant: the timestamps are compared with a coarser resolution.
isUpdatedCoarsely == LastUpdateTimestamp \div 2 > lastSync \div 2

\* The table changed after the last bundle.
isUpdated == LastUpdateTimestamp > lastSync

\* syncObjectsBundle up to the comparison of the timestamps.  A query that fails
\* reports no error and yields the zero time, like that of an empty table.
checkTimestamp ==
    /\ pc = "idle"
    /\ \/ /\ isUpdated
          /\ pc' = "timestamp"
          /\ UNCHANGED <<policy, faults>>
       \/ ~isUpdated /\ Skip /\ UNCHANGED faults
       \/ Fault /\ Skip
    /\ UNCHANGED <<tableVars, lastSync, timestamp, bundle, whole, queue, known, lost>>

\* GetObjectsBundle reads the timestamp again, before the rows.
readTimestamp ==
    /\ pc = "timestamp"
    /\ pc' = "rows"
    /\ \/ timestamp' = LastUpdateTimestamp /\ UNCHANGED faults
       \/ timestamp' = 0 /\ Fault
    /\ UNCHANGED <<tableVars, lastSync, bundle, whole, policy, queue, known, lost>>

\* GetObjectsBundle reads the rows.  An error while they are read ends the loop
\* and is not looked for.
readRows ==
    /\ pc = "rows"
    /\ \/ /\ bundle' = SyncedRows /\ whole' = TRUE
          /\ pc' = "send"
          /\ UNCHANGED <<policy, faults>>
       \/ /\ Fault
          /\ \E seen \in SUBSET Objects :
               bundle' = [o \in Objects |-> IF o \in seen THEN SyncedRows[o] ELSE 0]
          /\ whole' = (bundle' = SyncedRows)
          /\ pc' = "send"
          /\ UNCHANGED policy
       \/ Fault /\ Skip /\ UNCHANGED <<bundle, whole>>
    /\ UNCHANGED <<tableVars, lastSync, timestamp, queue, known, lost>>

\* Mutant: the timestamp is read after the rows.
syncedTimestampAfterRows == LastUpdateTimestamp

\* The timestamp that the next comparison uses.
syncedTimestamp == timestamp

\* Mutant: every message is sent by a goroutine of its own.
enqueueUnordered(message) == queue' \in {Append(queue, message), <<message>> \o queue}

\* SendAsync: the transport takes the message, and reports no error.
enqueue(message) == queue' = Append(queue, message)

\* syncToTransport and the rest of syncObjectsBundle.
sendToTransport ==
    /\ pc = "send"
    /\ enqueue([version |-> timestamp, objects |-> bundle, whole |-> whole])
    /\ lastSync' = syncedTimestamp
    /\ policy' = Evaluate(policy)
    /\ pc' = "idle"
    /\ UNCHANGED <<tableVars, timestamp, bundle, whole, known, lost, faults>>

Syncer == checkTimestamp \/ readTimestamp \/ readRows \/ sendToTransport

------------------------------------------------------------------------------
(* Transport *)

\* The next message reaches the leaf hubs, or fails and is only logged.
Send ==
    /\ queue # <<>>
    /\ queue' = Tail(queue)
    /\ \/ /\ known' = [o \in Objects |->
                IF Head(queue).objects[o] # 0 THEN Head(queue).objects[o] ELSE known[o]]
          /\ lost' = ~Head(queue).whole
          /\ UNCHANGED faults
       \/ Fault /\ lost' = TRUE /\ UNCHANGED known
    /\ UNCHANGED <<tableVars, syncerVars>>

\* The process restarts with a zero timestamp; messages not sent are lost.
Restart ==
    /\ Fault
    /\ pc' = "idle"
    /\ lastSync' = 0
    /\ queue' = <<>>
    /\ policy' = NewPolicy
    /\ UNCHANGED <<tableVars, timestamp, bundle, whole, known, lost>>

------------------------------------------------------------------------------
Init ==
    /\ updatedAt = Nothing
    /\ local = {}
    /\ clock = 0
    /\ lastSync = 0
    /\ pc = "idle"
    /\ timestamp = 0
    /\ bundle = Nothing
    /\ whole = TRUE
    /\ policy = NewPolicy
    /\ queue = <<>>
    /\ known = Nothing
    /\ lost = FALSE
    /\ faults = 0

Next ==
    \/ \E o \in Objects : WriteRow(o)
    \/ Syncer
    \/ Send
    \/ Restart

Spec == Init /\ [][Next]_vars

\* The ticker fires again and again, and the transport sends what it was given.
FairSpec == Spec /\ WF_vars(Syncer) /\ WF_vars(Send)

------------------------------------------------------------------------------
(* Properties *)

\* The change of row o reached the leaf hubs or is on its way to them.
ChangeIsSent(o) ==
    \/ known[o] >= updatedAt[o]
    \/ \E i \in 1..Len(queue) : queue[i].objects[o] >= updatedAt[o]

\* The last message handed to the transport holds all rows and did not fail.
LastMessageIsIntact == IF queue # <<>> THEN queue[Len(queue)].whole ELSE ~lost

\* "returns true if bundle was committed to transport": a change that the timestamp
\* of the last bundle covers is not looked at again, so it was sent; a row written
\* between the reads is not lost, and a message that failed, or that a broken read
\* left incomplete, is made up for by the next one, which holds the whole table.
NothingMissed ==
    LastMessageIsIntact =>
        \A o \in Objects \ local : updatedAt[o] <= lastSync => ChangeIsSent(o)

\* Leaf hubs never fall behind what they were sent: messages are sent in the order
\* in which the table changed, across reads that race with writes and restarts.
NeverGoesBack == [][\A o \in Objects : known'[o] >= known[o]]_vars

\* "the max interval that can be used to sync bundles" is exceeded by the configured
\* interval at most, which is not checked, however many bundles in a row the table's
\* changes cause: the interval is in between, or one of the two when the configured one
\* is the longer.
IntervalIsLimited ==
    policy.interval \in (InitialInterval..maxInterval) \cup {InitialInterval, maxInterval}

\* Once writes and faults stop, the leaf hubs have been sent every row, unless the
\* last message of all failed or was incomplete: nothing repeats that one.
EventuallyKnown ==
    <>[](LastMessageIsIntact => \A o \in Objects \ local : known[o] = updatedAt[o])
==============================================================================
