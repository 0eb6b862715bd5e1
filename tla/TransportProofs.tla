----------------------------- MODULE TransportProofs -----------------------------
(***************************************************************************)
(* Proofs about DBToTransport and IntervalPolicy for every set of rows,    *)
(* every number of writes and faults and every interval configuration.     *)
(*                                                                         *)
(* NothingMissed is not inductive: whether a change was sent depends on    *)
(* the two reads of GetObjectsBundle, which other writes may come between. *)
(* BundleCovers ties the rows that were read to the timestamp that was     *)
(* read before them, LastMessageCovers to the timestamp that the next      *)
(* comparison uses.  NeverGoesBack needs InOrder: what is on its way is    *)
(* ordered, from the leaf hubs back to the table.                          *)
(***************************************************************************)
EXTENDS DBToTransport, WellFoundedInduction, TLAPS

Message == [version : Nat, objects : [Objects -> Nat], whole : BOOLEAN]
Intervals == (InitialInterval..maxInterval) \cup {InitialInterval, maxInterval}
Policy == [interval : Intervals, next : Intervals, count : Nat]

TransportTypeOK ==
    /\ updatedAt \in [Objects -> Nat]
    /\ local \in SUBSET Objects
    /\ clock \in Nat
    /\ lastSync \in Nat
    /\ pc \in {"idle", "timestamp", "rows", "send"}
    /\ timestamp \in Nat
    /\ bundle \in [Objects -> Nat]
    /\ whole \in BOOLEAN
    /\ policy \in Policy
    /\ queue \in Seq(Message)
    /\ known \in [Objects -> Nat]
    /\ lost \in BOOLEAN
    /\ faults \in Nat

\* The database's clock is ahead of every timestamp that was read.
ClockIsAhead ==
    /\ lastSync <= clock
    /\ timestamp <= clock
    /\ \A o \in Objects : updatedAt[o] <= clock

\* A row is newer the closer it is to the table: what leaf hubs know, the messages
\* in the order they are sent, the bundle that was read, the table.
InOrder ==
    \A o \in Objects :
        /\ known[o] <= updatedAt[o]
        /\ \A i \in 1..Len(queue) :
            /\ queue[i].objects[o] <= updatedAt[o]
            /\ queue[i].objects[o] # 0 => known[o] <= queue[i].objects[o]
            /\ \A j \in 1..i : queue[i].objects[o] # 0 =>
                 queue[j].objects[o] <= queue[i].objects[o]
        /\ pc = "send" =>
            /\ bundle[o] <= updatedAt[o]
            /\ bundle[o] # 0 => /\ known[o] <= bundle[o]
                               /\ \A i \in 1..Len(queue) : queue[i].objects[o] <= bundle[o]

\* A bundle that is whole holds every row that did not change after the timestamp
\* which was read before it.
BundleCovers ==
    pc = "send" /\ whole =>
        \A o \in Objects \ local : updatedAt[o] <= timestamp => updatedAt[o] <= bundle[o]

\* The last message, when it is intact, covers the timestamp of the next comparison.
LastMessageCovers ==
    LastMessageIsIntact =>
        \A o \in Objects \ local : updatedAt[o] <= lastSync =>
            IF queue # <<>> THEN updatedAt[o] <= queue[Len(queue)].objects[o]
                            ELSE updatedAt[o] <= known[o]

IInv == TransportTypeOK /\ ClockIsAhead /\ InOrder /\ BundleCovers /\ LastMessageCovers

------------------------------------------------------------------------------
(* The operators the actions are built from *)

\* A bounded set of naturals has a greatest element.
LEMMA MaxOfBounded ==
    ASSUME NEW S \in SUBSET Nat, S # {}, NEW n \in Nat, \A y \in S : y <= n
    PROVE  Max(S) \in S /\ \A y \in S : y <= Max(S)
<1> DEFINE U == {m \in Nat : \A y \in S : y <= m}
<1>1. PICK m \in U : \A k \in U : ~(<<k, m>> \in OpToRel(<, Nat))
  BY WFMin, NatLessThanWellFounded, n \in U, U \subseteq Nat
<1>2. \A k \in U : m <= k
  <2>1. TAKE k \in U
  <2>2. <<k, m>> \in Nat \X Nat /\ <<k, m>>[1] = k /\ <<k, m>>[2] = m
    OBVIOUS
  <2>3. k < m => <<k, m>> \in OpToRel(<, Nat)
    BY ONLY <2>2 DEF OpToRel
  <2>4. ~(k < m)
    BY <1>1, <2>3
  <2>. QED
    BY <2>4
<1>3. m \in S
  <2>1. SUFFICES ASSUME m \notin S PROVE FALSE
    OBVIOUS
  <2>2. PICK y \in S : TRUE
    OBVIOUS
  <2>3. y < m
    BY <2>1
  <2>4. m - 1 \in U
    BY <2>1, <2>3
  <2>. QED
    BY <1>2, <2>4
<1>. QED
  BY <1>3 DEF Max

\* SELECT MAX(updated_at) is not ahead of the database's clock.
LEMMA LastUpdateType ==
    ASSUME TransportTypeOK, ClockIsAhead
    PROVE  LastUpdateTimestamp \in Nat /\ LastUpdateTimestamp <= clock
<1> DEFINE S == {SyncedRows[o] : o \in Objects} \cup {0}
<1>1. \A o \in Objects : SyncedRows[o] \in Nat /\ SyncedRows[o] <= clock
  BY DEF TransportTypeOK, ClockIsAhead, SyncedRows
<1>2. S \in SUBSET Nat /\ S # {} /\ clock \in Nat /\ \A y \in S : y <= clock
  BY <1>1 DEF TransportTypeOK
<1> HIDE DEF S
<1>3. Max(S) \in S
  BY <1>2, MaxOfBounded
<1>. QED
  BY <1>2, <1>3 DEF LastUpdateTimestamp, S

\* The backoff library's increment stays within the limits.
LEMMA IncrementType ==
    ASSUME NEW i \in Intervals
    PROVE  increment(i) \in Intervals
BY IntervalAssumption DEF Intervals, increment, baseFactor

\* A new policy, and one that was evaluated, stay within the limits.
LEMMA PolicyType == NewPolicy \in Policy /\ \A p \in Policy : Evaluate(p) \in Policy
<1>1. InitialInterval \in Intervals
  BY IntervalAssumption DEF Intervals
<1>2. NewPolicy \in Policy
  BY <1>1, IncrementType DEF NewPolicy, Policy
<1>3. ASSUME NEW p \in Policy PROVE Evaluate(p) \in Policy
  <2>1. p.next \in Intervals /\ p.count + 1 \in Nat /\ p.interval \in Intervals
    BY DEF Policy
  <2>2. increment(p.next) \in Intervals
    BY <2>1, IncrementType
  <2>3. [interval |-> p.next, next |-> increment(p.next), count |-> 0] \in Policy
    BY <2>1, <2>2 DEF Policy
  <2>4. [p EXCEPT !.count = p.count + 1] \in Policy
    BY <2>1 DEF Policy
  <2>. QED
    BY <2>3, <2>4 DEF Evaluate
<1>. QED
  BY <1>2, <1>3

------------------------------------------------------------------------------
(* The invariant holds initially and every action preserves it *)

\* No row, no message and no timestamp are there yet.
LEMMA InitIInv == Init => IInv
<1> SUFFICES ASSUME Init PROVE IInv
  OBVIOUS
<1> USE DEF Init, Nothing
<1>1. TransportTypeOK
  <2>1. queue \in Seq(Message)
    OBVIOUS
  <2>. QED
    BY <2>1, PolicyType DEF TransportTypeOK
<1>2. ClockIsAhead /\ BundleCovers /\ LastMessageCovers
  BY DEF ClockIsAhead, BundleCovers, LastMessageCovers
<1>3. InOrder
  BY DEF InOrder
<1>. QED
  BY <1>1, <1>2, <1>3 DEF IInv

\* A row written between the syncer's steps is newer than every timestamp read.
LEMMA WriteRowIInv ==
    ASSUME IInv, NEW w \in Objects, WriteRow(w)
    PROVE  IInv'
<1>0. /\ TransportTypeOK /\ ClockIsAhead /\ InOrder /\ BundleCovers /\ LastMessageCovers
  BY DEF IInv
<1>1. /\ UNCHANGED <<lastSync, pc, timestamp, bundle, whole, policy, queue, known, lost, faults>>
      /\ clock' = clock + 1 /\ updatedAt' = [updatedAt EXCEPT ![w] = clock + 1]
      /\ local' \in {local \cup {w}, local \ {w}}
  BY DEF WriteRow, syncerVars
<1>2. /\ updatedAt' \in [Objects -> Nat] /\ updatedAt'[w] = clock + 1
      /\ \A o \in Objects : o # w => updatedAt'[o] = updatedAt[o]
      /\ \A o \in Objects : updatedAt[o] <= updatedAt'[o]
      /\ \A o \in Objects : updatedAt[o] \in Nat /\ updatedAt'[o] \in Nat
  BY <1>0, <1>1 DEF TransportTypeOK, ClockIsAhead
<1>3. TransportTypeOK'
  BY <1>0, <1>1, <1>2 DEF TransportTypeOK
<1>4. ClockIsAhead'
  BY <1>0, <1>1, <1>2 DEF TransportTypeOK, ClockIsAhead
<1>5. \A o \in Objects \ local' : updatedAt'[o] <= lastSync \/ updatedAt'[o] <= timestamp =>
        o \in Objects \ local /\ updatedAt'[o] = updatedAt[o]
  BY <1>0, <1>1, <1>2 DEF TransportTypeOK, ClockIsAhead
<1>6. BundleCovers'
  BY <1>0, <1>1, <1>5 DEF BundleCovers
<1>7. LastMessageCovers'
  BY <1>0, <1>1, <1>5 DEF LastMessageCovers, LastMessageIsIntact
<1>8. InOrder'
  <2>1. \A o \in Objects : known[o] \in Nat /\ bundle[o] \in Nat
    BY <1>0 DEF TransportTypeOK
  <2>2. \A i \in 1..Len(queue) : queue[i] \in Message
    BY <1>0 DEF TransportTypeOK
  <2>3. \A i \in 1..Len(queue), o \in Objects : queue[i].objects[o] \in Nat
    BY <2>2 DEF Message
  <2>4. SUFFICES ASSUME NEW o \in Objects
        PROVE  /\ known[o] <= updatedAt'[o]
               /\ \A i \in 1..Len(queue) : queue[i].objects[o] <= updatedAt'[o]
               /\ pc = "send" => bundle[o] <= updatedAt'[o]
    BY <1>0, <1>1 DEF InOrder
  <2>. QED
    BY <1>0, <1>2, <2>1, <2>3 DEF InOrder
<1>. QED
  BY <1>3, <1>4, <1>6, <1>7, <1>8 DEF IInv

\* A poll compares the timestamps; it may find nothing or fail.
LEMMA checkTimestampIInv ==
    ASSUME IInv, checkTimestamp
    PROVE  IInv'
<1>1. /\ UNCHANGED <<updatedAt, local, clock, lastSync, timestamp, bundle, whole, queue, known, lost>>
      /\ pc' \in {"idle", "timestamp"} /\ policy' \in {policy, NewPolicy}
      /\ faults' \in {faults, faults + 1}
  BY DEF checkTimestamp, tableVars, Skip, Fault
<1>2. TransportTypeOK'
  BY <1>1, PolicyType DEF IInv, TransportTypeOK
<1>3. ClockIsAhead' /\ BundleCovers' /\ LastMessageCovers' /\ InOrder'
  BY <1>1 DEF IInv, ClockIsAhead, BundleCovers, LastMessageCovers, LastMessageIsIntact, InOrder
<1>. QED
  BY <1>2, <1>3 DEF IInv

\* The timestamp of the bundle is read.
LEMMA readTimestampIInv ==
    ASSUME IInv, readTimestamp
    PROVE  IInv'
<1>1. /\ UNCHANGED <<updatedAt, local, clock, lastSync, bundle, whole, policy, queue, known, lost>>
      /\ pc' = "rows" /\ timestamp' \in {0, LastUpdateTimestamp} /\ faults' \in {faults, faults + 1}
  BY DEF readTimestamp, tableVars, Fault
<1>2. LastUpdateTimestamp \in Nat /\ LastUpdateTimestamp <= clock
  BY LastUpdateType DEF IInv
<1>3. TransportTypeOK'
  BY <1>1, <1>2 DEF IInv, TransportTypeOK
<1>4. ClockIsAhead'
  BY <1>1, <1>2 DEF IInv, ClockIsAhead, TransportTypeOK
<1>5. BundleCovers' /\ LastMessageCovers' /\ InOrder'
  BY <1>1 DEF IInv, BundleCovers, LastMessageCovers, LastMessageIsIntact, InOrder
<1>. QED
  BY <1>3, <1>4, <1>5 DEF IInv

\* The rows of the bundle are read, in whole, in part or not at all.
LEMMA readRowsIInv ==
    ASSUME IInv, readRows
    PROVE  IInv'
<1>0. /\ TransportTypeOK /\ ClockIsAhead /\ InOrder /\ LastMessageCovers
  BY DEF IInv
<1>1. /\ UNCHANGED <<updatedAt, local, clock, lastSync, timestamp, queue, known, lost>>
      /\ faults' \in {faults, faults + 1}
  BY DEF readRows, tableVars, Fault
<1>2. /\ SyncedRows \in [Objects -> Nat]
      /\ \A o \in Objects : SyncedRows[o] \in {0, updatedAt[o]}
      /\ \A o \in Objects \ local : SyncedRows[o] = updatedAt[o]
  BY <1>0 DEF SyncedRows, TransportTypeOK
<1>3. LastMessageCovers' /\ ClockIsAhead'
  BY <1>0, <1>1 DEF LastMessageCovers, LastMessageIsIntact, ClockIsAhead
<1>4. CASE pc' = "idle" /\ policy' = NewPolicy /\ UNCHANGED <<bundle, whole>>
  <2>1. TransportTypeOK'
    BY <1>0, <1>1, <1>4, PolicyType DEF TransportTypeOK
  <2>2. BundleCovers' /\ InOrder'
    BY <1>0, <1>1, <1>4 DEF BundleCovers, InOrder
  <2>. QED
    BY <1>3, <2>1, <2>2 DEF IInv
<1>5. CASE /\ pc' = "send" /\ policy' = policy
           /\ bundle' \in [Objects -> Nat]
           /\ \A o \in Objects : bundle'[o] \in {0, SyncedRows[o]}
           /\ whole' \in BOOLEAN /\ (whole' => bundle' = SyncedRows)
  <2>1. TransportTypeOK'
    BY <1>0, <1>1, <1>5 DEF TransportTypeOK
  <2>2. BundleCovers'
    <3>1. \A o \in Objects : updatedAt[o] \in Nat
      BY <1>0 DEF TransportTypeOK
    <3>. QED
      BY <1>1, <1>2, <1>5, <3>1 DEF BundleCovers
  <2>3. InOrder'
    <3>1. SUFFICES ASSUME NEW o \in Objects
          PROVE  /\ bundle'[o] <= updatedAt[o]
                 /\ bundle'[o] # 0 => /\ known[o] <= bundle'[o]
                                     /\ \A i \in 1..Len(queue) : queue[i].objects[o] <= bundle'[o]
      BY <1>0, <1>1 DEF InOrder
    <3>2. bundle'[o] \in {0, updatedAt[o]} /\ updatedAt[o] \in Nat
      BY <1>0, <1>2, <1>5 DEF TransportTypeOK
    <3>. QED
      BY <1>0, <3>2 DEF InOrder
  <2>. QED
    BY <1>3, <2>1, <2>2, <2>3 DEF IInv
<1>6. ASSUME NEW seen \in SUBSET Objects,
             bundle' = [o \in Objects |-> IF o \in seen THEN SyncedRows[o] ELSE 0]
      PROVE  bundle' \in [Objects -> Nat] /\ \A o \in Objects : bundle'[o] \in {0, SyncedRows[o]}
  BY <1>2, <1>6
<1>7. whole' \in BOOLEAN
  BY <1>0 DEF readRows, TransportTypeOK
<1>8. \/ /\ bundle' = SyncedRows /\ whole' = TRUE /\ pc' = "send" /\ policy' = policy
      \/ /\ \E seen \in SUBSET Objects :
                bundle' = [o \in Objects |-> IF o \in seen THEN SyncedRows[o] ELSE 0]
         /\ whole' = (bundle' = SyncedRows) /\ pc' = "send" /\ policy' = policy
      \/ pc' = "idle" /\ policy' = NewPolicy /\ UNCHANGED <<bundle, whole>>
  BY DEF readRows, Skip
<1>. QED
  BY <1>2, <1>4, <1>5, <1>6, <1>7, <1>8

\* The bundle becomes the last message; its timestamp is that of the next comparison.
LEMMA sendToTransportIInv ==
    ASSUME IInv, sendToTransport
    PROVE  IInv'
<1> DEFINE m == [version |-> timestamp, objects |-> bundle, whole |-> whole]
           n == Len(queue)
<1>0. TransportTypeOK /\ ClockIsAhead /\ InOrder /\ BundleCovers
  BY DEF IInv
<1>1. /\ UNCHANGED <<updatedAt, local, clock, timestamp, bundle, whole, known, lost, faults>>
      /\ pc = "send" /\ pc' = "idle" /\ lastSync' = timestamp
      /\ policy' = Evaluate(policy) /\ queue' = Append(queue, m)
  BY DEF sendToTransport, tableVars, enqueue, syncedTimestamp
<1>2. m \in Message /\ m.objects = bundle /\ m.whole = whole
  BY <1>0 DEF TransportTypeOK, Message
<1>3. queue \in Seq(Message) /\ n \in Nat
  BY <1>0 DEF TransportTypeOK
<1> HIDE DEF m
<1>4. /\ queue' \in Seq(Message) /\ Len(queue') = n + 1 /\ queue'[n + 1] = m
      /\ \A i \in 1..n : queue'[i] = queue[i]
  BY <1>1, <1>2, <1>3
<1>5. queue' # <<>>
  BY <1>3, <1>4
<1>6. TransportTypeOK'
  BY <1>0, <1>1, <1>4, PolicyType DEF TransportTypeOK
<1>7. ClockIsAhead' /\ BundleCovers'
  BY <1>0, <1>1 DEF ClockIsAhead, BundleCovers
<1>8. LastMessageCovers'
  BY <1>0, <1>1, <1>2, <1>4, <1>5 DEF LastMessageCovers, LastMessageIsIntact, BundleCovers
<1>9. InOrder'
  <2>1. SUFFICES ASSUME NEW o \in Objects, NEW i \in 1..(n + 1)
        PROVE  /\ known[o] <= updatedAt[o]
               /\ queue'[i].objects[o] <= updatedAt[o]
               /\ queue'[i].objects[o] # 0 => known[o] <= queue'[i].objects[o]
               /\ \A j \in 1..i : queue'[i].objects[o] # 0 =>
                    queue'[j].objects[o] <= queue'[i].objects[o]
    <3>1. \A o \in Objects : known[o] <= updatedAt[o]
      BY <1>0 DEF InOrder
    <3>. QED
      BY <1>1, <1>4, <3>1 DEF InOrder
  <2>2. known[o] <= updatedAt[o]
    BY <1>0 DEF InOrder
  <2>3. CASE i \in 1..n
    <3>1. \A j \in 1..i : j \in 1..n
      BY <1>3, <2>3
    <3>. QED
      BY <1>0, <1>4, <2>2, <2>3, <3>1 DEF InOrder
  <2>4. CASE i = n + 1
    <3>1. queue'[i].objects[o] = bundle[o]
      BY <1>2, <1>4, <2>4
    <3>2. bundle[o] \in Nat
      BY <1>0 DEF TransportTypeOK
    <3>3. \A j \in 1..i : j \in 1..n \/ j = i
      BY <1>3, <2>4
    <3>. QED
      BY <1>0, <1>1, <1>4, <2>2, <3>1, <3>2, <3>3 DEF InOrder
  <2>. QED
    BY <1>3, <2>3, <2>4
<1>. QED
  BY <1>6, <1>7, <1>8, <1>9 DEF IInv

\* The first message reaches the leaf hubs, or fails.
LEMMA SendIInv ==
    ASSUME IInv, Send
    PROVE  IInv'
<1> DEFINE m == queue[1]
           n == Len(queue)
<1>0. TransportTypeOK /\ ClockIsAhead /\ InOrder /\ BundleCovers /\ LastMessageCovers
  BY DEF IInv
<1>1. /\ UNCHANGED <<updatedAt, local, clock, lastSync, pc, timestamp, bundle, whole, policy>>
      /\ queue # <<>> /\ queue' = Tail(queue) /\ faults' \in {faults, faults + 1}
  BY DEF Send, tableVars, syncerVars, Fault
<1>2. queue \in Seq(Message) /\ n \in Nat /\ n > 0 /\ m = Head(queue) /\ 1 \in 1..n
  BY <1>0, <1>1 DEF TransportTypeOK
<1>3. /\ queue' \in Seq(Message) /\ Len(queue') = n - 1
      /\ \A i \in 1..(n - 1) : i + 1 \in 1..n /\ queue'[i] = queue[i + 1]
  BY <1>1, <1>2
<1>4. \A i \in 1..n : queue[i] \in Message
  BY <1>2
<1>5. m \in Message
  BY <1>2, <1>4
<1>6. m.objects \in [Objects -> Nat] /\ m.whole \in BOOLEAN
  BY <1>5 DEF Message
<1>7. \/ /\ known' = [o \in Objects |-> IF m.objects[o] # 0 THEN m.objects[o] ELSE known[o]]
         /\ lost' = ~m.whole
      \/ known' = known /\ lost' = TRUE
  BY <1>2 DEF Send
<1>8. known \in [Objects -> Nat]
  BY <1>0 DEF TransportTypeOK
<1>9. known' \in [Objects -> Nat] /\ lost' \in BOOLEAN
  BY <1>6, <1>7, <1>8
<1>10. \A o \in Objects : known'[o] \in {known[o], m.objects[o]} /\ (known'[o] # known[o] => m.objects[o] # 0)
  BY <1>6, <1>7, <1>8
<1>11. TransportTypeOK'
  BY <1>0, <1>1, <1>3, <1>9 DEF TransportTypeOK
<1>12. ClockIsAhead' /\ BundleCovers'
  BY <1>0, <1>1 DEF ClockIsAhead, BundleCovers
<1>13. InOrder'
  <2>1. SUFFICES ASSUME NEW o \in Objects
        PROVE  /\ known'[o] <= updatedAt[o]
               /\ \A i \in 1..n : queue[i].objects[o] # 0 => known'[o] <= queue[i].objects[o]
               /\ pc = "send" /\ bundle[o] # 0 => known'[o] <= bundle[o]
    <3>1. \A i \in 1..(n - 1), o \in Objects : \A j \in 1..i :
             queue[i + 1].objects[o] # 0 => queue[j + 1].objects[o] <= queue[i + 1].objects[o]
      <4>1. TAKE i \in 1..(n - 1), o \in Objects
      <4>2. TAKE j \in 1..i
      <4>3. i + 1 \in 1..n /\ j + 1 \in 1..(i + 1)
        BY <1>2
      <4>. QED
        BY <1>0, <4>3 DEF InOrder
    <3>2. \A i \in 1..(n - 1) : \A j \in 1..i : j \in 1..(n - 1)
      BY <1>2
    <3>. QED
      BY <1>0, <1>1, <1>3, <2>1, <3>1, <3>2 DEF InOrder
  <2>2. CASE known'[o] = known[o]
    BY <1>0, <1>1, <2>2 DEF InOrder
  <2>3. CASE known'[o] = m.objects[o]
    <3>1. \A i \in 1..n : 1 \in 1..i
      BY <1>2
    <3>. QED
      BY <1>0, <1>1, <1>2, <2>3, <3>1 DEF InOrder
  <2>. QED
    BY <1>10, <2>2, <2>3
<1>14. LastMessageCovers'
  <2>1. CASE n = 1
    <3>1. queue' = <<>>
      BY <1>3, <2>1
    <3>2. SUFFICES ASSUME ~lost', NEW o \in Objects \ local, updatedAt[o] <= lastSync
          PROVE  updatedAt[o] <= known'[o]
      BY <1>1, <3>1 DEF LastMessageCovers, LastMessageIsIntact
    <3>3. m.whole /\ known'[o] = IF m.objects[o] # 0 THEN m.objects[o] ELSE known[o]
      BY <1>6, <1>7, <3>2
    <3>4. updatedAt[o] <= m.objects[o]
      BY <1>0, <1>1, <2>1, <3>2, <3>3 DEF LastMessageCovers, LastMessageIsIntact
    <3>5. updatedAt[o] \in Nat /\ m.objects[o] \in Nat /\ known[o] \in Nat
      BY <1>0, <1>6 DEF TransportTypeOK
    <3>. QED
      BY <3>3, <3>4, <3>5
  <2>2. CASE n > 1
    <3>1. queue' # <<>> /\ queue'[Len(queue')] = queue[n]
      BY <1>2, <1>3, <2>2
    <3>. QED
      BY <1>0, <1>1, <3>1 DEF LastMessageCovers, LastMessageIsIntact
  <2>3. n = 1 \/ n > 1
    <3>1. \A k \in Nat : k > 0 => k = 1 \/ k > 1
      OBVIOUS
    <3> HIDE DEF n
    <3>. QED
      BY ONLY <1>2, <3>1
  <2>. QED
    BY <2>1, <2>2, <2>3
<1>. QED
  BY <1>11, <1>12, <1>13, <1>14 DEF IInv

\* A restart forgets the timestamp together with the messages that it covered.
LEMMA RestartIInv ==
    ASSUME IInv, Restart
    PROVE  IInv'
<1>1. /\ UNCHANGED <<updatedAt, local, clock, timestamp, bundle, whole, known, lost>>
      /\ pc' = "idle" /\ lastSync' = 0 /\ queue' = <<>> /\ policy' = NewPolicy
      /\ faults' = faults + 1
  BY DEF Restart, tableVars, Fault
<1>2. queue' \in Seq(Message) /\ Len(queue') = 0
  BY <1>1
<1>3. TransportTypeOK'
  BY <1>1, <1>2, PolicyType DEF IInv, TransportTypeOK
<1>4. ClockIsAhead' /\ BundleCovers'
  BY <1>1 DEF IInv, TransportTypeOK, ClockIsAhead, BundleCovers
<1>5. InOrder'
  BY <1>1, <1>2 DEF IInv, InOrder
<1>6. LastMessageCovers'
  <2>1. \A o \in Objects : updatedAt[o] \in Nat /\ known[o] \in Nat
    BY DEF IInv, TransportTypeOK
  <2>2. \A o \in Objects : updatedAt[o] <= known[o] \/ ~(updatedAt[o] <= 0)
    BY <2>1
  <2>. QED
    BY <1>1, <2>2 DEF LastMessageCovers
<1>. QED
  BY <1>3, <1>4, <1>5, <1>6 DEF IInv

\* Every step preserves the invariant.
LEMMA NextIInv == IInv /\ [Next]_vars => IInv'
<1> SUFFICES ASSUME IInv, [Next]_vars PROVE IInv'
  OBVIOUS
<1>1. CASE UNCHANGED vars
  BY <1>1 DEF IInv, vars, tableVars, syncerVars, TransportTypeOK, ClockIsAhead, InOrder,
       BundleCovers, LastMessageCovers, LastMessageIsIntact
<1>. QED
  BY <1>1, WriteRowIInv, checkTimestampIInv, readTimestampIInv, readRowsIInv,
     sendToTransportIInv, SendIInv, RestartIInv DEF Next, Syncer

\* The invariant holds in every reachable state.
LEMMA IInvIsInvariant == Spec => []IInv
BY InitIInv, NextIInv, PTL DEF Spec

------------------------------------------------------------------------------
(* Results *)

\* A change that the last timestamp covers was sent or is on its way, whatever was
\* written between the two reads of GetObjectsBundle and whichever queries and
\* messages failed before the last message.
THEOREM CoveredChangesAreSent == Spec => []NothingMissed
<1>1. IInv => NothingMissed
  <2>1. SUFFICES ASSUME IInv, LastMessageIsIntact,
                        NEW o \in Objects \ local, updatedAt[o] <= lastSync
                 PROVE  ChangeIsSent(o)
    BY DEF NothingMissed
  <2>2. TransportTypeOK /\ LastMessageCovers
    BY <2>1 DEF IInv
  <2>3. CASE queue = <<>>
    <3>1. updatedAt[o] <= known[o]
      BY <2>1, <2>2, <2>3 DEF LastMessageCovers
    <3>. QED
      BY <2>1, <2>2, <3>1 DEF ChangeIsSent, TransportTypeOK
  <2>4. CASE queue # <<>>
    <3>1. updatedAt[o] <= queue[Len(queue)].objects[o]
      BY <2>1, <2>2, <2>4 DEF LastMessageCovers
    <3>2. queue \in Seq(Message)
      BY <2>2 DEF TransportTypeOK
    <3>3. Len(queue) \in 1..Len(queue)
      BY <2>4, <3>2
    <3>4. queue[Len(queue)] \in Message
      BY <3>2, <3>3
    <3>5. queue[Len(queue)].objects[o] \in Nat /\ updatedAt[o] \in Nat
      BY <2>1, <2>2, <3>4 DEF Message, TransportTypeOK
    <3>6. queue[Len(queue)].objects[o] >= updatedAt[o]
      BY <3>1, <3>5
    <3>. QED
      BY <3>3, <3>6 DEF ChangeIsSent
  <2>. QED
    BY <2>3, <2>4
<1>. QED
  BY <1>1, IInvIsInvariant, PTL

\* The interval is between the configured one and the maximum, or one of the two when the
\* configured one is the longer.
THEOREM IntervalStaysLimited == Spec => []IntervalIsLimited
<1>1. IInv => IntervalIsLimited
  BY DEF IInv, TransportTypeOK, Policy, Intervals, IntervalIsLimited
<1>. QED
  BY <1>1, IInvIsInvariant, PTL

\* No message takes a leaf hub back to an older state of a row.
THEOREM LeafHubsNeverGoBack == Spec => NeverGoesBack
<1>1. IInv /\ [Next]_vars => [\A o \in Objects : known'[o] >= known[o]]_vars
  <2>1. SUFFICES ASSUME IInv, Next, NEW o \in Objects PROVE known'[o] >= known[o]
    OBVIOUS
  <2>2. TransportTypeOK /\ InOrder
    BY <2>1 DEF IInv
  <2>3. known[o] \in Nat
    BY <2>2 DEF TransportTypeOK
  <2>4. CASE Send
    <3>1. queue \in Seq(Message) /\ queue # <<>>
      BY <2>2, <2>4 DEF TransportTypeOK, Send
    <3>2. 1 \in 1..Len(queue) /\ Head(queue) = queue[1]
      BY <3>1
    <3>3. queue[1] \in Message
      BY <3>1, <3>2
    <3>4. queue[1].objects[o] \in Nat
      BY <3>3 DEF Message
    <3>5. queue[1].objects[o] # 0 => known[o] <= queue[1].objects[o]
      BY <2>2, <3>2 DEF InOrder
    <3>6. known'[o] \in {known[o], IF queue[1].objects[o] # 0 THEN queue[1].objects[o] ELSE known[o]}
      BY <2>4, <3>2 DEF Send
    <3>. QED
      BY <2>3, <3>4, <3>5, <3>6
  <2>5. CASE ~Send
    <3>1. UNCHANGED known
      BY <2>1, <2>5 DEF Next, Syncer, WriteRow, checkTimestamp, readTimestamp, readRows,
           sendToTransport, Restart
    <3>. QED
      BY <2>3, <3>1
  <2>. QED
    BY <2>4, <2>5
<1>. QED
  BY <1>1, IInvIsInvariant, PTL DEF Spec, NeverGoesBack
==============================================================================
