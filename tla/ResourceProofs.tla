----------------------------- MODULE ResourceProofs -----------------------------
(***************************************************************************)
(* Proofs about ResourceStatus, for any leaf hubs, names and histories:    *)
(* what the diff of a handler makes of any rows, read whole or in part,    *)
(* and that the rows of a leaf hub are always the last bundle written,     *)
(* with rows that a broken read left out at most.                          *)
(***************************************************************************)
EXTENDS ResourceStatus, TLAPS

\* No two resources of the set have the same key.
UniqueKeys(S) == \A a, b \in S : Key(a) = Key(b) => a = b

\* The version tells the states of a resource apart.
VersionsIdentify(S, T) == \A a \in S, b \in T : a.version = b.version => a = b

\* The batch built from the rows read turns the table into the bundle, apart from
\* the rows not read: rows of the same version are left alone, which is right
\* because a version never means two states.  Built from all rows it is accepted.
THEOREM DiffMakesBundle ==
    ASSUME NEW table, NEW read \in SUBSET table, NEW objects,
           UniqueKeys(table), UniqueKeys(objects), VersionsIdentify(table, objects)
    PROVE  /\ rowsAfter(table, diff(objects, read)) = objects \cup (table \ read)
           /\ read = table => ~BatchRefused(table, diff(objects, read))
           /\ ~BatchRefused(table, diff(objects, read)) =>
                \A r \in table \ read : Key(r) \notin KeysOf(objects)
<1> DEFINE batch == diff(objects, read)
           inserted == {r \in table : Key(r) \notin batch.deletes} \cup batch.inserts
<1>1. /\ batch.inserts = {o \in objects : Key(o) \notin KeysOf(read)}
      /\ batch.updates = {o \in objects : \E r \in read : Key(r) = Key(o) /\ r.version # o.version}
      /\ batch.deletes = KeysOf(read) \ KeysOf(objects)
  BY DEF diff
<1>2. rowsAfter(table, batch) =
        {r \in inserted : Key(r) \notin KeysOf(batch.updates)}
          \cup {o \in batch.updates : Key(o) \in KeysOf(inserted)}
  BY DEF rowsAfter
<1> HIDE DEF batch
<1>3. ASSUME NEW x \in rowsAfter(table, batch) PROVE x \in objects \cup (table \ read)
  <2>1. CASE x \in batch.updates
    BY <2>1, <1>1
  <2>2. CASE x \in batch.inserts
    BY <2>2, <1>1
  <2>3. CASE x \in read /\ Key(x) \notin batch.deletes /\ Key(x) \notin KeysOf(batch.updates)
    <3>1. Key(x) \in KeysOf(objects)
      BY <2>3, <1>1 DEF KeysOf
    <3>2. PICK o \in objects : Key(o) = Key(x)
      BY <3>1 DEF KeysOf
    <3>3. o \notin batch.updates
      BY <2>3, <3>2 DEF KeysOf
    <3>4. x.version = o.version
      BY <3>2, <3>3, <2>3, <1>1
    <3>5. QED BY <3>4, <2>3 DEF VersionsIdentify
  <2>4. QED BY <1>2, <1>3, <2>1, <2>2, <2>3
<1>4. ASSUME NEW x \in objects PROVE x \in rowsAfter(table, batch)
  <2>1. CASE Key(x) \notin KeysOf(read)
    <3>1. x \in inserted
      BY <2>1, <1>1
    <3>2. Key(x) \notin KeysOf(batch.updates)
      BY <2>1, <1>1 DEF KeysOf
    <3>3. QED BY <3>1, <3>2, <1>2
  <2>2. CASE \E r \in read : Key(r) = Key(x) /\ r.version # x.version
    <3>1. x \in batch.updates
      BY <2>2, <1>1
    <3>2. PICK r \in read : Key(r) = Key(x)
      BY <2>2
    <3>3. r \in inserted
      BY <3>2, <1>1 DEF KeysOf
    <3>4. Key(x) \in KeysOf(inserted)
      BY <3>2, <3>3 DEF KeysOf
    <3>5. QED BY <3>1, <3>4, <1>2
  <2>3. CASE \E r \in read : Key(r) = Key(x) /\ r.version = x.version
    <3>1. PICK r \in read : Key(r) = Key(x) /\ r.version = x.version
      BY <2>3
    <3>2. r = x
      BY <3>1 DEF VersionsIdentify
    <3>3. x \in inserted
      BY <3>1, <3>2, <1>1 DEF KeysOf
    <3>4. Key(x) \notin KeysOf(batch.updates)
      <4>1. ASSUME NEW u \in batch.updates, Key(u) = Key(x) PROVE FALSE
        <5>1. u = x
          BY <4>1, <1>1 DEF UniqueKeys
        <5>2. PICK q \in read : Key(q) = Key(u) /\ q.version # u.version
          BY <4>1, <1>1
        <5>3. q = x
          BY <5>1, <5>2, <3>1, <3>2 DEF UniqueKeys
        <5>4. QED BY <5>1, <5>2, <5>3
      <4>2. QED BY <4>1 DEF KeysOf
    <3>5. QED BY <3>3, <3>4, <1>2
  <2>4. QED BY <2>1, <2>2, <2>3 DEF KeysOf
<1>5. ASSUME NEW x \in table \ read PROVE Key(x) \notin KeysOf(read)
  BY <1>5 DEF KeysOf, UniqueKeys
<1>6. ASSUME NEW x \in table \ read PROVE x \in rowsAfter(table, batch)
  <2>1. Key(x) \notin KeysOf(batch.updates)
    BY <1>1, <1>5 DEF KeysOf
  <2>2. x \in inserted
    BY <1>1, <1>5
  <2>3. QED BY <2>1, <2>2, <1>2
<1>7. read = table => ~BatchRefused(table, batch)
  BY <1>1 DEF BatchRefused, KeysOf
<1>8. ASSUME ~BatchRefused(table, batch), NEW x \in table \ read, NEW o \in objects, Key(o) = Key(x)
      PROVE  FALSE
  <2>1. o \in batch.inserts /\ Key(x) \notin batch.deletes
    BY <1>1, <1>5, <1>8
  <2>2. QED BY <2>1, <1>8 DEF BatchRefused
<1>9. QED BY <1>3, <1>4, <1>6, <1>7, <1>8 DEF batch, KeysOf
------------------------------------------------------------------------------
(* The inductive invariant *)

\* The bundles of a leaf hub: keys are unique in each, versions in all of them,
\* and every version is older than the next change.
LogIsCoherent ==
    \A h \in Hubs :
        /\ \A i \in DOMAIN bundles[h] : UniqueKeys(bundles[h][i])
        /\ \A i, j \in DOMAIN bundles[h] : VersionsIdentify(bundles[h][i], bundles[h][j])
        /\ \A i \in DOMAIN bundles[h] : \A o \in bundles[h][i] : o.version < Len(bundles[h])

ResourceTypeOK ==
    /\ kind \in Kinds
    /\ bundles \in [Hubs -> Seq(SUBSET Resource)]
    /\ \A h \in Hubs : Len(bundles[h]) > 0
    /\ offset \in [Hubs -> Nat]
    /\ pending \in [Hubs -> Nat]
    /\ handled \in [Hubs -> Nat]
    /\ DOMAIN job = Hubs
    /\ DOMAIN payloads = Hubs
    /\ DOMAIN written = Hubs
    /\ DOMAIN whole = Hubs

\* The positions are those of bundles sent.
PositionsExist ==
    \A h \in Hubs :
        /\ offset[h] <= Len(bundles[h])
        /\ pending[h] <= Len(bundles[h])
        /\ handled[h] <= Len(bundles[h])
        /\ job[h] # Nil => job[h].at \in DOMAIN bundles[h]

\* Every row is a resource of some bundle, and its key is that of no other row.
RowsWereSent ==
    \A h \in Hubs :
        /\ UniqueKeys(payloads[h])
        /\ \A r \in payloads[h] : \E i \in DOMAIN bundles[h] : r \in bundles[h][i]

\* The rows that a handler read are still there, all of them if it read them all.
ReadIsCurrent ==
    \A h \in Hubs : job[h] # Nil =>
        /\ job[h].read \subseteq payloads[h]
        /\ job[h].whole => job[h].read = payloads[h]

ResourceInv ==
    /\ ResourceTypeOK
    /\ LogIsCoherent
    /\ PositionsExist
    /\ RowsWereSent
    /\ ReadIsCurrent
    /\ RowsAreOfWrittenBundle

\* Sending another set of resources keeps the bundles coherent, when the resources
\* are those of the last bundle or have the new version.
LEMMA SendingKeepsInvariant ==
    ASSUME ResourceInv, NEW h \in Hubs, NEW objects \in SUBSET Resource,
           LeafHubSends(h, objects), UniqueKeys(objects),
           \A o \in objects : o \in resources(h) \/ o.version = Len(bundles[h]),
           \A a, b \in objects : a.version = Len(bundles[h]) /\ b.version = Len(bundles[h]) => a = b
    PROVE  ResourceInv'
<1> USE DEF ResourceInv
<1>1. /\ bundles' = [bundles EXCEPT ![h] = Append(bundles[h], objects)]
      /\ UNCHANGED <<kind, offset, pending, job, handled, payloads, written, whole, failures>>
  BY DEF LeafHubSends
<1>2. /\ bundles[h] \in Seq(SUBSET Resource)
      /\ Len(bundles[h]) \in Nat
      /\ DOMAIN bundles[h] = 1..Len(bundles[h])
      /\ Len(bundles[h]) \in DOMAIN bundles[h]
  BY DEF ResourceTypeOK
<1>3. /\ bundles'[h] = Append(bundles[h], objects)
      /\ \A g \in Hubs : g # h => bundles'[g] = bundles[g]
  BY <1>1 DEF ResourceTypeOK
<1>4. /\ bundles'[h] \in Seq(SUBSET Resource)
      /\ Len(bundles'[h]) = Len(bundles[h]) + 1
      /\ DOMAIN bundles'[h] = 1..(Len(bundles[h]) + 1)
      /\ \A i \in DOMAIN bundles[h] : bundles'[h][i] = bundles[h][i]
      /\ bundles'[h][Len(bundles[h]) + 1] = objects
  BY <1>2, <1>3
<1>5. ResourceTypeOK'
  BY <1>1, <1>2, <1>3, <1>4 DEF ResourceTypeOK
<1>6. ASSUME NEW S, UniqueKeys(S) PROVE \A a, b \in S : Key(a)' = Key(b)' => a = b
  BY <1>1, <1>6 DEF UniqueKeys, Key, getGenericResourceUID, managedClusterKey, localResourceKey
<1>7. LogIsCoherent'
  <2> SUFFICES ASSUME NEW g \in Hubs
               PROVE  /\ \A i \in DOMAIN bundles'[g] : UniqueKeys(bundles[g][i])'
                      /\ \A i, j \in DOMAIN bundles'[g] : VersionsIdentify(bundles'[g][i], bundles'[g][j])
                      /\ \A i \in DOMAIN bundles'[g] : \A o \in bundles'[g][i] : o.version < Len(bundles'[g])
    BY DEF LogIsCoherent
  <2>1. CASE g # h
    <3>1. \A i \in DOMAIN bundles'[g] : UniqueKeys(bundles[g][i])'
      <4> SUFFICES ASSUME NEW i \in DOMAIN bundles'[g]
                   PROVE  \A a, b \in bundles'[g][i] : Key(a)' = Key(b)' => a = b
        BY DEF UniqueKeys
      <4>1. UniqueKeys(bundles'[g][i])
        BY <2>1, <1>3 DEF LogIsCoherent
      <4>2. QED BY <4>1, <1>6
    <3>2. QED BY <3>1, <2>1, <1>3 DEF LogIsCoherent
  <2>2. CASE g = h
    <3>1. \A o \in resources(h) : o.version < Len(bundles[h])
      BY <1>2 DEF LogIsCoherent, resources
    <3>2. \A i \in DOMAIN bundles'[h] : UniqueKeys(bundles[h][i])'
      <4> SUFFICES ASSUME NEW i \in DOMAIN bundles'[h]
                   PROVE  \A a, b \in bundles'[h][i] : Key(a)' = Key(b)' => a = b
        BY DEF UniqueKeys
      <4>1. UniqueKeys(bundles'[h][i])
        BY <1>2, <1>4 DEF LogIsCoherent
      <4>2. QED BY <4>1, <1>6
    <3>3. \A i \in DOMAIN bundles[h] : /\ VersionsIdentify(bundles[h][i], objects)
                                     /\ VersionsIdentify(objects, bundles[h][i])
      <4> SUFFICES ASSUME NEW i \in DOMAIN bundles[h], NEW a \in bundles[h][i], NEW b \in objects,
                          a.version = b.version
                   PROVE  a = b
        BY DEF VersionsIdentify
      <4>1. a.version < Len(bundles[h]) /\ a.version \in Nat
        BY <1>2 DEF LogIsCoherent, Resource
      <4>2. b \in resources(h)
        BY <4>1, <1>2
      <4>3. QED BY <4>2, <1>2 DEF LogIsCoherent, VersionsIdentify, resources
    <3>4. VersionsIdentify(objects, objects)
      <4> SUFFICES ASSUME NEW a \in objects, NEW b \in objects, a.version = b.version PROVE a = b
        BY DEF VersionsIdentify
      <4>1. CASE a \in resources(h) /\ b \in resources(h)
        BY <4>1, <1>2 DEF LogIsCoherent, VersionsIdentify, resources
      <4>2. CASE a.version = Len(bundles[h]) \/ b.version = Len(bundles[h])
        BY <4>2
      <4>3. QED BY <4>1, <4>2
    <3>5. \A i, j \in DOMAIN bundles'[h] : VersionsIdentify(bundles'[h][i], bundles'[h][j])
      <4> SUFFICES ASSUME NEW i \in DOMAIN bundles'[h], NEW j \in DOMAIN bundles'[h]
                   PROVE  VersionsIdentify(bundles'[h][i], bundles'[h][j])
        OBVIOUS
      <4>1. /\ i \in DOMAIN bundles[h] \/ i = Len(bundles[h]) + 1
            /\ j \in DOMAIN bundles[h] \/ j = Len(bundles[h]) + 1
        BY <1>2, <1>4
      <4>2. CASE i \in DOMAIN bundles[h] /\ j \in DOMAIN bundles[h]
        BY <4>2, <1>4 DEF LogIsCoherent
      <4>3. CASE i \in DOMAIN bundles[h] /\ j = Len(bundles[h]) + 1
        BY <4>3, <1>4, <3>3
      <4>4. CASE i = Len(bundles[h]) + 1 /\ j \in DOMAIN bundles[h]
        BY <4>4, <1>4, <3>3
      <4>5. CASE i = Len(bundles[h]) + 1 /\ j = Len(bundles[h]) + 1
        BY <4>5, <1>4, <3>4
      <4>6. QED BY <4>1, <4>2, <4>3, <4>4, <4>5
    <3>6. ASSUME NEW i \in DOMAIN bundles'[h], NEW o \in bundles'[h][i] PROVE o.version < Len(bundles'[h])
      <4>1. CASE i \in DOMAIN bundles[h]
        <5>1. o.version < Len(bundles[h]) /\ o.version \in Nat
          BY <4>1, <1>2, <1>4, <3>6 DEF LogIsCoherent, Resource
        <5>2. QED BY <5>1, <1>2, <1>4
      <4>2. CASE i = Len(bundles[h]) + 1
        <5>1. o \in objects /\ o.version \in Nat
          BY <4>2, <1>4, <3>6 DEF Resource
        <5>2. o.version < Len(bundles[h]) \/ o.version = Len(bundles[h])
          BY <5>1, <3>1
        <5>3. QED BY <5>1, <5>2, <1>2, <1>4
      <4>3. QED BY <4>1, <4>2, <1>2, <1>4
    <3>7. QED BY <2>2, <3>2, <3>5, <3>6
  <2>3. QED BY <2>1, <2>2
<1>8. PositionsExist'
  <2> SUFFICES ASSUME NEW g \in Hubs
               PROVE  /\ offset[g] <= Len(bundles'[g])
                      /\ pending[g] <= Len(bundles'[g])
                      /\ handled[g] <= Len(bundles'[g])
                      /\ job[g] # Nil => job[g].at \in DOMAIN bundles'[g]
    BY <1>1 DEF PositionsExist
  <2>1. CASE g # h
    BY <2>1, <1>3 DEF PositionsExist
  <2>2. CASE g = h
    <3>1. offset[h] \in Nat /\ pending[h] \in Nat /\ handled[h] \in Nat
      BY DEF ResourceTypeOK
    <3>2. QED BY <2>2, <3>1, <1>2, <1>4 DEF PositionsExist
  <2>3. QED BY <2>1, <2>2
<1>9. ReadIsCurrent' /\ RowsAreOfWrittenBundle'
  BY <1>1 DEF ReadIsCurrent, RowsAreOfWrittenBundle
<1>10. RowsWereSent'
  <2> SUFFICES ASSUME NEW g \in Hubs
               PROVE  /\ UniqueKeys(payloads[g])'
                      /\ \A r \in payloads[g] : \E i \in DOMAIN bundles'[g] : r \in bundles'[g][i]
    BY <1>1 DEF RowsWereSent
  <2>1. UniqueKeys(payloads[g])'
    <3>1. UniqueKeys(payloads[g]) /\ payloads'[g] = payloads[g]
      BY <1>1 DEF RowsWereSent
    <3>2. \A a, b \in payloads[g] : Key(a)' = Key(b)' => a = b
      BY <3>1, <1>6
    <3>3. QED BY <3>1, <3>2 DEF UniqueKeys
  <2>2. CASE g # h
    BY <2>1, <2>2, <1>3 DEF RowsWereSent
  <2>3. CASE g = h
    <3>1. \A i \in DOMAIN bundles[h] : i \in DOMAIN bundles'[h] /\ bundles'[h][i] = bundles[h][i]
      BY <1>2, <1>4
    <3>2. QED BY <2>1, <2>3, <3>1 DEF RowsWereSent
  <2>4. QED BY <2>2, <2>3
<1>11. QED BY <1>5, <1>7, <1>8, <1>9, <1>10

\* Steps of the manager leave the bundles as they are.
LEMMA LogStaysCoherent ==
    ASSUME LogIsCoherent, UNCHANGED <<kind, bundles>>
    PROVE  LogIsCoherent'
<1>1. ASSUME NEW h \in Hubs, NEW i \in DOMAIN bundles[h] PROVE UniqueKeys(bundles[h][i])'
  <2>1. \A a : Key(a)' = Key(a)
    BY DEF Key, getGenericResourceUID, managedClusterKey, localResourceKey
  <2>2. UniqueKeys(bundles[h][i])
    BY <1>1 DEF LogIsCoherent
  <2>3. QED BY <2>1, <2>2 DEF UniqueKeys
<1>2. QED BY <1>1 DEF LogIsCoherent, VersionsIdentify

\* Steps that write no rows keep the rows as they were sent.
LEMMA RowsStaySent ==
    ASSUME RowsWereSent, UNCHANGED <<kind, bundles, payloads>>
    PROVE  RowsWereSent'
<1>1. \A a : Key(a)' = Key(a)
  BY DEF Key, getGenericResourceUID, managedClusterKey, localResourceKey
<1>2. QED BY <1>1 DEF RowsWereSent, UniqueKeys

\* The changes that a leaf hub makes keep the invariant.
LEMMA LeafHubKeepsInvariant ==
    ASSUME ResourceInv, NEW h \in Hubs, LeafHub(h)
    PROVE  ResourceInv'
<1>1. /\ resources(h) \in SUBSET Resource
      /\ UniqueKeys(resources(h))
      /\ \A o \in resources(h) : o.version < Len(bundles[h])
      /\ Len(bundles[h]) \in Nat
  <2>1. bundles[h] \in Seq(SUBSET Resource) /\ Len(bundles[h]) > 0
    BY DEF ResourceInv, ResourceTypeOK
  <2>2. Len(bundles[h]) \in DOMAIN bundles[h] /\ Len(bundles[h]) \in Nat
    BY <2>1
  <2>3. QED BY <2>1, <2>2 DEF ResourceInv, LogIsCoherent, resources
<1>2. ASSUME NEW name \in Names, NEW origin \in Origins \cup {NoOrigin},
             CreateResource(h, name, origin)
      PROVE  ResourceInv'
  <2> DEFINE now == Len(bundles[h])
             o == [name |-> name, uid |-> now, origin |-> origin, version |-> now]
  <2>1. /\ Key(o) \notin KeysOf(resources(h))
        /\ LeafHubSends(h, resources(h) \cup {o})
    BY <1>2 DEF CreateResource
  <2>2. o \in Resource /\ o.version = Len(bundles[h])
    BY <1>1 DEF Resource
  <2> HIDE DEF o
  <2>3. UniqueKeys(resources(h) \cup {o})
    BY <2>1, <1>1 DEF UniqueKeys, KeysOf
  <2>4. \A a, b \in resources(h) \cup {o} :
            a.version = Len(bundles[h]) /\ b.version = Len(bundles[h]) => a = b
    BY <1>1, <2>2
  <2>5. QED BY <1>1, <2>1, <2>2, <2>3, <2>4, SendingKeepsInvariant
<1>3. ASSUME NEW r \in resources(h), EditResource(h, r) PROVE ResourceInv'
  <2> DEFINE o == [r EXCEPT !.version = Len(bundles[h])]
  <2>1. LeafHubSends(h, (resources(h) \ {r}) \cup {o})
    BY <1>3 DEF EditResource
  <2>2. o \in Resource /\ o.version = Len(bundles[h]) /\ Key(o) = Key(r)
    BY <1>1, <1>3 DEF Resource, Key, getGenericResourceUID, managedClusterKey, localResourceKey
  <2> HIDE DEF o
  <2>3. UniqueKeys((resources(h) \ {r}) \cup {o})
    BY <2>2, <1>1, <1>3 DEF UniqueKeys
  <2>4. \A a, b \in (resources(h) \ {r}) \cup {o} :
            a.version = Len(bundles[h]) /\ b.version = Len(bundles[h]) => a = b
    BY <1>1, <2>2
  <2>5. QED BY <1>1, <2>1, <2>2, <2>3, <2>4, SendingKeepsInvariant
<1>4. ASSUME NEW r \in resources(h), DeleteResource(h, r) PROVE ResourceInv'
  <2>1. LeafHubSends(h, resources(h) \ {r})
    BY <1>4 DEF DeleteResource
  <2>2. UniqueKeys(resources(h) \ {r})
    BY <1>1 DEF UniqueKeys
  <2>3. \A a, b \in resources(h) \ {r} :
            a.version = Len(bundles[h]) /\ b.version = Len(bundles[h]) => a = b
    BY <1>1
  <2>4. QED BY <1>1, <2>1, <2>2, <2>3, SendingKeepsInvariant
<1>5. QED BY <1>2, <1>3, <1>4 DEF LeafHub

\* The batch of a handler makes the rows the bundle, apart from rows it did not
\* read, and leaves other leaf hubs alone.
LEMMA BatchKeepsInvariant ==
    ASSUME ResourceInv, NEW h \in Hubs, sendBatch(h)
    PROVE  ResourceInv'
<1> DEFINE objects == bundles[h][job[h].at]
           unread == payloads[h] \ job[h].read
<1>1. /\ job[h] # Nil
      /\ ~BatchRefused(payloads[h], diff(objects, job[h].read))
      /\ payloads' = [payloads EXCEPT ![h] = rowsAfter(payloads[h], diff(objects, job[h].read))]
      /\ written' = [written EXCEPT ![h] = objects]
      /\ whole' = [whole EXCEPT ![h] = job[h].whole]
      /\ job' = [job EXCEPT ![h] = Nil]
      /\ handled' = [handled EXCEPT ![h] = IF handled[h] < job[h].at THEN job[h].at ELSE handled[h]]
           \/ handled' = handled
      /\ pending' = [pending EXCEPT ![h] = IF pending[h] = job[h].at THEN 0 ELSE pending[h]]
           \/ pending' = pending
      /\ UNCHANGED <<kind, bundles, offset>>
  BY DEF sendBatch, tableAfter, pendingAfter
<1>2. /\ job[h].at \in DOMAIN bundles[h]
      /\ job[h].read \subseteq payloads[h]
      /\ job[h].whole => unread = {}
  <2>1. job[h].at \in DOMAIN bundles[h]
    BY <1>1 DEF ResourceInv, PositionsExist
  <2>2. job[h].read \subseteq payloads[h] /\ (job[h].whole => job[h].read = payloads[h])
    BY <1>1 DEF ResourceInv, ReadIsCurrent
  <2>3. QED BY <2>1, <2>2
<1>3. UniqueKeys(payloads[h]) /\ UniqueKeys(objects) /\ VersionsIdentify(payloads[h], objects)
  <2>1. UniqueKeys(payloads[h]) /\ \A r \in payloads[h] : \E i \in DOMAIN bundles[h] : r \in bundles[h][i]
    BY DEF ResourceInv, RowsWereSent
  <2>2. QED BY <2>1, <1>2 DEF ResourceInv, LogIsCoherent, VersionsIdentify
<1>4. /\ rowsAfter(payloads[h], diff(objects, job[h].read)) = objects \cup unread
      /\ \A r \in unread : Key(r) \notin KeysOf(objects)
  <2>1. job[h].read \in SUBSET payloads[h]
    BY <1>2
  <2> HIDE DEF objects
  <2>2. QED BY <2>1, <1>1, <1>3, DiffMakesBundle
<1>5. /\ job[h].at \in Nat
      /\ job[h].at <= Len(bundles[h])
  BY <1>2 DEF ResourceInv, ResourceTypeOK
<1>6. ResourceTypeOK'
  <2>1. handled' \in [Hubs -> Nat] /\ pending' \in [Hubs -> Nat]
    BY <1>1, <1>5 DEF ResourceInv, ResourceTypeOK
  <2>2. DOMAIN job' = Hubs /\ DOMAIN payloads' = Hubs /\ DOMAIN written' = Hubs /\ DOMAIN whole' = Hubs
    BY <1>1 DEF ResourceInv, ResourceTypeOK
  <2>3. QED BY <2>1, <2>2, <1>1 DEF ResourceInv, ResourceTypeOK
<1>7. LogIsCoherent'
  BY <1>1, LogStaysCoherent DEF ResourceInv
<1>8. PositionsExist'
  BY <1>1, <1>2, <1>5 DEF ResourceInv, PositionsExist, ResourceTypeOK
<1>9. /\ payloads'[h] = objects \cup unread
      /\ \A g \in Hubs : g # h => payloads'[g] = payloads[g]
  BY <1>1, <1>4 DEF ResourceInv, ResourceTypeOK
<1>10. ReadIsCurrent'
  BY <1>1, <1>9 DEF ResourceInv, ReadIsCurrent, ResourceTypeOK
<1>11. RowsAreOfWrittenBundle'
  BY <1>1, <1>2, <1>9 DEF ResourceInv, RowsAreOfWrittenBundle, ResourceTypeOK
<1>12. RowsWereSent'
  <2>1. \A a : Key(a)' = Key(a)
    BY <1>1 DEF Key, getGenericResourceUID, managedClusterKey, localResourceKey
  <2>2. UniqueKeys(objects \cup unread)
    BY <1>3, <1>4 DEF UniqueKeys, KeysOf
  <2>3. \A g \in Hubs : UniqueKeys(payloads[g])'
    BY <2>1, <2>2, <1>9 DEF ResourceInv, RowsWereSent, UniqueKeys
  <2>4. \A g \in Hubs : \A r \in payloads'[g] : \E i \in DOMAIN bundles[g] : r \in bundles[g][i]
    BY <1>2, <1>9 DEF ResourceInv, RowsWereSent
  <2>5. QED BY <2>3, <2>4, <1>1 DEF RowsWereSent
<1>13. QED BY <1>6, <1>7, <1>8, <1>10, <1>11, <1>12 DEF ResourceInv

\* "whatever is in the db and cannot be found in the bundle has to be deleted from
\* the db": the rows of every leaf hub are the last bundle written, with nothing
\* else when its handler read all rows, for any leaf hubs, resources, kinds,
\* failures, broken reads and restarts.
THEOREM RowsFollowBundles == ResourceSpec => []RowsAreOfWrittenBundle
<1>1. ResourceInit => ResourceInv
  <2> SUFFICES ASSUME ResourceInit PROVE ResourceInv
    OBVIOUS
  <2>1. \A h \in Hubs : Len(bundles[h]) = 1 /\ DOMAIN bundles[h] = {1} /\ bundles[h][1] = {}
    <3>1. Len(<<{}>>) = 1 /\ DOMAIN <<{}>> = {1} /\ <<{}>>[1] = {}
      OBVIOUS
    <3>2. QED BY <3>1 DEF ResourceInit
  <2>2. ResourceTypeOK
    BY <2>1 DEF ResourceInit, ResourceTypeOK
  <2>3. LogIsCoherent
    BY <2>1 DEF LogIsCoherent, UniqueKeys, VersionsIdentify
  <2>4. PositionsExist
    <3> SUFFICES ASSUME NEW h \in Hubs
                 PROVE  /\ offset[h] <= 1 /\ pending[h] <= 1 /\ handled[h] <= 1
                        /\ job[h] # Nil => job[h].at \in {1}
      BY <2>1 DEF PositionsExist
    <3>1. offset[h] = 0 /\ pending[h] = 0 /\ handled[h] = 0 /\ job[h] = Nil
      BY DEF ResourceInit
    <3>2. QED BY <3>1, <2>1
  <2>5. RowsWereSent /\ ReadIsCurrent /\ RowsAreOfWrittenBundle
    BY DEF ResourceInit, RowsWereSent, UniqueKeys, ReadIsCurrent, RowsAreOfWrittenBundle
  <2>6. QED BY <2>2, <2>3, <2>4, <2>5 DEF ResourceInv
<1>2. ResourceInv /\ [ResourceNext]_resourceVars => ResourceInv'
  <2> SUFFICES ASSUME ResourceInv, [ResourceNext]_resourceVars PROVE ResourceInv'
    OBVIOUS
  <2>1. ASSUME NEW h \in Hubs, Receive(h) PROVE ResourceInv'
    <3>1. /\ UNCHANGED <<kind, bundles, job, handled, payloads, written, whole>>
          /\ offset[h] < Len(bundles[h])
          /\ offset' = [offset EXCEPT ![h] = offset[h] + 1]
          /\ pending' = [pending EXCEPT ![h] = offset[h] + 1]
          /\ offset[h] \in Nat /\ Len(bundles[h]) \in Nat
      BY <2>1 DEF Receive, ResourceInv, ResourceTypeOK
    <3>2. LogIsCoherent' /\ RowsWereSent'
      BY <3>1, LogStaysCoherent, RowsStaySent DEF ResourceInv
    <3>3. ResourceTypeOK' /\ PositionsExist'
      BY <3>1 DEF ResourceInv, ResourceTypeOK, PositionsExist
    <3>4. QED BY <3>1, <3>2, <3>3 DEF ResourceInv, ReadIsCurrent, RowsAreOfWrittenBundle
  <2>2. ASSUME NEW h \in Hubs, startHandler(h) PROVE ResourceInv'
    <3>1. /\ UNCHANGED <<kind, bundles, offset, pending, handled, payloads, written, whole>>
          /\ pending[h] # 0
          /\ \E read \in SUBSET payloads[h], all \in BOOLEAN :
                /\ all => read = payloads[h]
                /\ job' = [job EXCEPT ![h] = [at |-> pending[h], read |-> read, whole |-> all]]
      <4>1. CASE job' = [job EXCEPT ![h] = [at |-> pending[h], read |-> payloads[h], whole |-> TRUE]]
        BY <2>2, <4>1 DEF startHandler
      <4>2. CASE \E read \in SUBSET payloads[h] :
                   job' = [job EXCEPT ![h] = [at |-> pending[h], read |-> read,
                                              whole |-> read = payloads[h]]]
        <5>1. PICK read \in SUBSET payloads[h] :
                   job' = [job EXCEPT ![h] = [at |-> pending[h], read |-> read,
                                              whole |-> read = payloads[h]]]
          BY <4>2
        <5>2. (read = payloads[h]) \in BOOLEAN
          OBVIOUS
        <5>3. QED BY <2>2, <5>1, <5>2, Zenon DEF startHandler
      <4>3. QED BY <2>2, <4>1, <4>2 DEF startHandler
    <3>2. LogIsCoherent' /\ RowsWereSent'
      BY <3>1, LogStaysCoherent, RowsStaySent DEF ResourceInv
    <3>3. pending[h] \in DOMAIN bundles[h]
      BY <3>1 DEF ResourceInv, ResourceTypeOK, PositionsExist
    <3>4. ResourceTypeOK' /\ PositionsExist' /\ ReadIsCurrent'
      BY <3>1, <3>3 DEF ResourceInv, ResourceTypeOK, PositionsExist, ReadIsCurrent
    <3>5. QED BY <3>1, <3>2, <3>4 DEF ResourceInv, RowsAreOfWrittenBundle
  <2>3. ASSUME NEW h \in Hubs, handlerFails(h) PROVE ResourceInv'
    <3>1. /\ UNCHANGED <<kind, bundles, offset, pending, handled, payloads, written, whole>>
          /\ job' = [job EXCEPT ![h] = Nil]
      BY <2>3 DEF handlerFails
    <3>2. LogIsCoherent' /\ RowsWereSent'
      BY <3>1, LogStaysCoherent, RowsStaySent DEF ResourceInv
    <3>3. QED BY <3>1, <3>2 DEF ResourceInv, ResourceTypeOK, PositionsExist, ReadIsCurrent, RowsAreOfWrittenBundle
  <2>4. CASE RestartHandlers
    <3>1. /\ UNCHANGED <<kind, bundles, handled, payloads, written, whole>>
          /\ offset' \in [Hubs -> 0..(MaxChanges + 1)]
          /\ \A h \in Hubs : offset'[h] <= handled[h]
          /\ pending' = [h \in Hubs |-> 0]
          /\ job' = [h \in Hubs |-> Nil]
      BY <2>4 DEF RestartHandlers
    <3>2. LogIsCoherent' /\ RowsWereSent'
      BY <3>1, LogStaysCoherent, RowsStaySent DEF ResourceInv
    <3>3. offset' \in [Hubs -> Nat]
      BY <3>1, ResourceAssumption
    <3>4. \A h \in Hubs : Len(bundles[h]) \in Nat /\ handled[h] \in Nat /\ offset'[h] \in Nat
      BY <3>3 DEF ResourceInv, ResourceTypeOK
    <3>5. \A h \in Hubs : offset'[h] <= Len(bundles[h])
      BY <3>1, <3>4 DEF ResourceInv, PositionsExist
    <3>6. PositionsExist'
      BY <3>1, <3>4, <3>5 DEF ResourceInv, PositionsExist
    <3>7. QED BY <3>1, <3>2, <3>3, <3>6 DEF ResourceInv, ResourceTypeOK, ReadIsCurrent, RowsAreOfWrittenBundle
  <2>5. CASE UNCHANGED resourceVars
    <3>1. LogIsCoherent' /\ RowsWereSent'
      BY <2>5, LogStaysCoherent, RowsStaySent DEF ResourceInv, resourceVars
    <3>2. QED BY <2>5, <3>1 DEF resourceVars, ResourceInv, ResourceTypeOK, PositionsExist, ReadIsCurrent, RowsAreOfWrittenBundle
  <2>6. ASSUME NEW h \in Hubs, Handler(h) PROVE ResourceInv'
    BY <2>2, <2>6, BatchKeepsInvariant
       DEF Handler, handleResourcesBundle, handleManagedClustersBundle, handleLocalObjectsBundle
  <2>7. QED BY <2>1, <2>3, <2>4, <2>5, <2>6, LeafHubKeepsInvariant DEF ResourceNext
<1>3. ResourceInv => RowsAreOfWrittenBundle
  BY DEF ResourceInv
<1>4. QED BY <1>1, <1>2, <1>3, PTL DEF ResourceSpec
==============================================================================
