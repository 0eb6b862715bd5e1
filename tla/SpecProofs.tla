------------------------------- MODULE SpecProofs -------------------------------
(***************************************************************************)
(* Proofs about SpecToDB for every number of UIDs, versions and faults and *)
(* every set of contents.                                                  *)
(*                                                                         *)
(* Neither NoOrphanRow nor RowOfLiveObjectKept is inductive: both rest on  *)
(* how far the informer cache may lag.  The finalizer is removed only by   *)
(* the controller, and only when the copy it works on is the latest, so    *)
(* the cache has passed every version with a row's finalizer by then       *)
(* (FinalizerHolds); and a row is written only for a UID that the cache    *)
(* has seen, so it does not show an older state than that UID's            *)
(* (RowsAreSeen).                                                          *)
(***************************************************************************)
EXTENDS SpecToDB, TLAPS

PCs == {"idle", "add_finalizer", "delete_gone", "delete", "remove_finalizer", "query", "insert",
        "update", "return"}

SpecTypeOK ==
    /\ log \in Seq(Object \cup {NoObject}) /\ Len(log) \in Nat \ {0}
    /\ created \in Nat
    /\ seen \in 1..Len(log)
    /\ queued \in BOOLEAN
    /\ pc \in PCs
    /\ at \in 1..Len(log)
    /\ rows \in [Uids -> Row \cup {NoObject}]
    /\ faults \in Nat

\* UIDs are given out in order, and a resource that is being deleted stays so.
HistoryIsSound ==
    /\ \A i \in 1..Len(log) : log[i] # NoObject => log[i].uid <= created
    /\ \A u \in Uids : rows[u] # NoObject => u <= created
    /\ \A i, j \in 1..Len(log) :
        /\ i <= j /\ log[i] # NoObject /\ log[j] # NoObject
        /\ log[i].uid = log[j].uid /\ log[i].deleting
        => log[j].deleting

\* From the cache's version on, a resource with the finalizer that is not being
\* deleted is there, with the finalizer.
FinalizerHolds ==
    \A i \in seen..Len(log) :
        log[i] # NoObject /\ log[i].finalizer /\ ~log[i].deleting =>
            \A j \in i..Len(log) :
                log[j] # NoObject /\ log[j].uid = log[i].uid /\ log[j].finalizer

\* Versions from the cache's on are of the UID u.
SeenIs(u) == \A i \in seen..Len(log) : log[i] # NoObject /\ log[i].uid = u

\* A resource with a row was seen before the row was written.
RowsAreSeen == api # NoObject /\ rows[api.uid] # NoObject => SeenIs(api.uid)

\* What the reconciler relies on at each of its calls.
AtCall ==
    /\ pc \in {"add_finalizer", "delete_gone", "delete", "remove_finalizer"} => at <= seen
    /\ pc = "add_finalizer" => instance # NoObject /\ ~instance.deleting
    /\ pc \in {"query", "insert", "update"} =>
        /\ instance # NoObject
        /\ api # NoObject /\ api.uid = instance.uid /\ api.finalizer
        /\ SeenIs(instance.uid)
    /\ pc = "update" => rows[instance.uid] # NoObject
    /\ pc \in {"delete_gone", "delete"} =>
        (api # NoObject /\ ~api.deleting => rows[api.uid] = NoObject)
    /\ pc \in {"delete", "remove_finalizer"} => instance # NoObject /\ instance.deleting
    /\ pc = "remove_finalizer" => \A u \in Uids : ~RowIsLive(u)

IInv ==
    /\ SpecTypeOK
    /\ HistoryIsSound
    /\ FinalizerHolds
    /\ RowsAreSeen
    /\ AtCall
    /\ NoOrphanRow
    /\ RowOfLiveObjectKept

------------------------------------------------------------------------------
(* Changes of the resource in the API server *)

\* The history after a change.
LEMMA AppendLog ==
    ASSUME SpecTypeOK, NEW x \in Object \cup {NoObject}, Write(x)
    PROVE  /\ log' \in Seq(Object \cup {NoObject})
           /\ Len(log') = Len(log) + 1 /\ Len(log') \in Nat \ {0}
           /\ \A i \in 1..Len(log) : log'[i] = log[i]
           /\ log'[Len(log) + 1] = x
           /\ api' = x
           /\ api \in Object \cup {NoObject}
BY DEF SpecTypeOK, Write, api

\* The kinds of changes: the resource is changed, disappears or is created.
Changed(x) ==
    /\ x \in Object /\ api # NoObject /\ x.uid = api.uid
    /\ api.finalizer => x.finalizer
    /\ api.deleting => x.deleting
    /\ created' = created

Disappears(x) ==
    /\ x = NoObject
    /\ \A u \in Uids : ~RowIsLive(u)
    /\ \A i \in seen..Len(log) :
        ~(log[i] # NoObject /\ log[i].finalizer /\ ~log[i].deleting)
    /\ created' = created

Created(x) ==
    /\ x \in Object /\ api = NoObject /\ x.uid = created + 1
    /\ created' = created + 1

\* Rows and the cache stay in step with the API server across its changes.
LEMMA ApiStep ==
    ASSUME IInv, NEW x, Changed(x) \/ Disappears(x) \/ Created(x), Write(x),
           rows' = rows, seen' = seen
    PROVE  /\ HistoryIsSound' /\ FinalizerHolds' /\ RowsAreSeen'
           /\ NoOrphanRow' /\ RowOfLiveObjectKept'
           /\ created' \in Nat /\ log' \in Seq(Object \cup {NoObject}) /\ Len(log') \in Nat \ {0}
           /\ seen' \in 1..Len(log')
<1> DEFINE n == Len(log)
<1>1. x \in Object \cup {NoObject} /\ NoObject \notin Object
  BY NoObjectAssumption DEF Changed, Disappears, Created
<1>2. /\ log' \in Seq(Object \cup {NoObject})
      /\ Len(log') = n + 1 /\ Len(log') \in Nat \ {0} /\ n \in Nat \ {0}
      /\ \A i \in 1..n : log'[i] = log[i]
      /\ log'[n + 1] = x /\ api' = x
      /\ api = log[n] /\ api \in Object \cup {NoObject}
      /\ \A i \in 1..n : log[i] \in Object \cup {NoObject}
  BY <1>1, AppendLog DEF IInv, SpecTypeOK, api
<1>3. created \in Nat /\ created' \in Nat /\ created <= created'
  BY DEF IInv, SpecTypeOK, Changed, Disappears, Created
<1>4. seen \in 1..n /\ seen' = seen /\ rows' = rows
  BY DEF IInv, SpecTypeOK
<1>5. \A o \in Object : o.uid \in Uids /\ o.uid \in Nat /\ o.deleting \in BOOLEAN /\ o.finalizer \in BOOLEAN
  BY SpecToDBAssumption DEF Object, Uids
<1> HIDE DEF n
<1>6. HistoryIsSound'
  <2>1. \A i \in 1..Len(log') : log'[i] # NoObject => log'[i].uid <= created'
    <3>1. SUFFICES ASSUME NEW i \in 1..n + 1, log'[i] # NoObject PROVE log'[i].uid <= created'
      BY <1>2
    <3>2. CASE i = n + 1
      <4>1. x \in Object /\ log'[i] = x
        BY <1>1, <1>2, <3>1, <3>2
      <4>2. CASE Changed(x)
        <5>1. api \in Object /\ api.uid <= created
          BY <1>2, <4>2 DEF Changed, IInv, HistoryIsSound, n
        <5>. QED
          BY <1>3, <4>1, <4>2, <5>1 DEF Changed
      <4>3. CASE Created(x)
        BY <1>3, <4>1, <4>3 DEF Created
      <4>. QED
        BY <1>1, <4>1, <4>2, <4>3 DEF Disappears
    <3>3. CASE i \in 1..n
      <4>1. log[i] \in Object /\ log'[i] = log[i] /\ log[i].uid <= created
        BY <1>2, <3>1, <3>3 DEF IInv, HistoryIsSound, n
      <4>. QED
        BY <1>3, <1>5, <4>1
    <3>. QED
      BY <1>2, <3>2, <3>3
  <2>2. \A u \in Uids : rows'[u] # NoObject => u <= created'
    BY <1>3, <1>4, SpecToDBAssumption DEF IInv, HistoryIsSound, Uids
  <2>3. ASSUME NEW i \in 1..n + 1, NEW j \in 1..n + 1,
               i <= j, log'[i] # NoObject, log'[j] # NoObject, log'[i].uid = log'[j].uid,
               log'[i].deleting
        PROVE  log'[j].deleting
    <3>1. CASE j \in 1..n
      <4>1. i \in 1..n
        BY <1>2, <2>3, <3>1
      <4>. QED
        BY <1>2, <2>3, <3>1, <4>1 DEF IInv, HistoryIsSound, n
    <3>2. CASE j = n + 1 /\ i \in 1..n
      <4>1. x \in Object /\ log'[j] = x /\ log[i] \in Object /\ log[i].uid = x.uid /\ log[i].deleting
        BY <1>1, <1>2, <2>3, <3>2
      <4>2. CASE Changed(x)
        <5>1. i <= n /\ n \in 1..n
          BY <1>2, <3>2
        <5>2. log[i] # NoObject /\ log[n] # NoObject /\ log[i].uid = log[n].uid
          BY <1>1, <1>2, <4>1, <4>2 DEF Changed
        <5>3. log[n].deleting
          BY <3>2, <4>1, <5>1, <5>2 DEF IInv, HistoryIsSound, n
        <5>. QED
          BY <1>2, <4>1, <4>2, <5>3 DEF Changed
      <4>3. CASE Created(x)
        <5>1. log[i].uid <= created
          BY <1>1, <3>2, <4>1 DEF IInv, HistoryIsSound, n
        <5>. QED
          BY <1>3, <4>1, <4>3, <5>1 DEF Created
      <4>. QED
        BY <1>1, <4>1, <4>2, <4>3 DEF Disappears
    <3>3. CASE i = n + 1
      <4>1. j = n + 1
        BY <1>2, <2>3, <3>3
      <4>. QED
        BY <2>3, <3>3, <4>1
    <3>. QED
      BY <1>2, <3>1, <3>2, <3>3
  <2>. QED
    BY <1>2, <2>1, <2>2, <2>3 DEF HistoryIsSound
<1>7. FinalizerHolds'
  <2>1. SUFFICES ASSUME NEW i \in seen..n + 1, log'[i] # NoObject, log'[i].finalizer, ~log'[i].deleting,
                        NEW j \in i..n + 1
                 PROVE  log'[j] # NoObject /\ log'[j].uid = log'[i].uid /\ log'[j].finalizer
    BY <1>2, <1>4 DEF FinalizerHolds
  <2>2. CASE i = n + 1
    BY <1>2, <2>1, <2>2
  <2>3. CASE i \in seen..n
    <3>1. i \in 1..n /\ log'[i] = log[i] /\ log[i] \in Object
      BY <1>2, <1>4, <2>1, <2>3
    <3>2. \A k \in i..n : log[k] # NoObject /\ log[k].uid = log[i].uid /\ log[k].finalizer
      BY <2>1, <2>3, <3>1 DEF IInv, FinalizerHolds, n
    <3>3. n \in i..n
      BY <1>2, <1>4, <2>3
    <3>4. CASE j \in i..n
      <4>1. j \in 1..n
        BY <1>2, <3>1, <3>4
      <4>. QED
        BY <1>2, <3>1, <3>2, <3>4, <4>1
    <3>5. CASE j = n + 1
      <4>1. api # NoObject /\ api.uid = log[i].uid /\ api.finalizer
        BY <1>2, <3>2, <3>3
      <4>2. Changed(x)
        BY <2>1, <2>3, <3>1, <4>1 DEF Created, Disappears, n
      <4>. QED
        BY <1>1, <1>2, <3>1, <3>5, <4>1, <4>2 DEF Changed
    <3>. QED
      BY <1>2, <1>4, <2>1, <2>3, <3>4, <3>5
  <2>. QED
    BY <1>2, <1>4, <2>1, <2>2, <2>3
<1>8. RowsAreSeen'
  <2>1. SUFFICES ASSUME x # NoObject, rows[x.uid] # NoObject,
                        NEW i \in seen..n + 1
                 PROVE  log'[i] # NoObject /\ log'[i].uid = x.uid
    BY <1>2, <1>4 DEF RowsAreSeen, SeenIs
  <2>2. x \in Object /\ x.uid \in Uids
    BY <1>1, <1>5, <2>1
  <2>3. ~Created(x)
    <3>1. x.uid <= created
      BY <2>1, <2>2 DEF IInv, HistoryIsSound
    <3>. QED
      BY <1>3, <3>1 DEF Created
  <2>4. api # NoObject /\ x.uid = api.uid
    BY <2>1, <2>3 DEF Changed, Disappears
  <2>5. \A k \in seen..n : log[k] # NoObject /\ log[k].uid = x.uid
    BY <2>1, <2>4 DEF IInv, RowsAreSeen, SeenIs, n
  <2>6. CASE i \in seen..n
    <3>1. i \in 1..n
      BY <1>2, <1>4, <2>6
    <3>. QED
      BY <1>2, <2>5, <2>6, <3>1
  <2>7. CASE i = n + 1
    BY <1>2, <2>1, <2>7
  <2>. QED
    BY <1>2, <1>4, <2>6, <2>7
<1>9. NoOrphanRow'
  <2>1. SUFFICES ASSUME NEW u \in Uids, RowIsLive(u)
                 PROVE  x # NoObject /\ x.uid = u /\ x.finalizer
    BY <1>2, <1>4 DEF NoOrphanRow, RowIsLive
  <2>2. api # NoObject /\ api.uid = u /\ api.finalizer
    BY <2>1 DEF IInv, NoOrphanRow
  <2>3. Changed(x)
    BY <2>1, <2>2 DEF Disappears, Created
  <2>. QED
    BY <1>1, <2>2, <2>3 DEF Changed
<1>10. RowOfLiveObjectKept'
  <2>1. SUFFICES ASSUME x # NoObject, ~x.deleting, rows[x.uid] # NoObject
                 PROVE  ~rows[x.uid].deleted
    BY <1>2, <1>4 DEF RowOfLiveObjectKept
  <2>2. x \in Object /\ x.uid \in Uids
    BY <1>1, <1>5, <2>1
  <2>3. ~Created(x)
    <3>1. x.uid <= created
      BY <2>1, <2>2 DEF IInv, HistoryIsSound
    <3>. QED
      BY <1>3, <3>1 DEF Created
  <2>4. api # NoObject /\ x.uid = api.uid /\ ~api.deleting
    BY <2>1, <2>3 DEF Changed, Disappears
  <2>. QED
    BY <2>1, <2>4 DEF IInv, RowOfLiveObjectKept
<1>11. seen' \in 1..Len(log')
  BY <1>2, <1>4
<1>. QED
  BY <1>2, <1>3, <1>6, <1>7, <1>8, <1>9, <1>10, <1>11

\* A change by a user, who does not remove the finalizer, disturbs no call.
LEMMA UserWrite ==
    ASSUME IInv, NEW x, Changed(x) \/ Disappears(x) \/ Created(x), Write(x),
           x = NoObject => ~api.finalizer,
           UNCHANGED <<seen, queued, pc, at, rows, faults>>
    PROVE  IInv'
<1> DEFINE n == Len(log)
<1>1. /\ HistoryIsSound' /\ FinalizerHolds' /\ RowsAreSeen'
      /\ NoOrphanRow' /\ RowOfLiveObjectKept'
      /\ created' \in Nat /\ log' \in Seq(Object \cup {NoObject}) /\ Len(log') \in Nat \ {0}
      /\ seen' \in 1..Len(log')
  BY ApiStep
<1>2. x \in Object \cup {NoObject} /\ NoObject \notin Object
  BY NoObjectAssumption DEF Changed, Disappears, Created
<1>3. /\ Len(log') = n + 1 /\ n \in Nat \ {0}
      /\ \A i \in 1..n : log'[i] = log[i]
      /\ log'[n + 1] = x /\ api' = x
      /\ at \in 1..n /\ seen \in 1..n
  BY <1>2, AppendLog DEF IInv, SpecTypeOK
<1>4. SpecTypeOK'
  BY <1>1, <1>3 DEF IInv, SpecTypeOK
<1>5. instance' = instance
  BY <1>3 DEF instance
<1> HIDE DEF n
<1>6. pc \in {"query", "insert", "update"} =>
        x # NoObject /\ x.uid = instance.uid /\ x.finalizer /\ SeenIs(instance.uid)'
  <2>1. SUFFICES ASSUME pc \in {"query", "insert", "update"}
                 PROVE  x # NoObject /\ x.uid = instance.uid /\ x.finalizer /\ SeenIs(instance.uid)'
    OBVIOUS
  <2>2. api # NoObject /\ api.uid = instance.uid /\ api.finalizer /\ SeenIs(instance.uid)
    BY <2>1 DEF IInv, AtCall
  <2>3. Changed(x)
    BY <2>2 DEF Created, Disappears
  <2>4. x # NoObject /\ x.uid = instance.uid /\ x.finalizer
    BY <1>2, <2>2, <2>3 DEF Changed
  <2>5. ASSUME NEW i \in seen..n + 1 PROVE log'[i] # NoObject /\ log'[i].uid = instance.uid
    <3>1. CASE i \in seen..n
      <4>1. i \in 1..n
        BY <1>3, <3>1
      <4>. QED
        BY <1>3, <2>2, <3>1, <4>1 DEF SeenIs, n
    <3>2. CASE i = n + 1
      BY <1>3, <2>4, <3>2
    <3>. QED
      BY <1>3, <3>1, <3>2
  <2>. QED
    BY <1>3, <1>5, <2>4, <2>5 DEF SeenIs
<1>7. pc \in {"delete_gone", "delete"} => (x # NoObject /\ ~x.deleting => rows[x.uid] = NoObject)
  <2>1. CASE Changed(x)
    BY <2>1 DEF Changed, IInv, AtCall
  <2>2. CASE Created(x)
    <3>1. x.uid \in Uids /\ created \in Nat /\ x.uid = created + 1
      BY <2>2 DEF Created, Object, IInv, SpecTypeOK
    <3>2. ~(x.uid <= created)
      BY <3>1
    <3>. QED
      BY <3>1, <3>2 DEF IInv, HistoryIsSound
  <2>. QED
    BY <2>1, <2>2 DEF Disappears
<1>8. AtCall'
  BY <1>3, <1>5, <1>6, <1>7 DEF IInv, AtCall, RowIsLive
<1>. QED
  BY <1>1, <1>4, <1>8 DEF IInv

\* Users create, edit, label and delete the resource.
LEMMA UsersIInv ==
    ASSUME IInv, Users
    PROVE  IInv'
<1>1. /\ api \in Object \cup {NoObject} /\ NoObject \notin Object
      /\ created \in Nat /\ seen \in 1..Len(log)
  BY NoObjectAssumption DEF IInv, SpecTypeOK, api
<1>2. CASE LabelLocal
  <2> DEFINE x == [api EXCEPT !.local = ~api.local]
  <2>1. Write(x) /\ api \in Object /\ UNCHANGED <<seen, queued, pc, at, rows, faults>> /\ created' = created
    BY <1>1, <1>2 DEF LabelLocal, UserStep
  <2>2. Changed(x) /\ x # NoObject
    BY <1>1, <2>1 DEF Changed, Object
  <2> HIDE DEF x
  <2>. QED
    BY <2>1, <2>2, UserWrite
<1>3. ASSUME NEW spec \in Specs, Edit(spec) PROVE IInv'
  <2> DEFINE x == [api EXCEPT !.spec = spec]
  <2>1. Write(x) /\ api \in Object /\ UNCHANGED <<seen, queued, pc, at, rows, faults>> /\ created' = created
    BY <1>1, <1>3 DEF Edit, UserStep
  <2>2. Changed(x) /\ x # NoObject
    BY <1>1, <2>1 DEF Changed, Object
  <2> HIDE DEF x
  <2>. QED
    BY <2>1, <2>2, UserWrite
<1>4. ASSUME NEW spec \in Specs, Create(spec) PROVE IInv'
  <2> DEFINE x == [uid |-> created + 1, spec |-> spec, finalizer |-> FALSE,
                   deleting |-> FALSE, local |-> FALSE]
  <2>1. Write(x) /\ api = NoObject /\ UNCHANGED <<seen, queued, pc, at, rows, faults>>
        /\ created' = created + 1 /\ created < MaxUids
    BY <1>4 DEF Create, UserStep
  <2>2. created + 1 \in Uids
    BY <1>1, <2>1, SpecToDBAssumption DEF Uids
  <2>3. x \in Object /\ x.uid = created + 1
    BY <2>2 DEF Object
  <2> HIDE DEF x
  <2>4. Created(x) /\ x # NoObject
    BY <1>1, <2>1, <2>3 DEF Created
  <2>. QED
    BY <2>1, <2>4, UserWrite
<1>5. CASE Delete
  <2>1. api \in Object /\ UNCHANGED <<seen, queued, pc, at, rows, faults>> /\ created' = created
    BY <1>1, <1>5 DEF Delete, UserStep
  <2>2. CASE api.finalizer
    <3> DEFINE x == [api EXCEPT !.deleting = TRUE]
    <3>1. Write(x)
      BY <1>5, <2>2 DEF Delete
    <3>2. Changed(x) /\ x # NoObject
      BY <1>1, <2>1 DEF Changed, Object
    <3> HIDE DEF x
    <3>. QED
      BY <2>1, <3>1, <3>2, UserWrite
  <2>3. CASE ~api.finalizer
    <3>1. Write(NoObject)
      BY <1>5, <2>3 DEF Delete
    <3>2. \A u \in Uids : ~RowIsLive(u)
      BY <2>3 DEF IInv, NoOrphanRow
    <3>3. ASSUME NEW i \in seen..Len(log), log[i] # NoObject, log[i].finalizer, ~log[i].deleting
          PROVE  FALSE
      <4>1. Len(log) \in i..Len(log)
        BY <1>1, <3>3 DEF IInv, SpecTypeOK
      <4>. QED
        BY <2>3, <3>3, <4>1 DEF IInv, FinalizerHolds, api
    <3>4. Disappears(NoObject)
      BY <2>1, <3>2, <3>3 DEF Disappears
    <3>. QED
      BY <2>1, <2>3, <3>1, <3>4, UserWrite
  <2>. QED
    BY <2>2, <2>3
<1>. QED
  BY <1>2, <1>3, <1>4, <1>5 DEF Users

------------------------------------------------------------------------------
(* The cache, the reconciler and its interruptions *)

\* Steps that leave the API server and the rows alone; the cache may move on.
LEMMA CacheStep ==
    ASSUME IInv, UNCHANGED <<log, created, rows>>, seen' \in seen..Len(log)
    PROVE  /\ HistoryIsSound' /\ FinalizerHolds' /\ RowsAreSeen'
           /\ NoOrphanRow' /\ RowOfLiveObjectKept'
           /\ seen' \in 1..Len(log) /\ api' = api
<1>1. seen \in 1..Len(log) /\ Len(log) \in Nat /\ seen' \in 1..Len(log)
      /\ \A i \in seen'..Len(log) : i \in seen..Len(log)
  BY DEF IInv, SpecTypeOK
<1>2. HistoryIsSound' /\ NoOrphanRow' /\ RowOfLiveObjectKept' /\ api' = api
  BY DEF IInv, HistoryIsSound, NoOrphanRow, RowOfLiveObjectKept, RowIsLive, api
<1>3. FinalizerHolds'
  BY <1>1 DEF IInv, FinalizerHolds
<1>4. RowsAreSeen'
  BY <1>1, <1>2 DEF IInv, RowsAreSeen, SeenIs
<1>. QED
  BY <1>1, <1>2, <1>3, <1>4

\* A watch event reaches the cache while a reconciliation is under way.
LEMMA DeliverIInv ==
    ASSUME IInv, Deliver
    PROVE  IInv'
<1>1. /\ UNCHANGED <<log, created, rows, pc, at, faults>> /\ seen' = seen + 1
      /\ seen' \in seen..Len(log) /\ seen \in Nat
      /\ queued' \in BOOLEAN
  <2>1. queued \in BOOLEAN /\ seen \in 1..Len(log) /\ Len(log) \in Nat
    BY DEF IInv, SpecTypeOK
  <2>2. queued' \in BOOLEAN
    BY DEF Deliver
  <2>. QED
    BY <2>1, <2>2 DEF Deliver, apiVars
<1>2. /\ HistoryIsSound' /\ FinalizerHolds' /\ RowsAreSeen'
      /\ NoOrphanRow' /\ RowOfLiveObjectKept' /\ seen' \in 1..Len(log) /\ api' = api
  BY <1>1, CacheStep
<1>3. SpecTypeOK'
  BY <1>1, <1>2 DEF IInv, SpecTypeOK
<1>4. instance' = instance /\ \A u : SeenIs(u) => SeenIs(u)'
  <2>1. \A i \in seen + 1..Len(log) : i \in seen..Len(log)
    BY <1>1
  <2>. QED
    BY <1>1, <2>1 DEF instance, SeenIs
<1>5. at <= seen => at <= seen'
  BY <1>1 DEF IInv, SpecTypeOK
<1>6. AtCall'
  BY <1>1, <1>2, <1>4, <1>5 DEF IInv, AtCall, RowIsLive
<1>. QED
  BY <1>2, <1>3, <1>6 DEF IInv

\* The copy in the cache decides the first call.
LEMMA ReconcileIInv ==
    ASSUME IInv, Reconcile
    PROVE  IInv'
<1> DEFINE object == log[seen]
<1>1. /\ UNCHANGED <<log, created, rows, seen, faults>> /\ at' = seen /\ queued' = FALSE
      /\ seen \in 1..Len(log) /\ seen \in seen..Len(log) /\ seen <= seen
      /\ Len(log) \in seen..Len(log)
  BY DEF Reconcile, apiVars, IInv, SpecTypeOK
<1>2. /\ HistoryIsSound' /\ FinalizerHolds' /\ RowsAreSeen'
      /\ NoOrphanRow' /\ RowOfLiveObjectKept' /\ api' = api
  BY <1>1, CacheStep
<1>3. instance' = object
  BY <1>1 DEF instance
<1>4. /\ pc' \in PCs
      /\ pc' \in {"add_finalizer", "delete_gone", "delete", "query", "return"}
      /\ pc' = "add_finalizer" => object # NoObject /\ ~object.deleting
      /\ pc' = "delete_gone" => object = NoObject
      /\ pc' = "delete" => object # NoObject /\ object.deleting
      /\ pc' = "query" => object # NoObject /\ object.finalizer /\ ~object.deleting
  BY DEF Reconcile, isInstanceBeingDeleted, PCs
<1>5. SpecTypeOK'
  BY <1>1, <1>4 DEF IInv, SpecTypeOK
<1>6. pc' = "query" => /\ api # NoObject /\ api.uid = object.uid /\ api.finalizer
                       /\ SeenIs(object.uid)
  BY <1>1, <1>4 DEF IInv, FinalizerHolds, SeenIs, api
<1>7. pc' \in {"delete_gone", "delete"} /\ api # NoObject /\ ~api.deleting =>
        rows[api.uid] = NoObject
  <2>1. SUFFICES ASSUME pc' \in {"delete_gone", "delete"}, api # NoObject, ~api.deleting,
                        rows[api.uid] # NoObject
                 PROVE  FALSE
    OBVIOUS
  <2>2. object # NoObject /\ object.uid = api.uid
    BY <1>1, <2>1 DEF IInv, RowsAreSeen, SeenIs
  <2>3. object.deleting
    BY <1>4, <2>1, <2>2
  <2>4. Len(log) \in 1..Len(log) /\ seen <= Len(log)
    BY <1>1 DEF IInv, SpecTypeOK
  <2>. QED
    BY <1>1, <2>1, <2>2, <2>3, <2>4 DEF IInv, HistoryIsSound, api
<1>8. SeenIs(object.uid) => SeenIs(instance.uid)'
  BY <1>1, <1>3 DEF SeenIs
<1>9. AtCall'
  BY <1>1, <1>2, <1>3, <1>4, <1>6, <1>7, <1>8 DEF AtCall
<1>. QED
  BY <1>2, <1>5, <1>9 DEF IInv

\* The reconciliation ends, or is interrupted and the request put back; a restart
\* lists the cache anew.
LEMMA EndIInv ==
    ASSUME IInv, Return \/ CallFails \/ Restart
    PROVE  IInv'
<1>1. /\ UNCHANGED <<log, created, rows, at>> /\ pc' = "idle"
      /\ seen' \in {seen, Len(log)} /\ queued' \in BOOLEAN /\ faults' \in Nat
  <2>1. queued \in BOOLEAN /\ faults \in Nat
    BY DEF IInv, SpecTypeOK
  <2>2. CASE Return
    BY <2>1, <2>2 DEF Return, apiVars
  <2>3. CASE CallFails
    BY <2>1, <2>3 DEF CallFails, Requeue, apiVars
  <2>4. CASE Restart
    <3>1. queued' \in BOOLEAN
      BY <2>4 DEF Restart
    <3>. QED
      BY <2>1, <2>4, <3>1 DEF Restart, apiVars
  <2>. QED
    BY <2>2, <2>3, <2>4
<1>2. seen' \in seen..Len(log)
  BY <1>1 DEF IInv, SpecTypeOK
<1>3. /\ HistoryIsSound' /\ FinalizerHolds' /\ RowsAreSeen'
      /\ NoOrphanRow' /\ RowOfLiveObjectKept' /\ seen' \in 1..Len(log)
  BY <1>1, <1>2, CacheStep
<1>4. SpecTypeOK'
  BY <1>1, <1>3 DEF IInv, SpecTypeOK, PCs
<1>5. AtCall'
  BY <1>1 DEF AtCall
<1>. QED
  BY <1>3, <1>4, <1>5 DEF IInv

\* The finalizer is added to the latest version, which the cache then holds, or the
\* update is refused.
LEMMA addFinalizerIInv ==
    ASSUME IInv, addFinalizer
    PROVE  IInv'
<1>1. /\ pc = "add_finalizer" /\ UNCHANGED <<created, seen, rows, faults>>
      /\ instance # NoObject /\ ~instance.deleting /\ at <= seen
      /\ seen \in 1..Len(log) /\ at \in 1..Len(log) /\ Len(log) \in Nat
      /\ instance \in Object
  BY DEF addFinalizer, IInv, AtCall, SpecTypeOK, instance
<1>2. CASE at # Len(log)
  <2>1. UNCHANGED <<log, at>> /\ pc' = "idle" /\ queued' = TRUE
    BY <1>2 DEF addFinalizer, Requeue
  <2>2. /\ HistoryIsSound' /\ FinalizerHolds' /\ RowsAreSeen'
        /\ NoOrphanRow' /\ RowOfLiveObjectKept'
    BY <1>1, <2>1, CacheStep
  <2>3. SpecTypeOK' /\ AtCall'
    BY <1>1, <2>1 DEF IInv, SpecTypeOK, AtCall, PCs
  <2>. QED
    BY <2>2, <2>3 DEF IInv
<1>3. CASE at = Len(log)
  <2> DEFINE x == [instance EXCEPT !.finalizer = TRUE]
             n == Len(log)
  <2>1. Write(x) /\ at' = n + 1 /\ pc' = "query" /\ queued' = queued
    BY <1>3 DEF addFinalizer
  <2>2. api = instance /\ seen = n
    BY <1>1, <1>3 DEF api, instance
  <2>3. x \in Object /\ x.uid = api.uid /\ x.finalizer /\ x.deleting = api.deleting
    BY <1>1, <2>2 DEF Object
  <2> HIDE DEF x, n
  <2>4. Changed(x) /\ x # NoObject
    BY <1>1, <2>2, <2>3, NoObjectAssumption DEF Changed
  <2>5. /\ HistoryIsSound' /\ FinalizerHolds' /\ RowsAreSeen'
        /\ NoOrphanRow' /\ RowOfLiveObjectKept'
        /\ created' \in Nat /\ log' \in Seq(Object \cup {NoObject}) /\ Len(log') \in Nat \ {0}
        /\ seen' \in 1..Len(log')
    BY <1>1, <2>1, <2>4, ApiStep
  <2>6. /\ Len(log') = n + 1 /\ \A i \in 1..n : log'[i] = log[i]
        /\ log'[n + 1] = x /\ api' = x
    BY <2>1, <2>3, AppendLog DEF IInv, n
  <2>7. SpecTypeOK'
    BY <1>1, <2>1, <2>5, <2>6 DEF IInv, SpecTypeOK, PCs
  <2>8. instance' = x
    BY <2>1, <2>6 DEF instance
  <2>9. SeenIs(instance.uid)'
    <3>1. SUFFICES ASSUME NEW i \in n..n + 1 PROVE log'[i] # NoObject /\ log'[i].uid = x.uid
      BY <1>1, <2>2, <2>6, <2>8 DEF SeenIs
    <3>2. CASE i = n
      <4>1. log'[i] = api
        BY <1>1, <2>6, <3>2 DEF api, n
      <4>. QED
        BY <1>1, <2>2, <2>3, <4>1
    <3>3. CASE i = n + 1
      BY <2>4, <2>6, <3>3
    <3>. QED
      BY <1>1, <3>1, <3>2, <3>3 DEF n
  <2>10. AtCall'
    BY <2>1, <2>3, <2>4, <2>6, <2>8, <2>9 DEF AtCall
  <2>. QED
    BY <2>5, <2>7, <2>10 DEF IInv
<1>. QED
  BY <1>2, <1>3

\* The resource disappears when its last finalizer is removed: no row is live then,
\* and the cache holds the version that is being deleted.
LEMMA removeFinalizerIInv ==
    ASSUME IInv, removeFinalizer
    PROVE  IInv'
<1>1. /\ pc = "remove_finalizer" /\ UNCHANGED <<created, seen, at, rows, faults>>
      /\ instance # NoObject /\ instance.deleting /\ at <= seen
      /\ seen \in 1..Len(log) /\ at \in 1..Len(log) /\ Len(log) \in Nat
      /\ \A u \in Uids : ~RowIsLive(u)
  BY DEF removeFinalizer, IInv, AtCall, SpecTypeOK
<1>2. CASE at # Len(log)
  <2>1. UNCHANGED log /\ pc' = "idle" /\ queued' = TRUE
    BY <1>2 DEF removeFinalizer, Requeue
  <2>2. /\ HistoryIsSound' /\ FinalizerHolds' /\ RowsAreSeen'
        /\ NoOrphanRow' /\ RowOfLiveObjectKept'
    BY <1>1, <2>1, CacheStep
  <2>3. SpecTypeOK' /\ AtCall'
    BY <1>1, <2>1 DEF IInv, SpecTypeOK, AtCall, PCs
  <2>. QED
    BY <2>2, <2>3 DEF IInv
<1>3. CASE at = Len(log)
  <2>1. Write(NoObject) /\ pc' = "return" /\ queued' = queued
    BY <1>3 DEF removeFinalizer
  <2>2. seen = at /\ \A i \in seen..Len(log) : i = at
    BY <1>1, <1>3
  <2>3. Disappears(NoObject)
    BY <1>1, <2>2 DEF Disappears, instance
  <2>4. /\ HistoryIsSound' /\ FinalizerHolds' /\ RowsAreSeen'
        /\ NoOrphanRow' /\ RowOfLiveObjectKept'
        /\ created' \in Nat /\ log' \in Seq(Object \cup {NoObject}) /\ Len(log') \in Nat \ {0}
        /\ seen' \in 1..Len(log')
    BY <1>1, <2>1, <2>3, ApiStep
  <2>5. at' \in 1..Len(log')
    BY <1>1, <2>2, <2>4
  <2>6. SpecTypeOK' /\ AtCall'
    BY <1>1, <2>1, <2>4, <2>5 DEF IInv, SpecTypeOK, AtCall, PCs
  <2>. QED
    BY <2>4, <2>6 DEF IInv
<1>. QED
  BY <1>2, <1>3

\* Marking every row with the name: no row that exists appears or disappears.
LEMMA MarkedRows ==
    ASSUME SpecTypeOK, deleteFromTheDatabase
    PROVE  /\ rows' \in [Uids -> Row \cup {NoObject}]
           /\ \A u \in Uids : rows'[u] # NoObject <=> rows[u] # NoObject
           /\ \A u \in Uids : ~RowIsLive(u)'
<1>1. rows \in [Uids -> Row \cup {NoObject}] /\ NoObject \notin Row
  BY NoObjectAssumption DEF SpecTypeOK
<1>2. ASSUME NEW u \in Uids
      PROVE  /\ rows'[u] \in Row \cup {NoObject}
             /\ rows'[u] # NoObject <=> rows[u] # NoObject
             /\ rows'[u] = NoObject \/ rows'[u].deleted
  <2>1. CASE RowIsLive(u)
    <3>1. rows[u] \in Row /\ rows'[u] = [rows[u] EXCEPT !.deleted = TRUE]
      BY <1>1, <2>1 DEF RowIsLive, deleteFromTheDatabase
    <3>2. rows'[u] \in Row /\ rows'[u].deleted
      BY <3>1 DEF Row
    <3>. QED
      BY <1>1, <3>1, <3>2
  <2>2. CASE ~RowIsLive(u)
    BY <1>1, <2>2 DEF RowIsLive, deleteFromTheDatabase
  <2>. QED
    BY <2>1, <2>2
<1>. QED
  BY <1>2 DEF deleteFromTheDatabase, RowIsLive

\* Rows are marked only when the resource has none or is being deleted.
LEMMA DeleteIInv ==
    ASSUME IInv, deleteGone \/ deleteBeforeFinalizer
    PROVE  IInv'
<1>1. /\ UNCHANGED <<log, created, seen, queued, at, faults>> /\ deleteFromTheDatabase
      /\ pc \in {"delete_gone", "delete"}
      /\ pc' = "return" \/ (pc = "delete" /\ pc' = "remove_finalizer")
  BY DEF deleteGone, deleteBeforeFinalizer, apiVars
<1>2. /\ rows' \in [Uids -> Row \cup {NoObject}]
      /\ \A u \in Uids : rows'[u] # NoObject <=> rows[u] # NoObject
      /\ \A u \in Uids : ~RowIsLive(u)'
  BY <1>1, MarkedRows DEF IInv
<1>3. api' = api /\ instance' = instance /\ api \in Object \cup {NoObject}
      /\ \A o \in Object : o.uid \in Uids
  BY <1>1 DEF api, instance, IInv, SpecTypeOK, Object
<1>4. SpecTypeOK'
  BY <1>1, <1>2 DEF IInv, SpecTypeOK, PCs
<1>5. HistoryIsSound' /\ FinalizerHolds'
  BY <1>1, <1>2 DEF IInv, HistoryIsSound, FinalizerHolds
<1>6. RowsAreSeen'
  BY <1>1, <1>2, <1>3 DEF IInv, RowsAreSeen, SeenIs
<1>7. NoOrphanRow'
  BY <1>2 DEF NoOrphanRow
<1>8. RowOfLiveObjectKept'
  BY <1>1, <1>2, <1>3 DEF IInv, AtCall, RowOfLiveObjectKept
<1>9. AtCall'
  BY <1>1, <1>2, <1>3 DEF IInv, AtCall
<1>. QED
  BY <1>4, <1>5, <1>6, <1>7, <1>8, <1>9 DEF IInv

\* The query tells an insert from an update.
LEMMA QuerySpecObjectIInv ==
    ASSUME IInv, QuerySpecObject
    PROVE  IInv'
<1>1. /\ UNCHANGED <<log, created, seen, queued, at, rows, faults>> /\ pc = "query"
      /\ pc' = IF rows[instance.uid] = NoObject THEN "insert" ELSE "update"
      /\ seen \in seen..Len(log)
  BY DEF QuerySpecObject, apiVars, IInv, SpecTypeOK
<1>2. /\ HistoryIsSound' /\ FinalizerHolds' /\ RowsAreSeen'
      /\ NoOrphanRow' /\ RowOfLiveObjectKept' /\ api' = api
  BY <1>1, CacheStep
<1>3. SpecTypeOK'
  BY <1>1 DEF IInv, SpecTypeOK, PCs
<1>4. AtCall'
  BY <1>1, <1>2 DEF IInv, AtCall, instance, SeenIs
<1>. QED
  BY <1>2, <1>3, <1>4 DEF IInv

\* A row is inserted or updated for the resource that exists, held by the finalizer.
LEMMA WriteRowIInv ==
    ASSUME IInv, InsertSpecObject \/ UpdateSpecObject
    PROVE  IInv'
<1> DEFINE u == instance.uid
<1>1. /\ UNCHANGED <<log, created, seen, queued, at, faults>> /\ pc' = "return"
      /\ pc \in {"insert", "update"}
  BY DEF InsertSpecObject, UpdateSpecObject, apiVars
<1>2. /\ instance # NoObject /\ api # NoObject /\ api.uid = u /\ api.finalizer /\ SeenIs(u)
      /\ pc = "update" => rows[u] # NoObject
  BY <1>1 DEF IInv, AtCall
<1>3. /\ instance \in Object /\ u \in Uids /\ instance.spec \in Specs /\ u <= created
      /\ api' = api
  <2>1. instance \in Object /\ at \in 1..Len(log) /\ api' = api
    BY <1>1, <1>2 DEF IInv, SpecTypeOK, instance, api
  <2>. QED
    BY <1>2, <2>1 DEF Object, IInv, HistoryIsSound, instance
<1>4. /\ rows \in [Uids -> Row \cup {NoObject}] /\ NoObject \notin Row
  BY NoObjectAssumption DEF IInv, SpecTypeOK
<1>5. PICK r \in Row : /\ rows' = [rows EXCEPT ![u] = r]
                       /\ pc = "update" => r.deleted = rows[u].deleted
                       /\ pc = "insert" => ~r.deleted
  <2>1. CASE InsertSpecObject
    <3>1. [spec |-> instance.spec, deleted |-> FALSE] \in Row
      BY <1>3 DEF Row
    <3>. QED
      BY <2>1, <3>1 DEF InsertSpecObject
  <2>2. CASE UpdateSpecObject
    <3>1. rows[u] \in Row /\ rows[u] # NoObject /\ pc = "update"
      BY <1>2, <1>3, <1>4, <2>2 DEF UpdateSpecObject
    <3>2. CASE rows' = rows
      <4>1. rows' = [rows EXCEPT ![u] = rows[u]]
        BY <1>3, <1>4, <3>2
      <4>. QED
        BY <3>1, <4>1
    <3>3. CASE rows' = [rows EXCEPT ![u].spec = instance.spec]
      <4>1. rows' = [rows EXCEPT ![u] = [rows[u] EXCEPT !.spec = instance.spec]]
        BY <3>3
      <4>2. PICK b \in Row : b = rows[u]
        BY <3>1
      <4>3. [b EXCEPT !.spec = instance.spec] \in Row /\ [b EXCEPT !.spec = instance.spec].deleted = b.deleted
        BY <1>3 DEF Row
      <4>. QED
        BY <3>1, <4>1, <4>2, <4>3
    <3>. QED
      BY <2>2, <3>2, <3>3 DEF UpdateSpecObject
  <2>. QED
    BY <2>1, <2>2
<1> HIDE DEF u
<1>6. /\ rows' \in [Uids -> Row \cup {NoObject}] /\ rows'[u] = r /\ r # NoObject
      /\ \A v \in Uids : v # u => rows'[v] = rows[v]
  <2>1. rows' = [rows EXCEPT ![u] = r]
    BY <1>5
  <2>. QED
    BY <1>3, <1>4, <2>1
<1>7. SpecTypeOK' /\ AtCall'
  BY <1>1, <1>6 DEF IInv, SpecTypeOK, AtCall, PCs
<1>8. HistoryIsSound' /\ FinalizerHolds'
  BY <1>1, <1>3, <1>6 DEF IInv, HistoryIsSound, FinalizerHolds
<1>9. RowsAreSeen'
  BY <1>1, <1>2, <1>3 DEF RowsAreSeen, SeenIs
<1>10. NoOrphanRow'
  <2>1. SUFFICES ASSUME NEW v \in Uids, RowIsLive(v)' PROVE api.uid = v
    BY <1>2, <1>3 DEF NoOrphanRow
  <2>2. CASE v # u
    <3>1. RowIsLive(v)
      BY <1>6, <2>1, <2>2 DEF RowIsLive
    <3>. QED
      BY <3>1 DEF IInv, NoOrphanRow
  <2>. QED
    BY <1>2, <2>2
<1>11. RowOfLiveObjectKept'
  <2>1. SUFFICES ASSUME ~api.deleting PROVE ~r.deleted
    BY <1>2, <1>3, <1>6 DEF RowOfLiveObjectKept
  <2>2. rows[u] # NoObject => ~rows[u].deleted
    BY <1>2, <2>1 DEF IInv, RowOfLiveObjectKept
  <2>3. CASE pc = "insert"
    BY <1>5, <2>3
  <2>4. CASE pc = "update"
    BY <1>2, <1>5, <2>2, <2>4
  <2>. QED
    BY <1>1, <2>3, <2>4
<1>. QED
  BY <1>7, <1>8, <1>9, <1>10, <1>11 DEF IInv

------------------------------------------------------------------------------
(* The invariant and what it implies *)

\* Before the first resource is created there is nothing to relate.
LEMMA InitIInv == Init => IInv
<1> SUFFICES ASSUME Init PROVE IInv
  OBVIOUS
<1>1. /\ log = <<NoObject>> /\ Len(log) = 1 /\ log[1] = NoObject /\ api = NoObject
      /\ \A i \in 1..Len(log) : log[i] = NoObject
  BY DEF Init, api
<1>2. SpecTypeOK
  <2>1. log \in Seq(Object \cup {NoObject})
    BY <1>1
  <2>2. rows \in [Uids -> Row \cup {NoObject}]
    BY DEF Init
  <2>3. seen \in 1..Len(log) /\ at \in 1..Len(log) /\ created \in Nat /\ faults \in Nat
        /\ Len(log) \in Nat \ {0}
    <3>1. seen = 1 /\ at = 1 /\ created = 0 /\ faults = 0
      BY DEF Init
    <3>2. Len(log) = 1
      BY <1>1
    <3>. QED
      BY ONLY <3>1, <3>2
  <2>4. queued \in BOOLEAN /\ pc \in PCs
    BY DEF Init, PCs
  <2>. QED
    BY <2>1, <2>2, <2>3, <2>4 DEF SpecTypeOK
<1>3. HistoryIsSound /\ FinalizerHolds /\ RowsAreSeen
  BY <1>1 DEF Init, HistoryIsSound, FinalizerHolds, RowsAreSeen
<1>4. AtCall /\ NoOrphanRow /\ RowOfLiveObjectKept
  BY <1>1 DEF Init, AtCall, NoOrphanRow, RowOfLiveObjectKept, RowIsLive
<1>. QED
  BY <1>2, <1>3, <1>4 DEF IInv

\* Every action keeps the invariant.
LEMMA NextIInv == IInv /\ [Next]_vars => IInv'
<1> SUFFICES ASSUME IInv, [Next]_vars PROVE IInv'
  OBVIOUS
<1>1. CASE Users
  BY <1>1, UsersIInv
<1>2. CASE Deliver
  BY <1>2, DeliverIInv
<1>3. CASE Controller
  BY <1>3, ReconcileIInv, addFinalizerIInv, DeleteIInv, removeFinalizerIInv, QuerySpecObjectIInv,
     WriteRowIInv, EndIInv DEF Controller
<1>4. CASE CallFails \/ Restart
  BY <1>4, EndIInv
<1>5. CASE UNCHANGED vars
  <2>1. UNCHANGED <<log, created, seen, queued, pc, at, rows, faults>>
    BY <1>5 DEF vars, apiVars
  <2>2. /\ HistoryIsSound' /\ FinalizerHolds' /\ RowsAreSeen'
        /\ NoOrphanRow' /\ RowOfLiveObjectKept'
    BY <2>1, CacheStep DEF IInv, SpecTypeOK
  <2>3. SpecTypeOK' /\ AtCall'
    BY <2>1 DEF IInv, SpecTypeOK, AtCall, api, instance, SeenIs, RowIsLive
  <2>. QED
    BY <2>2, <2>3 DEF IInv
<1>. QED
  BY <1>1, <1>2, <1>3, <1>4, <1>5 DEF Next

\* It holds in every reachable state.
LEMMA IInvIsInvariant == Spec => []IInv
BY InitIInv, NextIInv, PTL DEF Spec

\* processCR and removeFinalizerAndDelete: a row that is not marked as deleted is of
\* the resource that exists and is held by the finalizer, however far the informer
\* cache lags, whichever calls fail and whenever the process restarts.
THEOREM RowsAreNotOrphaned == Spec => []NoOrphanRow
<1>1. IInv => NoOrphanRow
  BY DEF IInv
<1>. QED
  BY <1>1, IInvIsInvariant, PTL

\* DeleteSpecObject marks by name, and yet never the row of a resource that is not
\* being deleted, such as one created again under the name.
THEOREM LiveRowsAreKept == Spec => []RowOfLiveObjectKept
<1>1. IInv => RowOfLiveObjectKept
  BY DEF IInv
<1>. QED
  BY <1>1, IInvIsInvariant, PTL
==============================================================================
