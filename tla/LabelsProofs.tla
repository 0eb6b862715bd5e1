------------------------------ MODULE LabelsProofs ------------------------------
(***************************************************************************)
(* Proofs about ManagedClusterLabels for every set of clients, clusters,   *)
(* keys, values and patches, every limit of retries and pool size.         *)
(*                                                                         *)
(* NoPatchLost and DeletedOnlyIfAsked are not inductive: a write is made   *)
(* from what an earlier statement read.  What makes it safe is that a row  *)
(* whose version is the one that was read holds what was read.  That is    *)
(* not so for a row without a leaf hub that was filled and inserted again, *)
(* whose versions start over: hence ReachesHub.                            *)
(***************************************************************************)
EXTENDS ManagedClusterLabels, WellFoundedInduction, TLAPS

Patches == [Keys -> Values \cup {Removed, Untouched}]

Request == [pc : {"answered", "select", "selected", "writing"}, cluster : Clusters \cup {Nil},
            patch : Patches, read : Row \cup {Nil}, stamp : Nat, attempts : Nat]

\* The types of the variables that requests and the watcher write.
LabelsTypeOK ==
    /\ row \in [Clusters -> Row \cup {Nil}]
    /\ clock \in Nat
    /\ request \in [Clients -> Request]
    /\ \A p \in Clients : request[p].pc # "answered" => request[p].cluster \in Clusters
    /\ trim \in Entry \cup {Nil}
    /\ intent \in [Clusters -> Patches]

\* A row without a leaf hub, next to the same cluster's row with it.
IsRefused(c) == c \in DOMAIN FilledAs /\ row[FilledAs[c]] # Nil

\* What a request read is what the row holds, unless a version was written since.
ReadIsCurrent(r) ==
    r.pc \in {"selected", "writing"} /\ r.read # Nil =>
        \/ IsRefused(r.cluster)
        \/ /\ row[r.cluster] # Nil
           /\ r.read.version <= row[r.cluster].version
           /\ r.read.version = row[r.cluster].version =>
                r.read.labels = row[r.cluster].labels /\ r.read.deleted = row[r.cluster].deleted

ReadsAreCurrent == \A p \in Clients : ReadIsCurrent(request[p])

\* The keys the watcher keeps are among the row's, unless a version was written since.
EntryIsCurrent(e) ==
    /\ e.pc \in {"status", "update"} =>
        /\ e.cluster \in Named
        /\ row[e.cluster] # Nil
        /\ e.version <= row[e.cluster].version
        /\ e.version = row[e.cluster].version => e.deleted \subseteq row[e.cluster].deleted
    /\ e.pc \in {"name", "fill"} => e.cluster \in DOMAIN FilledAs

TrimIsCurrent == trim # Nil => EntryIsCurrent(trim)

\* Nothing was asked of a cluster without a row, or what was asked went with the row.
NoRowUnasked == \A c \in Clusters : row[c] = Nil => intent[c] = EmptyPatch

IInv ==
    /\ LabelsTypeOK
    /\ ReadsAreCurrent
    /\ TrimIsCurrent
    /\ NoRowUnasked
    /\ NoPatchLost
    /\ DeletedOnlyIfAsked

------------------------------------------------------------------------------
(* The operators the actions are built from *)

\* A bounded set of naturals has a greatest element.
LEMMA MaxOfBounded ==
    ASSUME NEW S \in SUBSET Nat, S # {}, NEW n \in Nat, \A y \in S : y <= n
    PROVE  Max(S) \in S /\ \A y \in S : y <= Max(S)
<1> DEFINE U == {m \in Nat : \A y \in S : y <= m}
<1>1. PICK m \in U : \A k \in U : ~(<<k, m>> \in OpToRel(<, Nat))
  BY WFMin, NatLessThanWellFounded, n \in U, U \subseteq Nat
<1>2. \A k \in U : m <= k
  <2>1. TAKE k \in U
  <2>2. <<k, m>> \in Nat \X Nat /\ <<k, m>>[1] = k /\ <<k, m>>[2] = m
    OBVIOUS
  <2>3. k < m => <<k, m>> \in OpToRel(<, Nat)
    BY ONLY <2>2 DEF OpToRel
  <2>4. ~(k < m)
    BY <1>1, <2>3
  <2>. QED
    BY <2>4
<1>3. m \in S
  <2>1. SUFFICES ASSUME m \notin S PROVE FALSE
    OBVIOUS
  <2>2. PICK y \in S : TRUE
    OBVIOUS
  <2>3. y < m
    BY <2>1
  <2>4. m - 1 \in U
    BY <2>1, <2>3
  <2>. QED
    BY <1>2, <2>4
<1>. QED
  BY <1>3 DEF Max

\* getLabels gives a patch when the document is supported.
LEMMA GetLabelsType ==
    ASSUME NEW c \in Clusters, NEW document \in Documents[c], IsSupported(document)
    PROVE  getLabels(document) \in Patches
<1>1. document \in Seq([key : Keys, op : Values \cup {Removed, Unsupported}])
  BY DocumentsAssumption
<1>2. SUFFICES ASSUME NEW k \in Keys PROVE getLabels(document)[k] \in Values \cup {Removed, Untouched}
  BY DEF getLabels, Patches
<1> DEFINE mine == {i \in DOMAIN document : document[i].key = k}
<1>3. getLabels(document)[k] = IF mine = {} THEN Untouched ELSE document[Max(mine)].op
  BY DEF getLabels
<1>4. ASSUME mine # {} PROVE document[Max(mine)].op \in Values \cup {Removed}
  <2>1. mine \in SUBSET Nat /\ Len(document) \in Nat /\ \A y \in mine : y <= Len(document)
    BY <1>1
  <2>2. Max(mine) \in mine
    BY <1>4, <2>1, MaxOfBounded
  <2>3. PICK i \in DOMAIN document : i = Max(mine)
    BY <2>2
  <2>4. document[i] \in [key : Keys, op : Values \cup {Removed, Unsupported}]
    <3> DEFINE Operation == [key : Keys, op : Values \cup {Removed, Unsupported}]
    <3>1. document \in Seq(Operation)
      BY <1>1
    <3>2. i \in 1..Len(document)
      BY <1>1, <2>3
    <3> HIDE DEF Operation, mine
    <3>3. document[i] \in Operation
      BY <3>1, <3>2
    <3>. QED
      BY <3>3 DEF Operation
  <2>5. document[i].op # Unsupported
    BY <2>3 DEF IsSupported
  <2>. QED
    BY <2>3, <2>4, <2>5
<1>. QED
  BY <1>3, <1>4

\* The INSERT and the UPDATE write rows.
LEMMA InsertedRowType ==
    ASSUME NEW patch \in Patches, NEW stamp \in Nat
    PROVE  insertedRow(patch, stamp) \in Row
BY DEF insertedRow, Row

\* What an UPDATE writes over a row is a row.
LEMMA UpdatedRowType ==
    ASSUME NEW patch \in Patches, NEW stamp \in Nat, NEW read \in Row
    PROVE  updateRow(read, patch, stamp) \in Row
<1>1. \A k \in Keys : (CASE patch[k] \in Values -> patch[k]
                         [] patch[k] = Removed -> NoLabel
                         [] OTHER -> read.labels[k]) \in Values \cup {NoLabel}
  BY DEF Row
<1>. QED
  BY <1>1 DEF updateRow, Row

------------------------------------------------------------------------------
(* How rows change *)

\* A row is inserted, written with a newer version, or moved to its cluster's leaf hub.
RowAdvances(d) ==
    \/ row'[d] = row[d]
    \/ row[d] = Nil /\ row'[d] # Nil
    \/ row[d] # Nil /\ row'[d] # Nil /\ row[d].version < row'[d].version
    \/ d \in DOMAIN FilledAs /\ row[d] # Nil /\ row'[d] = Nil /\ row'[FilledAs[d]] # Nil

\* A row with a leaf hub stays: once refused, a row without one stays refused.
LEMMA RefusedStays ==
    ASSUME \A d \in Clusters : RowAdvances(d), NEW c, IsRefused(c)
    PROVE  IsRefused(c)'
BY LabelsAssumption DEF IsRefused, RowAdvances

\* What a request read stays current when rows advance.
LEMMA ReadSurvives ==
    ASSUME row \in [Clusters -> Row \cup {Nil}], row' \in [Clusters -> Row \cup {Nil}],
           \A d \in Clusters : RowAdvances(d),
           NEW r \in Request, r.pc # "answered" => r.cluster \in Clusters,
           ReadIsCurrent(r)
    PROVE  ReadIsCurrent(r)'
<1>1. SUFFICES ASSUME r.pc \in {"selected", "writing"}, r.read # Nil, ~IsRefused(r.cluster)'
      PROVE  /\ row'[r.cluster] # Nil
             /\ r.read.version <= row'[r.cluster].version
             /\ r.read.version = row'[r.cluster].version =>
                  r.read.labels = row'[r.cluster].labels /\ r.read.deleted = row'[r.cluster].deleted
  BY DEF ReadIsCurrent
<1>2. ~IsRefused(r.cluster)
  BY <1>1, RefusedStays
<1>3. r.cluster \in Clusters
  BY <1>1
<1>4. /\ row[r.cluster] \in Row
      /\ r.read \in Row
      /\ r.read.version <= row[r.cluster].version
      /\ r.read.version = row[r.cluster].version =>
           r.read.labels = row[r.cluster].labels /\ r.read.deleted = row[r.cluster].deleted
  BY <1>1, <1>2, <1>3 DEF ReadIsCurrent, Request
<1>5. CASE row'[r.cluster] = row[r.cluster]
  BY <1>4, <1>5, NilAssumption
<1>6. CASE row'[r.cluster] # Nil /\ row[r.cluster].version < row'[r.cluster].version
  <2>1. row'[r.cluster] \in Row
    BY <1>3, <1>6
  <2>2. /\ r.read.version \in Nat
        /\ row[r.cluster].version \in Nat
        /\ row'[r.cluster].version \in Nat
    BY <1>4, <2>1 DEF Row
  <2>. QED
    BY <1>4, <1>6, <2>2
<1>7. ~(r.cluster \in DOMAIN FilledAs /\ row'[FilledAs[r.cluster]] # Nil)
  BY <1>1 DEF IsRefused
<1>. QED
  BY <1>3, <1>4, <1>5, <1>6, <1>7, NilAssumption DEF RowAdvances

\* What the watcher read stays current when rows advance.
LEMMA EntrySurvives ==
    ASSUME row \in [Clusters -> Row \cup {Nil}], row' \in [Clusters -> Row \cup {Nil}],
           \A d \in Clusters : RowAdvances(d),
           NEW e \in Entry, EntryIsCurrent(e)
    PROVE  EntryIsCurrent(e)'
<1>1. SUFFICES ASSUME e.pc \in {"status", "update"}
      PROVE  /\ row'[e.cluster] # Nil
             /\ e.version <= row'[e.cluster].version
             /\ e.version = row'[e.cluster].version => e.deleted \subseteq row'[e.cluster].deleted
  BY DEF EntryIsCurrent, Named
<1>2. /\ e.cluster \in Clusters \ DOMAIN FilledAs
      /\ row[e.cluster] \in Row
      /\ e.version \in Nat
      /\ e.version <= row[e.cluster].version
      /\ e.version = row[e.cluster].version => e.deleted \subseteq row[e.cluster].deleted
  BY <1>1 DEF EntryIsCurrent, Named, Entry
<1>3. CASE row'[e.cluster] = row[e.cluster]
  BY <1>2, <1>3, NilAssumption
<1>4. CASE row'[e.cluster] # Nil /\ row[e.cluster].version < row'[e.cluster].version
  <2>1. row[e.cluster].version \in Nat /\ row'[e.cluster].version \in Nat
    BY <1>2, <1>4 DEF Row
  <2>. QED
    BY <1>2, <1>4, <2>1
<1>. QED
  BY <1>2, <1>3, <1>4, NilAssumption DEF RowAdvances

------------------------------------------------------------------------------
(* The invariant holds initially and every action preserves it *)

\* Nothing was asked of any cluster.
LEMMA InitIInv == Init => IInv
<1> SUFFICES ASSUME Init PROVE IInv
  OBVIOUS
<1> USE DEF Init
<1>1. EmptyPatch \in Patches
  BY DEF EmptyPatch, Patches
<1>2. LabelsTypeOK
  BY <1>1 DEF LabelsTypeOK, Request, Answered
<1>3. ReadsAreCurrent
  BY DEF ReadsAreCurrent, ReadIsCurrent, Answered
<1>4. TrimIsCurrent /\ NoRowUnasked /\ NoPatchLost /\ DeletedOnlyIfAsked
  BY DEF TrimIsCurrent, NoRowUnasked, NoPatchLost, DeletedOnlyIfAsked, ReachesHub
<1>. QED
  BY <1>2, <1>3, <1>4 DEF IInv

\* A step that only replaces the request of one client.
LEMMA RequestStep ==
    ASSUME IInv, NEW p \in Clients, NEW r \in Request,
           r.pc # "answered" => r.cluster \in Clusters,
           ReadIsCurrent(r),
           request' = [request EXCEPT ![p] = r], clock' \in Nat,
           UNCHANGED <<row, trim, intent>>
    PROVE  IInv'
<1>1. LabelsTypeOK'
  BY DEF IInv, LabelsTypeOK
<1>2. ReadsAreCurrent'
  BY DEF IInv, LabelsTypeOK, ReadsAreCurrent, ReadIsCurrent, IsRefused
<1>3. TrimIsCurrent' /\ NoRowUnasked' /\ NoPatchLost' /\ DeletedOnlyIfAsked'
  BY DEF IInv, TrimIsCurrent, EntryIsCurrent, NoRowUnasked, NoPatchLost, DeletedOnlyIfAsked, ReachesHub
<1>. QED
  BY <1>1, <1>2, <1>3 DEF IInv

\* A step that leaves rows, requests and what was asked alone.
LEMMA TrimStep ==
    ASSUME IInv, trim' \in Entry \cup {Nil}, clock' \in Nat,
           trim' # Nil => EntryIsCurrent(trim'),
           UNCHANGED <<row, request, intent>>
    PROVE  IInv'
<1>1. LabelsTypeOK'
  BY DEF IInv, LabelsTypeOK
<1>2. TrimIsCurrent'
  BY DEF TrimIsCurrent, EntryIsCurrent
<1>3. ReadsAreCurrent' /\ NoRowUnasked' /\ NoPatchLost' /\ DeletedOnlyIfAsked'
  BY DEF IInv, ReadsAreCurrent, ReadIsCurrent, IsRefused, NoRowUnasked, NoPatchLost,
         DeletedOnlyIfAsked, ReachesHub
<1>. QED
  BY <1>1, <1>2, <1>3 DEF IInv

\* A request begins with the labels of its document, or is refused.
LEMMA PatchIInv ==
    ASSUME IInv, NEW p \in Clients, NEW c \in Clusters, NEW document \in Documents[c],
           Patch(p, c, document)
    PROVE  IInv'
<1> DEFINE r == IF IsSupported(document) /\ getLabels(document) # EmptyPatch
                  THEN [pc |-> "select", cluster |-> c, patch |-> getLabels(document), read |-> Nil,
                        stamp |-> 0, attempts |-> optimisticConcurrencyRetryAttempts]
                  ELSE Answered
<1>1. r \in Request /\ (r.pc # "answered" => r.cluster \in Clusters)
  <2>1. EmptyPatch \in Patches
    BY DEF EmptyPatch, Patches
  <2>2. Answered \in Request
    BY <2>1 DEF Answered, Request
  <2>. QED
    BY <2>2, GetLabelsType, LabelsAssumption DEF Request, Answered
<1>2. ReadIsCurrent(r)
  BY DEF ReadIsCurrent, Answered
<1>3. request' = [request EXCEPT ![p] = r] /\ UNCHANGED <<row, clock, trim, intent>>
  BY DEF Patch
<1> HIDE DEF r
<1>4. clock' \in Nat
  BY <1>3 DEF IInv, LabelsTypeOK
<1>. QED
  BY <1>1, <1>2, <1>3, <1>4, RequestStep

\* What a request selects is what the row holds.
LEMMA selectLabelsIInv ==
    ASSUME IInv, NEW p \in Clients, selectLabels(p)
    PROVE  IInv'
<1> DEFINE c == request[p].cluster
           r == [request[p] EXCEPT !.pc = "selected", !.read = row[c]]
<1>1. request[p] \in Request /\ c \in Clusters /\ row[c] \in Row \cup {Nil}
  BY DEF IInv, LabelsTypeOK, selectLabels
<1>2. r \in Request /\ r.cluster = c /\ r.read = row[c] /\ r.pc = "selected"
  BY <1>1 DEF Request
<1>3. ReadIsCurrent(r)
  <2>1. row[c] # Nil => row[c].version \in Nat
    BY <1>1 DEF Row
  <2>. QED
    BY <1>2, <2>1 DEF ReadIsCurrent
<1>4. request' = [request EXCEPT ![p] = r] /\ UNCHANGED <<row, clock, trim, intent>>
  BY DEF selectLabels, IInv, LabelsTypeOK
<1>5. clock' \in Nat
  BY <1>4 DEF IInv, LabelsTypeOK
<1> HIDE DEF r
<1>. QED
  BY <1>1, <1>2, <1>3, <1>4, <1>5, RequestStep

\* A write begins with the next timestamp and changes no row.
LEMMA beginWriteIInv ==
    ASSUME IInv, NEW p \in Clients, beginWrite(p)
    PROVE  IInv'
<1> DEFINE r == [request[p] EXCEPT !.pc = "writing", !.stamp = clock + 1]
<1>1. request[p] \in Request /\ request[p].cluster \in Clusters /\ clock + 1 \in Nat
  BY DEF IInv, LabelsTypeOK, beginWrite
<1>2. r \in Request /\ r.cluster = request[p].cluster /\ r.read = request[p].read
  BY <1>1 DEF Request
<1>3. ReadIsCurrent(r)
  BY <1>2 DEF ReadIsCurrent, IInv, ReadsAreCurrent, beginWrite
<1>4. request' = [request EXCEPT ![p] = r] /\ clock' = clock + 1 /\ UNCHANGED <<row, trim, intent>>
  BY DEF beginWrite, IInv, LabelsTypeOK
<1> HIDE DEF r
<1>. QED
  BY <1>1, <1>2, <1>3, <1>4, RequestStep

\* A step that writes one row with a newer version.
LEMMA RowWritten ==
    ASSUME IInv, NEW c \in Clusters, NEW new \in Row, NEW asked \in Patches,
           row[c] # Nil => row[c].version < new.version,
           row' = [row EXCEPT ![c] = new], intent' = [intent EXCEPT ![c] = asked], clock' = clock,
           ~IsRefused(c) => \A k \in Keys :
                /\ new.labels[k] = IF asked[k] \in Values THEN asked[k] ELSE NoLabel
                /\ k \in new.deleted => asked[k] = Removed,
           request' \in [Clients -> Request],
           \A q \in Clients : request'[q] \in {request[q], Answered},
           trim' \in {trim, Nil}
    PROVE  IInv'
<1>0. /\ row \in [Clusters -> Row \cup {Nil}] /\ Nil \notin Row
      /\ row' \in [Clusters -> Row \cup {Nil}]
      /\ row'[c] = new /\ intent'[c] = asked
      /\ \A d \in Clusters : d # c => row'[d] = row[d] /\ intent'[d] = intent[d]
  BY NilAssumption DEF IInv, LabelsTypeOK
<1>1. \A d \in Clusters : RowAdvances(d)
  BY <1>0 DEF RowAdvances
<1>2. LabelsTypeOK'
  BY <1>0 DEF IInv, LabelsTypeOK, Answered
<1>3. ReadsAreCurrent'
  <2>1. SUFFICES ASSUME NEW q \in Clients PROVE ReadIsCurrent(request[q])'
    BY DEF ReadsAreCurrent
  <2>2. CASE request'[q] = Answered
    BY <2>2 DEF ReadIsCurrent, Answered
  <2>3. CASE request'[q] = request[q]
    <3>1. /\ request[q] \in Request
          /\ request[q].pc # "answered" => request[q].cluster \in Clusters
          /\ ReadIsCurrent(request[q])
      BY DEF IInv, LabelsTypeOK, ReadsAreCurrent
    <3>2. \A r \in Request : (r.pc # "answered" => r.cluster \in Clusters) /\ ReadIsCurrent(r)
            => ReadIsCurrent(r)'
      BY <1>0, <1>1, ReadSurvives
    <3>. QED
      BY <2>3, <3>1, <3>2 DEF ReadIsCurrent, IsRefused
  <2>. QED
    BY <2>2, <2>3
<1>4. TrimIsCurrent'
  <2>1. \A e \in Entry : EntryIsCurrent(e) => EntryIsCurrent(e)'
    BY <1>0, <1>1, EntrySurvives
  <2>2. trim # Nil => trim \in Entry /\ EntryIsCurrent(trim)
    BY DEF IInv, LabelsTypeOK, TrimIsCurrent
  <2>. QED
    BY <2>1, <2>2 DEF TrimIsCurrent, EntryIsCurrent
<1>5. NoRowUnasked'
  BY <1>0 DEF IInv, NoRowUnasked
<1>6. \A d \in Clusters : d # c /\ ReachesHub(d)' => ReachesHub(d)
  BY <1>0, LabelsAssumption DEF ReachesHub
<1>7. ReachesHub(c)' => ~IsRefused(c)
  BY <1>1, RefusedStays DEF ReachesHub, IsRefused
<1>8. NoPatchLost'
  BY <1>0, <1>6, <1>7 DEF IInv, NoPatchLost
<1>9. DeletedOnlyIfAsked'
  <2>1. Row \in SUBSET [labels : [Keys -> Values \cup {NoLabel}], deleted : SUBSET Keys,
                         version : Nat, updatedAt : Nat]
    BY DEF Row
  <2>. QED
    BY <1>0, <1>6, <1>7, <2>1 DEF IInv, DeletedOnlyIfAsked
<1>. QED
  BY <1>2, <1>3, <1>4, <1>5, <1>8, <1>9 DEF IInv

\* A write ends: its row was not written since the SELECT, or nothing is written.
LEMMA endWriteIInv ==
    ASSUME IInv, NEW p \in Clients, endWrite(p)
    PROVE  IInv'
<1> DEFINE r == request[p]
           c == request[p].cluster
           new == IF r.read = Nil THEN insertedRow(r.patch, r.stamp)
                                  ELSE updateRow(r.read, r.patch, r.stamp)
           asked == [k \in Keys |-> IF r.patch[k] = Untouched THEN intent[c][k] ELSE r.patch[k]]
<1>1. /\ r \in Request /\ c \in Clusters /\ r.patch \in Patches /\ r.stamp \in Nat
      /\ r.read \in Row \cup {Nil} /\ r.pc = "writing" /\ r.attempts \in Nat
  BY DEF IInv, LabelsTypeOK, endWrite, Request
<1>2. intent \in [Clusters -> Patches] /\ row \in [Clusters -> Row \cup {Nil}] /\ clock \in Nat
      /\ request \in [Clients -> Request] /\ trim' = trim /\ clock' = clock
  BY DEF IInv, LabelsTypeOK, endWrite
<1>3. Answered \in Request
  <2>1. EmptyPatch \in Patches
    BY DEF EmptyPatch, Patches
  <2>. QED
    BY <2>1 DEF Answered, Request
<1>4. CASE ~writeSucceeds(c, r.read)
  <2> DEFINE again == IF r.attempts > 1
                        THEN [r EXCEPT !.pc = "select", !.attempts = r.attempts - 1,
                                       !.read = Nil, !.stamp = 0]
                        ELSE Answered
  <2>1. request' = [request EXCEPT ![p] = again] /\ UNCHANGED <<row, intent, trim>>
    BY <1>4 DEF endWrite
  <2>2. again \in Request /\ (again.pc # "answered" => again.cluster \in Clusters)
    <3>1. r.attempts > 1 => r.attempts - 1 \in Nat
      BY <1>1
    <3>. QED
      BY <1>1, <1>3, <3>1 DEF Request, Answered
  <2>3. ReadIsCurrent(again)
    BY <1>1 DEF ReadIsCurrent, Answered, Request
  <2> HIDE DEF again
  <2>. QED
    BY <1>2, <2>1, <2>2, <2>3, RequestStep
<1>5. CASE writeSucceeds(c, r.read)
  <2>1. /\ row' = [row EXCEPT ![c] = new]
        /\ request' = [request EXCEPT ![p] = Answered]
    BY <1>5 DEF endWrite
  <2>2. intent' = [intent EXCEPT ![c] = asked]
    BY <1>5 DEF endWrite
  <2>3. asked \in Patches
    BY <1>1, <1>2 DEF Patches
  <2>4. new \in Row
    BY <1>1, InsertedRowType, UpdatedRowType
  <2>5. row[c] # Nil => row[c].version < new.version
    <3>1. row[c] # Nil => r.read \in Row /\ row[c] \in Row /\ row[c].version = r.read.version
      BY <1>1, <1>2, <1>5 DEF writeSucceeds
    <3>2. r.read # Nil => new.version = r.read.version + 1
      BY DEF updateRow
    <3>3. row[c] # Nil => row[c].version \in Nat
      BY <3>1 DEF Row
    <3>. QED
      BY <3>1, <3>2, <3>3, NilAssumption
  <2>6. ASSUME ~IsRefused(c), NEW k \in Keys
        PROVE  /\ new.labels[k] = IF asked[k] \in Values THEN asked[k] ELSE NoLabel
               /\ k \in new.deleted => asked[k] = Removed
    <3>1. CASE r.read = Nil
      <4>1. row[c] = Nil
        BY <1>5, <3>1 DEF writeSucceeds
      <4>2. intent[c][k] = Untouched
        BY <1>1, <4>1 DEF IInv, NoRowUnasked, EmptyPatch
      <4>3. /\ new.labels[k] = IF r.patch[k] \in Values THEN r.patch[k] ELSE NoLabel
            /\ k \in new.deleted => r.patch[k] = Removed
        BY <3>1 DEF insertedRow
      <4>. QED
        BY <4>2, <4>3, DocumentsAssumption DEF Removed, Untouched
    <3>2. CASE r.read # Nil
      <4>1. row[c] # Nil /\ row[c].version = r.read.version
        BY <1>5, <3>2 DEF writeSucceeds
      <4>2. r.read.labels = row[c].labels /\ r.read.deleted = row[c].deleted
        BY <1>1, <2>6, <3>2, <4>1 DEF IInv, ReadsAreCurrent, ReadIsCurrent
      <4>3. ReachesHub(c)
        BY <2>6, <4>1 DEF ReachesHub, IsRefused
      <4>4. /\ r.read.labels[k] = IF intent[c][k] \in Values THEN intent[c][k] ELSE NoLabel
            /\ k \in r.read.deleted => intent[c][k] = Removed
        BY <1>1, <4>2, <4>3 DEF IInv, NoPatchLost, DeletedOnlyIfAsked
      <4>5. /\ new.labels[k] = CASE r.patch[k] \in Values -> r.patch[k]
                                 [] r.patch[k] = Removed -> NoLabel
                                 [] OTHER -> r.read.labels[k]
            /\ k \in new.deleted =>
                 r.patch[k] = Removed \/ (k \in r.read.deleted /\ r.patch[k] \notin Values)
        BY <3>2 DEF updateRow
      <4>6. r.patch[k] \in Values \cup {Removed, Untouched}
        BY <1>1 DEF Patches
      <4>7. Removed \notin Values /\ Untouched \notin Values /\ Removed # Untouched
        BY DocumentsAssumption DEF Removed, Untouched
      <4>. QED
        BY <4>4, <4>5, <4>6, <4>7
    <3>. QED
      BY <3>1, <3>2
  <2>7. /\ request' \in [Clients -> Request]
        /\ \A q \in Clients : request'[q] \in {request[q], Answered}
    BY <1>2, <1>3, <2>1
  <2> HIDE DEF new, asked, c, r
  <2>8. c \in Clusters
    BY <1>1
  <2>. QED
    BY <1>2, <2>1, <2>2, <2>3, <2>4, <2>5, <2>6, <2>7, <2>8, RowWritten
<1>. QED
  BY <1>4, <1>5

\* The watcher reads a row with deleted keys or without a leaf hub name.
LEMMA GetEntriesIInv ==
    ASSUME IInv, NEW c \in Clusters,
           GetEntriesWithDeletedLabels(c) \/ GetEntriesWithoutLeafHubName(c)
    PROVE  IInv'
<1>1. row[c] \in Row /\ clock \in Nat
  BY DEF IInv, LabelsTypeOK, GetEntriesWithDeletedLabels, GetEntriesWithoutLeafHubName
<1>2. row[c].version \in Nat /\ row[c].deleted \in SUBSET Keys
  BY <1>1 DEF Row
<1>3. CASE GetEntriesWithDeletedLabels(c)
  <2>1. trim' = [pc |-> "status", cluster |-> c, version |-> row[c].version,
                 deleted |-> row[c].deleted, stamp |-> 0]
        /\ UNCHANGED <<row, request, intent, clock>> /\ c \in Named /\ row[c] # Nil
    BY <1>3 DEF GetEntriesWithDeletedLabels
  <2>2. trim' \in Entry
    BY <1>2, <2>1 DEF Entry
  <2>3. EntryIsCurrent(trim')
    BY <1>2, <2>1 DEF EntryIsCurrent
  <2>. QED
    BY <1>1, <2>1, <2>2, <2>3, TrimStep
<1>4. CASE GetEntriesWithoutLeafHubName(c)
  <2>1. trim' = [pc |-> "name", cluster |-> c, version |-> row[c].version, deleted |-> {}, stamp |-> 0]
        /\ UNCHANGED <<row, request, intent, clock>> /\ c \in DOMAIN FilledAs
    BY <1>4 DEF GetEntriesWithoutLeafHubName
  <2>2. trim' \in Entry
    BY <1>2, <2>1 DEF Entry
  <2>3. EntryIsCurrent(trim')
    BY <1>2, <2>1 DEF EntryIsCurrent
  <2>. QED
    BY <1>1, <2>1, <2>2, <2>3, TrimStep
<1>. QED
  BY <1>3, <1>4

\* The watcher keeps only keys that the row it read has.
LEMMA GetStatusIInv ==
    ASSUME IInv, GetManagedClusterLabelsStatus \/ GetManagedClusterLeafHubName
    PROVE  IInv'
<1>1. /\ trim \in Entry /\ EntryIsCurrent(trim)
      /\ clock \in Nat /\ clock + 1 \in Nat
      /\ UNCHANGED <<row, request, intent>>
  BY DEF IInv, LabelsTypeOK, TrimIsCurrent, GetManagedClusterLabelsStatus, GetManagedClusterLeafHubName
<1>2. CASE GetManagedClusterLabelsStatus
  <2> DEFINE still == trim.deleted \cap status[trim.cluster]
             e == [trim EXCEPT !.pc = "update", !.deleted = still, !.stamp = clock + 1]
  <2>1. CASE trim' = Nil /\ clock' = clock
    BY <1>1, <2>1, TrimStep
  <2>2. CASE trim' = e /\ clock' = clock + 1
    <3>1. trim.deleted \in SUBSET Keys /\ still \subseteq trim.deleted
      BY <1>1 DEF Entry
    <3>2. e \in Entry /\ e.pc = "update" /\ e.deleted = still
          /\ e.cluster = trim.cluster /\ e.version = trim.version
      BY <1>1, <3>1 DEF Entry
    <3>3. EntryIsCurrent(e)
      BY <1>1, <1>2, <3>1, <3>2 DEF EntryIsCurrent, GetManagedClusterLabelsStatus
    <3> HIDE DEF e
    <3>. QED
      BY <1>1, <2>2, <3>2, <3>3, TrimStep
  <2>. QED
    BY <1>2, <2>1, <2>2 DEF GetManagedClusterLabelsStatus
<1>3. CASE GetManagedClusterLeafHubName
  <2> DEFINE e == [trim EXCEPT !.pc = "fill", !.stamp = clock + 1]
  <2>1. trim' = e /\ clock' = clock + 1
    BY <1>3 DEF GetManagedClusterLeafHubName
  <2>2. e \in Entry /\ e.pc = "fill" /\ e.cluster = trim.cluster
    BY <1>1 DEF Entry
  <2>3. EntryIsCurrent(e)
    BY <1>1, <1>3, <2>2 DEF EntryIsCurrent, GetManagedClusterLeafHubName
  <2> HIDE DEF e
  <2>. QED
    BY <1>1, <2>1, <2>2, <2>3, TrimStep
<1>. QED
  BY <1>2, <1>3

\* The trim drops only keys, and only of the version that was read.
LEMMA UpdateDeletedLabelKeysIInv ==
    ASSUME IInv, UpdateDeletedLabelKeys
    PROVE  IInv'
<1> DEFINE c == trim.cluster
           new == [row[c] EXCEPT !.deleted = trim.deleted, !.version = trim.version + 1,
                                 !.updatedAt = trim.stamp]
<1>1. /\ trim \in Entry /\ EntryIsCurrent(trim) /\ trim.pc = "update"
      /\ trim' = Nil /\ UNCHANGED <<clock, request, intent>>
      /\ clock \in Nat /\ request \in [Clients -> Request]
      /\ row \in [Clusters -> Row \cup {Nil}] /\ intent \in [Clusters -> Patches]
  BY DEF IInv, LabelsTypeOK, TrimIsCurrent, UpdateDeletedLabelKeys
<1>2. /\ c \in Clusters /\ trim.version \in Nat /\ trim.stamp \in Nat
      /\ trim.deleted \in SUBSET Keys
  BY <1>1 DEF Entry
<1>3. CASE ~trimSucceeds
  BY <1>1, <1>3, TrimStep DEF UpdateDeletedLabelKeys
<1>4. CASE trimSucceeds
  <2>1. /\ c \in Named /\ row[c] \in Row /\ row[c].version = trim.version
        /\ trim.deleted \subseteq row[c].deleted
    BY <1>1, <1>2, <1>4 DEF EntryIsCurrent, trimSucceeds
  <2>2. row' = [row EXCEPT ![c] = new]
    BY <1>4 DEF UpdateDeletedLabelKeys
  <2>3. /\ new \in Row /\ new.labels = row[c].labels /\ new.deleted = trim.deleted
        /\ new.version = trim.version + 1
    <3>1. trim.version + 1 \in Nat
      BY <1>2
    <3>2. PICK r \in Row, D \in SUBSET Keys, v \in Nat, u \in Nat :
            r = row[c] /\ D = trim.deleted /\ v = trim.version + 1 /\ u = trim.stamp
      BY <1>2, <2>1, <3>1
    <3>3. new = [r EXCEPT !.deleted = D, !.version = v, !.updatedAt = u]
      BY <3>2
    <3> HIDE DEF new
    <3>4. new \in Row /\ new.labels = r.labels /\ new.deleted = D /\ new.version = v
      BY <3>3 DEF Row
    <3>. QED
      BY <3>2, <3>4
  <2>4. row[c].version < new.version
    BY <1>2, <2>1, <2>3
  <2>5. ReachesHub(c)
    BY <2>1, NilAssumption DEF ReachesHub, Named
  <2>6. \A k \in Keys :
          /\ new.labels[k] = IF intent[c][k] \in Values THEN intent[c][k] ELSE NoLabel
          /\ k \in new.deleted => intent[c][k] = Removed
    BY <1>2, <2>1, <2>3, <2>5 DEF IInv, NoPatchLost, DeletedOnlyIfAsked
  <2>7. intent' = [intent EXCEPT ![c] = intent[c]] /\ intent[c] \in Patches
    BY <1>1, <1>2
  <2> HIDE DEF new, c
  <2>. QED
    BY <1>1, <1>2, <2>2, <2>3, <2>4, <2>6, <2>7, RowWritten
<1>. QED
  BY <1>3, <1>4

\* The row with its leaf hub's name keeps its labels and deleted keys.
LEMMA FilledRowType ==
    ASSUME NEW r \in Row, trim \in Entry
    PROVE  /\ filledRow(r) \in Row
           /\ filledRow(r).labels = r.labels /\ filledRow(r).deleted = r.deleted
           /\ filledRow(r).version = trim.version + 1
<1>1. PICK v \in Nat, u \in Nat : v = trim.version + 1 /\ u = trim.stamp
  BY DEF Entry
<1>2. filledRow(r) = [r EXCEPT !.version = v, !.updatedAt = u]
  BY <1>1 DEF filledRow
<1>3. filledRow(r) \in Row /\ filledRow(r).labels = r.labels /\ filledRow(r).deleted = r.deleted
      /\ filledRow(r).version = v
  BY <1>2 DEF Row
<1>. QED
  BY <1>1, <1>3

\* The row without a leaf hub becomes the one of the hub, with what was asked of it,
\* or the statement is refused because that row is there.
LEMMA UpdateLeafHubNameIInv ==
    ASSUME IInv, UpdateLeafHubName
    PROVE  IInv'
<1> DEFINE c == trim.cluster
           target == FilledAs[trim.cluster]
           matching == {d \in {c, target} : row[d] # Nil /\ row[d].version = trim.version}
           isFilled == matching = {c} /\ row[target] = Nil
<1>1. /\ trim \in Entry /\ EntryIsCurrent(trim) /\ trim.pc = "fill"
      /\ trim' = Nil /\ UNCHANGED <<clock, request>>
      /\ clock \in Nat /\ request \in [Clients -> Request]
      /\ row \in [Clusters -> Row \cup {Nil}] /\ intent \in [Clusters -> Patches]
      /\ Nil \notin Row
  BY NilAssumption DEF IInv, LabelsTypeOK, TrimIsCurrent, UpdateLeafHubName
<1>2. /\ c \in Clusters /\ c \in DOMAIN FilledAs
      /\ target \in Clusters \ DOMAIN FilledAs /\ c # target
      /\ trim.version \in Nat
  BY <1>1, LabelsAssumption DEF Entry, EntryIsCurrent
<1>3. CASE isFilled
  <2> DEFINE new == filledRow(row[c])
  <2>1. row[c] \in Row /\ row[target] = Nil
    BY <1>1, <1>2, <1>3
  <2>2. new \in Row /\ new.labels = row[c].labels /\ new.deleted = row[c].deleted
    BY <1>1, <2>1, FilledRowType
  <2>3. /\ row' = [row EXCEPT ![target] = new, ![c] = Nil]
        /\ intent' = [intent EXCEPT ![target] = intent[c], ![c] = EmptyPatch]
    BY <1>3 DEF UpdateLeafHubName
  <2> HIDE DEF new
  <2>4. EmptyPatch \in Patches
    BY DEF EmptyPatch, Patches
  <2>5. /\ row' \in [Clusters -> Row \cup {Nil}] /\ intent' \in [Clusters -> Patches]
        /\ row'[target] = new /\ row'[c] = Nil
        /\ intent'[target] = intent[c] /\ intent'[c] = EmptyPatch
        /\ \A d \in Clusters : d \notin {c, target} => row'[d] = row[d] /\ intent'[d] = intent[d]
    BY <1>1, <1>2, <2>2, <2>3, <2>4
  <2>6. \A d \in Clusters : RowAdvances(d)
    BY <1>1, <1>2, <2>1, <2>2, <2>5 DEF RowAdvances
  <2>7. LabelsTypeOK'
    BY <1>1, <2>5 DEF IInv, LabelsTypeOK
  <2>8. ReadsAreCurrent'
    <3>1. SUFFICES ASSUME NEW q \in Clients PROVE ReadIsCurrent(request[q])'
      BY DEF ReadsAreCurrent
    <3>2. /\ request[q] \in Request
          /\ request[q].pc # "answered" => request[q].cluster \in Clusters
          /\ ReadIsCurrent(request[q])
      BY DEF IInv, LabelsTypeOK, ReadsAreCurrent
    <3>3. \A r \in Request : (r.pc # "answered" => r.cluster \in Clusters) /\ ReadIsCurrent(r)
            => ReadIsCurrent(r)'
      BY <1>1, <2>5, <2>6, ReadSurvives
    <3>. QED
      BY <1>1, <3>2, <3>3 DEF ReadIsCurrent, IsRefused
  <2>9. TrimIsCurrent'
    BY <1>1 DEF TrimIsCurrent
  <2>10. NoRowUnasked'
    BY <1>1, <2>2, <2>5 DEF IInv, NoRowUnasked
  <2>11. ReachesHub(c)
    BY <1>1, <2>1 DEF ReachesHub
  <2>12. \A d \in Clusters : d # target /\ ReachesHub(d)' => d # c /\ ReachesHub(d)
    BY <1>1, <1>2, <2>1, <2>2, <2>5, LabelsAssumption DEF ReachesHub
  <2>13. NoPatchLost'
    BY <1>2, <2>2, <2>5, <2>11, <2>12 DEF IInv, NoPatchLost
  <2>14. DeletedOnlyIfAsked'
    BY <1>2, <2>2, <2>5, <2>11, <2>12 DEF IInv, DeletedOnlyIfAsked
  <2>. QED
    BY <2>7, <2>8, <2>9, <2>10, <2>13, <2>14 DEF IInv
<1>4. CASE ~isFilled /\ matching = {target}
  <2> DEFINE new == filledRow(row[target])
  <2>1. row[target] \in Row /\ row[target].version = trim.version
    BY <1>1, <1>2, <1>4
  <2>2. /\ new \in Row /\ new.labels = row[target].labels /\ new.deleted = row[target].deleted
        /\ new.version = trim.version + 1
    BY <1>1, <2>1, FilledRowType
  <2>3. row' = [row EXCEPT ![target] = new] /\ intent' = intent
    BY <1>4 DEF UpdateLeafHubName
  <2> HIDE DEF new
  <2>4. row[target].version < new.version
    BY <1>2, <2>1, <2>2
  <2>5. ReachesHub(target)
    BY <1>1, <1>2, <2>1 DEF ReachesHub
  <2>6. \A k \in Keys :
          /\ new.labels[k] = IF intent[target][k] \in Values THEN intent[target][k] ELSE NoLabel
          /\ k \in new.deleted => intent[target][k] = Removed
    BY <1>2, <2>2, <2>5 DEF IInv, NoPatchLost, DeletedOnlyIfAsked
  <2>7. intent' = [intent EXCEPT ![target] = intent[target]] /\ intent[target] \in Patches
    BY <1>1, <1>2, <2>3
  <2> HIDE DEF target
  <2>. QED
    BY <1>1, <1>2, <2>2, <2>3, <2>4, <2>6, <2>7, RowWritten
<1>5. CASE ~isFilled /\ matching # {target}
  <2>1. row' = row /\ intent' = intent
    BY <1>5 DEF UpdateLeafHubName
  <2>. QED
    BY <1>1, <2>1, TrimStep
<1>. QED
  BY <1>3, <1>4, <1>5

\* Every action keeps the invariant.
LEMMA NextIInv == IInv /\ [Next]_vars => IInv'
<1> SUFFICES ASSUME IInv, [Next]_vars PROVE IInv'
  OBVIOUS
<1>1. ASSUME NEW p \in Clients, NEW c \in Clusters, NEW document \in Documents[c],
             Patch(p, c, document)
      PROVE  IInv'
  BY <1>1, PatchIInv
<1>2. ASSUME NEW p \in Clients, HandleRequest(p) PROVE IInv'
  BY <1>2, selectLabelsIInv, beginWriteIInv, endWriteIInv DEF HandleRequest
<1>3. CASE UNCHANGED <<row, clock, request, trim, intent>>
  BY <1>3, TrimStep DEF IInv, LabelsTypeOK, TrimIsCurrent
<1>4. CASE Watcher
  BY <1>4, GetEntriesIInv, GetStatusIInv, UpdateDeletedLabelKeysIInv, UpdateLeafHubNameIInv
  DEF Watcher
<1>5. checkTimestamp \/ syncLabels \/ (\E c \in Clusters : ApplyLabels(c) \/ ReportStatus(c))
        \/ UNCHANGED vars
        => UNCHANGED <<row, clock, request, trim, intent>>
  BY DEF checkTimestamp, syncLabels, ApplyLabels, ReportStatus, vars
<1>. QED
  BY <1>1, <1>2, <1>3, <1>4, <1>5 DEF Next

\* It holds in every reachable state.
LEMMA IInvIsInvariant == Spec => []IInv
BY InitIInv, NextIInv, PTL DEF Spec

\* Optimistic concurrency of Patch, UpdateDeletedLabelKeys and UpdateLeafHubName:
\* with any number of clients, clusters and keys, no patch that was written is
\* lost from a row that a leaf hub is sent.
THEOREM PatchesAreKept == Spec => []NoPatchLost
<1>1. IInv => NoPatchLost
  BY DEF IInv
<1>. QED
  BY <1>1, IInvIsInvariant, PTL

\* The keys that updateRow, UpdateDeletedLabelKeys and UpdateLeafHubName leave to
\* be deleted are among those whose last patch removes them.
THEOREM DeletionsAreAsked == Spec => []DeletedOnlyIfAsked
<1>1. IInv => DeletedOnlyIfAsked
  BY DEF IInv
<1>. QED
  BY <1>1, IInvIsInvariant, PTL
==============================================================================
