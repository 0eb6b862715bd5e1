------------------------- MODULE MCManagedClusterLabels -------------------------
(***************************************************************************)
(* Instances of ManagedClusterLabels for TLC.                              *)
(***************************************************************************)
EXTENDS ManagedClusterLabels, TLC

CONSTANTS p1, p2, c0, c1, c2, h1, h2, k1, k2, v1

TwoClients == {p1, p2}
TwoClusters == {c1, c2}
TwoHubs == (c1 :> h1) @@ (c2 :> h2)
NoneFilled == << >>
TwoRequests ==
    4 :> {(c1 :> 2) @@ (c2 :> 0), (c1 :> 1) @@ (c2 :> 1), (c1 :> 0) @@ (c2 :> 2)}

\* A cluster with and without its leaf hub, and another one.
ClusterTwiceAndAnother == {c0, c1, c2}
HubsOrNone == (c0 :> Nil) @@ (c1 :> h1) @@ (c2 :> h2)
Filled == c0 :> c1
Requests(n0, n1, n2) == (c0 :> n0) @@ (c1 :> n1) @@ (c2 :> n2)

\* Two patches of a row that exists hold a pool of two connections, not one of three.
ThreeOrMixed ==
    (2 :> {Requests(0, 3, 0)})
        @@ (3 :> {Requests(3, 0, 0), Requests(0, 2, 0), Requests(1, 1, 0), Requests(0, 0, 3)})

OneKey == {k1}
TwoKeys == {k1, k2}
OneValue == {v1}

Op(key, op) == [key |-> key, op |-> op]

\* Set or remove the key.
SetOrRemove == {<<Op(k1, v1)>>, <<Op(k1, Removed)>>}

\* Set one key, or remove two, the first after it was set.
SetOneRemoveTwo ==
    {<<Op(k1, v1)>>, <<Op(k1, v1), Op(k1, Removed), Op(k2, Removed)>>}

\* Set either of two keys, or be rejected.
SetEither == {<<Op(k1, v1)>>, <<Op(k2, v1)>>, <<Op(k1, v1), Op(k1, Unsupported)>>}

OneKeyPatches == [c \in TwoClusters |-> SetOrRemove]
TwoKeyPatches ==
    [c \in ClusterTwiceAndAnother |-> IF c = c2 THEN SetEither ELSE SetOneRemoveTwo]
==============================================================================
