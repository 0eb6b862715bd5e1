---------------------------- MODULE StatusReaders ----------------------------
(***************************************************************************)
(* The two readers of the status database: the syncers of DBToStatus and   *)
(* the API of ManagedClustersWatch.  They read different tables and share  *)
(* no state, so each is explored while the other is at rest.               *)
(***************************************************************************)
EXTENDS DBToStatus, ManagedClustersWatch

readerVars == <<statusVars, watchVars>>

StatusAtRest ==
    /\ budget = [uids |-> 0, writes |-> 0, faults |-> 0]
    /\ kind = "policy"

WatchAtRest ==
    /\ watchBudget = [requests |-> 0, changes |-> 0, faults |-> 0]
    /\ \A k \in ClusterKeys : clusters[k] = None

ReadersInit == StatusInit /\ WatchInit /\ StatusAtRest # WatchAtRest

ReadersNext ==
    \/ StatusNext /\ UNCHANGED watchVars
    \/ WatchNext /\ UNCHANGED statusVars

ReadersSpec == ReadersInit /\ [][ReadersNext]_readerVars

FairReadersSpec == ReadersSpec /\ StatusFairness /\ WatchFairness
==============================================================================
