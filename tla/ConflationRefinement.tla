------------------------- MODULE ConflationRefinement -------------------------
(***************************************************************************)
(* Conflation, whichever transport feeds it, implements HandlerContract.   *)
(* A leaf hub is handling the bundle of the one worker whose job is of its *)
(* unit, and what is done is what the unit remembers as processed.         *)
(***************************************************************************)
EXTENDS Conflation

ASSUME HandledAssumption ==
    Nil \notin [type : Types, ver : BundleVersions, dep : BundleVersions,
               result : {"none", "success", "error"}]

\* The bundle of leaf hub h that some worker holds.
HandledBundle(h) ==
    IF \A w \in Workers : job[w] = Nil \/ job[w].hub # h
      THEN Nil
      ELSE LET w == CHOOSE v \in Workers : job[v] # Nil /\ job[v].hub = h
           IN  [type |-> job[w].type, ver |-> job[w].bundle.ver, dep |-> job[w].bundle.dep,
                result |-> job[w].result]

Contract == INSTANCE HandlerContract WITH
    CompleteTypes <- {t \in Types : SyncMode[t] = "complete"},
    TrustsFirstBundle <- ~RequireInitialDependencyChecks,
    handling <- [h \in Hubs |-> HandledBundle(h)],
    done <- lastProcessedBundleVersion

\* The handler functions see what HandlerContract promises them, although insert,
\* GetNext and ReportResult share elements and metadata objects that newer bundles
\* overwrite: what counts as processed is the version the worker handled, and no
\* bundle starts before the base it names is in.
ImplementsContract == Contract!ContractSpec
==============================================================================
