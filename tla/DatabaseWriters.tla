---------------------------- MODULE DatabaseWriters ----------------------------
(***************************************************************************)
(* The two kinds of writers of the database: a controller of SpecToDB,     *)
(* which keeps a table of the spec schema, and the handlers of             *)
(* ResourceStatus, which keep a table of the status schema.  They share no *)
(* state, so each is explored while the other is at rest.                  *)
(***************************************************************************)
EXTENDS SpecToDB, ResourceStatus

VARIABLE explored

writerVars == <<explored, vars, resourceVars>>

WritersInit ==
    /\ explored \in {"spec", "resources"}
    /\ Init
    /\ ResourceInit
    /\ explored = "spec" => kind = "generic"

SpecStep(A) == explored = "spec" /\ A /\ UNCHANGED <<explored, resourceVars>>

ResourceStep(A) == explored = "resources" /\ A /\ UNCHANGED <<explored, vars>>

WritersNext == SpecStep(Next) \/ ResourceStep(ResourceNext)

WritersSpec == WritersInit /\ [][WritersNext]_writerVars

\* The fairness of the two specifications.
FairWritersSpec ==
    /\ WritersSpec
    /\ WF_writerVars(SpecStep(Deliver))
    /\ WF_writerVars(SpecStep(Controller))
    /\ \A h \in Hubs :
        /\ WF_writerVars(ResourceStep(Receive(h)))
        /\ WF_writerVars(ResourceStep(Handler(h) \/ handlerFails(h)))
==============================================================================
