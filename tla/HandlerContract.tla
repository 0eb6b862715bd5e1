--------------------------- MODULE HandlerContract ---------------------------
(***************************************************************************)
(* What the conflation layer promises the handler functions, and what      *)
(* ComplianceStatus and ResourceStatus rely on: the bundles of a leaf hub  *)
(* are handled one at a time; a complete-state bundle is newer than        *)
(* everything of its type that was handled before; a dependent bundle is   *)
(* handled right after exactly the base it names (or, if the registration  *)
(* asks for no more, a newer one); a handler that fails leaves no trace    *)
(* in what counts as handled.                                              *)
(*                                                                         *)
(* Elements, queues, conflation and transport metadata are not mentioned.  *)
(***************************************************************************)
EXTENDS BundleVersion

CONSTANTS
    Hubs, Types,
    CompleteTypes,       \* the types whose bundles replace one another
    Dependency,          \* [Types -> Types \cup {Nil}]
    DependencyType,      \* [Types -> {"ExactMatch", "AtLeast"}]
    TrustsFirstBundle,   \* nothing is asked of a base until one was handled
    Nil

VARIABLES
    handling,   \* the bundle of each leaf hub in a handler function, or Nil
    done,       \* version of the last bundle handled, per leaf hub and type
    stored      \* version the database holds

contractVars == <<handling, done, stored>>

\* A bundle of type t that names base dep may be handled after version last of
\* the type it depends on.
BaseIsHandled(t, dep, last) ==
    \/ TrustsFirstBundle /\ Equals(last, noBundleVersion)
    \/ DependencyType[t] = "ExactMatch" /\ Equals(dep, last)
    \/ DependencyType[t] = "AtLeast" /\ ~NewerThan(dep, last)

\* A handler function is called.
Start(h, t) ==
    /\ handling[h] = Nil
    /\ handling'[h] # Nil
    /\ handling'[h].type = t
    /\ handling'[h].result = "none"
    /\ t \in CompleteTypes => NewerThan(handling'[h].ver, done[h][t])
    /\ Dependency[t] # Nil => BaseIsHandled(t, handling'[h].dep, done[h][Dependency[t]])
    /\ \A k \in Hubs \ {h} : handling'[k] = handling[k]
    /\ UNCHANGED <<done, stored>>

\* The handler function returns; one that fails may have written all the same.
Return(h, result) ==
    /\ handling[h] # Nil
    /\ handling[h].result = "none"
    /\ handling' = [handling EXCEPT ![h].result = result]
    /\ \/ stored' = [stored EXCEPT ![h][handling[h].type] = handling[h].ver]
       \/ result = "error" /\ UNCHANGED stored
    /\ UNCHANGED done

\* The result is taken in; only a success counts.
Finish(h) ==
    /\ handling[h] # Nil
    /\ handling[h].result # "none"
    /\ handling' = [handling EXCEPT ![h] = Nil]
    /\ done' = IF handling[h].result = "success" /\ NewerThan(handling[h].ver, done[h][handling[h].type])
                 THEN [done EXCEPT ![h][handling[h].type] = handling[h].ver]
                 ELSE done
    /\ UNCHANGED stored

\* The process is replaced by a new one, which remembers nothing.
Forget ==
    /\ handling' = [h \in Hubs |-> Nil]
    /\ done' = [h \in Hubs |-> [t \in Types |-> noBundleVersion]]
    /\ UNCHANGED stored

ContractInit ==
    /\ handling = [h \in Hubs |-> Nil]
    /\ done = [h \in Hubs |-> [t \in Types |-> noBundleVersion]]
    /\ stored = [h \in Hubs |-> [t \in Types |-> noBundleVersion]]

ContractNext ==
    \/ \E h \in Hubs : \/ \E t \in Types : Start(h, t)
                       \/ \E result \in {"success", "error"} : Return(h, result)
                       \/ Finish(h)
    \/ Forget

ContractSpec == ContractInit /\ [][ContractNext]_contractVars
==============================================================================
