------------------------- MODULE ManagedClustersWatch -------------------------
(***************************************************************************)
(* A client's request for the managed clusters: a list, or a watch that    *)
(* repeats a query on every tick and sends events.  The condition of the   *)
(* query is made once, when the request arrives.                           *)
(*                                                                         *)
(* External: the services that authenticate the user and that answer with  *)
(* an authorization, the database with the rows the status handlers write, *)
(* and the client, which keeps the last object of every name it was sent.  *)
(***************************************************************************)
EXTENDS AuthorizationFilter

CONSTANTS
    ClusterKeys,       \* rows there may be: [hub, name]
    ClusterAttributes, \* contents of a row: the attributes of a cluster
    Answers,           \* answers of the authorization service
    WatchBudgets       \* bounds on the requests, changes of rows, and failed reads

ASSUME WatchAssumption ==
    WatchBudgets \subseteq [requests : Nat, changes : Nat, faults : Nat]

ASSUME AnswersAssumption == \A a \in Answers : IsAnswer(a)

VARIABLES
    clusters,      \* status.managed_clusters: the cluster of every key, or None
    request,       \* what became of the last request: "watch" is served
    answer,        \* the authorization that the request's query was made from
    previouslyAdded,   \* previouslyAddedManagedClusterNames
    view,          \* the client: the cluster of every name it was sent and not told deleted
    watchBudget    \* what is left of a bound

watchVars == <<clusters, request, answer, previouslyAdded, view, watchBudget>>

FailedRead ==
    /\ watchBudget.faults > 0
    /\ watchBudget' = [watchBudget EXCEPT !.faults = @ - 1]

------------------------------------------------------------------------------
\* The keys of the rows that the query made from answer a selects; none, when the
\* database refuses it.
sqlQuery(a) ==
    LET present == {k \in ClusterKeys : clusters[k] # None}
        value(k) == filterByAuthorization(a, clusters[k])
    IN  {k \in present : value(k) = sqlTrue}

\* Of the rows that are selected, fewer are read when the query, a row or the
\* connection fails.  The loop over the rows just ends, or skips one.
Read(selected, read) ==
    IF read = selected THEN UNCHANGED watchBudget ELSE FailedRead

NamesOf(keys) == {k.name : k \in keys}

\* What a client holds after it was sent the clusters of keys, in the order of their
\* names: of two with one name, either may come last.
Views(keys) ==
    {shown \in [NamesOf(keys) -> ClusterAttributes] :
        \A name \in DOMAIN shown : \E k \in keys : k.name = name /\ shown[name] = clusters[k]}

------------------------------------------------------------------------------
(* The requests *)

\* The client, external, sends a request when its last one is over, with an empty view.
Send ==
    /\ request \in {"none", "unauthorized", "listed", "closed"}
    /\ watchBudget.requests > 0
    /\ watchBudget' = [watchBudget EXCEPT !.requests = @ - 1]
    /\ request' = "sent"
    /\ view' = << >>
    /\ UNCHANGED <<clusters, answer, previouslyAdded>>

\* The user is authenticated and the query made, or the request is refused.
Authentication ==
    /\ request = "sent"
    /\ \/ request' = "unauthorized" /\ UNCHANGED answer
       \/ request' \in {"list", "watch"} /\ answer' \in Answers
    /\ UNCHANGED <<clusters, previouslyAdded, view, watchBudget>>

\* A list.
handleRows ==
    /\ request = "list"
    /\ request' = "listed"
    /\ LET selected == sqlQuery(answer)
       IN  \E read \in SUBSET selected : Read(selected, read) /\ view' \in Views(read)
    /\ UNCHANGED <<clusters, answer, previouslyAdded>>

\* Mutant: the memory is replaced by what this tick added to it.
rememberNewOnly(added) == added \ previouslyAdded

\* The names to delete leave the memory, and the new ones join it.
remember(added) ==
    LET toDelete == previouslyAdded \ added
        kept == previouslyAdded \ toDelete
    IN  kept \cup (added \ kept)

\* A tick: every row read is sent as added, and every name that was sent before and
\* was not read now as deleted.
doHandleRowsForWatch ==
    /\ request = "watch"
    /\ LET selected == sqlQuery(answer)
       IN  \E read \in SUBSET selected : \E sent \in Views(read) :
            LET toDelete == previouslyAdded \ NamesOf(read)
                kept == DOMAIN view \ toDelete
            IN  /\ Read(selected, read)
                /\ previouslyAdded' = remember(NamesOf(read))
                /\ view' = [name \in DOMAIN sent \cup kept |->
                              IF name \in DOMAIN sent THEN sent[name] ELSE view[name]]
    /\ UNCHANGED <<clusters, request, answer>>

\* The client goes away: the memory goes with the handler.
CloseNotify ==
    /\ request = "watch"
    /\ request' = "closed"
    /\ previouslyAdded' = {}
    /\ UNCHANGED <<clusters, answer, view, watchBudget>>

\* A status handler writes or deletes a row, external.
ChangeCluster(k, c) ==
    /\ watchBudget.changes > 0
    /\ watchBudget' = [watchBudget EXCEPT !.changes = @ - 1]
    /\ clusters[k] # c
    /\ clusters' = [clusters EXCEPT ![k] = c]
    /\ UNCHANGED <<request, answer, previouslyAdded, view>>

------------------------------------------------------------------------------
WatchInit ==
    /\ clusters \in [ClusterKeys -> ClusterAttributes \cup {None}]
    /\ request = "none"
    /\ answer = None
    /\ previouslyAdded = {}
    /\ view = << >>
    /\ watchBudget \in WatchBudgets

WatchNext ==
    \/ Send
    \/ Authentication
    \/ handleRows
    \/ doHandleRowsForWatch
    \/ CloseNotify
    \/ \E k \in ClusterKeys, c \in ClusterAttributes \cup {None} : ChangeCluster(k, c)

\* The ticker of a request fires for ever; clients may come and go.
WatchFairness == WF_watchVars(doHandleRowsForWatch)

FairWatchSpec == WatchInit /\ [][WatchNext]_watchVars /\ WatchFairness

------------------------------------------------------------------------------
(* Properties *)

\* A client is shown a cluster only as it was when the authorization allowed it: when
\* the answer refers to string attributes of input.cluster, with texts that need no
\* escaping, the condition is not weaker than the answer, however many of its queries,
\* expressions and terms are of a form that is not translated; and a failed read shows
\* nothing more.
ShownIsAllowed ==
    \A name \in DOMAIN view : IsMeant(answer, view[name]) => Allows(answer, view[name])

\* Rows that the answer allows, and rows for which the translation is exact.
AllowedKeys == {k \in ClusterKeys : clusters[k] # None /\ Allows(answer, clusters[k])}
CertainKeys ==
    {k \in AllowedKeys :
        /\ IsWellFormed(answer)
        /\ IsMeant(answer, clusters[k])
        /\ HasAttributes(answer, clusters[k])}

\* A watch ends up showing rows as they are now: all that the authorization allows, when
\* its answer is one that is translated exactly, and of the clusters that the answer is
\* meant for, only those that it allows.  This is although rows
\* appear, change, stop being allowed and disappear between the ticks, two leaf hubs
\* may have clusters of one name, and a failed read is taken for the deletion of every
\* cluster that was not read.
WatchConverges ==
    <>[](request = "watch" =>
            /\ NamesOf(CertainKeys) \subseteq DOMAIN view
            /\ \A name \in DOMAIN view : \E k \in ClusterKeys :
                    /\ k.name = name
                    /\ clusters[k] = view[name]
                    /\ IsMeant(answer, clusters[k]) => k \in AllowedKeys)
==============================================================================
