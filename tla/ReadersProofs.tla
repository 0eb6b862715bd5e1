----------------------------- MODULE ReadersProofs -----------------------------
(***************************************************************************)
(* Proofs about the readers of the status database, StatusReaders, for     *)
(* every set of leaf hubs, rows, clusters and authorizations.              *)
(*                                                                         *)
(* The two readers share no state, so each has an invariant of its own.    *)
(* ShownIsAllowed rests on FilterIsSound, a fact about the translation of  *)
(* an answer of the authorization service.  BindingKept is not inductive:  *)
(* it needs to know what a patch that is still on its way can change, and  *)
(* that a policy created anew was never bound.                             *)
(***************************************************************************)
EXTENDS StatusReaders, TLAPS

------------------------------------------------------------------------------
(* The translation of an authorization *)

\* What the soundness of an expression needs of its operands.
MeantOperands(terms, c) ==
    \A i \in {2, 3} : terms[i].type = "ref" =>
        /\ terms[i].path # Malformed /\ Len(terms[i].path) >= 2 =>
             /\ Len(terms[i].path) > 2
             /\ terms[i].path[1].text = "input" /\ terms[i].path[2].text = "cluster"
        /\ IsAttribute(terms[i]) /\ AttributePath(terms[i].path) \in DOMAIN c =>
             c[AttributePath(terms[i].path)].type = "string"

\* The operands of an expression of three terms are operands of its answer.
LEMMA OperandsOfExpression ==
    ASSUME NEW a, NEW q \in a \ {Malformed}, NEW e \in q \ {Malformed}, Len(e.terms) = 3
    PROVE  e \in Expressions(a) /\ e.terms[2] \in Operands(a) /\ e.terms[3] \in Operands(a)
<1>1. e \in Expressions(a)
  BY DEF Expressions
<1>2. 2 \in 2..Len(e.terms) /\ 3 \in 2..Len(e.terms)
  OBVIOUS
<1>. QED
  BY <1>1, <1>2 DEF Operands

\* The operands of an answer of the kind that is meant are as soundness needs them.
LEMMA OperandsAreMeant ==
    ASSUME NEW a, NEW c, RefersToCluster(a), HasStrings(a, c),
           NEW q \in a \ {Malformed}, NEW e \in q \ {Malformed}, Len(e.terms) = 3
    PROVE  MeantOperands(e.terms, c)
BY OperandsOfExpression DEF RefersToCluster, HasStrings, MeantOperands

\* On operands that are meant, two translated operands are one text when the two have
\* one value.
LEMMA OperandsAreValues ==
    ASSUME NEW terms, NEW c, isSQLExpression(terms), MeantOperands(terms, c)
    PROVE  /\ \A i \in {2, 3} : IsText(terms[i]) \/ IsAttribute(terms[i])
           /\ \A i \in {2, 3} : ~isPayload(terms[i])
           /\ LET first == getOperand(terms[2], c)
                  second == getOperand(terms[3], c)
                  isEqual == ValuesOf(terms[2], c) \cap ValuesOf(terms[3], c) # {}
              IN  first # {} /\ second # {} => (first = second <=> isEqual)
<1>1. \A i \in {2, 3} : isOperand(terms[i])
  BY DEF isSQLExpression
<1>2. \A i \in {2, 3} :
        IF terms[i].type = "string" THEN IsText(terms[i]) /\ ~IsAttribute(terms[i])
        ELSE terms[i].type = "ref" /\ ~IsText(terms[i]) /\ IsAttribute(terms[i])
  BY <1>1 DEF MeantOperands, isOperand, isRefTerm, IsText, IsAttribute, typed,
              minReferencedVariablePathSize
<1>3. \A i \in {2, 3} : \E t :
        \/ getOperand(terms[i], c) = {}
        \/ getOperand(terms[i], c) = {t} /\ ValuesOf(terms[i], c) = {typed("string", t)}
  <2> TAKE i \in {2, 3}
  <2> DEFINE attribute == AttributePath(terms[i].path)
  <2>1. CASE terms[i].type = "string"
    BY <1>2, <2>1 DEF getOperand, ValuesOf
  <2>2. CASE terms[i].type # "string" /\ attribute \notin DOMAIN c
    BY <2>2 DEF getOperand
  <2>3. CASE terms[i].type # "string" /\ attribute \in DOMAIN c
    <3>1. ~IsText(terms[i]) /\ c[attribute].type = "string"
      BY <1>2, <2>3 DEF MeantOperands
    <3> HIDE DEF attribute
    <3>2. /\ getOperand(terms[i], c) = {c[attribute].text}
          /\ ValuesOf(terms[i], c) = {typed("string", c[attribute].text)}
      BY <2>3, <3>1 DEF getOperand, ValuesOf, attribute
    <3>. QED
      BY <3>2
  <2>. QED
    BY <2>1, <2>2, <2>3
<1>4. \A i \in {2, 3} : ~isPayload(terms[i])
  <2> TAKE i \in {2, 3}
  <2> DEFINE n == Len(terms[i].path)
  <2>1. terms[i].type = "ref" => n > 2
    BY <1>2 DEF IsAttribute
  <2>2. n > 2 => n # 2
    <3> HIDE DEF n
    <3>. QED
      OBVIOUS
  <2>. QED
    BY <2>1, <2>2 DEF isPayload
<1>5. \A t, u : typed("string", t) = typed("string", u) => t = u
  BY DEF typed
<1>. QED
  BY <1>2, <1>3, <1>4, <1>5

\* Terms that are translated are those of an equality.
LEMMA TranslatedIsEquality ==
    ASSUME NEW terms, isSQLExpression(terms)
    PROVE  Len(terms) = 3 /\ IsEquality(terms[1])
BY FilterAssumption DEF isSQLExpression, getOperator, termsArraySize, IsEquality

\* A translated expression that is not false, unknown or refused holds on the cluster.
LEMMA ExpressionIsSound ==
    ASSUME NEW e, NEW c,
           e # Malformed =>
             /\ e.negated \in BOOLEAN
             /\ Len(e.terms) = 3 => MeantOperands(e.terms, c),
           handleExpression(e, c) \notin {"refused", sqlFalse, sqlNull}
    PROVE  Holds(e, c)
<1> USE DEF sqlTrue, sqlFalse, sqlNull
<1> DEFINE terms == e.terms
           value == getSQLExpression(terms, c)
<1>1. e # Malformed /\ e.negated \in BOOLEAN
  BY DEF handleExpression
<1>2. handleTermsArray(terms, e.negated, c) \notin {"refused", sqlFalse, sqlNull}
  BY <1>1 DEF handleExpression
<1>3. isSQLExpression(terms)
  BY <1>1, <1>2 DEF handleTermsArray, sqlNot
<1>4. /\ value \in {sqlTrue, sqlFalse}
      /\ value = IF e.negated THEN sqlFalse ELSE sqlTrue
  <2>1. value \in {"refused", sqlTrue, sqlFalse, sqlNull}
    BY DEF getSQLExpression
  <2>. QED
    BY <1>1, <1>2, <1>3, <2>1 DEF handleTermsArray, sqlNot
<1>5. Len(terms) = 3 /\ IsEquality(terms[1])
  BY <1>3, TranslatedIsEquality
<1>6. MeantOperands(terms, c)
  BY <1>1, <1>5
<1>7. \A i \in {2, 3} : (IsText(terms[i]) \/ IsAttribute(terms[i])) /\ ~isPayload(terms[i])
  BY <1>3, <1>6, OperandsAreValues
<1>8. /\ getOperand(terms[2], c) # {} /\ getOperand(terms[3], c) # {}
      /\ e.negated <=> getOperand(terms[2], c) # getOperand(terms[3], c)
  BY <1>1, <1>4, <1>7 DEF getSQLExpression
<1>9. e.negated # (ValuesOf(terms[2], c) \cap ValuesOf(terms[3], c) # {})
  BY <1>1, <1>3, <1>6, <1>8, OperandsAreValues
<1>. QED
  BY <1>1, <1>5, <1>7, <1>9 DEF Holds

\* A translated query whose condition is true holds on the cluster.
LEMMA QueryIsSound ==
    ASSUME NEW q, NEW c,
           \A e \in q \ {Malformed} :
             /\ e.negated \in BOOLEAN
             /\ Len(e.terms) = 3 => MeantOperands(e.terms, c),
           handleQuery(q, c) = sqlTrue
    PROVE  \A e \in q : Holds(e, c)
<1>1. SUFFICES ASSUME NEW e \in q PROVE Holds(e, c)
  OBVIOUS
<1> DEFINE V == {handleExpression(x, c) : x \in q} \cup {sqlTrue}
<1>2. sqlAnd(V) = sqlTrue
  BY DEF handleQuery
<1>3. handleExpression(e, c) \in V
  BY <1>1
<1> HIDE DEF V
<1>4. handleExpression(e, c) \notin {"refused", sqlFalse, sqlNull}
  BY <1>2, <1>3 DEF sqlAnd, sqlTrue, sqlFalse, sqlNull
<1>. QED
  BY <1>1, <1>4, ExpressionIsSound

\* An answer that refers to the cluster with plain texts is not misquoted.
LEMMA PlainIsNotMisquoted ==
    ASSUME NEW a, HasPlainTexts(a)
    PROVE  ~isMisquoted(a)
<1>1. SUFFICES ASSUME NEW e \in Expressions(a), isSQLExpression(e.terms), NEW i \in {2, 3}
               PROVE  writtenTexts(e.terms[i]) \cap TextsWithApostrophe = {}
  BY DEF isMisquoted
<1> DEFINE term == e.terms[i]
<1>2. isOperand(term) /\ i \in 2..Len(e.terms)
  BY <1>1 DEF isSQLExpression, termsArraySize
<1>3. term \in Operands(a)
  BY <1>1, <1>2 DEF Operands
<1>4. writtenTexts(term) \subseteq Texts(term)
  BY <1>2 DEF isOperand, isRefTerm, writtenTexts, Texts
<1>. QED
  BY <1>3, <1>4 DEF HasPlainTexts

\* The condition that the code makes of an answer is true only on clusters that the
\* answer allows: denials, malformed and untranslatable parts never widen it.  The
\* hypothesis is that the answer refers to string attributes of input.cluster, with texts
\* that need no escaping.
THEOREM FilterIsSound ==
    ASSUME NEW a, NEW c, IsAnswer(a), IsMeant(a, c),
           filterByAuthorization(a, c) = sqlTrue
    PROVE  Allows(a, c)
<1>1. a # None /\ a # {}
  BY FilterAssumption DEF filterByAuthorization, denyAll, sqlTrue, sqlFalse
<1>2. RefersToCluster(a) /\ HasStrings(a, c) /\ ~isMisquoted(a)
  BY <1>1, PlainIsNotMisquoted DEF IsMeant
<1>3. CASE a = {{}}
  BY <1>1, <1>3, FilterAssumption DEF Allows
<1>4. CASE a # {{}}
  <2> DEFINE V == {handleQuery(q, c) : q \in a \ {Malformed, {}}} \cup {sqlFalse}
  <2>1. sqlOr(V) = sqlTrue
    BY <1>1, <1>2, <1>4 DEF filterByAuthorization
  <2>2. sqlTrue \in V
    <3> HIDE DEF V
    <3>. QED
      BY <2>1 DEF sqlOr, sqlTrue, sqlFalse, sqlNull
  <2>3. PICK q \in a \ {Malformed, {}} : handleQuery(q, c) = sqlTrue
    BY <2>2 DEF sqlTrue, sqlFalse
  <2>4. \A e \in q \ {Malformed} :
          e.negated \in BOOLEAN /\ (Len(e.terms) = 3 => MeantOperands(e.terms, c))
    BY <1>1, <1>2, <2>3, OperandsAreMeant DEF IsAnswer, Expressions
  <2>5. \A e \in q : Holds(e, c)
    BY <2>3, <2>4, QueryIsSound
  <2>. QED
    BY <1>1, <2>3, <2>5 DEF Allows
<1>. QED
  BY <1>3, <1>4

\* The translation of meant terms is never refused.
LEMMA TermsAreNotRefused ==
    ASSUME NEW e, NEW c, e.negated \in BOOLEAN,
           Len(e.terms) = 3 => MeantOperands(e.terms, c)
    PROVE  handleTermsArray(e.terms, e.negated, c) \in {sqlTrue, sqlFalse, sqlNull}
<1>1. isSQLExpression(e.terms) => getSQLExpression(e.terms, c) \in {sqlTrue, sqlFalse, sqlNull}
  BY TranslatedIsEquality, OperandsAreValues DEF getSQLExpression
<1>. QED
  BY <1>1 DEF handleTermsArray, sqlNot, sqlTrue, sqlFalse, sqlNull

\* An expression that holds is translated to a condition that is true, when the
\* cluster has the attributes that it names.
LEMMA ExpressionIsExact ==
    ASSUME NEW e, NEW c, e # Malformed, e.negated \in BOOLEAN, Holds(e, c),
           MeantOperands(e.terms, c),
           \A i \in {2, 3} : e.terms[i].path # Malformed => Len(e.terms[i].path) \in Nat,
           \A i \in {2, 3} : IsAttribute(e.terms[i]) => AttributePath(e.terms[i].path) \in DOMAIN c
    PROVE  handleExpression(e, c) = sqlTrue
<1> DEFINE terms == e.terms
           first == getOperand(terms[2], c)
           second == getOperand(terms[3], c)
<1>1. /\ Len(terms) = 3 /\ IsEquality(terms[1])
      /\ \A i \in {2, 3} : IsText(terms[i]) \/ IsAttribute(terms[i])
      /\ e.negated # (ValuesOf(terms[2], c) \cap ValuesOf(terms[3], c) # {})
  BY DEF Holds
<1>2. isSQLExpression(terms)
  <2>1. getOperator(terms[1]) = "eq"
    BY <1>1 DEF IsEquality, getOperator
  <2>2. \A i \in {2, 3} : isOperand(terms[i])
    <3> TAKE i \in {2, 3}
    <3> DEFINE n == Len(terms[i].path)
    <3>1. n \in Nat /\ n > 2 => n >= 2
      <4> HIDE DEF n
      <4>. QED
        OBVIOUS
    <3>. QED
      BY <1>1, <3>1 DEF IsText, IsAttribute, isOperand, isRefTerm, minReferencedVariablePathSize
  <2>. QED
    BY <1>1, <2>1, <2>2 DEF isSQLExpression, termsArraySize
<1>3. first # {} /\ second # {}
  BY <1>1 DEF getOperand, IsText, IsAttribute
<1>4. e.negated <=> first # second
  BY <1>1, <1>2, <1>3, OperandsAreValues
<1>5. ~isPayload(terms[2]) /\ ~isPayload(terms[3])
  BY <1>2, OperandsAreValues
<1>6. getSQLExpression(terms, c) = IF e.negated THEN sqlFalse ELSE sqlTrue
  BY <1>3, <1>4, <1>5 DEF getSQLExpression
<1>7. handleTermsArray(terms, e.negated, c) = sqlTrue
  BY <1>2, <1>6 DEF handleTermsArray, sqlNot, sqlTrue, sqlFalse
<1>. QED
  BY <1>7 DEF handleExpression

\* A well-formed answer of the kind that is meant is translated exactly: on a cluster
\* that it allows, and that has the attributes it refers to, the condition is true.
THEOREM FilterIsExact ==
    ASSUME NEW a, NEW c, IsAnswer(a), IsMeant(a, c), IsWellFormed(a), HasAttributes(a, c),
           Allows(a, c)
    PROVE  filterByAuthorization(a, c) = sqlTrue
<1>1. PICK q \in a : \A e \in q : Holds(e, c)
  BY DEF Allows
<1>2. /\ a # None /\ Malformed \notin a
      /\ RefersToCluster(a) /\ HasStrings(a, c) /\ ~isMisquoted(a)
      /\ \A query \in a : \A e \in query : e # Malformed /\ e.negated \in BOOLEAN
  BY PlainIsNotMisquoted DEF IsWellFormed, IsAnswer, IsMeant, Expressions
<1>3. CASE q = {}
  <2>1. a = {{}}
    BY <1>1, <1>3 DEF IsWellFormed
  <2>. QED
    BY <2>1, FilterAssumption DEF filterByAuthorization, allowAll
<1>4. CASE q # {}
  <2> DEFINE V == {handleQuery(query, c) : query \in a \ {Malformed, {}}} \cup {sqlFalse}
  <2>1. handleQuery(q, c) = sqlTrue
    <3> DEFINE W == {handleExpression(e, c) : e \in q} \cup {sqlTrue}
    <3>1. \A e \in q : handleExpression(e, c) = sqlTrue
      <4> TAKE e \in q
      <4>1. Len(e.terms) = 3 /\ Holds(e, c) /\ e # Malformed
        BY <1>1, <1>2 DEF Holds
      <4>2. \A i \in {2, 3} : e.terms[i] \in Operands(a)
        BY <1>2, <4>1, OperandsOfExpression
      <4>3. \A i \in {2, 3} : e.terms[i].path # Malformed => Len(e.terms[i].path) \in Nat
        BY <1>2, <4>1, OperandsOfExpression DEF IsAnswer
      <4>. QED
        BY <1>2, <4>1, <4>2, <4>3, OperandsAreMeant, ExpressionIsExact DEF HasAttributes
    <3>2. W = {sqlTrue}
      BY <3>1
    <3>. QED
      BY <3>2 DEF handleQuery, sqlAnd, sqlTrue, sqlFalse, sqlNull
  <2>2. sqlTrue \in V
    BY <1>1, <1>2, <1>4, <2>1
  <2>3. \A query \in a : handleQuery(query, c) # "refused"
    <3>1. TAKE query \in a
    <3> DEFINE W == {handleExpression(e, c) : e \in query} \cup {sqlTrue}
    <3>2. \A e \in query : handleExpression(e, c) \in {sqlTrue, sqlFalse, sqlNull}
      BY <1>2, <3>1, OperandsAreMeant, TermsAreNotRefused DEF handleExpression
    <3>3. "refused" \notin W
      BY <3>2 DEF sqlTrue, sqlFalse, sqlNull
    <3> HIDE DEF W
    <3>4. sqlAnd(W) # "refused"
      BY <3>3 DEF sqlAnd, sqlTrue, sqlFalse, sqlNull
    <3>. QED
      BY <3>4 DEF handleQuery, W
  <2>4. "refused" \notin V
    BY <2>3 DEF sqlFalse
  <2>5. a \notin {{}, {{}}}
    BY <1>1, <1>4
  <2>6. filterByAuthorization(a, c) = sqlOr(V)
    BY <1>2, <2>5 DEF filterByAuthorization
  <2> HIDE DEF V
  <2>. QED
    BY <2>2, <2>4, <2>6 DEF sqlOr
<1>. QED
  BY <1>3, <1>4

------------------------------------------------------------------------------
(* The requests for managed clusters *)

\* The authorization is replaced only when nothing is shown.
WatchIInv ==
    /\ ShownIsAllowed
    /\ answer \in Answers \cup {None}
    /\ request = "sent" => DOMAIN view = {}

\* What a client is sent of the selected rows is allowed.
LEMMA ViewsAreAllowed ==
    ASSUME answer \in Answers \cup {None}, NEW read \in SUBSET sqlQuery(answer),
           NEW shown \in Views(read), NEW name \in DOMAIN shown, IsMeant(answer, shown[name])
    PROVE  Allows(answer, shown[name])
<1>1. PICK k \in read : shown[name] = clusters[k]
  BY DEF Views
<1>2. filterByAuthorization(answer, clusters[k]) = sqlTrue
  BY <1>1 DEF sqlQuery
<1>3. IsAnswer(answer)
  BY AnswersAssumption DEF IsAnswer
<1>. QED
  BY <1>1, <1>2, <1>3, FilterIsSound

\* No request has been made.
LEMMA InitWatchIInv == WatchInit => WatchIInv
BY DEF WatchInit, WatchIInv, ShownIsAllowed

\* Every step of a request and of the rows preserves the invariant.
LEMMA NextWatchIInv == WatchIInv /\ [WatchNext]_watchVars => WatchIInv'
<1> SUFFICES ASSUME WatchIInv, [WatchNext]_watchVars PROVE WatchIInv'
  OBVIOUS
<1> USE DEF WatchIInv, ShownIsAllowed
<1>1. CASE Send
  BY <1>1 DEF Send
<1>2. CASE Authentication
  BY <1>2 DEF Authentication
<1>3. CASE handleRows
  <2>1. PICK read \in SUBSET sqlQuery(answer) : view' \in Views(read)
    BY <1>3 DEF handleRows
  <2>. QED
    BY <1>3, <2>1, ViewsAreAllowed DEF handleRows
<1>4. CASE doHandleRowsForWatch
  <2>1. PICK read \in SUBSET sqlQuery(answer) : \E sent \in Views(read) :
          \E kept \in SUBSET DOMAIN view :
            view' = [name \in DOMAIN sent \cup kept |->
                       IF name \in DOMAIN sent THEN sent[name] ELSE view[name]]
    BY <1>4 DEF doHandleRowsForWatch
  <2>2. PICK sent \in Views(read) : \E kept \in SUBSET DOMAIN view :
          view' = [name \in DOMAIN sent \cup kept |->
                     IF name \in DOMAIN sent THEN sent[name] ELSE view[name]]
    BY <2>1
  <2>3. \A name \in DOMAIN view' :
          \/ name \in DOMAIN sent /\ view'[name] = sent[name]
          \/ name \in DOMAIN view /\ view'[name] = view[name]
    BY <2>2
  <2>4. \A name \in DOMAIN sent : IsMeant(answer, sent[name]) => Allows(answer, sent[name])
    BY <2>1, ViewsAreAllowed
  <2>. QED
    BY <1>4, <2>3, <2>4 DEF doHandleRowsForWatch
<1>5. CASE CloseNotify
  BY <1>5 DEF CloseNotify
<1>6. CASE \E k \in ClusterKeys, c \in ClusterAttributes \cup {None} : ChangeCluster(k, c)
  BY <1>6 DEF ChangeCluster
<1>7. CASE UNCHANGED watchVars
  BY <1>7 DEF watchVars
<1>. QED
  BY <1>1, <1>2, <1>3, <1>4, <1>5, <1>6, <1>7 DEF WatchNext

\* A step of the two readers together is a step of each or leaves it alone.
LEMMA ReadersAreApart ==
    /\ ReadersInit => StatusInit /\ WatchInit
    /\ [ReadersNext]_readerVars => [StatusNext]_statusVars /\ [WatchNext]_watchVars
BY DEF ReadersInit, ReadersNext, readerVars

\* Clients are shown only clusters that the authorization allowed, as they were then,
\* when its answer refers to string attributes of input.cluster with plain texts.
THEOREM ClientsAreShownTheAllowed == ReadersSpec => []ShownIsAllowed
<1>1. WatchIInv => ShownIsAllowed
  BY DEF WatchIInv
<1>. QED
  BY <1>1, InitWatchIInv, NextWatchIInv, ReadersAreApart, PTL DEF ReadersSpec

------------------------------------------------------------------------------
(* The status syncers *)

Lists == {<< >>} \cup UNION {[hubs -> Values] : hubs \in SUBSET LeafHubs}
Summaries == {sumOfRows(found) : found \in Lists} \cup {0, compliant, nonCompliant}
StatusResource == [uid : Nat, list : Lists, summary : Summaries, placement : BOOLEAN]
Fields == {"list", "summary", "placement"}
Handler == [uid : Nat, instance : StatusResource \cup {Nil}, found : Lists \cup {Nil}]
Request == [op : {"patch", "create"}, resource : StatusResource, fields : SUBSET Fields]

StatusTypeOK ==
    /\ kind \in OwnStatusKinds \cup CreatedKinds
    /\ owner \in Nat
    /\ uids \in Nat
    /\ specRow \in Nat
    /\ rows \in [LeafHubs -> [uid : Nat, value : Values] \cup {Nil}]
    /\ versions \in Seq(StatusResource \cup {Nil})
    /\ versions # << >>
    /\ handler \in Handler \cup {Nil}
    /\ requests \in SUBSET Request
    /\ binding \in BOOLEAN
    /\ boundUIDs \in SUBSET (0..uids)
    /\ budget \in [uids : Nat, writes : Nat, faults : Nat]

\* No request on its way changes what the binding controller wrote: a patch holds
\* the fields the syncer changed, and what shows a policy's status is not created.
RequestsKeepBinding ==
    \A r \in requests :
        /\ r.fields \subseteq {"list", "summary"}
        /\ r.op = "create" => kind \in CreatedKinds

\* Only policies are bound, and a policy's UID was given out.
BoundArePolicies ==
    /\ kind # "policy" => ~binding /\ boundUIDs = {}
    /\ kind = "policy" /\ Deployed # Nil => Deployed.uid <= uids

StatusIInv == StatusTypeOK /\ RequestsKeepBinding /\ BoundArePolicies /\ BindingKept

\* The list of a resource with an empty status.
LEMMA EmptyList == << >> \in Lists
BY DEF Lists

\* A resource with an empty status.
LEMMA ResourceType == \A u \in Nat : Resource(u) \in StatusResource /\ Resource(u).uid = u
BY EmptyList DEF Resource, StatusResource, Summaries

\* Rows that were read make a list.
LEMMA FoundType ==
    ASSUME StatusTypeOK, NEW seen \in SUBSET rowsOfQuery
    PROVE  [h \in seen |-> rows[h].value] \in Lists
<1>1. seen \in SUBSET LeafHubs /\ \A h \in seen : rows[h].value \in Values
  BY DEF StatusTypeOK, rowsOfQuery
<1>2. [h \in seen |-> rows[h].value] \in [seen -> Values]
  BY <1>1
<1>. QED
  BY <1>1, <1>2 DEF Lists

\* Aggregating the rows changes the list and the summary of a resource, nothing else.
LEMMA AggregateType ==
    ASSUME NEW r \in StatusResource, handler.found \in Lists
    PROVE  /\ withAggregate(r) \in StatusResource
           /\ withAggregate(r).placement = r.placement
<1>1. complianceState(handler.found) \in Summaries /\ sumOfRows(handler.found) \in Summaries
  BY DEF complianceState, Summaries
<1>2. aggregatedSummary(handler.found) \in Summaries
  BY <1>1 DEF aggregatedSummary, Summaries
<1>3. aggregatedList(handler.found) \in Lists
  BY EmptyList DEF aggregatedList
<1>. QED
  BY <1>2, <1>3 DEF withAggregate, StatusResource

\* The API server's history after a version was stored.
LEMMA StoreType ==
    ASSUME StatusTypeOK, NEW x \in StatusResource \cup {Nil}, Store(x)
    PROVE  versions' \in Seq(StatusResource \cup {Nil}) /\ versions' # << >> /\ Deployed' = x
BY DEF StatusTypeOK, Store, Deployed

\* The cached and the deployed version.
LEMMA VersionsType ==
    ASSUME StatusTypeOK
    PROVE  Cached \in StatusResource \cup {Nil} /\ Deployed \in StatusResource \cup {Nil}
BY DEF StatusTypeOK, Cached, Deployed

\* There is no resource yet.
LEMMA InitStatusIInv == StatusInit => StatusIInv
<1> SUFFICES ASSUME StatusInit PROVE StatusIInv
  OBVIOUS
<1> USE DEF StatusInit
<1>1. versions \in Seq(StatusResource \cup {Nil}) /\ versions # << >> /\ Deployed = Nil
  BY DEF Deployed
<1>2. StatusTypeOK
  BY <1>1, StatusAssumption DEF StatusTypeOK
<1>3. RequestsKeepBinding /\ BoundArePolicies /\ BindingKept
  BY <1>1 DEF RequestsKeepBinding, BoundArePolicies, BindingKept
<1>. QED
  BY <1>2, <1>3 DEF StatusIInv

\* A fault uses up some of the budget.
LEMMA FaultType ==
    ASSUME StatusTypeOK, Fault
    PROVE  budget' \in [uids : Nat, writes : Nat, faults : Nat]
<1>1. PICK u \in Nat, w \in Nat, f \in Nat : budget = [uids |-> u, writes |-> w, faults |-> f]
  BY DEF StatusTypeOK
<1>2. f > 0 /\ budget' = [budget EXCEPT !.faults = f - 1]
  BY <1>1 DEF Fault
<1>. QED
  BY <1>1, <1>2

\* Steps that touch neither the resource, nor the requests, nor the binding.
LEMMA HandlerStepIInv ==
    ASSUME StatusIInv, StatusTypeOK',
           UNCHANGED <<kind, uids, versions, requests, binding, boundUIDs>>
    PROVE  StatusIInv'
<1>1. Deployed' = Deployed
  BY DEF Deployed
<1>. QED
  BY <1>1 DEF StatusIInv, RequestsKeepBinding, BoundArePolicies, BindingKept

\* A tick starts a goroutine.
LEMMA periodicSyncIInv ==
    ASSUME StatusIInv, periodicSync
    PROVE  StatusIInv'
<1>1. StatusTypeOK
  BY DEF StatusIInv
<1>2. handler' \in Handler
  BY <1>1, VersionsType DEF periodicSync, syncPolicies, Handler, StatusTypeOK
<1>3. budget' \in [uids : Nat, writes : Nat, faults : Nat]
  BY <1>1, FaultType DEF periodicSync, StatusTypeOK
<1>4. StatusTypeOK'
  BY <1>1, <1>2, <1>3 DEF StatusTypeOK, periodicSync
<1>. QED
  BY <1>4, HandlerStepIInv DEF periodicSync

\* The rows are read.
LEMMA getStatusIInv ==
    ASSUME StatusIInv, getStatus
    PROVE  StatusIInv'
<1>1. StatusTypeOK
  BY DEF StatusIInv
<1>2. handler' \in Handler \cup {Nil}
  <2>1. \A found \in Lists : [handler EXCEPT !.found = found] \in Handler
    BY <1>1 DEF getStatus, StatusTypeOK, Handler
  <2>. QED
    BY <1>1, <2>1, FoundType DEF getStatus
<1>3. budget' \in [uids : Nat, writes : Nat, faults : Nat]
  BY <1>1, FaultType DEF getStatus, StatusTypeOK
<1>4. StatusTypeOK'
  BY <1>1, <1>2, <1>3 DEF StatusTypeOK, getStatus
<1>. QED
  BY <1>4, HandlerStepIInv DEF getStatus

\* The status is sent: a patch of what changed, or the creation of the resource.
LEMMA updateStatusIInv ==
    ASSUME StatusIInv, updateStatus
    PROVE  StatusIInv'
<1>0. StatusTypeOK /\ RequestsKeepBinding /\ BoundArePolicies /\ BindingKept
  BY DEF StatusIInv
<1>1. /\ UNCHANGED <<kind, owner, uids, specRow, rows, versions, binding, boundUIDs, budget>>
      /\ handler # Nil /\ handler.found # Nil /\ handler' = Nil
  BY DEF updateStatus
<1>2. /\ handler.found \in Lists /\ handler.uid \in Nat
      /\ original \in StatusResource \cup {Nil}
  BY <1>0, <1>1, VersionsType DEF StatusTypeOK, Handler, original
<1>3. ASSUME requests' = requests \cup {statusRequest}, ~isBeingDeleted
      PROVE  /\ statusRequest \in Request
             /\ statusRequest.fields \subseteq {"list", "summary"}
             /\ statusRequest.op = "create" => kind \in CreatedKinds
  <2>1. CASE original # Nil
    <3>1. /\ withAggregate(original) \in StatusResource
          /\ withAggregate(original).placement = original.placement
      BY <1>2, <2>1, AggregateType
    <3>2. changedFields(withAggregate(original)) \subseteq {"list", "summary"}
      BY <3>1 DEF changedFields
    <3>. QED
      BY <2>1, <3>1, <3>2 DEF statusRequest, Request, Fields
  <2>2. CASE original = Nil
    <3>1. createdResource \in StatusResource
      BY <1>2, AggregateType, ResourceType DEF createdResource
    <3>2. kind \in CreatedKinds
      BY <1>0, <1>3, <2>2 DEF isBeingDeleted, StatusTypeOK
    <3>. QED
      BY <2>2, <3>1, <3>2 DEF statusRequest, Request
  <2>. QED
    BY <2>1, <2>2
<1>4. \/ requests' = requests
      \/ requests' = requests \cup {statusRequest} /\ ~isBeingDeleted
  BY DEF updateStatus
<1>5. StatusTypeOK'
  BY <1>0, <1>1, <1>3, <1>4 DEF StatusTypeOK
<1>6. RequestsKeepBinding'
  BY <1>0, <1>1, <1>3, <1>4 DEF RequestsKeepBinding
<1>7. BoundArePolicies' /\ BindingKept'
  BY <1>0, <1>1 DEF BoundArePolicies, BindingKept, Deployed
<1>. QED
  BY <1>5, <1>6, <1>7 DEF StatusIInv

\* A request reaches the API server.
LEMMA LandIInv ==
    ASSUME StatusIInv, NEW r \in requests, Land(r)
    PROVE  StatusIInv'
<1>0. StatusTypeOK /\ RequestsKeepBinding /\ BoundArePolicies /\ BindingKept
  BY DEF StatusIInv
<1>1. /\ UNCHANGED <<kind, owner, uids, specRow, rows, handler, binding, boundUIDs, budget>>
      /\ requests' = requests \ {r}
  BY DEF Land
<1>2. RequestsKeepBinding'
  BY <1>0, <1>1 DEF RequestsKeepBinding
<1>3. r \in Request /\ r.fields \subseteq {"list", "summary"}
      /\ (r.op = "create" => kind \in CreatedKinds)
  BY <1>0 DEF StatusTypeOK, RequestsKeepBinding
<1>4. CASE UNCHANGED versions
  <2>1. StatusTypeOK'
    BY <1>0, <1>1, <1>4 DEF StatusTypeOK
  <2>2. BoundArePolicies' /\ BindingKept'
    BY <1>0, <1>1, <1>4 DEF BoundArePolicies, BindingKept, Deployed
  <2>. QED
    BY <1>2, <2>1, <2>2 DEF StatusIInv
<1>5. CASE r.op = "create" /\ Store(r.resource)
  <2>1. r.resource \in StatusResource
    BY <1>3 DEF Request
  <2>2. versions' \in Seq(StatusResource \cup {Nil}) /\ versions' # << >>
    BY <1>0, <1>5, <2>1, StoreType
  <2>3. StatusTypeOK'
    BY <1>0, <1>1, <2>2 DEF StatusTypeOK
  <2>4. kind # "policy" /\ boundUIDs = {}
    BY <1>0, <1>3, <1>5 DEF CreatedKinds, BoundArePolicies
  <2>5. BoundArePolicies' /\ BindingKept'
    BY <1>0, <1>1, <2>4 DEF BoundArePolicies, BindingKept
  <2>. QED
    BY <1>2, <2>3, <2>5 DEF StatusIInv
<1>6. CASE /\ Deployed # Nil
           /\ Store([f \in DOMAIN Deployed |-> IF f \in r.fields THEN r.resource[f] ELSE Deployed[f]])
  <2> DEFINE d == [f \in DOMAIN Deployed |-> IF f \in r.fields THEN r.resource[f] ELSE Deployed[f]]
  <2>1. Deployed \in StatusResource /\ r.resource \in StatusResource
    BY <1>0, <1>3, <1>6, VersionsType DEF Request
  <2>2. d \in StatusResource /\ d.uid = Deployed.uid /\ d.placement = Deployed.placement
    BY <1>3, <2>1 DEF StatusResource
  <2> HIDE DEF d
  <2>3. versions' \in Seq(StatusResource \cup {Nil}) /\ versions' # << >> /\ Deployed' = d
    BY <1>0, <1>6, <2>2, StoreType DEF d
  <2>4. StatusTypeOK'
    BY <1>0, <1>1, <2>3 DEF StatusTypeOK
  <2>5. BoundArePolicies' /\ BindingKept'
    BY <1>0, <1>1, <1>6, <2>2, <2>3 DEF BoundArePolicies, BindingKept
  <2>. QED
    BY <1>2, <2>4, <2>5 DEF StatusIInv
<1>. QED
  BY <1>4, <1>5, <1>6 DEF Land

\* A request is lost.
LEMMA LoseRequestIInv ==
    ASSUME StatusIInv, LoseRequest
    PROVE  StatusIInv'
<1>1. /\ UNCHANGED <<kind, owner, uids, specRow, rows, versions, handler, binding, boundUIDs>>
      /\ requests' \subseteq requests
  BY DEF LoseRequest
<1>2. budget' \in [uids : Nat, writes : Nat, faults : Nat]
  BY FaultType DEF LoseRequest, StatusIInv
<1>3. StatusTypeOK'
  BY <1>1, <1>2 DEF StatusIInv, StatusTypeOK
<1>4. RequestsKeepBinding' /\ BoundArePolicies' /\ BindingKept'
  BY <1>1 DEF StatusIInv, RequestsKeepBinding, BoundArePolicies, BindingKept, Deployed
<1>. QED
  BY <1>3, <1>4 DEF StatusIInv

\* The cache catches up; what is deployed does not change.
LEMMA DeliverIInv ==
    ASSUME StatusIInv, Deliver
    PROVE  StatusIInv'
<1>1. /\ UNCHANGED <<kind, owner, uids, specRow, rows, handler, requests, binding, boundUIDs, budget>>
      /\ Len(versions) > 1 /\ versions' = Tail(versions)
  BY DEF Deliver
<1>2. versions \in Seq(StatusResource \cup {Nil}) /\ versions # << >>
  BY DEF StatusIInv, StatusTypeOK
<1>3. /\ versions' \in Seq(StatusResource \cup {Nil}) /\ versions' # << >>
      /\ versions'[Len(versions')] = versions[Len(versions)]
  <2> DEFINE S == StatusResource \cup {Nil}
             n == Len(versions)
  <2> HIDE DEF S
  <2>1. versions \in Seq(S) /\ n \in Nat
    BY <1>2 DEF S
  <2>2. /\ versions' \in Seq(S) /\ Len(versions') = n - 1
        /\ \A i \in 1..(n - 1) : versions'[i] = versions[i + 1]
    BY <1>1, <2>1
  <2>3. n - 1 \in 1..(n - 1) /\ n - 1 # 0 /\ (n - 1) + 1 = n
    BY <1>1, <2>1
  <2>4. versions'[n - 1] = versions[n]
    BY <2>2, <2>3
  <2>5. versions' # << >>
    BY <2>2, <2>3
  <2>. QED
    BY <2>2, <2>4, <2>5 DEF S
<1>4. Deployed' = Deployed
  BY <1>3 DEF Deployed
<1>5. StatusTypeOK'
  BY <1>1, <1>3 DEF StatusIInv, StatusTypeOK
<1>6. RequestsKeepBinding' /\ BoundArePolicies' /\ BindingKept'
  BY <1>1, <1>4 DEF StatusIInv, RequestsKeepBinding, BoundArePolicies, BindingKept
<1>. QED
  BY <1>5, <1>6 DEF StatusIInv

\* A resource whose owner is gone is removed.
LEMMA CollectGarbageIInv ==
    ASSUME StatusIInv, CollectGarbage
    PROVE  StatusIInv'
<1>1. /\ UNCHANGED <<kind, owner, uids, specRow, rows, handler, requests, binding, boundUIDs, budget>>
      /\ Store(Nil)
  BY DEF CollectGarbage
<1>2. versions' \in Seq(StatusResource \cup {Nil}) /\ versions' # << >> /\ Deployed' = Nil
  BY <1>1, StoreType DEF StatusIInv
<1>3. StatusTypeOK'
  BY <1>1, <1>2 DEF StatusIInv, StatusTypeOK
<1>4. RequestsKeepBinding' /\ BoundArePolicies' /\ BindingKept'
  BY <1>1, <1>2 DEF StatusIInv, RequestsKeepBinding, BoundArePolicies, BindingKept
<1>. QED
  BY <1>3, <1>4 DEF StatusIInv

\* The owner is deleted, or created anew with a UID that nothing was bound to.
LEMMA ChangeOwnerIInv ==
    ASSUME StatusIInv, ChangeOwner
    PROVE  StatusIInv'
<1>0. StatusTypeOK /\ RequestsKeepBinding /\ BoundArePolicies /\ BindingKept
  BY DEF StatusIInv
<1>1. /\ UNCHANGED <<kind, specRow, rows, handler, requests, binding, boundUIDs, budget>>
      /\ owner' \in {0, uids + 1} /\ uids' \in {uids, uids + 1} /\ uids \in Nat
  BY <1>0 DEF ChangeOwner, StatusTypeOK
<1>2. boundUIDs' \in SUBSET (0..uids')
  BY <1>0, <1>1 DEF StatusTypeOK
<1>3. CASE UNCHANGED versions /\ kind \notin OwnStatusKinds
  <2>1. StatusTypeOK'
    BY <1>0, <1>1, <1>2, <1>3 DEF StatusTypeOK
  <2>2. RequestsKeepBinding' /\ BoundArePolicies' /\ BindingKept'
    BY <1>0, <1>1, <1>3 DEF RequestsKeepBinding, BoundArePolicies, BindingKept, Deployed, OwnStatusKinds
  <2>. QED
    BY <2>1, <2>2 DEF StatusIInv
<1>4. ASSUME NEW x \in StatusResource \cup {Nil}, Store(x),
             x # Nil => x.uid = uids + 1 /\ uids' = uids + 1
      PROVE  StatusIInv'
  <2>1. versions' \in Seq(StatusResource \cup {Nil}) /\ versions' # << >> /\ Deployed' = x
    BY <1>0, <1>4, StoreType
  <2>2. StatusTypeOK'
    BY <1>0, <1>1, <1>2, <2>1 DEF StatusTypeOK
  <2>3. uids + 1 \notin boundUIDs
    BY <1>0, <1>1 DEF StatusTypeOK
  <2>4. RequestsKeepBinding' /\ BoundArePolicies' /\ BindingKept'
    BY <1>0, <1>1, <1>4, <2>1, <2>3 DEF RequestsKeepBinding, BoundArePolicies, BindingKept
  <2>. QED
    BY <2>2, <2>4 DEF StatusIInv
<1>5. Resource(uids + 1) \in StatusResource /\ Resource(uids + 1).uid = uids + 1
  BY <1>1, ResourceType
<1>6. \/ UNCHANGED versions /\ kind \notin OwnStatusKinds
      \/ Store(Resource(uids + 1)) /\ uids' = uids + 1
      \/ Store(Nil)
  BY DEF ChangeOwner
<1>. QED
  BY <1>3, <1>4, <1>5, <1>6

\* The owner's row of the spec database follows.
LEMMA SyncSpecRowIInv ==
    ASSUME StatusIInv, SyncSpecRow
    PROVE  StatusIInv'
<1>1. StatusTypeOK'
  BY DEF StatusIInv, StatusTypeOK, SyncSpecRow
<1>. QED
  BY <1>1, HandlerStepIInv DEF SyncSpecRow

\* A leaf hub's row changes.
LEMMA WriteRowIInv ==
    ASSUME StatusIInv, NEW h \in LeafHubs, NEW v \in Values \cup {Nil}, WriteRow(h, v)
    PROVE  StatusIInv'
<1>1. StatusTypeOK
  BY DEF StatusIInv
<1>2. rows' \in [LeafHubs -> [uid : Nat, value : Values] \cup {Nil}]
  BY <1>1 DEF StatusTypeOK, WriteRow
<1>3. budget' \in [uids : Nat, writes : Nat, faults : Nat]
  <2>1. PICK u \in Nat, w \in Nat, f \in Nat : budget = [uids |-> u, writes |-> w, faults |-> f]
    BY <1>1 DEF StatusTypeOK
  <2>2. w > 0 /\ budget' = [budget EXCEPT !.writes = w - 1]
    BY <2>1 DEF WriteRow
  <2>. QED
    BY <2>1, <2>2
<1>4. StatusTypeOK'
  BY <1>1, <1>2, <1>3 DEF StatusTypeOK, WriteRow
<1>. QED
  BY <1>4, HandlerStepIInv DEF WriteRow

\* The binding controller writes to the policy that is deployed.
LEMMA reconcileBindingIInv ==
    ASSUME StatusIInv, reconcileBinding
    PROVE  StatusIInv'
<1>0. StatusTypeOK /\ RequestsKeepBinding /\ BoundArePolicies /\ BindingKept
  BY DEF StatusIInv
<1>1. /\ UNCHANGED <<kind, owner, uids, specRow, rows, handler, requests, budget>>
      /\ binding /\ kind = "policy" /\ binding' \in {binding, FALSE}
  BY <1>0 DEF reconcileBinding, BoundArePolicies
<1>2. CASE UNCHANGED <<versions, boundUIDs>>
  <2>1. StatusTypeOK'
    BY <1>0, <1>1, <1>2 DEF StatusTypeOK
  <2>2. RequestsKeepBinding' /\ BoundArePolicies' /\ BindingKept'
    BY <1>0, <1>1, <1>2 DEF RequestsKeepBinding, BoundArePolicies, BindingKept, Deployed
  <2>. QED
    BY <2>1, <2>2 DEF StatusIInv
<1>3. CASE /\ Deployed # Nil /\ Store([Deployed EXCEPT !.placement = TRUE])
           /\ boundUIDs' = boundUIDs \cup {Deployed.uid}
  <2> DEFINE d == [Deployed EXCEPT !.placement = TRUE]
  <2>1. Deployed \in StatusResource /\ Deployed.uid \in Nat /\ Deployed.uid <= uids
    BY <1>0, <1>1, <1>3, VersionsType DEF BoundArePolicies, StatusResource
  <2>2. d \in StatusResource /\ d.uid = Deployed.uid /\ d.placement = TRUE
    BY <2>1 DEF StatusResource
  <2> HIDE DEF d
  <2>3. versions' \in Seq(StatusResource \cup {Nil}) /\ versions' # << >> /\ Deployed' = d
    BY <1>0, <1>3, <2>2, StoreType DEF d
  <2>4. boundUIDs' \in SUBSET (0..uids')
    BY <1>0, <1>1, <1>3, <2>1 DEF StatusTypeOK
  <2>5. StatusTypeOK'
    BY <1>0, <1>1, <2>3, <2>4 DEF StatusTypeOK
  <2>6. RequestsKeepBinding' /\ BoundArePolicies' /\ BindingKept'
    BY <1>0, <1>1, <2>1, <2>2, <2>3 DEF RequestsKeepBinding, BoundArePolicies, BindingKept
  <2>. QED
    BY <2>5, <2>6 DEF StatusIInv
<1>. QED
  BY <1>2, <1>3 DEF reconcileBinding

\* Every step preserves the invariant.
LEMMA NextStatusIInv == StatusIInv /\ [StatusNext]_statusVars => StatusIInv'
<1> SUFFICES ASSUME StatusIInv, [StatusNext]_statusVars PROVE StatusIInv'
  OBVIOUS
<1>1. CASE UNCHANGED statusVars
  <2>1. StatusTypeOK'
    BY <1>1 DEF statusVars, StatusIInv, StatusTypeOK
  <2>. QED
    BY <1>1, <2>1, HandlerStepIInv DEF statusVars
<1>. QED
  BY <1>1, periodicSyncIInv, getStatusIInv, updateStatusIInv, LandIInv, LoseRequestIInv,
     DeliverIInv, CollectGarbageIInv, ChangeOwnerIInv, SyncSpecRowIInv, WriteRowIInv,
     reconcileBindingIInv DEF StatusNext, Handle

\* A policy that the binding controller patched keeps the binding for as long as it
\* lives, although the syncers patch the same status from stale copies of it.
THEOREM BindingsAreKept == ReadersSpec => []BindingKept
<1>1. StatusIInv => BindingKept
  BY DEF StatusIInv
<1>. QED
  BY <1>1, InitStatusIInv, NextStatusIInv, ReadersAreApart, PTL DEF ReadersSpec
================================================================================
