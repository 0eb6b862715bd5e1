------------------------- MODULE AuthorizationFilter -------------------------
(***************************************************************************)
(* The translation of the authorization service's answer into a condition  *)
(* on the rows of managed clusters, with the value that the database gives *)
(* the condition.                                                          *)
(*                                                                         *)
(* An answer is None when the request failed or was answered with something *)
(* else than a map, or a set of queries; a query is a set of expressions   *)
(* to be met together; an expression is a sequence of terms, the first one *)
(* the operator, and may be negated.  A query or an expression of another  *)
(* form is Malformed.                                                      *)
(*                                                                         *)
(* A term has a type; one of type "string" has a text and one of type      *)
(* "ref" a path, each Malformed when the value of the term is something    *)
(* else.  A path is a sequence of parts with a type and a text.  A term or *)
(* a part that is no map, or lacks its type or value, is one of another    *)
(* type.                                                                   *)
(*                                                                         *)
(* A cluster is the function from the paths of the attributes it has to    *)
(* their values, each of which has a type and a text; an attribute that is *)
(* null is none.                                                           *)
(***************************************************************************)
EXTENDS Integers, Sequences, FiniteSets

CONSTANTS
    None, Malformed,
    TextsWithApostrophe, \* texts that quoting does not leave what they are
    misquoted            \* what the database makes of a condition with such a text

\* A failed request is no answer, nothing malformed is a query, and neither is a text.
ASSUME FilterAssumption ==
    /\ None \notin {{}, {{}}}
    /\ None # "eq"
    /\ Malformed # {}

------------------------------------------------------------------------------
(* SQL conditions, external: "refused" is a condition that does not parse *)

sqlFalse == "false"
sqlTrue == "true"
sqlNull == "null"

sqlNot(v) == CASE v = sqlTrue -> sqlFalse [] v = sqlFalse -> sqlTrue [] OTHER -> v

sqlAnd(values) ==
    IF "refused" \in values THEN "refused"
    ELSE IF sqlFalse \in values THEN sqlFalse
    ELSE IF sqlNull \in values THEN sqlNull
    ELSE sqlTrue

sqlOr(values) ==
    IF "refused" \in values THEN "refused"
    ELSE IF sqlTrue \in values THEN sqlTrue
    ELSE IF sqlNull \in values THEN sqlNull
    ELSE sqlFalse

------------------------------------------------------------------------------
(* The translation, with the value of its parts on a cluster *)

\* What the authorization asks of a cluster that no expression can be made from.
denyAll == sqlFalse
allowAll == sqlTrue

termsArraySize == 3

getOperator(term) ==
    IF term.type = "ref" /\ term.path # Malformed /\ Len(term.path) = 1 /\ term.path[1].type = "var"
      THEN term.path[1].text ELSE None

minReferencedVariablePathSize == 2

\* handleRefTerm returns no error.  One of the first two parts need only be as expected.
isRefTerm(path) ==
    /\ path # Malformed
    /\ Len(path) >= minReferencedVariablePathSize
    /\ path[1].type = "var"
    /\ path[2].type = "string"
    /\ path[1].text = "input" \/ path[2].text = "cluster"
    /\ \A i \in 3..Len(path) : path[i].type = "string"

isOperand(term) ==
    \/ term.type = "string" /\ term.text # Malformed
    \/ term.type = "ref" /\ isRefTerm(term.path)

\* getSQLExpression returns no error.
isSQLExpression(terms) ==
    /\ Len(terms) = termsArraySize
    /\ getOperator(terms[1]) = "eq"
    /\ isOperand(terms[2])
    /\ isOperand(terms[3])

\* What follows the first two parts of a path, whatever these are.
AttributePath(path) == [i \in 1..(Len(path) - 2) |-> path[i + 2].text]

\* A path of two parts is the payload itself.
isPayload(term) == term.type = "ref" /\ Len(term.path) = 2

\* The text that an operand is on a cluster, or none: a reference is the text of the
\* attribute, of whatever type the attribute is, and NULL when there is no attribute.
getOperand(term, cluster) ==
    IF term.type = "string" THEN {term.text}
    ELSE {cluster[attribute].text : attribute \in {AttributePath(term.path)} \cap DOMAIN cluster}

\* The payload is compared with the payload; a text beside it is refused, being no JSON.
getSQLExpression(terms, cluster) ==
    LET first == getOperand(terms[2], cluster)
        second == getOperand(terms[3], cluster)
    IN  IF isPayload(terms[2]) /\ isPayload(terms[3]) THEN sqlTrue
        ELSE IF isPayload(terms[2]) \/ isPayload(terms[3]) THEN "refused"
        ELSE IF {} \in {first, second} THEN sqlNull
        ELSE IF first = second THEN sqlTrue ELSE sqlFalse

\* Mutant: terms that cannot be translated are FALSE, also below a NOT.
handleTermsArrayAlwaysFalse(terms, negated, cluster) ==
    LET value == IF isSQLExpression(terms) THEN getSQLExpression(terms, cluster) ELSE sqlFalse
    IN  IF negated THEN sqlNot(value) ELSE value

\* Terms that cannot be translated are written so that the expression is false.
handleTermsArray(terms, negated, cluster) ==
    LET value == CASE isSQLExpression(terms) -> getSQLExpression(terms, cluster)
                   [] ~isSQLExpression(terms) /\ negated -> sqlTrue
                   [] OTHER -> sqlFalse
    IN  IF negated THEN sqlNot(value) ELSE value

\* A malformed expression closes a parenthesis that is closed again later.
handleExpression(expression, cluster) ==
    IF expression = Malformed THEN "refused"
    ELSE handleTermsArray(expression.terms, expression.negated, cluster)

handleQuery(query, cluster) ==
    sqlAnd({handleExpression(expression, cluster) : expression \in query} \cup {sqlTrue})

\* The expressions of all queries.
Expressions(answer) == UNION (answer \ {Malformed}) \ {Malformed}

\* The texts that are put between quotes, as they are.
writtenTexts(term) ==
    IF term.type = "string" THEN {term.text}
    ELSE {term.path[i].text : i \in 3..Len(term.path)}

\* A text does not end at the quote that was written to end it.
isMisquoted(answer) ==
    \E e \in Expressions(answer) :
        /\ isSQLExpression(e.terms)
        /\ \E i \in {2, 3} : writtenTexts(e.terms[i]) \cap TextsWithApostrophe # {}

\* The value of the condition on a cluster.  A query that is no array is left out,
\* and so is an empty one unless it is the only one.
filterByAuthorization(answer, cluster) ==
    CASE answer = None -> denyAll
      [] answer = {} -> denyAll
      [] answer = {{}} -> allowAll
      [] OTHER ->
           IF isMisquoted(answer) THEN misquoted
           ELSE sqlOr({handleQuery(query, cluster) : query \in answer \ {Malformed, {}}}
                      \cup {sqlFalse})

------------------------------------------------------------------------------
(* What the answer means, apart from its translation: some query holds *)

typed(type, text) == [type |-> type, text |-> text]

\* A text, or a reference to an attribute of input.cluster.
IsText(term) == term.type = "string" /\ term.text # Malformed

IsAttribute(term) ==
    /\ term.type = "ref" /\ term.path # Malformed
    /\ Len(term.path) > 2
    /\ term.path[1].type = "var" /\ term.path[1].text = "input"
    /\ term.path[2].type = "string" /\ term.path[2].text = "cluster"
    /\ \A i \in 3..Len(term.path) : term.path[i].type = "string"

IsEquality(term) ==
    /\ term.type = "ref" /\ term.path # Malformed
    /\ Len(term.path) = 1
    /\ term.path[1].type = "var" /\ term.path[1].text = "eq"

\* The value that a text or an attribute has, or none.
ValuesOf(term, cluster) ==
    IF IsText(term) THEN {typed("string", term.text)}
    ELSE {typed(cluster[attribute].type, cluster[attribute].text) :
            attribute \in {AttributePath(term.path)} \cap DOMAIN cluster}

\* An equality of texts and attributes holds when both have one value, and a negated
\* one when they have not.  Nothing is known to hold of other expressions.
Holds(expression, cluster) ==
    /\ expression # Malformed
    /\ LET terms == expression.terms
           isEqual == ValuesOf(terms[2], cluster) \cap ValuesOf(terms[3], cluster) # {}
       IN  /\ Len(terms) = 3
           /\ IsEquality(terms[1])
           /\ \A i \in {2, 3} : IsText(terms[i]) \/ IsAttribute(terms[i])
           /\ expression.negated # isEqual

Allows(answer, cluster) ==
    /\ answer # None
    /\ \E query \in answer \ {Malformed} : \A e \in query : Holds(e, cluster)

------------------------------------------------------------------------------
(* Answers that the translation is meant for *)

\* What the code decodes: "negated" is a Boolean, and a path has a length.
IsAnswer(answer) ==
    answer # None => \A e \in Expressions(answer) :
        /\ e.negated \in BOOLEAN
        /\ \A i \in 1..Len(e.terms) :
              e.terms[i].path # Malformed => Len(e.terms[i].path) \in Nat

\* The terms after the operator.
Operands(answer) ==
    UNION {{e.terms[i] : i \in 2..Len(e.terms)} : e \in Expressions(answer)}

\* The texts that a term is made of.
Texts(term) ==
    IF term.type = "ref" /\ term.path # Malformed
      THEN {term.path[i].text : i \in 1..Len(term.path)} ELSE {term.text}

\* A reference is one into input.cluster: all else was known to the service, which is
\* asked to leave only input.cluster open.
RefersToCluster(answer) ==
    \A term \in Operands(answer) :
        term.type = "ref" /\ term.path # Malformed /\ Len(term.path) >= 2 =>
            Len(term.path) > 2 /\ term.path[1].text = "input" /\ term.path[2].text = "cluster"

\* No text needs escaping.
HasPlainTexts(answer) ==
    \A term \in Operands(answer) : Texts(term) \cap TextsWithApostrophe = {}

\* The attributes of a cluster that an answer refers to are strings.
HasStrings(answer, cluster) ==
    \A term \in Operands(answer) :
        IsAttribute(term) /\ AttributePath(term.path) \in DOMAIN cluster =>
            cluster[AttributePath(term.path)].type = "string"

\* The answer is of the kind that is meant, for a cluster.
IsMeant(answer, cluster) ==
    answer # None =>
        RefersToCluster(answer) /\ HasPlainTexts(answer) /\ HasStrings(answer, cluster)

\* The forms of answer that are translated exactly: every query is an array of
\* expressions, and no query is empty among others.
IsWellFormed(answer) ==
    /\ answer # None
    /\ Malformed \notin answer
    /\ \A query \in answer : Malformed \notin query
    /\ {} \in answer => answer = {{}}

\* The cluster has every attribute that the answer refers to.
HasAttributes(answer, cluster) ==
    \A term \in Operands(answer) : IsAttribute(term) => AttributePath(term.path) \in DOMAIN cluster
==============================================================================
