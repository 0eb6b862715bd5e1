--------------------------- MODULE MCStatusReaders ---------------------------
EXTENDS StatusReaders, TLC

CONSTANTS h1, h2

TwoHubs == {h1, h2}
TwoValues == {compliant, nonCompliant}

\* The owner is re-created once, or rows change twice; or the syncers rest.
MCStatusBudgets ==
    {[uids |-> 2, writes |-> 1, faults |-> 1],
     [uids |-> 1, writes |-> 2, faults |-> 1],
     [uids |-> 0, writes |-> 0, faults |-> 0]}

MCWatchBudgets ==
    {[requests |-> 1, changes |-> 1, faults |-> 1],
     [requests |-> 0, changes |-> 0, faults |-> 0]}

\* A cluster name that two leaf hubs have, and another one.
MCClusterKeys ==
    {[hub |-> h1, name |-> "c1"], [hub |-> h2, name |-> "c1"], [hub |-> h1, name |-> "c2"]}

\* A cluster that has the string "x" and the number "y", and one that has neither.
MCClusterAttributes ==
    {(<<"x">> :> typed("string", "a")) @@ (<<"y">> :> typed("number", "1")),
     << >>}

ref(path) == [type |-> "ref", text |-> None, path |-> path]
text(value) == [type |-> "string", text |-> value, path |-> << >>]
operator(name) == ref(<<typed("var", name)>>)
attribute(name) == ref(<<typed("var", "input"), typed("string", "cluster"), typed("string", name)>>)
equality(first, second) == <<operator("eq"), first, second>>

\* Two equalities, an unknown operator, and too few terms.
MCTerms ==
    {equality(attribute("x"), text("a")), equality(text("b"), attribute("x")),
     <<operator("lt"), attribute("x"), text("b")>>, <<operator("eq"), attribute("x")>>}

\* Operands that are not translated: of another type, of a value of another type, and
\* paths that are too short, elsewhere, or with parts of other types.
UntranslatedOperands ==
    {[type |-> "number", text |-> "1", path |-> << >>], text(Malformed), ref(Malformed),
     ref(<<typed("var", "input")>>),
     ref(<<typed("var", "data"), typed("string", "user"), typed("string", "x")>>),
     ref(<<typed("string", "input"), typed("string", "cluster"), typed("string", "x")>>),
     ref(<<typed("var", "input"), typed("var", "cluster"), typed("string", "x")>>),
     ref(<<typed("var", "input"), typed("string", "cluster"), typed("number", "x")>>)}

\* Operands that are translated to something else than they mean: half of input.cluster,
\* the payload, a number, and texts with an apostrophe.
MistranslatedOperands ==
    {ref(<<typed("var", "data"), typed("string", "cluster"), typed("string", "x")>>),
     ref(<<typed("var", "input"), typed("string", "user"), typed("string", "x")>>),
     ref(<<typed("var", "input"), typed("string", "cluster")>>),
     attribute("y"), text("a'"), attribute("x'")}

MCOtherTerms ==
    {equality(operand, text("a")) : operand \in UntranslatedOperands \cup MistranslatedOperands}
        \cup {equality(text("1"), attribute("y")), equality(attribute("y"), attribute("x"))}

MCExpressions == [terms : MCTerms, negated : BOOLEAN] \cup {Malformed}

ShortQueries == {{e} : e \in MCExpressions} \cup {{}, Malformed}
LongQueries == {{e, f} : e, f \in MCExpressions}

OtherQueries == {{e} : e \in [terms : MCOtherTerms, negated : BOOLEAN]}

\* Up to two queries of up to one expression, one query of two, and one expression with
\* another operand.
MCAnswers ==
    {None, {}} \cup {{q} : q \in ShortQueries \cup LongQueries \cup OtherQueries}
               \cup {{q, r} : q, r \in ShortQueries}
==============================================================================
