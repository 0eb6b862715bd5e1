----------------------------- MODULE IntervalPolicy -----------------------------
(***************************************************************************)
(* The exponential backoff of the database-to-transport syncers.  A policy *)
(* is the interval in use, the one NextBackOff returns next and the number *)
(* of evaluations since the interval last changed.                         *)
(***************************************************************************)
EXTENDS Naturals

CONSTANTS
    InitialInterval,                          \* as configured; nothing compares it to maxInterval
    maxInterval,
    consecutiveEvaluationsBeforeNextBackoff

\* A ticker cannot be made of an interval that is not positive.
ASSUME IntervalAssumption ==
    /\ InitialInterval \in Nat \ {0}
    /\ maxInterval \in Nat
    /\ consecutiveEvaluationsBeforeNextBackoff \in Nat \ {0}

baseFactor == 2

\* Mutant: the interval is doubled without a limit.
incrementUnlimited(interval) == interval * baseFactor

\* The backoff library doubles the interval up to the limit, or takes it back to it.
increment(interval) ==
    IF interval * baseFactor >= maxInterval THEN maxInterval ELSE interval * baseFactor

\* A new policy, and one that was reset: NextBackOff returned the initial interval.
NewPolicy == [interval |-> InitialInterval, next |-> increment(InitialInterval), count |-> 0]

Evaluate(policy) ==
    IF policy.count + 1 = consecutiveEvaluationsBeforeNextBackoff
      THEN [interval |-> policy.next, next |-> increment(policy.next), count |-> 0]
      ELSE [policy EXCEPT !.count = @ + 1]
==============================================================================
