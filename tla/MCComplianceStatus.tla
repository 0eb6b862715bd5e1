--------------------------- MODULE MCComplianceStatus ---------------------------
(***************************************************************************)
(* Instances of ComplianceStatus for TLC.                                  *)
(***************************************************************************)
EXTENDS ComplianceStatus, TLC

CONSTANTS p1, p2, c1

TwoPolicies == {p1, p2}
OneCluster == {c1}
CompliantOrNot == {"compliant", "non_compliant"}
PolicySymmetry == Permutations(Policies)
==============================================================================
