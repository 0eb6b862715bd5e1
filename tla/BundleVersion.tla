---------------------------- MODULE BundleVersion ----------------------------
(***************************************************************************)
(* Versions of status bundles (pkg/bundle/status/bundle_version.go).       *)
(* A sender counts its restarts in the incarnation and the bundles of one  *)
(* incarnation in the generation.                                          *)
(***************************************************************************)
EXTENDS Naturals

BundleVersions == [incarnation : Nat, generation : Nat]

NewBundleVersion(incarnation, generation) ==
    [incarnation |-> incarnation, generation |-> generation]

\* noBundleVersion(): nothing of this type has been processed yet.
noBundleVersion == NewBundleVersion(0, 0)

\* (v).NewerThan(other) for a non-nil other.
NewerThan(v, other) ==
    IF v.incarnation = other.incarnation
      THEN v.generation > other.generation
      ELSE v.incarnation > other.incarnation

\* (v).Equals(other)
Equals(v, other) ==
    /\ v.incarnation = other.incarnation
    /\ v.generation = other.generation
==============================================================================
