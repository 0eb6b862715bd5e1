--------------------------- MODULE MCDatabaseWriters ---------------------------
(***************************************************************************)
(* Instances of DatabaseWriters for TLC.                                   *)
(***************************************************************************)
EXTENDS DatabaseWriters, TLC

CONSTANTS a, b, h1, h2, n1, g1

TwoContents == {a, b}
TwoHubs == {h1, h2}
OneName == {n1}
OneOrigin == {g1}
==============================================================================
