----------------------------- MODULE MCDBToTransport -----------------------------
(***************************************************************************)
(* Instances of DBToTransport for TLC.                                     *)
(***************************************************************************)
EXTENDS DBToTransport, TLC

CONSTANTS o1, o2

TwoObjects == {o1, o2}
==============================================================================
