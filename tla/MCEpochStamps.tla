--------------------------- MODULE MCEpochStamps ---------------------------
(***************************************************************************)
(* Three nodes and two types: a producer of what another one reads, and a  *)
(* node that reads both types.                                             *)
(***************************************************************************)
EXTENDS EpochStamps

Inputs == [gate |-> {"code"}, owner |-> {}, audit |-> {"code", "spec"}]
============================================================================
