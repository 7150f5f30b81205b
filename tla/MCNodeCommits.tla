--------------------------- MODULE MCNodeCommits ---------------------------
(* A tree of the engine's own file and two others, for TLC. *)
EXTENDS NodeCommits
============================================================================
