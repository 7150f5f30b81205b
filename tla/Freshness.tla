----------------------------- MODULE Freshness -----------------------------
(***************************************************************************)
(* Incremental rebuild, as the frontier sees it: a completed node is fresh *)
(* until a type among its inputs is produced again, or declared            *)
(* untrustworthy, after the node ran.  EpochStamps keeps the version       *)
(* numbers this stands for.                                                *)
(***************************************************************************)
CONSTANTS Nodes, Types, NodeInputs

VARIABLE version   \* "none" where the node has no version

(* The nodes whose version falls behind when these types change. *)
Consumers(changed) ==
  {n \in Nodes : version[n] = "fresh" /\ NodeInputs[n] \cap changed # {}}

Aged(changed) ==
  [n \in Nodes |-> IF n \in Consumers(changed) THEN "stale" ELSE version[n]]

Unversioned == version = [n \in Nodes |-> "none"]

(* A node completes, having changed these types. *)
Stamp(node, changed) == version' = [Aged(changed) EXCEPT ![node] = "fresh"]

(* A node is returned to: what it produced can no longer be relied on. *)
Invalidate(node, outputs) == version' = [Aged(outputs) EXCEPT ![node] = "none"]

VersionStep ==
  \E n \in Nodes, types \in SUBSET Types :
    Stamp(n, types) \/ Invalidate(n, types)

VersionSpec == Unversioned /\ [][VersionStep]_version
============================================================================
