---------------------------- MODULE EpochStamps ----------------------------
(***************************************************************************)
(* RunState's version numbers: every completion and every invalidation     *)
(* draws the next epoch and writes it over the types it changes; a node    *)
(* keeps the epoch of its own last completion.                             *)
(***************************************************************************)
EXTENDS Naturals

CONSTANTS Nodes, Types, NodeInputs,
          MaxEpoch   \* the bound on completions and invalidations in a wave

ASSUME InputsAssumption == NodeInputs \in [Nodes -> SUBSET Types]
ASSUME EpochAssumption == MaxEpoch \in Nat

VARIABLES
  epoch,          \* the counter
  type_versions,  \* 0 for a type nobody produced yet
  node_versions   \* 0 for a node with no entry

vars == <<epoch, type_versions, node_versions>>

Init ==
  /\ epoch = 0
  /\ type_versions = [t \in Types |-> 0]
  /\ node_versions = [n \in Nodes |-> 0]

(* Mutant: the types are stamped with the epoch before the completion's. *)
WriteLate(types) ==
  type_versions' = [t \in Types |-> IF t \in types THEN epoch
                                                   ELSE type_versions[t]]

Write(types) ==
  type_versions' = [t \in Types |-> IF t \in types THEN epoch'
                                                   ELSE type_versions[t]]

(* Mutant: the completion draws its epoch without keeping it. *)
StampWithoutKeeping(node, changed) ==
  /\ epoch < MaxEpoch
  /\ node_versions' = [node_versions EXCEPT ![node] = epoch + 1]
  /\ UNCHANGED <<epoch, type_versions>>

Stamp(node, changed) ==
  /\ epoch < MaxEpoch
  /\ epoch' = epoch + 1
  /\ node_versions' = [node_versions EXCEPT ![node] = epoch']
  /\ Write(changed)

(* Without outputs no epoch is drawn. *)
Uncomplete(target, outputs) ==
  /\ epoch < MaxEpoch
  /\ epoch' = IF outputs = {} THEN epoch ELSE epoch + 1
  /\ Write(outputs)
  /\ node_versions' = [node_versions EXCEPT ![target] = 0]

Next ==
  \E n \in Nodes, types \in SUBSET Types :
    Stamp(n, types) \/ Uncomplete(n, types)

Spec == Init /\ [][Next]_vars

----------------------------------------------------------------------------
(* The test _valid_completed makes. *)
Behind(n) == \E t \in NodeInputs[n] : type_versions[t] > node_versions[n]

Version ==
  [n \in Nodes |-> IF node_versions[n] = 0 THEN "none"
                   ELSE IF Behind(n) THEN "stale"
                   ELSE "fresh"]

Fresh == INSTANCE Freshness WITH version <- Version

TypeOK ==
  /\ epoch \in Nat
  /\ type_versions \in [Types -> Nat]
  /\ node_versions \in [Nodes -> Nat]

(* No version runs ahead of the epoch: the reason the next stamp is newer  *)
(* than every node's version and no node is missed.                        *)
NothingAhead ==
  /\ \A t \in Types : type_versions[t] <= epoch
  /\ \A n \in Nodes : node_versions[n] <= epoch

(* Comparing version numbers decides exactly what the contract says: a     *)
(* node is stale when, and only when, one of its inputs changed after it   *)
(* ran, whatever the order of completions and returns.                     *)
ImplementsFreshness == Fresh!VersionSpec
============================================================================
