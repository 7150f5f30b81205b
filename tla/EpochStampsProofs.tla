------------------------- MODULE EpochStampsProofs -------------------------
(***************************************************************************)
(* The version numbers implement Freshness for every graph and every       *)
(* number of completions and returns.                                      *)
(***************************************************************************)
EXTENDS EpochStamps, TLAPS

(* What makes the comparison of version numbers work: no number is ahead   *)
(* of the epoch, so a stamp drawn next is newer than all of them.          *)
IInv == TypeOK /\ NothingAhead

LEMMA InitHolds == Init => IInv
  BY DEF Init, IInv, TypeOK, NothingAhead

(* A step of the version numbers, seen without its bound: an epoch is      *)
(* drawn or not, and the types that changed carry the new one.             *)
LEMMA StepHolds == IInv /\ [Next]_vars => IInv'
<1> SUFFICES ASSUME IInv, [Next]_vars PROVE IInv'
  OBVIOUS
<1> USE DEF IInv, TypeOK, NothingAhead
<1>1. CASE UNCHANGED vars
  BY <1>1 DEF vars
<1>2. ASSUME NEW n \in Nodes, NEW types \in SUBSET Types, Stamp(n, types)
      PROVE  IInv'
  <2>1. epoch' = epoch + 1 /\ epoch' \in Nat
    BY <1>2 DEF Stamp
  <2>2. type_versions' \in [Types -> Nat]
    BY <1>2, <2>1 DEF Stamp, Write
  <2>3. node_versions' \in [Nodes -> Nat]
    BY <1>2, <2>1 DEF Stamp
  <2>4. \A t \in Types : type_versions'[t] <= epoch'
    BY <1>2, <2>1 DEF Stamp, Write
  <2>5. \A m \in Nodes : node_versions'[m] <= epoch'
    BY <1>2, <2>1 DEF Stamp
  <2>6. QED
    BY <2>1, <2>2, <2>3, <2>4, <2>5
<1>3. ASSUME NEW n \in Nodes, NEW types \in SUBSET Types, Uncomplete(n, types)
      PROVE  IInv'
  <2>1. epoch' \in Nat /\ epoch <= epoch'
    BY <1>3 DEF Uncomplete
  <2>2. type_versions' \in [Types -> Nat]
    BY <1>3, <2>1 DEF Uncomplete, Write
  <2>3. node_versions' \in [Nodes -> Nat]
    BY <1>3 DEF Uncomplete
  <2>4. \A t \in Types : type_versions'[t] <= epoch'
    BY <1>3, <2>1 DEF Uncomplete, Write
  <2>5. \A m \in Nodes : node_versions'[m] <= epoch'
    BY <1>3, <2>1 DEF Uncomplete
  <2>6. QED
    BY <2>1, <2>2, <2>3, <2>4, <2>5
<1>4. QED
  BY <1>1, <1>2, <1>3 DEF Next

(* NothingAhead: no version runs ahead of the epoch, for any number of     *)
(* nodes, types, completions and returns.                                  *)
THEOREM NoVersionAhead == Spec => []NothingAhead
<1>1. IInv => NothingAhead
  BY DEF IInv
<1>2. QED
  BY InitHolds, StepHolds, <1>1, PTL DEF Spec

----------------------------------------------------------------------------
(* The refinement.                                                         *)

(* When a set of types changes and the new number is ahead of every node's *)
(* version, a node falls behind exactly if it was behind or reads one of   *)
(* the types.                                                              *)
LEMMA BehindAfter ==
  ASSUME IInv,
         NEW types \in SUBSET Types,
         epoch' \in Nat, types # {} => epoch < epoch',
         Write(types),
         NEW m \in Nodes, node_versions'[m] = node_versions[m]
  PROVE  Behind(m)' <=> Behind(m) \/ NodeInputs[m] \cap types # {}
<1>1. NodeInputs[m] \subseteq Types
  BY InputsAssumption
<1>2. node_versions[m] \in Nat /\ node_versions[m] <= epoch /\ epoch \in Nat
  BY DEF IInv, TypeOK, NothingAhead
<1>3. ASSUME NEW t \in NodeInputs[m], t \in types
      PROVE  type_versions'[t] > node_versions'[m]
  <2>1. type_versions'[t] = epoch' /\ epoch < epoch'
    BY <1>3, <1>1 DEF Write
  <2>2. QED
    BY <2>1, <1>2
<1>4. ASSUME NEW t \in NodeInputs[m], t \notin types
      PROVE  type_versions'[t] = type_versions[t]
  BY <1>4, <1>1 DEF Write
<1>5. QED
  BY <1>3, <1>4 DEF Behind

(* Every node but the one that completes or is returned to changes its     *)
(* version as Freshness says.                                              *)
LEMMA OthersAge ==
  ASSUME IInv,
         NEW types \in SUBSET Types,
         epoch' \in Nat, types # {} => epoch < epoch',
         Write(types),
         NEW m \in Nodes, node_versions'[m] = node_versions[m]
  PROVE  Version'[m] = Fresh!Aged(types)[m]
<1>1. Behind(m)' <=> Behind(m) \/ NodeInputs[m] \cap types # {}
  BY BehindAfter
<1>2. Version'[m] = IF node_versions[m] = 0 THEN "none"
                    ELSE IF Behind(m)' THEN "stale"
                    ELSE "fresh"
  BY DEF Version
<1>3. Version[m] = IF node_versions[m] = 0 THEN "none"
                   ELSE IF Behind(m) THEN "stale"
                   ELSE "fresh"
  BY DEF Version
<1>4. Fresh!Aged(types)[m] =
        IF Version[m] = "fresh" /\ NodeInputs[m] \cap types # {} THEN "stale"
        ELSE Version[m]
  BY DEF Fresh!Aged, Fresh!Consumers
<1>5. QED
  BY <1>1, <1>2, <1>3, <1>4

LEMMA StampRefines ==
  ASSUME IInv, NEW n \in Nodes, NEW types \in SUBSET Types, Stamp(n, types)
  PROVE  Fresh!Stamp(n, types)
<1>1. epoch' = epoch + 1 /\ epoch \in Nat
  BY DEF Stamp, IInv, TypeOK
<1>2. IInv'
  BY StepHolds DEF Next
<1>3. ASSUME NEW m \in Nodes, m # n
      PROVE  Version'[m] = Fresh!Aged(types)[m]
  <2>1. node_versions'[m] = node_versions[m] /\ Write(types)
    BY <1>3 DEF Stamp, IInv, TypeOK
  <2>2. QED
    BY <2>1, <1>1, OthersAge
<1>4. Version'[n] = "fresh"
  <2>1. node_versions'[n] = epoch' /\ epoch' # 0
    BY <1>1 DEF Stamp, IInv, TypeOK
  <2>2. ~ Behind(n)'
    <3>1. NodeInputs[n] \subseteq Types
      BY InputsAssumption
    <3>2. \A t \in Types : type_versions'[t] \in Nat /\ type_versions'[t] <= epoch'
      BY <1>2 DEF IInv, TypeOK, NothingAhead
    <3>3. QED
      BY <3>1, <3>2, <2>1, <1>1 DEF Behind
  <2>3. QED
    BY <2>1, <2>2 DEF Version
<1>5. Version' = [m \in Nodes |-> Version'[m]]
  BY DEF Version
<1>6. Fresh!Aged(types) = [m \in Nodes |-> Fresh!Aged(types)[m]]
  BY DEF Fresh!Aged
<1>7. Version' = [Fresh!Aged(types) EXCEPT ![n] = "fresh"]
  BY <1>3, <1>4, <1>5, <1>6
<1>8. QED
  BY <1>7 DEF Fresh!Stamp

LEMMA UncompleteRefines ==
  ASSUME IInv, NEW n \in Nodes, NEW types \in SUBSET Types,
         Uncomplete(n, types)
  PROVE  Fresh!Invalidate(n, types)
<1>1. epoch' \in Nat /\ (types # {} => epoch < epoch')
  BY DEF Uncomplete, IInv, TypeOK
<1>2. ASSUME NEW m \in Nodes, m # n
      PROVE  Version'[m] = Fresh!Aged(types)[m]
  <2>1. node_versions'[m] = node_versions[m] /\ Write(types)
    BY <1>2 DEF Uncomplete, IInv, TypeOK
  <2>2. QED
    BY <2>1, <1>1, OthersAge
<1>3. Version'[n] = "none"
  BY DEF Uncomplete, IInv, TypeOK, Version
<1>4. Version' = [m \in Nodes |-> Version'[m]]
  BY DEF Version
<1>5. Fresh!Aged(types) = [m \in Nodes |-> Fresh!Aged(types)[m]]
  BY DEF Fresh!Aged
<1>6. Version' = [Fresh!Aged(types) EXCEPT ![n] = "none"]
  BY <1>2, <1>3, <1>4, <1>5
<1>7. QED
  BY <1>6 DEF Fresh!Invalidate

LEMMA StepRefines == IInv /\ [Next]_vars => [Fresh!VersionStep]_Version
<1> SUFFICES ASSUME IInv, [Next]_vars PROVE [Fresh!VersionStep]_Version
  OBVIOUS
<1>1. CASE UNCHANGED vars
  BY <1>1 DEF vars, Version, Behind
<1>2. ASSUME NEW n \in Nodes, NEW types \in SUBSET Types,
             Stamp(n, types) \/ Uncomplete(n, types)
      PROVE  Fresh!VersionStep
  BY <1>2, StampRefines, UncompleteRefines DEF Fresh!VersionStep
<1>3. QED
  BY <1>1, <1>2 DEF Next

LEMMA InitRefines == Init => Fresh!Unversioned
  BY DEF Init, Fresh!Unversioned, Version

(* ImplementsFreshness: comparing version numbers says a node is stale     *)
(* when, and only when, one of its inputs changed after it ran; for every  *)
(* graph, any number of completions and returns, in any order.             *)
THEOREM VersionsDecideFreshness == Spec => ImplementsFreshness
<1>1. Init => Fresh!Unversioned
  BY InitRefines
<1>2. IInv /\ [Next]_vars => [Fresh!VersionStep]_Version
  BY StepRefines
<1>3. QED
  BY <1>1, <1>2, InitHolds, StepHolds, PTL
  DEF Spec, ImplementsFreshness, Fresh!VersionSpec
============================================================================
