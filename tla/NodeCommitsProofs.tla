------------------------- MODULE NodeCommitsProofs -------------------------
(***************************************************************************)
(* What the baseline does protect, for every tree and every value of the   *)
(* flag: from a start that captured one until it is lost, the baseline     *)
(* covers all that was dirty at the start.                                 *)
(***************************************************************************)
EXTENDS NodeCommits, TLAPS

Covered ==
  wave /\ ~lost /\ NodeCommit = "1" => foreign \subseteq baseline

LEMMA InitCovers == Init => Covered
BY DEF Init, Covered

LEMMA StepCovers == Covered /\ [Next]_vars => Covered'
<1> SUFFICES ASSUME Covered, [Next]_vars PROVE Covered' OBVIOUS
<1>1. CASE start
  BY <1>1 DEF start, Covered, commit_enabled, FlagFor
<1>2. CASE WriteState \/ checkpoint \/ Edit \/ OperatorStages
  BY <1>2 DEF WriteState, checkpoint, Edit, OperatorStages, Covered
<1>3. CASE repair \/ restore_checkpoint
  BY <1>3 DEF repair, restore_checkpoint, Covered
<1>4. ASSUME NEW command \in {"done", "drive"}, commit_node(command) PROVE Covered'
  BY <1>4 DEF commit_node, Covered
<1>5. CASE OperatorCommits
  BY <1>5 DEF OperatorCommits, Covered
<1>6. CASE UNCHANGED vars
  BY <1>6 DEF vars, Covered
<1> QED BY <1>1, <1>2, <1>3, <1>4, <1>5, <1>6 DEF Next

(* A node commit of a session with the flag takes what is outside the      *)
(* baseline and what is in the index.                                      *)
LEMMA CommitSpares ==
  Covered /\ EngineCommit /\ ~lost /\ NodeCommit # "unset" => Swept \subseteq staged
<1> SUFFICES ASSUME Covered, ~lost, NodeCommit # "unset",
                    NEW command \in {"done", "drive"}, commit_node(command),
                    NEW p \in foreign, p \in dirty, p \notin dirty'
             PROVE p \in staged
  BY DEF EngineCommit, Swept
<1>1. commit_enabled(command)
  BY DEF commit_node
<1>2. NodeCommit = "1"
  BY <1>1 DEF commit_enabled, FlagFor
<1>3. p \in baseline
  BY <1>2 DEF Covered, commit_node
<1>4. PICK current \in {dirty \union {RunFile}} : Commits(current)
  BY <1>1 DEF commit_node
<1>5. p \in current /\ p \notin wave_paths(current)
  BY <1>3, <1>4 DEF wave_paths
<1> QED BY <1>4, <1>5 DEF Commits

(* nodecommit.py:18: with AGENTIC_NODE_COMMIT set for the whole session, a *)
(* node commit takes nothing that was dirty before the wave, except what   *)
(* somebody has staged; until a repair, a restore or a start without git   *)
(* loses the baseline.                                                     *)
THEOREM BaselineProtects == Spec => OnlyStagedWorkSwept
<1>1. Spec => []Covered
  BY InitCovers, StepCovers, PTL DEF Spec
<1>2. Covered => [EngineCommit /\ ~lost /\ NodeCommit # "unset" => Swept \subseteq staged]_vars
  BY CommitSpares
<1> QED BY <1>1, <1>2, PTL DEF OnlyStagedWorkSwept

(* The state keeps its type, whatever the operator stages and commits.     *)
THEOREM CommitTypeCorrect == ASSUME RunFile \in Paths PROVE Spec => []TypeOK
<1>1. Init => TypeOK
  BY DEF Init, TypeOK
<1>2. TypeOK /\ [Next]_vars => TypeOK'
  <2> SUFFICES ASSUME TypeOK, [Next]_vars PROVE TypeOK' OBVIOUS
  <2>1. CASE start
    BY <2>1 DEF start, TypeOK
  <2>2. CASE WriteState \/ checkpoint \/ repair \/ restore_checkpoint
    BY <2>2 DEF WriteState, checkpoint, repair, restore_checkpoint, TypeOK
  <2>3. ASSUME NEW command \in {"done", "drive"}, commit_node(command) PROVE TypeOK'
    <3>1. dirty' \subseteq Paths /\ staged' \subseteq Paths
      BY <2>3 DEF commit_node, Commits, wave_paths, TypeOK
    <3> QED BY <2>3, <3>1 DEF commit_node, TypeOK
  <2>4. CASE Edit \/ OperatorStages \/ OperatorCommits
    BY <2>4 DEF Edit, OperatorStages, OperatorCommits, TypeOK
  <2>5. CASE UNCHANGED vars
    BY <2>5 DEF vars, TypeOK
  <2> QED BY <2>1, <2>2, <2>3, <2>4, <2>5 DEF Next
<1> QED BY <1>1, <1>2, PTL DEF Spec
=============================================================================
