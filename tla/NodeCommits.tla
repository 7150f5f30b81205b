---------------------------- MODULE NodeCommits ----------------------------
(***************************************************************************)
(* Commit on done: after every node the engine commits what the wave has   *)
(* changed, and leaves alone what was already dirty before the wave: the   *)
(* baseline that start captures into current-run.md (core/nodecommit.py,   *)
(* run.py, result.py, run.sh).  A path is dirty or clean, and staged or    *)
(* not; its content does not matter.  The operator works in the same tree. *)
(***************************************************************************)
CONSTANTS Paths,       \* the files of the working tree
          RunFile,     \* current-run.md, which the engine itself writes
          NodeCommit   \* AGENTIC_NODE_COMMIT of the shell: "1" if truthy, or "0", "unset"

VARIABLES dirty,     \* paths that differ from HEAD
          staged,    \* the index
          wave,      \* a state file of a wave exists
          baseline,  \* its commit_baseline; none and empty are read alike
          snapshot,  \* the commit_baseline of the checkpoint
          foreign,   \* history: what was dirty when the wave started
          lost       \* history: the baseline is another than start's, after
                     \* a repair, a restore, or a start outside git

vars == <<dirty, staged, wave, baseline, snapshot, foreign, lost>>

Init ==
  /\ dirty \in SUBSET (Paths \ {RunFile}) /\ staged \in SUBSET dirty
  /\ wave = FALSE /\ baseline = {} /\ snapshot = {}
  /\ foreign = {} /\ lost = FALSE

(* run.sh turns the flag on for two of its commands, and respects a value  *)
(* that is there.                                                          *)
FlagFor(command) ==
  IF NodeCommit = "unset" /\ command \in {"done", "drive"} THEN "1" ELSE NodeCommit
commit_enabled(command) == FlagFor(command) = "1"

(* The baseline is captured before the state file is written; git may not  *)
(* answer, which leaves the wave without one.                              *)
start ==
  /\ wave' = TRUE /\ foreign' = dirty \ {RunFile}
  /\ \/ baseline' = (IF commit_enabled("start") THEN dirty ELSE {}) /\ lost' = FALSE
     \/ baseline' = {} /\ lost' = TRUE
  /\ dirty' = dirty \union {RunFile}
  /\ UNCHANGED <<staged, snapshot>>

(* What git add -A -- <paths> and git commit make of the tree: the commit  *)
(* takes the whole index, whoever staged it.                               *)
wave_paths(current) == current \ baseline
Commits(current) ==
  \/ dirty' = current \ (wave_paths(current) \union staged) /\ staged' = {}
  \/ dirty' = current /\ staged' = staged \union wave_paths(current)  \* commit failed
  \/ dirty' = current /\ staged' = staged                             \* ... or add

(* done, and the steps drive takes by itself: the state is written, then   *)
(* committed with the rest.                                                *)
commit_node(command) ==
  /\ wave
  /\ \E current \in {dirty \union {RunFile}} :
       IF commit_enabled(command) /\ wave_paths(current) # {}
       THEN Commits(current)
       ELSE dirty' = current /\ UNCHANGED staged
  /\ UNCHANGED <<wave, baseline, snapshot, foreign, lost>>

(* drive's hand-outs, skip and resolve-loop write the state only.          *)
WriteState ==
  /\ wave /\ dirty' = dirty \union {RunFile}
  /\ UNCHANGED <<staged, wave, baseline, snapshot, foreign, lost>>

(* The ledger carries no baseline; a snapshot carries that of its time.    *)
checkpoint ==
  /\ wave /\ snapshot' = baseline
  /\ UNCHANGED <<dirty, staged, wave, baseline, foreign, lost>>
repair ==
  /\ wave /\ baseline' = {} /\ lost' = TRUE /\ dirty' = dirty \union {RunFile}
  /\ UNCHANGED <<staged, wave, snapshot, foreign>>
restore_checkpoint ==
  /\ wave /\ baseline' = snapshot /\ lost' = TRUE /\ dirty' = dirty \union {RunFile}
  /\ UNCHANGED <<staged, wave, snapshot, foreign>>

(* Agents and the operator edit; the operator stages and commits too.      *)
Edit ==
  /\ \E p \in Paths \ {RunFile} : dirty' = dirty \union {p}
  /\ UNCHANGED <<staged, wave, baseline, snapshot, foreign, lost>>
OperatorStages ==
  /\ \E p \in dirty : staged' = staged \union {p}
  /\ UNCHANGED <<dirty, wave, baseline, snapshot, foreign, lost>>
OperatorCommits ==
  /\ staged # {} /\ dirty' = dirty \ staged /\ staged' = {} /\ foreign' = foreign \ staged
  /\ UNCHANGED <<wave, baseline, snapshot, lost>>

Next ==
  \/ start \/ WriteState \/ checkpoint \/ repair \/ restore_checkpoint
  \/ \E command \in {"done", "drive"} : commit_node(command)
  \/ Edit \/ OperatorStages \/ OperatorCommits

Spec == Init /\ [][Next]_vars

-----------------------------------------------------------------------------
TypeOK ==
  /\ dirty \subseteq Paths /\ staged \subseteq Paths /\ foreign \subseteq Paths
  /\ baseline \subseteq Paths /\ snapshot \subseteq Paths
  /\ wave \in BOOLEAN /\ lost \in BOOLEAN

(* The engine's commits take away none of the wave's foreign paths.        *)
Swept == {p \in foreign : p \in dirty /\ p \notin dirty'}
EngineCommit == \E command \in {"done", "drive"} : commit_node(command)

(* nodecommit.py:18, run.py:107-108: work that was in the tree before the  *)
(* wave is never swept into a node commit (unless the baseline was lost to *)
(* a repair, a restore or a failing git).                                  *)
ForeignWorkKept == [][EngineCommit /\ ~lost => Swept = {}]_vars

(* What does hold: with the flag set for the whole session the baseline    *)
(* protects all of it but what somebody has staged.                        *)
OnlyStagedWorkSwept ==
  [][EngineCommit /\ ~lost /\ NodeCommit # "unset" => Swept \subseteq staged]_vars
=============================================================================
