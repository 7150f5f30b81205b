---------------------------- MODULE MCRunFiles ----------------------------
EXTENDS RunFiles, TLC

(* Two answers in one run and one in another.                              *)
FirstRun == "w1"
TwoRuns == {FirstRun, "w2"}
Answers == {[run |-> FirstRun, node |-> "a"], [run |-> FirstRun, node |-> "b"],
            [run |-> "w2", node |-> "a"]}
Symmetry == Permutations(Commands)
===========================================================================
