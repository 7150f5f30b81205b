------------------------------ MODULE MCCage ------------------------------
EXTENDS Cage, TLC

Symmetry == Permutations(Deploys)
===========================================================================
