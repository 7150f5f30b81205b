------------------------------ MODULE MCWaves ------------------------------
(* Three waves for a block of two; a ledger ends where backfill accepts it, *)
(* or anywhere else.                                                       *)
EXTENDS WaveRecords, TLC

Closing == {[node |-> "l2-review", outcome |-> "ACK"]}
LastEntries == Closing \union {[node |-> "l2-review", outcome |-> "FAIL"]}
Symmetry == Permutations(Runs)
============================================================================
