---------------------------- MODULE MCLifecycle ----------------------------
(* LifecycleService with the symmetry of its model values, for TLC. *)
EXTENDS LifecycleService, TLC

Symmetry ==
  Permutations(Clients) \union Permutations(Machines)
    \union Permutations(Projects)
    \union Permutations(Repos)
============================================================================
