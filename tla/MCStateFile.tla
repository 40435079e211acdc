---------------------------- MODULE MCStateFile ----------------------------
(* StateFile with interchangeable names, writers and inodes. *)
EXTENDS StateFile, TLC

Symmetry == Permutations(Models) \cup Permutations(Writers) \cup Permutations(Inodes)

=============================================================================
