-------------------------------- MODULE MCKeys --------------------------------
EXTENDS Keys, TLC

Symmetry == Permutations(Requests) \cup Permutations(Handlers)
=============================================================================
