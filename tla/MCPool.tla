-------------------------------- MODULE MCPool --------------------------------
(* Pool on a small fleet: two nodes, one static backend that serves the first
   model only. *)
EXTENDS Pool, TLC

CONSTANTS n1, n2, m1, s1

OneStatic == [s \in Statics |-> {m1}]
StaticSlots == [s \in Statics |-> 1]
Weights == [x \in Statics \cup Nodes |-> IF x = n1 THEN 2 ELSE 1]

Symmetry == Permutations(Objs) \cup Permutations(Requests) \cup Permutations(Ports)

=============================================================================
