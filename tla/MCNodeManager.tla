----------------------------- MODULE MCNodeManager -----------------------------
(* Two nodes with one model, one of them with a limit of its own. *)
EXTENDS NodeManager, TLC

CONSTANTS n1, n2

NoStatics == [s \in Statics |-> {}]
NoSlots == [s \in Statics |-> 1]
Weights == [x \in Statics \cup Nodes |-> 1]
OneLimited == [n \in Nodes |-> IF n = n1 THEN 1 ELSE 0]

=============================================================================
