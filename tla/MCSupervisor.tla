---------------------------- MODULE MCSupervisor ----------------------------
(* Supervisor on a small node.  Instances, processes, callers and ports are
   interchangeable, so the safety runs use their permutations as symmetry. *)
EXTENDS Supervisor, TLC

Symmetry ==
    Permutations(Insts) \cup Permutations(Pids)
        \cup Permutations(Callers) \cup Permutations(Ports) \cup Permutations(Names)

=============================================================================
