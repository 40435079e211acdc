---------------------------- MODULE MCProvisioning ----------------------------
EXTENDS Provisioning, TLC

CONSTANTS a, c, f1, f2

TwoNames == (a :> f1) @@ (c :> f2)

Symmetry == Permutations(Ops) \cup Permutations(Nodes)

(* No guard reads a temporary file that no operation has chosen, an engine or
   ready.  Of the last two the properties ask only for models that are not in
   config.yaml, as long as neither mixed nor failed exempts them, and these never
   shrink: states that differ in nothing else behave alike. *)
Matters(i) == i \notin Base /\ NameOf[i] \notin mixed /\ ~failed

LiveTmp == [f \in Files |-> IF \E o \in Ops : op[o].path = f THEN tmp[f] ELSE None]

View == <<file, LiveTmp, cfg, catalog, mutex, op, failed, mixed,
          {e \in engines : Matters(e[2])}, {i \in ready : Matters(i)}>>
=============================================================================
