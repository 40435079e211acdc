----------------------------- MODULE MCRequestLog -----------------------------
(* RequestLog with interchangeable records. *)
EXTENDS RequestLog, TLC

Symmetry == Permutations(Records)

=============================================================================
