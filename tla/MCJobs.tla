------------------------------- MODULE MCJobs -------------------------------
(* Model-checking instance of Jobs: exports of one connection, limited or not. *)
EXTENDS Jobs, TLC

Symmetry == Permutations(Exports)

=============================================================================
