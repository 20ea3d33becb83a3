---- MODULE MCTokenService ----
EXTENDS TokenService, TLC
Symmetry == Permutations(Callers) \cup Permutations(Subjects)
====
