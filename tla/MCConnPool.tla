----------------------------- MODULE MCConnPool -----------------------------
(* The connection pool on small instances, and the mutants of its code.    *)
EXTENDS ConnPool, TLC

Symmetry == Permutations(Conns) \cup Permutations(Workers)
=============================================================================
