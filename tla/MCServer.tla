------------------------------ MODULE MCServer ------------------------------
(* Model-checking instance of Server: connections are interchangeable.      *)
EXTENDS ServerPool, ServerProgress, TLC

Symmetry == Permutations(Conns)

=============================================================================
