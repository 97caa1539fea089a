------------------------------ MODULE MCSystem ------------------------------
(* Model-checking instance of System.  Its run checks liveness, so that no  *)
(* symmetry set is declared.                                                *)
EXTENDS SystemProgress

=============================================================================
