------------------------------ MODULE MCClient ------------------------------
(* Model-checking instance of Client: the calls of sendDelayToServer are     *)
(* interchangeable, and so are the calls of stop.                            *)
EXTENDS ClientQuits, ClientProgress, TLC

Symmetry == Permutations(Calls) \cup Permutations(Stops)

=============================================================================
