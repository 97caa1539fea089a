----------------------------- MODULE MCMessage ------------------------------
(* Model-checking instance of Message: a message of several units that does  *)
(* not fit into the send buffer at once.                                     *)
EXTENDS Message

=============================================================================
