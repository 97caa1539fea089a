------------------------------ MODULE MCDelay -------------------------------
(* Model-checking instance of Delay: ints of 8 bits, ten microseconds in a   *)
(* millisecond, and every delay of a type more than twice as wide.           *)
EXTENDS Delay

AllDelays == -400 .. 400

=============================================================================
