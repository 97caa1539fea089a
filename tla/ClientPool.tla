----------------------------- MODULE ClientPool -----------------------------
(***************************************************************************)
(* What the server promises to whoever starts and stops it, with its       *)
(* threads, descriptors and locks left out: a pool of at most Capacity     *)
(* clients that takes clients in only while it is open, and that is closed *)
(* only when every client has left, or has been given up on.               *)
(* server.h:24, 37, 66-68 and 81 state this promise.                       *)
(***************************************************************************)
EXTENDS Integers, FiniteSets

CONSTANTS Clients, Capacity

VARIABLES
  phase,      \* "closed", "open" or "draining"
  serving,    \* the clients being served
  seen,       \* the clients that were ever taken in
  givenUp     \* the clients the pool was closed in spite of

vars == <<phase, serving, seen, givenUp>>

Init ==
  /\ phase = "closed"
  /\ serving = {} /\ seen = {} /\ givenUp = {}

Open ==
  /\ phase = "closed"
  /\ phase' = "open"
  /\ UNCHANGED <<serving, seen, givenUp>>

Admit(c) ==
  /\ phase = "open"
  /\ Cardinality(serving) < Capacity
  /\ c \notin seen
  /\ serving' = serving \cup {c}
  /\ seen' = seen \cup {c}
  /\ UNCHANGED <<phase, givenUp>>

Finish(c) ==
  /\ c \in serving
  /\ serving' = serving \ {c}
  /\ UNCHANGED <<phase, seen, givenUp>>

Drain ==
  /\ phase = "open"
  /\ phase' = "draining"
  /\ UNCHANGED <<serving, seen, givenUp>>

Close ==
  /\ phase = "draining"
  /\ serving = {}
  /\ phase' = "closed"
  /\ UNCHANGED <<serving, seen, givenUp>>

GiveUp ==
  /\ phase = "draining"
  /\ phase' = "closed"
  /\ givenUp' = givenUp \cup serving
  /\ UNCHANGED <<serving, seen>>

Next ==
  \/ Open \/ Drain \/ Close \/ GiveUp
  \/ \E c \in Clients : Admit(c) \/ Finish(c)

Spec == Init /\ [][Next]_vars

=============================================================================
