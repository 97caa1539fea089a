------------------------------ MODULE Exchange ------------------------------
(***************************************************************************)
(* What a user of both ends sees: calls of sendDelayToServer that return   *)
(* true or false, and a server that holds at most Capacity of them at a    *)
(* time.  A call returns true only if the server wrote its answer, and the *)
(* server writes the answer of a call only while it holds that call.       *)
(* client.h:38-42 and server.h:24, 66-68 state this promise.               *)
(***************************************************************************)
EXTENDS Integers, FiniteSets

CONSTANTS Calls, Capacity

VARIABLES
  calls,      \* each call: "idle", "open", "true" or "false"
  held,       \* the calls the server holds a slot for
  taken,      \* the calls it ever held
  written     \* the calls whose answer it wrote

vars == <<calls, held, taken, written>>

Init ==
  /\ calls = [c \in Calls |-> "idle"]
  /\ held = {} /\ taken = {} /\ written = {}

Ask(c) ==
  /\ calls[c] = "idle"
  /\ calls' = [calls EXCEPT ![c] = "open"]
  /\ UNCHANGED <<held, taken, written>>

(* A call the server takes may have given up already: it was queued. *)
Take(c) ==
  /\ calls[c] # "idle" /\ c \notin taken
  /\ Cardinality(held) < Capacity
  /\ held' = held \cup {c}
  /\ taken' = taken \cup {c}
  /\ UNCHANGED <<calls, written>>

Write(c) ==
  /\ c \in held \ written
  /\ written' = written \cup {c}
  /\ UNCHANGED <<calls, held, taken>>

Free(c) ==
  /\ c \in held
  /\ held' = held \ {c}
  /\ UNCHANGED <<calls, taken, written>>

ReturnTrue(c) ==
  /\ calls[c] = "open" /\ c \in written
  /\ calls' = [calls EXCEPT ![c] = "true"]
  /\ UNCHANGED <<held, taken, written>>

(* Without a socket a call returns at once. *)
ReturnFalse(c) ==
  /\ calls[c] \in {"idle", "open"}
  /\ calls' = [calls EXCEPT ![c] = "false"]
  /\ UNCHANGED <<held, taken, written>>

Next ==
  \E c \in Calls :
    \/ Ask(c) \/ ReturnTrue(c) \/ ReturnFalse(c)
    \/ Take(c) \/ Write(c) \/ Free(c)

Spec == Init /\ [][Next]_vars

=============================================================================
