---------------------------- MODULE QuitRequests ----------------------------
(***************************************************************************)
(* What Client::stop promises, with the pipe, the mutex and the sockets    *)
(* left out.  Calls enter and leave; a request finds some of them inside,  *)
(* and is kept only when all of these have left: others may have entered   *)
(* since.  A request that waits too long is given up, and says so by       *)
(* returning late.  A call that was asked to leave does not come back.     *)
(* client.h:46-49 states this promise; client.cpp:55 keeps it.             *)
(***************************************************************************)
CONSTANTS Calls, Requests

VARIABLES
  inside,     \* the calls that a request can find
  request,    \* each request: "none", "waiting", "kept" or "givenUp"
  asked       \* the calls each request found inside

vars == <<inside, request, asked>>

Init ==
  /\ inside = {}
  /\ request = [r \in Requests |-> "none"]
  /\ asked = [r \in Requests |-> {}]

Enter(c) ==
  /\ c \notin inside
  /\ \A r \in Requests : c \notin asked[r]
  /\ inside' = inside \cup {c}
  /\ UNCHANGED <<request, asked>>

Leave(c) ==
  /\ c \in inside
  /\ inside' = inside \ {c}
  /\ UNCHANGED <<request, asked>>

Ask(r) ==
  /\ request[r] = "none"
  /\ asked' = [asked EXCEPT ![r] = inside]
  /\ request' = [request EXCEPT ![r] = "waiting"]
  /\ UNCHANGED inside

AskNobody(r) ==
  /\ request[r] = "none"
  /\ inside = {}
  /\ request' = [request EXCEPT ![r] = "kept"]
  /\ UNCHANGED <<inside, asked>>

Keep(r) ==
  /\ request[r] = "waiting"
  /\ asked[r] \cap inside = {}
  /\ request' = [request EXCEPT ![r] = "kept"]
  /\ UNCHANGED <<inside, asked>>

GiveUp(r) ==
  /\ request[r] = "waiting"
  /\ request' = [request EXCEPT ![r] = "givenUp"]
  /\ UNCHANGED <<inside, asked>>

Next ==
  \/ \E c \in Calls : Enter(c) \/ Leave(c)
  \/ \E r \in Requests : Ask(r) \/ AskNobody(r) \/ Keep(r) \/ GiveUp(r)

Spec == Init /\ [][Next]_vars

=============================================================================
