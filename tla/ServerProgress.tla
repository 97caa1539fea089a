--------------------------- MODULE ServerProgress ---------------------------
(***************************************************************************)
(* Why the threads of the server come to an end, without fairness: who     *)
(* can make a step, and what every step uses up.  With fair scheduling the *)
(* one gives StopReturns from the other; each alone is a safety property.  *)
(***************************************************************************)
EXTENDS Server

-----------------------------------------------------------------------------
(* Who can make a step.                                                     *)

OwnerCanStep ==
  \/ owner = "wait" /\ Awake("owner")
  \/ owner = "join" /\ srv = "done"
  \/ owner = "close"

ServerThreadCanStep ==
  \/ srv = "select" /\ (PipeReadable \/ backlog # <<>>)
  \/ srv = "accept" /\ backlog # <<>>
  \/ srv \in {"check", "drain"} /\ Awake("server")
  \/ srv \in {"register", "leave"}

(* A select that watches a closed pipe cannot be counted on to see it. *)
HandlerCanStep(c) ==
  \/ /\ handler[c] \in {"first", "sleep"}
     /\ SocketReadable(c) \/ (PipeReadable /\ c \notin stale)
  \/ handler[c] \in {"read", "writable", "write", "close"}

-----------------------------------------------------------------------------
(* What a step uses up: the way a thread has to go, and the units of its    *)
(* message a client thread has not read yet.                                *)

OwnerDistance ==
  [idle |-> 0, close |-> 1, join |-> 2, wait |-> 3, up |-> 4][owner]

SrvDistance ==
  [off |-> 0, done |-> 1, drain |-> 2, leave |-> 3, select |-> 4,
   register |-> 5, check |-> 5, accept |-> 6][srv]

HandlerDistance(c) ==
  [gone |-> 0, close |-> 1, write |-> 2, writable |-> 3, sleep |-> 4,
   read |-> 5, first |-> 6, none |-> 7][handler[c]]

ToRead(c) == toServer[c] + unsent[c]

Falls(c) ==
  \/ HandlerDistance(c)' < HandlerDistance(c)
  \/ handler[c]' = handler[c] /\ ToRead(c)' < ToRead(c)

Stays(c) == handler[c]' = handler[c] /\ ToRead(c)' = ToRead(c)

(* One of the threads goes on towards its end. *)
MakesWay ==
  \/ OwnerDistance' < OwnerDistance
  \/ SrvDistance' < SrvDistance
  \/ \E c \in Conns : Falls(c)

-----------------------------------------------------------------------------
(* What stop leaves open.                                                   *)

Dropped == {c \in Conns : srvEnd[c] = "open" /\ c \notin Live /\ c # hand}

-----------------------------------------------------------------------------
(* Properties.                                                              *)

(* stop never waits for a thread that waits for somebody else: as long as the
   server has given up on nobody, the owner can go on, or the server thread
   can, or every client thread the server thread waits for can, whatever the
   peers do and without any time out.  Three kinds of threads wait for each
   other through one condition variable, the pipe and a join. *)
StopNeverStuck ==
  (owner \in {"wait", "join", "close"} /\ Live \cap abandoned = {}) =>
    \/ OwnerCanStep
    \/ ServerThreadCanStep
    \/ srv = "drain" /\ Live # {} /\ \A c \in Live : HandlerCanStep(c)

(* A client thread makes a bounded number of steps, one per place and unit of
   the message at most: no step of anybody sends it back, and the loop of
   readMessage does not go on for ever. *)
ThreadsRunOut ==
  [][\A c \in Conns : /\ Falls(c) \/ Stays(c)
                      /\ ClientThreadStep(c) => Falls(c)]_vars

(* The shutdown makes a bounded number of steps: from stop to the end of it no
   thread goes back, the main loop neither, and a thread falls asleep again
   only after another one has made way. *)
ShutdownRunsOut ==
  [][(owner \in {"wait", "join", "close"}) =>
       /\ OwnerDistance' <= OwnerDistance
       /\ SrvDistance' <= SrvDistance
       /\ MakesWay \/ clientsCV \subseteq clientsCV'
       /\ OwnerStep \/ ServerThreadStep =>
            MakesWay \/ clientsCV' # clientsCV]_vars

(* After n calls of start, the ones that failed included, at most n accepted
   connections are left open and not served; while a life goes on, n - 1.  What
   a life can leave behind is the connection that waited for capacity when it
   ended (server.cpp:260). *)
OneDropPerStart ==
  Cardinality(Dropped) <= IF srv \in LoopPlaces THEN starts - 1 ELSE starts

-----------------------------------------------------------------------------
(* What the proofs need beyond the inductive invariant of ServerInv.        *)

(* Only between start and stop is there no quit signal. *)
QuitOutsideLife == owner # "up" => quitSignal

(* accept4 is called for a connection that is there, and that only stop could
   take away, after it has joined the server thread. *)
AcceptFindsOne == srv = "accept" => backlog # <<>>

(* Only threads that were given up on watch a closed pipe. *)
StaleGivenUp == stale \subseteq abandoned

PInv == QuitOutsideLife /\ AcceptFindsOne /\ StaleGivenUp /\ OneDropPerStart

=============================================================================
