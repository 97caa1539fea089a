--------------------------- MODULE SystemProgress ---------------------------
(***************************************************************************)
(* Why neither end of System waits for the other in vain: who of the two,  *)
(* or the network between them, can make a step once one end is over.      *)
(***************************************************************************)
EXTENDS System, ServerProgress

P == INSTANCE ClientProgress WITH
  Calls <- Conns, Faults <- ClientFaults,
  pipe <- clientPipe, pipeBytes <- clientPipeBytes

(* What the network has for a call: its connection or a refusal, its answer,
   the end of its service. *)
ArrivesAtCall(c) ==
  \/ conn[c] = "connecting"
  \/ /\ conn[c] = "up" /\ serverEnd[c] = "open"
     /\ \/ toPeer[c] = MessageSize /\ c \in sent /\ unanswered[c] > 0
        \/ srvEnd[c] = "closed"
             /\ (toPeer[c] = MessageSize => unanswered[c] = 0)

(* And for the server: the message of the call, and its end. *)
ArrivesAtServer(c) ==
  /\ peerEnd[c] = "open"
  /\ \/ c \in sent /\ srvEnd[c] # "closed" /\ unsent[c] > 0
     \/ conn[c] = "closed"
          /\ (c \in sent /\ srvEnd[c] # "closed" => unsent[c] = 0)

-----------------------------------------------------------------------------
(* What a stopped server leaves to the time out of a call: the connection that
   doAccept dropped (server.cpp:260), those of the threads it gave up on. *)
LeftBehind(c) ==
  \/ srvEnd[c] = "open" /\ handler[c] = "none"
  \/ c \in Live \cap abandoned

(* No end waits in vain for one that is over.  A call in progress whose service
   is over, or whose server has been stopped, can go on or is about to hear of
   it, but for those the server left behind; and a thread whose call is over
   can go on or is about to hear of that, and never waits for its delay. *)
EndsAreNoticed ==
  \A c \in Conns :
    /\ c \in C!Counted /\ (handler[c] = "gone" \/ owner = "idle") =>
         P!CallCanStep(c) \/ ArrivesAtCall(c) \/ LeftBehind(c)
    /\ c \in Live /\ conn[c] = "closed" =>
         HandlerCanStep(c) \/ ArrivesAtServer(c)

(* The thread of a connection goes on, or what it waits for is on its way, or
   it sleeps for the delay its call asked for. *)
ServiceGoesOn(c) ==
  \/ HandlerCanStep(c) \/ ArrivesAtServer(c) \/ P!CallCanStep(c)
  \/ handler[c] = "sleep"

(* All slots are taken, and each of them will be free after its delay. *)
SlotsGoOn ==
  /\ Cardinality(Live) = MaxNumberClients
  /\ \A c \in Live : ServiceGoesOn(c)

(* A connection that no thread will be started for: the main loop is over, or
   was when doAccept dropped it. *)
Unserved(c) == handler[c] = "none" /\ (srv \notin LoopPlaces \/ c \in Dropped)

(* Both ends together wait for nothing but delays.  A call in progress can go
   on, or its thread does, or the server thread goes on towards it, or the
   server is full of calls that go on; else its server was stopped, or its
   main loop failed, before it got to the call.  So the time out of a call
   ends a delay or a queue, never a deadlock of the two programs. *)
OnlyDelaysHoldUp ==
  \A c \in C!Counted :
    \/ P!CallCanStep(c) \/ ArrivesAtCall(c)
    \/ c \in Live /\ ServiceGoesOn(c)
    \/ Unserved(c)
    \/ handler[c] = "none" /\ (ServerThreadCanStep \/ SlotsGoOn)

-----------------------------------------------------------------------------
(* What the proofs of them need beyond the invariants of SystemInv.         *)

(* A thread that reported its end has closed its socket. *)
GoneIsClosed == \A c \in Conns : handler[c] = "gone" => srvEnd[c] = "closed"

(* A connection is queued until it is accepted or the queue is closed. *)
NoneForgotten ==
  \A c \in Conns :
    peerEnd[c] # "none" /\ srvEnd[c] = "none"
      => \E i \in DOMAIN backlog : backlog[i] = c

(* A server that is not started has no queue. *)
IdleIsQuiet == owner = "idle" => ~listening /\ backlog = <<>>

(* A call connects once, and keeps its socket until it reports its end; the
   message leaves it before it arrives. *)
OneConnection ==
  \A c \in Conns :
    /\ call[c] \in {"none", "connect"} => conn[c] = "none"
    /\ call[c] \in {"check", "count"} \cup C!CountedPlaces
         => conn[c] \in {"connecting", "up", "refused"}
    /\ conn[c] = "up" => peerEnd[c] # "none"
    /\ peerEnd[c] # "none" => conn[c] \in {"up", "closed"}
    /\ unsent[c] # MessageSize => c \in sent
    /\ call[c] \in {"answer", "read"} => c \in sent
    /\ call[c] = "returned" => conn[c] \in {"none", "closed"}

(* A connection in the hand of doAccept or of a thread has an open socket. *)
ServedIsOpen ==
  \A c \in Conns : c \in Live \/ c = hand => srvEnd[c] = "open"

(* Nothing of a message is read before the first select of its thread. *)
FirstReadsAll ==
  \A c \in Conns :
    handler[c] \in {"none", "first"} => toServer[c] + unsent[c] = MessageSize

LinkedEnds ==
  /\ GoneIsClosed /\ NoneForgotten /\ IdleIsQuiet /\ OneConnection
  /\ ServedIsOpen /\ FirstReadsAll

=============================================================================
