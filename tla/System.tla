------------------------------- MODULE System -------------------------------
(***************************************************************************)
(* A server and a client together.  The peers of Server are the calls of   *)
(* one Client object, which runs them on several threads; the server at    *)
(* the other end of Client is Server.  A step is a step of a thread of one *)
(* of them, or a step of the network, which is a step of both: what Server *)
(* leaves to its peers, and Client to its server, the other side decides.  *)
(*                                                                         *)
(* The connection of call c is written c on both sides.  TCP delivers in   *)
(* order: an end of file arrives after everything sent before it.          *)
(***************************************************************************)
EXTENDS Server

CONSTANTS
  Stops,         \* the calls of Client::stop
  StopsOverlap,  \* the application calls it from several threads at once
  ClientFaults   \* the system calls of the client that may fail

ASSUME ClientParametersAssumption ==
  /\ IsFiniteSet(Stops)
  /\ StopsOverlap \in BOOLEAN
  /\ ClientFaults \subseteq {"pipe", "socket", "connect", "select"}

VARIABLES
  (* The variables of Client; its pipe is clientPipe, clientPipeBytes. *)
  numConnections, clientPipe, clientPipeBytes, quitCV, call, answered, conn,
  sent, toCall, unanswered, serverEnd, stop, pending, counted, expired

C == INSTANCE Client WITH
  Calls <- Conns, Faults <- ClientFaults,
  pipe <- clientPipe, pipeBytes <- clientPipeBytes

clientVars ==
  <<numConnections, clientPipe, clientPipeBytes, quitCV, call, answered, conn,
    sent, toCall, unanswered, serverEnd, stop, pending, counted, expired>>

systemVars == <<vars, clientVars>>

-----------------------------------------------------------------------------
(* The network.                                                             *)

Connect(c) == C!Establish(c) /\ PeerConnects(c)

Refuse(c) ==
  /\ ~listening
  /\ C!Refuse(c)
  /\ UNCHANGED vars

DeliverMessage(c) ==
  /\ c \in sent
  /\ PeerSends(c)
  /\ UNCHANGED clientVars

DeliverAnswer(c) ==
  /\ toPeer[c] = MessageSize
  /\ C!Answer(c)
  /\ UNCHANGED vars

(* The call closed its socket.  What it sent before arrives first, unless the
   server's end is closed too. *)
DeliverEndOfCall(c) ==
  /\ conn[c] = "closed"
  /\ c \in sent /\ srvEnd[c] # "closed" => unsent[c] = 0
  /\ PeerCloses(c)
  /\ UNCHANGED clientVars

(* The server closed the connection, or never accepted it. *)
DeliverEndOfService(c) ==
  /\ srvEnd[c] = "closed"
  /\ toPeer[c] = MessageSize => unanswered[c] = 0
  /\ C!ServerCloses(c)
  /\ UNCHANGED vars

NetworkStep(c) ==
  \/ Connect(c) \/ Refuse(c) \/ DeliverMessage(c) \/ DeliverAnswer(c)
  \/ DeliverEndOfCall(c) \/ DeliverEndOfService(c)

-----------------------------------------------------------------------------
SystemInit == Init /\ C!Init

SystemNext ==
  \/ ServerStep /\ UNCHANGED clientVars
  \/ C!ClientStep /\ UNCHANGED vars
  \/ \E c \in Conns : NetworkStep(c)

SystemSpec == SystemInit /\ [][SystemNext]_systemVars

(* The steps nobody has to wait for: no time out, no delay that has to be over,
   and no call made by the applications. *)
Progress ==
  \/ (OwnerStep \/ ServerThreadStep \/ \E c \in Conns : HandlerStep(c))
       /\ UNCHANGED clientVars
  \/ (\/ \E c \in Conns : C!CallStep(c)
      \/ \E s \in Stops : C!StopStep(s)) /\ UNCHANGED vars
  \/ \E c \in Conns : NetworkStep(c)

(* The machines do not stand still while a thread can run or the network has
   something to deliver.  That is less than fairness of each thread. *)
SystemFairness == WF_systemVars(Progress)

FairSystemSpec == SystemSpec /\ SystemFairness

(* The selects of a call do expire: timeOut_ is finite. *)
TimeOutsExpire ==
  WF_systemVars(\E c \in Conns : C!SelectExpires(c) /\ UNCHANGED vars)

-----------------------------------------------------------------------------
(* Properties.                                                              *)

(* A call has read an answer only if its own thread of the server has read
   its whole message, has written the answer and has nothing left to do but
   close: however the message and the answer were cut into pieces, and
   whatever gave up in the meantime. *)
AnswersAreEarned ==
  \A c \in answered :
    /\ toPeer[c] = MessageSize
    /\ handler[c] \in {"close", "gone"}
    /\ unsent[c] = 0 /\ toServer[c] = 0

OutcomeOfCall(c) ==
  CASE call[c] = "none"                           -> "idle"
    [] call[c] = "returned" /\ c \in answered     -> "true"
    [] call[c] = "returned" /\ c \notin answered  -> "false"
    [] OTHER                                      -> "open"

Ends == INSTANCE Exchange WITH
  Calls <- Conns, Capacity <- MaxNumberClients,
  calls <- [c \in Conns |-> OutcomeOfCall(c)],
  held <- Live, taken <- {c \in Conns : handler[c] # "none"},
  written <- {c \in Conns : toPeer[c] = MessageSize}

(* Both ends together implement the exchange: a call returns true only with
   an answer that was written while the server held a slot for it, and the
   server never holds more slots than its limit. *)
ImplementsExchange == Ends!Spec

(* Server::stop ends the calls of the clients: once the quit signal is up,
   every call the server serves returns, without its own time out and before
   its delay is over (unless the server gave up on the thread). *)
ServerStopEndsCalls ==
  \A c \in Conns :
    (quitSignal /\ c \in Live) ~> (call[c] = "returned" \/ c \in abandoned)

(* The end of a call ends its service: of the calls that have closed their
   socket, because Client::stop quit them, their time out was over or they had
   their answer, none is served for good.  Its thread notices before the delay
   is over, also that of a connection which was queued at the time and gets
   its thread only later. *)
EndOfCallEndsService ==
  <>[](\A c \in Conns : conn[c] = "closed" => c \notin Live)

(* What Server assumes of its peers (PeerFairness), and DeadPeerFreesSlot and
   PendingServed rest on: every connection is closed by its peer in the end,
   if the time outs of the calls do expire. *)
PeersClose == TimeOutsExpire => <>[](\A c \in Conns : peerEnd[c] # "open")

=============================================================================
