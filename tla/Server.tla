------------------------------- MODULE Server -------------------------------
(***************************************************************************)
(* The multi-threaded server of src/src/server.cpp: the thread that owns   *)
(* the Server object (start, stop), the thread that executes run(), and    *)
(* one detached thread per client that executes runClient().               *)
(*                                                                         *)
(* A step is one system call, or one critical section of mutex_, which is  *)
(* indivisible for the other threads: the members guarded by mutex_ are    *)
(* accessed with it held.  The exception is start, which sets isRunning_   *)
(* and quitSignal_ without it (server.cpp:200-201); no thread that could   *)
(* read them runs then.  A wait on clientsCV_ releases the mutex, so it    *)
(* ends one step and starts another.                                       *)
(*                                                                         *)
(* The kernel (TCP, the pipe, select) and the peers are not part of the    *)
(* repository; they are modelled from how server.cpp uses them.            *)
(***************************************************************************)
EXTENDS Integers, Sequences, FiniteSets

CONSTANTS
  Conns,             \* the connections the peers make, each one at most once
  NoConn,            \* "no connection", the -1 of a descriptor
  MaxNumberClients,  \* maxNumberClients_
  MessageSize,       \* BUFFER_SIZE, in the units the network delivers
  MaxStarts,         \* bound: calls of start
  Faults             \* what may fail for no reason seen here: start, the select
                     \* of run, those of the client threads, accept4

ASSUME ConnsAssumption == IsFiniteSet(Conns) /\ NoConn \notin Conns
ASSUME MaxNumberClientsAssumption == MaxNumberClients \in Nat
ASSUME SizesAssumption ==
  /\ MessageSize \in Nat \ {0}
  /\ MaxStarts \in Nat
ASSUME FaultsAssumption ==
  Faults \subseteq {"start", "loop", "select", "accept", "emfile"}

VARIABLES
  (* members of the Server object *)
  currentNumberClients,
  isRunning,
  quitSignal,
  clientsCV,     \* the threads asleep on clientsCV_
  pipe,          \* pipeDescriptors_: "none" (never created), "open", "closed"
  pipeBytes,     \* the bytes waiting in the pipe
  (* threads *)
  owner,         \* the thread that calls start and stop
  srv,           \* the thread that executes run
  hand,          \* socketClientDescriptor of doAccept
  handler,       \* the threads that execute runClient, by connection
  (* the kernel's view of the connections *)
  listening,     \* the listening socket is open and bound
  backlog,       \* connections established and not accepted yet
  peerEnd,       \* the peer's socket: "none", "open", "closed"
  srvEnd,        \* the accepted socket: "none", "open", "closed"
  toServer,      \* units sent by the peer and not read yet
  toPeer,        \* units written to the peer
  unsent,        \* units of its one message the peer has not sent yet
  (* bookkeeping *)
  stale,         \* handlers whose select watches a pipe that was closed
  abandoned,     \* handlers alive when waitForClientsToFinish gave up
  starts         \* calls of start so far

flags    == <<isRunning, quitSignal>>
members  == <<currentNumberClients, flags, clientsCV>>
pipes    == <<pipe, pipeBytes>>
threads  == <<owner, srv, hand, handler>>
sockets  == <<listening, backlog, peerEnd, srvEnd>>
traffic  == <<toServer, toPeer, unsent>>
network  == <<sockets, traffic>>
history  == <<stale, abandoned, starts>>
vars     == <<members, pipes, threads, network, history>>

(* The places a thread can be at, named after the call it is about to make. *)
OwnerPlaces   == {"idle", "up", "wait", "join", "close"}
LoopPlaces    == {"select", "accept", "check", "register"}
SrvPlaces     == LoopPlaces \cup {"off", "leave", "drain", "done"}
LivePlaces    == {"first", "read", "sleep", "writable", "write", "close"}
HandlerPlaces == LivePlaces \cup {"none", "gone"}

(* The connections served by a thread that has not reported its end yet. *)
Live == {c \in Conns : handler[c] \in LivePlaces}

(* The connections the server has not started a thread for. *)
Waiting(c) == c = hand \/ \E i \in DOMAIN backlog : backlog[i] = c

(* A select watches the pipe by descriptor number.  What it does with the
   number of a descriptor closed under it is unspecified: it may fail, ignore
   the number, or see the next pipe that gets the number. *)
PipeReadable     == pipe = "open" /\ pipeBytes > 0
MayIgnorePipe(c) == ~PipeReadable \/ c \in stale
SocketReadable(c) == toServer[c] > 0 \/ peerEnd[c] = "closed"
SelectMayFail    == "select" \in Faults \/ pipe # "open"

-----------------------------------------------------------------------------
(* Helpers for the calls on clientsCV_ and on the pipe.                     *)
(* NotifyNobody, PipeConsumedAnyway, EmfileEndsLoop, OneClientTooMany,      *)
(* AdmitWhileQuitting, NobodyToWaitFor, SelectAgain, SleepDeaf, KeepSlot,   *)
(* ReleaseSlotTwice and LeaveSocketOpen are no part of the model: they are  *)
(* wrong versions of the definitions that follow them, which the properties *)
(* are known to detect.                                                     *)

Awake(t) == t \notin clientsCV

NotifyNobody == UNCHANGED clientsCV
NotifyAll == clientsCV' = {}

SleepOnCV(t) == clientsCV' = clientsCV \cup {t}

(* quitRunningThread: wake every select and every waiter. *)
QuitRunningThread ==
  /\ pipeBytes' = pipeBytes + 1
  /\ quitSignal' = TRUE
  /\ NotifyAll

(* consumePipe reads until the pipe is empty. *)
ConsumePipe == pipeBytes' = 0

-----------------------------------------------------------------------------
(* The owner: start and stop.                                               *)

Start ==
  /\ owner = "idle"
  /\ starts < MaxStarts
  /\ starts' = starts + 1
  /\ listening' = TRUE
  /\ pipe' = "open"
  /\ pipeBytes' = 0
  /\ isRunning' = TRUE
  /\ quitSignal' = FALSE
  /\ srv' = "select"
  /\ owner' = "up"
  /\ UNCHANGED <<currentNumberClients, clientsCV, hand, handler, backlog,
                 peerEnd, srvEnd, traffic, stale, abandoned>>

(* start returns false: no socket or no pipe, or a new pipe that stays open
   behind a failed bind or listen. *)
StartFails ==
  /\ owner = "idle"
  /\ "start" \in Faults
  /\ starts < MaxStarts
  /\ starts' = starts + 1
  /\ \/ UNCHANGED pipes
     \/ pipe' = "open" /\ pipeBytes' = 0
  /\ UNCHANGED <<members, threads, network, stale, abandoned>>

Stop ==
  /\ owner = "up"
  /\ owner' = "wait"
  /\ QuitRunningThread
  /\ UNCHANGED <<currentNumberClients, isRunning, pipe, srv, hand, handler,
                 network, history>>

WaitSleeps ==
  /\ owner = "wait" /\ Awake("owner")
  /\ isRunning
  /\ SleepOnCV("owner")
  /\ UNCHANGED <<currentNumberClients, flags, pipes, threads, network,
                 history>>

WaitSucceeds ==
  /\ owner = "wait" /\ Awake("owner")
  /\ ~isRunning
  /\ ConsumePipe
  /\ owner' = "join"
  /\ UNCHANGED <<members, pipe, srv, hand, handler, network, history>>

(* MAX_TIME_TO_WAIT_FOR_CLIENTS_TO_FINISH is over.  wait_for evaluates its
   predicate once more: only if it still fails is the pipe left alone. *)
PipeConsumedAnyway == pipeBytes' = 0
PipeAfterTimeout == IF isRunning THEN UNCHANGED pipeBytes ELSE ConsumePipe

WaitExpires ==
  /\ owner = "wait" /\ ~Awake("owner")
  /\ clientsCV' = clientsCV \ {"owner"}
  /\ PipeAfterTimeout
  /\ owner' = "join"
  /\ UNCHANGED <<currentNumberClients, flags, pipe, srv, hand, handler,
                 network, history>>

Join ==
  /\ owner = "join"
  /\ srv = "done"
  /\ srv' = "off"
  /\ owner' = "close"
  /\ UNCHANGED <<members, pipes, hand, handler, network, history>>

(* Closing the listening socket resets the connections nobody accepted. *)
CloseDescriptors ==
  /\ owner = "close"
  /\ owner' = "idle"
  /\ pipe' = "closed"
  /\ pipeBytes' = 0
  /\ listening' = FALSE
  /\ backlog' = <<>>
  /\ srvEnd' = [c \in Conns |->
       IF \E i \in DOMAIN backlog : backlog[i] = c
         THEN "closed" ELSE srvEnd[c]]
  /\ stale' = Live
  /\ UNCHANGED <<members, srv, hand, handler, peerEnd, traffic, abandoned,
                 starts>>

-----------------------------------------------------------------------------
(* The server thread: run, doAccept and the functions they call.            *)

LoopQuits ==
  /\ srv = "select"
  /\ PipeReadable
  /\ srv' = "leave"
  /\ UNCHANGED <<members, pipes, owner, hand, handler, network, history>>

LoopFails ==
  /\ srv = "select"
  /\ "loop" \in Faults
  /\ srv' = "leave"
  /\ UNCHANGED <<members, pipes, owner, hand, handler, network, history>>

LoopAccepts ==
  /\ srv = "select"
  /\ ~PipeReadable
  /\ backlog # <<>>
  /\ srv' = "accept"
  /\ UNCHANGED <<members, pipes, owner, hand, handler, network, history>>

Accept ==
  /\ srv = "accept"
  /\ backlog # <<>>
  /\ hand' = Head(backlog)
  /\ backlog' = Tail(backlog)
  /\ srvEnd' = [srvEnd EXCEPT ![Head(backlog)] = "open"]
  /\ srv' = "check"
  /\ UNCHANGED <<members, pipes, owner, handler, listening, peerEnd, traffic,
                 history>>

(* accept4 fails: with EMFILE the loop goes on, with anything else it ends. *)
EmfileEndsLoop ==
  /\ srv = "accept"
  /\ Faults \cap {"emfile", "accept"} # {} /\ srv' = "leave"
  /\ UNCHANGED <<members, pipes, owner, hand, handler, network, history>>

AcceptFails ==
  /\ srv = "accept"
  /\ \/ "emfile" \in Faults /\ srv' = "select"
     \/ "accept" \in Faults /\ srv' = "leave"
  /\ UNCHANGED <<members, pipes, owner, hand, handler, network, history>>

(* checkForMaximumNumberClients *)
OneClientTooMany == currentNumberClients <= MaxNumberClients
HasCapacity == currentNumberClients < MaxNumberClients

AdmitWhileQuitting ==
  /\ srv = "check" /\ Awake("server")
  /\ HasCapacity
  /\ srv' = "register"
  /\ UNCHANGED <<members, pipes, owner, hand, handler, network, history>>

CheckAdmits ==
  /\ srv = "check" /\ Awake("server")
  /\ HasCapacity
  /\ ~quitSignal
  /\ srv' = "register"
  /\ UNCHANGED <<members, pipes, owner, hand, handler, network, history>>

(* doAccept returns false; nobody closes the socket it accepted. *)
CheckQuits ==
  /\ srv = "check" /\ Awake("server")
  /\ quitSignal
  /\ hand' = NoConn
  /\ srv' = "leave"
  /\ UNCHANGED <<members, pipes, owner, handler, network, history>>

CheckSleeps ==
  /\ srv = "check" /\ Awake("server")
  /\ ~HasCapacity /\ ~quitSignal
  /\ SleepOnCV("server")
  /\ UNCHANGED <<currentNumberClients, flags, pipes, threads, network,
                 history>>

(* The second critical section of doAccept: the capacity checked in the first
   one is not checked again. *)
Register ==
  /\ srv = "register"
  /\ currentNumberClients' = currentNumberClients + 1
  /\ handler' = [handler EXCEPT ![hand] = "first"]
  /\ hand' = NoConn
  /\ srv' = "select"
  /\ UNCHANGED <<flags, clientsCV, pipes, owner, network, history>>

Leave ==
  /\ srv = "leave"
  /\ srv' = "drain"
  /\ QuitRunningThread
  /\ UNCHANGED <<currentNumberClients, isRunning, pipe, owner, hand, handler,
                 network, history>>

(* waitForClientsToFinish *)
NobodyToWaitFor == TRUE
ClientsFinished == currentNumberClients = 0

FinishRun ==
  /\ srv' = "done"
  /\ isRunning' = FALSE
  /\ NotifyAll

DrainSleeps ==
  /\ srv = "drain" /\ Awake("server")
  /\ ~ClientsFinished
  /\ SleepOnCV("server")
  /\ UNCHANGED <<currentNumberClients, flags, pipes, threads, network,
                 history>>

Drained ==
  /\ srv = "drain" /\ Awake("server")
  /\ ClientsFinished
  /\ FinishRun
  /\ UNCHANGED <<currentNumberClients, quitSignal, pipes, owner, hand, handler,
                 network, history>>

DrainExpires ==
  /\ srv = "drain" /\ ~Awake("server")
  /\ FinishRun
  /\ abandoned' = abandoned \cup Live
  /\ UNCHANGED <<currentNumberClients, quitSignal, pipes, owner, hand, handler,
                 network, stale, starts>>

-----------------------------------------------------------------------------
(* The client threads: runClient, sleep and closeClientAndNotify.           *)

Goto(c, place) == handler' = [handler EXCEPT ![c] = place]

FirstSelect(c) ==
  /\ handler[c] = "first"
  /\ \/ PipeReadable /\ Goto(c, "close")
     \/ MayIgnorePipe(c) /\ SocketReadable(c) /\ Goto(c, "read")
  /\ UNCHANGED <<members, pipes, owner, srv, hand, network, history>>

(* One read of readMessage: only a read that fills BUFFER_SIZE at once ends
   the loop with success; a shorter one is followed by another. *)
ReadAll(c) ==
  /\ handler[c] = "read"
  /\ toServer[c] >= MessageSize
  /\ toServer' = [toServer EXCEPT ![c] = @ - MessageSize]
  /\ Goto(c, "sleep")
  /\ stale' = IF pipe = "open" THEN stale \ {c} ELSE stale
  /\ UNCHANGED <<members, pipes, owner, srv, hand, sockets, toPeer, unsent,
                 abandoned, starts>>

ReadSome(c) ==
  /\ handler[c] = "read"
  /\ toServer[c] \in 1 .. MessageSize - 1
  /\ toServer' = [toServer EXCEPT ![c] = 0]
  /\ UNCHANGED <<members, pipes, threads, sockets, toPeer, unsent, history>>

SelectAgain(c) ==
  /\ handler[c] = "read"
  /\ toServer[c] = 0
  /\ Goto(c, IF peerEnd[c] = "closed" THEN "close" ELSE "first")
  /\ UNCHANGED <<members, pipes, owner, srv, hand, network, history>>

(* End of file if the peer closed, EAGAIN if it did not. *)
ReadNothing(c) ==
  /\ handler[c] = "read"
  /\ toServer[c] = 0
  /\ Goto(c, "close")
  /\ UNCHANGED <<members, pipes, owner, srv, hand, network, history>>

(* The select of sleep, woken before the delay is over: by the pipe, or by
   data or an end of file from the peer, which end the connection. *)
SleepDeaf(c) ==
  /\ handler[c] = "sleep"
  /\ PipeReadable
  /\ Goto(c, "close")
  /\ UNCHANGED <<members, pipes, owner, srv, hand, network, history>>

SleepInterrupted(c) ==
  /\ handler[c] = "sleep"
  /\ \/ PipeReadable
     \/ MayIgnorePipe(c) /\ SocketReadable(c)
  /\ Goto(c, "close")
  /\ UNCHANGED <<members, pipes, owner, srv, hand, network, history>>

(* The delay is over, and every descriptor is quiet. *)
SleepExpires(c) ==
  /\ handler[c] = "sleep"
  /\ MayIgnorePipe(c) /\ ~SocketReadable(c)
  /\ Goto(c, "writable")
  /\ UNCHANGED <<members, pipes, owner, srv, hand, network, history>>

(* The select for writing watches the socket alone, whose send buffer is
   still empty. *)
WritableSelect(c) ==
  /\ handler[c] = "writable"
  /\ Goto(c, "write")
  /\ UNCHANGED <<members, pipes, owner, srv, hand, network, history>>

(* Any of the three selects fails, those that watch the pipe also because its
   descriptor is closed. *)
SelectFails(c) ==
  /\ \/ handler[c] \in {"first", "sleep"} /\ SelectMayFail
     \/ handler[c] = "writable" /\ "select" \in Faults
  /\ Goto(c, "close")
  /\ UNCHANGED <<members, pipes, owner, srv, hand, network, history>>

(* Writing to a peer that closed fails if its reset has arrived.  Nothing else
   makes it fail or fall short: the send buffer of the connection is empty, for
   this is the only message ever written to it.  Every outcome goes the same
   way, to the close. *)
WriteAnswer(c) ==
  /\ handler[c] = "write"
  /\ \/ toPeer' = [toPeer EXCEPT ![c] = MessageSize]
     \/ peerEnd[c] = "closed" /\ UNCHANGED toPeer
  /\ Goto(c, "close")
  /\ UNCHANGED <<members, pipes, owner, srv, hand, sockets, toServer, unsent,
                 history>>

KeepSlot == UNCHANGED currentNumberClients
ReleaseSlotTwice == currentNumberClients' = currentNumberClients - 2
ReleaseSlot == currentNumberClients' = currentNumberClients - 1

LeaveSocketOpen(c) ==
  /\ handler[c] = "close"
  /\ ReleaseSlot
  /\ Goto(c, "gone")
  /\ NotifyAll
  /\ UNCHANGED <<flags, pipes, owner, srv, hand, network, history>>

CloseClientAndNotify(c) ==
  /\ handler[c] = "close"
  /\ srvEnd' = [srvEnd EXCEPT ![c] = "closed"]
  /\ ReleaseSlot
  /\ Goto(c, "gone")
  /\ NotifyAll
  /\ UNCHANGED <<flags, pipes, owner, srv, hand, listening, backlog, peerEnd,
                 traffic, history>>

-----------------------------------------------------------------------------
(* The peers.                                                               *)

PeerConnects(c) ==
  /\ peerEnd[c] = "none"
  /\ listening
  /\ peerEnd' = [peerEnd EXCEPT ![c] = "open"]
  /\ backlog' = Append(backlog, c)
  /\ UNCHANGED <<members, pipes, threads, listening, srvEnd, traffic, history>>

(* A peer is a Client, which writes exactly one message of BUFFER_SIZE
   (client.cpp:155); the network may deliver it in pieces. *)
PeerSends(c) ==
  /\ peerEnd[c] = "open"
  /\ srvEnd[c] # "closed"
  /\ \E n \in 1 .. unsent[c] :
       /\ unsent' = [unsent EXCEPT ![c] = @ - n]
       /\ toServer' = [toServer EXCEPT ![c] = @ + n]
  /\ UNCHANGED <<members, pipes, threads, sockets, toPeer, history>>

PeerCloses(c) ==
  /\ peerEnd[c] = "open"
  /\ peerEnd' = [peerEnd EXCEPT ![c] = "closed"]
  /\ UNCHANGED <<members, pipes, threads, listening, backlog, srvEnd, traffic,
                 history>>

-----------------------------------------------------------------------------
Init ==
  /\ currentNumberClients = 0
  /\ isRunning = FALSE
  /\ quitSignal = TRUE
  /\ clientsCV = {}
  /\ pipe = "none"
  /\ pipeBytes = 0
  /\ owner = "idle"
  /\ srv = "off"
  /\ hand = NoConn
  /\ handler = [c \in Conns |-> "none"]
  /\ listening = FALSE
  /\ backlog = <<>>
  /\ peerEnd = [c \in Conns |-> "none"]
  /\ srvEnd = [c \in Conns |-> "none"]
  /\ toServer = [c \in Conns |-> 0]
  /\ toPeer = [c \in Conns |-> 0]
  /\ stale = {}
  /\ abandoned = {}
  /\ unsent = [c \in Conns |-> MessageSize]
  /\ starts = 0

(* The steps a thread takes without its scheduler or the clock forcing it:
   no time out, no failing system call, no call made by the application. *)
OwnerStep == WaitSleeps \/ WaitSucceeds \/ Join \/ CloseDescriptors

ServerThreadStep ==
  \/ LoopQuits \/ LoopAccepts \/ Accept
  \/ CheckAdmits \/ CheckQuits \/ CheckSleeps \/ Register
  \/ Leave \/ DrainSleeps \/ Drained

HandlerStep(c) ==
  \/ FirstSelect(c) \/ ReadAll(c) \/ ReadSome(c) \/ ReadNothing(c)
  \/ SleepInterrupted(c) \/ WritableSelect(c) \/ WriteAnswer(c)
  \/ CloseClientAndNotify(c)

ClientThreadStep(c) == HandlerStep(c) \/ SleepExpires(c) \/ SelectFails(c)

PeerStep(c) == PeerConnects(c) \/ PeerSends(c) \/ PeerCloses(c)

ServerStep ==
  \/ Start \/ StartFails \/ Stop \/ OwnerStep \/ WaitExpires
  \/ ServerThreadStep \/ LoopFails \/ AcceptFails \/ DrainExpires
  \/ \E c \in Conns : ClientThreadStep(c)

Next == ServerStep \/ \E c \in Conns : PeerStep(c)

Spec == Init /\ [][Next]_vars

(* Every thread that can run does run.  Time outs (the delay a client asked for
   is one), failing calls and the application's calls of start and stop carry
   no such promise. *)
ThreadFairness ==
  /\ WF_vars(OwnerStep)
  /\ WF_vars(ServerThreadStep)
  /\ \A c \in Conns : WF_vars(HandlerStep(c))

(* sendDelayToServer closes its socket on every path, at the latest when its
   time out expires (src/src/client.cpp). *)
PeerFairness == \A c \in Conns : WF_vars(PeerCloses(c))

FairSpec == Spec /\ ThreadFairness /\ PeerFairness

(* A server out of descriptors gets one again: accept4 does not fail with
   EMFILE for ever. *)
EmfileEnds == SF_vars(Accept)

-----------------------------------------------------------------------------
(* Properties.                                                              *)

(* Every variable stays in its range; in particular currentNumberClients_, a
   size_t, is never decremented below zero, and the pipe never holds more
   than the byte of stop and the byte of run, so that neither write of
   quitRunningThread meets a full pipe. *)
TypeOK ==
  /\ currentNumberClients \in Nat
  /\ isRunning \in BOOLEAN /\ quitSignal \in BOOLEAN
  /\ clientsCV \subseteq {"owner", "server"}
  /\ pipe \in {"none", "open", "closed"} /\ pipeBytes \in 0 .. 2
  /\ owner \in OwnerPlaces /\ srv \in SrvPlaces
  /\ hand \in Conns \cup {NoConn}
  /\ handler \in [Conns -> HandlerPlaces]
  /\ listening \in BOOLEAN /\ backlog \in Seq(Conns)
  /\ peerEnd \in [Conns -> {"none", "open", "closed"}]
  /\ srvEnd \in [Conns -> {"none", "open", "closed"}]
  /\ toServer \in [Conns -> Nat] /\ unsent \in [Conns -> Nat]
  /\ toPeer \in [Conns -> {0, MessageSize}]
  /\ stale \subseteq Conns /\ abandoned \subseteq Conns
  /\ starts \in 0 .. MaxStarts

(* getNumberOfClients tells the truth: the counter is the number of threads
   that were created and have not reported their end, across every early
   return of runClient and across restarts of the server. *)
CountExact == currentNumberClients = Cardinality(Live)

(* The limit is never exceeded, although doAccept checks it in one critical
   section and counts the client in another. *)
AdmissionBound == Cardinality(Live) <= MaxNumberClients

(* No wakeup is lost: a thread is asleep on clientsCV_ only while the
   predicate it waits for is false. *)
NoLostWakeup ==
  /\ "owner" \in clientsCV => isRunning
  /\ "server" \in clientsCV =>
       IF srv = "check"
         THEN ~quitSignal /\ currentNumberClients >= MaxNumberClients
         ELSE currentNumberClients > 0

(* A stop cannot be missed: while the main loop or a client thread still has
   to learn of the quit signal, the byte that tells it is in the pipe.  Only
   client threads that waitForClientsToFinish gave up on are excepted. *)
QuitStaysVisible ==
  quitSignal /\ (srv \in LoopPlaces \/ ~(Live \subseteq abandoned)) => PipeReadable

(* When stop closes the descriptors, and from then on, no client thread is
   left that could use them, but for those waitForClientsToFinish gave up on:
   the time out of the owner's own wait makes no difference. *)
StopIsComplete == owner \in {"close", "idle"} => Live \subseteq abandoned

(* What README.md:15 and server.h:37 promise of the technique, that stop
   closes the pending connections: after stop no connection the server
   accepted is still open (given-up threads excepted).  The code breaks it:
   doAccept drops an accepted socket when the quit signal finds it waiting
   for capacity. *)
StopClosesEveryConnection ==
  owner = "idle" => \A c \in Conns : srvEnd[c] = "open" => c \in abandoned

(* server.h:114 says that run is executed until stop is called, and
   server.cpp:254 that running out of descriptors keeps the server alive: no
   fault of a single client ends the main loop, whether its select, its socket
   or its accept4 with EMFILE fails.  (Any other accept4 error does end it.) *)
RunsUntilStop == srv \in {"leave", "drain", "done"} => owner \in {"wait", "join"}

(* stop returns, although neither of its waits needs to time out and no delay
   a client asked for needs to be over. *)
StopReturns == owner = "wait" ~> owner = "idle"

(* A peer that closed its connection frees its slot, at whatever point of the
   exchange, without a call of stop and before its delay is over. *)
DeadPeerFreesSlot ==
  \A c \in Conns : (c \in Live /\ peerEnd[c] = "closed") ~> c \notin Live

(* An established connection gets its client thread, however long the server
   is full or out of descriptors, unless the server quits: a connection that
   accept4 refused with EMFILE is not forgotten. *)
PendingServed ==
  EmfileEnds =>
    \A c \in Conns :
      (Waiting(c) /\ ~quitSignal) ~> (handler[c] # "none" \/ quitSignal)

=============================================================================
