------------------------------- MODULE Client -------------------------------
(***************************************************************************)
(* The client of src/src/client.cpp: one Client object, the threads that   *)
(* call sendDelayToServer on it, and the threads that call stop.           *)
(*                                                                         *)
(* A step is one system call or one critical section of mutex_.  stop      *)
(* writes to the pipe, checks its predicate and falls asleep on quitCV_ in *)
(* one critical section; it empties the pipe outside of any.               *)
(*                                                                         *)
(* The server at the other end and the kernel are modelled from how        *)
(* client.cpp uses them.                                                   *)
(*                                                                         *)
(* ConnectExpires, TrustEndOfFile, SelectAgain, NotifyNobody,              *)
(* CountDownTwice, CountKept, WriteNothing, AtMostOneConnection, WaitAgain *)
(* and LeaveByte are no part of the model: they are wrong versions of      *)
(* definitions that follow them, which the properties are known to detect. *)
(***************************************************************************)
EXTENDS Integers, FiniteSets

CONSTANTS
  Calls,         \* the calls of sendDelayToServer
  Stops,         \* the calls of stop
  MessageSize,   \* BUFFER_SIZE, in the units the network delivers
  StopsOverlap,  \* the application calls stop from several threads at once
  Faults         \* the system calls that may fail for no reason seen here

ASSUME CallsAssumption == IsFiniteSet(Calls) /\ IsFiniteSet(Stops)
ASSUME ParametersAssumption ==
  /\ MessageSize \in Nat \ {0}
  /\ StopsOverlap \in BOOLEAN
  /\ Faults \subseteq {"pipe", "socket", "connect", "select"}

VARIABLES
  (* members of the Client object *)
  numConnections,
  pipe,          \* pipeDescriptors_: "none" (pipe2 failed), "open", "closed"
  pipeBytes,     \* the bytes waiting in the pipe
  quitCV,        \* the calls of stop asleep on quitCV_
  (* threads *)
  call,          \* where each call of sendDelayToServer is
  answered,      \* the calls that have read the server's answer
  stop,          \* where each call of stop is
  (* the connection of each call *)
  conn,          \* "none", "connecting", "up", "refused", "closed"
  sent,          \* the calls whose message is on its way to the server
  toCall,        \* units of the answer received and not read yet
  unanswered,    \* units of the answer the server has not sent yet
  serverEnd,     \* the server's end: "open", "closed"
  (* bookkeeping *)
  pending,       \* the calls each stop found in progress when it began
  counted,       \* those of them that numConnections_ counted
  expired        \* the calls of stop that gave up waiting

members  == <<numConnections, pipe, pipeBytes, quitCV>>
server   == <<unanswered, serverEnd>>
network  == <<conn, sent, toCall, server>>
stopping == <<stop, pending, counted, expired>>
vars     == <<members, call, answered, network, stopping>>

(* The places a call can be at, named after the step it is about to make. *)
CountedPlaces == {"connecting", "write", "answer", "read", "close"}
ActivePlaces  == CountedPlaces \cup {"connect", "check", "count"}
CallPlaces    == ActivePlaces \cup {"none", "returned"}
StopPlaces    == {"none", "wait", "consume", "returned"}

Active  == {c \in Calls : call[c] \in ActivePlaces}
Counted == {c \in Calls : call[c] \in CountedPlaces}
Stopping == {s \in Stops : stop[s] \in {"wait", "consume"}}

PipeReadable  == pipe = "open" /\ pipeBytes > 0

(* A socket that was refused or reset is ready for reading and writing. *)
Broken(c)   == conn[c] = "refused" \/ serverEnd[c] = "closed"
Writable(c) == conn[c] = "up" \/ Broken(c)
Readable(c) == toCall[c] > 0 \/ Broken(c)

Goto(c, place) == call' = [call EXCEPT ![c] = place]

-----------------------------------------------------------------------------
(* sendDelayToServer, up to the point where the call is counted.            *)

Begin(c) ==
  /\ call[c] = "none"
  /\ pipe # "closed"
  /\ \/ Goto(c, "connect")
     \/ "socket" \in Faults /\ Goto(c, "returned")
  /\ UNCHANGED <<members, answered, network, stopping>>

(* connectToServer: EINPROGRESS is not an error. *)
ConnectToServer(c) ==
  /\ call[c] = "connect"
  /\ \/ conn' = [conn EXCEPT ![c] = "connecting"] /\ Goto(c, "check")
     \/ "connect" \in Faults /\ Goto(c, "returned") /\ UNCHANGED conn
  /\ UNCHANGED <<members, answered, sent, toCall, server, stopping>>

(* checkPipeDescriptorsAndRun: the header says that it raises a flag, but it
   only looks at the descriptors. *)
CheckPipeDescriptors(c) ==
  /\ call[c] = "check"
  /\ IF pipe = "none"
       THEN conn' = [conn EXCEPT ![c] = "closed"] /\ Goto(c, "returned")
       ELSE Goto(c, "count") /\ UNCHANGED conn
  /\ UNCHANGED <<members, answered, sent, toCall, server, stopping>>

Count(c) ==
  /\ call[c] = "count"
  /\ numConnections' = numConnections + 1
  /\ Goto(c, "connecting")
  /\ UNCHANGED <<pipe, pipeBytes, quitCV, answered, network, stopping>>

-----------------------------------------------------------------------------
(* sendDelayToServer, from the first select to closeAndNotify.              *)

(* A select that watches the pipe and the socket: the pipe is looked at
   first, whatever happened on the socket. *)
SelectOrQuit(c, ready, next) ==
  \/ PipeReadable /\ Goto(c, "close")
  \/ ~PipeReadable /\ ready /\ Goto(c, next)

ConnectSelect(c) ==
  /\ call[c] = "connecting"
  /\ SelectOrQuit(c, Writable(c), "write")
  /\ UNCHANGED <<members, answered, network, stopping>>

AnswerSelect(c) ==
  /\ call[c] = "answer"
  /\ SelectOrQuit(c, Readable(c), "read")
  /\ UNCHANGED <<members, answered, network, stopping>>

SelectFails(c) ==
  /\ "select" \in Faults
  /\ call[c] \in {"connecting", "answer"}
  /\ Goto(c, "close")
  /\ UNCHANGED <<members, answered, network, stopping>>

(* timeOut_ is over and nothing is ready. *)
ConnectExpires(c) ==
  /\ call[c] = "connecting" /\ ~Writable(c)
  /\ ~PipeReadable
  /\ Goto(c, "close")
  /\ UNCHANGED <<members, answered, network, stopping>>

SelectExpires(c) ==
  /\ \/ call[c] = "connecting" /\ ~Writable(c)
     \/ call[c] = "answer" /\ ~Readable(c)
  /\ ~PipeReadable
  /\ Goto(c, "close")
  /\ UNCHANGED <<members, answered, network, stopping>>

(* The send buffer of a new connection takes the whole message at once. *)
WriteMessage(c) ==
  /\ call[c] = "write"
  /\ \/ conn[c] = "up" /\ sent' = sent \cup {c} /\ Goto(c, "answer")
     \/ Broken(c) /\ Goto(c, "close") /\ UNCHANGED sent
  /\ UNCHANGED <<members, answered, conn, toCall, server, stopping>>

(* One read of readMessage: only a read that fills BUFFER_SIZE at once ends
   the loop with success; a shorter one is followed by another. *)
ReadAll(c) ==
  /\ call[c] = "read"
  /\ toCall[c] >= MessageSize
  /\ toCall' = [toCall EXCEPT ![c] = @ - MessageSize]
  /\ answered' = answered \cup {c}
  /\ Goto(c, "close")
  /\ UNCHANGED <<members, conn, sent, server, stopping>>

ReadSome(c) ==
  /\ call[c] = "read"
  /\ toCall[c] \in 1 .. MessageSize - 1
  /\ toCall' = [toCall EXCEPT ![c] = 0]
  /\ UNCHANGED <<members, call, answered, conn, sent, server, stopping>>

TrustEndOfFile(c) ==
  /\ call[c] = "read"
  /\ toCall[c] = 0
  /\ answered' = answered \cup {c}
  /\ Goto(c, "close")
  /\ UNCHANGED <<members, network, stopping>>

SelectAgain(c) ==
  /\ call[c] = "read"
  /\ toCall[c] = 0
  /\ Goto(c, IF Broken(c) THEN "close" ELSE "answer")
  /\ UNCHANGED <<members, answered, network, stopping>>

(* End of file, or nothing more for now. *)
ReadNothing(c) ==
  /\ call[c] = "read"
  /\ toCall[c] = 0
  /\ Goto(c, "close")
  /\ UNCHANGED <<members, answered, network, stopping>>

NotifyNobody == UNCHANGED quitCV
NotifyAll == quitCV' = {}

CountDownTwice == numConnections' = numConnections - 2
CountKept == UNCHANGED numConnections
CountDown == numConnections' = numConnections - 1

CloseAndNotify(c) ==
  /\ call[c] = "close"
  /\ conn' = [conn EXCEPT ![c] = "closed"]
  /\ CountDown
  /\ NotifyAll
  /\ Goto(c, "returned")
  /\ UNCHANGED <<pipe, pipeBytes, answered, sent, toCall, server, stopping>>

-----------------------------------------------------------------------------
(* stop: writeToPipeAndWait and consumePipe.                                *)

Awake(s) == s \notin quitCV

StopMayBegin(s) ==
  /\ stop[s] = "none"
  /\ pipe # "closed"
  /\ StopsOverlap \/ Stopping = {}

AtMostOneConnection == numConnections <= 1
NoConnections == numConnections = 0

WriteNothing == UNCHANGED pipeBytes
WriteByte == pipeBytes' = pipeBytes + 1

StopBegins(s) ==
  /\ StopMayBegin(s)
  /\ pending' = [pending EXCEPT ![s] = Active]
  /\ counted' = [counted EXCEPT ![s] = Counted]
  /\ IF NoConnections
       THEN /\ stop' = [stop EXCEPT ![s] = "consume"]
            /\ UNCHANGED <<pipeBytes, quitCV>>
       ELSE /\ stop' = [stop EXCEPT ![s] = "wait"]
            /\ WriteByte
            /\ quitCV' = quitCV \cup {s}
  /\ UNCHANGED <<numConnections, pipe, call, answered, network, expired>>

WaitSleeps(s) ==
  /\ stop[s] = "wait" /\ Awake(s)
  /\ ~NoConnections
  /\ quitCV' = quitCV \cup {s}
  /\ UNCHANGED <<numConnections, pipe, pipeBytes, call, answered, network,
                 stopping>>

WaitSucceeds(s) ==
  /\ stop[s] = "wait" /\ Awake(s)
  /\ NoConnections
  /\ stop' = [stop EXCEPT ![s] = "consume"]
  /\ UNCHANGED <<members, call, answered, network, pending, counted, expired>>

WaitAgain(s) ==
  /\ stop[s] = "wait" /\ ~Awake(s)
  /\ quitCV' = quitCV \ {s}
  /\ UNCHANGED <<numConnections, pipe, pipeBytes, call, answered, network,
                 stopping>>

(* MAXIMUM_WAITING_TIME_FOR_FLAG is over. *)
WaitExpires(s) ==
  /\ stop[s] = "wait" /\ ~Awake(s)
  /\ stop' = [stop EXCEPT ![s] = "consume"]
  /\ quitCV' = quitCV \ {s}
  /\ expired' = expired \cup {s}
  /\ UNCHANGED <<numConnections, pipe, pipeBytes, call, answered, network,
                 pending, counted>>

(* consumePipe: one byte at a time, without mutex_. *)
ConsumeByte(s) ==
  /\ stop[s] = "consume"
  /\ PipeReadable
  /\ pipeBytes' = pipeBytes - 1
  /\ UNCHANGED <<numConnections, pipe, quitCV, call, answered, network,
                 stopping>>

LeaveByte == TRUE
PipeDrained == ~PipeReadable

StopReturns(s) ==
  /\ stop[s] = "consume"
  /\ PipeDrained
  /\ stop' = [stop EXCEPT ![s] = "returned"]
  /\ UNCHANGED <<members, call, answered, network, pending, counted, expired>>

(* The destructor, called when no other call is in progress. *)
Destroy ==
  /\ pipe # "closed"
  /\ Active = {} /\ Stopping = {}
  /\ pipe' = "closed"
  /\ pipeBytes' = 0
  /\ UNCHANGED <<numConnections, quitCV, call, answered, network, stopping>>

-----------------------------------------------------------------------------
(* The server at the other end.                                             *)

Establish(c) ==
  /\ conn[c] = "connecting"
  /\ conn' = [conn EXCEPT ![c] = "up"]
  /\ UNCHANGED <<members, call, answered, sent, toCall, server, stopping>>

Refuse(c) ==
  /\ conn[c] = "connecting"
  /\ conn' = [conn EXCEPT ![c] = "refused"]
  /\ UNCHANGED <<members, call, answered, sent, toCall, server, stopping>>

(* A server answers a whole message only; the network may deliver the answer
   in pieces. *)
Answer(c) ==
  /\ c \in sent /\ conn[c] = "up" /\ serverEnd[c] = "open"
  /\ \E n \in 1 .. unanswered[c] :
       /\ unanswered' = [unanswered EXCEPT ![c] = @ - n]
       /\ toCall' = [toCall EXCEPT ![c] = @ + n]
  /\ UNCHANGED <<members, call, answered, conn, sent, serverEnd, stopping>>

ServerCloses(c) ==
  /\ conn[c] = "up" /\ serverEnd[c] = "open"
  /\ serverEnd' = [serverEnd EXCEPT ![c] = "closed"]
  /\ UNCHANGED <<members, call, answered, conn, sent, toCall, unanswered,
                 stopping>>

-----------------------------------------------------------------------------
Init ==
  /\ numConnections = 0
  /\ pipe \in IF "pipe" \in Faults THEN {"none", "open"} ELSE {"open"}
  /\ pipeBytes = 0
  /\ quitCV = {}
  /\ call = [c \in Calls |-> "none"]
  /\ answered = {}
  /\ stop = [s \in Stops |-> "none"]
  /\ conn = [c \in Calls |-> "none"]
  /\ sent = {}
  /\ toCall = [c \in Calls |-> 0]
  /\ unanswered = [c \in Calls |-> MessageSize]
  /\ serverEnd = [c \in Calls |-> "open"]
  /\ pending = [s \in Stops |-> {}]
  /\ counted = [s \in Stops |-> {}]
  /\ expired = {}

(* The steps of a call, and of a stop, that no clock has to force. *)
CallStep(c) ==
  \/ ConnectToServer(c) \/ CheckPipeDescriptors(c) \/ Count(c)
  \/ ConnectSelect(c) \/ WriteMessage(c) \/ AnswerSelect(c)
  \/ ReadAll(c) \/ ReadSome(c) \/ ReadNothing(c) \/ CloseAndNotify(c)

StopStep(s) ==
  WaitSleeps(s) \/ WaitSucceeds(s) \/ ConsumeByte(s) \/ StopReturns(s)

ServerStep(c) == Establish(c) \/ Refuse(c) \/ Answer(c) \/ ServerCloses(c)

ClientStep ==
  \/ \E c \in Calls :
       Begin(c) \/ CallStep(c) \/ SelectFails(c) \/ SelectExpires(c)
  \/ \E s \in Stops : StopBegins(s) \/ StopStep(s) \/ WaitExpires(s)
  \/ Destroy

Next == ClientStep \/ \E c \in Calls : ServerStep(c)

Spec == Init /\ [][Next]_vars

(* Every thread that can run does run; the time outs carry no promise. *)
ThreadFairness ==
  /\ \A c \in Calls : WF_vars(CallStep(c))
  /\ \A s \in Stops : WF_vars(StopStep(s))

FairSpec == Spec /\ ThreadFairness

(* The selects of a call do expire: timeOut_ is finite. *)
TimeOutsExpire == \A c \in Calls : WF_vars(SelectExpires(c))

-----------------------------------------------------------------------------
(* Properties.                                                              *)

(* Every variable stays in its range; in particular numConnections_, a
   size_t, is never decremented below zero, so that the log message of
   closeAndNotify about it is never written, and the pipe never holds more
   bytes than there were calls of stop. *)
TypeOK ==
  /\ numConnections \in Nat
  /\ pipe \in {"none", "open", "closed"} /\ pipeBytes \in Nat
  /\ quitCV \subseteq Stops
  /\ call \in [Calls -> CallPlaces] /\ answered \subseteq Calls
  /\ stop \in [Stops -> StopPlaces]
  /\ conn \in [Calls -> {"none", "connecting", "up", "refused", "closed"}]
  /\ sent \subseteq Calls
  /\ toCall \in [Calls -> Nat] /\ unanswered \in [Calls -> Nat]
  /\ serverEnd \in [Calls -> {"open", "closed"}]
  /\ pending \in [Stops -> SUBSET Calls]
  /\ counted \in [Stops -> SUBSET Calls]
  /\ expired \subseteq Stops

(* numConnections_ is the number of calls that have passed its increment and
   have not closed their socket yet, across all the early returns. *)
CountExact == numConnections = Cardinality(Counted)

(* A call of stop is asleep only while there is a connection to wait for. *)
NoLostWakeup == quitCV # {} => numConnections > 0

(* When no call of stop is in progress the pipe is empty: a stop that has
   returned, by success or by time out, alone or together with others, never
   makes a later call of sendDelayToServer fail. *)
NoByteWithoutStop == Stopping = {} => pipeBytes = 0

(* A stop that returns in time has seen the end of every call that was
   counted when it began. *)
CountedCallsQuit ==
  \A s \in Stops :
    stop[s] \in {"consume", "returned"} /\ s \notin expired
      => counted[s] \cap Active = {}

(* While a stop waits for a call that it found counted and that is about to
   select, its byte is in the pipe: the call will quit at once.  This holds
   as long as the calls of stop do not overlap; if they do, one that is
   emptying the pipe eats the byte that another has just written. *)
StopIsSeen ==
  \A s \in Stops : \A c \in counted[s] :
    stop[s] = "wait" /\ call[c] \in {"connecting", "answer"} => PipeReadable

(* client.h:47 says that stop quits any pending connection by a previous call
   of sendDelayToServer.  The code breaks it: a call that has created its
   socket and not yet been counted is not seen by stop, which returns at
   once. *)
StopQuitsPendingCalls ==
  \A s \in Stops :
    stop[s] = "returned" /\ s \notin expired => pending[s] \cap Active = {}

(* stop returns without its time out, whatever the server does, provided that
   the calls of stop do not overlap. *)
StopsReturn == \A s \in Stops : stop[s] = "wait" ~> stop[s] = "returned"

(* Every call of sendDelayToServer returns, if time outs do expire: even if
   the server never accepts or never answers, and whatever stop does. *)
CallsReturn ==
  TimeOutsExpire => \A c \in Calls : c \in Active ~> c \notin Active

=============================================================================
