---------------------------- MODULE SystemProofs ----------------------------
(***************************************************************************)
(* Proofs about a server and a client together, for every instance: the    *)
(* composition is a server and a client in the sense of Server and Client, *)
(* answers are earned, and both ends implement the exchange.               *)
(***************************************************************************)
EXTENDS SystemInv, SystemProgress, ServerProofs

-----------------------------------------------------------------------------
(* The composition restricts each side to peers that are there.             *)

(* A step of the composition is a step of the server, or of one of its peers,
   or leaves the server alone. *)
LEMMA ServerSide == [SystemNext]_systemVars => [Next]_vars
<1> SUFFICES ASSUME [SystemNext]_systemVars PROVE [Next]_vars
  OBVIOUS
<1>1. CASE ServerStep /\ UNCHANGED clientVars
  BY <1>1 DEF Next
<1>2. CASE C!ClientStep /\ UNCHANGED vars
  BY <1>2
<1>3. ASSUME NEW c \in Conns, NetworkStep(c) PROVE [Next]_vars
  <2>1. PeerStep(c) \/ UNCHANGED vars
    BY <1>3
       DEF NetworkStep, Connect, Refuse, DeliverMessage, DeliverAnswer,
           DeliverEndOfCall, DeliverEndOfService, PeerStep
  <2> QED
    BY <2>1 DEF Next
<1>4. CASE UNCHANGED systemVars
  BY <1>4 DEF systemVars
<1> QED
  BY <1>1, <1>2, <1>3, <1>4 DEF SystemNext

(* The same for the client, whose variables are clientVars. *)
LEMMA ClientVars == UNCHANGED clientVars => UNCHANGED C!vars
BY DEF clientVars, C!vars, C!members, C!network, C!server, C!stopping

LEMMA ClientSide == [SystemNext]_systemVars => [C!Next]_C!vars
<1> SUFFICES ASSUME [SystemNext]_systemVars PROVE [C!Next]_C!vars
  OBVIOUS
<1>1. CASE ServerStep /\ UNCHANGED clientVars
  BY <1>1, ClientVars
<1>2. CASE C!ClientStep /\ UNCHANGED vars
  BY <1>2 DEF C!Next
<1>3. ASSUME NEW c \in Conns, NetworkStep(c) PROVE [C!Next]_C!vars
  <2>1. C!ServerStep(c) \/ UNCHANGED clientVars
    BY <1>3
       DEF NetworkStep, Connect, Refuse, DeliverMessage, DeliverAnswer,
           DeliverEndOfCall, DeliverEndOfService, C!ServerStep
  <2> QED
    BY <2>1, ClientVars DEF C!Next
<1>4. CASE UNCHANGED systemVars
  BY <1>4, ClientVars DEF systemVars
<1> QED
  BY <1>1, <1>2, <1>3, <1>4 DEF SystemNext

(* The server of the composition is the server of Server: everything proved
   of that one holds here. *)
THEOREM SystemIsServer == SystemSpec => Spec
BY ServerSide, PTL DEF SystemSpec, SystemInit, Spec

(* And its client is the client of Client. *)
THEOREM SystemIsClient == SystemSpec => C!Spec
BY ClientSide, PTL DEF SystemSpec, SystemInit, C!Spec

-----------------------------------------------------------------------------
(* The link between the ends.                                               *)

LEMMA LinkInit == SystemInit => Link
<1> SUFFICES ASSUME SystemInit PROVE Link
  OBVIOUS
<1> USE DEF SystemInit
<1>1. LinkType
  BY SizesAssumption DEF C!Init, LinkType, C!CallPlaces
<1>2. MessageRead
  BY SizesAssumption DEF Init, MessageRead
<1>3. AnswerWritten /\ CallMade
  BY DEF Init, C!Init, AnswerWritten, CallMade
<1> QED
  BY <1>1, <1>2, <1>3 DEF Link

(* A client thread of the server reads what the peer sent, and writes after
   it has read everything. *)
LEMMA LinkHandler ==
  ASSUME TypeOK, MessageRead, NEW c \in Conns, ClientThreadStep(c)
  PROVE  /\ MessageRead'
         /\ \A d \in Conns :
              toPeer[d] = MessageSize => toPeer'[d] = MessageSize
<1> USE DEF ClientThreadStep, HandlerStep, traffic, network, sockets
<1>1. ASSUME NEW p \in {"read", "close", "writable", "write", "gone"},
             Goto(c, p), UNCHANGED traffic,
             p \in {"writable", "write"} => handler[c] \in {"sleep", "writable"},
             handler[c] = "close" => p = "gone",
             handler[c] # "gone", handler[c] = "write" => p = "close"
      PROVE  MessageRead'
  BY <1>1 DEF MessageRead, Goto, TypeOK
<1>2. CASE \/ FirstSelect(c) \/ ReadNothing(c) \/ SleepInterrupted(c)
           \/ SleepExpires(c) \/ WritableSelect(c) \/ SelectFails(c)
  <2>1. UNCHANGED traffic
    BY <1>2 DEF FirstSelect, ReadNothing, SleepInterrupted, SleepExpires,
       WritableSelect, SelectFails
  <2>2. MessageRead'
    BY <1>2, <1>1, <2>1 DEF FirstSelect, ReadNothing, SleepInterrupted,
       SleepExpires, WritableSelect, SelectFails
  <2> QED
    BY <2>1, <2>2
<1>3. CASE ReadAll(c)
  <2>1. toServer[c] = MessageSize /\ unsent[c] = 0
    BY <1>3, SizesAssumption DEF ReadAll, MessageRead, TypeOK
  <2>2. /\ toServer' = [toServer EXCEPT ![c] = 0]
        /\ handler' = [handler EXCEPT ![c] = "sleep"]
        /\ unsent' = unsent /\ toPeer' = toPeer
    BY <1>3, <2>1, SizesAssumption DEF ReadAll, Goto
  <2>3. toPeer[c] # MessageSize
    BY <2>1, SizesAssumption DEF MessageRead
  <2>4. MessageRead'
    BY <2>1, <2>2, <2>3, SizesAssumption DEF MessageRead, TypeOK
  <2> QED
    BY <2>2, <2>4
<1>4. CASE ReadSome(c)
  <2>1. /\ toServer' = [toServer EXCEPT ![c] = 0]
        /\ handler' = handler /\ unsent' = unsent /\ toPeer' = toPeer
    BY <1>4 DEF ReadSome, threads
  <2>2. MessageRead'
    BY <2>1, SizesAssumption DEF MessageRead, TypeOK
  <2> QED
    BY <2>1, <2>2
<1>5. CASE WriteAnswer(c)
  <2>1. /\ handler[c] = "write" /\ handler' = [handler EXCEPT ![c] = "close"]
        /\ toServer' = toServer /\ unsent' = unsent
        /\ toPeer' = [toPeer EXCEPT ![c] = MessageSize] \/ toPeer' = toPeer
    BY <1>5 DEF WriteAnswer, Goto
  <2>2. MessageRead'
    BY <2>1 DEF MessageRead, TypeOK
  <2> QED
    BY <2>1, <2>2 DEF TypeOK
<1>6. CASE CloseClientAndNotify(c)
  <2>1. UNCHANGED traffic /\ Goto(c, "gone") /\ handler[c] = "close"
    BY <1>6 DEF CloseClientAndNotify
  <2>2. MessageRead'
    BY <2>1 DEF MessageRead, Goto, TypeOK
  <2> QED
    BY <2>1, <2>2
<1> QED
  BY <1>2, <1>3, <1>4, <1>5, <1>6

(* No step of the server is one of a peer. *)
LEMMA ServerLeavesPeers ==
  ASSUME ServerStep
  PROVE  UNCHANGED <<peerEnd, unsent>>
BY DEF ServerStep, Start, StartFails, Stop, OwnerStep, WaitExpires, WaitSleeps,
       WaitSucceeds, Join, CloseDescriptors, ServerThreadStep, LoopQuits,
       LoopAccepts, Accept, CheckAdmits, CheckQuits, CheckSleeps, Register,
       Leave, DrainSleeps, Drained, LoopFails, AcceptFails, DrainExpires,
       ClientThreadStep, HandlerStep, FirstSelect, ReadAll, ReadSome,
       ReadNothing, SleepInterrupted, SleepExpires, WritableSelect,
       WriteAnswer, CloseClientAndNotify, SelectFails, network, traffic,
       sockets

(* Every step of the server keeps the link. *)
LEMMA LinkServer ==
  ASSUME IInv, Link, ServerStep, UNCHANGED clientVars
  PROVE  Link'
<1> USE DEF clientVars, network, traffic, sockets, threads
<1>1. peerEnd' = peerEnd
  BY ServerLeavesPeers
<1>2. /\ MessageRead'
      /\ \A d \in Conns : toPeer[d] = MessageSize => toPeer'[d] = MessageSize
  <2>1. CASE \E c \in Conns : ClientThreadStep(c)
    BY <2>1, LinkHandler DEF IInv, Link
  <2>2. CASE Register
    <3>1. /\ UNCHANGED traffic /\ handler[hand] = "none"
          /\ handler' = [handler EXCEPT ![hand] = "first"]
      BY <2>2 DEF Register, IInv, Queueing, Waiting, TypeOK
    <3> QED
      BY <3>1 DEF Link, MessageRead, IInv, TypeOK
  <2>3. CASE \/ Start \/ StartFails \/ Stop \/ OwnerStep \/ WaitExpires
             \/ LoopQuits \/ LoopAccepts \/ Accept \/ CheckAdmits
             \/ CheckQuits \/ CheckSleeps \/ Leave \/ DrainSleeps \/ Drained
             \/ LoopFails \/ AcceptFails \/ DrainExpires
    <3>1. UNCHANGED <<traffic, handler>>
      BY <2>3 DEF Start, StartFails, Stop, OwnerStep, WaitExpires,
         WaitSleeps, WaitSucceeds, Join, CloseDescriptors,
         LoopQuits, LoopAccepts, Accept, CheckAdmits, CheckQuits, CheckSleeps,
         Leave, DrainSleeps, Drained, LoopFails, AcceptFails, DrainExpires
    <3> QED
      BY <3>1 DEF Link, MessageRead
  <2> QED
    BY <2>1, <2>2, <2>3 DEF ServerStep, ServerThreadStep
<1>3. LinkType' /\ CallMade'
  BY <1>1 DEF Link, LinkType, CallMade
<1>4. AnswerWritten'
  BY <1>2 DEF Link, AnswerWritten
<1> QED
  BY <1>2, <1>3, <1>4 DEF Link

(* A step of a call moves it to another place, never back to "none", changes
   its own connection at most, and reads no more than arrived. *)
LEMMA LinkCall ==
  ASSUME LinkType, AnswerWritten, CallMade, NEW c \in Conns,
         \/ C!Begin(c) \/ C!CallStep(c) \/ C!SelectFails(c)
         \/ C!SelectExpires(c),
         UNCHANGED vars
  PROVE  LinkType' /\ AnswerWritten' /\ CallMade'
<1> USE DEF C!CallStep, C!members, C!network, C!server, C!stopping, vars,
            network, traffic, sockets
<1>1. \/ call' = call /\ call[c] # "none"
      \/ \E p \in C!CallPlaces \ {"none"} : C!Goto(c, p)
  BY DEF C!Begin, C!ConnectToServer, C!CheckPipeDescriptors, C!Count,
     C!ConnectSelect, C!WriteMessage, C!AnswerSelect, C!SelectOrQuit,
     C!ReadAll, C!ReadSome, C!ReadNothing, C!CloseAndNotify, C!SelectFails,
     C!SelectExpires, C!CallPlaces, C!ActivePlaces, C!CountedPlaces
<1>2. /\ call' \in [Conns -> C!CallPlaces]
      /\ \A d \in Conns : call[d] # "none" => call'[d] # "none"
      /\ call'[c] # "none"
  BY <1>1 DEF C!Goto, LinkType
<1>3. \/ conn' = conn
      \/ \E p \in {"connecting", "closed"} : conn' = [conn EXCEPT ![c] = p]
  BY DEF C!Begin, C!ConnectToServer, C!CheckPipeDescriptors, C!Count,
     C!ConnectSelect, C!WriteMessage, C!AnswerSelect, C!SelectOrQuit,
     C!ReadAll, C!ReadSome, C!ReadNothing, C!CloseAndNotify, C!SelectFails,
     C!SelectExpires
<1>4. serverEnd' = serverEnd
  BY DEF C!Begin, C!ConnectToServer, C!CheckPipeDescriptors, C!Count,
     C!ConnectSelect, C!WriteMessage, C!AnswerSelect, C!SelectOrQuit,
     C!ReadAll, C!ReadSome, C!ReadNothing, C!CloseAndNotify, C!SelectFails,
     C!SelectExpires
<1>5. CASE C!ReadAll(c)
  <2>1. /\ toCall[c] >= MessageSize /\ answered' = answered \cup {c}
        /\ toCall' = [toCall EXCEPT ![c] = @ - MessageSize]
        /\ unanswered' = unanswered
    BY <1>5 DEF C!ReadAll
  <2>2. toCall' \in [Conns -> Nat] /\ toCall[c] > 0
    BY <2>1, SizesAssumption DEF LinkType
  <2>3. \A d \in Conns : toCall'[d] > 0 => toCall[d] > 0
    BY <2>1, <2>2 DEF LinkType
  <2>4. LinkType' /\ CallMade'
    BY <1>2, <1>3, <1>4, <2>1, <2>2 DEF LinkType, CallMade
  <2>5. AnswerWritten'
    BY <2>1, <2>2, <2>3 DEF AnswerWritten
  <2> QED
    BY <2>4, <2>5
<1>6. CASE C!ReadSome(c)
  <2>1. /\ toCall' = [toCall EXCEPT ![c] = 0] /\ answered' = answered
        /\ unanswered' = unanswered
    BY <1>6 DEF C!ReadSome
  <2>2. LinkType' /\ CallMade'
    BY <1>2, <1>3, <1>4, <2>1 DEF LinkType, CallMade
  <2>3. AnswerWritten'
    BY <2>1 DEF AnswerWritten, LinkType
  <2> QED
    BY <2>2, <2>3
<1>7. CASE ~C!ReadAll(c) /\ ~C!ReadSome(c)
  <2>1. UNCHANGED <<toCall, unanswered, answered>>
    BY <1>7 DEF C!Begin, C!ConnectToServer, C!CheckPipeDescriptors, C!Count,
       C!ConnectSelect, C!WriteMessage, C!AnswerSelect, C!SelectOrQuit,
       C!ReadNothing, C!CloseAndNotify, C!SelectFails, C!SelectExpires
  <2>2. LinkType' /\ CallMade'
    BY <1>2, <1>3, <1>4, <2>1 DEF LinkType, CallMade
  <2>3. AnswerWritten'
    BY <2>1 DEF AnswerWritten
  <2> QED
    BY <2>2, <2>3
<1> QED
  BY <1>5, <1>6, <1>7

(* So does every step of the client: a stop and the destructor touch neither
   calls nor connections. *)
LEMMA LinkClient ==
  ASSUME Link, C!ClientStep, UNCHANGED vars
  PROVE  Link'
<1> USE DEF Link
<1>1. MessageRead'
  BY DEF MessageRead, vars, network, traffic, threads
<1>2. CASE \E c \in Conns : \/ C!Begin(c) \/ C!CallStep(c)
                            \/ C!SelectFails(c) \/ C!SelectExpires(c)
  BY <1>1, <1>2, LinkCall
<1>3. ASSUME \/ \E s \in Stops : \/ C!StopBegins(s) \/ C!StopStep(s)
                                 \/ C!WaitExpires(s)
             \/ C!Destroy
      PROVE  Link'
  <2>1. UNCHANGED <<call, conn, toCall, unanswered, serverEnd, answered>>
    BY <1>3
       DEF C!StopBegins, C!StopStep, C!WaitSleeps, C!WaitSucceeds,
           C!ConsumeByte, C!StopReturns, C!WaitExpires, C!Destroy,
           C!members, C!network, C!server, C!stopping
  <2> QED
    BY <1>1, <2>1
       DEF LinkType, AnswerWritten, CallMade, vars, network, traffic, sockets
<1> QED
  BY <1>2, <1>3 DEF C!ClientStep

(* And every step of the network. *)
LEMMA LinkNetwork ==
  ASSUME TypeOK, Link, NEW c \in Conns, NetworkStep(c)
  PROVE  Link'
<1> USE DEF Link, network, traffic, sockets, threads, C!members, C!network,
            C!server, C!stopping
<1>1. CASE Connect(c)
  <2>1. /\ conn[c] = "connecting" /\ conn' = [conn EXCEPT ![c] = "up"]
        /\ peerEnd' = [peerEnd EXCEPT ![c] = "open"]
        /\ UNCHANGED <<call, toCall, unanswered, serverEnd, answered>>
        /\ UNCHANGED <<handler, traffic>>
    BY <1>1 DEF Connect, C!Establish, PeerConnects
  <2>2. LinkType' /\ CallMade'
    BY <2>1 DEF LinkType, CallMade, TypeOK
  <2>3. MessageRead' /\ AnswerWritten'
    BY <2>1 DEF MessageRead, AnswerWritten
  <2> QED
    BY <2>2, <2>3
<1>2. CASE Refuse(c)
  <2>1. /\ conn[c] = "connecting" /\ conn' = [conn EXCEPT ![c] = "refused"]
        /\ UNCHANGED <<call, toCall, unanswered, serverEnd, answered, vars>>
    BY <1>2 DEF Refuse, C!Refuse
  <2>2. LinkType' /\ CallMade'
    BY <2>1 DEF LinkType, CallMade, vars
  <2>3. MessageRead' /\ AnswerWritten'
    BY <2>1 DEF MessageRead, AnswerWritten, vars
  <2> QED
    BY <2>2, <2>3
<1>3. CASE DeliverMessage(c)
  <2>1. PICK n \in 1 .. unsent[c] :
          /\ unsent' = [unsent EXCEPT ![c] = @ - n]
          /\ toServer' = [toServer EXCEPT ![c] = @ + n]
    BY <1>3 DEF DeliverMessage, PeerSends
  <2>2. UNCHANGED <<clientVars, toPeer, handler, peerEnd>>
    BY <1>3 DEF DeliverMessage, PeerSends
  <2>3. unsent[c] > 0
    BY DEF TypeOK
  <2>4. MessageRead'
    BY <2>1, <2>2, <2>3 DEF MessageRead, TypeOK
  <2>5. LinkType' /\ AnswerWritten' /\ CallMade'
    BY <2>2 DEF LinkType, AnswerWritten, CallMade, clientVars
  <2> QED
    BY <2>4, <2>5
<1>4. CASE DeliverAnswer(c)
  <2>1. PICK n \in 1 .. unanswered[c] :
          /\ unanswered' = [unanswered EXCEPT ![c] = @ - n]
          /\ toCall' = [toCall EXCEPT ![c] = @ + n]
    BY <1>4 DEF DeliverAnswer, C!Answer
  <2>2. /\ toPeer[c] = MessageSize
        /\ UNCHANGED <<vars, call, conn, serverEnd, answered>>
    BY <1>4 DEF DeliverAnswer, C!Answer
  <2>3. unanswered' \in [Conns -> Nat] /\ toCall' \in [Conns -> Nat]
    BY <2>1 DEF LinkType
  <2>4. LinkType' /\ CallMade'
    BY <2>2, <2>3 DEF LinkType, CallMade, vars
  <2>5. MessageRead'
    BY <2>2 DEF MessageRead, vars
  <2>6. AnswerWritten'
    BY <2>1, <2>2 DEF AnswerWritten, LinkType, vars
  <2> QED
    BY <2>4, <2>5, <2>6
<1>5. CASE DeliverEndOfCall(c)
  <2>1. /\ peerEnd[c] = "open"
        /\ peerEnd' = [peerEnd EXCEPT ![c] = "closed"]
        /\ UNCHANGED <<clientVars, handler, traffic>>
    BY <1>5 DEF DeliverEndOfCall, PeerCloses
  <2>2. LinkType' /\ AnswerWritten' /\ MessageRead'
    BY <2>1 DEF LinkType, AnswerWritten, MessageRead, clientVars
  <2>3. CallMade'
    BY <2>1 DEF CallMade, clientVars, TypeOK
  <2> QED
    BY <2>2, <2>3
<1>6. CASE DeliverEndOfService(c)
  BY <1>6
     DEF DeliverEndOfService, C!ServerCloses, LinkType, AnswerWritten,
         CallMade, MessageRead, vars
<1> QED
  BY <1>1, <1>2, <1>3, <1>4, <1>5, <1>6 DEF NetworkStep

LEMMA LinkStep == IInv /\ Link /\ [SystemNext]_systemVars => Link'
<1> SUFFICES ASSUME IInv, Link, [SystemNext]_systemVars PROVE Link'
  OBVIOUS
<1>1. CASE \E c \in Conns : NetworkStep(c)
  BY <1>1, LinkNetwork DEF IInv
<1>2. CASE UNCHANGED systemVars
  BY <1>2
     DEF systemVars, clientVars, vars, network, traffic, sockets, threads,
         Link, LinkType, MessageRead, AnswerWritten, CallMade
<1> QED
  BY <1>1, <1>2, LinkServer, LinkClient DEF SystemNext

THEOREM LinkHolds == SystemSpec => [](IInv /\ Link)
<1>1. SystemSpec => []IInv
  BY SystemIsServer, InductiveInvariant, PTL
<1> QED
  BY <1>1, LinkInit, LinkStep, PTL DEF SystemSpec

(* A call never reads an answer its own thread has not written, and a thread
   never writes one before it has read the whole message of its call. *)
THEOREM AnswersOnlyEarned == SystemSpec => []AnswersAreEarned
<1>1. Link => AnswersAreEarned
  BY DEF Link, LinkType, MessageRead, AnswerWritten, AnswersAreEarned
<1> QED
  BY <1>1, LinkHolds, PTL

-----------------------------------------------------------------------------
(* Both ends implement the exchange.                                        *)

Outcomes == [c \in Conns |-> OutcomeOfCall(c)]
Taken    == {c \in Conns : handler[c] # "none"}
Written  == {c \in Conns : toPeer[c] = MessageSize}

LEMMA EndsVars ==
  ASSUME Outcomes' = Outcomes, Live' = Live, Taken' = Taken,
         Written' = Written
  PROVE  UNCHANGED Ends!vars
BY DEF Ends!vars, Outcomes, Taken, Written

(* The exchange counts as the server does. *)
LEMMA EndsCardinality ==
  ASSUME NEW S
  PROVE  Ends!Cardinality(S) = Cardinality(S)
BY DEF Ends!Cardinality, Cardinality

LEMMA EndsInit == SystemInit => Ends!Init
BY SizesAssumption
   DEF SystemInit, Init, C!Init, Ends!Init, OutcomeOfCall, Live, LivePlaces

LEMMA OutcomesKept ==
  ASSUME call' = call, answered' = answered
  PROVE  Outcomes' = Outcomes
BY DEF Outcomes, OutcomeOfCall

(* A registration takes a call, writing the answer is one step of the
   exchange, and closeClientAndNotify frees the slot. *)
LEMMA EndsServer ==
  ASSUME IInv, Link, ServerStep, UNCHANGED clientVars
  PROVE  [Ends!Next]_Ends!vars
<1> USE DEF flags, members, pipes, threads, sockets, traffic, network, history
<1>1. Outcomes' = Outcomes
  BY OutcomesKept DEF clientVars
<1>2. CASE Register
  <2>1. /\ hand \in Conns /\ handler[hand] = "none" /\ srv = "register"
        /\ peerEnd[hand] # "none"
    BY <1>2 DEF Register, IInv, Queueing, Waiting, TypeOK
  <2>2. PICK c \in Conns : c = hand
    BY <2>1
  <2>3. Live' = Live \cup {c} /\ Taken' = Taken \cup {c} /\ c \notin Taken
    BY <1>2, <2>1, <2>2, LiveGrows DEF Register, IInv, TypeOK, Taken
  <2>4. Written' = Written
    BY <1>2 DEF Register, Written
  <2>5. Ends!Cardinality(Live) < MaxNumberClients
    BY <2>1, EndsCardinality DEF IInv, CountExact, Admission
  <2>6. OutcomeOfCall(c) # "idle"
    BY <2>1, <2>2 DEF Link, CallMade, OutcomeOfCall
  <2>7. Ends!Take(c)
    BY <1>1, <2>3, <2>4, <2>5, <2>6
       DEF Ends!Take, Outcomes, Taken, Written
  <2> QED
    BY <2>7 DEF Ends!Next
<1>3. ASSUME NEW c \in Conns, WriteAnswer(c) PROVE [Ends!Next]_Ends!vars
  <2>1. c \in Live /\ Live' = Live
    BY <1>3, LiveMoves DEF WriteAnswer, IInv, Live, LivePlaces
  <2>2. Taken' = Taken
    BY <1>3 DEF WriteAnswer, Goto, Taken, IInv, TypeOK
  <2>3. c \notin Written
    BY <1>3 DEF WriteAnswer, Link, MessageRead, Written
  <2>4. CASE toPeer' = toPeer
    BY <1>1, <2>1, <2>2, <2>4, EndsVars DEF Written
  <2>5. CASE toPeer' = [toPeer EXCEPT ![c] = MessageSize]
    <3>1. Written' = Written \cup {c}
      BY <2>5 DEF Written, IInv, TypeOK
    <3>2. Ends!Write(c)
      BY <1>1, <2>1, <2>2, <2>3, <3>1
         DEF Ends!Write, Outcomes, Taken, Written
    <3> QED
      BY <3>2 DEF Ends!Next
  <2> QED
    BY <1>3, <2>4, <2>5 DEF WriteAnswer
<1>4. ASSUME NEW c \in Conns, CloseClientAndNotify(c)
      PROVE  [Ends!Next]_Ends!vars
  <2>1. Live' = Live \ {c} /\ c \in Live
    BY <1>4, LiveShrinks DEF CloseClientAndNotify, IInv
  <2>2. Taken' = Taken /\ Written' = Written
    BY <1>4 DEF CloseClientAndNotify, Goto, Taken, Written, IInv, TypeOK
  <2>3. Ends!Free(c)
    BY <1>1, <2>1, <2>2 DEF Ends!Free, Outcomes, Taken, Written
  <2> QED
    BY <2>3 DEF Ends!Next
<1>5. ASSUME NEW c \in Conns,
             \/ FirstSelect(c) \/ ReadAll(c) \/ ReadSome(c) \/ ReadNothing(c)
             \/ SleepInterrupted(c) \/ SleepExpires(c) \/ WritableSelect(c)
             \/ SelectFails(c)
      PROVE  UNCHANGED Ends!vars
  <2>1. /\ toPeer' = toPeer
        /\ \/ handler' = handler
           \/ handler[c] \in LivePlaces /\ \E p \in LivePlaces : Goto(c, p)
    BY <1>5 DEF FirstSelect, ReadAll, ReadSome, ReadNothing,
       SleepInterrupted, SleepExpires, WritableSelect, SelectFails, LivePlaces
  <2>2. Live' = Live
    BY <2>1, LiveMoves, LiveUnchanged DEF IInv
  <2>3. Taken' = Taken /\ Written' = Written
    BY <2>1 DEF Goto, Taken, Written, IInv, TypeOK, LivePlaces
  <2> QED
    BY <1>1, <2>2, <2>3, EndsVars
<1>6. CASE \/ Start \/ StartFails \/ Stop \/ OwnerStep \/ WaitExpires
           \/ LoopQuits \/ LoopAccepts \/ Accept \/ CheckAdmits
           \/ CheckQuits \/ CheckSleeps \/ Leave \/ DrainSleeps \/ Drained
           \/ LoopFails \/ AcceptFails \/ DrainExpires
  <2>1. UNCHANGED <<handler, toPeer>>
    BY <1>6 DEF Start, StartFails, Stop, OwnerStep, WaitExpires, WaitSleeps,
       WaitSucceeds, Join, CloseDescriptors, LoopQuits, LoopAccepts, Accept,
       CheckAdmits, CheckQuits, CheckSleeps, Leave, DrainSleeps, Drained,
       LoopFails, AcceptFails, DrainExpires
  <2> QED
    BY <1>1, <2>1, LiveUnchanged, EndsVars DEF Taken, Written
<1> QED
  BY <1>2, <1>3, <1>4, <1>5, <1>6
     DEF ServerStep, ServerThreadStep, ClientThreadStep, HandlerStep

(* A call that begins asks, and one that returns has the outcome its answer
   gives it; everything in between is invisible. *)
LEMMA EndsCall ==
  ASSUME IInv, Link, NEW c \in Conns,
         \/ C!Begin(c) \/ C!CallStep(c) \/ C!SelectFails(c)
         \/ C!SelectExpires(c),
         UNCHANGED vars, Link'
  PROVE  [Ends!Next]_Ends!vars
<1> USE DEF C!CallStep, C!members, C!network, C!server, C!stopping
<1>1. Live' = Live /\ Taken' = Taken /\ Written' = Written
  BY LiveUnchanged
     DEF vars, threads, network, traffic, Taken, Written
<1>2. /\ call \in [Conns -> C!CallPlaces] /\ call' \in [Conns -> C!CallPlaces]
      /\ \A d \in Conns \ {c} : OutcomeOfCall(d)' = OutcomeOfCall(d)
  <2>1. /\ call' = call \/ \E p \in C!CallPlaces : C!Goto(c, p)
        /\ answered' \in {answered, answered \cup {c}}
    BY DEF C!Begin, C!ConnectToServer, C!CheckPipeDescriptors, C!Count,
       C!ConnectSelect, C!WriteMessage, C!AnswerSelect, C!SelectOrQuit,
       C!ReadAll, C!ReadSome, C!ReadNothing, C!CloseAndNotify, C!SelectFails,
       C!SelectExpires, C!CallPlaces, C!ActivePlaces, C!CountedPlaces
  <2> QED
    BY <2>1 DEF C!Goto, Link, LinkType, OutcomeOfCall
<1>3. Outcomes' = [Outcomes EXCEPT ![c] = OutcomeOfCall(c)']
  BY <1>2 DEF Outcomes
<1>4. c \in answered => c \in Written /\ call[c] # "none"
  BY DEF Link, LinkType, AnswerWritten, MessageRead, CallMade, Written, IInv,
     Queueing
<1>5. CASE OutcomeOfCall(c)' = OutcomeOfCall(c)
  <2>1. Outcomes' = Outcomes
    BY <1>3, <1>5 DEF Outcomes
  <2> QED
    BY <1>1, <2>1, EndsVars
<1>6. ASSUME OutcomeOfCall(c)' # OutcomeOfCall(c)
      PROVE  /\ OutcomeOfCall(c) \in {"idle", "open"}
             /\ \/ OutcomeOfCall(c) = "idle" /\ OutcomeOfCall(c)' = "open"
                \/ OutcomeOfCall(c)' = "false"
                \/ /\ OutcomeOfCall(c) = "open" /\ c \in Written
                   /\ OutcomeOfCall(c)' = "true"
  <2>1. CASE C!ReadAll(c)
    BY <1>6, <2>1 DEF C!ReadAll, C!Goto, OutcomeOfCall, Link, LinkType
  <2>2. CASE C!ReadSome(c)
    BY <1>6, <2>2 DEF C!ReadSome, OutcomeOfCall
  <2>3. CASE C!Begin(c)
    BY <1>4, <1>6, <2>3 DEF C!Begin, C!Goto, OutcomeOfCall, Link, LinkType
  <2>4. ASSUME ~C!ReadAll(c), ~C!ReadSome(c), ~C!Begin(c)
        PROVE  /\ answered' = answered /\ call[c] \in C!ActivePlaces
               /\ \E p \in C!ActivePlaces \cup {"returned"} : C!Goto(c, p)
    BY <2>4 DEF C!ConnectToServer, C!CheckPipeDescriptors, C!Count,
       C!ConnectSelect, C!WriteMessage, C!AnswerSelect, C!SelectOrQuit,
       C!ReadNothing, C!CloseAndNotify, C!SelectFails, C!SelectExpires,
       C!ActivePlaces, C!CountedPlaces
  <2>5. CASE ~C!ReadAll(c) /\ ~C!ReadSome(c) /\ ~C!Begin(c)
    BY <1>4, <1>6, <2>4, <2>5
       DEF C!Goto, OutcomeOfCall, Link, LinkType, C!ActivePlaces,
           C!CountedPlaces
  <2> QED
    BY <2>1, <2>2, <2>3, <2>5
<1>7. CASE OutcomeOfCall(c)' # OutcomeOfCall(c)
  <2>1. Outcomes[c] = OutcomeOfCall(c)
    BY DEF Outcomes
  <2>2. Ends!Ask(c) \/ Ends!ReturnTrue(c) \/ Ends!ReturnFalse(c)
    BY <1>1, <1>3, <1>6, <1>7, <2>1
       DEF Ends!Ask, Ends!ReturnTrue, Ends!ReturnFalse, Outcomes, Taken,
           Written
  <2> QED
    BY <2>2 DEF Ends!Next
<1> QED
  BY <1>5, <1>7

(* Every step of the composition is a step of the exchange, or none. *)
LEMMA EndsStep ==
  IInv /\ Link /\ [SystemNext]_systemVars => [Ends!Next]_Ends!vars
<1> SUFFICES ASSUME IInv, Link, [SystemNext]_systemVars
             PROVE  [Ends!Next]_Ends!vars
  OBVIOUS
<1>1. Link'
  BY LinkStep
<1>2. ASSUME UNCHANGED <<call, answered, handler, toPeer>>
      PROVE  UNCHANGED Ends!vars
  BY <1>2, OutcomesKept, LiveUnchanged, EndsVars DEF Taken, Written
<1>3. CASE C!ClientStep /\ UNCHANGED vars
  <2>1. CASE \E c \in Conns : \/ C!Begin(c) \/ C!CallStep(c)
                              \/ C!SelectFails(c) \/ C!SelectExpires(c)
    BY <1>1, <1>3, <2>1, EndsCall
  <2>2. CASE \/ \E s \in Stops : \/ C!StopBegins(s) \/ C!StopStep(s)
                                 \/ C!WaitExpires(s)
             \/ C!Destroy
    <3>1. UNCHANGED <<call, answered>>
      BY <2>2
         DEF C!StopBegins, C!StopStep, C!WaitSleeps, C!WaitSucceeds,
             C!ConsumeByte, C!StopReturns, C!WaitExpires, C!Destroy,
             C!members, C!network, C!server, C!stopping
    <3> QED
      BY <1>2, <1>3, <3>1 DEF vars, threads, network, traffic
  <2> QED
    BY <1>3, <2>1, <2>2 DEF C!ClientStep
<1>4. ASSUME NEW c \in Conns, NetworkStep(c)
      PROVE  UNCHANGED <<call, answered, handler, toPeer>>
  BY <1>4
     DEF NetworkStep, Connect, Refuse, DeliverMessage, DeliverAnswer,
         DeliverEndOfCall, DeliverEndOfService, PeerConnects, PeerSends,
         PeerCloses, C!Establish, C!Refuse, C!Answer, C!ServerCloses,
         C!members, C!stopping, vars, clientVars, threads, network, traffic
<1>5. CASE UNCHANGED systemVars
  BY <1>2, <1>5 DEF systemVars, clientVars, vars, threads, network, traffic
<1> QED
  BY <1>2, <1>3, <1>4, <1>5, EndsServer DEF SystemNext

(* Client and server together implement the exchange: a call returns true only
   with an answer written while the server held a slot for it, and no more
   slots are held than the limit allows. *)
THEOREM SystemImplementsExchange == SystemSpec => ImplementsExchange
BY EndsInit, EndsStep, LinkHolds, PTL
   DEF SystemSpec, ImplementsExchange, Ends!Spec

-----------------------------------------------------------------------------
(* Each end notices the end of the other.                                   *)

(* Most steps of the server touch neither its sockets nor its queue. *)
QuietStep ==
  /\ UNCHANGED <<srvEnd, backlog, listening>>
  /\ owner' = "idle" => owner = "idle"
  /\ \A c \in Conns : /\ peerEnd'[c] # "none" => peerEnd[c] # "none"
                      /\ handler'[c] = "gone" => handler[c] = "gone"

LEMMA ServerQuietSteps ==
  ASSUME IInv, [Next]_vars
  PROVE  \/ QuietStep
         \/ Start \/ CloseDescriptors \/ Accept
         \/ \E c \in Conns : PeerConnects(c) \/ CloseClientAndNotify(c)
<1> USE DEF flags, members, pipes, threads, sockets, traffic, network, history
<1>1. CASE UNCHANGED vars
  BY <1>1 DEF vars, QuietStep
<1>2. CASE StartFails \/ Stop \/ WaitSleeps \/ WaitSucceeds \/ WaitExpires
           \/ Join
  BY <1>2
     DEF StartFails, Stop, WaitSleeps, WaitSucceeds, WaitExpires, Join,
         QuietStep
<1>3. CASE \/ LoopQuits \/ LoopAccepts \/ CheckAdmits \/ CheckQuits
           \/ CheckSleeps \/ Leave \/ DrainSleeps \/ Drained \/ LoopFails
           \/ AcceptFails \/ DrainExpires
  BY <1>3
     DEF LoopQuits, LoopAccepts, CheckAdmits, CheckQuits, CheckSleeps, Leave,
         DrainSleeps, Drained, LoopFails, AcceptFails, DrainExpires, QuietStep
<1>4. CASE Register
  BY <1>4 DEF Register, IInv, TypeOK, QuietStep
<1>5. ASSUME NEW c \in Conns,
             \/ FirstSelect(c) \/ ReadAll(c) \/ ReadSome(c) \/ ReadNothing(c)
             \/ SleepInterrupted(c) \/ SleepExpires(c) \/ WritableSelect(c)
             \/ WriteAnswer(c) \/ SelectFails(c)
      PROVE  QuietStep
  <2>1. /\ UNCHANGED <<srvEnd, backlog, listening, owner, peerEnd>>
        /\ \/ handler' = handler
           \/ \E p \in LivePlaces : Goto(c, p)
    BY <1>5
       DEF FirstSelect, ReadAll, ReadSome, ReadNothing, SleepInterrupted,
           SleepExpires, WritableSelect, WriteAnswer, SelectFails, LivePlaces
  <2> QED
    BY <2>1 DEF QuietStep, Goto, LivePlaces, IInv, TypeOK
<1>6. ASSUME NEW c \in Conns, PeerSends(c) \/ PeerCloses(c)
      PROVE  QuietStep
  BY <1>6 DEF PeerSends, PeerCloses, QuietStep, IInv, TypeOK
<1> QED
  BY <1>1, <1>2, <1>3, <1>4, <1>5, <1>6
     DEF Next, ServerStep, OwnerStep, ServerThreadStep, ClientThreadStep,
         HandlerStep, PeerStep

(* A socket that closeClientAndNotify closed is never opened again. *)
LEMMA GoneIsClosedStep ==
  ASSUME IInv, GoneIsClosed, [Next]_vars
  PROVE  GoneIsClosed'
<1> USE DEF GoneIsClosed, threads
<1>1. CASE QuietStep
  BY <1>1 DEF QuietStep
<1>2. CASE Start
  BY <1>2 DEF Start
<1>3. CASE CloseDescriptors
  BY <1>3 DEF CloseDescriptors
<1>4. CASE Accept
  <2>1. /\ 1 \in DOMAIN backlog /\ Head(backlog) = backlog[1]
        /\ Head(backlog) \in Conns
    BY <1>4 DEF Accept, IInv, TypeOK
  <2>2. handler[Head(backlog)] = "none"
    BY <2>1 DEF IInv, Queueing, Waiting
  <2> QED
    BY <1>4, <2>1, <2>2 DEF Accept, IInv, TypeOK
<1>5. ASSUME NEW c \in Conns, CloseClientAndNotify(c)
      PROVE  GoneIsClosed'
  BY <1>5 DEF CloseClientAndNotify, Goto, IInv, TypeOK
<1>6. ASSUME NEW c \in Conns, PeerConnects(c)
      PROVE  GoneIsClosed'
  BY <1>6 DEF PeerConnects
<1> QED
  BY <1>1, <1>2, <1>3, <1>4, <1>5, <1>6, ServerQuietSteps

(* The queue is closed by stop, and only a started server has one. *)
LEMMA IdleIsQuietStep ==
  ASSUME IInv, IdleIsQuiet, [Next]_vars
  PROVE  IdleIsQuiet'
<1> USE DEF IdleIsQuiet, threads, sockets, network
<1>1. CASE QuietStep
  BY <1>1 DEF QuietStep
<1>2. CASE Start \/ CloseDescriptors
  BY <1>2 DEF Start, CloseDescriptors
<1>3. CASE Accept
  BY <1>3 DEF Accept, IInv, HandShake
<1>4. ASSUME NEW c \in Conns, PeerConnects(c) \/ CloseClientAndNotify(c)
      PROVE  IdleIsQuiet'
  BY <1>4 DEF PeerConnects, CloseClientAndNotify
<1> QED
  BY <1>1, <1>2, <1>3, <1>4, ServerQuietSteps

(* A connection leaves the queue for a socket of its own, or is reset. *)
LEMMA NoneForgottenStep ==
  ASSUME IInv, NoneForgotten, [Next]_vars
  PROVE  NoneForgotten'
<1> USE DEF NoneForgotten, threads, sockets, network
<1>1. CASE QuietStep
  BY <1>1 DEF QuietStep
<1>2. CASE Start
  BY <1>2 DEF Start
<1>3. CASE CloseDescriptors
  BY <1>3 DEF CloseDescriptors
<1>4. CASE Accept
  <2>1. /\ backlog' = Tail(backlog) /\ peerEnd' = peerEnd
        /\ srvEnd' = [srvEnd EXCEPT ![backlog[1]] = "open"]
        /\ backlog \in Seq(Conns) /\ backlog # <<>>
    BY <1>4 DEF Accept, IInv, TypeOK
  <2>2. \A i \in DOMAIN backlog :
          i # 1 => i - 1 \in DOMAIN backlog' /\ backlog'[i - 1] = backlog[i]
    BY <2>1
  <2> SUFFICES ASSUME NEW c \in Conns, peerEnd'[c] # "none",
                      srvEnd'[c] = "none"
               PROVE  \E i \in DOMAIN backlog' : backlog'[i] = c
    OBVIOUS
  <2>3. c # backlog[1] /\ srvEnd[c] = "none" /\ peerEnd[c] # "none"
    BY <2>1 DEF IInv, TypeOK
  <2>4. PICK i \in DOMAIN backlog : backlog[i] = c
    BY <2>3
  <2> QED
    BY <2>2, <2>3, <2>4
<1>5. ASSUME NEW c \in Conns, CloseClientAndNotify(c)
      PROVE  NoneForgotten'
  BY <1>5 DEF CloseClientAndNotify, IInv, TypeOK
<1>6. ASSUME NEW c \in Conns, PeerConnects(c)
      PROVE  NoneForgotten'
  <2>1. /\ backlog' = Append(backlog, c) /\ srvEnd' = srvEnd
        /\ peerEnd' = [peerEnd EXCEPT ![c] = "open"]
        /\ backlog \in Seq(Conns)
    BY <1>6 DEF PeerConnects, IInv, TypeOK
  <2>2. /\ Len(backlog) + 1 \in DOMAIN backlog'
        /\ backlog'[Len(backlog) + 1] = c
        /\ \A i \in DOMAIN backlog :
             i \in DOMAIN backlog' /\ backlog'[i] = backlog[i]
    BY <2>1
  <2> QED
    BY <2>1, <2>2 DEF IInv, TypeOK
<1> QED
  BY <1>1, <1>2, <1>3, <1>4, <1>5, <1>6, ServerQuietSteps

(* A call and its connection, step by step of the call. *)
LEMMA OneConnectionCall ==
  ASSUME LinkType, OneConnection, NEW c \in Conns,
         \/ C!Begin(c) \/ C!CallStep(c) \/ C!SelectFails(c)
         \/ C!SelectExpires(c),
         UNCHANGED <<peerEnd, unsent>>
  PROVE  OneConnection'
<1> USE DEF OneConnection, LinkType, C!Goto, C!CountedPlaces, C!members,
            C!network, C!server, C!stopping
<1>1. CASE C!Begin(c)
  BY <1>1 DEF C!Begin
<1>2. CASE C!ConnectToServer(c)
  BY <1>2 DEF C!ConnectToServer
<1>3. CASE C!CheckPipeDescriptors(c)
  BY <1>3 DEF C!CheckPipeDescriptors
<1>4. CASE C!CloseAndNotify(c)
  BY <1>4 DEF C!CloseAndNotify
<1>5. CASE C!WriteMessage(c)
  BY <1>5 DEF C!WriteMessage
<1>6. CASE C!Count(c) \/ C!ConnectSelect(c) \/ C!AnswerSelect(c)
  BY <1>6 DEF C!Count, C!ConnectSelect, C!AnswerSelect, C!SelectOrQuit
<1>7. CASE C!ReadAll(c) \/ C!ReadSome(c) \/ C!ReadNothing(c)
  BY <1>7 DEF C!ReadAll, C!ReadSome, C!ReadNothing
<1>8. CASE C!SelectFails(c) \/ C!SelectExpires(c)
  BY <1>8 DEF C!SelectFails, C!SelectExpires
<1> QED
  BY <1>1, <1>2, <1>3, <1>4, <1>5, <1>6, <1>7, <1>8 DEF C!CallStep

(* And step by step of the network. *)
LEMMA OneConnectionNetwork ==
  ASSUME TypeOK, LinkType, OneConnection, NEW c \in Conns, NetworkStep(c)
  PROVE  OneConnection'
<1> USE DEF OneConnection, LinkType, TypeOK, network, traffic, sockets,
            clientVars, C!CountedPlaces, C!members, C!network, C!server,
            C!stopping
<1>1. CASE Connect(c)
  BY <1>1 DEF Connect, C!Establish, PeerConnects
<1>2. CASE Refuse(c)
  BY <1>2 DEF Refuse, C!Refuse, vars
<1>3. CASE DeliverMessage(c)
  BY <1>3 DEF DeliverMessage, PeerSends
<1>4. CASE DeliverEndOfCall(c)
  BY <1>4 DEF DeliverEndOfCall, PeerCloses
<1>5. CASE DeliverAnswer(c) \/ DeliverEndOfService(c)
  BY <1>5
     DEF DeliverAnswer, C!Answer, DeliverEndOfService, C!ServerCloses, vars
<1> QED
  BY <1>1, <1>2, <1>3, <1>4, <1>5 DEF NetworkStep

LEMMA OneConnectionStep ==
  ASSUME TypeOK, LinkType, OneConnection, [SystemNext]_systemVars
  PROVE  OneConnection'
<1>1. ASSUME UNCHANGED <<call, conn, sent, peerEnd, unsent>>
      PROVE  OneConnection'
  BY <1>1 DEF OneConnection
<1>2. CASE ServerStep /\ UNCHANGED clientVars
  BY <1>1, <1>2, ServerLeavesPeers DEF clientVars
<1>3. CASE C!ClientStep /\ UNCHANGED vars
  <2>1. UNCHANGED <<peerEnd, unsent>>
    BY <1>3 DEF vars, network, sockets, traffic
  <2>2. CASE \E c \in Conns : \/ C!Begin(c) \/ C!CallStep(c)
                              \/ C!SelectFails(c) \/ C!SelectExpires(c)
    BY <2>1, <2>2, OneConnectionCall
  <2>3. CASE \/ \E s \in Stops : \/ C!StopBegins(s) \/ C!StopStep(s)
                                 \/ C!WaitExpires(s)
             \/ C!Destroy
    <3>1. UNCHANGED <<call, conn, sent>>
      BY <2>3
         DEF C!StopBegins, C!StopStep, C!WaitSleeps, C!WaitSucceeds,
             C!ConsumeByte, C!StopReturns, C!WaitExpires, C!Destroy,
             C!members, C!network, C!server, C!stopping
    <3> QED
      BY <1>1, <2>1, <3>1
  <2> QED
    BY <1>3, <2>2, <2>3 DEF C!ClientStep
<1>4. CASE \E c \in Conns : NetworkStep(c)
  BY <1>4, OneConnectionNetwork
<1>5. CASE UNCHANGED systemVars
  BY <1>1, <1>5 DEF systemVars, clientVars, vars, network, sockets, traffic
<1> QED
  BY <1>2, <1>3, <1>4, <1>5 DEF SystemNext

(* doAccept opens the socket, and only its thread closes it. *)
LEMMA ServedIsOpenStep ==
  ASSUME IInv, ServedIsOpen, [Next]_vars
  PROVE  ServedIsOpen'
<1> USE DEF ServedIsOpen, Live
<1>1. ASSUME UNCHANGED <<srvEnd, handler>>, hand' \in {hand, NoConn}
      PROVE  ServedIsOpen'
  BY <1>1, ConnsAssumption
<1>2. CASE UNCHANGED vars
  BY <1>1, <1>2 DEF vars, network, sockets, threads
<1>3. CASE \/ Start \/ StartFails \/ Stop \/ WaitSleeps \/ WaitSucceeds
           \/ WaitExpires \/ Join
  BY <1>1, <1>3
     DEF Start, StartFails, Stop, WaitSleeps, WaitSucceeds, WaitExpires, Join,
         network, sockets, threads
<1>4. CASE CloseDescriptors
  <2>1. /\ UNCHANGED <<handler, hand>>
        /\ \A c \in Conns :
             \/ srvEnd'[c] = srvEnd[c]
             \/ \E i \in DOMAIN backlog : backlog[i] = c
    BY <1>4 DEF CloseDescriptors
  <2>2. \A c \in Conns :
          (\E i \in DOMAIN backlog : backlog[i] = c) => c \notin Live /\ c # hand
    BY DEF IInv, Queueing, Waiting, LivePlaces
  <2> QED
    BY <2>1, <2>2
<1>5. CASE \/ LoopQuits \/ LoopAccepts \/ CheckAdmits \/ CheckQuits
           \/ CheckSleeps \/ Leave \/ DrainSleeps \/ Drained \/ LoopFails
           \/ AcceptFails \/ DrainExpires
  BY <1>1, <1>5
     DEF LoopQuits, LoopAccepts, CheckAdmits, CheckQuits, CheckSleeps, Leave,
         DrainSleeps, Drained, LoopFails, AcceptFails, DrainExpires, network,
         sockets, threads
<1>6. CASE Accept
  <2>1. /\ handler' = handler /\ hand' = Head(backlog)
        /\ srvEnd' = [srvEnd EXCEPT ![Head(backlog)] = "open"]
    BY <1>6 DEF Accept
  <2> QED
    BY <2>1 DEF IInv, TypeOK
<1>7. CASE Register
  <2>1. hand \in Conns
    BY <1>7 DEF Register, IInv, Queueing, TypeOK
  <2> QED
    BY <1>7, <2>1, ConnsAssumption
       DEF Register, IInv, TypeOK, network, sockets
<1>8. ASSUME NEW c \in Conns, ClientThreadStep(c)
      PROVE  ServedIsOpen'
  <2>1. CASE CloseClientAndNotify(c)
    <3>1. c # hand
      BY <2>1 DEF CloseClientAndNotify, IInv, Queueing, Waiting
    <3> QED
      BY <2>1, <3>1
         DEF CloseClientAndNotify, Goto, LivePlaces, IInv, TypeOK
  <2>2. CASE \/ FirstSelect(c) \/ ReadAll(c) \/ ReadSome(c) \/ ReadNothing(c)
             \/ SleepInterrupted(c) \/ SleepExpires(c) \/ WritableSelect(c)
             \/ WriteAnswer(c) \/ SelectFails(c)
    <3>1. /\ UNCHANGED <<srvEnd, hand>>
          /\ \/ handler' = handler
             \/ \E p \in LivePlaces : handler[c] \in LivePlaces /\ Goto(c, p)
      BY <2>2
         DEF FirstSelect, ReadAll, ReadSome, ReadNothing, SleepInterrupted,
             SleepExpires, WritableSelect, WriteAnswer, SelectFails,
             LivePlaces, network, sockets, threads
    <3> QED
      BY <3>1 DEF Goto, IInv, TypeOK
  <2> QED
    BY <1>8, <2>1, <2>2 DEF ClientThreadStep, HandlerStep
<1>9. ASSUME NEW c \in Conns, PeerStep(c)
      PROVE  ServedIsOpen'
  BY <1>1, <1>9
     DEF PeerStep, PeerConnects, PeerSends, PeerCloses, threads, sockets
<1> QED
  BY <1>2, <1>3, <1>4, <1>5, <1>6, <1>7, <1>8, <1>9
     DEF Next, ServerStep, OwnerStep, ServerThreadStep

(* A message stays where it is until its thread reads it. *)
LEMMA FirstReadsAllStep ==
  ASSUME IInv, FirstReadsAll, [Next]_vars
  PROVE  FirstReadsAll'
<1> USE DEF FirstReadsAll
<1>1. ASSUME UNCHANGED <<toServer, unsent>>,
             \A c \in Conns : handler'[c] \in {"none", "first"}
                              => handler[c] \in {"none", "first"}
      PROVE  FirstReadsAll'
  BY <1>1
<1>2. CASE UNCHANGED vars
  BY <1>1, <1>2 DEF vars, network, traffic, threads
<1>3. CASE \/ Start \/ StartFails \/ Stop \/ OwnerStep \/ WaitExpires
  BY <1>1, <1>3
     DEF Start, StartFails, Stop, OwnerStep, WaitSleeps, WaitSucceeds,
         WaitExpires, Join, CloseDescriptors, network, traffic, threads
<1>4. CASE \/ LoopQuits \/ LoopAccepts \/ CheckAdmits \/ CheckQuits
           \/ CheckSleeps \/ Leave \/ DrainSleeps \/ Drained \/ LoopFails
           \/ AcceptFails \/ DrainExpires \/ Accept
  BY <1>1, <1>4
     DEF LoopQuits, LoopAccepts, CheckAdmits, CheckQuits, CheckSleeps, Leave,
         DrainSleeps, Drained, LoopFails, AcceptFails, DrainExpires, Accept,
         network, traffic, threads
<1>5. CASE Register
  <2>1. hand \in Conns /\ handler[hand] = "none"
    BY <1>5 DEF Register, IInv, Queueing, Waiting, TypeOK
  <2> QED
    BY <1>1, <1>5, <2>1 DEF Register, IInv, TypeOK, network, traffic
<1>6. ASSUME NEW c \in Conns, ClientThreadStep(c)
      PROVE  FirstReadsAll'
  <2>1. CASE ReadAll(c) \/ ReadSome(c)
    <3>1. /\ unsent' = unsent /\ handler[c] = "read"
          /\ \A d \in Conns \ {c} :
               toServer'[d] = toServer[d] /\ handler'[d] = handler[d]
          /\ handler'[c] \in {"read", "sleep"}
      BY <2>1 DEF ReadAll, ReadSome, Goto, threads, IInv, TypeOK
    <3> QED
      BY <3>1
  <2>2. CASE \/ FirstSelect(c) \/ ReadNothing(c) \/ SleepInterrupted(c)
             \/ SleepExpires(c) \/ WritableSelect(c) \/ WriteAnswer(c)
             \/ SelectFails(c) \/ CloseClientAndNotify(c)
    <3>1. /\ UNCHANGED <<toServer, unsent>>
          /\ \E p \in HandlerPlaces \ {"none", "first"} : Goto(c, p)
      BY <2>2
         DEF FirstSelect, ReadNothing, SleepInterrupted, SleepExpires,
             WritableSelect, WriteAnswer, SelectFails, CloseClientAndNotify,
             HandlerPlaces, LivePlaces, network, traffic
    <3>2. \A d \in Conns : handler'[d] \in {"none", "first"}
                           => handler[d] \in {"none", "first"}
      BY <3>1 DEF Goto, IInv, TypeOK
    <3> QED
      BY <1>1, <3>1, <3>2
  <2> QED
    BY <1>6, <2>1, <2>2 DEF ClientThreadStep, HandlerStep
<1>7. ASSUME NEW c \in Conns, PeerSends(c)
      PROVE  FirstReadsAll'
  <2>1. PICK n \in 1 .. unsent[c] :
          /\ unsent' = [unsent EXCEPT ![c] = @ - n]
          /\ toServer' = [toServer EXCEPT ![c] = @ + n]
    BY <1>7 DEF PeerSends
  <2>2. handler' = handler
    BY <1>7 DEF PeerSends, threads
  <2> QED
    BY <2>1, <2>2 DEF IInv, TypeOK
<1>8. ASSUME NEW c \in Conns, PeerConnects(c) \/ PeerCloses(c)
      PROVE  FirstReadsAll'
  BY <1>1, <1>8 DEF PeerConnects, PeerCloses, threads, traffic
<1> QED
  BY <1>2, <1>3, <1>4, <1>5, <1>6, <1>7, <1>8
     DEF Next, ServerStep, ServerThreadStep, PeerStep

LEMMA LinkedEndsInit == SystemInit => LinkedEnds
<1> SUFFICES ASSUME SystemInit PROVE LinkedEnds
  OBVIOUS
<1>1. GoneIsClosed /\ NoneForgotten /\ IdleIsQuiet
  BY DEF SystemInit, Init, GoneIsClosed, NoneForgotten, IdleIsQuiet
<1>2. OneConnection
  BY DEF SystemInit, Init, C!Init, OneConnection, C!CountedPlaces
<1>3. ServedIsOpen /\ FirstReadsAll
  BY ConnsAssumption, SizesAssumption
     DEF SystemInit, Init, ServedIsOpen, FirstReadsAll, Live, LivePlaces
<1> QED
  BY <1>1, <1>2, <1>3 DEF LinkedEnds

(* The invariants of both ends and of what links them, in every reachable
   state. *)
LEMMA LinkedEndsHold == SystemSpec => [](IInv /\ Link /\ LinkedEnds)
<1>1. IInv /\ Link /\ LinkedEnds /\ [SystemNext]_systemVars => LinkedEnds'
  <2> SUFFICES ASSUME IInv, Link, LinkedEnds, [SystemNext]_systemVars
               PROVE  LinkedEnds'
    OBVIOUS
  <2>1. OneConnection'
    BY OneConnectionStep DEF IInv, Link, LinkedEnds
  <2> QED
    BY <2>1, ServerSide, GoneIsClosedStep, IdleIsQuietStep, NoneForgottenStep,
       ServedIsOpenStep, FirstReadsAllStep
       DEF LinkedEnds
<1> QED
  BY <1>1, LinkedEndsInit, LinkHolds, PTL DEF SystemSpec

(* A call in progress hears of the end of its service. *)
LEMMA CallNotices ==
  ASSUME IInv, Link, LinkedEnds, NEW c \in Conns, c \in C!Counted,
         handler[c] = "gone" \/ owner = "idle"
  PROVE  P!CallCanStep(c) \/ ArrivesAtCall(c) \/ LeftBehind(c)
<1>1. conn[c] \in {"connecting", "up", "refused"}
  BY DEF LinkedEnds, OneConnection, C!Counted
<1>2. CASE conn[c] = "refused" \/ serverEnd[c] = "closed"
  BY <1>2 DEF P!CallCanStep, P!Writable, P!Readable, P!Broken, C!Counted,
     C!CountedPlaces
<1>3. CASE conn[c] = "connecting"
  <2>1. handler[c] # "gone"
    BY <1>3 DEF LinkedEnds, OneConnection, IInv, Queueing
  <2> QED
    BY <1>3, <2>1 DEF LinkedEnds, IdleIsQuiet, ArrivesAtCall
<1>4. CASE conn[c] = "up" /\ serverEnd[c] # "closed"
  <2>1. CASE call[c] \in {"connecting", "write", "read", "close"}
    BY <1>4, <2>1 DEF P!CallCanStep, P!Writable
  <2>2. CASE call[c] = "answer" /\ srvEnd[c] = "closed"
    <3>1. toPeer[c] = MessageSize => c \in sent
      BY SizesAssumption
         DEF Link, MessageRead, LinkedEnds, OneConnection
    <3>2. serverEnd[c] = "open"
      BY <1>4, <2>2 DEF Link, LinkType
    <3> QED
      BY <1>4, <2>2, <3>1, <3>2 DEF ArrivesAtCall, Link, LinkType
  <2>3. CASE srvEnd[c] # "closed"
    <3>1. owner = "idle" /\ handler[c] # "gone"
      BY <2>3 DEF LinkedEnds, GoneIsClosed
    <3>2. srvEnd[c] = "open"
      <4>1. backlog = <<>> /\ peerEnd[c] # "none"
        BY <1>4, <3>1 DEF LinkedEnds, IdleIsQuiet, OneConnection
      <4> QED
        BY <2>3, <4>1 DEF LinkedEnds, NoneForgotten, IInv, TypeOK
    <3>3. Live \subseteq abandoned
      BY <3>1 DEF IInv, HandShake, AllDrained
    <3> QED
      BY <3>1, <3>2, <3>3
         DEF LeftBehind, Live, IInv, TypeOK, HandlerPlaces
  <2> QED
    BY <2>1, <2>2, <2>3 DEF C!Counted, C!CountedPlaces
<1> QED
  BY <1>1, <1>2, <1>3, <1>4

(* A thread of the server hears of the end of its call. *)
LEMMA ThreadNotices ==
  ASSUME IInv, NEW c \in Live, conn[c] = "closed"
  PROVE  HandlerCanStep(c) \/ ArrivesAtServer(c)
<1>1. c \in Conns /\ peerEnd[c] \in {"open", "closed"}
  BY DEF Live, LivePlaces, IInv, TypeOK, Queueing
<1>2. CASE peerEnd[c] = "closed"
  BY <1>2 DEF HandlerCanStep, SocketReadable, Live, LivePlaces
<1>3. CASE peerEnd[c] = "open"
  BY <1>1, <1>3 DEF ArrivesAtServer, IInv, TypeOK
<1> QED
  BY <1>1, <1>2, <1>3

(* No end waits in vain for the other one, except for what stop left behind:
   for any number of calls and any limit of clients. *)
THEOREM EveryEndIsNoticed == SystemSpec => []EndsAreNoticed
<1>1. IInv /\ Link /\ LinkedEnds => EndsAreNoticed
  BY CallNotices, ThreadNotices DEF EndsAreNoticed
<1> QED
  BY <1>1, LinkedEndsHold, PTL

(* The thread of a connection goes on, or its message or the end of its call
   is on its way, or its call goes on. *)
LEMMA LiveGoesOn ==
  ASSUME IInv, Link, LinkedEnds, NEW c \in Live
  PROVE  ServiceGoesOn(c)
<1>1. c \in Conns /\ peerEnd[c] \in {"open", "closed"} /\ srvEnd[c] = "open"
  BY DEF Live, LivePlaces, IInv, TypeOK, Queueing, LinkedEnds, ServedIsOpen
<1>2. CASE handler[c] # "first"
  BY <1>2 DEF Live, LivePlaces, ServiceGoesOn, HandlerCanStep
<1>3. CASE handler[c] = "first" /\ (toServer[c] > 0 \/ peerEnd[c] = "closed")
  BY <1>3 DEF ServiceGoesOn, HandlerCanStep, SocketReadable
<1>4. CASE handler[c] = "first" /\ toServer[c] = 0 /\ peerEnd[c] = "open"
  <2>1. unsent[c] > 0
    BY <1>1, <1>4, SizesAssumption
       DEF LinkedEnds, FirstReadsAll, IInv, TypeOK
  <2>2. CASE conn[c] = "closed"
    BY <2>2, ThreadNotices DEF ServiceGoesOn
  <2>3. CASE c \in sent
    BY <1>1, <1>4, <2>1, <2>3 DEF ServiceGoesOn, ArrivesAtServer
  <2>4. CASE conn[c] = "up" /\ c \notin sent
    <3>1. call[c] \in {"check", "count", "connecting", "write", "close"}
      BY <1>1, <2>4
         DEF LinkedEnds, OneConnection, Link, LinkType, C!CallPlaces,
             C!ActivePlaces, C!CountedPlaces
    <3> QED
      BY <2>4, <3>1 DEF ServiceGoesOn, P!CallCanStep, P!Writable
  <2> QED
    BY <1>1, <1>4, <2>2, <2>3, <2>4 DEF LinkedEnds, OneConnection
<1>5. toServer[c] \in Nat
  BY <1>1 DEF IInv, TypeOK
<1> QED
  BY <1>1, <1>2, <1>3, <1>4, <1>5

(* The main loop goes on towards a connection that has no thread, or is full. *)
LEMMA QueueGoesOn ==
  ASSUME IInv, Link, LinkedEnds, NEW c \in Conns, Waiting(c),
         srv \in LoopPlaces
  PROVE  ServerThreadCanStep \/ SlotsGoOn
<1>1. srv \in {"select", "accept"} => backlog # <<>>
  BY ConnsAssumption DEF IInv, Queueing, Waiting
<1>2. CASE srv # "check" \/ Awake("server")
  BY <1>1, <1>2 DEF ServerThreadCanStep, LoopPlaces
<1>3. CASE srv = "check" /\ ~Awake("server")
  <2>1. currentNumberClients = MaxNumberClients
    BY <1>3, MaxNumberClientsAssumption
       DEF IInv, TypeOK, NoLostWakeup, Admission, HasCapacity, Awake
  <2>2. Cardinality(Live) = MaxNumberClients
    BY <2>1 DEF IInv, CountExact
  <2> QED
    BY <2>2, LiveGoesOn DEF SlotsGoOn
<1> QED
  BY <1>2, <1>3

(* A connection that is neither queued, nor in the hand of doAccept, nor
   served: it was dropped or reset, or there is none yet. *)
LEMMA NobodyWaitsFor ==
  ASSUME IInv, Link, LinkedEnds, NEW c \in C!Counted, handler[c] = "none",
         ~Waiting(c)
  PROVE  P!CallCanStep(c) \/ ArrivesAtCall(c) \/ Unserved(c)
<1>1. /\ c \in Conns /\ conn[c] \in {"connecting", "up", "refused"}
      /\ serverEnd[c] \in {"open", "closed"}
  BY DEF LinkedEnds, OneConnection, C!Counted, Link, LinkType
<1>2. CASE conn[c] = "refused" \/ serverEnd[c] = "closed"
  BY <1>2 DEF P!CallCanStep, P!Writable, P!Readable, P!Broken, C!Counted,
     C!CountedPlaces
<1>3. CASE conn[c] = "connecting"
  BY <1>3 DEF ArrivesAtCall
<1>4. CASE conn[c] = "up" /\ serverEnd[c] = "open"
  <2>1. CASE call[c] \in {"connecting", "write", "read", "close"}
    BY <1>4, <2>1 DEF P!CallCanStep, P!Writable
  <2>2. CASE srvEnd[c] = "open"
    BY <1>1, <2>2 DEF Unserved, Dropped, Live, LivePlaces, Waiting
  <2>3. CASE srvEnd[c] = "closed"
    BY <1>1, <1>4, <2>3 DEF ArrivesAtCall, Link, MessageRead
  <2>4. srvEnd[c] # "none"
    BY <1>1, <1>4 DEF LinkedEnds, NoneForgotten, OneConnection, Waiting
  <2>5. srvEnd[c] \in {"none", "open", "closed"}
    BY <1>1 DEF IInv, TypeOK
  <2> QED
    BY <2>2, <2>3, <2>4, <2>5
<1> QED
  BY <1>1, <1>2, <1>3, <1>4

(* The two programs never wait for each other: a call waits for delays, its
   own or those of the calls ahead of it, and for nothing else, unless the
   server got to the end of its main loop before it got to the call. *)
THEOREM OnlyDelaysAreWaitedFor == SystemSpec => []OnlyDelaysHoldUp
<1>1. ASSUME IInv, Link, LinkedEnds, NEW c \in C!Counted
      PROVE  \/ P!CallCanStep(c) \/ ArrivesAtCall(c)
             \/ c \in Live /\ ServiceGoesOn(c)
             \/ Unserved(c)
             \/ handler[c] = "none" /\ (ServerThreadCanStep \/ SlotsGoOn)
  <2>1. c \in Conns /\ handler[c] \in HandlerPlaces
    BY <1>1 DEF C!Counted, IInv, TypeOK
  <2>2. CASE c \in Live
    BY <1>1, <2>2, LiveGoesOn
  <2>3. CASE handler[c] = "gone"
    BY <1>1, <2>1, <2>3, CallNotices DEF LeftBehind, Live, LivePlaces
  <2>4. CASE handler[c] = "none" /\ srv \notin LoopPlaces
    BY <2>4 DEF Unserved
  <2>5. CASE handler[c] = "none" /\ Waiting(c) /\ srv \in LoopPlaces
    BY <1>1, <2>1, <2>5, QueueGoesOn
  <2>6. CASE handler[c] = "none" /\ ~Waiting(c)
    BY <1>1, <2>1, <2>6, NobodyWaitsFor
  <2> QED
    BY <2>1, <2>2, <2>3, <2>4, <2>5, <2>6 DEF Live, HandlerPlaces
<1>2. IInv /\ Link /\ LinkedEnds => OnlyDelaysHoldUp
  BY <1>1 DEF OnlyDelaysHoldUp
<1> QED
  BY <1>2, LinkedEndsHold, PTL

=============================================================================
