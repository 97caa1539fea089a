------------------------ MODULE ServerProgressProofs ------------------------
(***************************************************************************)
(* Proofs about ServerProgress: nobody is stuck in a shutdown, the threads *)
(* run out of steps, and a life of the server leaves at most one           *)
(* connection open, for every instance of Server.                          *)
(***************************************************************************)
EXTENDS ServerProgress, ServerProofs

-----------------------------------------------------------------------------
(* The ways to go, place by place.                                          *)

(* What HandlerDistance is at each place of a client thread. *)
LEMMA HandlerDistances ==
  ASSUME NEW c \in Conns
  PROVE  /\ handler[c] = "gone" => HandlerDistance(c) = 0
         /\ handler[c] = "close" => HandlerDistance(c) = 1
         /\ handler[c] = "write" => HandlerDistance(c) = 2
         /\ handler[c] = "writable" => HandlerDistance(c) = 3
         /\ handler[c] = "sleep" => HandlerDistance(c) = 4
         /\ handler[c] = "read" => HandlerDistance(c) = 5
         /\ handler[c] = "first" => HandlerDistance(c) = 6
         /\ handler[c] = "none" => HandlerDistance(c) = 7
BY DEF HandlerDistance

(* And after the step. *)
LEMMA HandlerDistancesNext ==
  ASSUME NEW c \in Conns
  PROVE  /\ handler'[c] = "gone" => HandlerDistance(c)' = 0
         /\ handler'[c] = "close" => HandlerDistance(c)' = 1
         /\ handler'[c] = "write" => HandlerDistance(c)' = 2
         /\ handler'[c] = "writable" => HandlerDistance(c)' = 3
         /\ handler'[c] = "sleep" => HandlerDistance(c)' = 4
         /\ handler'[c] = "read" => HandlerDistance(c)' = 5
         /\ handler'[c] = "first" => HandlerDistance(c)' = 6
         /\ handler'[c] = "none" => HandlerDistance(c)' = 7
BY DEF HandlerDistance

(* The server thread goes on. *)
LEMMA SrvNearer ==
  ASSUME <<srv, srv'>> \in
           {<<"select", "leave">>, <<"accept", "check">>,
            <<"accept", "select">>, <<"accept", "leave">>,
            <<"check", "leave">>, <<"register", "select">>,
            <<"leave", "drain">>, <<"drain", "done">>, <<"done", "off">>}
  PROVE  SrvDistance' < SrvDistance /\ SrvDistance' <= SrvDistance
BY DEF SrvDistance

(* The owner goes on. *)
LEMMA OwnerNearer ==
  ASSUME <<owner, owner'>> \in
           {<<"wait", "join">>, <<"join", "close">>, <<"close", "idle">>}
  PROVE  OwnerDistance' < OwnerDistance /\ OwnerDistance' <= OwnerDistance
BY DEF OwnerDistance

(* A thread that stays where it is is no further away. *)
LEMMA SrvNotFurther ==
  ASSUME TypeOK, srv' = srv
  PROVE  SrvDistance' <= SrvDistance
<1>1. SrvDistance' = SrvDistance
  BY DEF SrvDistance
<1>2. SrvDistance \in Nat
  BY DEF SrvDistance, TypeOK, SrvPlaces, LoopPlaces
<1> QED
  BY <1>1, <1>2

(* Nor is the owner. *)
LEMMA OwnerNotFurther ==
  ASSUME TypeOK, owner' = owner
  PROVE  OwnerDistance' <= OwnerDistance
<1>1. OwnerDistance' = OwnerDistance
  BY DEF OwnerDistance
<1>2. OwnerDistance \in Nat
  BY DEF OwnerDistance, TypeOK, OwnerPlaces
<1> QED
  BY <1>1, <1>2

-----------------------------------------------------------------------------
(* Nobody is stuck.                                                         *)

(* PInv holds initially. *)
LEMMA PInvInit == Init => PInv
<1> SUFFICES ASSUME Init PROVE PInv
  OBVIOUS
<1>1. Dropped = {}
  BY DEF Init, Dropped
<1>2. OneDropPerStart
  BY <1>1, FS_EmptySet DEF Init, OneDropPerStart, LoopPlaces
<1> QED
  BY <1>2 DEF Init, PInv, QuitOutsideLife, AcceptFindsOne, StaleGivenUp

(* The quit signal is only withdrawn by start and is there after stop. *)
LEMMA QuitOutsideLifeStep ==
  IInv /\ QuitOutsideLife /\ [Next]_vars => QuitOutsideLife'
<1> SUFFICES ASSUME IInv, QuitOutsideLife, [Next]_vars
             PROVE  QuitOutsideLife'
  OBVIOUS
<1> USE DEF QuitOutsideLife, flags, members, threads
<1>1. CASE Start \/ StartFails \/ Stop \/ OwnerStep \/ WaitExpires
  BY <1>1
     DEF Start, StartFails, Stop, OwnerStep, WaitSleeps, WaitSucceeds, Join,
         CloseDescriptors, WaitExpires, QuitRunningThread
<1>2. CASE ServerThreadStep \/ LoopFails \/ AcceptFails \/ DrainExpires
  BY <1>2
     DEF ServerThreadStep, LoopQuits, LoopAccepts, Accept, CheckAdmits,
         CheckQuits, CheckSleeps, Register, Leave, DrainSleeps, Drained,
         LoopFails, AcceptFails, DrainExpires, QuitRunningThread, FinishRun
<1>3. ASSUME NEW c \in Conns, ClientThreadStep(c) \/ PeerStep(c)
      PROVE  UNCHANGED <<owner, quitSignal>>
  BY <1>3
     DEF ClientThreadStep, HandlerStep, SleepExpires, SelectFails, FirstSelect,
         ReadAll, ReadSome, ReadNothing, SleepInterrupted, WritableSelect,
         WriteAnswer, CloseClientAndNotify, PeerStep, PeerConnects, PeerSends,
         PeerCloses
<1> QED
  BY <1>1, <1>2, <1>3 DEF Next, ServerStep, vars

(* Only accept4 itself takes a connection out of the backlog, as long as there
   is a server thread. *)
LEMMA AcceptFindsOneStep ==
  IInv /\ AcceptFindsOne /\ [Next]_vars => AcceptFindsOne'
<1> SUFFICES ASSUME IInv, AcceptFindsOne, [Next]_vars
             PROVE  AcceptFindsOne'
  OBVIOUS
<1> USE DEF AcceptFindsOne, threads, network, sockets
<1>1. CASE Start \/ StartFails \/ Stop \/ OwnerStep \/ WaitExpires
  BY <1>1
     DEF Start, StartFails, Stop, OwnerStep, WaitSleeps, WaitSucceeds, Join,
         CloseDescriptors, WaitExpires, IInv, HandShake
<1>2. CASE ServerThreadStep \/ LoopFails \/ AcceptFails \/ DrainExpires
  BY <1>2
     DEF ServerThreadStep, LoopQuits, LoopAccepts, Accept, CheckAdmits,
         CheckQuits, CheckSleeps, Register, Leave, DrainSleeps, Drained,
         LoopFails, AcceptFails, DrainExpires, FinishRun
<1>3. ASSUME NEW c \in Conns, ClientThreadStep(c)
      PROVE  UNCHANGED <<srv, backlog>>
  BY <1>3
     DEF ClientThreadStep, HandlerStep, SleepExpires, SelectFails, FirstSelect,
         ReadAll, ReadSome, ReadNothing, SleepInterrupted, WritableSelect,
         WriteAnswer, CloseClientAndNotify
<1>4. ASSUME NEW c \in Conns, PeerStep(c)
      PROVE  AcceptFindsOne'
  <2>1. CASE PeerConnects(c)
    <3>1. backlog' # <<>>
      BY <2>1 DEF PeerConnects, IInv, TypeOK
    <3> QED
      BY <3>1
  <2>2. CASE PeerSends(c) \/ PeerCloses(c)
    BY <2>2 DEF PeerSends, PeerCloses
  <2> QED
    BY <1>4, <2>1, <2>2 DEF PeerStep
<1> QED
  BY <1>1, <1>2, <1>3, <1>4 DEF Next, ServerStep, vars

(* The descriptors are closed when every thread still alive was given up. *)
LEMMA StaleGivenUpStep ==
  IInv /\ StaleGivenUp /\ [Next]_vars => StaleGivenUp'
<1> SUFFICES ASSUME IInv, StaleGivenUp, [Next]_vars
             PROVE  StaleGivenUp'
  OBVIOUS
<1> USE DEF StaleGivenUp, history
<1>1. CASE CloseDescriptors
  BY <1>1 DEF CloseDescriptors, IInv, HandShake, AllDrained
<1>2. CASE Start \/ StartFails \/ Stop \/ WaitExpires
  BY <1>2 DEF Start, StartFails, Stop, WaitExpires
<1>3. CASE WaitSleeps \/ WaitSucceeds \/ Join
  BY <1>3 DEF WaitSleeps, WaitSucceeds, Join
<1>4. CASE ServerThreadStep \/ LoopFails \/ AcceptFails \/ DrainExpires
  BY <1>4
     DEF ServerThreadStep, LoopQuits, LoopAccepts, Accept, CheckAdmits,
         CheckQuits, CheckSleeps, Register, Leave, DrainSleeps, Drained,
         LoopFails, AcceptFails, DrainExpires
<1>5. ASSUME NEW c \in Conns, ClientThreadStep(c) \/ PeerStep(c)
      PROVE  stale' \subseteq stale /\ abandoned' = abandoned
  BY <1>5
     DEF ClientThreadStep, HandlerStep, SleepExpires, SelectFails, FirstSelect,
         ReadAll, ReadSome, ReadNothing, SleepInterrupted, WritableSelect,
         WriteAnswer, CloseClientAndNotify, PeerStep, PeerConnects, PeerSends,
         PeerCloses
<1> QED
  BY <1>1, <1>2, <1>3, <1>4, <1>5 DEF Next, ServerStep, OwnerStep, vars

-----------------------------------------------------------------------------
(* What stop leaves open.                                                   *)

(* No more open ends than before, and no smaller a bound for them. *)
LEMMA DropsNothing ==
  ASSUME OneDropPerStart, TypeOK, Dropped' \subseteq Dropped,
         \/ starts' = starts /\ (srv' \in LoopPlaces => srv \in LoopPlaces)
         \/ starts' = starts + 1
  PROVE  OneDropPerStart'
<1>1. IsFiniteSet(Dropped)
  <2>1. Dropped \in SUBSET Conns
    BY DEF Dropped
  <2> QED
    BY <2>1, FS_Subset, ConnsAssumption
<1>2. /\ Cardinality(Dropped') <= Cardinality(Dropped)
      /\ Cardinality(Dropped) \in Nat /\ Cardinality(Dropped') \in Nat
  BY <1>1, FS_Subset, FS_CardinalityType
<1>3. starts \in Int
  BY DEF TypeOK
<1> QED
  BY <1>2, <1>3 DEF OneDropPerStart

(* The one way to drop a connection also ends the main loop. *)
LEMMA DropsOne ==
  ASSUME OneDropPerStart, IInv, CheckQuits
  PROVE  OneDropPerStart'
<1> USE DEF threads, network, sockets, history
<1>1. Dropped' \subseteq Dropped \cup {hand} /\ hand \in Conns
  BY DEF CheckQuits, Dropped, Live, IInv, TypeOK, Queueing
<1>2. IsFiniteSet(Dropped)
  <2>1. Dropped \in SUBSET Conns
    BY DEF Dropped
  <2> QED
    BY <2>1, FS_Subset, ConnsAssumption
<1>3. /\ IsFiniteSet(Dropped \cup {hand})
      /\ Cardinality(Dropped) \in Nat
      /\ Cardinality(Dropped \cup {hand}) \in Nat
      /\ Cardinality(Dropped \cup {hand}) <= Cardinality(Dropped) + 1
  <2>1. IsFiniteSet(Dropped \cup {hand})
    BY <1>2, FS_AddElement
  <2>2. Cardinality(Dropped) \in Nat
    BY <1>2, FS_CardinalityType
  <2>3. Cardinality(Dropped \cup {hand})
          \in {Cardinality(Dropped), Cardinality(Dropped) + 1}
    BY <1>2, FS_AddElement
  <2> QED
    BY <2>1, <2>2, <2>3
<1>4. /\ Cardinality(Dropped') <= Cardinality(Dropped \cup {hand})
      /\ Cardinality(Dropped') \in Nat
  BY <1>1, <1>3, FS_Subset, FS_CardinalityType
<1>5. /\ srv \in LoopPlaces /\ srv' \notin LoopPlaces
      /\ starts' = starts /\ starts \in Int
  BY DEF CheckQuits, LoopPlaces, IInv, TypeOK
<1> QED
  BY <1>3, <1>4, <1>5 DEF OneDropPerStart

(* A client thread on its way takes its connection with it. *)
LEMMA DropsNoClient ==
  ASSUME IInv, OneDropPerStart, NEW c \in Conns,
         ClientThreadStep(c) \/ PeerStep(c)
  PROVE  OneDropPerStart'
<1> USE DEF flags, members, pipes, threads, sockets, traffic, network, history
<1>1. UNCHANGED <<starts, srv, hand>>
  BY DEF ClientThreadStep, HandlerStep, SleepExpires, SelectFails, FirstSelect,
         ReadAll, ReadSome, ReadNothing, SleepInterrupted, WritableSelect,
         WriteAnswer, CloseClientAndNotify, PeerStep, PeerConnects, PeerSends,
         PeerCloses
<1>2. CASE CloseClientAndNotify(c)
  BY <1>1, <1>2, DropsNothing
     DEF CloseClientAndNotify, Goto, Dropped, Live, IInv, TypeOK, LivePlaces
<1>3. CASE PeerStep(c)
  <2>1. UNCHANGED <<srvEnd, handler>>
    BY <1>3 DEF PeerStep, PeerConnects, PeerSends, PeerCloses
  <2> QED
    BY <1>1, <2>1, DropsNothing DEF Dropped, Live, IInv
<1>4. CASE \/ FirstSelect(c) \/ ReadAll(c) \/ ReadSome(c) \/ ReadNothing(c)
           \/ SleepInterrupted(c) \/ WritableSelect(c) \/ WriteAnswer(c)
           \/ SleepExpires(c) \/ SelectFails(c)
  <2>1. /\ srvEnd' = srvEnd
        /\ \/ handler' = handler
           \/ \E p \in LivePlaces : handler[c] \in LivePlaces /\ Goto(c, p)
    BY <1>4
       DEF SleepExpires, SelectFails, FirstSelect, ReadAll, ReadSome,
           ReadNothing, SleepInterrupted, WritableSelect, WriteAnswer,
           LivePlaces
  <2>2. Live' = Live
    BY <2>1, LiveMoves, LiveUnchanged DEF IInv
  <2> QED
    BY <1>1, <2>1, <2>2, DropsNothing DEF Dropped, IInv
<1> QED
  BY <1>2, <1>3, <1>4 DEF ClientThreadStep, HandlerStep

(* Only a quit signal that meets doAccept while it waits for capacity drops a
   connection, and it ends the main loop, which only start enters. *)
LEMMA OneDropPerStartStep ==
  IInv /\ OneDropPerStart /\ [Next]_vars => OneDropPerStart'
<1> SUFFICES ASSUME IInv, OneDropPerStart, [Next]_vars
             PROVE  OneDropPerStart'
  OBVIOUS
<1> USE DEF flags, members, pipes, threads, sockets, traffic, network, history
<1>1. CASE Start \/ StartFails
  <2>1. UNCHANGED <<srvEnd, handler, hand>> /\ starts' = starts + 1
    BY <1>1 DEF Start, StartFails
  <2> QED
    BY <2>1, DropsNothing DEF Dropped, Live, IInv
<1>2. CASE Stop \/ OwnerStep \/ WaitExpires
  <2>1. /\ UNCHANGED <<handler, hand, starts>>
        /\ srv' \in {srv, "off"}
        /\ \A c \in Conns : srvEnd'[c] = "open" => srvEnd[c] = "open"
    BY <1>2
       DEF Stop, OwnerStep, WaitSleeps, WaitSucceeds, Join, CloseDescriptors,
           WaitExpires, IInv, TypeOK
  <2> QED
    BY <2>1, DropsNothing DEF Dropped, Live, LoopPlaces, IInv
<1>3. CASE CheckQuits
  BY <1>3, DropsOne
<1>4. CASE Accept
  <2>1. /\ UNCHANGED <<handler, starts>> /\ hand = NoConn
        /\ \A c \in Conns : c # hand' => srvEnd'[c] = srvEnd[c]
    BY <1>4 DEF Accept, IInv, TypeOK, Queueing
  <2>2. Dropped' \subseteq Dropped
    BY <2>1, ConnsAssumption DEF Dropped, Live
  <2> QED
    BY <1>4, <2>1, <2>2, DropsNothing DEF Accept, LoopPlaces, IInv
<1>5. CASE Register
  <2>1. hand \in Conns /\ handler[hand] = "none"
    BY <1>5 DEF Register, IInv, Queueing, Waiting, TypeOK
  <2>2. Dropped' \subseteq Dropped
    BY <1>5, <2>1 DEF Register, Dropped, Live, LivePlaces, IInv, TypeOK
  <2> QED
    BY <1>5, <2>2, DropsNothing DEF Register, LoopPlaces, IInv
<1>6. CASE \/ LoopQuits \/ LoopAccepts \/ CheckAdmits \/ CheckSleeps \/ Leave
           \/ DrainSleeps \/ Drained \/ LoopFails \/ AcceptFails
           \/ DrainExpires
  <2>1. /\ UNCHANGED <<srvEnd, handler, hand, starts>>
        /\ srv' \in LoopPlaces => srv \in LoopPlaces
    BY <1>6
       DEF LoopQuits, LoopAccepts, CheckAdmits, CheckSleeps, Leave,
           DrainSleeps, Drained, LoopFails, AcceptFails, DrainExpires,
           FinishRun, LoopPlaces
  <2> QED
    BY <2>1, DropsNothing DEF Dropped, Live, IInv
<1>7. ASSUME NEW c \in Conns, ClientThreadStep(c) \/ PeerStep(c)
      PROVE  OneDropPerStart'
  BY <1>7, DropsNoClient
<1>8. CASE UNCHANGED vars
  BY <1>8, DropsNothing DEF vars, Dropped, Live, IInv
<1> QED
  BY <1>1, <1>2, <1>3, <1>4, <1>5, <1>6, <1>7, <1>8
     DEF Next, ServerStep, ServerThreadStep

(* PInv holds in every reachable state. *)
LEMMA ProgressInvariant == Spec => [](IInv /\ PInv)
<1>1. IInv /\ PInv /\ [Next]_vars => PInv'
  BY QuitOutsideLifeStep, AcceptFindsOneStep, StaleGivenUpStep,
     OneDropPerStartStep
     DEF PInv
<1> QED
  BY <1>1, PInvInit, InductiveInvariant, PTL DEF Spec

(* After n calls of start at most n accepted connections are open and not served: the
   connections that stop leaves behind (the finding of leak) are bounded by the
   calls of start. *)
THEOREM LeakIsBounded == Spec => []OneDropPerStart
<1>1. PInv => OneDropPerStart
  BY DEF PInv
<1> QED
  BY <1>1, ProgressInvariant, PTL

-----------------------------------------------------------------------------
(* Somebody can always go on.                                               *)

(* The server thread and the client threads it waits for.  No loop: the client
   threads wait for the pipe alone, and what it holds stays until they ended. *)
LEMMA RunNeverStuck ==
  ASSUME IInv, PInv, owner \in {"wait", "join"}, Live \cap abandoned = {},
         srv \in Running
  PROVE  \/ ServerThreadCanStep
         \/ srv = "drain" /\ Live # {} /\ \A c \in Live : HandlerCanStep(c)
<1>1. quitSignal
  BY DEF PInv, QuitOutsideLife
<1>2. pipeBytes > 0 /\ pipe = "open"
  BY <1>1 DEF IInv, PipeContent, HandShake, Running
<1>3. CASE srv = "select"
  BY <1>2, <1>3 DEF ServerThreadCanStep, PipeReadable
<1>4. CASE srv = "accept"
  BY <1>4 DEF ServerThreadCanStep, PInv, AcceptFindsOne
<1>5. CASE srv = "check"
  BY <1>1, <1>5 DEF ServerThreadCanStep, Awake, IInv, NoLostWakeup
<1>6. CASE srv \in {"register", "leave"}
  BY <1>6 DEF ServerThreadCanStep
<1>7. CASE srv = "drain" /\ Awake("server")
  BY <1>7 DEF ServerThreadCanStep
<1>8. CASE srv = "drain" /\ ~Awake("server")
  <2>1. currentNumberClients > 0
    BY <1>8 DEF Awake, IInv, NoLostWakeup
  <2>2. Live # {}
    BY <2>1, FS_EmptySet DEF IInv, CountExact
  <2>3. ASSUME NEW c \in Live
        PROVE  HandlerCanStep(c)
    <3>1. c \notin stale
      BY <2>3 DEF PInv, StaleGivenUp
    <3> QED
      BY <1>2, <3>1 DEF HandlerCanStep, PipeReadable, Live, LivePlaces
  <2> QED
    BY <1>8, <2>2, <2>3
<1> QED
  BY <1>3, <1>4, <1>5, <1>6, <1>7, <1>8 DEF Running, LoopPlaces

(* No shutdown is ever stuck, with any number of clients, however they behave
   and without a time out: stop, the server thread and the client threads
   never wait for each other in a circle. *)
THEOREM NobodyIsStuck == Spec => []StopNeverStuck
<1>1. IInv /\ PInv => StopNeverStuck
  <2> SUFFICES ASSUME IInv, PInv, owner \in {"wait", "join", "close"},
                      Live \cap abandoned = {}, ~OwnerCanStep
               PROVE  \/ ServerThreadCanStep
                      \/ /\ srv = "drain" /\ Live # {}
                         /\ \A c \in Live : HandlerCanStep(c)
    BY DEF StopNeverStuck
  <2>1. owner # "close"
    BY DEF OwnerCanStep
  <2>2. srv \in Running
    <3>1. CASE owner = "wait"
      BY <3>1 DEF OwnerCanStep, Awake, IInv, NoLostWakeup, HandShake
    <3>2. CASE owner = "join"
      BY <3>2
         DEF OwnerCanStep, IInv, HandShake, TypeOK, SrvPlaces, LoopPlaces,
             Running
    <3> QED
      BY <2>1, <3>1, <3>2
  <2> QED
    BY <2>1, <2>2, RunNeverStuck
<1> QED
  BY <1>1, ProgressInvariant, PTL

-----------------------------------------------------------------------------
(* The client threads run out of steps.                                     *)

(* A client thread that moves on. *)
LEMMA FallsToPlace ==
  ASSUME TypeOK, NEW c \in Conns, NEW p \in HandlerPlaces, Goto(c, p),
         \/ handler[c] \in {"first", "read", "sleep", "writable", "write"}
            /\ p = "close"
         \/ <<handler[c], p>> \in {<<"first", "read">>, <<"read", "sleep">>,
              <<"sleep", "writable">>, <<"writable", "write">>,
              <<"close", "gone">>, <<"none", "first">>}
  PROVE  Falls(c)
<1>1. handler'[c] = p
  BY DEF Goto, TypeOK
<1> QED
  BY <1>1, HandlerDistances, HandlerDistancesNext DEF Falls

(* The other client threads stay where they are, and so does what the peers
   have for them. *)
LEMMA StaysElsewhere ==
  ASSUME TypeOK, NEW c \in Conns, NEW d \in Conns, c # d,
         \/ handler' = handler
         \/ \E p \in HandlerPlaces : Goto(c, p),
         \/ toServer' = toServer
         \/ \E n \in Nat : toServer' = [toServer EXCEPT ![c] = n],
         \/ unsent' = unsent
         \/ \E n \in Nat : unsent' = [unsent EXCEPT ![c] = n]
  PROVE  Stays(d)
<1>1. handler'[d] = handler[d]
  BY DEF Goto, TypeOK
<1>2. toServer'[d] = toServer[d] /\ unsent'[d] = unsent[d]
  BY DEF TypeOK
<1> QED
  BY <1>1, <1>2 DEF Stays, ToRead

(* Every step of a client thread takes it nearer to its end. *)
LEMMA ClientThreadFalls ==
  ASSUME TypeOK, NEW c \in Conns, ClientThreadStep(c)
  PROVE  /\ Falls(c)
         /\ \A d \in Conns : d # c => Stays(d)
<1> USE DEF flags, members, pipes, threads, sockets, traffic, network, history
<1>1. CASE ReadSome(c)
  <2>1. /\ UNCHANGED <<handler, unsent>>
        /\ toServer' = [toServer EXCEPT ![c] = 0] /\ toServer[c] > 0
    BY <1>1, SizesAssumption DEF ReadSome, TypeOK
  <2>2. Falls(c)
    BY <2>1 DEF Falls, ToRead, TypeOK
  <2> QED
    BY <2>1, <2>2, StaysElsewhere
<1>2. CASE ReadAll(c)
  <2>1. /\ handler[c] = "read" /\ Goto(c, "sleep") /\ unsent' = unsent
        /\ toServer' = [toServer EXCEPT ![c] = toServer[c] - MessageSize]
        /\ toServer[c] - MessageSize \in Nat
    BY <1>2, SizesAssumption DEF ReadAll, TypeOK
  <2>2. Falls(c)
    BY <2>1, FallsToPlace DEF HandlerPlaces, LivePlaces
  <2> QED
    BY <2>1, <2>2, StaysElsewhere DEF HandlerPlaces, LivePlaces
<1>3. CASE \/ FirstSelect(c) \/ ReadNothing(c) \/ SleepInterrupted(c)
           \/ WritableSelect(c) \/ WriteAnswer(c) \/ CloseClientAndNotify(c)
           \/ SleepExpires(c) \/ SelectFails(c)
  <2>1. /\ UNCHANGED <<toServer, unsent>>
        /\ \/ /\ handler[c] \in {"first", "read", "sleep", "writable", "write"}
              /\ Goto(c, "close")
           \/ handler[c] = "first" /\ Goto(c, "read")
           \/ handler[c] = "sleep" /\ Goto(c, "writable")
           \/ handler[c] = "writable" /\ Goto(c, "write")
           \/ handler[c] = "close" /\ Goto(c, "gone")
    BY <1>3
       DEF FirstSelect, ReadNothing, SleepInterrupted, WritableSelect,
           WriteAnswer, CloseClientAndNotify, SleepExpires, SelectFails
  <2>2. Falls(c)
    BY <2>1, FallsToPlace DEF HandlerPlaces, LivePlaces
  <2>3. \E p \in HandlerPlaces : Goto(c, p)
    BY <2>1 DEF HandlerPlaces, LivePlaces
  <2> QED
    BY <2>1, <2>2, <2>3, StaysElsewhere
<1> QED
  BY <1>1, <1>2, <1>3 DEF ClientThreadStep, HandlerStep

(* A peer hands over what it has, and takes no client thread back. *)
LEMMA PeerStays ==
  ASSUME TypeOK, NEW c \in Conns, PeerStep(c)
  PROVE  \A d \in Conns : Stays(d)
<1> USE DEF flags, members, pipes, threads, sockets, traffic, network, history
<1>1. CASE PeerSends(c)
  <2>1. PICK n \in 1 .. unsent[c] :
          /\ unsent' = [unsent EXCEPT ![c] = unsent[c] - n]
          /\ toServer' = [toServer EXCEPT ![c] = toServer[c] + n]
    BY <1>1 DEF PeerSends
  <2>2. unsent[c] - n \in Nat /\ toServer[c] + n \in Nat /\ handler' = handler
    BY <1>1, <2>1 DEF PeerSends, TypeOK
  <2>3. Stays(c)
    BY <2>1, <2>2 DEF Stays, ToRead, TypeOK
  <2> QED
    BY <2>1, <2>2, <2>3, StaysElsewhere
<1>2. CASE PeerConnects(c) \/ PeerCloses(c)
  BY <1>2 DEF PeerConnects, PeerCloses, Stays, ToRead
<1> QED
  BY <1>1, <1>2 DEF PeerStep

(* The owner and the server thread only create client threads. *)
LEMMA OthersStay ==
  ASSUME IInv,
         \/ Start \/ StartFails \/ Stop \/ OwnerStep \/ WaitExpires
         \/ ServerThreadStep \/ LoopFails \/ AcceptFails \/ DrainExpires
  PROVE  \A c \in Conns : Falls(c) \/ Stays(c)
<1> USE DEF flags, members, pipes, threads, sockets, traffic, network, history
<1>1. CASE Register
  <2>1. PICK c \in Conns :
          /\ handler[c] = "none" /\ Goto(c, "first")
          /\ UNCHANGED <<toServer, unsent>>
    BY <1>1 DEF Register, Goto, IInv, Queueing, Waiting, TypeOK
  <2>2. Falls(c)
    BY <2>1, FallsToPlace DEF IInv, HandlerPlaces, LivePlaces
  <2> QED
    BY <2>1, <2>2, StaysElsewhere DEF IInv, HandlerPlaces, LivePlaces
<1>2. CASE Start \/ StartFails \/ Stop \/ OwnerStep \/ WaitExpires
  BY <1>2
     DEF Start, StartFails, Stop, OwnerStep, WaitSleeps, WaitSucceeds, Join,
         CloseDescriptors, WaitExpires, Stays, ToRead
<1>3. CASE \/ LoopQuits \/ LoopAccepts \/ Accept \/ CheckAdmits \/ CheckQuits
           \/ CheckSleeps \/ Leave \/ DrainSleeps \/ Drained \/ LoopFails
           \/ AcceptFails \/ DrainExpires
  BY <1>3
     DEF LoopQuits, LoopAccepts, Accept, CheckAdmits, CheckQuits, CheckSleeps,
         Leave, DrainSleeps, Drained, LoopFails, AcceptFails, DrainExpires,
         Stays, ToRead
<1> QED
  BY <1>1, <1>2, <1>3 DEF ServerThreadStep

(* Each client thread of the server makes a bounded number of steps, for any
   message size and any way its message is cut into pieces. *)
THEOREM ClientThreadsEnd == Spec => ThreadsRunOut
<1>1. IInv /\ [Next]_vars =>
        \A c \in Conns : /\ Falls(c) \/ Stays(c)
                         /\ ClientThreadStep(c) => Falls(c)
  <2> SUFFICES ASSUME IInv, [Next]_vars
               PROVE  \A c \in Conns : Falls(c) \/ Stays(c)
    BY ClientThreadFalls DEF IInv
  <2>1. CASE UNCHANGED vars
    BY <2>1
       DEF vars, threads, network, traffic, Stays, ToRead
  <2>2. ASSUME NEW c \in Conns, ClientThreadStep(c) \/ PeerStep(c)
        PROVE  \A d \in Conns : Falls(d) \/ Stays(d)
    BY <2>2, ClientThreadFalls, PeerStays DEF IInv
  <2> QED
    BY <2>1, <2>2, OthersStay DEF Next, ServerStep
<1> QED
  BY <1>1, InductiveInvariant, PTL DEF Spec, ThreadsRunOut

-----------------------------------------------------------------------------
(* The shutdown runs out of steps.                                          *)

(* During a shutdown the main loop finds the byte in the pipe, and doAccept
   the quit signal. *)
LEMMA ShutdownSeen ==
  ASSUME IInv, PInv, owner \in {"wait", "join", "close"}
  PROVE  /\ quitSignal
         /\ ~LoopAccepts /\ ~CheckAdmits
         /\ ~Start /\ ~StartFails /\ ~Stop
<1>1. quitSignal
  BY DEF PInv, QuitOutsideLife
<1>2. srv = "select" => PipeReadable
  BY <1>1 DEF IInv, PipeContent, LoopPlaces, HandShake, PipeReadable
<1> QED
  BY <1>1, <1>2 DEF LoopAccepts, CheckAdmits, Start, StartFails, Stop

(* Each step of a shutdown, of whatever thread, is one towards its end. *)
LEMMA ShutdownStep ==
  ASSUME IInv, PInv, [Next]_vars, owner \in {"wait", "join", "close"}
  PROVE  /\ OwnerDistance' <= OwnerDistance
         /\ SrvDistance' <= SrvDistance
         /\ MakesWay \/ clientsCV \subseteq clientsCV'
         /\ OwnerStep \/ ServerThreadStep => MakesWay \/ clientsCV' # clientsCV
<1> USE DEF flags, members, pipes, threads, sockets, traffic, network, history
<1> DEFINE NoFurther == /\ OwnerDistance' <= OwnerDistance
                        /\ SrvDistance' <= SrvDistance
<1>1. TypeOK
  BY DEF IInv
<1>2. CASE WaitSucceeds \/ WaitExpires \/ CloseDescriptors
  <2>1. /\ srv' = srv
        /\ <<owner, owner'>> \in {<<"wait", "join">>, <<"close", "idle">>}
    BY <1>2 DEF WaitSucceeds, WaitExpires, CloseDescriptors
  <2> QED
    BY <1>1, <2>1, OwnerNearer, SrvNotFurther DEF MakesWay
<1>3. CASE Join
  <2>1. /\ <<owner, owner'>> = <<"join", "close">>
        /\ <<srv, srv'>> = <<"done", "off">>
    BY <1>3 DEF Join
  <2> QED
    BY <2>1, OwnerNearer, SrvNearer DEF MakesWay
<1>4. CASE \/ LoopQuits \/ Accept \/ CheckQuits \/ Register \/ Leave
           \/ Drained \/ LoopFails \/ AcceptFails \/ DrainExpires
  <2>1. /\ owner' = owner
        /\ <<srv, srv'>> \in
              {<<"select", "leave">>, <<"accept", "check">>,
               <<"accept", "select">>, <<"accept", "leave">>,
               <<"check", "leave">>, <<"register", "select">>,
               <<"leave", "drain">>, <<"drain", "done">>}
    BY <1>4
       DEF LoopQuits, Accept, CheckQuits, Register, Leave, Drained, LoopFails,
           AcceptFails, DrainExpires, FinishRun
  <2> QED
    BY <1>1, <2>1, SrvNearer, OwnerNotFurther DEF MakesWay
<1>5. CASE WaitSleeps \/ CheckSleeps \/ DrainSleeps
  <2>1. /\ UNCHANGED <<owner, srv>>
        /\ clientsCV \subseteq clientsCV' /\ clientsCV' # clientsCV
    BY <1>5 DEF WaitSleeps, CheckSleeps, DrainSleeps, SleepOnCV, Awake
  <2> QED
    BY <1>1, <2>1, OwnerNotFurther, SrvNotFurther
<1>6. ASSUME NEW c \in Conns, ClientThreadStep(c)
      PROVE  NoFurther /\ MakesWay
  <2>1. UNCHANGED <<owner, srv>>
    BY <1>6
       DEF ClientThreadStep, HandlerStep, SleepExpires, SelectFails,
           FirstSelect, ReadAll, ReadSome, ReadNothing, SleepInterrupted,
           WritableSelect, WriteAnswer, CloseClientAndNotify
  <2>2. Falls(c)
    BY <1>1, <1>6, ClientThreadFalls
  <2> QED
    BY <1>1, <2>1, <2>2, OwnerNotFurther, SrvNotFurther DEF MakesWay
<1>7. ASSUME NEW c \in Conns, PeerStep(c)
      PROVE  NoFurther /\ UNCHANGED <<owner, srv, clientsCV>>
  <2>1. UNCHANGED <<owner, srv, clientsCV>>
    BY <1>7 DEF PeerStep, PeerConnects, PeerSends, PeerCloses
  <2> QED
    BY <1>1, <2>1, OwnerNotFurther, SrvNotFurther
<1>8. ASSUME UNCHANGED vars
      PROVE  NoFurther /\ clientsCV \subseteq clientsCV'
  BY <1>1, <1>8, OwnerNotFurther, SrvNotFurther DEF vars
<1>9. OwnerStep \/ ServerThreadStep =>
        NoFurther /\ (MakesWay \/ clientsCV' # clientsCV)
                  /\ (MakesWay \/ clientsCV \subseteq clientsCV')
  BY <1>2, <1>3, <1>4, <1>5, ShutdownSeen DEF OwnerStep, ServerThreadStep
<1>10. NoFurther /\ (MakesWay \/ clientsCV \subseteq clientsCV')
  BY <1>2, <1>4, <1>6, <1>7, <1>8, <1>9, ShutdownSeen
     DEF Next, ServerStep, vars
<1> QED
  BY <1>9, <1>10

(* No shutdown goes on for ever: with NobodyIsStuck, every fair schedule takes
   stop to its end. *)
THEOREM ShutdownEnds == Spec => ShutdownRunsOut
<1>1. IInv /\ PInv /\ [Next]_vars =>
        (owner \in {"wait", "join", "close"} =>
           /\ OwnerDistance' <= OwnerDistance
           /\ SrvDistance' <= SrvDistance
           /\ MakesWay \/ clientsCV \subseteq clientsCV'
           /\ OwnerStep \/ ServerThreadStep =>
                MakesWay \/ clientsCV' # clientsCV)
  BY ShutdownStep
<1> QED
  BY <1>1, ProgressInvariant, PTL DEF Spec, ShutdownRunsOut

=============================================================================
