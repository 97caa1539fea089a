---------------------------- MODULE ServerProofs ----------------------------
(***************************************************************************)
(* Proofs about Server for every set of connections, every limit of        *)
(* clients, every number of restarts and every choice of failing system    *)
(* calls.  IInv of ServerInv is shown to be inductive, one step per        *)
(* action; the safety properties are consequences of it.                   *)
(***************************************************************************)
EXTENDS ServerInv, SequenceTheorems, FiniteSetTheorems, TLAPS

-----------------------------------------------------------------------------
(* The set of client threads and its cardinality.                           *)

(* Live is finite, so that its cardinality counts it. *)
LEMMA LiveFinite ==
  /\ IsFiniteSet(Live)
  /\ Cardinality(Live) \in Nat
  /\ \A c \in Live : Cardinality(Live) > 0
  /\ Cardinality(Live) = 0 => Live = {}
<1>1. IsFiniteSet(Live)
  <2>1. Live \in SUBSET Conns
    BY DEF Live
  <2> QED
    BY <2>1, FS_Subset, ConnsAssumption
<1>2. Cardinality(Live) \in Nat
  BY <1>1, FS_CardinalityType
<1>3. Cardinality(Live) = 0 <=> Live = {}
  BY <1>1, FS_EmptySet
<1> QED
  BY <1>1, <1>2, <1>3

(* A step that leaves every thread where it is leaves Live alone. *)
LEMMA LiveUnchanged ==
  ASSUME UNCHANGED handler
  PROVE  Live' = Live
BY DEF Live

(* So does a client thread that goes on to another place. *)
LEMMA LiveMoves ==
  ASSUME TypeOK, NEW c \in Conns, handler[c] \in LivePlaces,
         NEW p \in LivePlaces, Goto(c, p)
  PROVE  Live' = Live
BY DEF Live, Goto, TypeOK

(* A thread that is created adds its connection to Live. *)
LEMMA LiveGrows ==
  ASSUME TypeOK, NEW c \in Conns, handler[c] = "none",
         handler' = [handler EXCEPT ![c] = "first"]
  PROVE  /\ Live' = Live \cup {c}
         /\ Cardinality(Live') = Cardinality(Live) + 1
<1>1. Live' = Live \cup {c} /\ c \notin Live
  BY DEF Live, TypeOK, LivePlaces
<1> QED
  BY <1>1, LiveFinite, FS_AddElement

(* A thread that reports its end takes its connection out of Live. *)
LEMMA LiveShrinks ==
  ASSUME TypeOK, NEW c \in Conns, handler[c] = "close", Goto(c, "gone")
  PROVE  /\ Live' = Live \ {c}
         /\ c \in Live
         /\ Cardinality(Live') = Cardinality(Live) - 1
<1>1. Live' = Live \ {c} /\ c \in Live
  BY DEF Live, Goto, TypeOK, LivePlaces
<1> QED
  BY <1>1, LiveFinite, FS_RemoveElement

-----------------------------------------------------------------------------
(* The invariant holds initially.                                           *)

LEMMA InvInit == Init => IInv
<1> SUFFICES ASSUME Init PROVE IInv
  OBVIOUS
<1>1. Live = {}
  BY DEF Init, Live, LivePlaces
<1>2. TypeOK
  <2>1. isRunning \in BOOLEAN /\ quitSignal \in BOOLEAN /\ listening \in BOOLEAN
    BY Zenon DEF Init
  <2>2. backlog \in Seq(Conns)
    BY EmptySeq DEF Init
  <2>3. handler \in [Conns -> HandlerPlaces]
    BY DEF Init, HandlerPlaces
  <2>4. unsent \in [Conns -> Nat] /\ toPeer \in [Conns -> {0, MessageSize}]
    BY SizesAssumption DEF Init
  <2>5. starts \in 0 .. MaxStarts
    BY SizesAssumption DEF Init
  <2> QED
    BY <2>1, <2>2, <2>3, <2>4, <2>5 DEF Init, TypeOK, OwnerPlaces, SrvPlaces
<1>3. CountExact
  BY <1>1, FS_EmptySet DEF Init, CountExact
<1>4. HandShake /\ PipeContent /\ AllDrained /\ Sleepers
  BY <1>1 DEF Init, HandShake, Running, LoopPlaces, PipeContent, StopByte,
     RunByte, AllDrained, Sleepers
<1>5. Queueing
  <2>1. DOMAIN backlog = {}
    BY DEF Init
  <2>2. \A c \in Conns : ~Waiting(c)
    BY <2>1, ConnsAssumption DEF Init, Waiting
  <2> QED
    BY <2>1, <2>2 DEF Init, Queueing
<1>6. Admission /\ NoLostWakeup
  BY MaxNumberClientsAssumption DEF Init, Admission, NoLostWakeup
<1> QED
  BY <1>2, <1>3, <1>4, <1>5, <1>6 DEF IInv

-----------------------------------------------------------------------------
(* Every step keeps the invariant.                                          *)

(* Goto keeps the places of the client threads in their range. *)
LEMMA GotoType ==
  ASSUME TypeOK, NEW c \in Conns, NEW p \in HandlerPlaces, Goto(c, p)
  PROVE  handler' \in [Conns -> HandlerPlaces]
BY DEF Goto, TypeOK

(* The steps of the thread that owns the server keep the invariant. *)
LEMMA InvOwner ==
  ASSUME IInv, Start \/ StartFails \/ Stop \/ OwnerStep \/ WaitExpires
  PROVE  IInv'
<1> USE DEF IInv, flags, members, pipes, threads, sockets, traffic, network,
      history
<1>1. CASE Start
  <2>1. Live' = Live
    BY <1>1 DEF Start, Live
  <2>2. TypeOK'
    <3>1. /\ isRunning' \in BOOLEAN /\ quitSignal' \in BOOLEAN
          /\ listening' \in BOOLEAN
      BY <1>1, Zenon DEF Start
    <3>2. starts' \in 0 .. MaxStarts
      BY <1>1, SizesAssumption DEF Start, TypeOK
    <3> QED
      BY <1>1, <3>1, <3>2
         DEF Start, TypeOK, OwnerPlaces, SrvPlaces, LoopPlaces
  <2>3. HandShake'
    BY <1>1 DEF Start, HandShake, Running, LoopPlaces, TypeOK
  <2>4. Queueing'
    <3>1. hand' = hand /\ hand = NoConn
      BY <1>1 DEF Start, Queueing, HandShake
    <3>2. \A c \in Conns : Waiting(c)' <=> Waiting(c)
      BY <1>1 DEF Start, Waiting
    <3> QED
      BY <1>1, <3>1, <3>2 DEF Start, Queueing
  <2>5. Admission'
    BY <1>1 DEF Start, Admission, TypeOK
  <2>6. PipeContent'
    BY <1>1 DEF Start, PipeContent, StopByte, RunByte, LoopPlaces, TypeOK
  <2>7. AllDrained'
    BY <1>1, <2>1 DEF Start, AllDrained, TypeOK
  <2>8. Sleepers'
    BY <1>1 DEF Start, Sleepers, HandShake
  <2>9. NoLostWakeup'
    BY <1>1 DEF Start, NoLostWakeup, Sleepers, HandShake
  <2>10. CountExact'
    BY <1>1, <2>1 DEF Start, CountExact
  <2> QED
    BY <2>1, <2>2, <2>3, <2>4, <2>5, <2>6, <2>7, <2>8, <2>9, <2>10 DEF IInv
<1>2. CASE StartFails
  <2>1. Live' = Live
    BY <1>2 DEF StartFails, Live
  <2>2. TypeOK'
    BY <1>2, SizesAssumption DEF StartFails, TypeOK
  <2>3. HandShake'
    BY <1>2 DEF StartFails, HandShake, Running, LoopPlaces, TypeOK
  <2>4. PipeContent'
    BY <1>2 DEF StartFails, PipeContent, StopByte, RunByte, LoopPlaces, TypeOK
  <2>5. /\ Queueing'
       /\ CountExact'
       /\ Admission'
       /\ AllDrained'
       /\ Sleepers'
       /\ NoLostWakeup'
    BY <1>2, <2>1
       DEF StartFails, Queueing, Waiting, CountExact, Admission, AllDrained,
          Sleepers, NoLostWakeup
  <2> QED
    BY <2>1, <2>2, <2>3, <2>4, <2>5 DEF IInv
<1>3. CASE Stop
  <2>1. Live' = Live
    BY <1>3 DEF Stop, Live
  <2>2. TypeOK'
    <3>1. pipeBytes' \in 0 .. 2
      BY <1>3
         DEF Stop, QuitRunningThread, TypeOK, PipeContent, StopByte, RunByte
    <3>2. quitSignal' \in BOOLEAN
      BY <1>3, Zenon DEF Stop, QuitRunningThread
    <3> QED
      BY <1>3, <3>1, <3>2
         DEF Stop, QuitRunningThread, NotifyAll, TypeOK, OwnerPlaces
  <2>3. HandShake'
    BY <1>3
       DEF Stop, QuitRunningThread, NotifyAll, HandShake, Running, LoopPlaces,
          TypeOK
  <2>4. PipeContent'
    BY <1>3
       DEF Stop, QuitRunningThread, NotifyAll, PipeContent, StopByte, RunByte,
          LoopPlaces, TypeOK
  <2>5. Sleepers'
    BY <1>3 DEF Stop, QuitRunningThread, NotifyAll, Sleepers, TypeOK
  <2>6. NoLostWakeup'
    BY <1>3 DEF Stop, QuitRunningThread, NotifyAll, NoLostWakeup, TypeOK
  <2>7. /\ Queueing'
       /\ CountExact'
       /\ Admission'
       /\ AllDrained'
    BY <1>3, <2>1
       DEF Stop, QuitRunningThread, NotifyAll, Queueing, Waiting, CountExact,
          Admission, AllDrained
  <2> QED
    BY <2>1, <2>2, <2>3, <2>4, <2>5, <2>6, <2>7 DEF IInv
<1>4. CASE WaitSleeps
  <2>1. Live' = Live
    BY <1>4 DEF WaitSleeps, Live
  <2>2. TypeOK'
    BY <1>4
       DEF WaitSleeps, SleepOnCV, Awake, TypeOK, OwnerPlaces, SrvPlaces,
          LoopPlaces
  <2>3. Sleepers'
    BY <1>4 DEF WaitSleeps, SleepOnCV, Awake, Sleepers, TypeOK
  <2>4. NoLostWakeup'
    BY <1>4 DEF WaitSleeps, SleepOnCV, Awake, NoLostWakeup, TypeOK
  <2>5. /\ HandShake'
       /\ Queueing'
       /\ CountExact'
       /\ Admission'
       /\ PipeContent'
       /\ AllDrained'
    BY <1>4, <2>1
       DEF WaitSleeps, SleepOnCV, Awake, HandShake, Running, LoopPlaces,
          Queueing, Waiting, CountExact, Admission, PipeContent, StopByte,
          RunByte, AllDrained
  <2> QED
    BY <2>1, <2>2, <2>3, <2>4, <2>5 DEF IInv
<1>5. CASE WaitSucceeds
  <2>1. Live' = Live
    BY <1>5 DEF WaitSucceeds, Live
  <2>2. TypeOK'
    BY <1>5
       DEF WaitSucceeds, ConsumePipe, Awake, TypeOK, OwnerPlaces, SrvPlaces,
          LoopPlaces
  <2>3. HandShake'
    BY <1>5
       DEF WaitSucceeds, ConsumePipe, Awake, HandShake, Running, LoopPlaces,
          TypeOK
  <2>4. PipeContent'
    BY <1>5
       DEF WaitSucceeds, ConsumePipe, PipeContent, StopByte, RunByte,
          HandShake, Running, LoopPlaces, TypeOK
  <2>5. Sleepers'
    BY <1>5 DEF WaitSucceeds, ConsumePipe, Awake, Sleepers, TypeOK
  <2>6. /\ Queueing'
       /\ CountExact'
       /\ Admission'
       /\ AllDrained'
       /\ NoLostWakeup'
    BY <1>5, <2>1
       DEF WaitSucceeds, ConsumePipe, Awake, Queueing, Waiting, CountExact,
          Admission, AllDrained, NoLostWakeup
  <2> QED
    BY <2>1, <2>2, <2>3, <2>4, <2>5, <2>6 DEF IInv
<1>6. CASE WaitExpires
  <2>1. Live' = Live
    BY <1>6 DEF WaitExpires, Live
  <2>2. TypeOK'
    BY <1>6
       DEF WaitExpires, PipeAfterTimeout, ConsumePipe, Awake, TypeOK,
          OwnerPlaces, SrvPlaces, LoopPlaces
  <2>3. HandShake'
    BY <1>6
       DEF WaitExpires, PipeAfterTimeout, ConsumePipe, Awake, HandShake,
          Running, LoopPlaces, TypeOK
  <2>4. PipeContent'
    BY <1>6
       DEF WaitExpires, PipeAfterTimeout, ConsumePipe, PipeContent, StopByte,
          RunByte, HandShake, Running, LoopPlaces, TypeOK
  <2>5. Sleepers'
    BY <1>6
       DEF WaitExpires, PipeAfterTimeout, ConsumePipe, Awake, Sleepers, TypeOK
  <2>6. NoLostWakeup'
    BY <1>6
       DEF WaitExpires, PipeAfterTimeout, ConsumePipe, Awake, NoLostWakeup,
          TypeOK
  <2>7. /\ Queueing'
       /\ CountExact'
       /\ Admission'
       /\ AllDrained'
    BY <1>6, <2>1
       DEF WaitExpires, PipeAfterTimeout, ConsumePipe, Awake, Queueing,
          Waiting, CountExact, Admission, AllDrained
  <2> QED
    BY <2>1, <2>2, <2>3, <2>4, <2>5, <2>6, <2>7 DEF IInv
<1>7. CASE Join
  <2>1. Live' = Live
    BY <1>7 DEF Join, Live
  <2>2. TypeOK'
    BY <1>7 DEF Join, TypeOK, OwnerPlaces, SrvPlaces, LoopPlaces
  <2>3. HandShake'
    BY <1>7 DEF Join, HandShake, Running, LoopPlaces, TypeOK
  <2>4. Queueing'
    BY <1>7 DEF Join, Queueing, Waiting, TypeOK
  <2>5. Admission'
    BY <1>7 DEF Join, Admission, TypeOK
  <2>6. PipeContent'
    BY <1>7 DEF Join, PipeContent, StopByte, RunByte, LoopPlaces, TypeOK
  <2>7. AllDrained'
    BY <1>7, <2>1 DEF Join, AllDrained, TypeOK
  <2>8. Sleepers'
    BY <1>7 DEF Join, Sleepers, TypeOK
  <2>9. NoLostWakeup'
    BY <1>7 DEF Join, NoLostWakeup, TypeOK
  <2>10. CountExact'
    BY <1>7, <2>1 DEF Join, CountExact
  <2> QED
    BY <2>1, <2>2, <2>3, <2>4, <2>5, <2>6, <2>7, <2>8, <2>9, <2>10 DEF IInv
<1>8. CASE CloseDescriptors
  <2>1. Live' = Live
    BY <1>8 DEF CloseDescriptors, Live
  <2>2. TypeOK'
    <3>1. backlog' \in Seq(Conns)
      BY <1>8, EmptySeq DEF CloseDescriptors
    <3>2. srvEnd' \in [Conns -> {"none", "open", "closed"}]
      BY <1>8 DEF CloseDescriptors, TypeOK
    <3>3. stale' \subseteq Conns
      BY <1>8 DEF CloseDescriptors, Live
    <3>4. /\ listening' \in BOOLEAN
          /\ isRunning' \in BOOLEAN /\ quitSignal' \in BOOLEAN
      BY <1>8, Zenon DEF CloseDescriptors, TypeOK
    <3> QED
      BY <1>8, <3>1, <3>2, <3>3, <3>4
         DEF CloseDescriptors, TypeOK, OwnerPlaces
  <2>3. HandShake'
    BY <1>8 DEF CloseDescriptors, HandShake, Running, LoopPlaces, TypeOK
  <2>4. Queueing'
    BY <1>8 DEF CloseDescriptors, Queueing, Waiting, TypeOK
  <2>5. PipeContent'
    BY <1>8
       DEF CloseDescriptors, PipeContent, StopByte, RunByte, HandShake,
          Running, LoopPlaces, TypeOK
  <2>6. Sleepers'
    BY <1>8 DEF CloseDescriptors, Sleepers, TypeOK
  <2>7. /\ CountExact'
       /\ Admission'
       /\ AllDrained'
       /\ NoLostWakeup'
    BY <1>8, <2>1
       DEF CloseDescriptors, CountExact, Admission, AllDrained, NoLostWakeup
  <2> QED
    BY <2>1, <2>2, <2>3, <2>4, <2>5, <2>6, <2>7 DEF IInv
<1> QED
  BY <1>1, <1>2, <1>3, <1>4, <1>5, <1>6, <1>7, <1>8 DEF OwnerStep

(* The main loop goes on, or ends, between two calls of doAccept. *)
LEMMA InvLoopGoesOn ==
  ASSUME IInv,
         srv \in {"select", "accept"}, srv' \in {"select", "accept", "leave"},
         UNCHANGED <<members, pipes, owner, hand, handler, network, history>>
  PROVE  IInv'
<1> USE DEF IInv, flags, members, pipes, sockets, traffic, network, history
<1>1. Live' = Live
  BY DEF Live
<1>2. TypeOK' /\ CountExact'
  BY <1>1 DEF TypeOK, SrvPlaces, LoopPlaces, CountExact
<1>3. HandShake' /\ Admission' /\ PipeContent'
  BY DEF HandShake, Running, LoopPlaces, Admission, PipeContent, StopByte,
     RunByte
<1>4. Queueing' /\ AllDrained'
  BY <1>1 DEF Queueing, Waiting, AllDrained
<1>5. Sleepers' /\ NoLostWakeup'
  BY DEF Sleepers, NoLostWakeup
<1> QED
  BY <1>1, <1>2, <1>3, <1>4, <1>5

(* The steps of the thread that executes run keep the invariant. *)
LEMMA InvServerThread ==
  ASSUME IInv, ServerThreadStep \/ LoopFails \/ AcceptFails \/ DrainExpires
  PROVE  IInv'
<1> USE DEF IInv, flags, members, pipes, threads, sockets, traffic, network,
      history
<1>1. CASE LoopQuits
  BY <1>1, InvLoopGoesOn DEF LoopQuits
<1>2. CASE LoopFails
  BY <1>2, InvLoopGoesOn DEF LoopFails
<1>3. CASE LoopAccepts
  BY <1>3, InvLoopGoesOn DEF LoopAccepts
<1>4. CASE AcceptFails
  BY <1>4, InvLoopGoesOn DEF AcceptFails
<1>5. CASE Accept
  <2>1. Live' = Live
    BY <1>5 DEF Accept, Live
  <2>2. TypeOK'
    BY <1>5 DEF Accept, TypeOK, OwnerPlaces, SrvPlaces, LoopPlaces
  <2>3. HandShake'
    BY <1>5 DEF Accept, HandShake, Running, LoopPlaces, TypeOK
  <2>4. Queueing'
    <3>1. /\ DOMAIN backlog' = 1 .. Len(backlog) - 1
          /\ \A i \in DOMAIN backlog' :
               i + 1 \in DOMAIN backlog /\ backlog'[i] = backlog[i + 1]
          /\ 1 \in DOMAIN backlog /\ hand' = backlog[1] /\ hand' \in Conns
      BY <1>5 DEF Accept, TypeOK
    <3>2. \A d \in Conns : Waiting(d)' => Waiting(d)
      BY <3>1 DEF Waiting
    <3>3. \A i, j \in DOMAIN backlog' : backlog'[i] = backlog'[j] => i = j
      BY <3>1 DEF Queueing
    <3>4. \A i \in DOMAIN backlog' : backlog'[i] # hand'
      BY <3>1 DEF Queueing
    <3>5. /\ hand' # NoConn /\ srv' = "check"
          /\ handler' = handler /\ peerEnd' = peerEnd
      BY <1>5, <3>1, ConnsAssumption DEF Accept
    <3> QED
      BY <3>1, <3>2, <3>3, <3>4, <3>5 DEF Queueing
  <2>5. Admission'
    BY <1>5 DEF Accept, Admission, TypeOK
  <2>6. PipeContent'
    BY <1>5 DEF Accept, PipeContent, StopByte, RunByte, LoopPlaces, TypeOK
  <2>7. AllDrained'
    BY <1>5, <2>1 DEF Accept, AllDrained, TypeOK
  <2>8. Sleepers'
    BY <1>5 DEF Accept, Sleepers, TypeOK
  <2>9. NoLostWakeup'
    BY <1>5 DEF Accept, NoLostWakeup, Sleepers
  <2>10. CountExact'
    BY <1>5, <2>1 DEF Accept, CountExact
  <2> QED
    BY <2>1, <2>2, <2>3, <2>4, <2>5, <2>6, <2>7, <2>8, <2>9, <2>10 DEF IInv
<1>6. CASE CheckAdmits
  <2>1. Live' = Live
    BY <1>6 DEF CheckAdmits, Live
  <2>2. TypeOK'
    BY <1>6
       DEF CheckAdmits, HasCapacity, Awake, TypeOK, OwnerPlaces, SrvPlaces,
          LoopPlaces
  <2>3. HandShake'
    BY <1>6
       DEF CheckAdmits, HasCapacity, Awake, HandShake, Running, LoopPlaces,
          TypeOK
  <2>4. Queueing'
    BY <1>6 DEF CheckAdmits, HasCapacity, Awake, Queueing, Waiting, TypeOK
  <2>5. Admission'
    BY <1>6 DEF CheckAdmits, HasCapacity, Awake, Admission, TypeOK
  <2>6. PipeContent'
    BY <1>6
       DEF CheckAdmits, HasCapacity, Awake, PipeContent, StopByte, RunByte,
          LoopPlaces, TypeOK
  <2>7. AllDrained'
    BY <1>6, <2>1 DEF CheckAdmits, HasCapacity, Awake, AllDrained, TypeOK
  <2>8. Sleepers'
    BY <1>6 DEF CheckAdmits, HasCapacity, Awake, Sleepers, TypeOK
  <2>9. NoLostWakeup'
    BY <1>6 DEF CheckAdmits, HasCapacity, Awake, NoLostWakeup, TypeOK
  <2>10. CountExact'
    BY <1>6, <2>1 DEF CheckAdmits, HasCapacity, Awake, CountExact
  <2> QED
    BY <2>1, <2>2, <2>3, <2>4, <2>5, <2>6, <2>7, <2>8, <2>9, <2>10 DEF IInv
<1>7. CASE CheckQuits
  <2>1. Live' = Live
    BY <1>7 DEF CheckQuits, Live
  <2>2. TypeOK'
    BY <1>7 DEF CheckQuits, Awake, TypeOK, OwnerPlaces, SrvPlaces, LoopPlaces
  <2>3. HandShake'
    BY <1>7 DEF CheckQuits, Awake, HandShake, Running, LoopPlaces, TypeOK
  <2>4. Queueing'
    <3>1. hand' = NoConn /\ backlog' = backlog
      BY <1>7 DEF CheckQuits
    <3>2. \A i \in DOMAIN backlog' : backlog'[i] # hand'
      BY <3>1, ConnsAssumption DEF TypeOK
    <3>3. \A c \in Conns : Waiting(c)' => Waiting(c)
      BY <3>1, ConnsAssumption DEF Waiting
    <3> QED
      BY <1>7, <3>1, <3>2, <3>3 DEF CheckQuits, Queueing
  <2>5. Admission'
    BY <1>7 DEF CheckQuits, Awake, Admission, TypeOK
  <2>6. PipeContent'
    BY <1>7
       DEF CheckQuits, Awake, PipeContent, StopByte, RunByte, LoopPlaces,
          TypeOK
  <2>7. AllDrained'
    BY <1>7, <2>1 DEF CheckQuits, Awake, AllDrained, TypeOK
  <2>8. Sleepers'
    BY <1>7 DEF CheckQuits, Awake, Sleepers, TypeOK
  <2>9. NoLostWakeup'
    BY <1>7 DEF CheckQuits, Awake, NoLostWakeup, TypeOK
  <2>10. CountExact'
    BY <1>7, <2>1 DEF CheckQuits, Awake, CountExact
  <2> QED
    BY <2>1, <2>2, <2>3, <2>4, <2>5, <2>6, <2>7, <2>8, <2>9, <2>10 DEF IInv
<1>8. CASE CheckSleeps
  <2>1. Live' = Live
    BY <1>8 DEF CheckSleeps, Live
  <2>2. TypeOK'
    BY <1>8
       DEF CheckSleeps, HasCapacity, SleepOnCV, Awake, TypeOK, OwnerPlaces,
          SrvPlaces, LoopPlaces
  <2>3. Sleepers'
    BY <1>8 DEF CheckSleeps, HasCapacity, SleepOnCV, Awake, Sleepers, TypeOK
  <2>4. NoLostWakeup'
    BY <1>8, MaxNumberClientsAssumption
       DEF CheckSleeps, SleepOnCV, HasCapacity, NoLostWakeup, Sleepers, TypeOK
  <2>5. /\ HandShake'
       /\ Queueing'
       /\ CountExact'
       /\ Admission'
       /\ PipeContent'
       /\ AllDrained'
    BY <1>8, <2>1
       DEF CheckSleeps, HasCapacity, SleepOnCV, Awake, HandShake, Running,
          LoopPlaces, Queueing, Waiting, CountExact, Admission, PipeContent,
          StopByte, RunByte, AllDrained
  <2> QED
    BY <2>1, <2>2, <2>3, <2>4, <2>5 DEF IInv
<1>9. CASE Register
  <2>1. hand \in Conns /\ handler[hand] = "none"
    BY <1>9 DEF Register, Queueing, Waiting, TypeOK
  <2>2. /\ Live' = Live \cup {hand}
       /\ Cardinality(Live') = Cardinality(Live) + 1
    BY <1>9, <2>1, LiveGrows DEF Register
  <2>3. TypeOK'
    <3>1. handler' \in [Conns -> HandlerPlaces]
      BY <1>9, <2>1 DEF Register, TypeOK, HandlerPlaces, LivePlaces
    <3> QED
      BY <1>9, <3>1 DEF Register, TypeOK, SrvPlaces, LoopPlaces
  <2>4. HandShake'
    BY <1>9 DEF Register, HandShake, Running, LoopPlaces, TypeOK
  <2>5. Queueing'
    <3>1. hand' = NoConn /\ backlog' = backlog /\ peerEnd' = peerEnd
      BY <1>9 DEF Register
    <3>2. \A i \in DOMAIN backlog' : backlog'[i] # hand'
      BY <3>1, ConnsAssumption DEF TypeOK
    <3>3. \A c \in Conns : Waiting(c)' => Waiting(c) /\ c # hand
      BY <3>1, ConnsAssumption DEF Queueing, Waiting
    <3>4. \A c \in Conns : c # hand => handler'[c] = handler[c]
      BY <1>9, <2>1 DEF Register, TypeOK
    <3>5. srv' = "select" /\ Waiting(hand)
      BY <1>9 DEF Register, Waiting
    <3> QED
      BY <2>1, <3>1, <3>2, <3>3, <3>4, <3>5 DEF Queueing
  <2>6. CountExact'
    BY <1>9, <2>2 DEF Register, CountExact
  <2>7. Admission'
    BY <1>9, MaxNumberClientsAssumption DEF Register, Admission, TypeOK
  <2>8. PipeContent'
    BY <1>9 DEF Register, PipeContent, StopByte, RunByte, LoopPlaces, TypeOK
  <2>9. AllDrained'
    BY <1>9, <2>2 DEF Register, AllDrained, TypeOK
  <2>10. Sleepers'
    BY <1>9 DEF Register, Sleepers, TypeOK
  <2>11. NoLostWakeup'
    BY <1>9 DEF Register, NoLostWakeup, TypeOK
  <2> QED
    BY <2>1, <2>2, <2>3, <2>4, <2>5, <2>6, <2>7, <2>8, <2>9, <2>10, <2>11
       DEF IInv
<1>10. CASE Leave
  <2>1. Live' = Live
    BY <1>10 DEF Leave, Live
  <2>2. TypeOK'
    <3>1. pipeBytes' \in 0 .. 2
      BY <1>10
         DEF Leave, QuitRunningThread, PipeContent, StopByte, RunByte,
            HandShake, Running, LoopPlaces, TypeOK
    <3>2. quitSignal' \in BOOLEAN
      BY <1>10, Zenon DEF Leave, QuitRunningThread
    <3> QED
      BY <1>10, <3>1, <3>2
         DEF Leave, QuitRunningThread, NotifyAll, TypeOK, SrvPlaces
  <2>3. HandShake'
    BY <1>10
       DEF Leave, QuitRunningThread, NotifyAll, HandShake, Running,
          LoopPlaces, TypeOK
  <2>4. Queueing'
    BY <1>10
       DEF Leave, QuitRunningThread, NotifyAll, Queueing, Waiting, TypeOK
  <2>5. Admission'
    BY <1>10 DEF Leave, QuitRunningThread, NotifyAll, Admission, TypeOK
  <2>6. PipeContent'
    BY <1>10
       DEF Leave, QuitRunningThread, PipeContent, StopByte, RunByte,
          HandShake, Running, LoopPlaces, TypeOK
  <2>7. AllDrained'
    BY <1>10, <2>1 DEF Leave, QuitRunningThread, NotifyAll, AllDrained, TypeOK
  <2>8. Sleepers'
    BY <1>10 DEF Leave, QuitRunningThread, NotifyAll, Sleepers, TypeOK
  <2>9. NoLostWakeup'
    BY <1>10 DEF Leave, QuitRunningThread, NotifyAll, NoLostWakeup, TypeOK
  <2>10. CountExact'
    BY <1>10, <2>1 DEF Leave, QuitRunningThread, NotifyAll, CountExact
  <2> QED
    BY <2>1, <2>2, <2>3, <2>4, <2>5, <2>6, <2>7, <2>8, <2>9, <2>10 DEF IInv
<1>11. CASE DrainSleeps
  <2>1. Live' = Live
    BY <1>11 DEF DrainSleeps, Live
  <2>2. TypeOK'
    BY <1>11
       DEF DrainSleeps, SleepOnCV, ClientsFinished, Awake, TypeOK,
          OwnerPlaces, SrvPlaces, LoopPlaces
  <2>3. Sleepers'
    BY <1>11
       DEF DrainSleeps, SleepOnCV, ClientsFinished, Awake, Sleepers, TypeOK
  <2>4. NoLostWakeup'
    BY <1>11
       DEF DrainSleeps, SleepOnCV, ClientsFinished, Awake, NoLostWakeup,
          TypeOK
  <2>5. /\ HandShake'
       /\ Queueing'
       /\ CountExact'
       /\ Admission'
       /\ PipeContent'
       /\ AllDrained'
    BY <1>11, <2>1
       DEF DrainSleeps, SleepOnCV, ClientsFinished, Awake, HandShake, Running,
          LoopPlaces, Queueing, Waiting, CountExact, Admission, PipeContent,
          StopByte, RunByte, AllDrained
  <2> QED
    BY <2>1, <2>2, <2>3, <2>4, <2>5 DEF IInv
<1>12. CASE Drained
  <2>1. Live' = Live
    BY <1>12 DEF Drained, Live
  <2>2. TypeOK'
    BY <1>12
       DEF Drained, FinishRun, NotifyAll, ClientsFinished, Awake, TypeOK,
          OwnerPlaces, SrvPlaces, LoopPlaces
  <2>3. HandShake'
    BY <1>12
       DEF Drained, FinishRun, NotifyAll, ClientsFinished, Awake, HandShake,
          Running, LoopPlaces, TypeOK
  <2>4. Queueing'
    BY <1>12
       DEF Drained, FinishRun, NotifyAll, ClientsFinished, Awake, Queueing,
          Waiting, TypeOK
  <2>5. Admission'
    BY <1>12
       DEF Drained, FinishRun, NotifyAll, ClientsFinished, Awake, Admission,
          TypeOK
  <2>6. PipeContent'
    BY <1>12
       DEF Drained, FinishRun, NotifyAll, ClientsFinished, Awake, PipeContent,
          StopByte, RunByte, LoopPlaces, TypeOK
  <2>7. AllDrained'
    <3>1. Live = {}
      BY <1>12, LiveFinite DEF Drained, ClientsFinished, CountExact
    <3> QED
      BY <1>12, <2>1, <3>1 DEF AllDrained
  <2>8. Sleepers'
    BY <1>12
       DEF Drained, FinishRun, NotifyAll, ClientsFinished, Awake, Sleepers,
          TypeOK
  <2>9. NoLostWakeup'
    BY <1>12
       DEF Drained, FinishRun, NotifyAll, ClientsFinished, Awake,
          NoLostWakeup, TypeOK
  <2>10. CountExact'
    BY <1>12, <2>1
       DEF Drained, FinishRun, NotifyAll, ClientsFinished, Awake, CountExact
  <2> QED
    BY <2>1, <2>2, <2>3, <2>4, <2>5, <2>6, <2>7, <2>8, <2>9, <2>10 DEF IInv
<1>13. CASE DrainExpires
  <2>1. Live' = Live
    BY <1>13 DEF DrainExpires, Live
  <2>2. TypeOK'
    <3>1. abandoned' \subseteq Conns
      BY <1>13 DEF DrainExpires, Live, TypeOK
    <3>2. isRunning' \in BOOLEAN
      BY <1>13, Zenon DEF DrainExpires, FinishRun
    <3> QED
      BY <1>13, <3>1, <3>2
         DEF DrainExpires, FinishRun, NotifyAll, TypeOK, SrvPlaces
  <2>3. HandShake'
    BY <1>13
       DEF DrainExpires, FinishRun, NotifyAll, Awake, HandShake, Running,
          LoopPlaces, TypeOK
  <2>4. Queueing'
    BY <1>13
       DEF DrainExpires, FinishRun, NotifyAll, Awake, Queueing, Waiting,
          TypeOK
  <2>5. Admission'
    BY <1>13 DEF DrainExpires, FinishRun, NotifyAll, Awake, Admission, TypeOK
  <2>6. PipeContent'
    BY <1>13
       DEF DrainExpires, FinishRun, NotifyAll, Awake, PipeContent, StopByte,
          RunByte, LoopPlaces, TypeOK
  <2>7. AllDrained'
    BY <1>13, <2>1
       DEF DrainExpires, FinishRun, NotifyAll, Awake, AllDrained, TypeOK
  <2>8. Sleepers'
    BY <1>13 DEF DrainExpires, FinishRun, NotifyAll, Awake, Sleepers, TypeOK
  <2>9. NoLostWakeup'
    BY <1>13
       DEF DrainExpires, FinishRun, NotifyAll, Awake, NoLostWakeup, TypeOK
  <2>10. CountExact'
    BY <1>13, <2>1 DEF DrainExpires, FinishRun, NotifyAll, Awake, CountExact
  <2> QED
    BY <2>1, <2>2, <2>3, <2>4, <2>5, <2>6, <2>7, <2>8, <2>9, <2>10 DEF IInv
<1> QED
  BY <1>1, <1>2, <1>3, <1>4, <1>5, <1>6, <1>7, <1>8, <1>9, <1>10, <1>11,
     <1>12, <1>13
     DEF ServerThreadStep

(* A client thread that goes on within runClient keeps the invariant, whatever
   it reads and writes on its socket. *)
LEMMA InvClientGoesOn ==
  ASSUME IInv, NEW c \in Conns, NEW p \in LivePlaces,
         handler[c] \in LivePlaces, Goto(c, p),
         toServer' \in [Conns -> Nat], toPeer' \in [Conns -> {0, MessageSize}],
         stale' \subseteq Conns,
         UNCHANGED <<members, pipes, owner, srv, hand, sockets, unsent,
                     abandoned, starts>>
  PROVE  IInv'
<1> USE DEF IInv, flags, members, pipes, sockets
<1>1. Live' = Live
  BY LiveMoves
<1>2. TypeOK'
  <2>1. handler' \in [Conns -> HandlerPlaces]
    BY GotoType DEF HandlerPlaces
  <2> QED
    BY <2>1 DEF TypeOK
<1>3. Queueing'
  BY DEF Goto, Queueing, Waiting, TypeOK, LivePlaces
<1>4. CountExact' /\ AllDrained'
  BY <1>1 DEF CountExact, AllDrained
<1>5. HandShake' /\ Admission' /\ PipeContent' /\ Sleepers' /\ NoLostWakeup'
  BY DEF HandShake, Admission, PipeContent, StopByte, RunByte, Sleepers,
     NoLostWakeup
<1> QED
  BY <1>1, <1>2, <1>3, <1>4, <1>5

(* The steps of the threads that execute runClient keep the invariant. *)
LEMMA InvHandlers ==
  ASSUME IInv, NEW c \in Conns, ClientThreadStep(c)
  PROVE  IInv'
<1> USE DEF IInv, flags, members, pipes, threads, sockets, traffic, network,
      history
<1>1. CASE FirstSelect(c)
  BY <1>1, InvClientGoesOn DEF FirstSelect, TypeOK, LivePlaces
<1>2. CASE ReadAll(c)
  <2>1. toServer' \in [Conns -> Nat]
    BY <1>2, SizesAssumption DEF ReadAll, TypeOK
  <2>2. stale' \subseteq Conns
    BY <1>2 DEF ReadAll, TypeOK
  <2> QED
    BY <1>2, <2>1, <2>2, InvClientGoesOn DEF ReadAll, TypeOK, LivePlaces
<1>3. CASE ReadNothing(c)
  BY <1>3, InvClientGoesOn DEF ReadNothing, TypeOK, LivePlaces
<1>4. CASE SleepInterrupted(c) \/ SleepExpires(c)
  BY <1>4, InvClientGoesOn
     DEF SleepInterrupted, SleepExpires, TypeOK, LivePlaces
<1>5. CASE WritableSelect(c)
  BY <1>5, InvClientGoesOn DEF WritableSelect, TypeOK, LivePlaces
<1>6. CASE WriteAnswer(c)
  <2>1. toPeer' \in [Conns -> {0, MessageSize}]
    BY <1>6 DEF WriteAnswer, TypeOK
  <2> QED
    BY <1>6, <2>1, InvClientGoesOn DEF WriteAnswer, TypeOK, LivePlaces
<1>7. CASE ReadSome(c)
  <2>1. Live' = Live
    BY <1>7 DEF ReadSome, Live
  <2>2. TypeOK'
    BY <1>7 DEF ReadSome, TypeOK, OwnerPlaces, SrvPlaces, LoopPlaces
  <2>3. /\ HandShake'
       /\ Queueing'
       /\ CountExact'
       /\ Admission'
       /\ PipeContent'
       /\ AllDrained'
       /\ Sleepers'
       /\ NoLostWakeup'
    BY <1>7, <2>1
       DEF ReadSome, HandShake, Running, LoopPlaces, Queueing, Waiting,
          CountExact, Admission, PipeContent, StopByte, RunByte, AllDrained,
          Sleepers, NoLostWakeup
  <2> QED
    BY <2>1, <2>2, <2>3 DEF IInv
<1>8. CASE CloseClientAndNotify(c)
  <2>1. /\ Live' = Live \ {c}
       /\ c \in Live
       /\ Cardinality(Live') = Cardinality(Live) - 1
    BY <1>8, LiveShrinks DEF CloseClientAndNotify
  <2>2. TypeOK'
    <3>1. handler' \in [Conns -> HandlerPlaces]
      BY <1>8, GotoType DEF CloseClientAndNotify, HandlerPlaces, LivePlaces
    <3>2. currentNumberClients' \in Nat
      BY <1>8, <2>1, LiveFinite
         DEF CloseClientAndNotify, ReleaseSlot, CountExact, TypeOK
    <3> QED
      BY <1>8, <3>1, <3>2 DEF CloseClientAndNotify, TypeOK, NotifyAll
  <2>3. Queueing'
    BY <1>8
       DEF CloseClientAndNotify, Goto, ReleaseSlot, NotifyAll, Queueing,
          Waiting, TypeOK
  <2>4. CountExact'
    BY <1>8, <2>1
       DEF CloseClientAndNotify, Goto, ReleaseSlot, NotifyAll, CountExact
  <2>5. Admission'
    BY <1>8, MaxNumberClientsAssumption
       DEF CloseClientAndNotify, ReleaseSlot, Admission, TypeOK
  <2>6. AllDrained'
    BY <1>8, <2>1
       DEF CloseClientAndNotify, Goto, ReleaseSlot, NotifyAll, AllDrained,
          TypeOK
  <2>7. Sleepers'
    BY <1>8
       DEF CloseClientAndNotify, Goto, ReleaseSlot, NotifyAll, Sleepers,
          TypeOK
  <2>8. NoLostWakeup'
    BY <1>8
       DEF CloseClientAndNotify, Goto, ReleaseSlot, NotifyAll, NoLostWakeup,
          TypeOK
  <2>9. HandShake' /\ PipeContent'
    BY <1>8
       DEF CloseClientAndNotify, Goto, ReleaseSlot, NotifyAll, HandShake,
          Running, LoopPlaces, PipeContent, StopByte, RunByte
  <2> QED
    BY <2>1, <2>2, <2>3, <2>4, <2>5, <2>6, <2>7, <2>8, <2>9 DEF IInv
<1>9. CASE SelectFails(c)
  BY <1>9, InvClientGoesOn DEF SelectFails, TypeOK, LivePlaces
<1> QED
  BY <1>1, <1>2, <1>3, <1>4, <1>5, <1>6, <1>7, <1>8, <1>9
     DEF ClientThreadStep, HandlerStep

(* Appending adds one index and leaves the elements alone. *)
LEMMA AppendExtends ==
  ASSUME NEW S, NEW q \in Seq(S), NEW e \in S
  PROVE  /\ DOMAIN Append(q, e) = DOMAIN q \cup {Len(q) + 1}
         /\ \A i \in DOMAIN q :
              Append(q, e)[i] = q[i] /\ i # Len(q) + 1
         /\ Append(q, e)[Len(q) + 1] = e
OBVIOUS

(* The steps of the peers keep the invariant. *)
LEMMA InvPeers ==
  ASSUME IInv, \E c \in Conns : PeerStep(c)
  PROVE  IInv'
<1> USE DEF IInv, flags, members, pipes, threads, sockets, traffic, history
<1>1. ASSUME NEW c \in Conns, PeerConnects(c) PROVE IInv'
  <2>1. Live' = Live
    BY <1>1 DEF PeerConnects, Live
  <2>2. TypeOK'
    BY <1>1 DEF PeerConnects, TypeOK, OwnerPlaces, SrvPlaces, LoopPlaces
  <2>3. Queueing'
    <3>1. /\ DOMAIN backlog' = DOMAIN backlog \cup {Len(backlog) + 1}
          /\ \A i \in DOMAIN backlog :
               backlog'[i] = backlog[i] /\ i # Len(backlog) + 1
          /\ backlog'[Len(backlog) + 1] = c
      <4>1. backlog \in Seq(Conns) /\ backlog' = Append(backlog, c)
        BY <1>1 DEF PeerConnects, TypeOK
      <4> QED
        BY <4>1, AppendExtends
    <3>2. ~Waiting(c) /\ handler[c] = "none"
      BY <1>1 DEF PeerConnects, Queueing
    <3>3. \A d \in Conns : Waiting(d)' => Waiting(d) \/ d = c
      BY <1>1, <3>1 DEF PeerConnects, Waiting
    <3>4. /\ \A d \in Conns : peerEnd[d] # "none" => peerEnd'[d] # "none"
          /\ peerEnd'[c] # "none"
      BY <1>1 DEF PeerConnects, TypeOK
    <3>5. \A i, j \in DOMAIN backlog' : backlog'[i] = backlog'[j] => i = j
      BY <3>1, <3>2 DEF Queueing, Waiting
    <3>6. \A i \in DOMAIN backlog' : backlog'[i] # hand
      BY <3>1, <3>2 DEF Queueing, Waiting
    <3>7. hand' = hand /\ srv' = srv /\ handler' = handler
      BY <1>1 DEF PeerConnects
    <3> QED
      BY <3>1, <3>2, <3>3, <3>4, <3>5, <3>6, <3>7 DEF Queueing
  <2>4. /\ HandShake'
       /\ CountExact'
       /\ Admission'
       /\ PipeContent'
       /\ AllDrained'
       /\ Sleepers'
       /\ NoLostWakeup'
    BY <1>1, <2>1
       DEF PeerConnects, HandShake, Running, LoopPlaces, CountExact,
          Admission, PipeContent, StopByte, RunByte, AllDrained, Sleepers,
          NoLostWakeup
  <2> QED
    BY <2>1, <2>2, <2>3, <2>4 DEF IInv
<1>2. ASSUME NEW c \in Conns, PeerSends(c) PROVE IInv'
  <2>1. Live' = Live
    BY <1>2 DEF PeerSends, Live
  <2>2. TypeOK'
    <3>1. PICK n \in 1 .. unsent[c] :
            /\ unsent' = [unsent EXCEPT ![c] = @ - n]
            /\ toServer' = [toServer EXCEPT ![c] = @ + n]
      BY <1>2 DEF PeerSends
    <3>2. unsent[c] - n \in Nat /\ toServer[c] + n \in Nat
      BY DEF TypeOK
    <3>3. unsent' \in [Conns -> Nat] /\ toServer' \in [Conns -> Nat]
      BY <3>1, <3>2 DEF TypeOK
    <3> QED
      BY <1>2, <3>3
         DEF PeerSends, TypeOK, OwnerPlaces, SrvPlaces, LoopPlaces
  <2>3. /\ HandShake'
       /\ Queueing'
       /\ CountExact'
       /\ Admission'
       /\ PipeContent'
       /\ AllDrained'
       /\ Sleepers'
       /\ NoLostWakeup'
    BY <1>2, <2>1
       DEF PeerSends, HandShake, Running, LoopPlaces, Queueing, Waiting,
          CountExact, Admission, PipeContent, StopByte, RunByte, AllDrained,
          Sleepers, NoLostWakeup
  <2> QED
    BY <2>1, <2>2, <2>3 DEF IInv
<1>3. ASSUME NEW c \in Conns, PeerCloses(c) PROVE IInv'
  <2>1. Live' = Live
    BY <1>3 DEF PeerCloses, Live
  <2>2. TypeOK'
    BY <1>3 DEF PeerCloses, TypeOK, OwnerPlaces, SrvPlaces, LoopPlaces
  <2>3. Queueing'
    BY <1>3 DEF PeerCloses, Queueing, Waiting, TypeOK
  <2>4. /\ HandShake'
       /\ CountExact'
       /\ Admission'
       /\ PipeContent'
       /\ AllDrained'
       /\ Sleepers'
       /\ NoLostWakeup'
    BY <1>3, <2>1
       DEF PeerCloses, HandShake, Running, LoopPlaces, CountExact, Admission,
          PipeContent, StopByte, RunByte, AllDrained, Sleepers, NoLostWakeup
  <2> QED
    BY <2>1, <2>2, <2>3, <2>4 DEF IInv
<1> QED
  BY <1>1, <1>2, <1>3 DEF PeerStep

(* Every step of the system keeps the invariant. *)
LEMMA InvStep == IInv /\ [Next]_vars => IInv'
<1> SUFFICES ASSUME IInv, [Next]_vars PROVE IInv'
  OBVIOUS
<1>1. CASE ServerStep
  BY <1>1, InvOwner, InvServerThread, InvHandlers DEF ServerStep
<1>2. CASE \E c \in Conns : PeerStep(c)
  BY <1>2, InvPeers
<1>3. CASE UNCHANGED vars
  <2>1. UNCHANGED <<currentNumberClients, isRunning, quitSignal, clientsCV,
                    pipe, pipeBytes, owner, srv, hand, handler>>
    BY <1>3 DEF vars, members, flags, pipes, threads
  <2>2. UNCHANGED <<listening, backlog, peerEnd, srvEnd, toServer, toPeer,
                    unsent, stale, abandoned, starts>>
    BY <1>3 DEF vars, network, sockets, traffic, history
  <2>3. Live' = Live
    BY <2>1 DEF Live
  <2>4. TypeOK'
    BY <2>1, <2>2 DEF IInv, TypeOK
  <2>5. HandShake' /\ Admission' /\ Sleepers' /\ NoLostWakeup'
    BY <2>1, <2>2 DEF IInv, HandShake, Admission, Sleepers, NoLostWakeup
  <2>6. Queueing' /\ PipeContent'
    BY <2>1, <2>2 DEF IInv, Queueing, Waiting, PipeContent, StopByte, RunByte
  <2>7. CountExact' /\ AllDrained'
    BY <2>1, <2>2, <2>3 DEF IInv, CountExact, AllDrained
  <2> QED
    BY <2>4, <2>5, <2>6, <2>7 DEF IInv
<1> QED
  BY <1>1, <1>2, <1>3 DEF Next

(* Every reachable state satisfies the inductive invariant of ServerInv. *)
THEOREM InductiveInvariant == Spec => []IInv
BY InvInit, InvStep, PTL DEF Spec

-----------------------------------------------------------------------------
(* The safety properties of Server.                                         *)

(* TypeOK holds for every instance: the counter never goes below zero and
   the pipe never holds more than two bytes. *)
THEOREM TypeCorrect == Spec => []TypeOK
<1>1. IInv => TypeOK
  BY DEF IInv
<1> QED
  BY <1>1, InductiveInvariant, PTL

(* currentNumberClients_ is exact. *)
THEOREM CounterIsExact == Spec => []CountExact
<1>1. IInv => CountExact
  BY DEF IInv
<1> QED
  BY <1>1, InductiveInvariant, PTL

(* No more than maxNumberClients_ client threads are ever alive. *)
THEOREM LimitIsKept == Spec => []AdmissionBound
<1>1. IInv => AdmissionBound
  BY DEF IInv, CountExact, Admission, AdmissionBound
<1> QED
  BY <1>1, InductiveInvariant, PTL

(* No thread sleeps on clientsCV_ while what it waits for is the case. *)
THEOREM NoWakeupIsLost == Spec => []NoLostWakeup
<1>1. IInv => NoLostWakeup
  BY DEF IInv
<1> QED
  BY <1>1, InductiveInvariant, PTL

(* The quit byte is there as long as a thread depends on it. *)
THEOREM QuitIsSeen == Spec => []QuitStaysVisible
<1>1. IInv => QuitStaysVisible
  <2> SUFFICES ASSUME IInv, quitSignal,
                      srv \in LoopPlaces \/ ~(Live \subseteq abandoned)
               PROVE  PipeReadable
    BY DEF QuitStaysVisible
  <2>1. srv \in LoopPlaces \cup {"leave", "drain"}
    BY DEF IInv, AllDrained, TypeOK, SrvPlaces
  <2>2. pipeBytes > 0
    BY <2>1 DEF IInv, PipeContent
  <2>3. owner # "idle"
    BY <2>1 DEF IInv, HandShake, LoopPlaces
  <2> QED
    BY <2>2, <2>3 DEF IInv, HandShake, PipeReadable
<1> QED
  BY <1>1, InductiveInvariant, PTL

(* The descriptors are closed under no client thread that was not given up. *)
THEOREM StopLeavesNobody == Spec => []StopIsComplete
<1>1. IInv => StopIsComplete
  BY DEF IInv, HandShake, AllDrained, StopIsComplete
<1> QED
  BY <1>1, InductiveInvariant, PTL

(* The main loop needs a quit byte or a quit signal to end, and before stop
   there is neither: a byte in the pipe is accounted for by PipeContent. *)
LEMMA RunsUntilStopStep ==
  ASSUME {"loop", "accept"} \cap Faults = {}
  PROVE  IInv /\ RunsUntilStop /\ [Next]_vars => RunsUntilStop'
<1> SUFFICES ASSUME IInv, RunsUntilStop, [Next]_vars
             PROVE  RunsUntilStop'
  OBVIOUS
<1> USE DEF flags, members, pipes, threads, sockets, traffic, network, history
<1>1. srv \in LoopPlaces /\ (PipeReadable \/ quitSignal)
        => owner \in {"wait", "join"}
  <2>1. SUFFICES ASSUME srv \in LoopPlaces, PipeReadable \/ quitSignal
                 PROVE  owner \in {"wait", "join"}
    OBVIOUS
  <2>2. pipeBytes > 0
    BY <2>1 DEF IInv, PipeContent, PipeReadable
  <2>3. RunByte = 0
    BY <2>1 DEF RunByte, LoopPlaces
  <2>4. owner \notin {"idle", "up"}
    BY <2>2, <2>3 DEF IInv, TypeOK, PipeContent, StopByte
  <2>5. owner # "close"
    BY <2>1 DEF IInv, HandShake, LoopPlaces
  <2> QED
    BY <2>4, <2>5 DEF IInv, TypeOK, OwnerPlaces
<1>2. CASE UNCHANGED <<owner, srv>>
  BY <1>2 DEF RunsUntilStop
<1>3. CASE Start \/ StartFails \/ Stop \/ OwnerStep \/ WaitExpires
  BY <1>3
     DEF Start, StartFails, Stop, OwnerStep, WaitSleeps, WaitSucceeds, Join,
         CloseDescriptors, WaitExpires, RunsUntilStop, IInv, HandShake, TypeOK
<1>4. CASE \/ ServerThreadStep \/ LoopFails \/ AcceptFails \/ DrainExpires
  <2>1. CASE LoopQuits \/ CheckQuits
    BY <1>1, <2>1 DEF LoopQuits, CheckQuits, RunsUntilStop, LoopPlaces
  <2>2. CASE \/ LoopAccepts \/ Accept \/ CheckAdmits \/ CheckSleeps
             \/ Register \/ LoopFails \/ AcceptFails
    BY <2>2
       DEF LoopAccepts, Accept, CheckAdmits, CheckSleeps, Register, LoopFails,
           AcceptFails, RunsUntilStop, SleepOnCV
  <2>3. CASE Leave \/ DrainSleeps \/ Drained \/ DrainExpires
    BY <2>3
       DEF Leave, DrainSleeps, Drained, DrainExpires, FinishRun, SleepOnCV,
           RunsUntilStop
  <2> QED
    BY <1>4, <2>1, <2>2, <2>3 DEF ServerThreadStep
<1>5. ASSUME NEW c \in Conns, ClientThreadStep(c) \/ PeerStep(c)
      PROVE  UNCHANGED <<owner, srv>>
  BY <1>5
     DEF ClientThreadStep, HandlerStep, SleepExpires, SelectFails, FirstSelect,
         ReadAll, ReadSome, ReadNothing, SleepInterrupted, WritableSelect,
         WriteAnswer, CloseClientAndNotify, PeerStep, PeerConnects, PeerSends,
         PeerCloses
<1> QED
  BY <1>2, <1>3, <1>4, <1>5 DEF Next, ServerStep, vars

(* Whatever happens to its clients, and with no descriptor left, the server
   runs until stop, unless its own select fails or accept4 fails in another
   way. *)
THEOREM RunLastsUntilStop ==
  {"loop", "accept"} \cap Faults = {} => (Spec => []RunsUntilStop)
<1> SUFFICES ASSUME {"loop", "accept"} \cap Faults = {}
             PROVE  Spec => []RunsUntilStop
  OBVIOUS
<1>1. Init => RunsUntilStop
  BY DEF Init, RunsUntilStop
<1>2. IInv /\ RunsUntilStop /\ [Next]_vars => RunsUntilStop'
  BY RunsUntilStopStep
<1> QED
  BY <1>1, <1>2, InductiveInvariant, PTL DEF Spec

=============================================================================
