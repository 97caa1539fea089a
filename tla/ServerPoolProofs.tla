-------------------------- MODULE ServerPoolProofs --------------------------
(***************************************************************************)
(* Proof that the server implements the pool of clients, for every         *)
(* instance.  Each step of the server is matched by one step of the pool,  *)
(* or by none; the inductive invariant says why the guard of the matching  *)
(* step holds.                                                             *)
(***************************************************************************)
EXTENDS ServerPool, ServerProofs

Seen == {c \in Conns : handler[c] # "none"}

(* The variables of the pool, spelled out in terms of the server. *)
LEMMA PoolVars ==
  ASSUME PoolPhase' = PoolPhase, Live' = Live, Seen' = Seen,
         abandoned' = abandoned
  PROVE  UNCHANGED Pool!vars
BY DEF Pool!vars, Seen

(* The steps of the owner, and those of the server thread that do not end
   the main loop, keep the threads and the phase. *)
LEMMA HandlersKept ==
  ASSUME handler' = handler
  PROVE  Live' = Live /\ Seen' = Seen
BY DEF Live, Seen

LEMMA PhaseKept ==
  ASSUME \/ srv' = srv
         \/ srv \in LoopPlaces /\ srv' \in LoopPlaces
         \/ srv = "leave" /\ srv' = "drain"
         \/ srv = "done" /\ srv' = "off"
  PROVE  PoolPhase' = PoolPhase
BY DEF PoolPhase, LoopPlaces

(* The pool counts as the server does: its module has the definition of
   Cardinality by an instance of its own. *)
LEMMA PoolCardinality ==
  ASSUME NEW S
  PROVE  Pool!Cardinality(S) = Cardinality(S)
BY DEF Pool!Cardinality, Cardinality

(* The pool starts closed and empty. *)
LEMMA PoolInit == Init => Pool!Init
BY DEF Init, Pool!Init, PoolPhase, LoopPlaces, Live, LivePlaces

-----------------------------------------------------------------------------
(* start opens the pool; the rest of the owner's steps are invisible. *)
LEMMA PoolOwner ==
  ASSUME IInv, Start \/ StartFails \/ Stop \/ OwnerStep \/ WaitExpires
  PROVE  [Pool!Next]_Pool!vars
<1> USE DEF flags, members, pipes, threads, sockets, traffic, network, history
<1>1. CASE Start
  <2>1. PoolPhase = "closed" /\ PoolPhase' = "open"
    BY <1>1 DEF Start, IInv, HandShake, PoolPhase, LoopPlaces
  <2>2. Live' = Live /\ Seen' = Seen /\ abandoned' = abandoned
    BY <1>1, HandlersKept DEF Start
  <2>3. Pool!Open
    BY <2>1, <2>2 DEF Pool!Open, Seen
  <2> QED
    BY <2>3 DEF Pool!Next
<1>2. ASSUME \/ StartFails \/ Stop \/ WaitSleeps \/ WaitSucceeds
             \/ WaitExpires \/ Join \/ CloseDescriptors
      PROVE  UNCHANGED Pool!vars
  <2>1. handler' = handler /\ abandoned' = abandoned
    BY <1>2 DEF StartFails, Stop, WaitSleeps, WaitSucceeds, WaitExpires, Join,
       CloseDescriptors
  <2>2. srv' = srv \/ (srv = "done" /\ srv' = "off")
    BY <1>2 DEF StartFails, Stop, WaitSleeps, WaitSucceeds, WaitExpires, Join,
       CloseDescriptors
  <2> QED
    BY <2>1, <2>2, HandlersKept, PhaseKept, PoolVars
<1> QED
  BY <1>1, <1>2 DEF OwnerStep

(* Leaving the main loop drains the pool, a registration is an admission, and
   the end of run closes the pool or gives up on the clients left. *)
LEMMA PoolServerThread ==
  ASSUME IInv, ServerThreadStep \/ LoopFails \/ AcceptFails \/ DrainExpires
  PROVE  [Pool!Next]_Pool!vars
<1> USE DEF flags, members, pipes, threads, sockets, traffic, network, history
<1>1. ASSUME LoopQuits \/ LoopFails \/ CheckQuits \/ AcceptFails
      PROVE  [Pool!Next]_Pool!vars
  <2>1. Live' = Live /\ Seen' = Seen /\ abandoned' = abandoned
    BY <1>1, HandlersKept DEF LoopQuits, LoopFails, CheckQuits, AcceptFails
  <2>2. srv \in LoopPlaces /\ srv' \in {"select", "leave"}
    BY <1>1 DEF LoopQuits, LoopFails, CheckQuits, AcceptFails, LoopPlaces
  <2>3. CASE srv' = "select"
    BY <2>1, <2>2, <2>3, PhaseKept, PoolVars DEF LoopPlaces
  <2>4. CASE srv' = "leave"
    <3>1. PoolPhase = "open" /\ PoolPhase' = "draining"
      BY <2>2, <2>4 DEF PoolPhase, LoopPlaces
    <3>2. Pool!Drain
      BY <2>1, <3>1 DEF Pool!Drain, Seen
    <3> QED
      BY <3>2 DEF Pool!Next
  <2> QED
    BY <2>2, <2>3, <2>4
<1>2. CASE Register
  <2>1. hand \in Conns /\ handler[hand] = "none" /\ srv = "register"
    BY <1>2 DEF Register, IInv, Queueing, Waiting, TypeOK
  <2>2. Live' = Live \cup {hand}
    BY <1>2, <2>1, LiveGrows DEF Register, IInv
  <2>3. Seen' = Seen \cup {hand} /\ hand \notin Seen
    BY <1>2, <2>1 DEF Register, IInv, TypeOK, Seen
  <2>4. Cardinality(Live) < MaxNumberClients
    BY <2>1 DEF IInv, CountExact, Admission
  <2>5. PoolPhase = "open" /\ PoolPhase' = "open" /\ abandoned' = abandoned
    BY <1>2 DEF Register, PoolPhase, LoopPlaces
  <2>6. PICK c \in Conns : c = hand
    BY <2>1
  <2>7. Pool!Admit(c)
    BY <2>2, <2>3, <2>4, <2>5, <2>6, PoolCardinality DEF Pool!Admit, Seen
  <2> QED
    BY <2>7 DEF Pool!Next
<1>3. CASE Drained
  <2>1. Live = {} /\ Live' = Live /\ Seen' = Seen /\ abandoned' = abandoned
    BY <1>3, LiveFinite, HandlersKept
       DEF Drained, ClientsFinished, IInv, CountExact
  <2>2. PoolPhase = "draining" /\ PoolPhase' = "closed"
    BY <1>3 DEF Drained, FinishRun, PoolPhase, LoopPlaces
  <2>3. Pool!Close
    BY <2>1, <2>2 DEF Pool!Close, Seen
  <2> QED
    BY <2>3 DEF Pool!Next
<1>4. CASE DrainExpires
  <2>1. /\ Live' = Live /\ Seen' = Seen
        /\ abandoned' = abandoned \cup Live
    BY <1>4, HandlersKept DEF DrainExpires
  <2>2. PoolPhase = "draining" /\ PoolPhase' = "closed"
    BY <1>4 DEF DrainExpires, FinishRun, PoolPhase, LoopPlaces
  <2>3. Pool!GiveUp
    BY <2>1, <2>2 DEF Pool!GiveUp, Seen
  <2> QED
    BY <2>3 DEF Pool!Next
<1>5. ASSUME \/ LoopAccepts \/ Accept \/ CheckAdmits \/ CheckSleeps
             \/ Leave \/ DrainSleeps
      PROVE  UNCHANGED Pool!vars
  <2>1. handler' = handler /\ abandoned' = abandoned
    BY <1>5 DEF LoopAccepts, Accept, CheckAdmits, CheckSleeps, Leave,
       DrainSleeps
  <2>2. \/ srv' = srv
        \/ srv \in LoopPlaces /\ srv' \in LoopPlaces
        \/ srv = "leave" /\ srv' = "drain"
    BY <1>5 DEF LoopAccepts, Accept, CheckAdmits, CheckSleeps, Leave,
       DrainSleeps, LoopPlaces
  <2> QED
    BY <2>1, <2>2, HandlersKept, PhaseKept, PoolVars
<1> QED
  BY <1>1, <1>2, <1>3, <1>4, <1>5 DEF ServerThreadStep

(* A client thread is seen by the pool only when it reports its end. *)
LEMMA PoolHandlers ==
  ASSUME IInv, NEW c \in Conns, ClientThreadStep(c)
  PROVE  [Pool!Next]_Pool!vars
<1> USE DEF flags, members, pipes, threads, sockets, traffic, network, history
<1>1. PoolPhase' = PoolPhase /\ abandoned' = abandoned
  <2>1. srv' = srv /\ abandoned' = abandoned
    BY DEF ClientThreadStep, HandlerStep, FirstSelect, ReadAll, ReadSome,
       ReadNothing, SleepInterrupted, SleepExpires, WritableSelect,
       WriteAnswer, CloseClientAndNotify, SelectFails
  <2> QED
    BY <2>1, PhaseKept
<1>2. CASE CloseClientAndNotify(c)
  <2>1. Live' = Live \ {c} /\ c \in Live
    BY <1>2, LiveShrinks DEF CloseClientAndNotify, IInv
  <2>2. Seen' = Seen
    BY <1>2 DEF CloseClientAndNotify, Goto, Seen, IInv, TypeOK
  <2>3. Pool!Finish(c)
    BY <1>1, <2>1, <2>2 DEF Pool!Finish, Seen
  <2> QED
    BY <2>3 DEF Pool!Next
<1>3. CASE ReadSome(c)
  BY <1>1, <1>3, HandlersKept, PoolVars DEF ReadSome
<1>4. ASSUME NEW p \in LivePlaces, handler[c] \in LivePlaces, Goto(c, p)
      PROVE  UNCHANGED Pool!vars
  <2>1. Live' = Live
    BY <1>4, LiveMoves DEF IInv
  <2>2. Seen' = Seen
    BY <1>4 DEF Goto, Seen, IInv, TypeOK, LivePlaces
  <2> QED
    BY <1>1, <2>1, <2>2, PoolVars
<1>5. ASSUME \/ FirstSelect(c) \/ ReadAll(c) \/ ReadNothing(c)
             \/ SleepInterrupted(c) \/ SleepExpires(c)
             \/ WritableSelect(c) \/ WriteAnswer(c) \/ SelectFails(c)
      PROVE  /\ handler[c] \in LivePlaces
             /\ \E p \in LivePlaces : Goto(c, p)
  BY <1>5 DEF FirstSelect, ReadAll, ReadNothing, SleepInterrupted,
     SleepExpires, WritableSelect, WriteAnswer, SelectFails, LivePlaces
<1> QED
  BY <1>2, <1>3, <1>4, <1>5 DEF ClientThreadStep, HandlerStep

(* The pool does not see the peers. *)
LEMMA PoolPeers ==
  ASSUME NEW c \in Conns, PeerStep(c)
  PROVE  UNCHANGED Pool!vars
<1>1. srv' = srv /\ handler' = handler /\ abandoned' = abandoned
  BY DEF PeerStep, PeerConnects, PeerSends, PeerCloses, threads, history
<1> QED
  BY <1>1, HandlersKept, PhaseKept, PoolVars

-----------------------------------------------------------------------------
(* Every step of the server is a step of the pool or leaves it alone. *)
LEMMA PoolStep == IInv /\ [Next]_vars => [Pool!Next]_Pool!vars
<1> SUFFICES ASSUME IInv, [Next]_vars PROVE [Pool!Next]_Pool!vars
  OBVIOUS
<1>1. CASE ServerStep
  BY <1>1, PoolOwner, PoolServerThread, PoolHandlers DEF ServerStep
<1>2. CASE \E c \in Conns : PeerStep(c)
  BY <1>2, PoolPeers
<1>3. CASE UNCHANGED vars
  <2>1. srv' = srv /\ handler' = handler /\ abandoned' = abandoned
    BY <1>3 DEF vars, threads, history
  <2> QED
    BY <2>1, HandlersKept, PhaseKept, PoolVars
<1> QED
  BY <1>1, <1>2, <1>3 DEF Next

(* The server implements the pool: at most maxNumberClients_ at once, taken in
   only between start and the end of the main loop, and run returns only when
   every client has left or was given up on. *)
THEOREM ServerImplementsPool == Spec => ImplementsPool
BY PoolInit, PoolStep, InductiveInvariant, PTL DEF Spec, ImplementsPool, Pool!Spec

=============================================================================
