---------------------------- MODULE ClientProofs ----------------------------
(***************************************************************************)
(* Proofs about Client for any number of calls of sendDelayToServer and of *)
(* stop: IInv of ClientInv is inductive, the safety properties follow, and *)
(* so does what ClientProgress says of the end of the calls.               *)
(***************************************************************************)
EXTENDS ClientInv, ClientProgress, FiniteSetTheorems, TLAPS

-----------------------------------------------------------------------------
(* The set of counted calls and its cardinality.                            *)

(* Counted is finite, so that its cardinality counts it. *)
LEMMA CountedFinite ==
  /\ IsFiniteSet(Counted)
  /\ Cardinality(Counted) \in Nat
  /\ Cardinality(Counted) = 0 <=> Counted = {}
<1>1. Counted \in SUBSET Calls
  BY DEF Counted
<1>2. IsFiniteSet(Counted)
  BY <1>1, FS_Subset, CallsAssumption
<1> QED
  BY <1>2, FS_CardinalityType, FS_EmptySet

(* A call that is counted enters the set, one that reports its end leaves. *)
LEMMA CountedGrows ==
  ASSUME TypeOK, NEW c \in Calls, call[c] = "count", Goto(c, "connecting")
  PROVE  Cardinality(Counted') = Cardinality(Counted) + 1
<1>1. Counted' = Counted \cup {c} /\ c \notin Counted
  BY DEF Counted, Goto, TypeOK, CountedPlaces
<1> QED
  BY <1>1, CountedFinite, FS_AddElement

LEMMA CountedShrinks ==
  ASSUME TypeOK, NEW c \in Calls, call[c] = "close", Goto(c, "returned")
  PROVE  /\ Cardinality(Counted') = Cardinality(Counted) - 1
         /\ Cardinality(Counted) > 0
<1>1. Counted' = Counted \ {c} /\ c \in Counted
  BY DEF Counted, Goto, TypeOK, CountedPlaces
<1>2. Cardinality(Counted') = Cardinality(Counted) - 1
  BY <1>1, CountedFinite, FS_RemoveElement
<1> QED
  BY <1>1, <1>2, CountedFinite

(* Goto keeps the places of the calls in their range. *)
LEMMA GotoType ==
  ASSUME TypeOK, NEW c \in Calls, NEW p \in CallPlaces, Goto(c, p)
  PROVE  call' \in [Calls -> CallPlaces]
BY DEF Goto, TypeOK

-----------------------------------------------------------------------------
(* The invariant holds initially.                                           *)

LEMMA InvInit == Init => IInv
<1> SUFFICES ASSUME Init PROVE IInv
  OBVIOUS
<1>1. Active = {} /\ Counted = {} /\ Stopping = {}
  BY DEF Init, Active, Counted, Stopping, ActivePlaces, CountedPlaces
<1>2. TypeOK
  <2>1. call \in [Calls -> CallPlaces] /\ stop \in [Stops -> StopPlaces]
    BY DEF Init, CallPlaces, StopPlaces
  <2>2. unanswered \in [Calls -> Nat]
    BY ParametersAssumption DEF Init
  <2> QED
    BY <2>1, <2>2 DEF Init, TypeOK
<1>3. CountExact
  BY <1>1, FS_EmptySet DEF Init, CountExact
<1>4. PipeNeeded
  BY <1>1 DEF Init, PipeNeeded, CountedPlaces
<1>5. Sleepers /\ NoLostWakeup /\ NoByteWithoutStop
  BY DEF Init, Sleepers, NoLostWakeup, NoByteWithoutStop
<1>6. CountedOnce /\ CountedCallsQuit /\ OneStop
  BY <1>1 DEF Init, CountedOnce, CountedCallsQuit, OneStop
<1> QED
  BY <1>2, <1>3, <1>4, <1>5, <1>6 DEF IInv

-----------------------------------------------------------------------------
(* Every step keeps the invariant.                                          *)

(* What the steps of the calls may do to the connections. *)
NetworkOK ==
  /\ conn \in [Calls -> {"none", "connecting", "up", "refused", "closed"}]
  /\ sent \subseteq Calls /\ answered \subseteq Calls
  /\ toCall \in [Calls -> Nat] /\ unanswered \in [Calls -> Nat]
  /\ serverEnd \in [Calls -> {"open", "closed"}]

(* A step that moves no call and no stop keeps the invariant. *)
LEMMA InvNetwork ==
  ASSUME IInv, NetworkOK', UNCHANGED <<members, call, stopping>>
  PROVE  IInv'
<1> USE DEF IInv, members, stopping
<1>1. Counted' = Counted /\ Active' = Active /\ Stopping' = Stopping
  BY DEF Counted, Active, Stopping
<1>2. TypeOK'
  BY DEF TypeOK, NetworkOK
<1>3. CountExact' /\ Sleepers' /\ NoLostWakeup' /\ NoByteWithoutStop'
  BY <1>1 DEF CountExact, Sleepers, NoLostWakeup, NoByteWithoutStop
<1>4. PipeNeeded' /\ CountedOnce' /\ CountedCallsQuit'
  BY <1>1 DEF PipeNeeded, CountedOnce, CountedCallsQuit
<1>5. OneStop'
  BY <1>1 DEF OneStop, PipeReadable
<1> QED
  BY <1>2, <1>3, <1>4, <1>5

(* A counted call that goes on without reporting its end keeps it. *)
LEMMA InvCountedGoesOn ==
  ASSUME IInv, NetworkOK', UNCHANGED <<members, stopping>>,
         NEW c \in Calls, NEW p \in CountedPlaces,
         call[c] \in CountedPlaces, Goto(c, p)
  PROVE  IInv'
<1> USE DEF IInv, members, stopping
<1>1. Counted' = Counted /\ Active' = Active /\ Stopping' = Stopping
  BY DEF Counted, Active, Stopping, ActivePlaces, Goto, TypeOK
<1>2. TypeOK'
  <2>1. call' \in [Calls -> CallPlaces]
    BY GotoType DEF CallPlaces, ActivePlaces
  <2> QED
    BY <2>1 DEF TypeOK, NetworkOK
<1>3. CountExact' /\ Sleepers' /\ NoLostWakeup' /\ NoByteWithoutStop'
  BY <1>1 DEF CountExact, Sleepers, NoLostWakeup, NoByteWithoutStop
<1>4. PipeNeeded'
  BY <1>1 DEF PipeNeeded, Goto, TypeOK
<1>5. CountedOnce' /\ CountedCallsQuit'
  BY <1>1 DEF CountedOnce, CountedCallsQuit, Goto, TypeOK
<1>6. OneStop'
  BY <1>1 DEF OneStop, PipeReadable
<1> QED
  BY <1>2, <1>3, <1>4, <1>5, <1>6

(* So does a call that is not counted yet. *)
LEMMA InvUncountedGoesOn ==
  ASSUME IInv, NetworkOK', UNCHANGED <<members, stopping>>, pipe # "closed",
         NEW c \in Calls, call[c] \in {"none", "connect", "check"},
         NEW p \in {"connect", "check", "count", "returned"}, Goto(c, p),
         p = "count" => pipe = "open"
  PROVE  IInv'
<1> USE DEF IInv, members, stopping
<1>1. Counted' = Counted /\ Stopping' = Stopping
  BY DEF Counted, Stopping, CountedPlaces, Goto, TypeOK
<1>2. \A d \in Calls : d # c => call'[d] = call[d]
  BY DEF Goto, TypeOK
<1>3. TypeOK'
  <2>1. call' \in [Calls -> CallPlaces]
    BY GotoType DEF CallPlaces, ActivePlaces
  <2> QED
    BY <2>1 DEF TypeOK, NetworkOK
<1>4. CountExact' /\ Sleepers' /\ NoLostWakeup' /\ NoByteWithoutStop'
  BY <1>1 DEF CountExact, Sleepers, NoLostWakeup, NoByteWithoutStop
<1>5. PipeNeeded'
  BY <1>2 DEF PipeNeeded, Goto, TypeOK, CountedPlaces
<1>6. \A s \in Stops : c \notin counted[s]
  BY DEF CountedOnce, CountedPlaces, TypeOK
<1>7. CountedOnce' /\ CountedCallsQuit'
  BY <1>2, <1>6 DEF CountedOnce, CountedCallsQuit, Active, TypeOK
<1>8. OneStop'
  BY <1>1 DEF OneStop, PipeReadable
<1> QED
  BY <1>3, <1>4, <1>5, <1>7, <1>8

(* The steps of the calls, the network and the server. *)
LEMMA InvCalls ==
  ASSUME IInv, NEW c \in Calls,
         \/ Begin(c) \/ CallStep(c) \/ ServerStep(c)
         \/ SelectFails(c) \/ SelectExpires(c)
  PROVE  IInv'
<1> USE DEF IInv, members, stopping, network, server
<1>0. NetworkOK
  BY DEF NetworkOK, TypeOK
<1>1. CASE Begin(c)
  BY <1>0, <1>1, InvUncountedGoesOn DEF Begin, NetworkOK
<1>2. CASE ConnectToServer(c)
  <2>1. NetworkOK'
    BY <1>0, <1>2 DEF ConnectToServer, NetworkOK
  <2>2. pipe # "closed"
    BY <1>2 DEF ConnectToServer, PipeNeeded, Active, ActivePlaces
  <2> QED
    BY <1>2, <2>1, <2>2, InvUncountedGoesOn DEF ConnectToServer
<1>3. CASE CheckPipeDescriptors(c)
  <2>1. NetworkOK'
    BY <1>0, <1>3 DEF CheckPipeDescriptors, NetworkOK
  <2>2. pipe # "closed"
    BY <1>3 DEF CheckPipeDescriptors, PipeNeeded, Active, ActivePlaces
  <2> QED
    BY <1>3, <2>1, <2>2, InvUncountedGoesOn DEF CheckPipeDescriptors, TypeOK
<1>4. CASE Count(c)
  <2>1. /\ Active' = Active /\ Stopping' = Stopping
        /\ \A d \in Calls : d # c => call'[d] = call[d]
        /\ call'[c] = "connecting"
    BY <1>4 DEF Count, Goto, Active, ActivePlaces, CountedPlaces, Stopping,
       TypeOK
  <2>2. TypeOK'
    <3>1. call' \in [Calls -> CallPlaces]
      BY <1>4, GotoType DEF Count, CallPlaces, ActivePlaces, CountedPlaces
    <3> QED
      BY <1>4, <3>1 DEF Count, TypeOK
  <2>3. CountExact'
    BY <1>4, CountedGrows DEF Count, CountExact
  <2>4. Sleepers' /\ NoLostWakeup' /\ NoByteWithoutStop'
    BY <1>4, <2>1 DEF Count, Sleepers, NoLostWakeup, NoByteWithoutStop, TypeOK
  <2>5. PipeNeeded'
    BY <1>4, <2>1 DEF Count, PipeNeeded
  <2>6. CountedOnce' /\ CountedCallsQuit'
    BY <1>4, <2>1 DEF Count, CountedOnce, CountedCallsQuit, CountedPlaces,
       TypeOK
  <2>7. OneStop'
    BY <1>4, <2>1 DEF Count, OneStop, PipeReadable
  <2> QED
    BY <2>2, <2>3, <2>4, <2>5, <2>6, <2>7
<1>5. CASE ConnectSelect(c)
  BY <1>0, <1>5, InvCountedGoesOn
     DEF ConnectSelect, SelectOrQuit, NetworkOK, CountedPlaces
<1>6. CASE WriteMessage(c)
  <2>1. NetworkOK'
    BY <1>0, <1>6 DEF WriteMessage, NetworkOK
  <2> QED
    BY <1>6, <2>1, InvCountedGoesOn DEF WriteMessage, CountedPlaces
<1>7. CASE AnswerSelect(c)
  BY <1>0, <1>7, InvCountedGoesOn
     DEF AnswerSelect, SelectOrQuit, NetworkOK, CountedPlaces
<1>8. CASE ReadAll(c)
  <2>1. NetworkOK'
    BY <1>0, <1>8, ParametersAssumption DEF ReadAll, NetworkOK
  <2> QED
    BY <1>8, <2>1, InvCountedGoesOn DEF ReadAll, CountedPlaces
<1>9. CASE ReadSome(c)
  <2>1. NetworkOK'
    BY <1>0, <1>9 DEF ReadSome, NetworkOK
  <2> QED
    BY <1>9, <2>1, InvNetwork DEF ReadSome
<1>10. CASE ReadNothing(c)
  BY <1>0, <1>10, InvCountedGoesOn DEF ReadNothing, NetworkOK, CountedPlaces
<1>11. CASE CloseAndNotify(c)
  <2>1. /\ Active' = Active \ {c} /\ Stopping' = Stopping
        /\ \A d \in Calls : d # c => call'[d] = call[d]
        /\ call'[c] = "returned"
    BY <1>11 DEF CloseAndNotify, Goto, Active, ActivePlaces, CountedPlaces,
       Stopping, TypeOK
  <2>2. Cardinality(Counted') = numConnections - 1 /\ numConnections > 0
    BY <1>11, CountedShrinks DEF CloseAndNotify, CountExact
  <2>3. TypeOK'
    <3>1. call' \in [Calls -> CallPlaces]
      BY <1>11, GotoType DEF CloseAndNotify, CallPlaces
    <3>2. conn' \in [Calls -> {"none", "connecting", "up", "refused",
                               "closed"}]
      BY <1>11 DEF CloseAndNotify, TypeOK
    <3>3. numConnections' \in Nat
      BY <1>11, <2>2 DEF CloseAndNotify, CountDown, TypeOK
    <3> QED
      BY <1>11, <3>1, <3>2, <3>3 DEF CloseAndNotify, NotifyAll, TypeOK
  <2>4. CountExact'
    BY <1>11, <2>2 DEF CloseAndNotify, CountDown, CountExact
  <2>5. Sleepers' /\ NoLostWakeup' /\ NoByteWithoutStop'
    BY <1>11, <2>1 DEF CloseAndNotify, NotifyAll, Sleepers, NoLostWakeup,
       NoByteWithoutStop
  <2>6. PipeNeeded'
    BY <1>11, <2>1 DEF CloseAndNotify, PipeNeeded, CountedPlaces
  <2>7. CountedOnce' /\ CountedCallsQuit'
    BY <1>11, <2>1 DEF CloseAndNotify, CountedOnce, CountedCallsQuit, TypeOK
  <2>8. OneStop'
    BY <1>11, <2>1 DEF CloseAndNotify, OneStop, PipeReadable
  <2> QED
    BY <2>3, <2>4, <2>5, <2>6, <2>7, <2>8
<1>12. CASE SelectExpires(c)
  BY <1>0, <1>12, InvCountedGoesOn
     DEF SelectExpires, NetworkOK, CountedPlaces
<1>13. CASE Establish(c) \/ Refuse(c) \/ ServerCloses(c)
  <2>1. NetworkOK'
    BY <1>0, <1>13 DEF Establish, Refuse, ServerCloses, NetworkOK
  <2> QED
    BY <1>13, <2>1, InvNetwork DEF Establish, Refuse, ServerCloses
<1>14. CASE Answer(c)
  <2>1. NetworkOK'
    BY <1>0, <1>14 DEF Answer, NetworkOK
  <2> QED
    BY <1>14, <2>1, InvNetwork DEF Answer
<1>15. CASE SelectFails(c)
  BY <1>0, <1>15, InvCountedGoesOn
     DEF SelectFails, NetworkOK, CountedPlaces
<1> QED
  BY <1>1, <1>2, <1>3, <1>4, <1>5, <1>6, <1>7, <1>8, <1>9, <1>10, <1>11,
     <1>12, <1>13, <1>14, <1>15 DEF CallStep, ServerStep

(* The steps of the calls of stop. *)
LEMMA InvStops ==
  ASSUME IInv, NEW s \in Stops,
         StopBegins(s) \/ StopStep(s) \/ WaitExpires(s)
  PROVE  IInv'
<1> USE DEF IInv, members, stopping, network, server
<1>0. call' = call /\ Active' = Active /\ Counted' = Counted
  BY DEF StopBegins, StopStep, WaitSleeps, WaitSucceeds, ConsumeByte,
     StopReturns, WaitExpires, Active, Counted
<1>1. CASE StopBegins(s)
  <2>1. /\ Stopping' = Stopping \cup {s} /\ s \notin Stopping
        /\ \A t \in Stops : t # s => stop'[t] = stop[t]
        /\ ~NoConnections => stop'[s] = "wait"
    BY <1>1 DEF StopBegins, StopMayBegin, Stopping, TypeOK
  <2>2. NoConnections \/ pipe = "open"
    BY CountedFinite DEF NoConnections, CountExact, Counted, PipeNeeded
  <2>3. TypeOK'
    <3>1. stop' \in [Stops -> StopPlaces]
      BY <1>1 DEF StopBegins, TypeOK, StopPlaces
    <3>2. pipeBytes' \in Nat /\ quitCV' \subseteq Stops
      BY <1>1 DEF StopBegins, WriteByte, TypeOK
    <3>3. /\ pending' \in [Stops -> SUBSET Calls]
          /\ counted' \in [Stops -> SUBSET Calls]
      BY <1>1 DEF StopBegins, Active, Counted, TypeOK
    <3> QED
      BY <1>1, <3>1, <3>2, <3>3 DEF StopBegins, TypeOK
  <2>4. CountExact' /\ Sleepers'
    <3>1. CountExact'
      BY <1>0, <1>1 DEF StopBegins, CountExact
    <3>2. \A t \in quitCV : t \in Stops /\ t # s /\ stop[t] = "wait"
      BY <2>1 DEF Sleepers, Stopping, TypeOK
    <3>3. quitCV' \subseteq quitCV \cup {s}
      BY <1>1 DEF StopBegins
    <3>4. s \in quitCV' => stop'[s] = "wait"
      BY <1>1, <2>1, <3>2 DEF StopBegins
    <3> QED
      BY <2>1, <3>1, <3>2, <3>3, <3>4 DEF Sleepers
  <2>5. NoLostWakeup' /\ NoByteWithoutStop'
    BY <1>1, <2>1 DEF StopBegins, NoConnections, NoLostWakeup,
       NoByteWithoutStop, TypeOK
  <2>6. PipeNeeded'
    BY <1>0, <1>1, <2>2 DEF StopBegins, PipeNeeded
  <2>7. CountedOnce'
    BY <1>0, <1>1 DEF StopBegins, CountedOnce, Counted, TypeOK
  <2>8. CountedCallsQuit'
    <3>1. NoConnections => Counted = {}
      BY CountedFinite DEF NoConnections, CountExact
    <3>2. NoConnections => counted'[s] = {}
      BY <1>1, <3>1 DEF StopBegins, TypeOK
    <3>3. \A t \in Stops : t # s => counted'[t] = counted[t]
      BY <1>1 DEF StopBegins, TypeOK
    <3>4. expired' = expired
      BY <1>1 DEF StopBegins
    <3> QED
      BY <1>0, <2>1, <3>2, <3>3, <3>4 DEF CountedCallsQuit
  <2>9. OneStop'
    <3>1. ~StopsOverlap => Stopping = {}
      BY <1>1 DEF StopBegins, StopMayBegin
    <3>2. ~StopsOverlap => \A t, u \in Stopping' : t = u
      BY <2>1, <3>1
    <3>3. ~StopsOverlap => \A t \in Stops : stop'[t] = "wait" => t = s
      BY <2>1, <3>1 DEF Stopping
    <3>4. stop'[s] = "wait" => pipe' = "open" /\ pipeBytes' > 0
      BY <1>1, <2>2 DEF StopBegins, WriteByte, TypeOK
    <3> QED
      BY <3>2, <3>3, <3>4 DEF OneStop, PipeReadable
  <2> QED
    BY <2>3, <2>4, <2>5, <2>6, <2>7, <2>8, <2>9
<1>2. CASE WaitSleeps(s)
  <2>1. Stopping' = Stopping
    BY <1>2 DEF WaitSleeps, Stopping
  <2>2. TypeOK' /\ CountExact' /\ Sleepers'
    BY <1>0, <1>2 DEF WaitSleeps, TypeOK, CountExact, Sleepers
  <2>3. NoLostWakeup' /\ NoByteWithoutStop'
    BY <1>2, <2>1 DEF WaitSleeps, NoConnections, NoLostWakeup,
       NoByteWithoutStop, TypeOK
  <2>4. PipeNeeded' /\ CountedOnce' /\ CountedCallsQuit'
    BY <1>0, <1>2 DEF WaitSleeps, PipeNeeded, CountedOnce, CountedCallsQuit
  <2>5. OneStop'
    BY <1>2, <2>1 DEF WaitSleeps, OneStop, PipeReadable
  <2> QED
    BY <2>2, <2>3, <2>4, <2>5
<1>3. CASE WaitSucceeds(s)
  <2>1. /\ Stopping' = Stopping
        /\ \A t \in Stops : t # s => stop'[t] = stop[t]
        /\ stop'[s] = "consume" /\ s \notin quitCV
    BY <1>3 DEF WaitSucceeds, Awake, Stopping, TypeOK
  <2>2. TypeOK'
    BY <1>3 DEF WaitSucceeds, TypeOK, StopPlaces
  <2>3. CountExact' /\ Sleepers' /\ NoLostWakeup' /\ NoByteWithoutStop'
    BY <1>0, <1>3, <2>1 DEF WaitSucceeds, CountExact, Sleepers, NoLostWakeup,
       NoByteWithoutStop, TypeOK
  <2>4. PipeNeeded' /\ CountedOnce'
    BY <1>0, <1>3 DEF WaitSucceeds, PipeNeeded, CountedOnce
  <2>5. CountedCallsQuit'
    <3>1. Counted = {}
      BY <1>3, CountedFinite DEF WaitSucceeds, NoConnections, CountExact
    <3>2. counted[s] \cap Active = {}
      BY <3>1 DEF CountedOnce, Counted, Active, ActivePlaces, TypeOK
    <3> QED
      BY <1>0, <1>3, <2>1, <3>2 DEF WaitSucceeds, CountedCallsQuit
  <2>6. OneStop'
    BY <1>3, <2>1 DEF WaitSucceeds, OneStop, PipeReadable
  <2> QED
    BY <2>2, <2>3, <2>4, <2>5, <2>6
<1>4. CASE WaitExpires(s)
  <2>1. /\ Stopping' = Stopping
        /\ \A t \in Stops : t # s => stop'[t] = stop[t]
        /\ stop'[s] = "consume"
    BY <1>4 DEF WaitExpires, Stopping, TypeOK
  <2>2. TypeOK'
    BY <1>4 DEF WaitExpires, TypeOK, StopPlaces
  <2>3. CountExact' /\ Sleepers' /\ NoLostWakeup' /\ NoByteWithoutStop'
    BY <1>0, <1>4, <2>1 DEF WaitExpires, CountExact, Sleepers, NoLostWakeup,
       NoByteWithoutStop, TypeOK
  <2>4. PipeNeeded' /\ CountedOnce'
    BY <1>0, <1>4 DEF WaitExpires, PipeNeeded, CountedOnce
  <2>5. CountedCallsQuit'
    BY <1>0, <1>4, <2>1 DEF WaitExpires, CountedCallsQuit
  <2>6. OneStop'
    BY <1>4, <2>1 DEF WaitExpires, OneStop, PipeReadable
  <2> QED
    BY <2>2, <2>3, <2>4, <2>5, <2>6
<1>5. CASE ConsumeByte(s)
  <2>1. Stopping' = Stopping /\ s \in Stopping
    BY <1>5 DEF ConsumeByte, Stopping
  <2>2. TypeOK' /\ CountExact' /\ Sleepers' /\ NoLostWakeup'
    BY <1>0, <1>5 DEF ConsumeByte, PipeReadable, TypeOK, CountExact, Sleepers,
       NoLostWakeup
  <2>3. NoByteWithoutStop'
    BY <2>1 DEF NoByteWithoutStop
  <2>4. PipeNeeded' /\ CountedOnce' /\ CountedCallsQuit'
    BY <1>0, <1>5 DEF ConsumeByte, PipeReadable, PipeNeeded, CountedOnce,
       CountedCallsQuit
  <2>5. OneStop'
    <3>1. ~StopsOverlap => \A t \in Stops : stop[t] # "wait"
      BY <1>5, <2>1 DEF ConsumeByte, OneStop, Stopping
    <3> QED
      BY <1>5, <2>1, <3>1 DEF ConsumeByte, OneStop
  <2> QED
    BY <2>2, <2>3, <2>4, <2>5
<1>6. CASE StopReturns(s)
  <2>1. /\ Stopping' = Stopping \ {s}
        /\ \A t \in Stops : t # s => stop'[t] = stop[t]
        /\ stop'[s] = "returned" /\ s \notin quitCV
    BY <1>6 DEF StopReturns, Stopping, Sleepers, TypeOK
  <2>2. pipeBytes = 0 /\ pipeBytes' = 0
    BY <1>6 DEF StopReturns, PipeDrained, PipeReadable, PipeNeeded, TypeOK
  <2>3. TypeOK'
    BY <1>6 DEF StopReturns, TypeOK, StopPlaces
  <2>4. CountExact' /\ Sleepers' /\ NoLostWakeup'
    BY <1>0, <1>6, <2>1 DEF StopReturns, CountExact, Sleepers, NoLostWakeup,
       TypeOK
  <2>5. PipeNeeded' /\ CountedOnce' /\ NoByteWithoutStop'
    BY <1>0, <1>6, <2>2 DEF StopReturns, PipeNeeded, CountedOnce,
       NoByteWithoutStop
  <2>6. CountedCallsQuit'
    BY <1>0, <1>6, <2>1 DEF StopReturns, CountedCallsQuit
  <2>7. OneStop'
    BY <1>6, <2>1 DEF StopReturns, OneStop, PipeReadable
  <2> QED
    BY <2>3, <2>4, <2>5, <2>6, <2>7
<1> QED
  BY <1>1, <1>2, <1>3, <1>4, <1>5, <1>6 DEF StopStep

(* The destructor. *)
LEMMA InvDestroy ==
  ASSUME IInv, Destroy
  PROVE  IInv'
<1> USE DEF IInv, members, stopping, network, server
<1>1. Active' = Active /\ Counted' = Counted /\ Stopping' = Stopping
  BY DEF Destroy, Active, Counted, Stopping
<1>2. Active = {} /\ Stopping = {} /\ Counted = {}
  BY DEF Destroy, Active, Counted, ActivePlaces
<1>3. TypeOK' /\ CountExact' /\ Sleepers' /\ NoLostWakeup'
  BY <1>1 DEF Destroy, TypeOK, CountExact, Sleepers, NoLostWakeup
<1>4. NoByteWithoutStop' /\ CountedOnce' /\ CountedCallsQuit'
  BY <1>1 DEF Destroy, NoByteWithoutStop, CountedOnce, CountedCallsQuit
<1>5. call' = call /\ pipe' = "closed" /\ pipeBytes' = 0
  BY DEF Destroy
<1>6. \A c \in Calls : call[c] # "count" /\ call[c] \notin CountedPlaces
  BY <1>2 DEF Active, ActivePlaces
<1>7. PipeNeeded'
  BY <1>1, <1>2, <1>5, <1>6 DEF PipeNeeded
<1>8. OneStop'
  BY <1>1, <1>2 DEF Destroy, OneStop, Stopping
<1> QED
  BY <1>3, <1>4, <1>7, <1>8

(* Every step of the system keeps the invariant. *)
LEMMA InvStep == IInv /\ [Next]_vars => IInv'
<1> SUFFICES ASSUME IInv, [Next]_vars PROVE IInv'
  OBVIOUS
<1>1. CASE Next
  BY <1>1, InvCalls, InvStops, InvDestroy DEF Next, ClientStep
<1>2. CASE UNCHANGED vars
  <2>1. NetworkOK'
    BY <1>2 DEF IInv, TypeOK, NetworkOK, vars, network, server
  <2>2. UNCHANGED <<members, call, stopping>>
    BY <1>2 DEF vars
  <2> QED
    BY <2>1, <2>2, InvNetwork
<1> QED
  BY <1>1, <1>2

(* Every reachable state satisfies the inductive invariant of ClientInv. *)
THEOREM InductiveInvariant == Spec => []IInv
BY InvInit, InvStep, PTL DEF Spec

-----------------------------------------------------------------------------
(* The safety properties of Client.                                         *)

(* TypeOK holds for every instance: numConnections_ never goes below zero. *)
THEOREM TypeCorrect == Spec => []TypeOK
<1>1. IInv => TypeOK
  BY DEF IInv
<1> QED
  BY <1>1, InductiveInvariant, PTL

(* numConnections_ is exact. *)
THEOREM CounterIsExact == Spec => []CountExact
<1>1. IInv => CountExact
  BY DEF IInv
<1> QED
  BY <1>1, InductiveInvariant, PTL

(* No call of stop sleeps on quitCV_ with nothing to wait for. *)
THEOREM NoWakeupIsLost == Spec => []NoLostWakeup
<1>1. IInv => NoLostWakeup
  BY DEF IInv
<1> QED
  BY <1>1, InductiveInvariant, PTL

(* No stop leaves a byte behind that would cancel a later call. *)
THEOREM NoByteIsLeft == Spec => []NoByteWithoutStop
<1>1. IInv => NoByteWithoutStop
  BY DEF IInv
<1> QED
  BY <1>1, InductiveInvariant, PTL

(* A stop that returns in time has outlasted every call it counted. *)
THEOREM StopOutlastsCalls == Spec => []CountedCallsQuit
<1>1. IInv => CountedCallsQuit
  BY DEF IInv
<1> QED
  BY <1>1, InductiveInvariant, PTL

(* Without overlapping calls of stop, no call misses the byte of the one it
   was counted by. *)
THEOREM LoneStopIsSeen ==
  ASSUME ~StopsOverlap
  PROVE  Spec => []StopIsSeen
<1>1. IInv => StopIsSeen
  BY DEF IInv, OneStop, StopIsSeen
<1> QED
  BY <1>1, InductiveInvariant, PTL

-----------------------------------------------------------------------------
(* Nobody is stuck.                                                         *)

(* A socket that is ready for writing stays so until its call has written. *)
LEMMA WriteIsReadyStep == TypeOK /\ WriteIsReady /\ [Next]_vars => WriteIsReady'
<1> SUFFICES ASSUME TypeOK, WriteIsReady, [Next]_vars,
                    NEW c \in Calls, call'[c] = "write"
             PROVE  Writable(c)'
  BY DEF WriteIsReady
<1> USE DEF members, network, server, stopping, Writable, Broken
<1>1. CASE UNCHANGED <<call, conn, serverEnd>>
  BY <1>1 DEF WriteIsReady
<1>2. ASSUME NEW d \in Calls, Begin(d) \/ SelectFails(d) \/ SelectExpires(d)
      PROVE  Writable(c)'
  BY <1>2 DEF Begin, SelectFails, SelectExpires, Goto, TypeOK, WriteIsReady
<1>3. ASSUME NEW d \in Calls, ConnectSelect(d)
      PROVE  Writable(c)'
  BY <1>3 DEF ConnectSelect, SelectOrQuit, Goto, TypeOK, WriteIsReady
<1>4. ASSUME NEW d \in Calls,
             \/ ConnectToServer(d) \/ CheckPipeDescriptors(d) \/ Count(d)
             \/ CloseAndNotify(d)
      PROVE  Writable(c)'
  BY <1>4
     DEF ConnectToServer, CheckPipeDescriptors, Count, CloseAndNotify, Goto,
         TypeOK, WriteIsReady
<1>5. ASSUME NEW d \in Calls,
             \/ WriteMessage(d) \/ AnswerSelect(d) \/ ReadAll(d)
             \/ ReadSome(d) \/ ReadNothing(d)
      PROVE  Writable(c)'
  BY <1>5
     DEF WriteMessage, AnswerSelect, SelectOrQuit, ReadAll, ReadSome,
         ReadNothing, Goto, TypeOK, WriteIsReady
<1>6. ASSUME NEW d \in Calls, ServerStep(d)
      PROVE  Writable(c)'
  BY <1>6
     DEF ServerStep, Establish, Refuse, Answer, ServerCloses, TypeOK,
         WriteIsReady
<1>7. ASSUME NEW s \in Stops, StopBegins(s) \/ StopStep(s) \/ WaitExpires(s)
      PROVE  UNCHANGED <<call, conn, serverEnd>>
  BY <1>7
     DEF StopBegins, StopStep, WaitSleeps, WaitSucceeds, ConsumeByte,
         StopReturns, WaitExpires
<1>8. CASE Destroy
  BY <1>1, <1>8 DEF Destroy
<1> QED
  BY <1>1, <1>2, <1>3, <1>4, <1>5, <1>6, <1>7, <1>8
     DEF Next, ClientStep, CallStep, vars

(* No call of stop is ever stuck: the byte it wrote is there for every call it
   waits for.  Without the assumption the byte may be gone (StopIsSeen is
   refuted by the run overlap). *)
THEOREM LoneStopIsNotStuck ==
  ASSUME ~StopsOverlap
  PROVE  Spec => []StopNeverStuck
<1>1. IInv /\ WriteIsReady => StopNeverStuck
  <2> SUFFICES ASSUME IInv, WriteIsReady,
                      NEW s \in Stops, stop[s] = "wait", ~Awake(s)
               PROVE  Counted # {} /\ \A c \in Counted : CallCanStep(c)
    BY DEF StopNeverStuck, Stopping, StopCanStep
  <2>1. PipeReadable
    BY DEF IInv, OneStop
  <2>2. Counted # {}
    BY CountedFinite DEF Awake, IInv, NoLostWakeup, CountExact
  <2>3. ASSUME NEW c \in Counted
        PROVE  CallCanStep(c)
    BY <2>1 DEF Counted, CountedPlaces, CallCanStep, WriteIsReady
  <2> QED
    BY <2>2, <2>3
<1>2. Init => WriteIsReady
  BY DEF Init, WriteIsReady
<1>3. IInv /\ WriteIsReady /\ [Next]_vars => WriteIsReady'
  BY WriteIsReadyStep DEF IInv
<1> QED
  BY <1>1, <1>2, <1>3, InductiveInvariant, PTL DEF Spec

-----------------------------------------------------------------------------
(* The calls of sendDelayToServer run out of steps.                         *)

(* What CallDistance is at each place of a call. *)
LEMMA CallDistances ==
  ASSUME NEW c \in Calls
  PROVE  /\ call[c] = "returned" => CallDistance(c) = 0
         /\ call[c] = "close" => CallDistance(c) = 1
         /\ call[c] = "read" => CallDistance(c) = 2
         /\ call[c] = "answer" => CallDistance(c) = 3
         /\ call[c] = "write" => CallDistance(c) = 4
         /\ call[c] = "connecting" => CallDistance(c) = 5
         /\ call[c] = "count" => CallDistance(c) = 6
         /\ call[c] = "check" => CallDistance(c) = 7
         /\ call[c] = "connect" => CallDistance(c) = 8
         /\ call[c] = "none" => CallDistance(c) = 9
BY DEF CallDistance

(* And after the step. *)
LEMMA CallDistancesNext ==
  ASSUME NEW c \in Calls
  PROVE  /\ call'[c] = "returned" => CallDistance(c)' = 0
         /\ call'[c] = "close" => CallDistance(c)' = 1
         /\ call'[c] = "read" => CallDistance(c)' = 2
         /\ call'[c] = "answer" => CallDistance(c)' = 3
         /\ call'[c] = "write" => CallDistance(c)' = 4
         /\ call'[c] = "connecting" => CallDistance(c)' = 5
         /\ call'[c] = "count" => CallDistance(c)' = 6
         /\ call'[c] = "check" => CallDistance(c)' = 7
         /\ call'[c] = "connect" => CallDistance(c)' = 8
BY DEF CallDistance

(* A call that moves on. *)
LEMMA CallFallsToPlace ==
  ASSUME TypeOK, NEW c \in Calls, NEW p \in CallPlaces, Goto(c, p),
         \/ /\ call[c] \in {"connecting", "write", "answer", "read"}
            /\ p = "close"
         \/ call[c] \in {"none", "connect", "check", "close"} /\ p = "returned"
         \/ <<call[c], p>> \in {<<"none", "connect">>, <<"connect", "check">>,
              <<"check", "count">>, <<"count", "connecting">>,
              <<"connecting", "write">>, <<"write", "answer">>,
              <<"answer", "read">>}
  PROVE  CallFalls(c)
<1>1. call'[c] = p
  BY DEF Goto, TypeOK
<1> QED
  BY <1>1, CallDistances, CallDistancesNext DEF CallFalls

(* The other calls stay where they are, and so do their answers. *)
LEMMA CallStaysElsewhere ==
  ASSUME TypeOK, NEW c \in Calls, NEW d \in Calls, c # d,
         \/ call' = call
         \/ \E p \in CallPlaces : Goto(c, p),
         \/ toCall' = toCall
         \/ \E n \in Nat : toCall' = [toCall EXCEPT ![c] = n],
         \/ unanswered' = unanswered
         \/ \E n \in Nat : unanswered' = [unanswered EXCEPT ![c] = n]
  PROVE  CallStays(d)
<1>1. call'[d] = call[d]
  BY DEF Goto, TypeOK
<1>2. toCall'[d] = toCall[d] /\ unanswered'[d] = unanswered[d]
  BY DEF TypeOK
<1> QED
  BY <1>1, <1>2 DEF CallStays, ToRead

(* Every step of a call takes it nearer to its end. *)
LEMMA CallStepFalls ==
  ASSUME TypeOK, NEW c \in Calls,
         Begin(c) \/ CallStep(c) \/ SelectFails(c) \/ SelectExpires(c)
  PROVE  /\ CallFalls(c)
         /\ \A d \in Calls : d # c => CallStays(d)
<1> USE DEF members, network, server, stopping
<1>1. CASE ReadSome(c)
  <2>1. /\ UNCHANGED <<call, unanswered>>
        /\ toCall' = [toCall EXCEPT ![c] = 0] /\ toCall[c] > 0
    BY <1>1, ParametersAssumption DEF ReadSome, TypeOK
  <2>2. CallFalls(c)
    BY <2>1 DEF CallFalls, ToRead, TypeOK
  <2> QED
    BY <2>1, <2>2, CallStaysElsewhere
<1>2. CASE ReadAll(c)
  <2>1. /\ call[c] = "read" /\ Goto(c, "close") /\ unanswered' = unanswered
        /\ toCall' = [toCall EXCEPT ![c] = toCall[c] - MessageSize]
        /\ toCall[c] - MessageSize \in Nat
    BY <1>2, ParametersAssumption DEF ReadAll, TypeOK
  <2>2. CallFalls(c)
    BY <2>1, CallFallsToPlace DEF CallPlaces, ActivePlaces, CountedPlaces
  <2> QED
    BY <2>1, <2>2, CallStaysElsewhere
       DEF CallPlaces, ActivePlaces, CountedPlaces
<1>3. CASE \/ Begin(c) \/ ConnectToServer(c) \/ CheckPipeDescriptors(c)
           \/ Count(c) \/ ConnectSelect(c) \/ WriteMessage(c)
           \/ AnswerSelect(c) \/ ReadNothing(c) \/ CloseAndNotify(c)
           \/ SelectFails(c) \/ SelectExpires(c)
  <2>1. /\ UNCHANGED <<toCall, unanswered>>
        /\ \/ /\ call[c] \in {"connecting", "write", "answer", "read"}
              /\ Goto(c, "close")
           \/ /\ call[c] \in {"none", "connect", "check", "close"}
              /\ Goto(c, "returned")
           \/ call[c] = "none" /\ Goto(c, "connect")
           \/ call[c] = "connect" /\ Goto(c, "check")
           \/ call[c] = "check" /\ Goto(c, "count")
           \/ call[c] = "count" /\ Goto(c, "connecting")
           \/ call[c] = "connecting" /\ Goto(c, "write")
           \/ call[c] = "write" /\ Goto(c, "answer")
           \/ call[c] = "answer" /\ Goto(c, "read")
    BY <1>3
       DEF Begin, ConnectToServer, CheckPipeDescriptors, Count, ConnectSelect,
           SelectOrQuit, WriteMessage, AnswerSelect, ReadNothing,
           CloseAndNotify, SelectFails, SelectExpires
  <2>2. CallFalls(c)
    BY <2>1, CallFallsToPlace DEF CallPlaces, ActivePlaces, CountedPlaces
  <2>3. \E p \in CallPlaces : Goto(c, p)
    BY <2>1 DEF CallPlaces, ActivePlaces, CountedPlaces
  <2> QED
    BY <2>1, <2>2, <2>3, CallStaysElsewhere
<1> QED
  BY <1>1, <1>2, <1>3 DEF CallStep

(* The server hands over what it has, and takes no call back. *)
LEMMA ServerStays ==
  ASSUME TypeOK, NEW c \in Calls, ServerStep(c)
  PROVE  \A d \in Calls : CallStays(d)
<1> USE DEF members, network, server, stopping
<1>1. CASE Answer(c)
  <2>1. PICK n \in 1 .. unanswered[c] :
          /\ unanswered' = [unanswered EXCEPT ![c] = unanswered[c] - n]
          /\ toCall' = [toCall EXCEPT ![c] = toCall[c] + n]
    BY <1>1 DEF Answer
  <2>2. unanswered[c] - n \in Nat /\ toCall[c] + n \in Nat /\ call' = call
    BY <1>1, <2>1 DEF Answer, TypeOK
  <2>3. CallStays(c)
    BY <2>1, <2>2 DEF CallStays, ToRead, TypeOK
  <2> QED
    BY <2>1, <2>2, <2>3, CallStaysElsewhere
<1>2. CASE Establish(c) \/ Refuse(c) \/ ServerCloses(c)
  BY <1>2 DEF Establish, Refuse, ServerCloses, CallStays, ToRead
<1> QED
  BY <1>1, <1>2 DEF ServerStep

(* The calls of stop, the destructor and stuttering leave the calls alone. *)
LEMMA StopsLeaveCalls ==
  ASSUME \/ \E s \in Stops : StopBegins(s) \/ StopStep(s) \/ WaitExpires(s)
         \/ Destroy
         \/ UNCHANGED vars
  PROVE  \A c \in Calls : CallStays(c)
BY DEF StopBegins, StopStep, WaitSleeps, WaitSucceeds, ConsumeByte,
       StopReturns, WaitExpires, Destroy, vars, network, server, CallStays,
       ToRead

(* Each call of sendDelayToServer makes a bounded number of steps. *)
THEOREM CallsEnd == Spec => CallsRunOut
<1>1. TypeOK /\ [Next]_vars =>
        \A c \in Calls :
          /\ CallFalls(c) \/ CallStays(c)
          /\ CallStep(c) \/ SelectFails(c) \/ SelectExpires(c) => CallFalls(c)
  <2> SUFFICES ASSUME TypeOK, [Next]_vars
               PROVE  \A c \in Calls : CallFalls(c) \/ CallStays(c)
    BY CallStepFalls
  <2>1. ASSUME NEW c \in Calls,
               Begin(c) \/ CallStep(c) \/ SelectFails(c) \/ SelectExpires(c)
        PROVE  \A d \in Calls : CallFalls(d) \/ CallStays(d)
    BY <2>1, CallStepFalls
  <2>2. ASSUME NEW c \in Calls, ServerStep(c)
        PROVE  \A d \in Calls : CallFalls(d) \/ CallStays(d)
    BY <2>2, ServerStays
  <2> QED
    BY <2>1, <2>2, StopsLeaveCalls DEF Next, ClientStep
<1> QED
  BY <1>1, TypeCorrect, PTL DEF Spec, CallsRunOut

-----------------------------------------------------------------------------
(* The calls of stop run out of steps.                                      *)

(* A call of stop that moves on, while the others stay where they are. *)
LEMMA StopFalls ==
  ASSUME TypeOK, NEW s \in Stops,
         \/ stop[s] = "none" /\ stop' = [stop EXCEPT ![s] = "wait"]
         \/ stop[s] = "none" /\ stop' = [stop EXCEPT ![s] = "consume"]
         \/ stop[s] = "wait" /\ stop' = [stop EXCEPT ![s] = "consume"]
         \/ stop[s] = "consume" /\ stop' = [stop EXCEPT ![s] = "returned"]
  PROVE  /\ StopDistance(s)' < StopDistance(s)
         /\ \A t \in Stops : StopDistance(t)' <= StopDistance(t)
<1>1. <<stop[s], stop'[s]>> \in
        {<<"none", "wait">>, <<"none", "consume">>, <<"wait", "consume">>,
         <<"consume", "returned">>}
  BY DEF TypeOK
<1>2. /\ StopDistance(s)' < StopDistance(s)
      /\ StopDistance(s)' <= StopDistance(s)
  BY <1>1 DEF StopDistance
<1>3. ASSUME NEW t \in Stops, t # s
      PROVE  StopDistance(t)' <= StopDistance(t)
  <2>1. stop'[t] = stop[t]
    BY <1>3 DEF TypeOK
  <2>2. StopDistance(t)' = StopDistance(t)
    BY <2>1 DEF StopDistance
  <2>3. StopDistance(t) \in Nat
    BY DEF StopDistance, TypeOK, StopPlaces
  <2> QED
    BY <2>2, <2>3
<1> QED
  BY <1>2, <1>3

(* No call of stop moves, none is further away. *)
LEMMA StopsStay ==
  ASSUME TypeOK, stop' = stop
  PROVE  \A s \in Stops : StopDistance(s)' <= StopDistance(s)
<1> TAKE s \in Stops
<1>1. StopDistance(s)' = StopDistance(s)
  BY DEF StopDistance
<1>2. StopDistance(s) \in Nat
  BY DEF StopDistance, TypeOK, StopPlaces
<1> QED
  BY <1>1, <1>2

(* What a step of any thread does to the measure of StopsRunOut. *)
LEMMA StopsMeasure ==
  ASSUME TypeOK, [Next]_vars
  PROVE  /\ \A s \in Stops : StopDistance(s)' <= StopDistance(s)
         /\ MakesWay \/ pipeBytes' < pipeBytes
              \/ (pipeBytes' = pipeBytes /\ quitCV \subseteq quitCV')
<1> USE DEF members, network, server, stopping
<1>1. ASSUME NEW c \in Calls,
             Begin(c) \/ CallStep(c) \/ SelectFails(c) \/ SelectExpires(c)
      PROVE  MakesWay /\ stop' = stop
  BY <1>1, CallStepFalls
     DEF MakesWay, Begin, CallStep, ConnectToServer, CheckPipeDescriptors,
         Count, ConnectSelect, WriteMessage, AnswerSelect, ReadAll, ReadSome,
         ReadNothing, CloseAndNotify, SelectFails, SelectExpires
<1>2. ASSUME NEW c \in Calls, ServerStep(c)
      PROVE  UNCHANGED <<stop, pipeBytes, quitCV>>
  BY <1>2 DEF ServerStep, Establish, Refuse, Answer, ServerCloses
<1>3. ASSUME NEW s \in Stops,
             StopBegins(s) \/ WaitSucceeds(s) \/ WaitExpires(s)
               \/ StopReturns(s)
      PROVE  /\ MakesWay
             /\ \A t \in Stops : StopDistance(t)' <= StopDistance(t)
  <2>1. \/ stop[s] = "none" /\ stop' = [stop EXCEPT ![s] = "wait"]
        \/ stop[s] = "none" /\ stop' = [stop EXCEPT ![s] = "consume"]
        \/ stop[s] = "wait" /\ stop' = [stop EXCEPT ![s] = "consume"]
        \/ stop[s] = "consume" /\ stop' = [stop EXCEPT ![s] = "returned"]
    BY <1>3
       DEF StopBegins, StopMayBegin, WaitSucceeds, WaitExpires, StopReturns
  <2> QED
    BY <2>1, StopFalls DEF MakesWay
<1>4. ASSUME NEW s \in Stops, WaitSleeps(s) \/ ConsumeByte(s)
      PROVE  /\ stop' = stop
             /\ pipeBytes' < pipeBytes
                  \/ (pipeBytes' = pipeBytes /\ quitCV \subseteq quitCV')
  BY <1>4 DEF WaitSleeps, ConsumeByte, TypeOK
<1>5. ASSUME Destroy
      PROVE  /\ stop' = stop
             /\ pipeBytes' < pipeBytes
                  \/ (pipeBytes' = pipeBytes /\ quitCV \subseteq quitCV')
  BY <1>5 DEF Destroy, TypeOK
<1>6. ASSUME UNCHANGED vars
      PROVE  UNCHANGED <<stop, pipeBytes, quitCV>>
  BY <1>6 DEF vars
<1> QED
  BY <1>1, <1>2, <1>3, <1>4, <1>5, <1>6, StopsStay
     DEF Next, ClientStep, StopStep

(* What a step of a call of stop uses up. *)
LEMMA StopStepFalls ==
  ASSUME TypeOK, NEW s \in Stops, StopStep(s)
  PROVE  MakesWay \/ pipeBytes' < pipeBytes \/ quitCV' # quitCV
<1>1. CASE WaitSucceeds(s) \/ StopReturns(s)
  BY <1>1, StopFalls DEF WaitSucceeds, StopReturns, MakesWay
<1>2. CASE WaitSleeps(s)
  BY <1>2 DEF WaitSleeps, Awake
<1>3. CASE ConsumeByte(s)
  BY <1>3 DEF ConsumeByte, TypeOK
<1> QED
  BY <1>1, <1>2, <1>3 DEF StopStep

(* The calls of stop make a bounded number of steps, overlapping or not: with
   LoneStopIsNotStuck, every fair schedule takes a stop to its end. *)
THEOREM StopsEnd == Spec => StopsRunOut
<1>1. TypeOK /\ [Next]_vars =>
        /\ \A s \in Stops : StopDistance(s)' <= StopDistance(s)
        /\ MakesWay \/ pipeBytes' < pipeBytes
             \/ (pipeBytes' = pipeBytes /\ quitCV \subseteq quitCV')
        /\ (\E s \in Stops : StopStep(s)) =>
             MakesWay \/ pipeBytes' < pipeBytes \/ quitCV' # quitCV
  BY StopsMeasure, StopStepFalls
<1> QED
  BY <1>1, TypeCorrect, PTL DEF Spec, StopsRunOut

=============================================================================
