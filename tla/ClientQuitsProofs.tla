------------------------- MODULE ClientQuitsProofs --------------------------
(***************************************************************************)
(* Proof that the client implements the requests to quit, for any number   *)
(* of calls and of stops, overlapping or not.                              *)
(***************************************************************************)
EXTENDS ClientQuits, ClientProofs

RequestsOf == [s \in Stops |-> RequestOf(s)]

(* The variables of the requests, spelled out in terms of the client. *)
LEMMA QuitsVars ==
  ASSUME Counted' = Counted, RequestsOf' = RequestsOf, counted' = counted
  PROVE  UNCHANGED Quits!vars
BY DEF Quits!vars, RequestsOf

LEMMA RequestsKept ==
  ASSUME stop' = stop, expired' = expired
  PROVE  RequestsOf' = RequestsOf
BY DEF RequestsOf, RequestOf, Left

(* A stop moves its own request only. *)
LEMMA OneRequest ==
  ASSUME IInv, NEW s \in Stops, NEW p \in StopPlaces,
         stop' = [stop EXCEPT ![s] = p],
         expired' \in {expired, expired \cup {s}}
  PROVE  RequestsOf' = [RequestsOf EXCEPT ![s] = RequestOf(s)']
<1>1. \A t \in Stops \ {s} : stop[t]' = stop[t]
  BY DEF IInv, TypeOK
<1>2. \A t \in Stops \ {s} : t \in expired' <=> t \in expired
  OBVIOUS
<1>3. \A t \in Stops \ {s} : RequestOf(t)' = RequestOf(t)
  BY <1>1, <1>2 DEF RequestOf, Left
<1> QED
  BY <1>3 DEF RequestsOf

LEMMA QuitsInit == Init => Quits!Init
BY DEF Init, Quits!Init, RequestOf, Left, Counted, CountedPlaces

(* A call enters when it is counted and leaves when it reports its end. *)
LEMMA QuitsCall ==
  ASSUME IInv, NEW c \in Calls,
         Begin(c) \/ CallStep(c) \/ SelectFails(c) \/ SelectExpires(c)
  PROVE  [Quits!Next]_Quits!vars
<1> USE DEF members, stopping, network, server
<1>1. RequestsOf' = RequestsOf /\ counted' = counted
  <2>1. stop' = stop /\ expired' = expired /\ counted' = counted
    BY DEF Begin, CallStep, SelectFails, SelectExpires, ConnectToServer,
       CheckPipeDescriptors, Count, ConnectSelect, WriteMessage, AnswerSelect,
       ReadAll, ReadSome, ReadNothing, CloseAndNotify
  <2> QED
    BY <2>1, RequestsKept
<1>2. CASE Count(c)
  <2>1. Counted' = Counted \cup {c} /\ c \notin Counted
    BY <1>2 DEF Count, Goto, Counted, CountedPlaces, IInv, TypeOK
  <2>2. \A s \in Stops : c \notin counted[s]
    BY <1>2 DEF Count, IInv, CountedOnce, CountedPlaces
  <2>3. Quits!Enter(c)
    BY <1>1, <2>1, <2>2 DEF Quits!Enter, RequestsOf
  <2> QED
    BY <2>3 DEF Quits!Next
<1>3. CASE CloseAndNotify(c)
  <2>1. Counted' = Counted \ {c} /\ c \in Counted
    BY <1>3 DEF CloseAndNotify, Goto, Counted, CountedPlaces, IInv, TypeOK
  <2>2. Quits!Leave(c)
    BY <1>1, <2>1 DEF Quits!Leave, RequestsOf
  <2> QED
    BY <2>2 DEF Quits!Next
<1>4. CASE \/ Begin(c) \/ ConnectToServer(c) \/ CheckPipeDescriptors(c)
  <2>1. /\ call[c] \notin CountedPlaces
        /\ \E p \in CallPlaces \ CountedPlaces : Goto(c, p)
    BY <1>4 DEF Begin, ConnectToServer, CheckPipeDescriptors, CallPlaces,
       ActivePlaces, CountedPlaces
  <2>2. Counted' = Counted
    BY <2>1 DEF Counted, Goto, IInv, TypeOK
  <2> QED
    BY <1>1, <2>2, QuitsVars
<1>5. CASE \/ ConnectSelect(c) \/ WriteMessage(c) \/ AnswerSelect(c)
           \/ ReadAll(c) \/ ReadSome(c) \/ ReadNothing(c)
           \/ SelectFails(c) \/ SelectExpires(c)
  <2>1. \/ call' = call
        \/ call[c] \in CountedPlaces /\ \E p \in CountedPlaces : Goto(c, p)
    BY <1>5 DEF ConnectSelect, WriteMessage, AnswerSelect, SelectOrQuit,
       ReadAll, ReadSome, ReadNothing, SelectFails, SelectExpires,
       CountedPlaces
  <2>2. Counted' = Counted
    BY <2>1 DEF Counted, Goto, IInv, TypeOK
  <2> QED
    BY <1>1, <2>2, QuitsVars
<1> QED
  BY <1>2, <1>3, <1>4, <1>5 DEF CallStep

(* Nothing is recorded of a stop before it begins. *)
Untouched ==
  \A s \in Stops : stop[s] = "none" => s \notin expired /\ counted[s] = {}

LEMMA UntouchedInit == Init => Untouched
BY DEF Init, Untouched

LEMMA UntouchedStep == IInv /\ Untouched /\ [Next]_vars => Untouched'
<1> SUFFICES ASSUME IInv, Untouched, [Next]_vars PROVE Untouched'
  OBVIOUS
<1> USE DEF members, stopping, network, server, Untouched
<1>1. ASSUME NEW s \in Stops, StopBegins(s) \/ StopStep(s) \/ WaitExpires(s)
      PROVE  Untouched'
  <2>1. /\ \/ stop' = stop /\ expired' = expired /\ counted' = counted
           \/ \E p \in StopPlaces \ {"none"} : stop' = [stop EXCEPT ![s] = p]
        /\ expired' \in {expired, expired \cup {s}}
        /\ \/ counted' = counted
           \/ counted' = [counted EXCEPT ![s] = Counted]
    BY <1>1 DEF StopBegins, StopStep, WaitSleeps, WaitSucceeds, ConsumeByte,
       StopReturns, WaitExpires, StopPlaces
  <2> QED
    BY <2>1 DEF IInv, TypeOK
<1>2. ASSUME UNCHANGED <<stop, expired, counted>> PROVE Untouched'
  BY <1>2
<1>3. ASSUME \/ \E c \in Calls : \/ Begin(c) \/ CallStep(c) \/ SelectFails(c)
                                \/ SelectExpires(c) \/ ServerStep(c)
             \/ Destroy \/ UNCHANGED vars
      PROVE  UNCHANGED <<stop, expired, counted>>
  BY <1>3
     DEF Begin, CallStep, SelectFails, SelectExpires, ConnectToServer,
         CheckPipeDescriptors, Count, ConnectSelect, WriteMessage,
         AnswerSelect, ReadAll, ReadSome, ReadNothing, CloseAndNotify,
         ServerStep, Establish, Refuse, Answer, ServerCloses, Destroy, vars
<1> QED
  BY <1>1, <1>2, <1>3 DEF Next, ClientStep

(* A stop asks when it begins, and keeps its request, or gives it up, when it
   leaves its wait.  Numbers decide: the counter is exact, so that it is zero
   only when nobody is inside. *)
LEMMA QuitsStop ==
  ASSUME IInv, Untouched, NEW s \in Stops,
         StopBegins(s) \/ StopStep(s) \/ WaitExpires(s)
  PROVE  [Quits!Next]_Quits!vars
<1> USE DEF members, stopping, network, server
<1>1. Counted' = Counted
  BY DEF StopBegins, StopStep, WaitSleeps, WaitSucceeds, ConsumeByte,
     StopReturns, WaitExpires, Counted
<1>2. NoConnections => Counted = {}
  BY CountedFinite DEF NoConnections, IInv, CountExact
<1>3. counted \in [Stops -> SUBSET Calls] /\ Counted \subseteq Calls
  BY DEF IInv, TypeOK, Counted
<1>5. CASE StopBegins(s)
  <2>1. /\ stop[s] = "none" /\ expired' = expired
        /\ counted' = [counted EXCEPT ![s] = Counted]
    BY <1>5 DEF StopBegins, StopMayBegin
  <2>4. RequestOf(s) = "none"
    BY <2>1 DEF RequestOf, Left
  <2>2. CASE NoConnections
    <3>1. stop' = [stop EXCEPT ![s] = "consume"]
      BY <1>5, <2>2 DEF StopBegins
    <3>2. RequestsOf' = [RequestsOf EXCEPT ![s] = "kept"]
      <4>1. RequestOf(s)' = "kept"
        BY <2>1, <3>1 DEF RequestOf, Left, Untouched, IInv, TypeOK
      <4> QED
        BY <2>1, <3>1, <4>1, OneRequest DEF StopPlaces
    <3>3. counted' = counted
      BY <1>2, <1>3, <2>1, <2>2 DEF Untouched
    <3>4. Quits!AskNobody(s)
      BY <1>1, <1>2, <2>2, <2>4, <3>2, <3>3 DEF Quits!AskNobody, RequestsOf
    <3> QED
      BY <3>4 DEF Quits!Next
  <2>3. CASE ~NoConnections
    <3>1. stop' = [stop EXCEPT ![s] = "wait"]
      BY <1>5, <2>3 DEF StopBegins
    <3>2. RequestsOf' = [RequestsOf EXCEPT ![s] = "waiting"]
      <4>1. RequestOf(s)' = "waiting"
        BY <3>1 DEF RequestOf, Left, IInv, TypeOK
      <4> QED
        BY <2>1, <3>1, <4>1, OneRequest DEF StopPlaces
    <3>3. Quits!Ask(s)
      BY <1>1, <2>1, <2>4, <3>2 DEF Quits!Ask, RequestsOf
    <3> QED
      BY <3>3 DEF Quits!Next
  <2> QED
    BY <2>2, <2>3
<1>6. CASE WaitSucceeds(s)
  <2>1. /\ stop[s] = "wait" /\ stop' = [stop EXCEPT ![s] = "consume"]
        /\ NoConnections /\ expired' = expired /\ counted' = counted
    BY <1>6 DEF WaitSucceeds
  <2>2. RequestOf(s) = "waiting" /\ RequestOf(s)' \in {"kept", "givenUp"}
    BY <2>1 DEF RequestOf, Left, IInv, TypeOK
  <2>3. RequestsOf' = [RequestsOf EXCEPT ![s] = RequestOf(s)']
    BY <2>1, OneRequest DEF StopPlaces
  <2>4. counted[s] \cap Counted = {}
    BY <1>2, <2>1
  <2>5. Quits!Keep(s) \/ Quits!GiveUp(s)
    BY <1>1, <2>1, <2>2, <2>3, <2>4
       DEF Quits!Keep, Quits!GiveUp, RequestsOf
  <2> QED
    BY <2>5 DEF Quits!Next
<1>7. CASE WaitExpires(s)
  <2>1. /\ stop[s] = "wait" /\ stop' = [stop EXCEPT ![s] = "consume"]
        /\ expired' = expired \cup {s} /\ counted' = counted
    BY <1>7 DEF WaitExpires
  <2>2. RequestOf(s) = "waiting" /\ RequestOf(s)' = "givenUp"
    BY <2>1 DEF RequestOf, Left, IInv, TypeOK
  <2>3. RequestsOf' = [RequestsOf EXCEPT ![s] = "givenUp"]
    BY <2>1, <2>2, OneRequest DEF StopPlaces
  <2>4. Quits!GiveUp(s)
    BY <1>1, <2>1, <2>2, <2>3 DEF Quits!GiveUp, RequestsOf
  <2> QED
    BY <2>4 DEF Quits!Next
<1>8. CASE WaitSleeps(s) \/ ConsumeByte(s)
  BY <1>1, <1>8, RequestsKept, QuitsVars DEF WaitSleeps, ConsumeByte
<1>9. CASE StopReturns(s)
  <2>1. /\ stop[s] = "consume" /\ stop' = [stop EXCEPT ![s] = "returned"]
        /\ expired' = expired /\ counted' = counted
    BY <1>9 DEF StopReturns
  <2>2. RequestOf(s)' = RequestOf(s)
    BY <2>1 DEF RequestOf, Left, IInv, TypeOK
  <2>3. RequestsOf' = RequestsOf
    BY <2>1, <2>2, OneRequest DEF StopPlaces, RequestsOf
  <2> QED
    BY <1>1, <2>1, <2>3, QuitsVars
<1> QED
  BY <1>5, <1>6, <1>7, <1>8, <1>9 DEF StopStep

(* Every step of the client is a step of the requests, or none. *)
LEMMA QuitsStep ==
  IInv /\ Untouched /\ [Next]_vars => [Quits!Next]_Quits!vars
<1> SUFFICES ASSUME IInv, Untouched, [Next]_vars
             PROVE  [Quits!Next]_Quits!vars
  OBVIOUS
<1> USE DEF members, stopping, network, server
<1>1. ASSUME \/ \E c \in Calls : ServerStep(c)
             \/ Destroy
             \/ UNCHANGED vars
      PROVE  UNCHANGED Quits!vars
  <2>1. UNCHANGED <<call, stop, counted, expired>>
    BY <1>1 DEF ServerStep, Establish, Refuse, Answer, ServerCloses, Destroy,
       vars
  <2> QED
    BY <2>1, RequestsKept, QuitsVars DEF Counted
<1> QED
  BY <1>1, QuitsCall, QuitsStop DEF Next, ClientStep

(* The client implements the requests to quit: a stop returns in time only
   after every call it found counted has closed its socket, whatever the
   server, the other calls and the other stops do. *)
THEOREM ClientImplementsQuits == Spec => ImplementsQuits
<1>1. Spec => []IInv
  BY InductiveInvariant
<1>2. Spec => []Untouched
  BY <1>1, UntouchedInit, UntouchedStep, PTL DEF Spec
<1> QED
  BY <1>1, <1>2, QuitsInit, QuitsStep, PTL
     DEF Spec, ImplementsQuits, Quits!Spec

=============================================================================
