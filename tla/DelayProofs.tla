---------------------------- MODULE DelayProofs -----------------------------
(***************************************************************************)
(* The properties of Delay, for ints of any width, any unit and any set of *)
(* delays.                                                                 *)
(***************************************************************************)
EXTENDS Delay, TLAPS

(* Wrap leaves an int. *)
LEMMA WrapIsInt ==
  ASSUME NEW n \in Int
  PROVE  Wrap(n) \in Int /\ IsInt(Wrap(n))
<1> DEFINE m == n + MaxInt + 1
           w == 2 * (MaxInt + 1)
<1>1. m \in Int /\ w \in Nat \ {0}
  BY WidthAssumption
<1> HIDE DEF m, w
<1>2. m % w \in 0 .. (w - 1)
  BY <1>1
<1> QED BY <1>2, WidthAssumption DEF Wrap, IsInt, m, w

(* Wrap leaves an int alone. *)
LEMMA WrapOfInt ==
  ASSUME NEW n \in Int, IsInt(n)
  PROVE  Wrap(n) = n
<1> DEFINE m == n + MaxInt + 1
           w == 2 * (MaxInt + 1)
<1>1. m \in Nat /\ w \in Nat \ {0} /\ m < w
  BY WidthAssumption DEF IsInt
<1> HIDE DEF m, w
<1>2. m % w = m
  BY <1>1
<1> QED BY <1>2, WidthAssumption DEF Wrap, IsInt, m, w

(* A delay whose microseconds are an int is one. *)
LEMMA FittingIsInt ==
  ASSUME NEW n \in Int, Fits(n)
  PROVE  IsInt(n) /\ n * Factor \in Nat /\ IsInt(n * Factor)
<1>1. n \in Nat /\ n * Factor <= MaxInt
  BY DEF Fits
<1>2. n <= n * Factor
  <2>1. n * Factor = n + n * (Factor - 1)
    BY FactorAssumption, <1>1
  <2>2. n * (Factor - 1) \in Nat
    BY FactorAssumption, <1>1
  <2> QED BY <2>1, <2>2, <1>1
<1>3. n * Factor \in Nat
  BY FactorAssumption, <1>1
<1> QED BY <1>1, <1>2, <1>3, WidthAssumption DEF IsInt

-----------------------------------------------------------------------------
(* The invariant, one part for each stage of the journey.                   *)

OnItsWay == place = "sent" => text = ask

AtServer ==
  place \in {"parsed", "select", "awake"} => sleepingTime = Wrap(ask)

Slept ==
  Fits(ask) => /\ place # "refused"
               /\ place \in {"select", "awake", "written", "answered"}
                    => usec = ask * Factor

OnItsWayBack ==
  place = "written" => text = Wrap(Wrap(ask) + 1) /\ IsInt(text)

Returned == place = "answered" => result = Wrap(Wrap(ask) + 1)

IInv ==
  TypeOK /\ OnItsWay /\ AtServer /\ Slept /\ OnItsWayBack /\ Returned

(* The microseconds computed for an int are a number, and the exact one if
   it is an int. *)
LEMMA MicrosecondsExact ==
  ASSUME NEW n \in Int, NEW u \in Microseconds(n)
  PROVE  u \in Int /\ (Fits(n) => u = n * Factor)
<1>1. n * Factor \in Int
  BY FactorAssumption
<1>2. Wrap(n * Factor) \in Int
  BY <1>1, WrapIsInt
<1>3. ASSUME Fits(n) PROVE Wrap(n * Factor) = n * Factor
  BY <1>1, <1>3, FittingIsInt, WrapOfInt
<1> QED BY <1>1, <1>2, <1>3 DEF Microseconds

(* The delay has not been touched when the call begins. *)
LEMMA InvInit == Init => IInv
<1> SUFFICES ASSUME Init PROVE IInv
  OBVIOUS
<1>1. TypeOK
  BY DelaysAssumption, WidthAssumption DEF Init, TypeOK, Places, IsInt
<1> QED
  BY <1>1 DEF Init, IInv, OnItsWay, AtServer, Slept, OnItsWayBack, Returned

(* No step of the journey breaks it. *)
LEMMA InvStep == IInv /\ [Next]_vars => IInv'
<1> SUFFICES ASSUME IInv, [Next]_vars PROVE IInv'
  OBVIOUS
<1> USE DEF IInv, OnItsWay, AtServer, Slept, OnItsWayBack, Returned
<1>0. ask \in Int /\ MaxInt \in Nat
  BY DelaysAssumption, WidthAssumption DEF TypeOK
<1>1. CASE ClientSends
  BY <1>0, <1>1 DEF ClientSends, TypeOK, Places
<1>2. CASE ServerParses
  <2>1. sleepingTime' = Wrap(ask)
    BY <1>2 DEF ServerParses
  <2>2. Wrap(ask) \in Int /\ IsInt(Wrap(ask))
    BY <1>0, WrapIsInt
  <2>3. TypeOK'
    BY <1>2, <2>1, <2>2 DEF ServerParses, TypeOK, Places
  <2> QED BY <1>2, <2>1, <2>3 DEF ServerParses
<1>3. CASE ServerSelects
  <2>1. usec' \in Int /\ (Fits(sleepingTime) => usec' = sleepingTime * Factor)
    BY <1>3, MicrosecondsExact DEF ServerSelects, TypeOK
  <2>2. Fits(ask) => sleepingTime = ask
    BY <1>0, <1>3, FittingIsInt, WrapOfInt DEF ServerSelects
  <2>3. Fits(ask) => usec' = ask * Factor
    BY <2>1, <2>2
  <2>4. TypeOK'
    BY <1>3, <2>1 DEF ServerSelects, TypeOK, Places
  <2> QED BY <1>3, <2>3, <2>4 DEF ServerSelects
<1>4. CASE SelectRefuses
  <2>1. ~Fits(ask)
    BY <1>0, <1>4, FittingIsInt DEF SelectRefuses
  <2> QED BY <1>4, <2>1 DEF SelectRefuses, TypeOK, Places
<1>5. CASE SelectInterrupted
  BY <1>5 DEF SelectInterrupted, TypeOK, Places
<1>6. CASE SelectExpires
  BY <1>6 DEF SelectExpires, TypeOK, Places
<1>7. CASE ServerAnswers
  <2>1. sleepingTime' = Wrap(Wrap(ask) + 1) /\ text' = sleepingTime'
    BY <1>7 DEF ServerAnswers, Increment
  <2>2. Wrap(ask) + 1 \in Int
    BY <1>0, WrapIsInt
  <2>3. Wrap(Wrap(ask) + 1) \in Int /\ IsInt(Wrap(Wrap(ask) + 1))
    BY <2>2, WrapIsInt
  <2>4. TypeOK'
    BY <1>7, <2>1, <2>3 DEF ServerAnswers, TypeOK, Places
  <2> QED BY <1>7, <2>1, <2>3, <2>4 DEF ServerAnswers
<1>8. CASE ClientParses
  <2>1. result' = text /\ result' \in Int /\ IsInt(result')
    BY <1>8, WrapOfInt DEF ClientParses, TypeOK
  <2>2. TypeOK'
    BY <1>8, <2>1 DEF ClientParses, TypeOK, Places
  <2> QED BY <1>8, <2>1, <2>2 DEF ClientParses
<1>9. CASE UNCHANGED vars
  BY <1>9 DEF vars, TypeOK
<1> QED
  BY <1>1, <1>2, <1>3, <1>4, <1>5, <1>6, <1>7, <1>8, <1>9 DEF Next

-----------------------------------------------------------------------------
(* The invariant holds throughout every call. *)
THEOREM InductiveInvariant == Spec => []IInv
BY InvInit, InvStep, PTL DEF Spec

(* What the code keeps in an int always is one. *)
THEOREM TypeCorrect == Spec => []TypeOK
<1>1. IInv => TypeOK
  BY DEF IInv
<1> QED BY <1>1, InductiveInvariant, PTL

(* A delay whose microseconds fit into an int is slept exactly, and is never
   refused by select. *)
THEOREM FittingDelays == Spec => []FittingDelaysAreSlept
<1>1. IInv => FittingDelaysAreSlept
  BY DEF IInv, Slept, FittingDelaysAreSlept
<1> QED BY <1>1, InductiveInvariant, PTL

(* An answer to any int but the largest is the delay increased by one, even
   when the time slept was the wrong one. *)
THEOREM AnswersIncrement == Spec => []AnswerIsIncrement
<1>1. ASSUME IInv, place = "answered", IsInt(ask), ask # MaxInt
      PROVE  result = ask + 1
  <2>1. ask \in Int /\ MaxInt \in Nat
    BY <1>1, DelaysAssumption, WidthAssumption DEF IInv, TypeOK
  <2>2. Wrap(ask) = ask
    BY <1>1, <2>1, WrapOfInt
  <2>3. ask + 1 \in Int /\ IsInt(ask + 1)
    BY <1>1, <2>1 DEF IsInt
  <2>4. Wrap(ask + 1) = ask + 1
    BY <2>3, WrapOfInt
  <2> QED BY <1>1, <2>2, <2>4 DEF IInv, Returned
<1>2. IInv => AnswerIsIncrement
  BY <1>1 DEF AnswerIsIncrement
<1> QED BY <1>2, InductiveInvariant, PTL

=============================================================================
