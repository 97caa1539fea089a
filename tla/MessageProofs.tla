--------------------------- MODULE MessageProofs ----------------------------
(***************************************************************************)
(* The safety properties of Message, for messages and send buffers of any  *)
(* size.  They are inductive together: that nothing is lost makes a read   *)
(* of BUFFER_SIZE units at once a read of the whole message, and that in   *)
(* turn makes the count of what was read right when the reader is done.    *)
(***************************************************************************)
EXTENDS Message, TLAPS

IInv == TypeOK /\ Conserved /\ AcceptedIsWhole

(* Nothing has been written yet. *)
LEMMA InvInit == Init => IInv
BY SizesAssumption
DEF Init, IInv, TypeOK, Conserved, Consumed, AcceptedIsWhole

(* The writer only moves units from one place to the next. *)
LEMMA InvWriter == IInv /\ (WriterStep \/ Deliver) => IInv'
<1> SUFFICES ASSUME IInv, WriterStep \/ Deliver PROVE IInv'
  OBVIOUS
<1> USE SizesAssumption
    DEF IInv, TypeOK, Conserved, Consumed, AcceptedIsWhole
<1>1. CASE Write
  BY <1>1 DEF Write
<1>2. CASE WriteFails
  BY <1>2 DEF WriteFails
<1>3. CASE WriterCloses
  BY <1>3 DEF WriterCloses
<1>4. CASE Deliver
  BY <1>4 DEF Deliver
<1> QED BY <1>1, <1>2, <1>3, <1>4 DEF WriterStep

(* The reader takes what has arrived; a read that fills the buffer at once
   leaves nothing anywhere else. *)
LEMMA InvReader == IInv /\ ReaderStep => IInv'
<1> SUFFICES ASSUME IInv, ReaderStep PROVE IInv'
  OBVIOUS
<1> USE SizesAssumption
    DEF IInv, TypeOK, Conserved, Consumed, AcceptedIsWhole
<1>1. CASE SelectReadable
  BY <1>1 DEF SelectReadable
<1>2. CASE ReadAll
  <2>1. remaining = 0 /\ buffered = 0 /\ position = 0 /\ arrived = MessageSize
    BY <1>2 DEF ReadAll, FullRead
  <2> QED BY <1>2, <2>1 DEF ReadAll
<1>3. CASE ReadSome
  BY <1>3 DEF ReadSome, AdvancePosition
<1>4. CASE ReadNothing
  BY <1>4 DEF ReadNothing, StopReading
<1> QED BY <1>1, <1>2, <1>3, <1>4 DEF ReaderStep

(* No step breaks the invariant. *)
LEMMA InvStep == IInv /\ [Next]_vars => IInv'
<1>1. ASSUME IInv, UNCHANGED vars PROVE IInv'
  BY <1>1 DEF vars, IInv, TypeOK, Conserved, Consumed, AcceptedIsWhole
<1> QED BY <1>1, InvWriter, InvReader DEF Next

(* The three properties hold throughout every exchange. *)
THEOREM InductiveInvariant == Spec => []IInv
BY InvInit, InvStep, PTL DEF Spec

(* The types are right; in particular no count goes below zero. *)
THEOREM TypeCorrect == Spec => []TypeOK
<1>1. IInv => TypeOK
  BY DEF IInv
<1> QED BY <1>1, InductiveInvariant, PTL

(* Nothing is lost or read twice, and the buffer is never overrun. *)
THEOREM NothingIsLost == Spec => []Conserved
<1>1. IInv => Conserved
  BY DEF IInv
<1> QED BY <1>1, InductiveInvariant, PTL

(* readMessage accepts only a message that was written as a whole. *)
THEOREM AcceptedMessageIsWhole == Spec => []AcceptedIsWhole
<1>1. IInv => AcceptedIsWhole
  BY DEF IInv
<1> QED BY <1>1, InductiveInvariant, PTL

(* Every step uses up some of what the exchange has left to do. *)
LEMMA StepFalls ==
  ASSUME TypeOK, TypeOK', Next
  PROVE  StepsLeft' \in 0 .. StepsLeft - 1
<1> USE SizesAssumption
    DEF TypeOK, StepsLeft, WriterDistance, ReaderDistance
<1>1. CASE Write
  <2>1. PICK n \in 1 .. remaining :
          /\ remaining' = remaining - n /\ buffered' = buffered + n
          /\ writer = "writing"
          /\ writer' \in {"done", "writing"}
          /\ UNCHANGED <<arrived, reader, position>>
    BY <1>1 DEF Write
  <2> QED
    BY <2>1
<1>2. CASE WriteFails
  BY <1>2 DEF WriteFails
<1>3. CASE WriterCloses
  BY <1>3 DEF WriterCloses
<1>4. CASE Deliver
  BY <1>4 DEF Deliver
<1>5. CASE SelectReadable
  BY <1>5 DEF SelectReadable
<1>6. CASE ReadAll
  BY <1>6 DEF ReadAll, FullRead
<1>7. CASE ReadSome
  BY <1>7 DEF ReadSome, AdvancePosition
<1>8. CASE ReadNothing
  BY <1>8 DEF ReadNothing, StopReading
<1> QED
  BY <1>1, <1>2, <1>3, <1>4, <1>5, <1>6, <1>7, <1>8
     DEF Next, WriterStep, ReaderStep

(* A message of any size, through a send buffer of any size and in pieces of
   any size, takes a bounded number of steps. *)
THEOREM MessagesEnd == Spec => StepsRunOut
<1>1. TypeOK /\ TypeOK' /\ [Next]_vars
        => [StepsLeft' \in 0 .. StepsLeft - 1]_vars
  BY StepFalls
<1> QED BY <1>1, TypeCorrect, PTL DEF Spec, StepsRunOut

=============================================================================
