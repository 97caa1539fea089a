------------------------------ MODULE Message ------------------------------
(***************************************************************************)
(* One message between the two ends of a connection: Common::writeMessage  *)
(* at one of them and Common::readMessage at the other, over non-blocking  *)
(* sockets.  Client and server exchange exactly one message in each        *)
(* direction, and each side calls readMessage once select has found its    *)
(* socket readable.                                                        *)
(*                                                                         *)
(* AnyBytes, LosePosition, SelectAgain and RetryRead are no part of the     *)
(* model: they are wrong versions of the definition that follows each of   *)
(* them, which the properties below are known to detect.                   *)
(***************************************************************************)
EXTENDS Integers

CONSTANTS
  MessageSize,  \* BUFFER_SIZE, in units the network may deliver separately
  Room          \* what the send buffer of a socket holds

ASSUME SizesAssumption == MessageSize \in Nat \ {0} /\ Room \in Nat

VARIABLES
  writer,       \* "writing", "done" (returned true), "failed", "closed"
  remaining,    \* remainingBytesToSend
  buffered,     \* units in the writer's send buffer and on their way
  arrived,      \* units in the reader's receive buffer
  reader,       \* "waiting" for select, "reading", "done", "failed"
  position      \* bufferPosition: units readMessage has read so far

vars == <<writer, remaining, buffered, arrived, reader, position>>

-----------------------------------------------------------------------------
(* writeMessage, and the close that follows it.                             *)

(* write takes what fits into the send buffer; the loop writes the rest. *)
Write ==
  /\ writer = "writing"
  /\ \E n \in 1 .. remaining :
       /\ n <= Room - buffered
       /\ remaining' = remaining - n
       /\ buffered' = buffered + n
       /\ writer' = IF n = remaining THEN "done" ELSE "writing"
  /\ UNCHANGED <<arrived, reader, position>>

(* The send buffer is full (EAGAIN), or the reader closed: writeMessage gives
   up, and what it wrote stays written. *)
WriteFails ==
  /\ writer = "writing"
  /\ buffered = Room \/ reader \in {"done", "failed"}
  /\ writer' = "failed"
  /\ UNCHANGED <<remaining, buffered, arrived, reader, position>>

WriterCloses ==
  /\ writer \in {"done", "failed"}
  /\ writer' = "closed"
  /\ UNCHANGED <<remaining, buffered, arrived, reader, position>>

(* TCP delivers in order, and in pieces of any size. *)
Deliver ==
  /\ \E n \in 1 .. buffered :
       /\ buffered' = buffered - n
       /\ arrived' = arrived + n
  /\ UNCHANGED <<writer, remaining, reader, position>>

-----------------------------------------------------------------------------
(* select, and then readMessage.                                            *)

EndOfFile == writer = "closed" /\ buffered = 0

SelectReadable ==
  /\ reader = "waiting"
  /\ arrived > 0 \/ EndOfFile
  /\ reader' = "reading"
  /\ UNCHANGED <<writer, remaining, buffered, arrived, position>>

(* bytes == BUFFER_SIZE *)
AnyBytes == arrived > 0
FullRead == arrived >= MessageSize

ReadAll ==
  /\ reader = "reading"
  /\ FullRead
  /\ arrived' = arrived - MessageSize
  /\ reader' = "done"
  /\ UNCHANGED <<writer, remaining, buffered, position>>

(* 0 < bytes < BUFFER_SIZE: the loop goes on, and asks for BUFFER_SIZE again,
   not for what is missing. *)
LosePosition == UNCHANGED position
AdvancePosition == position' = position + arrived

ReadSome ==
  /\ reader = "reading"
  /\ arrived \in 1 .. MessageSize - 1
  /\ arrived' = 0
  /\ AdvancePosition
  /\ UNCHANGED <<writer, remaining, buffered, reader>>

(* bytes == 0 or EAGAIN *)
SelectAgain == reader' = "waiting"
RetryRead == UNCHANGED reader
StopReading == reader' = "failed"

ReadNothing ==
  /\ reader = "reading"
  /\ arrived = 0
  /\ StopReading
  /\ UNCHANGED <<writer, remaining, buffered, arrived, position>>

-----------------------------------------------------------------------------
Init ==
  /\ writer = "writing"
  /\ remaining = MessageSize
  /\ buffered = 0
  /\ arrived = 0
  /\ reader = "waiting"
  /\ position = 0

ReaderStep == SelectReadable \/ ReadAll \/ ReadSome \/ ReadNothing

WriterStep == Write \/ WriteFails \/ WriterCloses

Next == WriterStep \/ Deliver \/ ReaderStep

Spec == Init /\ [][Next]_vars

(* Both ends run, the writer's end is closed in the end (closeClientAndNotify,
   closeAndNotify), and the network delivers. *)
FairSpec == Spec /\ WF_vars(WriterStep) /\ WF_vars(Deliver) /\ WF_vars(ReaderStep)

-----------------------------------------------------------------------------
(* Properties.                                                              *)

(* Every variable stays in its range. *)
TypeOK ==
  /\ writer \in {"writing", "done", "failed", "closed"}
  /\ reader \in {"waiting", "reading", "done", "failed"}
  /\ remaining \in Nat /\ buffered \in Nat /\ arrived \in Nat
  /\ position \in Nat

(* What readMessage has read. *)
Consumed == IF reader = "done" THEN position + MessageSize ELSE position

(* No unit is lost and none is read twice.  In particular bufferPosition and
   what may still arrive never exceed BUFFER_SIZE together: although each read
   asks for BUFFER_SIZE at bufferPosition, a message never overruns the
   buffer. *)
Conserved == remaining + buffered + arrived + Consumed = MessageSize

(* readMessage returns true only for a message that was written as a whole:
   what writeMessage leaves behind when it fails half way is never taken for
   a message. *)
AcceptedIsWhole == reader = "done" => remaining = 0 /\ position = 0

(* common.h:50 says that readMessage reads a message of size BUFFER_SIZE.
   The code breaks it: when a message arrives in pieces, readMessage reads
   all of it and returns false. *)
WholeMessageIsAccepted == reader = "failed" => position < MessageSize

(* What an exchange has left to do at most: a unit is written, delivered and
   read, and each end has a way to go. *)
WriterDistance ==
  [writing |-> 2, done |-> 1, failed |-> 1, closed |-> 0][writer]

ReaderDistance ==
  [waiting |-> 2, reading |-> 1, done |-> 0, failed |-> 0][reader]

StepsLeft ==
  3 * remaining + 2 * buffered + arrived + WriterDistance + ReaderDistance

(* A message takes a bounded number of steps, 3 * BUFFER_SIZE + 4 at most,
   however it is cut into pieces and whichever end fails: neither the loop of
   writeMessage nor that of readMessage turns without using something up. *)
StepsRunOut == [][StepsLeft' \in 0 .. StepsLeft - 1]_vars

(* readMessage ends: it never waits for the rest of a message. *)
ReaderEnds == reader = "waiting" ~> reader \in {"done", "failed"}

=============================================================================
