------------------------------- MODULE Delay --------------------------------
(***************************************************************************)
(* The delay of one call of sendDelayToServer, from the milliseconds the   *)
(* client asks for to the number it gets back: the text of a 64-bit count, *)
(* atoi, an int times 1000, the timeval of select, the increment, and the  *)
(* way back.  Everything else about the connection is in Server, Client    *)
(* and Message.                                                            *)
(*                                                                         *)
(* WrongUnit and IncrementLate are no part of the model: they are wrong    *)
(* versions of the definition that follows each of them, which the         *)
(* properties are known to detect.                                         *)
(***************************************************************************)
EXTENDS Integers

CONSTANTS
  Delays,   \* the delays a client may ask for: any count of milliseconds
  MaxInt,   \* the largest int
  Factor    \* 1000, microseconds in a millisecond

ASSUME DelaysAssumption == Delays \subseteq Int
ASSUME WidthAssumption == MaxInt \in Nat
ASSUME FactorAssumption == Factor \in Nat \ {0}

VARIABLES
  ask,           \* serverDelay when the call begins
  place,         \* where the delay has got to
  text,          \* the number written in the message on its way
  sleepingTime,  \* the local variable of Server::sleep
  usec,          \* timeOutSelect.tv_usec
  result         \* serverDelay when the call has returned true

vars == <<ask, place, text, sleepingTime, usec, result>>

Places == {"asked", "sent", "parsed", "select", "awake", "written",
           "answered", "refused", "interrupted"}

IsInt(n) == -(MaxInt + 1) <= n /\ n <= MaxInt

(* Conversion to int drops the bits above its width. *)
Wrap(n) == ((n + MaxInt + 1) % (2 * (MaxInt + 1))) - (MaxInt + 1)

-----------------------------------------------------------------------------
(* std::to_string(serverDelay.count()), and writeMessage *)
ClientSends ==
  /\ place = "asked"
  /\ text' = ask
  /\ place' = "sent"
  /\ UNCHANGED <<ask, sleepingTime, usec, result>>

(* atoi is strtol, of 64 bits, converted to int. *)
ServerParses ==
  /\ place = "sent"
  /\ sleepingTime' = Wrap(text)
  /\ place' = "parsed"
  /\ UNCHANGED <<ask, text, usec, result>>

(* sleepingTime * 1000 is a product of ints.  Where it overflows it is
   undefined; the compiler may multiply at the width of int, or at that of
   the 64-bit count of microseconds it initialises. *)
WrongUnit(n) == {n * Factor * Factor, Wrap(n * Factor * Factor)}
Microseconds(n) == {n * Factor, Wrap(n * Factor)}

ServerSelects ==
  /\ place = "parsed"
  /\ usec' \in Microseconds(sleepingTime)
  /\ place' = "select"
  /\ UNCHANGED <<ask, text, sleepingTime, result>>

(* A negative tv_usec is EINVAL: the connection is closed with no answer. *)
SelectRefuses ==
  /\ place = "select"
  /\ usec < 0
  /\ place' = "refused"
  /\ UNCHANGED <<ask, text, sleepingTime, usec, result>>

(* stop was called, or the peer closed: no answer either. *)
SelectInterrupted ==
  /\ place = "select"
  /\ usec >= 0
  /\ place' = "interrupted"
  /\ UNCHANGED <<ask, text, sleepingTime, usec, result>>

SelectExpires ==
  /\ place = "select"
  /\ usec >= 0
  /\ place' = "awake"
  /\ UNCHANGED <<ask, text, sleepingTime, usec, result>>

(* std::to_string(++sleepingTime), and writeMessage; an increment that
   overflows leaves an int too. *)
IncrementLate == text' = sleepingTime /\ sleepingTime' = Wrap(sleepingTime + 1)
Increment == sleepingTime' = Wrap(sleepingTime + 1) /\ text' = sleepingTime'

ServerAnswers ==
  /\ place = "awake"
  /\ Increment
  /\ place' = "written"
  /\ UNCHANGED <<ask, usec, result>>

ClientParses ==
  /\ place = "written"
  /\ result' = Wrap(text)
  /\ place' = "answered"
  /\ UNCHANGED <<ask, text, sleepingTime, usec>>

-----------------------------------------------------------------------------
Init ==
  /\ ask \in Delays
  /\ place = "asked"
  /\ text = 0 /\ sleepingTime = 0 /\ usec = 0 /\ result = 0

Next ==
  \/ ClientSends \/ ServerParses \/ ServerSelects
  \/ SelectRefuses \/ SelectInterrupted \/ SelectExpires
  \/ ServerAnswers \/ ClientParses

Spec == Init /\ [][Next]_vars

-----------------------------------------------------------------------------
(* Properties.                                                              *)

(* Every variable stays in its range; what the code keeps in an int is one. *)
TypeOK ==
  /\ ask \in Delays /\ place \in Places
  /\ text \in Int /\ usec \in Int
  /\ sleepingTime \in Int /\ IsInt(sleepingTime)
  /\ result \in Int /\ IsInt(result)

(* The delays whose count of microseconds is an int: up to 2147483 ms. *)
Fits(n) == n >= 0 /\ n * Factor <= MaxInt

(* A delay whose count of microseconds is an int is slept as asked, to the
   microsecond, and is never refused, through both conversions to text and
   back and the product of ints. *)
FittingDelaysAreSlept ==
  Fits(ask) => /\ place # "refused"
               /\ place \in {"awake", "written", "answered"}
                    => usec = ask * Factor

(* Whatever becomes of the time slept, an answer to a delay that is an int,
   and not the largest one, is that delay increased by one. *)
AnswerIsIncrement ==
  place = "answered" /\ IsInt(ask) /\ ask # MaxInt => result = ask + 1

(* server.h:93 says that the thread sleeps for the number of milliseconds
   specified in the buffer.  The code breaks it: the product of ints
   overflows for delays above 35 minutes (2147483 ms), and above 71 minutes
   it may be positive again, and far too short. *)
SleepsAsAsked ==
  place = "answered" /\ ask >= 0 /\ IsInt(ask) => usec = ask * Factor

=============================================================================
