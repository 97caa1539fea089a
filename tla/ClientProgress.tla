--------------------------- MODULE ClientProgress ---------------------------
(***************************************************************************)
(* Why the calls of sendDelayToServer and of stop come to an end, without  *)
(* fairness: who can make a step, and what every step uses up.             *)
(***************************************************************************)
EXTENDS Client

-----------------------------------------------------------------------------
(* Who can make a step.                                                     *)

StopCanStep(s) == stop[s] = "consume" \/ (stop[s] = "wait" /\ Awake(s))

CallCanStep(c) ==
  \/ call[c] \in {"connect", "check", "count", "read", "close"}
  \/ call[c] = "connecting" /\ (PipeReadable \/ Writable(c))
  \/ call[c] = "write" /\ Writable(c)
  \/ call[c] = "answer" /\ (PipeReadable \/ Readable(c))

-----------------------------------------------------------------------------
(* What a step uses up: the way a thread has to go, the units of the answer *)
(* that were not read yet, and the bytes in the pipe.                       *)

CallDistance(c) ==
  [returned |-> 0, close |-> 1, read |-> 2, answer |-> 3, write |-> 4,
   connecting |-> 5, count |-> 6, check |-> 7, connect |-> 8,
   none |-> 9][call[c]]

StopDistance(s) ==
  [returned |-> 0, consume |-> 1, wait |-> 2, none |-> 3][stop[s]]

ToRead(c) == toCall[c] + unanswered[c]

CallFalls(c) ==
  \/ CallDistance(c)' < CallDistance(c)
  \/ call[c]' = call[c] /\ ToRead(c)' < ToRead(c)

CallStays(c) == call[c]' = call[c] /\ ToRead(c)' = ToRead(c)

(* One of the threads goes on towards its end. *)
MakesWay ==
  \/ \E c \in Calls : CallFalls(c)
  \/ \E s \in Stops : StopDistance(s)' < StopDistance(s)

-----------------------------------------------------------------------------
(* Properties.                                                              *)

(* A call of stop never waits for a call that waits for the server: it can go
   on, or every call it waits for can, whatever the server does and without a
   time out.  Holds as long as the calls of stop do not overlap. *)
StopNeverStuck ==
  \A s \in Stopping :
    StopCanStep(s) \/ (Counted # {} /\ \A c \in Counted : CallCanStep(c))

(* A call of sendDelayToServer makes a bounded number of steps, one per place
   and unit of the answer at most: nothing sends it back to a select, and the
   loop of readMessage does not go on for ever. *)
CallsRunOut ==
  [][\A c \in Calls :
       /\ CallFalls(c) \/ CallStays(c)
       /\ CallStep(c) \/ SelectFails(c) \/ SelectExpires(c) => CallFalls(c)
    ]_vars

(* The calls of stop, overlapping ones too, make a bounded number of steps: a
   byte is written, and a stop is woken, only when a thread has made way; any
   other step of a stop reads a byte or falls asleep. *)
StopsRunOut ==
  [][/\ \A s \in Stops : StopDistance(s)' <= StopDistance(s)
     /\ MakesWay \/ pipeBytes' < pipeBytes
          \/ (pipeBytes' = pipeBytes /\ quitCV \subseteq quitCV')
     /\ (\E s \in Stops : StopStep(s)) =>
          MakesWay \/ pipeBytes' < pipeBytes \/ quitCV' # quitCV]_vars

-----------------------------------------------------------------------------
(* What the proofs need beyond the inductive invariant of ClientInv.        *)

(* The socket of a call that is about to write stays ready for it. *)
WriteIsReady == \A c \in Calls : call[c] = "write" => Writable(c)

=============================================================================
