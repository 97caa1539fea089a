----------------------------- MODULE ClientInv ------------------------------
(***************************************************************************)
(* The inductive invariant behind the safety properties of Client.         *)
(***************************************************************************)
EXTENDS Client

(* A thread is asleep on quitCV_ only in the wait of writeToPipeAndWait. *)
Sleepers == \A s \in quitCV : stop[s] = "wait"

(* Nothing is counted, and nothing is in the pipe, without a pipe; no call is
   in progress on a Client that was destroyed. *)
PipeNeeded ==
  /\ pipe # "open" => pipeBytes = 0
  /\ pipe = "closed" => Active = {}
  /\ \A c \in Calls : call[c] \in CountedPlaces \cup {"count"} => pipe = "open"

(* A call is counted once and for all: it never goes back. *)
CountedOnce ==
  \A s \in Stops : \A c \in counted[s] :
    call[c] \in CountedPlaces \cup {"returned"}

(* Calls of stop that do not overlap: the pipe belongs to the only one. *)
OneStop ==
  ~StopsOverlap =>
    /\ \A s, t \in Stopping : s = t
    /\ \A s \in Stops : stop[s] = "wait" => PipeReadable

IInv ==
  /\ TypeOK
  /\ CountExact
  /\ Sleepers
  /\ NoLostWakeup
  /\ PipeNeeded
  /\ NoByteWithoutStop
  /\ CountedOnce
  /\ CountedCallsQuit
  /\ OneStop

=============================================================================
