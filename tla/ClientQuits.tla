---------------------------- MODULE ClientQuits -----------------------------
(***************************************************************************)
(* The client of Client.tla implements the requests of QuitRequests.tla.   *)
(* A call is inside while numConnections_ counts it.  A request has been   *)
(* kept, or given up, when stop leaves writeToPipeAndWait: emptying the    *)
(* pipe afterwards is invisible.                                           *)
(***************************************************************************)
EXTENDS Client

Left(s) == stop[s] \in {"consume", "returned"}

RequestOf(s) ==
  CASE stop[s] = "none"            -> "none"
    [] stop[s] = "wait"            -> "waiting"
    [] Left(s) /\ s \in expired    -> "givenUp"
    [] Left(s) /\ s \notin expired -> "kept"

Quits == INSTANCE QuitRequests WITH
  Requests <- Stops, inside <- Counted,
  request <- [s \in Stops |-> RequestOf(s)], asked <- counted

(* Every behaviour of the client is one of the requests: a stop that does not
   expire returns only when every call it found has closed its socket, no
   call it found ever counts again, and overlapping stops do not mislead each
   other about that. *)
ImplementsQuits == Quits!Spec

=============================================================================
