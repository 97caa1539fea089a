----------------------------- MODULE ServerInv -----------------------------
(***************************************************************************)
(* The inductive invariant behind the safety properties of Server, as a    *)
(* conjunction of named parts.  Only TypeOK, CountExact and NoLostWakeup   *)
(* are properties in their own right; the other parts say why they, and    *)
(* the rest of the properties, are never violated.                         *)
(***************************************************************************)
EXTENDS Server

Running == LoopPlaces \cup {"leave", "drain"}

(* The hand-shake of the owner and the server thread: there is a server
   thread exactly from start to join, isRunning_ says whether it is still in
   run, and the pipe is open from start until stop closes it. *)
HandShake ==
  /\ srv = "off" <=> owner \in {"idle", "close"}
  /\ isRunning <=> srv \in Running
  /\ owner # "idle" => pipe = "open"

(* doAccept holds a connection exactly between accept4 and its outcome, and
   no connection waits twice or waits and is served. *)
Queueing ==
  /\ hand # NoConn <=> srv \in {"check", "register"}
  /\ \A i, j \in DOMAIN backlog : backlog[i] = backlog[j] => i = j
  /\ \A i \in DOMAIN backlog : backlog[i] # hand
  /\ \A c \in Conns : Waiting(c) => handler[c] = "none" /\ peerEnd[c] # "none"
  /\ \A c \in Conns : handler[c] # "none" => peerEnd[c] # "none"

(* What doAccept checked still holds when it counts the client: other threads
   only decrease the counter. *)
Admission ==
  /\ currentNumberClients <= MaxNumberClients
  /\ srv = "register" => currentNumberClients < MaxNumberClients

(* At most one byte from stop and one from run, and none gets lost while the
   server thread is in run. *)
StopByte == IF owner \in {"idle", "up"} THEN 0 ELSE 1
RunByte  == IF srv \in {"drain", "done", "off"} THEN 1 ELSE 0

PipeContent ==
  /\ pipeBytes <= StopByte + RunByte
  /\ owner = "idle" => pipeBytes = 0
  /\ srv \in LoopPlaces \cup {"leave"} /\ quitSignal => pipeBytes > 0
  /\ srv = "drain" => pipeBytes > 0

(* run ends only when every client thread ended or was given up on. *)
AllDrained == srv \in {"done", "off"} => Live \subseteq abandoned

(* A thread is asleep only in one of the waits of the code. *)
Sleepers ==
  /\ "owner" \in clientsCV => owner = "wait"
  /\ "server" \in clientsCV => srv \in {"check", "drain"}

IInv ==
  /\ TypeOK
  /\ HandShake
  /\ Queueing
  /\ CountExact
  /\ Admission
  /\ PipeContent
  /\ AllDrained
  /\ Sleepers
  /\ NoLostWakeup

=============================================================================
