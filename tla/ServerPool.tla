----------------------------- MODULE ServerPool -----------------------------
(***************************************************************************)
(* The server of Server.tla implements the pool of ClientPool.tla.  The    *)
(* pool is open while run is in its main loop, drains from the moment run  *)
(* has left the loop, and is closed when run returns: everything the owner *)
(* does in stop after that, and every step of a client thread between its  *)
(* creation and closeClientAndNotify, is invisible to it.                  *)
(***************************************************************************)
EXTENDS Server

PoolPhase ==
  CASE srv \in LoopPlaces         -> "open"
    [] srv \in {"leave", "drain"} -> "draining"
    [] OTHER                      -> "closed"

Pool == INSTANCE ClientPool WITH
  Clients <- Conns, Capacity <- MaxNumberClients,
  phase <- PoolPhase, serving <- Live,
  seen <- {c \in Conns : handler[c] # "none"}, givenUp <- abandoned

(* Every behaviour of the server is one of the pool: clients are taken in
   only by an open pool with room, each at most once, and a pool that closes
   with clients left has recorded that it gave up on them. *)
ImplementsPool == Pool!Spec

=============================================================================
