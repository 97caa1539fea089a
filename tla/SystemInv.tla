----------------------------- MODULE SystemInv ------------------------------
(***************************************************************************)
(* The inductive invariant behind AnswersAreEarned and ImplementsExchange: *)
(* what one end knows of the other.  It is inductive together with IInv of *)
(* ServerInv, which holds because the composition is a special case of     *)
(* Server.                                                                 *)
(***************************************************************************)
EXTENDS System, ServerInv

(* The ranges of the client's variables that the link is about. *)
LinkType ==
  /\ call \in [Conns -> C!CallPlaces]
  /\ conn \in [Conns -> {"none", "connecting", "up", "refused", "closed"}]
  /\ toCall \in [Conns -> Nat] /\ unanswered \in [Conns -> Nat]
  /\ serverEnd \in [Conns -> {"open", "closed"}]
  /\ answered \subseteq Conns

(* Nothing is duplicated on the way to the server, and past its read a thread
   has had the whole message; the answer is the last thing it writes. *)
MessageRead ==
  \A c \in Conns :
    /\ toServer[c] + unsent[c] <= MessageSize
    /\ handler[c] \in {"sleep", "writable", "write"}
         => toServer[c] = 0 /\ unsent[c] = 0
    /\ toPeer[c] = MessageSize
         => /\ handler[c] \in {"close", "gone"}
            /\ toServer[c] = 0 /\ unsent[c] = 0

(* Nothing of an answer arrives before the answer was written. *)
AnswerWritten ==
  \A c \in Conns :
    unanswered[c] # MessageSize \/ toCall[c] > 0 \/ c \in answered
      => toPeer[c] = MessageSize

(* Only calls make connections. *)
CallMade ==
  \A c \in Conns :
    conn[c] # "none" \/ peerEnd[c] # "none" => call[c] # "none"

Link == LinkType /\ MessageRead /\ AnswerWritten /\ CallMade

=============================================================================
