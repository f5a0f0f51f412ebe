------------------------------- MODULE Outbox --------------------------------
(***************************************************************************)
(* What the client may expect of its request path: a message is delivered  *)
(* once, in the order of composition, together with the file it was        *)
(* composed with, or it is still on its way.                               *)
(***************************************************************************)
EXTENDS Sequences

CONSTANTS Message, NoMessage

VARIABLES
  outbox,      \* the messages composed and not delivered
  delivered    \* the last message delivered

Init == outbox = <<>> /\ delivered = NoMessage

Compose == \E m \in Message :
  outbox' = Append(outbox, m) /\ UNCHANGED delivered

Deliver ==
  /\ outbox # <<>>
  /\ delivered' = Head(outbox)
  /\ outbox' = Tail(outbox)

Next == Compose \/ Deliver

Spec == Init /\ [][Next]_<<outbox, delivered>>

=============================================================================
