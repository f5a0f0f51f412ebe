---------------------------- MODULE MCRecvStream -----------------------------
(* RecvStream for TLC: a page of 6 words, events of 2 and 3. *)
EXTENDS RecvStream

=============================================================================
