---------------------------- MODULE MCRequestWire ----------------------------
(* RequestWire for TLC: a page of a few requests. *)
EXTENDS RequestWire

=============================================================================
