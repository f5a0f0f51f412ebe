----------------------------- MODULE MCEventWire -----------------------------
(* EventWire for TLC: every event of every interface, two in a row. *)
EXTENDS EventWire

MCInterfaces == DOMAIN Protocol
MCFixedBits == {-257, -256, 128, 255}

=============================================================================
