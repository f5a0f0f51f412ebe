------------------------------ MODULE MCDisplay -------------------------------
(* Display for TLC: a page of 40 bytes holds three requests of 12. *)
EXTENDS Display

CONSTANTS pool, memfd1, memfd2

=============================================================================
