----------------------------- MODULE MCObjectIds -----------------------------
(* ObjectIds for TLC: three registered proxies and a pool, which is not. *)
EXTENDS ObjectIds

CONSTANTS surface, buffer, toplevel, pool

=============================================================================
