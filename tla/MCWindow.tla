------------------------------ MODULE MCWindow -------------------------------
(* Window for TLC: a few sizes, one of which leaves the height to the client. *)
EXTENDS WindowInvariant

MCDefault == [w |-> 2, h |-> 2]
MCExtents == {[w |-> 2, h |-> 0], MCDefault, [w |-> 3, h |-> 5]}

\* With 7 bits, 4 * 5 * 7 bytes are more than a wl_int counts, and a row of 44
\* pixels has a stride that wraps and passes the compositor's checks.
MCAnyExtents == MCExtents \cup {[w |-> 5, h |-> 7], [w |-> 44, h |-> 1]}

=============================================================================
