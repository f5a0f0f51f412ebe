----------------------------- MODULE IdLifecycle -----------------------------
(***************************************************************************)
(* What the id tables promise to the rest of the client, with no messages  *)
(* in sight.  An id is free, names a live object, or is a zombie: its      *)
(* object was destroyed by the client but the compositor has not confirmed *)
(* it.  A zombie is never handed out again before it is free, and a new    *)
(* object always gets the least free id.                                   *)
(***************************************************************************)
EXTENDS Integers

CONSTANT IdSet

VARIABLE use

Init == use = [i \in IdSet |-> "free"]

Claim(i) ==
  /\ use[i] = "free"
  /\ \A j \in IdSet : j < i => use[j] # "free"
  /\ use' = [use EXCEPT ![i] = "live"]

Retire(i) ==
  /\ use[i] = "live"
  /\ use' = [use EXCEPT ![i] = "zombie"]

Recycle(i) ==
  /\ use[i] = "zombie"
  /\ use' = [use EXCEPT ![i] = "free"]

Next == \E i \in IdSet : Claim(i) \/ Retire(i) \/ Recycle(i)

Spec == Init /\ [][Next]_use

=============================================================================
