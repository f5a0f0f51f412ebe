------------------------------- MODULE IdTable -------------------------------
(***************************************************************************)
(* The two tables of wl_utils/wl_id.cpp, as operators on their contents:   *)
(* wl_id_assigner keeps the set `ids' of object ids in use, wl_id_map the  *)
(* map `objects' from an id to the C++ object that handles its events.     *)
(* Each operator below is the value a method leaves behind or looks up;    *)
(* the modules that own the tables say when the methods are called.        *)
(***************************************************************************)
EXTENDS Integers

CONSTANTS
  WL_NEW_ID_MIN,   \* first id a client may use (wl_types.h: 2)
  WL_NEW_ID_MAX    \* bound of the scan, itself never handed out (0xFEFFFFFF)

NULL_OBJ_ID == 0
DISPLAY_OBJ_ID == 1

ASSUME IdRangeAssumption ==
  /\ WL_NEW_ID_MIN \in Nat
  /\ WL_NEW_ID_MAX \in Nat
  /\ WL_NEW_ID_MIN > DISPLAY_OBJ_ID

\* The ids the scan of request_id visits: `id < WL_NEW_ID_MAX'.
Ids == WL_NEW_ID_MIN .. (WL_NEW_ID_MAX - 1)

-----------------------------------------------------------------------------
(* wl_id_assigner *)

\* Plausible bug: the scan forgets to skip the ids that are in use.
RequestIdKeepsNoRecord(ids, id) == id \in Ids

\* Plausible bug: the scan returns any free id, not the first.
RequestIdAnyFree(ids, id) == id \in Ids \ ids

\* `id' is what request_id() returns: every smaller one is taken.
RequestId(ids, id) ==
  /\ id \in Ids \ ids
  /\ \A lower \in WL_NEW_ID_MIN .. (id - 1) : lower \in ids

\* request_id() runs off the end of the range and throws.
IdsExhausted(ids) == Ids \subseteq ids

ReleaseId(ids, id) == ids \ {id}

-----------------------------------------------------------------------------
(* wl_id_map *)

\* create(): objects[id] = object, replacing what was there.
MapCreate(objects, id, object) ==
  [i \in DOMAIN objects \cup {id} |-> IF i = id THEN object ELSE objects[i]]

MapDestroy(objects, id) == [i \in DOMAIN objects \ {id} |-> objects[i]]

=============================================================================
