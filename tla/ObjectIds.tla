------------------------------ MODULE ObjectIds ------------------------------
(***************************************************************************)
(* The life of an object id, across the client and the compositor.         *)
(*                                                                         *)
(* A constructor of the client (create_surface, get_mouse, create_pool...) *)
(* takes an id from wl_id_assigner, enters the object in wl_id_map and     *)
(* queues a request that tells the compositor about it.  destroy() queues  *)
(* another request and changes nothing else: the id comes back only when   *)
(* the compositor's wl_display.delete_id is read.  Both directions of the  *)
(* connection are FIFO; `requests' is the send queue followed by the       *)
(* socket, `events' the socket followed by the receive queue.              *)
(*                                                                         *)
(* A proxy is a C++ object.  Its name is used again once its id is free,   *)
(* for the next object that is constructed: no state mentions the old one. *)
(***************************************************************************)
EXTENDS IdTable, Sequences

CONSTANTS
  Proxies,      \* client-side objects
  Registered,   \* those entered in wl_id_map: all but wl_shm_pool, wl_compositor
  MaxEvents     \* bound on the queued messages before the compositor adds an event

ASSUME ObjectIdsAssumption ==
  /\ Registered \subseteq Proxies
  /\ MaxEvents \in Nat

VARIABLES
  ids,         \* wl_id_assigner::ids
  objects,     \* wl_id_map::objects
  oid,         \* the `id' member of each object, NULL_OBJ_ID while there is none
  destroyed,   \* the objects destroy() was called on (wl_buffer::is_invalid)
  requests,    \* client to compositor
  events,      \* compositor to client
  resources,   \* the compositor's table of objects
  failure      \* what ended the client, if anything did

vars == <<ids, objects, oid, destroyed, requests, events, resources, failure>>

Held == {p \in Proxies : oid[p] # NULL_OBJ_ID}

Request == [op : {"new", "destroy"}, id : Ids, proxy : Proxies]
Event == [ev : {"event", "delete_id"}, id : Ids, proxy : Proxies]

TypeOK ==
  /\ ids \subseteq Ids
  /\ DOMAIN objects \subseteq Ids
  /\ objects \in [DOMAIN objects -> Proxies]
  /\ oid \in [Proxies -> Ids \cup {NULL_OBJ_ID}]
  /\ destroyed \subseteq Proxies
  /\ requests \in Seq(Request)
  /\ events \in Seq(Event)
  /\ DOMAIN resources \subseteq Ids
  /\ resources \in [DOMAIN resources -> Proxies]
  /\ failure \in {"none", "exhausted", "unbound", "rejected"}

Init ==
  /\ ids = {}
  /\ objects = [i \in {} |-> NULL_OBJ_ID]
  /\ oid = [p \in Proxies |-> NULL_OBJ_ID]
  /\ destroyed = {}
  /\ requests = <<>>
  /\ events = <<>>
  /\ resources = [i \in {} |-> NULL_OBJ_ID]
  /\ failure = "none"

-----------------------------------------------------------------------------
(* The client. *)

\* `new wl_...(wl_id_assigner.request_id())', wl_id_map.create, the request.
Construct(p) ==
  /\ failure = "none"
  /\ p \notin Held
  /\ \E i \in Ids :
       /\ RequestId(ids, i)
       /\ ids' = ids \cup {i}
       /\ oid' = [oid EXCEPT ![p] = i]
       /\ objects' = IF p \in Registered THEN MapCreate(objects, i, p) ELSE objects
       /\ requests' = Append(requests, [op |-> "new", id |-> i, proxy |-> p])
  /\ UNCHANGED <<destroyed, events, resources, failure>>

\* request_id throws; nothing catches it and the client ends.
ConstructThrows ==
  /\ failure = "none"
  /\ IdsExhausted(ids)
  /\ failure' = "exhausted"
  /\ UNCHANGED <<ids, objects, oid, destroyed, requests, events, resources>>

\* Plausible bug: destroy() gives the id back at once.
DestroyReleasesId(p) ==
  /\ failure = "none"
  /\ p \in Held \ destroyed
  /\ destroyed' = destroyed \cup {p}
  /\ ids' = ReleaseId(ids, oid[p])
  /\ requests' = Append(requests, [op |-> "destroy", id |-> oid[p], proxy |-> p])
  /\ UNCHANGED <<objects, oid, events, resources, failure>>

\* Plausible bug: destroy() forgets the object's entry in wl_id_map.
DestroyForgetsEntry(p) ==
  /\ failure = "none"
  /\ p \in Held \ destroyed
  /\ destroyed' = destroyed \cup {p}
  /\ objects' = MapDestroy(objects, oid[p])
  /\ requests' = Append(requests, [op |-> "destroy", id |-> oid[p], proxy |-> p])
  /\ UNCHANGED <<ids, oid, events, resources, failure>>

\* Plausible bug: destroy() marks the object and sends nothing.
DestroySendsNothing(p) ==
  /\ failure = "none"
  /\ p \in Held \ destroyed
  /\ destroyed' = destroyed \cup {p}
  /\ UNCHANGED <<ids, objects, oid, requests, events, resources, failure>>

\* destroy(), called once per object: the caller drops its pointer with it.
Destroy(p) ==
  /\ failure = "none"
  /\ p \in Held \ destroyed
  /\ destroyed' = destroyed \cup {p}
  /\ requests' = Append(requests, [op |-> "destroy", id |-> oid[p], proxy |-> p])
  /\ UNCHANGED <<ids, objects, oid, events, resources, failure>>

\* read_queues on wl_display.delete_id: release_id, then wl_id_map.destroy.
ReadDeleteId ==
  /\ failure = "none"
  /\ events # <<>>
  /\ Head(events).ev = "delete_id"
  /\ LET e == Head(events) IN
       IF e.id \in ids
       THEN /\ ids' = ReleaseId(ids, e.id)
            /\ objects' = MapDestroy(objects, e.id)
            /\ oid' = [oid EXCEPT ![e.proxy] = NULL_OBJ_ID]
            /\ destroyed' = destroyed \ {e.proxy}
            /\ UNCHANGED failure
       ELSE /\ failure' = "unbound"
            /\ UNCHANGED <<ids, objects, oid, destroyed>>
  /\ events' = Tail(events)
  /\ UNCHANGED <<requests, resources>>

\* read_queues on any other event: handle_event of the object wl_id_map holds,
\* or a warning when it holds none.  No handler of the library touches an id.
ReadEvent ==
  /\ failure = "none"
  /\ events # <<>>
  /\ Head(events).ev = "event"
  /\ events' = Tail(events)
  /\ UNCHANGED <<ids, objects, oid, destroyed, requests, resources, failure>>

-----------------------------------------------------------------------------
(* The compositor, as the protocol obliges it to behave. *)

AcceptNew ==
  /\ failure = "none"
  /\ requests # <<>>
  /\ Head(requests).op = "new"
  /\ LET r == Head(requests) IN
       IF r.id \in DOMAIN resources
       THEN failure' = "rejected" /\ UNCHANGED resources
       ELSE resources' = MapCreate(resources, r.id, r.proxy) /\ UNCHANGED failure
  /\ requests' = Tail(requests)
  /\ UNCHANGED <<ids, objects, oid, destroyed, events>>

AcceptDestroy ==
  /\ failure = "none"
  /\ requests # <<>>
  /\ Head(requests).op = "destroy"
  /\ LET r == Head(requests) IN
       IF r.id \in DOMAIN resources
       THEN /\ resources' = MapDestroy(resources, r.id)
            /\ events' = Append(events, [ev |-> "delete_id", id |-> r.id,
                                         proxy |-> resources[r.id]])
            /\ UNCHANGED failure
       ELSE failure' = "rejected" /\ UNCHANGED <<resources, events>>
  /\ requests' = Tail(requests)
  /\ UNCHANGED <<ids, objects, oid, destroyed>>

\* An event of the interface of the object that id i names there.
Emit(i) ==
  /\ failure = "none"
  /\ Len(events) < MaxEvents
  /\ resources[i] \in Registered
  /\ events' = Append(events, [ev |-> "event", id |-> i, proxy |-> resources[i]])
  /\ UNCHANGED <<ids, objects, oid, destroyed, requests, resources, failure>>

-----------------------------------------------------------------------------
Read == ReadDeleteId \/ ReadEvent

Accept == AcceptNew \/ AcceptDestroy

Next ==
  \/ \E p \in Proxies : Construct(p) \/ Destroy(p)
  \/ ConstructThrows
  \/ Read
  \/ Accept
  \/ \E i \in DOMAIN resources : Emit(i)

\* main() reads for as long as it runs, and the compositor serves its clients.
Spec == Init /\ [][Next]_vars /\ WF_vars(Read) /\ WF_vars(Accept)

-----------------------------------------------------------------------------
(* Properties. *)

\* Two objects never share an id, not even when one of them was destroyed and
\* only waits for its delete_id; wl_id_map has an entry for exactly the
\* registered objects that hold an id, and the entry is the object itself.
TablesAgree ==
  /\ \A p, q \in Held : oid[p] = oid[q] => p = q
  /\ DOMAIN objects = {oid[p] : p \in Held \cap Registered}
  /\ \A p \in Held \cap Registered : objects[oid[p]] = p

\* The compositor can serve the next request: the id of a new object is not
\* taken there, and a destroy request reaches the very object it was sent for.
\* This is what `Attempt to create an existing object' errors would contradict.
RequestsServable ==
  requests # <<>> =>
    LET r == Head(requests) IN
      /\ r.op = "new" => r.id \notin DOMAIN resources
      /\ r.op = "destroy" => /\ r.id \in DOMAIN resources
                             /\ resources[r.id] = r.proxy

\* The client can serve the next event: release_id will find the id of a
\* delete_id (so its exception is never thrown), and the object wl_id_map
\* finds for any other event is the one the compositor sent it to, never a
\* younger object that was given the same id.
EventsDeliverable ==
  events # <<>> =>
    LET e == Head(events) IN
      /\ e.ev = "delete_id" => e.id \in ids
      /\ e.ev = "event" => /\ e.id \in DOMAIN objects
                           /\ objects[e.id] = e.proxy

\* An id taken by a destroyed object comes back, unless the client ends first.
IdsReturn ==
  \A p \in Proxies : p \in destroyed ~> (p \notin destroyed \/ failure # "none")

\* The ids, seen without the messages, follow IdLifecycle.
Use == [i \in Ids |->
          IF i \notin ids THEN "free"
          ELSE IF \E p \in destroyed : oid[p] = i THEN "zombie" ELSE "live"]

Lifecycle == INSTANCE IdLifecycle WITH IdSet <- Ids, use <- Use

LifecycleSpec == Lifecycle!Spec

-----------------------------------------------------------------------------
(* The inductive invariant: where the messages about an object may stand. *)

\* An object that holds an id holds one that is in use, and is alone with it.
IdsInv ==
  /\ \A p \in Held : oid[p] \in ids
  /\ \A p, q \in Held : oid[p] = oid[q] => p = q
  /\ \A i \in ids : \E p \in Held : oid[p] = i
  /\ destroyed \subseteq Held

MapInv ==
  /\ \A p \in Held \cap Registered : oid[p] \in DOMAIN objects /\ objects[oid[p]] = p
  /\ \A i \in DOMAIN objects : /\ objects[i] \in Held \cap Registered
                               /\ oid[objects[i]] = i

\* A queued request is about the object that holds its id.  An object is
\* announced at most once and destroyed at most once, in this order.
RequestPlaced(k) ==
  LET r == requests[k] IN
    /\ r.proxy \in Held /\ r.id = oid[r.proxy]
    /\ \A j \in DOMAIN requests :
         requests[j].proxy = r.proxy /\ requests[j].op = r.op => j = k
    /\ r.op = "new" => r.id \notin DOMAIN resources
    /\ r.op = "destroy" =>
         /\ r.proxy \in destroyed
         /\ \/ r.id \in DOMAIN resources
            \/ \E j \in DOMAIN requests :
                 j < k /\ requests[j].proxy = r.proxy /\ requests[j].op = "new"
         /\ \A j \in DOMAIN requests : requests[j].proxy = r.proxy => j <= k

RequestsInv == \A k \in DOMAIN requests : RequestPlaced(k)

\* The compositor knows an object from its "new" request until its destroy.
ResourcesInv ==
  /\ \A i \in DOMAIN resources : resources[i] \in Held /\ oid[resources[i]] = i
  /\ \A p \in Held \ destroyed :
       \/ oid[p] \in DOMAIN resources
       \/ \E k \in DOMAIN requests : requests[k].proxy = p /\ requests[k].op = "new"

\* A delete_id is the last message about its object, in either direction.
EventPlaced(k) ==
  LET e == events[k] IN
    /\ e.proxy \in Held /\ e.id = oid[e.proxy]
    /\ e.ev = "event" => e.proxy \in Registered
    /\ e.ev = "delete_id" =>
         /\ e.proxy \in destroyed
         /\ e.id \notin DOMAIN resources
         /\ \A j \in DOMAIN events : j > k => events[j].proxy # e.proxy
         /\ \A j \in DOMAIN requests : requests[j].proxy # e.proxy

EventsInv == \A k \in DOMAIN events : EventPlaced(k)

IInv == TypeOK /\ IdsInv /\ MapInv /\ RequestsInv /\ ResourcesInv /\ EventsInv

=============================================================================
