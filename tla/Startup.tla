------------------------------- MODULE Startup --------------------------------
(***************************************************************************)
(* main() from its first line to its loop, and the registry listener, which *)
(* stays in place for good.  The client binds the globals it knows while it *)
(* handles the first recv, then builds its window and its input devices on *)
(* whatever that recv brought; there is no wl_display.sync to wait for the *)
(* rest.  Window takes over where this module ends.                        *)
(*                                                                         *)
(* The recv that ends a batch is the only place where the client waits.    *)
(***************************************************************************)
EXTENDS IdTable, Sequences, FiniteSets, SequencesExt

CONSTANTS
  GlobalLists,  \* what a compositor may offer when a client connects
  Hotplugged,   \* interfaces of the globals it may add later
  Capabilities, \* the devices its seat may have, as sets of their interfaces
  BatchMax,     \* events one recv may return
  MaxGlobals,   \* bound: globals the compositor ever offers
  MaxEmits      \* bound: events its objects send of their own accord

\* The interfaces on_global_registered binds; wl_output stands for dmabuf too.
Required == {"wl_compositor", "wl_shm", "xdg_wm_base", "wl_seat"}
Bindable == Required \cup {"wl_output"}

\* The interface of the object whose request creates one of the given kind.
Factory == [wl_surface |-> "wl_compositor", xdg_surface |-> "xdg_wm_base",
            xdg_toplevel |-> "xdg_surface", wl_pointer |-> "wl_seat",
            wl_keyboard |-> "wl_seat", wl_shm_pool |-> "wl_shm",
            wl_buffer |-> "wl_shm_pool"]

Kinds == Bindable \cup DOMAIN Factory \cup {"wl_registry", "wl_display"}

\* Those a seat gives out only if it has the device.
Devices == {"wl_pointer", "wl_keyboard"}

\* handle_event of these throws while its object has no listener.
NeedsListener ==
  {"wl_shm", "wl_seat", "wl_pointer", "wl_keyboard", "xdg_surface", "xdg_toplevel"}

ASSUME StartupAssumption ==
  /\ \A list \in GlobalLists : list \in Seq(STRING) /\ Len(list) <= MaxGlobals
  /\ Hotplugged \subseteq STRING
  /\ Capabilities \subseteq SUBSET Devices
  /\ BatchMax \in Nat \ {0} /\ MaxGlobals \in Nat /\ MaxEmits \in Nat
  /\ WL_NEW_ID_MAX >= WL_NEW_ID_MIN + 1 + MaxGlobals + 7  \* main itself makes seven

VARIABLES
  \* the client
  pc,          \* "dispatch" or "recv" of roundtrip, "handle", "window", "devices"
  started,     \* main has reached its loop
  failure,     \* what ended it, if anything did
  ids,         \* wl_id_assigner::ids
  objects,     \* wl_id_map::objects, as the kind of the object behind an id
  bound,       \* the ids in the globals compositor, shm, wm_base, seat, output
  listening,   \* the objects whose listener is set
  batch,       \* events of the last recv not handled yet
  queue,       \* send_queue
  \* the connection
  socket,      \* requests on their way
  incoming,    \* events on their way
  \* the compositor
  globals,     \* interfaces of the globals ever offered; the index is the name
  early,       \* the names get_registry was answered with
  capable,     \* the devices every seat has, from first to last
  gone,        \* names of the globals taken back
  resources,   \* the kind of the object behind an id, as the compositor has it
  emits,
  protocol_error

client == <<pc, started, failure, ids, objects, bound, listening, batch, queue>>
compositor == <<globals, early, capable, gone, resources, emits, protocol_error>>
vars == <<client, socket, incoming, compositor>>

\* The n least of a set of numbers, in order.
Lowest(S, n) ==
  [k \in 1 .. n |-> CHOOSE i \in S : Cardinality({j \in S : j < i}) = k - 1]

Requests == [op : {"get_registry", "bind", "new", "other"}, on : Nat, id : Nat,
             name : Nat, kind : Kinds]
Events == [ev : {"global", "global_remove", "event", "error"}, on : Nat, name : Nat]

R(op, on, id, name, kind) ==
  [op |-> op, on |-> on, id |-> id, name |-> name, kind |-> kind]
E(ev, on, name) == [ev |-> ev, on |-> on, name |-> name]

TypeOK ==
  /\ pc \in {"dispatch", "recv", "handle", "window", "devices"}
  /\ started \in BOOLEAN
  /\ failure \in {"none", "listener", "null", "callback", "error"}
  /\ ids \subseteq Ids
  /\ DOMAIN objects \subseteq ids /\ objects \in [DOMAIN objects -> Kinds]
  /\ bound \in [Bindable -> ids \cup {NULL_OBJ_ID}]
  /\ listening \subseteq DOMAIN objects
  /\ batch \in Seq(Events) /\ incoming \in Seq(Events)
  /\ queue \in Seq(Requests) /\ socket \in Seq(Requests)
  /\ globals \in Seq(STRING) /\ early \in Seq(DOMAIN globals)
  /\ capable \in Capabilities
  /\ gone \subseteq DOMAIN globals
  /\ resources \in [DOMAIN resources -> Kinds]
  /\ emits \in 0 .. MaxEmits
  /\ protocol_error \in BOOLEAN

REGISTRY == WL_NEW_ID_MIN

\* display.get_registry() and set_listener(), lines 310 and 311 of main.cpp.
Init ==
  /\ pc = "dispatch" /\ started = FALSE /\ failure = "none"
  /\ ids = {REGISTRY}
  /\ objects = [i \in {REGISTRY} |-> "wl_registry"]
  /\ bound = [i \in Bindable |-> NULL_OBJ_ID]
  /\ listening = {REGISTRY}
  /\ batch = <<>>
  /\ queue = <<R("get_registry", DISPLAY_OBJ_ID, REGISTRY, 0, "wl_registry")>>
  /\ socket = <<>> /\ incoming = <<>>
  /\ globals \in GlobalLists /\ early = <<>> /\ capable \in Capabilities /\ gone = {}
  /\ resources = [i \in {DISPLAY_OBJ_ID} |-> "wl_display"]
  /\ emits = 0 /\ protocol_error = FALSE

-----------------------------------------------------------------------------
(* roundtrip *)

\* Plausible bug: the scan of request_id starts at wl_display's id.
LowestIdFromDisplay(taken) ==
  CHOOSE i \in {DISPLAY_OBJ_ID} \cup Ids :
    i \notin taken /\ \A lower \in DISPLAY_OBJ_ID .. (i - 1) : lower \in taken

\* Plausible bug: request_id hands out the first id, in use or not.
LowestIdTaken(taken) == WL_NEW_ID_MIN

\* request_id()
LowestId(taken) == CHOOSE i \in Ids : RequestId(taken, i)

Running(at) == failure = "none" /\ pc = at

Dispatch ==
  /\ Running("dispatch")
  /\ pc' = "recv"
  /\ socket' = socket \o queue /\ queue' = <<>>
  /\ UNCHANGED <<started, failure, ids, objects, bound, listening, batch, incoming, compositor>>

Recv ==
  /\ Running("recv")
  /\ incoming # <<>>
  /\ LET n == IF Len(incoming) < BatchMax THEN Len(incoming) ELSE BatchMax IN
       /\ batch' = SubSeq(incoming, 1, n)
       /\ incoming' = SubSeq(incoming, n + 1, Len(incoming))
  /\ pc' = "handle"
  /\ UNCHANGED <<started, failure, ids, objects, bound, listening, queue, socket, compositor>>

Handles(ev) ==
  /\ Running("handle")
  /\ batch # <<>> /\ Head(batch).ev = ev
  /\ batch' = Tail(batch)
  /\ UNCHANGED <<pc, started, socket, incoming, compositor>>

\* on_global_registered; wl_compositor alone is not entered in wl_id_map.
Bind(name, interface) ==
  LET id == LowestId(ids) IN
    /\ ids' = ids \cup {id}
    /\ queue' = Append(queue, R("bind", REGISTRY, id, name, interface))
    /\ bound' = [bound EXCEPT ![interface] = id]
    /\ objects' = IF interface = "wl_compositor" THEN objects
                  ELSE MapCreate(objects, id, interface)

HandleGlobal ==
  /\ Handles("global")
  /\ LET name == Head(batch).name IN
       IF globals[name] \in Bindable
       THEN Bind(name, globals[name])
       ELSE UNCHANGED <<ids, queue, bound, objects>>
  /\ UNCHANGED <<failure, listening>>

\* registry_listener has no global_remove, and handle_event calls it anyway.
HandleGlobalRemove ==
  /\ Handles("global_remove")
  /\ failure' = "callback"
  /\ UNCHANGED <<ids, objects, bound, listening, queue>>

\* read_queues exits on wl_display.error.
HandleError ==
  /\ Handles("error")
  /\ failure' = "error"
  /\ UNCHANGED <<ids, objects, bound, listening, queue>>

\* The objects that the requests of a listener, or of wm_base itself, are about:
\* a ping has its pong, xdg_surface.configure its ack_configure, attach and
\* commit.  A size in xdg_toplevel.configure is left to Window.
Answered(on) ==
  CASE objects[on] = "xdg_wm_base" -> <<on>>
    [] objects[on] = "xdg_surface" ->
         LET surface == CHOOSE i \in DOMAIN objects : objects[i] = "wl_surface"
         IN <<on, surface, surface>>
    [] OTHER -> <<>>

Answers(about) == [k \in DOMAIN about |-> R("other", about[k], 0, 0, objects[about[k]])]

\* Any other event: it is dropped when wl_id_map does not know the object.
HandleEvent ==
  /\ Handles("event")
  /\ LET on == Head(batch).on IN
       IF on \notin DOMAIN objects
       THEN UNCHANGED <<failure, queue>>
       ELSE IF objects[on] \in NeedsListener /\ on \notin listening
            THEN failure' = "listener" /\ UNCHANGED queue
            ELSE queue' = queue \o Answers(Answered(on)) /\ UNCHANGED failure
  /\ UNCHANGED <<ids, objects, bound, listening>>

\* Plausible bug: main enters its loop without building the window.
RoundtripReturnsToLoop ==
  /\ Running("handle") /\ batch = <<>>
  /\ pc' = "dispatch"
  /\ UNCHANGED <<started, failure, ids, objects, bound, listening, batch, queue,
                 socket, incoming, compositor>>

RoundtripReturns ==
  /\ Running("handle") /\ batch = <<>>
  /\ pc' = IF started THEN "dispatch" ELSE "window"
  /\ UNCHANGED <<started, failure, ids, objects, bound, listening, batch, queue,
                 socket, incoming, compositor>>

-----------------------------------------------------------------------------
(* main, between the first roundtrip and the loop *)

\* What the next n calls of request_id return: the n lowest free ids.
NextIds(n) == Lowest(Ids \ ids, n)

\* Three objects enter wl_id_map, one after the other.
Create3(table, a, x, b, y, c, z) == MapCreate(MapCreate(MapCreate(table, a, x), b, y), c, z)

\* shm or seat is dereferenced, then wm_base; compositor is no pointer.
NullDereference == \E i \in {"wl_shm", "wl_seat", "xdg_wm_base"} : bound[i] = NULL_OBJ_ID

\* Plausible bug: nobody gives the seat its listener.
ListenersWithoutSeat(x_surface, toplevel) == {bound["wl_shm"], x_surface, toplevel}

\* The objects that get a listener before the window's requests are sent.
Listeners(x_surface, toplevel) == {bound["wl_shm"], bound["wl_seat"], x_surface, toplevel}

\* Lines 315 to 328: two listeners, surface, xdg_surface, toplevel, set_title,
\* and a dispatch_pending.
BuildWindow ==
  /\ Running("window")
  /\ IF NullDereference
     THEN failure' = "null" /\ UNCHANGED <<pc, ids, objects, listening, queue, socket>>
     ELSE LET new == NextIds(3) IN
            /\ pc' = "devices"
            /\ ids' = ids \cup ToSet(new)
            /\ objects' = Create3(objects, new[1], "wl_surface", new[2], "xdg_surface",
                                  new[3], "xdg_toplevel")
            /\ listening' = listening \cup Listeners(new[2], new[3])
            /\ socket' = socket \o queue \o
                 <<R("new", bound["wl_compositor"], new[1], 0, "wl_surface"),
                   R("new", bound["xdg_wm_base"], new[2], 0, "xdg_surface"),
                   R("new", new[2], new[3], 0, "xdg_toplevel"),
                   R("other", new[3], 0, 0, "xdg_toplevel")>>
            /\ queue' = <<>>
            /\ UNCHANGED failure
  /\ UNCHANGED <<started, bound, batch, incoming, compositor>>

\* Lines 330 to 336: the input devices, and the pool and buffer of the first
\* Framebuffer, whose commit asks for the first configure; they stay queued.
BuildDevices ==
  /\ Running("devices")
  /\ pc' = "dispatch" /\ started' = TRUE
  /\ LET new == NextIds(4)
         seat == bound["wl_seat"] IN
       /\ ids' = ids \cup ToSet(new)
       /\ objects' = Create3(objects, new[1], "wl_pointer", new[2], "wl_keyboard",
                             new[4], "wl_buffer")
       /\ listening' = listening \cup {new[1], new[2]}
       /\ queue' = queue \o
            <<R("new", seat, new[1], 0, "wl_pointer"),
              R("new", seat, new[2], 0, "wl_keyboard"),
              R("new", bound["wl_shm"], new[3], 0, "wl_shm_pool"),
              R("new", new[3], new[4], 0, "wl_buffer")>>
  /\ UNCHANGED <<failure, bound, batch, socket, incoming, compositor>>

-----------------------------------------------------------------------------
(* The compositor, as the protocol obliges it to behave. *)

\* libwayland accepts a new id that is free and leaves no gap below it.
Acceptable(id) ==
  /\ id \notin DOMAIN resources
  /\ \A lower \in WL_NEW_ID_MIN .. (id - 1) : lower \in DOMAIN resources

Legal(r) ==
  /\ r.on \in DOMAIN resources
  /\ r.op # "other" => Acceptable(r.id)
  /\ r.op = "bind" => r.name \in DOMAIN globals /\ globals[r.name] = r.kind
  /\ r.op = "new" => resources[r.on] = Factory[r.kind]
  /\ r.op = "new" /\ r.kind \in Devices => r.kind \in capable

Offers(names) == [k \in 1 .. Len(names) |-> E("global", REGISTRY, names[k])]

\* One request.  A registry is answered with all globals there are at once.
Serve ==
  /\ ~protocol_error /\ socket # <<>>
  /\ socket' = Tail(socket)
  /\ LET r == Head(socket)
         names == DOMAIN globals \ gone
         present == Lowest(names, Cardinality(names)) IN
       IF ~Legal(r)
       THEN /\ protocol_error' = TRUE
            /\ incoming' = Append(incoming, E("error", DISPLAY_OBJ_ID, 0))
            /\ UNCHANGED <<resources, early>>
       ELSE /\ resources' = IF r.op = "other" THEN resources
                            ELSE MapCreate(resources, r.id, r.kind)
            /\ incoming' = IF r.op = "get_registry" THEN incoming \o Offers(present)
                           ELSE incoming
            /\ early' = IF r.op = "get_registry" THEN present ELSE early
            /\ UNCHANGED protocol_error
  /\ UNCHANGED <<client, globals, capable, gone, emits>>

\* An event of an object: the formats of wl_shm, the capabilities of a seat, a
\* key...; configure comes after the commit that follows create_buffer.
Emit(id) ==
  /\ ~protocol_error /\ emits < MaxEmits
  /\ \/ resources[id] \in {"wl_shm", "wl_seat", "wl_output", "xdg_wm_base", "wl_pointer", "wl_keyboard"}
     \/ /\ resources[id] \in {"xdg_surface", "xdg_toplevel"}
        /\ \E b \in DOMAIN resources : resources[b] = "wl_buffer"
  /\ emits' = emits + 1
  /\ incoming' = Append(incoming, E("event", id, 0))
  /\ UNCHANGED <<client, socket, globals, early, capable, gone, resources, protocol_error>>

HasRegistry == REGISTRY \in DOMAIN resources

AddGlobal(interface) ==
  /\ ~protocol_error /\ Len(globals) < MaxGlobals
  /\ globals' = Append(globals, interface)
  /\ incoming' = IF HasRegistry
                 THEN Append(incoming, E("global", REGISTRY, Len(globals) + 1))
                 ELSE incoming
  /\ UNCHANGED <<client, socket, early, capable, gone, resources, emits, protocol_error>>

RemoveGlobal(name) ==
  /\ ~protocol_error
  /\ globals[name] \notin Required /\ name \notin gone
  /\ gone' = gone \cup {name}
  /\ incoming' = IF HasRegistry THEN Append(incoming, E("global_remove", REGISTRY, name))
                 ELSE incoming
  /\ UNCHANGED <<client, socket, globals, early, capable, resources, emits, protocol_error>>

-----------------------------------------------------------------------------
Client ==
  \/ Dispatch \/ Recv
  \/ HandleGlobal \/ HandleGlobalRemove \/ HandleError \/ HandleEvent
  \/ RoundtripReturns \/ BuildWindow \/ BuildDevices

Next ==
  \/ Client
  \/ Serve
  \/ \E id \in DOMAIN resources : Emit(id)
  \/ \E interface \in Hotplugged : AddGlobal(interface)
  \/ \E name \in DOMAIN globals : RemoveGlobal(name)

\* main runs on its own thread, and the compositor serves its clients.
Spec == Init /\ [][Next]_vars /\ WF_vars(Client) /\ WF_vars(Serve)

-----------------------------------------------------------------------------
(* Properties. *)

Names(interface) == {name \in DOMAIN globals : globals[name] = interface}

\* One recv holds the answer to get_registry up to this many globals.
InFirstRecv(interface) ==
  \E k \in DOMAIN early : k <= BatchMax /\ globals[early[k]] = interface

\* The client fails only for one of five reasons: a global it needs is not in
\* the first recv (a null shm, seat or wm_base, or a request on the null object,
\* which wl_display.error answers), there is a second wl_seat or wl_shm (main
\* gives a listener to the last of the first recv only), a global was taken back,
\* or the seat lacks a pointer or a keyboard, which main asks for without waiting
\* for wl_seat.capabilities.  Everywhere else the listener is there before the
\* object's first event.
FailsOnlyForCause ==
  /\ failure = "listener" => Cardinality(Names("wl_seat")) > 1 \/ Cardinality(Names("wl_shm")) > 1
  /\ failure = "null" => \E i \in Required : ~InFirstRecv(i)
  /\ failure = "callback" => gone # {}
  /\ protocol_error => ~InFirstRecv("wl_compositor") \/ capable # Devices

\* Both ends give an id the same kind of object: no event is handled as one of
\* another interface, whatever order globals and objects came in.
KindsAgree == \A id \in DOMAIN objects \cap DOMAIN resources : objects[id] = resources[id]

\* The compositor comes to know the window, the devices and the first buffer,
\* unless the client fails.  They were left in the send queue by main.
SetUpCompletes ==
  <>(failure # "none" \/
     \A kind \in DOMAIN Factory : \E id \in DOMAIN resources : resources[id] = kind)

=============================================================================
