----------------------------- MODULE RequestWire -----------------------------
(***************************************************************************)
(* Requests in the words of the send queue's page.                         *)
(*                                                                         *)
(* A request method says how many words its request has, new_writer        *)
(* allocates them and writes the header, and the writer appends one        *)
(* argument after the other.  Nothing ties the two together, and the page  *)
(* is never cleared.  The compositor finds the next request by the size in *)
(* the header and the arguments by the signature of the opcode.            *)
(*                                                                         *)
(* A word of a number is the number; one of a string knows its string and  *)
(* its place there.                                                        *)
(***************************************************************************)
EXTENDS WireFormat, SequencesExt

CONSTANTS
  PAGE_SIZE,     \* bytes in the page of send_queue (4096)
  StringSizes,   \* sizes of strings, with the byte that ends them
  MaxRequests    \* bound: requests composed

ASSUME RequestWireAssumption ==
  /\ PAGE_SIZE \in Nat \ {0} /\ PAGE_SIZE % 4 = 0
  /\ StringSizes \subseteq Nat \ {0}
  /\ MaxRequests \in Nat

VARIABLES
  page,        \* the word at each address of the page
  offset,      \* access_ptr - buffer
  overrun,     \* whether a writer has left what Allocate gave it
  composed,    \* requests composed so far
  pending,     \* those the compositor has not decoded (history)
  stream,      \* the words in the socket
  received,    \* the request last decoded
  failure

vars == <<page, offset, overrun, composed, pending, stream, received, failure>>

Number(value) == [value |-> value, part |-> 0]
Chunk(value, part) == [value |-> value, part |-> part]
Junk == Number(0)
Addresses == {a \in 0 .. (PAGE_SIZE - 1) : a % WL_WORD_SIZE = 0}

-----------------------------------------------------------------------------
(* The requests of the protocol, in the order of their opcodes, and the    *)
(* words of their arguments, up to the last one the code uses.  Descriptors *)
(* are no words.                                                           *)

Words(n) == [k \in 1 .. n |-> "uint"]
Named(name, args) == [name |-> name, args |-> args]

Protocol ==
  [display    |-> << Named("sync", Words(1)), Named("get_registry", Words(1)) >>,
   registry   |-> << Named("bind", <<"uint", "string", "uint", "uint">>) >>,
   compositor |-> << Named("create_surface", Words(1)) >>,
   surface    |-> << Named("destroy", Words(0)), Named("attach", Words(3)),
                     Named("damage", Words(4)), Named("frame", Words(1)),
                     Named("set_opaque_region", Words(1)), Named("set_input_region", Words(1)),
                     Named("commit", Words(0)) >>,
   shm        |-> << Named("create_pool", Words(2)) >>,
   shm_pool   |-> << Named("create_buffer", Words(6)), Named("destroy", Words(0)),
                     Named("resize", Words(1)) >>,
   buffer     |-> << Named("destroy", Words(0)) >>,
   wm_base    |-> << Named("destroy", Words(0)), Named("create_positioner", Words(1)),
                     Named("get_xdg_surface", Words(2)), Named("pong", Words(1)) >>,
   xdg_surface |-> << Named("destroy", Words(0)), Named("get_toplevel", Words(1)),
                      Named("get_popup", Words(3)), Named("set_window_geometry", Words(4)),
                      Named("ack_configure", Words(1)) >>,
   toplevel   |-> << Named("destroy", Words(0)), Named("set_parent", Words(1)),
                     Named("set_title", <<"string">>), Named("set_app_id", <<"string">>),
                     Named("show_window_menu", Words(4)), Named("move", Words(2)),
                     Named("resize", Words(3)), Named("set_max_size", Words(2)),
                     Named("set_min_size", Words(2)), Named("set_maximized", Words(0)),
                     Named("unset_maximized", Words(0)), Named("set_fullscreen", Words(1)),
                     Named("unset_fullscreen", Words(0)) >>,
   seat       |-> << Named("get_pointer", Words(1)), Named("get_keyboard", Words(1)) >>,
   pointer    |-> << Named("set_cursor", Words(4)), Named("release", Words(0)) >>,
   dmabuf     |-> << Named("destroy", Words(0)), Named("create_params", Words(1)),
                     Named("get_default_feedback", Words(1)),
                     Named("get_surface_feedback", Words(2)) >>]

Object == [display |-> 1, registry |-> 2, compositor |-> 3, surface |-> 4, shm |-> 5,
           shm_pool |-> 6, buffer |-> 7, wm_base |-> 8, xdg_surface |-> 9, toplevel |-> 10,
           seat |-> 11, pointer |-> 12, dmabuf |-> 13]

-----------------------------------------------------------------------------
(* The request methods: the request meant, and for it the opcode, the      *)
(* number of words stated in the code, besides those of the bytes of a     *)
(* string, and the arguments written.  All of them are here but dmabuf's   *)
(* params::add, whose writes are commented out.                            *)

Writes(interface, name, opcode, words, args) ==
  [interface |-> interface, name |-> name, opcode |-> opcode, words |-> words, args |-> args]

Display == {Writes("display", "get_registry", 1, 1, Words(1))}
Registry == {Writes("registry", "bind", 0, 3 + WL_WORD_SIZE, <<"uint", "string", "uint", "uint">>)}
Compositor == {Writes("compositor", "create_surface", 0, 1, Words(1))}
Surface == {Writes("surface", "attach", 1, 3, Words(3)), Writes("surface", "commit", 6, 0, Words(0))}
Shm == {Writes("shm", "create_pool", 0, 2, Words(2))}

\* Plausible bug: create_buffer does not count its id.
ShmPoolFive == {Writes("shm_pool", "create_buffer", 0, 5, Words(6)),
                Writes("shm_pool", "destroy", 1, 0, Words(0)),
                Writes("shm_pool", "resize", 2, 1, Words(1))}

ShmPool == {Writes("shm_pool", "create_buffer", 0, 6, Words(6)),
            Writes("shm_pool", "destroy", 1, 0, Words(0)), Writes("shm_pool", "resize", 2, 1, Words(1))}
Buffer == {Writes("buffer", "destroy", 0, 0, Words(0))}
WmBase == {Writes("wm_base", "create_positioner", 1, 1, Words(1)),
           Writes("wm_base", "get_xdg_surface", 2, 2, Words(2)), Writes("wm_base", "pong", 3, 1, Words(1))}
XdgSurface == {Writes("xdg_surface", "get_toplevel", 1, 1, Words(1)),
               Writes("xdg_surface", "ack_configure", 4, 1, Words(1))}
Toplevel == {Writes("toplevel", "destroy", 0, 0, Words(0)),
             Writes("toplevel", "set_title", 2, WL_WORD_SIZE, <<"string">>),
             Writes("toplevel", "set_maximized", 9, 0, Words(0)),
             Writes("toplevel", "unset_maximized", 10, 0, Words(0)),
             Writes("toplevel", "set_fullscreen", 11, 1, Words(1)),
             Writes("toplevel", "unset_fullscreen", 12, 0, Words(0))}
Seat == {Writes("seat", "get_pointer", 0, 1, Words(1)), Writes("seat", "get_keyboard", 1, 1, Words(1))}
Pointer == {Writes("pointer", "set_cursor", 0, 4, Words(4)), Writes("pointer", "release", 1, 0, Words(0))}
Dmabuf == {Writes("dmabuf", "create_params", 1, 1, Words(1)),
           Writes("dmabuf", "get_surface_feedback", 3, 2, Words(2))}

Methods == UNION {Display, Registry, Compositor, Surface, Shm, ShmPool, Buffer, WmBase, XdgSurface,
                  Toplevel, Seat, Pointer, Dmabuf}

\* The k-th argument of the n-th request.  Numbers have no size.
Argument(n, k, type, size) ==
  [value |-> 10 * n + k, size |-> IF type = "string" THEN size ELSE 0]

Request(n, method, size) ==
  [interface |-> method.interface, name |-> method.name,
   args |-> [k \in DOMAIN method.args |-> Argument(n, k, method.args[k], size)]]

NoRequest == [interface |-> "", name |-> "", args |-> <<>>]
Malformed == [interface |-> "", name |-> "malformed", args |-> <<>>]
Requests ==
  {Request(n, method, size) : n \in 1 .. MaxRequests, method \in Methods, size \in StringSizes}

Init ==
  /\ page = [a \in Addresses |-> Junk]
  /\ offset = 0
  /\ overrun = FALSE
  /\ composed = 0
  /\ pending = <<>>
  /\ stream = <<>>
  /\ received = NoRequest
  /\ failure = "none"

-----------------------------------------------------------------------------
(* The client. *)

\* The words a method says its request has; bind and set_title say too many.
SizeOf(method, size) ==
  method.words + IF method.name \in {"bind", "set_title"} THEN word_size(size) ELSE 0

\* A writer: the page, the cursor, and whether write() has gone too far.
\* Words beyond the page are not kept.
Put(writer, words) ==
  [writer EXCEPT !.page = [a \in Addresses |->
     LET k == (a - writer.cursor) \div WL_WORD_SIZE + 1
     IN IF a >= writer.cursor /\ k \in DOMAIN words THEN words[k] ELSE @[a]]]

WriteNumber(writer, value) ==
  [Put(writer, <<Number(value)>>) EXCEPT !.cursor = @ + WL_WORD_SIZE]

WriteString(writer, string) ==
  [Put(writer, <<Number(string.size)>>
               \o [k \in 1 .. word_size(string.size) |-> Chunk(string.value, k)])
     EXCEPT !.cursor = @ + serialised_size(string.size)]

Write(writer, arg) ==
  IF arg.size > 0 THEN WriteString(writer, arg) ELSE WriteNumber(writer, arg.value)

\* Plausible bug: object and size change places in the header.
NewWriterSwapped(start, method, size) ==
  [Put([page |-> page, cursor |-> start],
       <<Number(PackHeader(size, method.opcode)), Number(Object[method.interface])>>)
     EXCEPT !.cursor = start + WL_EVENT_HEADER_SIZE]

NewWriter(start, method, size) ==
  [Put([page |-> page, cursor |-> start],
       <<Number(Object[method.interface]), Number(PackHeader(size, method.opcode))>>)
     EXCEPT !.cursor = start + WL_EVENT_HEADER_SIZE]

\* A request method, from the constructor of wl_message to the last write.
Compose(method, string) ==
  LET size == MessageSize(SizeOf(method, string))
      request == Request(composed + 1, method, string)
      writer == FoldLeft(Write, NewWriter(offset, method, size), request.args)
  IN
  /\ failure = "none" /\ composed < MaxRequests
  /\ offset' = offset + size
  /\ IF offset + size >= PAGE_SIZE
     THEN failure' = "overflow" /\ UNCHANGED <<page, overrun, composed, pending>>
     ELSE /\ page' = writer.page
          /\ overrun' = (overrun \/ writer.cursor > offset + size)
          /\ composed' = composed + 1
          /\ pending' = Append(pending, request)
          /\ UNCHANGED failure
  /\ UNCHANGED <<stream, received>>

\* dispatch_pending with something to send.
Send ==
  /\ failure = "none" /\ offset > 0
  /\ stream' = stream \o [k \in 1 .. (offset \div WL_WORD_SIZE) |-> page[WL_WORD_SIZE * (k - 1)]]
  /\ offset' = 0
  /\ UNCHANGED <<page, overrun, composed, pending, received, failure>>

-----------------------------------------------------------------------------
(* The compositor. *)

\* A string of n bytes takes the least number of words that holds them.
WordsFor(n) == (n + 3) \div 4

\* One argument more, from the word `at' of the message on.
Demarshal(state, type, message) ==
  LET word(k) == IF k \in DOMAIN message THEN message[k] ELSE Junk
      size == word(state.at).value
      first == word(state.at + 1)
      whole == \A k \in 1 .. WordsFor(size) :
                 word(state.at + k) = Chunk(first.value, k)
  IN IF type = "uint"
     THEN [at |-> state.at + 1, args |-> Append(state.args, [value |-> size, size |-> 0])]
     ELSE [at |-> state.at + 1 + WordsFor(size),
           args |-> Append(state.args, [value |-> IF whole THEN first.value ELSE 0, size |-> size])]

Decode(message) ==
  LET k == HeaderOpcode(message[2].value) + 1
      known == {i \in DOMAIN Object : Object[i] = message[1].value /\ k \in DOMAIN Protocol[i]}
      interface == CHOOSE i \in known : TRUE
      step(state, type) == Demarshal(state, type, message)
  IN IF known = {} THEN Malformed
     ELSE [interface |-> interface, name |-> Protocol[interface][k].name,
           args |-> FoldLeft(step, [at |-> 3, args |-> <<>>], Protocol[interface][k].args).args]

\* It takes the next request by its size, or ends on one that makes no sense.
Receive ==
  /\ stream # <<>> /\ received # Malformed
  /\ LET words == IF Len(stream) > 1
                  THEN HeaderSize(stream[2].value) \div WL_WORD_SIZE ELSE 0
     IN IF words \in 2 .. Len(stream)
        THEN /\ received' = Decode(SubSeq(stream, 1, words))
             /\ stream' = SubSeq(stream, words + 1, Len(stream))
        ELSE received' = Malformed /\ stream' = <<>>
  /\ pending' = IF pending = <<>> THEN <<>> ELSE Tail(pending)
  /\ UNCHANGED <<page, offset, overrun, composed, failure>>

Next ==
  \/ \E method \in Methods, string \in StringSizes : Compose(method, string)
  \/ Send
  \/ Receive

Spec == Init /\ [][Next]_vars

-----------------------------------------------------------------------------
(* Properties. *)

Path == INSTANCE Outbox WITH
          Message <- Requests, NoMessage <- NoRequest,
          outbox <- pending, delivered <- received

\* What the compositor decodes from the words is what the methods were called
\* with: the same object, opcode and arguments, once each and in order.
DecodedAsComposed == Path!Spec

\* queue.h: the caller of Allocate should not write outside of what it gets.
WritesInside == ~overrun

=============================================================================
