------------------------------ MODULE EventWire ------------------------------
(***************************************************************************)
(* Events, from the words of recv_queue's page to the listeners.           *)
(*                                                                         *)
(* handle_event of each object reads arguments one after the other with a  *)
(* reader, and calls a listener with them.  What it reads is written down  *)
(* in the code, what is there in the protocol.  The reader's own bound is  *)
(* four times the payload and only logged, so all rests on the reads.      *)
(*                                                                         *)
(* Whole events are received here; RecvStream has the cuts.                *)
(***************************************************************************)
EXTENDS WireFormat, SequencesExt

CONSTANTS
  StringSizes,   \* sizes of strings, with the byte that ends them
  ArraySizes,    \* sizes of arrays, in bytes
  FixedBits,     \* words sent as a wl_fixed, as signed numbers of 32 bits
  Interfaces,    \* the objects the compositor sends events of
  MaxEvents      \* bound: events the compositor sends

-----------------------------------------------------------------------------
(* The events of the protocol, in the order of their opcodes, and their    *)
(* arguments.  Descriptors are no words.                                   *)

Named(name, args) == [name |-> name, args |-> args]

Protocol ==
  [display  |-> << Named("error", <<"object", "uint", "string">>),
                   Named("delete_id", <<"uint">>) >>,
   registry |-> << Named("global", <<"uint", "string", "uint">>),
                   Named("global_remove", <<"uint">>) >>,
   shm      |-> << Named("format", <<"uint">>) >>,
   wm_base  |-> << Named("ping", <<"uint">>) >>,
   xdg_surface |-> << Named("configure", <<"uint">>) >>,
   toplevel |-> << Named("configure", <<"int", "int", "array">>),
                   Named("close", <<>>),
                   Named("configure_bounds", <<"int", "int">>),
                   Named("wm_capabilities", <<"array">>) >>,
   keyboard |-> << Named("keymap", <<"uint", "uint">>),
                   Named("enter", <<"uint", "object", "array">>),
                   Named("leave", <<"uint", "object">>),
                   Named("key", <<"uint", "uint", "uint", "uint">>),
                   Named("modifiers", <<"uint", "uint", "uint", "uint", "uint">>),
                   Named("repeat_info", <<"int", "int">>) >>,
   pointer  |-> << Named("enter", <<"uint", "object", "fixed", "fixed">>),
                   Named("leave", <<"uint", "object">>),
                   Named("motion", <<"uint", "fixed", "fixed">>),
                   Named("button", <<"uint", "uint", "uint", "uint">>),
                   Named("axis", <<"uint", "uint", "fixed">>),
                   Named("frame", <<>>),
                   Named("axis_source", <<"uint">>),
                   Named("axis_stop", <<"uint", "uint">>),
                   Named("axis_discrete", <<"uint", "int">>),
                   Named("axis_value120", <<"uint", "int">>),
                   Named("axis_relative_direction", <<"uint", "uint">>) >>,
   output   |-> << Named("geometry", <<"int", "int", "int", "int", "int", "string", "string", "int">>),
                   Named("mode", <<"uint", "int", "int", "int">>),
                   Named("done", <<>>),
                   Named("scale", <<"int">>),
                   Named("name", <<"string">>),
                   Named("description", <<"string">>) >>,
   seat     |-> << Named("capabilities", <<"uint">>), Named("name", <<"string">>) >>,
   surface  |-> << Named("enter", <<"object">>), Named("leave", <<"object">>),
                   Named("preferred_buffer_scale", <<"int">>),
                   Named("preferred_buffer_transform", <<"uint">>) >>,
   buffer   |-> << Named("release", <<>>) >>,
   dmabuf   |-> << Named("format", <<"uint">>), Named("modifier", <<"uint", "uint", "uint">>) >>,
   feedback |-> << Named("done", <<>>), Named("format_table", <<"uint">>),
                   Named("main_device", <<"array">>), Named("tranche_done", <<>>),
                   Named("tranche_target_device", <<"array">>),
                   Named("tranche_formats", <<"array">>), Named("tranche_flags", <<"uint">>) >>]

ASSUME EventWireAssumption ==
  /\ StringSizes \subseteq Nat \ {0}
  /\ ArraySizes \subseteq Nat
  /\ FixedBits \subseteq Int
  /\ \A bits \in FixedBits : bits \div 256 \in (-FIXED_INT_MOD) .. (FIXED_INT_MOD - 1)
  /\ Interfaces \subseteq DOMAIN Protocol
  /\ MaxEvents \in Nat

-----------------------------------------------------------------------------
(* What the code reads of an event, by opcode, and the listener it calls;  *)
(* and the listeners it declares, with the number of their arguments, and  *)
(* those of them no handle_event ever calls.  An opcode that is not here is *)
(* ignored.                                                                *)

Reads(opcode, types, listener) == [opcode |-> opcode, types |-> types, listener |-> listener]
Silent == "none"

\* read_queues itself, which takes the words from the payload without a reader.
Display ==
  [reads      |-> {Reads(0, <<"object", "uint", "string">>, "error"),
                   Reads(1, <<"object">>, "delete_id")},
   parameters |-> [error |-> 3, delete_id |-> 1],
   uncalled   |-> {}]

Registry ==
  [reads      |-> {Reads(0, <<"uint", "string", "uint">>, "global"),
                   Reads(1, <<"uint">>, "global_remove")},
   parameters |-> [global |-> 3, global_remove |-> 1],
   uncalled   |-> {}]

Shm ==
  [reads      |-> {Reads(0, <<"uint">>, "format")},
   parameters |-> [format |-> 1],
   uncalled   |-> {}]

\* No listener: pong is called.
WmBase ==
  [reads      |-> {Reads(0, <<"uint">>, "ping")},
   parameters |-> [ping |-> 1],
   uncalled   |-> {}]

XdgSurface ==
  [reads      |-> {Reads(0, <<"uint">>, "configure")},
   parameters |-> [configure |-> 1],
   uncalled   |-> {}]

\* The states of a configure and the capabilities stay unread.
Toplevel ==
  [reads      |-> {Reads(0, <<"int", "int">>, "configure"), Reads(1, <<>>, "close"),
                   Reads(2, <<"int", "int">>, "configure_bounds"),
                   Reads(3, <<>>, "wm_capabilities")},
   parameters |-> [configure |-> 2, close |-> 0, configure_bounds |-> 2, wm_capabilities |-> 0],
   uncalled   |-> {}]

\* Plausible bug: the descriptor of a keymap is looked for among the words.
KeyboardReadsFd ==
  [reads      |-> {Reads(0, <<"uint", "uint", "uint">>, Silent),
                   Reads(3, <<"uint", "uint", "uint", "uint">>, "key")},
   parameters |-> [key |-> 4],
   uncalled   |-> {}]

\* A keymap is read and printed; its format is one that handle_event knows.
Keyboard ==
  [reads      |-> {Reads(0, <<"uint", "uint">>, Silent),
                   Reads(3, <<"uint", "uint", "uint", "uint">>, "key")},
   parameters |-> [key |-> 4],
   uncalled   |-> {}]

\* handle_event has no branch for axis_stop.
Pointer ==
  [reads      |-> {Reads(0, <<"uint", "object", "fixed", "fixed">>, "enter"),
                   Reads(1, <<"uint", "object">>, "leave"),
                   Reads(2, <<"uint", "fixed", "fixed">>, "motion"),
                   Reads(3, <<"uint", "uint", "uint", "uint">>, "button"),
                   Reads(4, <<"uint", "uint", "fixed">>, "axis"),
                   Reads(5, <<>>, "frame"),
                   Reads(6, <<"uint">>, "axis_source"),
                   Reads(8, <<"uint", "int">>, "axis_discrete"),
                   Reads(9, <<"uint", "int">>, "axis_value120"),
                   Reads(10, <<"uint", "uint">>, "axis_relative_direction")},
   parameters |-> [enter |-> 4, leave |-> 2, motion |-> 3, button |-> 4, axis |-> 3, frame |-> 0,
                   axis_source |-> 1, axis_stop |-> 2, axis_discrete |-> 2, axis_value120 |-> 2,
                   axis_relative_direction |-> 2],
   uncalled   |-> {"axis_stop"}]

\* All of it is read and thrown away.
Output ==
  [reads      |-> {Reads(1, <<"uint", "int", "int", "int">>, Silent), Reads(3, <<"int">>, Silent),
                   Reads(4, <<"string">>, Silent), Reads(5, <<"string">>, Silent)},
   parameters |-> <<>>,
   uncalled   |-> {}]

\* Four listeners are declared, without parameters; handle_event is empty.
Surface ==
  [reads      |-> {},
   parameters |-> [enter |-> 0, leave |-> 0, preferred_buffer_scale |-> 0,
                   preferred_buffer_transform |-> 0],
   uncalled   |-> {"enter", "leave", "preferred_buffer_scale", "preferred_buffer_transform"}]

\* These look at no event, with or without a listener; main gives the seat one,
\* without which it would throw.
Unread == [reads |-> {}, parameters |-> <<>>, uncalled |-> {}]
Seat == Unread
Buffer == Unread
Dmabuf == Unread
Feedback == Unread

Client ==
  [display |-> Display, registry |-> Registry, shm |-> Shm, wm_base |-> WmBase,
   xdg_surface |-> XdgSurface, toplevel |-> Toplevel, keyboard |-> Keyboard,
   pointer |-> Pointer, output |-> Output, seat |-> Seat, surface |-> Surface,
   buffer |-> Buffer, dmabuf |-> Dmabuf, feedback |-> Feedback]

-----------------------------------------------------------------------------

VARIABLES
  sent,        \* events sent so far
  expected,    \* the calls that the events not yet handled are for (history)
  stream,      \* the words in the socket
  batch,       \* the words from m_ptr to the end of the last recv
  called,      \* the listener last called, and the arguments read for it
  floats,      \* what was made of its wl_fixed arguments, with their words
  strayed,     \* whether a reader has left the payload of its message
  failure

vars == <<sent, expected, stream, batch, called, floats, strayed, failure>>

Number(value) == [value |-> value, part |-> 0]
Chunk(value, part) == [value |-> value, part |-> part]
Junk == Number(0)

\* Interfaces by number, as the id of the object that has it.
Id == [display |-> 1, registry |-> 2, shm |-> 3, wm_base |-> 4, xdg_surface |-> 5,
       toplevel |-> 6, keyboard |-> 7, pointer |-> 8, output |-> 9, seat |-> 10,
       surface |-> 11, buffer |-> 12, dmabuf |-> 13, feedback |-> 14]

\* The values an argument may have: the k-th of the n-th event.  Numbers have
\* no size.
Values(n, k, type) ==
  CASE type = "fixed"  -> {[value |-> bits, size |-> 0] : bits \in FixedBits}
    [] type = "string" -> {[value |-> 10 * n + k, size |-> size] : size \in StringSizes}
    [] type = "array"  -> {[value |-> 10 * n + k, size |-> size] : size \in ArraySizes}
    [] OTHER           -> {[value |-> 10 * n + k, size |-> 0]}

\* The arguments of the n-th event, if it is this one.
Longer(seqs, values) == {Append(seq, value) : seq \in seqs, value \in values}
ArgsOf(n, interface, opcode) ==
  LET types == Protocol[interface][opcode + 1].args
      longer(seqs, k) == Longer(seqs, Values(n, k, types[k]))
  IN FoldLeftDomain(longer, {<<>>}, types)

Opcodes(interface) == 0 .. (Len(Protocol[interface]) - 1)

Call(interface, listener, args) ==
  [interface |-> interface, listener |-> listener, args |-> args]
NoCall == Call("", "", <<>>)

Listeners(client) == DOMAIN client.parameters \ client.uncalled

\* The call an event is for, if there is a listener for it.
CallsFor(interface, opcode, args) ==
  {Call(interface, listener, SubSeq(args, 1, Client[interface].parameters[listener])) :
     listener \in Listeners(Client[interface]) \cap {Protocol[interface][opcode + 1].name}}

Calls ==
  UNION {UNION {UNION {UNION {CallsFor(interface, opcode, args)
                                : args \in ArgsOf(n, interface, opcode)}
                         : opcode \in Opcodes(interface)}
                  : interface \in Interfaces}
           : n \in 1 .. MaxEvents}

Init ==
  /\ sent = 0
  /\ expected = <<>>
  /\ stream = <<>> /\ batch = <<>>
  /\ called = NoCall
  /\ floats = <<>>
  /\ strayed = FALSE
  /\ failure = "none"

-----------------------------------------------------------------------------
(* The compositor. *)

\* Its words: strings and arrays have their size before them.
Marshal(type, arg) ==
  IF type \in {"string", "array"}
  THEN <<Number(arg.size)>> \o [k \in 1 .. ((arg.size + 3) \div 4) |-> Chunk(arg.value, k)]
  ELSE <<Number(arg.value)>>

Types(interface, opcode) == Protocol[interface][opcode + 1].args
Payload(types, args) == FlattenSeq([k \in DOMAIN args |-> Marshal(types[k], args[k])])
PayloadOf(interface, opcode, args) == Payload(Types(interface, opcode), args)
EventSize(interface, opcode, args) ==
  WL_WORD_SIZE * Len(PayloadOf(interface, opcode, args)) + WL_EVENT_HEADER_SIZE

\* The size of an event, and of a string in it, fits in the half of a word that
\* the header has for it.
SizesFit ==
  /\ StringSizes \subseteq 1 .. UINT16_MOD
  /\ \A n \in 1 .. MaxEvents : \A interface \in Interfaces : \A opcode \in Opcodes(interface) :
       \A args \in ArgsOf(n, interface, opcode) : EventSize(interface, opcode, args) < UINT16_MOD

ASSUME SizesAssumption == SizesFit

Emit(interface, opcode, args) ==
  LET payload == PayloadOf(interface, opcode, args)
      size == EventSize(interface, opcode, args)
  IN
  /\ sent < MaxEvents
  /\ sent' = sent + 1
  /\ stream' = stream \o <<Number(Id[interface]), Number(PackHeader(size, opcode))>> \o payload
  /\ expected' = expected \o SetToSeq(CallsFor(interface, opcode, args))
  /\ UNCHANGED <<batch, called, floats, strayed, failure>>

-----------------------------------------------------------------------------
(* The client. *)

Recv ==
  /\ failure = "none" /\ batch = <<>> /\ stream # <<>>
  /\ batch' = stream /\ stream' = <<>>
  /\ UNCHANGED <<sent, expected, called, floats, strayed, failure>>

\* The word at a cursor.  0 stands for what lies behind the last recv, where no
\* reader looks as long as ReadsInside holds.
WordAt(cursor) == IF cursor \in DOMAIN batch THEN batch[cursor] ELSE Junk

\* read_uint, read_int, read_object and read_fixed.
ReadWord(reader) ==
  [cursor |-> reader.cursor + 1,
   args |-> Append(reader.args, [value |-> WordAt(reader.cursor).value, size |-> 0])]

\* read_string: what comes of it is a string only if its words are of one.
ReadString(reader) ==
  LET size == WordAt(reader.cursor).value
      first == WordAt(reader.cursor + 1)
      whole == \A k \in 1 .. word_size(size) : WordAt(reader.cursor + k) = Chunk(first.value, k)
  IN [cursor |-> reader.cursor + serialised_size(size) \div WL_WORD_SIZE,
      args |-> Append(reader.args, [value |-> IF whole THEN first.value ELSE 0, size |-> size])]

Read(reader, type) == IF type = "string" THEN ReadString(reader) ELSE ReadWord(reader)

\* What handle_event, or read_queues for wl_display, does with the message at
\* m_ptr, whose handler is one of `handlers', if it has one.
Dispatch(interface, handlers, words) ==
  IF handlers = {}
  THEN UNCHANGED <<expected, called, floats, strayed, failure>>
  ELSE \E handler \in handlers :
    LET reader == FoldLeft(Read, [cursor |-> 3, args |-> <<>>], handler.types)
        fixed == {k \in DOMAIN handler.types : handler.types[k] = "fixed"}
    IN
    /\ strayed' = (strayed \/ reader.cursor > words + 1)
    /\ floats' = [k \in fixed |-> [bits |-> reader.args[k].value,
                                   read |-> read_wl_fixed(reader.args[k].value)]]
    /\ IF handler.listener = Silent
       THEN UNCHANGED <<expected, called>>
       ELSE /\ called' = Call(interface, handler.listener, reader.args)
            /\ expected' = IF expected = <<>> THEN <<>> ELSE Tail(expected)
    /\ failure' = IF handler.listener = "error" THEN "exit" ELSE "none"

\* One turn of the loop in read_queues.
Handle ==
  /\ failure = "none" /\ batch # <<>>
  /\ LET header == WordAt(2).value
         words == HeaderSize(header) \div WL_WORD_SIZE
     IN \E interface \in DOMAIN Id :
          /\ Id[interface] = batch[1].value
          /\ Dispatch(interface, {h \in Client[interface].reads : h.opcode = HeaderOpcode(header)}, words)
          /\ batch' = SubSeq(batch, words + 1, Len(batch))
  /\ UNCHANGED <<sent, stream>>

Next ==
  \/ \E interface \in Interfaces :
       \E opcode \in Opcodes(interface) :
         \E args \in ArgsOf(sent + 1, interface, opcode) : Emit(interface, opcode, args)
  \/ Recv
  \/ Handle

Spec == Init /\ [][Next]_vars

-----------------------------------------------------------------------------
(* Properties. *)

Path == INSTANCE Outbox WITH
          Message <- Calls, NoMessage <- NoCall,
          outbox <- expected, delivered <- called

\* Every listener but wl_pointer's axis_stop and those of wl_surface, which the
\* code declares and never calls, is called once for every event it is declared
\* for, in order, with the values that were sent.
CalledAsSent == Path!Spec

\* No reader leaves the payload of its message, although none is stopped there.
ReadsInside == ~strayed

\* A wl_fixed is read as what it is, or at most 1/256 above.
FixedNear ==
  \A k \in DOMAIN floats :
    256 * FixedTimes255(floats[k].read) - 255 * floats[k].bits \in 0 .. 255

\* wl_types.h: read_wl_fixed reads a wl_fixed value, which is so many 256ths.
FixedExact ==
  \A k \in DOMAIN floats : 256 * FixedTimes255(floats[k].read) = 255 * floats[k].bits

=============================================================================
