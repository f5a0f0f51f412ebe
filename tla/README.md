# A verification of wayland-api-impl

The repository is a Wayland client library in C++ with a demo on top of it. The library talks the
wire protocol itself: it hands out object ids, composes requests in a page of memory, sends them with
file descriptors beside them, receives events in another page and hands each to the C++ object its id
names. The demo (`src/src/main.cpp`) binds the globals it finds, makes an xdg-shell window, draws a
gradient into shared memory and draws it anew whenever the compositor asks for another size.

The client is one thread and no lock is needed. What is hard is the other end: the compositor works at
its own pace behind two FIFO byte streams, so that creations, destructions, confirmations, resizes and
acks cross on the way, and the client's queues, buffers and descriptor numbers have fixed sizes.

Paths below are relative to `src/src/`.

## Inventory

| Component | State | Operations | Modelled in |
|---|---|---|---|
| `wl_id_assigner`, `wl_id_map` (`wl_utils/wl_id.*`) | set of ids in use; map from id to object | `request_id`, `release_id`; `get`, `create`, `destroy` | `IdTable`, `ObjectIds` |
| `send_queue` (`buffers/queue.*`) | page, `access_ptr`, `msg_n`, `fds` | `Allocate`, `AddFD`, `Send`, `Empty`, `Offset` | `SendQueue`, `Display`, `Window` |
| `recv_queue` (`buffers/queue.*`) | page, `current_size`; `m_ptr` of an iterator | `Recv`, `begin`, `end`, `*`, `++` | `RecvStream` |
| `wl_display` (`objects/display.h`) | the socket | constructor, `get_registry`, `read_queues`, `dispatch_pending`, `roundtrip`, `flush` (`sync`, `dispatch`: stubs) | `Display`; what `read_queues` does with events in `ObjectIds`, `RecvStream`, `EventWire` |
| other objects (`objects/*.h`) | id, listener | one method per request, `handle_event` | `Startup`, `Window`, `ObjectIds`, `RequestWire`, `EventWire` |
| demo: start-up (`main.cpp` 260-336) | globals `compositor`, `shm`, `seat`, `wm_base`, `output`, the listeners | `on_global_registered`, `main` up to its loop | `Startup` |
| demo: loop (`main.cpp` 92-205, 338-342) | `framebuffer`, `should_close`, the descriptor table | listeners, `Framebuffer::Create/Attach/Resize`, the loop | `Window`, `Framebuffer` |
| `wl_string` (`wl_utils/wl_string.*`) | `size_n`, `str` and the block it points to | constructors, `operator=`, destructor, `compare` | `Strings` (sizes: `WireFormat`) |
| wire format (`wl_utils/wl_event.*`, `wl_conv.cpp`, `wl_memory.cpp`) | the cursor of a reader or writer | `read_*`, `write`, `new_writer`, sizes, alignment | `WireFormat`, `RequestWire`, `EventWire` |
| logging, `BMPImage`, `wl_array` | - | - | not modelled: I/O, or without a caller |

How they interact. Every request method asks `send_queue_alloc` for bytes and writes them; `create_pool`
also calls `AddFD`. Constructors take an id and (but for `wl_shm_pool` and `wl_compositor`) an entry in
`wl_id_map`. `roundtrip` is `dispatch_pending`, then `read_queues`: one `recv`, then each event in turn.
`wl_display.error` and the null object end the process, `wl_display.delete_id` releases an id, anything
else goes to `handle_event` of the object in the map, and from there to the demo's listeners, which
compose requests. Exceptions are caught nowhere: each ends the client.

What makes each part correct:

- **ids**: two live objects never share an id; an id is not reused while a message about its former
  owner is on the way in either direction; ids come back; map and assigner agree.
- **send path**: requests arrive once and in order, each `create_pool` with its own file; nothing
  outgrows page or control buffer; the client never blocks with requests unsent; whatever calls an
  application makes, what it composed leaves the queue, and a compositor that is gone blocks no call.
- **receive path**: events are handled once, whole and in order, however `recv` cuts the stream.
- **wire format**: what is read at one end is what was written at the other, and nothing is read or written
  outside of its message.
- **strings**: each owns its memory and keeps its bytes.
- **start-up**: both ends agree on the kind of each object; no event comes before its listener; main
  fails only for a reason the compositor gave.
- **window**: the rules of xdg-shell are kept (order of ack, attach and commit; serials; live objects);
  what is shown has the size last asked for, with its pixels where the compositor reads them; pings,
  configures and close take effect.

`PROJECT.json` lists the hazards at their lines, with the properties aimed at each.

## Modules

- `IdTable` - the two tables as operators on their contents. `RequestId` is the scan of `request_id`
  (least free id below `WL_NEW_ID_MAX`, which is itself never handed out).
- `IdLifecycle` - abstract: an id is free, live, or a zombie (destroyed, not confirmed).
- `ObjectIds` - the tables with both FIFO directions and the compositor's own table. `Construct` is any
  constructor together with its request, `Destroy` any `destroy()`, `ReadDeleteId` and `ReadEvent` the
  branches of `read_queues`. `ConstructThrows` is the exhausted range.
- `SendQueue` - the send queue as operators on a record (requests, descriptors, `Offset()`).
- `Outbox` - abstract: messages composed are delivered once and in order.
- `Display` - `wl_display` and its `send_queue` between an application and the compositor. `Socket` and
  `Connect` are the constructor; `Roundtrip`, `Flush` and `Call_dispatch_pending` are calls the
  application may make in any order, `Compose` a request it makes between calls or in a listener; `Peek`,
  `Recv`, `EventHandled` and `Return` are the steps inside a call. Page overflow, control buffer overrun,
  a `sendmsg` that fails or takes only part of the page (`SendCutShort`), a failing `recv`, an event that ends the client and a compositor that hangs up are in it.
  The compositor pairs descriptors with requests by order, as libwayland does. Listeners do not call back into `roundtrip`.
- `RecvStream` - `recv_queue`, its iterator and the loop of `read_queues` on a stream of 4-byte words.
  A word knows its event and place, so that an iterator that has lost the frame reads what the code
  would: the size field is then any value up to `MaxField`. `crowded` is a history variable: whether more than a page
  has waited in the socket at some time.
- `Startup` - `main` to its loop and the registry listener. `BuildWindow` is lines 315-328, `BuildDevices`
  330-336. The compositor may offer globals in any order, too few, two of a kind, add some later and
  take some back; it checks ids as libwayland does (free, and leaving no gap). A ping is answered, and a configure
  acked and drawn for (`Answered`), wherever it comes; the module leaves sizes out, which resize nothing here.
- `Window` - the loop, the listeners and the `Framebuffer`, starting where `Startup` ends, with the
  kernel's descriptor table and a compositor that checks the protocol (`protocol_error`). It may ask for any size
  of 32 bits. `Fault` is a resize whose mapping the system refused, which the code writes to all the same, or
  whose drawing wraps far behind the mapping. `received` is a history variable: the events of the recv that is being handled.
- `Framebuffer` - the stride, size, pixel offsets and pool size `Framebuffer::Create` computes, each in the
  width the code computes it in, and what libwayland demands of a buffer. `Window` extends it.
- `Strings` - the heap blocks behind `wl_string`s that any caller makes, assigns, copies, compares and
  destroys. The program itself copies none; `copied` records whether one was, and the properties tell
  what is lost by it.
- `WireFormat` - sizes, alignment, the packed header and `read_wl_fixed`, as operators on integers.
- `RequestWire` - request methods writing words into the page of the send queue, and a compositor that
  finds each request by the size in the header and its arguments by the signature of the opcode.
  `Protocol` is what the Wayland protocol says, `Display` to `Dmabuf` are the request methods, all of them
  but `params::add`, each with the number of words it states by hand. `Compose` is a whole method: constructor, `new_writer`, writes.
- `EventWire` - all events of the interfaces the code has a class for, as the compositor marshals them, and
  the reads of each `handle_event` (of `read_queues` for `wl_display`). `Protocol` is what the Wayland
  protocol says, `Display` to `Feedback` what the code reads and which listeners it declares; the runs compare them. Five declared
  listeners are never called and stand in `uncalled`: `axis_stop` of `wl_pointer` and the four of `wl_surface`.
- `WindowInvariant` - the invariants of `Window` that are inductive. `window_small` checks them, the proofs use them.
- `ObjectIdsProofs`, `WindowProofs`,
  `WireFormatProofs` (about `WireFormat` and `RequestWire`), `EventWireProofs`, `StringsProofs`, `DisplayProofs`,
  `RecvStreamProofs`, `StartupProofs` - theorems. `MC*` - instances for TLC.

`ObjectIds` and `Startup` extend `IdTable`; `Display` and `Window` extend `SendQueue`;
`RequestWire` and `EventWire` extend `WireFormat`; the four of `Display`, `RecvStream`, `RequestWire`
and `EventWire` each instantiate `Outbox`, `ObjectIds` instantiates `IdLifecycle`.

Abstractions. Payloads, opcodes and wording are gone; a request is its operation and the object it is
about (in `RequestWire` and `EventWire` it is its words instead; a word of a string knows the string and its
place in it, so bytes within a word and their padding are left out). In `Window` the n-th framebuffer, its pool, buffer and file all go by the number n (the ids behind
them are the subject of `ObjectIds`). The requests one handler writes overflow together, because the
exception ends the client either way. In `RecvStream` "handled" means that the body of the loop ran,
`delete_id` included.

## Runs

| Run | Question | Bounds and why they suffice |
|---|---|---|
| `ids` | Are ids safe while messages cross, and do they come back? Do the tables implement `IdLifecycle`? Is the proofs' invariant right? | 4 objects (one unregistered, like a pool), 3 ids: reuse and exhaustion both happen; 2 events in flight besides delete_ids; no symmetry, because of `IdsReturn` |
| `display` | Are requests and descriptors paired as composed? Do they leave the queue whatever calls are made? What happens when the compositor hangs up? | page of 40 bytes with requests of 12, so 3 fit and the 4th overflows; 3 descriptors overrun the control buffer of 2; one event waiting is enough for a listener to run, since the next comes while it does |
| `display_count` | Does `dispatch_pending` return what it says? (no) | the same with a count that wraps at 3 |
| `recv_stream` | Is every event handled whole, once, in order, however recv groups them? | page of 6 words, events of 2 and 3, up to 9 words waiting: with more than 6 a cut falls between events, in a payload or in a header, and only `FrameKept` speaks about what follows |
| `recv_stream_cut` | And is none ever handled that is cut? (no) | the same |
| `startup` | Does main set up its window, and why may it not? | 4 lists of globals: sufficient, in another order, with two seats and a compositor beyond the first recv, and without wm_base; recv of 5 events; one more seat or output later; seats with and without a keyboard or a pointer |
| `window` | Is the configure/resize/ack/attach dance legal? Do pings, configures, close and repaints get done, is nothing left unsent, does each pool get its file? | 2 configures, 3 sizes (one "you choose"), 1 ping, batches of 4, page of 193, which holds the replies to any such batch, so that the liveness properties are not met by an overflow |
| `window_small` | Does the dance show what was asked for, where the compositor reads it, also where 32 bits wrap? Does the page overflow only for the replies to one recv? | 3 configures, since a resize lost between two acks needs a third; batches of 3 and a page of 124: two resizes in a batch fit, other batches overflow it; 32 bits are 7, and of 5 sizes one has too many bytes for a wl_int and one a stride that wraps and passes the compositor's checks |
| `request_wire` | Is a request decoded as it was meant, whatever its method reserves? | 3 requests in a page of 24 words, so that a third may overflow it and later ones meet what earlier ones left; strings of 1, 4 and 5 bytes: below, at and above a word; wl_uint16 of 8 bits |
| `strings` | Does each string own its memory, whatever strings are made, assigned and destroyed around it? | 3 strings, so that two share while a third is assigned; a block more than strings; texts of 0 and 1 bytes, with and without the byte that ends them |
| `event_wire` | Is each event read as it was sent? | every event of every interface, two in a row; strings as above, arrays of 0 and 4 bytes, fixed numbers around 0, -1 and 1; 14 interfaces, 5 listeners of which are excepted |
| `event_wire_fixed` | Is a `wl_fixed` read exactly? (no) | the same, for the pointer |

The type invariants of `ObjectIds` and `Window` are conjuncts of the `IInv` that `ids` and `window_small` check. `RequestWire` and
`EventWire` have none: what their words may be is the question of their other properties.

Deadlock is not checked: in each model the program may stop (close, exception, a bound on what the
compositor sends), and waiting in `recv` for ever is what the demo does when nothing happens.

Bounds named in the modules: `MaxEvents`, `MaxConfigures`, `MaxPings`, `MaxGlobals`, `MaxEmits` (what the
compositor sends), `Burst` (what waits in the socket), `SocketSize`, `MaxRequests` (what the client composes), `COUNT_MOD` (2^32
in the code), `UINT16_MOD` (2^16 in the code) and the page sizes. They only stop the compositor or shrink a page. Events per page are bounded by
`BatchMax`; in the code 4096 bytes hold at most 512 events of 8 bytes.

Fairness. In `Window`, `Startup`, `RecvStream` and `ObjectIds` the client's steps are weakly fair as one action (one thread that pauses only in `recv`, which
is enabled when there is something to receive), and so are the compositor's steps that serve requests.
Its spontaneous events are not fair. In `Display` each step inside a call is weakly fair, and so is calling
`roundtrip` or `flush` as such, which is what a loop like the one in `main` does; composing, calling
`dispatch_pending`, emitting and hanging up are not, nor is the choice between the two calls. `sendmsg` may
fail whenever it is called.

Three runs show a disagreement, with TLC's counterexample:

- `display_count`: `Send` returns `msg_n` (queue.cpp:119), which nothing resets. display.h:144
  promises the number of messages dispatched. After two dispatches of one message each, it returns 2.
- `recv_stream_cut`: `operator++` (queue.cpp:42-50) throws "Fatal stream frame misalignment" after the
  body of the loop has run. An event that ends beyond what was received has been handled by then. As
  the cut falls at the end of the page, what is read lies behind the page.
- `event_wire_fixed`: `read_wl_fixed` divides by `UINT8_MAX` (wl_conv.cpp:25), and a `wl_fixed` counts 256ths.
  The value is at most 1/256 too large (`FixedNear`), and 255/256 becomes 1.

## Proofs

All theorems hold for every value of the constants that meets the named assumptions beside their
declarations; nothing else is assumed.

`ObjectIdsProofs`. `TypeCorrect` is proved first. The invariant `IInv` of `ObjectIds` says where the
messages about an object may stand: an id in use has exactly one holder (`IdsInv`, `MapInv`); a queued
request is about the holder of its id, is announced once and destroyed once in this order
(`RequestsInv`); the compositor knows an object from its announcement to its destroy (`ResourcesInv`);
and a `delete_id` is the last message about its object in both directions (`EventsInv`). The last part
is why the id may be reused as soon as `delete_id` is read. The safety properties of the run follow, and
`Implements` shows the refinement of `IdLifecycle` under the mapping `Use`.

`WindowProofs`. `DescriptorsInv` has `QueueInv` (the queue is empty whenever the client blocks; at
most the current descriptor waits in it, only before the first dispatch; what is in it and what the rest of
the batch will add is no more than the replies to what was received) and `RightsInv` (files in the ancillary stream and
`create_pool` requests in the socket are the same numbers in the same order). From it:
`PoolsAlwaysGetTheirFile`, `DescriptorsAlwaysFit`, `AlwaysSendsBeforeBlocking`, `AlwaysRoomForReplies`.
`AlwaysRoomForReplies` promises no room: with the 4096 bytes of the code the configures of one recv can ask for more replies than
fit (about 128 pairs of `xdg_toplevel` and `xdg_surface.configure` without a size, of 32 bytes, bring 40 bytes
of requests each, 5120 in all), and `Allocate` then throws. It says that nothing else overflows the page, for any page.

`AlwaysDrawnWhereRead` is about every pixel of every size that the compositor may ask for and then accept as a
buffer. The 32-bit products of `Framebuffer::Create` may wrap. What keeps the pixels in place is that a buffer
passes the compositor's checks only if it is small enough, or is one row whose stride wraps (`SizesInv`,
`AcceptedLemma`); drawing that runs far behind the mapping has ended the process before (`DrawsFarOutside`).
`ProtocolObeyed` allows that a buffer is refused for its size only if a size was asked for that is not `Drawable`.

Its second part is about the protocol. What is on its way in either direction is one sequence: `Path` (socket, then queue) and
`Coming` (batch, then socket). `IInv` adds to `DescriptorsInv` that `Path` leads from what the compositor has
to what the client has, and `Coming` the other way: the requests about Framebuffers are the rest of their
lives, one each and in order, with every attach where its buffer lives (`LivesInv`); the configures and the
acks under way carry the serials not yet heard of and not yet acked (`SerialsInv`); and an ack is followed by
an attach of the size that was asked for, and that by a commit (`CommitsInv`). `ProtocolObeyed` alone is far
from inductive: that the buffer in an attach is alive when the compositor comes to it depends on the place of
every destroy in the queue. From it: `ProtocolAlwaysObeyed`, `AlwaysShowsWhatWasAsked` and the action property
`AckAlwaysBringsBuffer`, for any number of configures, pings and resizes in any interleaving.

`StartupProofs`. The invariant chooses two things that no variable holds: `kind`, one kind for every id,
and `seen`, the name of the last global handled. Ids in use are one row without a gap, no longer than
the globals seen and what main has built allow (`IdsInv`), so they never run out; requests under way make just the ids that the compositor
does not know, the lower ones first, and none uses an id before it is made (`InTurn`), which is why the
compositor's rule for new ids (`Acceptable`) is met; globals under way are in the order of their names
(`InOrder`); `PhaseInv` says what cannot have happened before main has built its window, and `ListenersInv` which objects have
their listeners. Then `BothEndsAgree` and `FailsForCause`, for any lists of globals that come and go at any
time, with any page and any capabilities of the seat.

`DisplayProofs`. Requests and descriptors travel in two streams. What keeps them paired is a count: on the
way in all as many descriptors wait as requests that need one (`Matched`), and in the socket no fewer (`Covered`): a `sendmsg` cut short
sends all descriptors and not all requests. With it the compositor
never lacks a descriptor (`TypeCorrect`), and `PathImplementsOutbox` shows that every step is one of `Outbox`
or none, under the mapping that gives each request on its way its file, for any order of calls.

`RecvStreamProofs`. `TypeCorrect` and `FrameAlwaysKept` hold however much waits in the socket and wherever `recv` cuts
it: an event that the page cuts in its payload ends the client by the check of `operator++`; a page that ends between
the two words of a header is the exception, since the size is then read from what an earlier recv left. `PathImplementsOutbox`
says that up to the moment when more than a page waits for the first time (`crowded`), events are handled once, whole and in order:
after it this is false, which is what `recv_stream_cut` shows. The invariant says that until then batch and
socket are made of whole events (`Whole`), and that there is a list of the places where events begin (`Lists`).

`StringsProofs`. `TypeOK`, `EachOwnsItsBytes` and `FaultsOnlyForCause` are inductive together: as long as no string
was copied, the blocks of the heap are those of the strings in scope, one each, so that no operation meets a
freed one; and the first fault is the last step.

`WireFormatProofs`. First the arithmetic that both wire modules rest on, for every length and every width of
`wl_uint16`: `wl_align` gives the least multiple that is not less (`AlignsToWord`); so strings take the
words the compositor looks for (`StringsAgree`); `bind` and `set_title` reserve enough as long as the size
fits the 16 bits it is kept in (`ReservesEnough`; a title would need 64 KiB to leave them); headers are read
as packed (`HeaderRoundTrip`).

Then the way of a request. A writer that has come to an address has filled the page up to there with known
words (`Wrote`), and each write appends those of its argument (`WriteLemma`, `WritesLemma`), so that a
method leaves its header, its arguments (`Payload`) and, where it reserves more than it writes, whatever was
in the page (`padding`). `MeantLemma` compares the methods with the protocol, interface by interface: opcode
and types of arguments are those the compositor reads by. Hence it decodes the request that was meant,
whatever the padding (`ReadsLemma`, `DecodeLemma`), and finds the next one, since the size in the header
counts the padding (`WriterLemma`). The invariant `IInv` says that page and socket hold whole requests, and
that these are the ones pending, in this order (`Queued`). "Whole requests" is `Cuts`, the least set of
pairs of words and requests that holds the empty pair and to which a request can be put first:
`CutInduction` serves in place of an induction over sequences, and gives that pairs can be joined
(`CutJoin`, for `Compose` and `Send`) and taken apart (`CutFirst`, for `Receive`). From it:
`AlwaysWritesInside`, every writer ends within what `Allocate` gave it, and `AlwaysDecodedAsComposed`, page
and socket implement `Outbox` with requests for messages, for any requests and all sizes of strings whose
requests fit those 16 bits (`SizesFit`, the hypothesis of both, which the instance of `request_wire` meets).

`EventWireProofs`. The other direction, built the same way. `TableLemma` compares the reads of each handler
with what the protocol says is in the event (`Matches`): as many, of the same types up to where the handler
stops. `ReaderLemma` follows a reader through the words of an event behind any others, as there is no end at
which `read_*` would stop. `IInv` says that page and socket each hold whole events (`Cuts` again) and that
the calls expected are theirs, in order. From it: `AlwaysReadsInside`, `AlwaysFixedNear` and
`AlwaysCalledAsSent`, the refinement of `Outbox` with the calls of listeners for messages, for any events in
any order and number; the listeners in `uncalled` are left out of the calls expected. The constants are as the wire has them: events and the strings in them fit the 16 bits
of the header (`SizesAssumption`, which TLC evaluates on both runs of `EventWire`) and fixed numbers are
signed 32-bit words. `FixedIsNear` is about all 2^32 of them: `read_wl_fixed` is right about the integer,
negative ones included, and close about the fraction.

Folds and induction. The theorems of the library on recursive functions take an operator and cannot be used
here. Where a proof needs them (`FoldExists` and `FoldSteps`, which turn the fold over the arguments of a
message into a function of the steps done; `LargestLemma`; the list of a set in `StartupProofs`) it goes
back to the least element of a set of numbers, `WFMin`.

Only model-checked: liveness (`IdsReturn`, `PingsAnswered`, `ConfiguresApplied`, `CloseEnds`, `Repainted`,
`EventsHandled`, `SetUpCompletes`, `RequestsLeave`, `HangUpNoticed`), which is out of the prover's reach, as
it needs fairness and `ENABLED`. Every other property that a passing run checks is a theorem. The three
properties that are violated (see above) have none.

## Not modelled

- Partial writes by the compositor: it is taken to write whole events, as libwayland does.
- A failing `sendmsg` in `Window` (it is in `Display`): the client ends there.
- `wl_buffer.release` beyond its decoding: the code ignores it, reuses no buffer and makes a new one instead.
- The memory of mapped framebuffers, which `Resize` never unmaps: it grows, no behaviour depends on it.
- `dispatch`, `sync`, `set_parent`, `set_app_id`, `get_popup`, `create_region` and `wl_seat::release`, whose bodies
  are empty, and `params::add`, whose writes are commented out. The first of these is documented to send
  and to block (display.h:154-159).
- A listener that calls `roundtrip`: recv would overwrite the page the outer loop reads (queue.h:38).
- What `wl_output` and the listeners of pointer and keyboard do with an event: nothing, or they print it.
- `wl_array`, which has no caller; access to single characters of a `wl_string`; a heap that runs out.
- Single bytes and their order, and the rounding of `float`.
- The wrap of a size in 16 bits, in `RequestWire`: strings that long are outside its bounds and its theorems' hypothesis.
- What a client does for ever after the compositor hung up while it has nothing to send: its `recv` returns 0 each time,
  and the loop of `main` calls it again. `Display` has these steps, no property is about them.
- `BMPImage`: `linus.bmp` is loaded before `main` and not looked at again. Logging, the names of enums.

## Plan

Two things could be modelled on top: a stream of single bytes under `RecvStream`, for a compositor that writes
parts of events, and a listener that calls `roundtrip`.
