------------------------------- MODULE Window --------------------------------
(***************************************************************************)
(* The demo of main.cpp from the moment its window is set up: the loop     *)
(* around wl_display.roundtrip, the listeners that answer the compositor,  *)
(* and the Framebuffer that is destroyed and built anew on every resize.   *)
(*                                                                         *)
(* The client is one thread.  It writes requests into the send queue while *)
(* it handles the events of one recv, and sends them before the next; in   *)
(* between the compositor works at its own pace at the other end of two    *)
(* FIFO streams.  The n-th Framebuffer, its pool, its buffer and its memfd *)
(* all go by the number n; ObjectIds has the ids behind those numbers.     *)
(***************************************************************************)
EXTENDS SendQueue, Framebuffer, FiniteSets

CONSTANTS
  Extents,        \* sizes [w, h] of a window, 0 standing for `the client chooses'
  Default,        \* the size the demo starts with, 200 by 200
  BatchMax,       \* events one recv may return
  MaxConfigures,  \* bound: configures the compositor sends
  MaxPings        \* bound: pings the compositor sends

None == 0

\* Bytes of requests: a header of 8 and a word for each argument.
SetupBytes == 24 + 56    \* get_pointer, get_keyboard, then CreateBytes
CreateBytes == 56        \* create_pool 16, create_buffer 32, commit 8
DestroyBytes == 16       \* wl_buffer.destroy 8, wl_shm_pool.destroy 8
AttachBytes == 28        \* attach 20, commit 8
AckBytes == 12
PongBytes == 12

ASSUME WindowAssumption ==
  /\ Extents \subseteq [w : 0 .. (UINT_MOD - 1), h : 0 .. (UINT_MOD - 1)]
  /\ Default \in Extents /\ Sized(Default) /\ Drawable(Default)
  /\ BatchMax \in Nat \ {0}
  /\ MaxConfigures \in Nat
  /\ MaxPings \in Nat
  /\ SetupBytes < PAGE_SIZE

VARIABLES
  \* the client
  pc,            \* where main's loop is: "dispatch", "recv", "handle", "done"
  failure,       \* the exception or the signal that ended it
  batch,         \* events of the last recv not handled yet
  received,      \* history: the events of the last recv, while they are handled
  queue,         \* send_queue
  frame,         \* number of the current Framebuffer
  fd,            \* its shared_memory_fd
  files,         \* the process's descriptor table: the memfd of each open number
  should_close,
  extents,       \* the size of each Framebuffer ever made
  \* the connection
  socket,        \* requests on their way
  rights,        \* files on their way, as ancillary data
  incoming,      \* events on their way
  \* the compositor
  pools,         \* the file behind each pool
  buffers,       \* live buffers
  attached,      \* buffer attached since the last commit
  shown,         \* buffer of the last commit that had one
  ready,         \* the surface had its first commit
  configured,    \* the size in each configure sent; its index is the serial
  acked,         \* last serial acked
  applied,       \* last serial acked before a commit
  pings, pongs,  \* pings sent, pongs received
  closing,       \* a close event was sent
  protocol_error

client == <<pc, failure, batch, received, queue, frame, fd, files, should_close, extents>>
surface == <<attached, shown, ready, acked, applied>>
compositor == <<pools, buffers, surface, configured, pings, pongs, closing, protocol_error>>
vars == <<client, socket, rights, incoming, compositor>>

Requests ==
  [op : {"create_pool", "create_buffer", "destroy_buffer", "destroy_pool",
         "attach", "commit", "ack", "pong", "other"}, n : Nat]

Events ==
  [ev : {"toplevel_configure"}, extent : Extents]
    \cup [ev : {"configure", "ping", "close"}, n : Nat]

R(op, n) == [op |-> op, n |-> n]
E(ev, n) == [ev |-> ev, n |-> n]
ToplevelConfigure(extent) == [ev |-> "toplevel_configure", extent |-> extent]

CreateRequests(n) == <<R("create_pool", n), R("create_buffer", n), R("commit", None)>>
DestroyRequests(n) == <<R("destroy_buffer", n), R("destroy_pool", n)>>
AttachRequests(n) == <<R("attach", n), R("commit", None)>>

TypeOK ==
  /\ pc \in {"dispatch", "recv", "handle", "done"}
  /\ failure \in {"none", "overflow", "overrun", "badfd", "fault"}
  /\ batch \in Seq(Events) /\ received \in Seq(Events)
  /\ queue \in Queues(Requests, Nat)
  /\ failure = "none" => queue.offset < PAGE_SIZE
  /\ frame \in Nat \ {0}
  /\ fd \in Nat
  /\ files \in [DOMAIN files -> Nat]
  /\ should_close \in BOOLEAN
  /\ extents \in Seq(Extents)
  /\ socket \in Seq(Requests)
  /\ rights \in Seq(Nat)
  /\ incoming \in Seq(Events)
  /\ pools \in [DOMAIN pools -> Nat]
  /\ buffers \subseteq Nat
  /\ attached \in Nat /\ shown \in Nat
  /\ ready \in BOOLEAN
  /\ configured \in Seq(Extents)
  /\ acked \in Nat /\ applied \in Nat
  /\ pings \in Nat /\ pongs \subseteq Nat
  /\ closing \in BOOLEAN
  /\ protocol_error \in {"none", "object", "size", "serial", "unconfigured", "fd"}

\* main() up to its loop: the surface and its roles exist, and the requests
\* since the last dispatch_pending wait in the send queue.
Init ==
  /\ pc = "dispatch"
  /\ failure = "none"
  /\ batch = <<>> /\ received = <<>>
  /\ frame = 1 /\ fd = 1
  /\ files = [d \in {1} |-> 1]
  /\ extents = <<Default>>
  /\ queue = AddFD(Allocate(EmptyQueue,
                     <<R("other", None), R("other", None)>> \o CreateRequests(1), SetupBytes), 1)
  /\ should_close = FALSE
  /\ socket = <<>> /\ rights = <<>> /\ incoming = <<>>
  /\ pools = [p \in {} |-> None] /\ buffers = {}
  /\ attached = None /\ shown = None /\ ready = FALSE
  /\ configured = <<>> /\ acked = None /\ applied = None
  /\ pings = 0 /\ pongs = {}
  /\ closing = FALSE
  /\ protocol_error = "none"

-----------------------------------------------------------------------------
(* The send queue, written and sent. *)

Write(requests, bytes) ==
  IF Overflows(queue, bytes)
  THEN queue' = Advance(queue, bytes) /\ failure' = "overflow"
  ELSE queue' = Allocate(queue, requests, bytes) /\ UNCHANGED failure

\* send_queue.Send: the kernel looks the descriptors up in the table `open'.
Send(q, open) ==
  IF Overruns(q) \/ \E i \in DOMAIN q.fds : q.fds[i] \notin DOMAIN open
  THEN /\ queue' = q
       /\ failure' = IF Overruns(q) THEN "overrun" ELSE "badfd"
       /\ UNCHANGED <<socket, rights>>
  ELSE /\ socket' = socket \o q.requests
       /\ rights' = rights \o [i \in DOMAIN q.fds |-> open[q.fds[i]]]
       /\ queue' = Flushed(q)
       /\ UNCHANGED failure

dispatch_pending(q, open) ==
  IF IsEmpty(q)
  THEN queue' = q /\ UNCHANGED <<socket, rights, failure>>
  ELSE Send(q, open)

-----------------------------------------------------------------------------
(* The listeners of main.cpp; each runs to its end on one event. *)

Handles(ev) ==
  /\ pc = "handle" /\ failure = "none"
  /\ batch # <<>> /\ Head(batch).ev = ev
  /\ batch' = Tail(batch)
  /\ UNCHANGED <<pc, received, incoming, compositor>>

\* The number the kernel gives a new descriptor.
LowestFree(open, most) ==
  CHOOSE d \in 1 .. most : d \notin open /\ \A e \in 1 .. (d - 1) : e \in open

\* Plausible bug: the new descriptor is closed as soon as its pool is made.
ReopenedThenClosed(n) ==
  LET closed == DOMAIN files \ {fd}
  IN [fd |-> LowestFree(closed, n), files |-> [d \in closed |-> files[d]]]

\* destroy_shared_memory_fd, then create_shared_memory_fd for Framebuffer n.
Reopened(n) ==
  LET closed == DOMAIN files \ {fd}
      new_fd == LowestFree(closed, n)
  IN [fd |-> new_fd,
      files |-> [d \in closed \cup {new_fd} |-> IF d = new_fd THEN n ELSE files[d]]]

\* The send queue after both destroys, create_pool, create_buffer and commit.
Rebuilt(n, new_fd) ==
  AddFD(Allocate(queue, DestroyRequests(frame) \o CreateRequests(n), DestroyBytes + CreateBytes),
        new_fd)

\* A request that does not fit the page.
Overflow(bytes) ==
  /\ queue' = Advance(queue, bytes)
  /\ failure' = "overflow"
  /\ UNCHANGED <<frame, fd, files, extents, socket, rights>>

\* Create draws a pixel where nothing is mapped, and no more is seen of the process.
Fault ==
  /\ failure' = "fault"
  /\ UNCHANGED <<queue, frame, fd, files, extents, socket, rights>>

\* Plausible bug: the new framebuffer waits in the queue for the next roundtrip.
RebuildLeftQueued(extent) ==
  LET n == frame + 1
      table == Reopened(n)
  IN /\ frame' = n /\ fd' = table.fd /\ files' = table.files
     /\ extents' = Append(extents, extent)
     /\ queue' = Rebuilt(n, table.fd)
     /\ UNCHANGED <<failure, socket, rights>>

\* A resize that comes to its end: the new descriptor is sent at once.
Rebuild(extent) ==
  LET n == frame + 1
      table == Reopened(n)
  IN /\ frame' = n /\ fd' = table.fd /\ files' = table.files
     /\ extents' = Append(extents, extent)
     /\ dispatch_pending(Rebuilt(n, table.fd), table.files)

\* Framebuffer.Resize: both destroys, the new mapping and what is drawn there,
\* then the rest.  The system may refuse the mapping, which nobody looks at.
Resize(extent) ==
  LET room == ~Overflows(queue, DestroyBytes)
      all_fits == ~Overflows(queue, DestroyBytes + CreateBytes)
      drawn == ~DrawsFarOutside(extent)
  IN \/ ~room /\ Overflow(DestroyBytes)
     \/ room /\ Fault
     \/ room /\ drawn /\ ~all_fits /\ Overflow(DestroyBytes + CreateBytes)
     \/ all_fits /\ drawn /\ Rebuild(extent)

HandleToplevelConfigure ==
  /\ Handles("toplevel_configure")
  /\ LET extent == Head(batch).extent IN
       IF ~Sized(extent)
       THEN UNCHANGED <<failure, queue, frame, fd, files, extents, socket, rights>>
       ELSE Resize(extent)
  /\ UNCHANGED should_close

\* Plausible bug: the buffer goes before the ack.
HandleConfigureAttachFirst ==
  /\ Handles("configure")
  /\ Write(AttachRequests(frame) \o <<R("ack", Head(batch).n)>>, AckBytes + AttachBytes)
  /\ UNCHANGED <<frame, fd, files, should_close, extents, socket, rights>>

\* Plausible bug: the listener draws for the first configure and then only acks.
HandleConfigureDrawsOnce ==
  /\ Handles("configure")
  /\ IF Head(batch).n = 1
     THEN Write(<<R("ack", 1)>> \o AttachRequests(frame), AckBytes + AttachBytes)
     ELSE Write(<<R("ack", Head(batch).n)>>, AckBytes)
  /\ UNCHANGED <<frame, fd, files, should_close, extents, socket, rights>>

\* xdg_surface.configure: ack_configure, then Framebuffer.Attach.
HandleConfigure ==
  /\ Handles("configure")
  /\ Write(<<R("ack", Head(batch).n)>> \o AttachRequests(frame), AckBytes + AttachBytes)
  /\ UNCHANGED <<frame, fd, files, should_close, extents, socket, rights>>

HandlePing ==
  /\ Handles("ping")
  /\ Write(<<R("pong", Head(batch).n)>>, PongBytes)
  /\ UNCHANGED <<frame, fd, files, should_close, extents, socket, rights>>

HandleClose ==
  /\ Handles("close")
  /\ should_close' = TRUE
  /\ UNCHANGED <<failure, queue, frame, fd, files, extents, socket, rights>>

-----------------------------------------------------------------------------
(* roundtrip and the loop around it. *)

Dispatch ==
  /\ pc = "dispatch" /\ failure = "none"
  /\ dispatch_pending(queue, files)
  /\ pc' = "recv"
  /\ UNCHANGED <<batch, received, frame, fd, files, should_close, extents, incoming, compositor>>

\* recv blocks until there are events, and returns some of them.
Recv ==
  /\ pc = "recv" /\ failure = "none"
  /\ \E n \in 1 .. Len(incoming) :
       /\ n <= BatchMax
       /\ batch' = SubSeq(incoming, 1, n) /\ received' = batch'
       /\ incoming' = SubSeq(incoming, n + 1, Len(incoming))
  /\ pc' = "handle"
  /\ UNCHANGED <<failure, queue, frame, fd, files, should_close, extents, socket, rights,
                 compositor>>

\* Plausible bug: the loop calls read_queues where it should call roundtrip.
LoopOnlyReads ==
  /\ pc = "handle" /\ failure = "none"
  /\ batch = <<>>
  /\ pc' = IF should_close THEN "done" ELSE "recv"
  /\ received' = <<>>
  /\ UNCHANGED <<failure, batch, queue, frame, fd, files, should_close, extents,
                 socket, rights, incoming, compositor>>

\* Plausible bug: the loop does not look at should_close.
LoopForever ==
  /\ pc = "handle" /\ failure = "none"
  /\ batch = <<>>
  /\ pc' = "dispatch"
  /\ received' = <<>>
  /\ UNCHANGED <<failure, batch, queue, frame, fd, files, should_close, extents,
                 socket, rights, incoming, compositor>>

\* `while (!should_close)'
Loop ==
  /\ pc = "handle" /\ failure = "none"
  /\ batch = <<>>
  /\ pc' = IF should_close THEN "done" ELSE "dispatch"
  /\ received' = <<>>
  /\ UNCHANGED <<failure, batch, queue, frame, fd, files, should_close, extents,
                 socket, rights, incoming, compositor>>

Client ==
  \/ Dispatch \/ Recv \/ Loop
  \/ HandleToplevelConfigure \/ HandleConfigure \/ HandlePing \/ HandleClose

-----------------------------------------------------------------------------
(* The compositor serves requests in order, by the rules of the protocol. *)

Takes(ops) ==
  /\ protocol_error = "none"
  /\ socket # <<>> /\ Head(socket).op \in ops
  /\ socket' = Tail(socket)
  /\ UNCHANGED <<client, incoming, configured, pings, closing>>

\* The rule a request must meet; if it does not, the client is disconnected.
Rule(holds, error) ==
  protocol_error' = IF holds THEN "none" ELSE error

ServePool ==
  /\ Takes({"create_pool", "destroy_pool"})
  /\ LET p == Head(socket).n IN
       IF Head(socket).op = "create_pool"
       THEN /\ Rule(rights # <<>>, "fd")
            /\ pools' = IF rights = <<>> THEN pools
                        ELSE [q \in DOMAIN pools \cup {p} |->
                                IF q = p THEN Head(rights) ELSE pools[q]]
            /\ rights' = IF rights = <<>> THEN rights ELSE Tail(rights)
       ELSE /\ Rule(p \in DOMAIN pools, "object")
            /\ pools' = [q \in DOMAIN pools \ {p} |-> pools[q]]
            /\ UNCHANGED rights
  /\ UNCHANGED <<buffers, surface, pongs>>

\* A size that libwayland refuses it already refuses in create_pool if the pool
\* has none, which makes no difference: create_buffer is the next request.
ServeBuffer ==
  /\ Takes({"create_buffer", "destroy_buffer"})
  /\ LET b == Head(socket).n IN
       IF Head(socket).op = "create_buffer"
       THEN /\ IF b \in DOMAIN pools THEN Rule(BufferFits(extents[b]), "size")
               ELSE Rule(FALSE, "object")
            /\ buffers' = buffers \cup {b}
       ELSE Rule(b \in buffers, "object") /\ buffers' = buffers \ {b}
  /\ UNCHANGED <<rights, pools, surface, pongs>>

ServeAttach ==
  /\ Takes({"attach"})
  /\ Rule(Head(socket).n \in buffers, "object")
  /\ attached' = Head(socket).n
  /\ UNCHANGED <<rights, pools, buffers, shown, ready, acked, applied, pongs>>

ServeAck ==
  /\ Takes({"ack"})
  /\ Rule(Head(socket).n \in (acked + 1) .. Len(configured), "serial")
  /\ acked' = Head(socket).n
  /\ UNCHANGED <<rights, pools, buffers, attached, shown, ready, applied, pongs>>

\* A buffer may be committed only after a configure was acked.
ServeCommit ==
  /\ Takes({"commit"})
  /\ Rule(attached # None => acked # None, "unconfigured")
  /\ shown' = IF attached # None THEN attached ELSE shown
  /\ attached' = None
  /\ ready' = TRUE
  /\ applied' = acked
  /\ UNCHANGED <<rights, pools, buffers, acked, pongs>>

ServeOther ==
  /\ Takes({"pong", "other"})
  /\ pongs' = IF Head(socket).op = "pong" THEN pongs \cup {Head(socket).n} ELSE pongs
  /\ UNCHANGED <<rights, pools, buffers, surface, protocol_error>>

Serve == ServePool \/ ServeBuffer \/ ServeAttach \/ ServeAck \/ ServeCommit \/ ServeOther

-----------------------------------------------------------------------------
(* What the compositor sends of its own accord. *)

Emits(events) ==
  /\ protocol_error = "none"
  /\ incoming' = incoming \o events
  /\ UNCHANGED <<client, socket, rights, pools, buffers, surface, pongs, protocol_error>>

\* A configure sequence: the toplevel's state, then the serial to ack.
Configure(extent) ==
  /\ ready /\ Len(configured) < MaxConfigures
  /\ configured' = Append(configured, extent)
  /\ Emits(<<ToplevelConfigure(extent), E("configure", Len(configured) + 1)>>)
  /\ UNCHANGED <<pings, closing>>

Ping ==
  /\ pings < MaxPings
  /\ pings' = pings + 1
  /\ Emits(<<E("ping", pings + 1)>>)
  /\ UNCHANGED <<configured, closing>>

Close ==
  /\ ready /\ ~closing
  /\ closing' = TRUE
  /\ Emits(<<E("close", None)>>)
  /\ UNCHANGED <<configured, pings>>

Next ==
  \/ Client
  \/ Serve
  \/ \E extent \in Extents : Configure(extent)
  \/ Ping
  \/ Close

\* The loop never pauses but in recv, and the compositor reads what it is sent.
Spec == Init /\ [][Next]_vars /\ WF_vars(Client) /\ WF_vars(Serve)

-----------------------------------------------------------------------------
(* Properties. *)

Ended == pc = "done" \/ failure # "none" \/ protocol_error # "none"

\* The compositor never has a reason to disconnect the client, whatever the
\* two were doing when configures, resizes and acks crossed: every object a
\* request names is alive, serials are acked in order, no buffer is committed
\* before an ack, and each create_pool brings its descriptor.  Every buffer fits
\* its pool, unless the compositor asked for more bytes than a wl_int counts.
ProtocolObeyed ==
  /\ protocol_error \in {"none", "size"}
  /\ protocol_error = "size" => \E n \in DOMAIN extents : ~Drawable(extents[n])

\* The file a pool maps is the memfd made for it, although its number was
\* closed and handed out again and only numbers wait in the send queue.
PoolsGetTheirFile == \A p \in DOMAIN pools : pools[p] = p

\* Every descriptor is still open when it is sent, and its control buffer has
\* room: Send fails for neither reason.
DescriptorsFit == failure \notin {"badfd", "overrun"}

\* The buffer on the screen has the size of the last configure the client
\* applied, also when resizes overtook one another.
\* (A configure without a size leaves the size as it was.)
LatestSize(sizes, serial) ==
  LET sized == {s \in 1 .. serial : Sized(sizes[s])}
  IN IF sized = {} THEN Default
     ELSE sizes[CHOOSE s \in sized : \A t \in sized : t <= s]

Wanted(serial) == LatestSize(configured, serial)

ShowsWhatWasAsked == shown # None => extents[shown] = Wanted(applied)

\* Whatever sizes the client was given, also such that 32 bits wrap: of a buffer
\* the compositor accepts every pixel was drawn in memory that is mapped, and
\* where the compositor looks for that pixel.
DrawnWhereRead ==
  protocol_error = "none" => \A b \in buffers : DrawnInPlace(extents[b])

\* readme.md: `KDE Plasma requires that a buffer be attached after a configure
\* ack': the commit that applies an ack always carries a buffer.
AckBringsBuffer == [][applied' # applied => attached # None]_vars

\* The client never waits for the compositor with requests it has not sent,
\* for which the compositor may be waiting.
NeverBlocksWithUnsent == pc = "recv" => queue = EmptyQueue

\* The page overflows only when the replies to the events of a single recv do
\* not fit it: nothing is carried over from one roundtrip to the next, and of
\* the framebuffers of several resizes only one waits at a time.
Count(ev, events) == Cardinality({k \in DOMAIN events : events[k].ev = ev})
RepliesTo(events) ==
  (AckBytes + AttachBytes) * Count("configure", events) + PongBytes * Count("ping", events)

RoomForReplies ==
  failure = "overflow" => RepliesTo(received) + DestroyBytes + CreateBytes >= PAGE_SIZE

\* Every ping is answered and every configure applied, unless the client ends.
PingsAnswered ==
  \A s \in 1 .. MaxPings : pings >= s ~> (s \in pongs \/ Ended)

ConfiguresApplied ==
  \A s \in 1 .. MaxConfigures : Len(configured) >= s ~> (applied >= s \/ Ended)

\* A close event ends the client.
CloseEnds == closing ~> Ended

\* Resize destroys the buffer that is on the screen before there is another;
\* the surface does not keep showing a buffer that is gone.
Repainted ==
  (shown # None /\ shown \notin buffers) ~> (shown \in buffers \/ Ended)

=============================================================================
