------------------------------- MODULE Display --------------------------------
(***************************************************************************)
(* wl_display, its connection, and the path of a request from the code that *)
(* composes it to the compositor.                                          *)
(*                                                                         *)
(* A request takes bytes of the send queue's page; create_pool also hands  *)
(* the queue a file descriptor.  dispatch_pending passes the page to the   *)
(* socket with sendmsg and the descriptors as its ancillary data.  The two *)
(* streams are FIFO but separate: the compositor pairs them again, giving  *)
(* each request whose signature has a descriptor the next one received.    *)
(*                                                                         *)
(* The application calls roundtrip, flush and dispatch_pending in any order *)
(* and composes requests between the calls and, in its listeners, during   *)
(* them.  It waits nowhere but in recv.  The compositor answers when it     *)
(* likes, and may hang up.                                                 *)
(***************************************************************************)
EXTENDS SendQueue, FiniteSets

CONSTANTS
  Ids,         \* the objects requests are about
  Files,       \* the files descriptors stand for
  NoFile,
  Bytes,       \* the sizes of requests, in bytes
  COUNT_MOD,   \* msg_n is a wl_uint: 2^32
  SocketSize,  \* requests the socket takes before sendmsg blocks
  MaxUnread    \* bound: events the compositor leaves waiting in the socket

ASSUME DisplayAssumption ==
  /\ NoFile \notin Files
  /\ Bytes \subseteq Nat \ {0}
  /\ COUNT_MOD \in Nat \ {0}
  /\ SocketSize \in Nat
  /\ MaxUnread \in Nat

VARIABLES
  handle,      \* what wl_display::socket stands for
  call,        \* the call of wl_display the application is in
  at,          \* where in that call
  batch,       \* events of the last recv its loop has not finished with
  queue,       \* send_queue: page and descriptors
  msg_n,       \* send_queue::msg_n
  failure,     \* what ended the client, if anything did
  socket,      \* the bytes in the socket, as requests
  rights,      \* the files in its ancillary data
  unread,      \* events waiting in the socket
  hung_up,     \* the compositor has closed the connection
  delivered    \* the last request it took, with its file

sending == <<queue, msg_n, socket, rights>>
vars == <<handle, call, at, batch, sending, failure, unread, hung_up, delivered>>

Request == [id : Ids, has_fd : BOOLEAN]
Message == [id : Ids, file : Files \cup {NoFile}]
NoMessage == NoFile

TypeOK ==
  /\ handle \in {"none", "invalid", "open", "connected"}
  /\ call \in {"wl_display", "none", "roundtrip", "flush"}
  /\ at \in {"socket", "connect", "caller", "peek", "recv", "events"}
  /\ batch \in Nat
  /\ queue \in Queues(Request, Files)
  /\ failure = "none" => queue.offset < PAGE_SIZE
  /\ msg_n \in 0 .. (COUNT_MOD - 1)
  /\ failure \in {"none", "connect", "overflow", "overrun", "send", "recv", "event"}
  /\ socket \in Seq(Request)
  /\ rights \in Seq(Files)
  /\ unread \in 0 .. MaxUnread
  /\ hung_up \in BOOLEAN
  /\ delivered \in Message \cup {NoMessage}

Init ==
  /\ handle = "none" /\ call = "wl_display" /\ at = "socket" /\ batch = 0
  /\ queue = EmptyQueue /\ msg_n = 0
  /\ failure = "none"
  /\ socket = <<>> /\ rights = <<>> /\ unread = 0
  /\ hung_up = FALSE /\ delivered = NoMessage

Runs(c, a) == failure = "none" /\ call = c /\ at = a

-----------------------------------------------------------------------------
(* The constructor: create_wayland_socket. *)

\* socket() may fail.  `handle < 0' does not notice: wl_fd_t is unsigned.
Socket ==
  /\ Runs("wl_display", "socket")
  /\ handle' \in {"open", "invalid"}
  /\ at' = "connect"
  /\ UNCHANGED <<call, batch, sending, failure, unread, hung_up, delivered>>

\* Plausible bug: the result of connect() is kept in a wl_fd_t as well.
ConnectUnchecked ==
  /\ Runs("wl_display", "connect")
  /\ call' = "none" /\ at' = "caller"
  /\ handle' \in {handle} \cup (IF handle = "open" THEN {"connected"} ELSE {})
  /\ UNCHANGED <<batch, sending, failure, unread, hung_up, delivered>>

\* connect() does notice, and there may be no compositor at that path.
Connect ==
  /\ Runs("wl_display", "connect")
  /\ \/ /\ handle = "open" /\ handle' = "connected"
        /\ call' = "none" /\ at' = "caller"
        /\ UNCHANGED failure
     \/ failure' = "connect" /\ UNCHANGED <<handle, call, at>>
  /\ UNCHANGED <<batch, sending, unread, hung_up, delivered>>

-----------------------------------------------------------------------------
(* Requests. *)

\* The application's own code runs: between two calls, or as a listener.
InApplication ==
  /\ failure = "none"
  /\ at = "caller" \/ (at = "events" /\ batch > 0)

\* new_writer and, for create_pool, AddFD.
Compose(m, bytes) ==
  /\ InApplication
  /\ IF Overflows(queue, bytes)
     THEN /\ queue' = Advance(queue, bytes)
          /\ failure' = "overflow"
          /\ UNCHANGED msg_n
     ELSE LET r == [id |-> m.id, has_fd |-> m.file # NoFile]
              q == Allocate(queue, <<r>>, bytes)
          IN /\ queue' = IF r.has_fd THEN AddFD(q, m.file) ELSE q
             /\ msg_n' = (msg_n + 1) % COUNT_MOD
             /\ UNCHANGED failure
  /\ UNCHANGED <<handle, call, at, batch, socket, rights, unread, hung_up, delivered>>

\* sendmsg took it all.
Send ==
  /\ socket' = socket \o queue.requests
  /\ rights' = rights \o queue.fds
  /\ queue' = Flushed(queue)
  /\ UNCHANGED <<msg_n, failure>>

\* sendmsg failed (an exception nobody catches), the peer is gone (SIGPIPE), or
\* the control buffer was overrun (a damaged stack).
SendFails(why) == failure' = why /\ UNCHANGED sending

\* Plausible bug: Send does not compare what sendmsg took with what there was.
SendCutShortUnnoticed(n) ==
  /\ Len(socket) + n <= SocketSize
  /\ socket' = socket \o SubSeq(queue.requests, 1, n)
  /\ rights' = rights \o queue.fds
  /\ queue' = Flushed(queue)
  /\ UNCHANGED <<msg_n, failure>>

\* sendmsg took part of the page, n requests whole, and with its first byte every
\* descriptor.  Send throws; `queue' keeps what has not left.
SendCutShort(n) ==
  /\ Len(socket) + n <= SocketSize
  /\ socket' = socket \o SubSeq(queue.requests, 1, n)
  /\ rights' = rights \o queue.fds
  /\ queue' = [queue EXCEPT !.requests = SubSeq(@, n + 1, Len(@)), !.fds = <<>>]
  /\ failure' = "send"
  /\ UNCHANGED msg_n

\* What dispatch_pending returns; Send resets the page and not the count.
Returned == IF IsEmpty(queue) THEN 0 ELSE msg_n

dispatch_pending ==
  IF IsEmpty(queue)
  THEN UNCHANGED <<sending, failure>>
  ELSE IF Overruns(queue)
       THEN SendFails("overrun")
       ELSE \/ SendFails("send")
            \/ ~hung_up /\ \E n \in 0 .. (Len(queue.requests) - 1) : SendCutShort(n)
            \/ ~hung_up /\ Len(socket \o queue.requests) <= SocketSize /\ Send

Call_dispatch_pending ==
  /\ InApplication
  /\ dispatch_pending
  /\ UNCHANGED <<handle, call, at, batch, unread, hung_up, delivered>>

-----------------------------------------------------------------------------
(* roundtrip and flush; dispatch and sync have empty bodies. *)

\* Plausible bug: roundtrip reads before it sends.
RoundtripReadsFirst ==
  /\ Runs("none", "caller")
  /\ call' = "roundtrip" /\ at' = "recv"
  /\ UNCHANGED <<handle, batch, sending, failure, unread, hung_up, delivered>>

\* roundtrip, which sends and goes on to Recv.
Roundtrip ==
  /\ Runs("none", "caller")
  /\ dispatch_pending
  /\ call' = "roundtrip" /\ at' = "recv"
  /\ UNCHANGED <<handle, batch, unread, hung_up, delivered>>

Flush ==
  /\ Runs("none", "caller")
  /\ call' = "flush" /\ at' = "peek"
  /\ UNCHANGED <<handle, batch, sending, failure, unread, hung_up, delivered>>

\* Plausible bug: flush gives up when there is nothing to read.
PeekGivesUp ==
  /\ Runs("flush", "peek")
  /\ unread > 0 \/ hung_up
  /\ IF unread > 0 THEN at' = "recv" /\ UNCHANGED call ELSE call' = "none" /\ at' = "caller"
  /\ UNCHANGED <<handle, batch, sending, failure, unread, hung_up, delivered>>

\* The recv of flush blocks until there is a byte or the peer is gone; then it
\* returns 0 or an error, either of which makes flush skip read_queues.
Peek ==
  /\ Runs("flush", "peek")
  /\ \/ /\ unread > 0
        /\ at' = "recv"
        /\ UNCHANGED <<call, sending, failure>>
     \/ /\ unread = 0 /\ hung_up
        /\ call' = "none" /\ at' = "caller"
        /\ dispatch_pending
  /\ UNCHANGED <<handle, batch, unread, hung_up, delivered>>

\* recv_queue.Recv: what is there, or nothing if the peer is gone, or an error.
Recv ==
  /\ failure = "none" /\ at = "recv"
  /\ \/ /\ unread > 0 \/ hung_up
        /\ at' = "events" /\ batch' = unread /\ unread' = 0
        /\ UNCHANGED failure
     \/ /\ hung_up
        /\ failure' = "recv"
        /\ UNCHANGED <<at, batch, unread>>
  /\ UNCHANGED <<handle, call, sending, hung_up, delivered>>

\* A listener returns, and the loop of read_queues goes to the next event; or the
\* event ends the client: wl_display.error, the null object, a missing listener.
EventHandled ==
  /\ failure = "none" /\ at = "events" /\ batch > 0
  /\ \/ batch' = batch - 1 /\ UNCHANGED failure
     \/ failure' = "event" /\ UNCHANGED batch
  /\ UNCHANGED <<handle, call, at, sending, unread, hung_up, delivered>>

\* The end of read_queues, where roundtrip returns and flush sends first.
Return ==
  /\ failure = "none" /\ at = "events" /\ batch = 0
  /\ IF call = "flush" THEN dispatch_pending ELSE UNCHANGED <<sending, failure>>
  /\ call' = "none" /\ at' = "caller"
  /\ UNCHANGED <<handle, batch, unread, hung_up, delivered>>

-----------------------------------------------------------------------------
(* The compositor. *)

\* It reads a request, and the next file if the request has one.
Receive ==
  /\ ~hung_up
  /\ socket # <<>>
  /\ LET r == Head(socket) IN
       IF r.has_fd
       THEN /\ delivered' = [id |-> r.id, file |-> Head(rights)]
            /\ rights' = Tail(rights)
       ELSE /\ delivered' = [id |-> r.id, file |-> NoFile]
            /\ UNCHANGED rights
  /\ socket' = Tail(socket)
  /\ UNCHANGED <<handle, call, at, batch, queue, msg_n, failure, unread, hung_up>>

\* What it does when the client has ended is of no interest.
Serving == handle = "connected" /\ ~hung_up /\ failure = "none"

Emit ==
  /\ Serving /\ unread < MaxUnread
  /\ unread' = unread + 1
  /\ UNCHANGED <<handle, call, at, batch, sending, failure, hung_up, delivered>>

HangUp ==
  /\ Serving
  /\ hung_up' = TRUE
  /\ UNCHANGED <<handle, call, at, batch, sending, failure, unread, delivered>>

-----------------------------------------------------------------------------
Client ==
  \/ Socket \/ Connect
  \/ Call_dispatch_pending \/ Roundtrip \/ Flush
  \/ Peek \/ Recv \/ EventHandled \/ Return

Next ==
  \/ Client
  \/ \E m \in Message, bytes \in Bytes : Compose(m, bytes)
  \/ Receive \/ Emit \/ HangUp

Spec == Init /\ [][Next]_vars

Calling == Roundtrip \/ Flush

\* The application goes on calling, as main's loop does, its listeners return,
\* and the compositor reads what it is sent.
FairSpec ==
  /\ Spec
  /\ WF_vars(Socket) /\ WF_vars(Connect)
  /\ WF_vars(Calling) /\ WF_vars(Peek) /\ WF_vars(Recv) /\ WF_vars(EventHandled)
  /\ WF_vars(Return) /\ WF_vars(Receive)

-----------------------------------------------------------------------------
(* Properties. *)

\* How many of the first k requests come with a descriptor.
FdsUpTo(requests, k) == Cardinality({i \in 1 .. k : requests[i].has_fd})

\* The requests with the descriptors the compositor will pair them with.
Paired(requests, fds) ==
  [k \in DOMAIN requests |->
     [id |-> requests[k].id,
      file |-> IF ~requests[k].has_fd THEN NoFile
               ELSE IF FdsUpTo(requests, k) \in DOMAIN fds
                    THEN fds[FdsUpTo(requests, k)] ELSE NoFile]]

Path == INSTANCE Outbox WITH
          outbox <- Paired(socket \o queue.requests, rights \o queue.fds)

\* Every request reaches the compositor once, in order, and every create_pool
\* with the very file it was composed with, although requests and descriptors
\* are queued, sent and read apart.
DeliversInOrder == Path!Spec

\* display.h on dispatch_pending: `@returns The number of messages dispatched.'
ReturnsDispatched == failure = "none" => Returned = Len(queue.requests)

\* A socket that could not be made or connected is never used: of the two
\* checks of the constructor the first cannot fire, so all rests on connect.
UsesConnectedSocket == failure = "none" /\ call # "wl_display" => handle = "connected"

\* Requests do not stay in the send queue, in whatever order the calls come,
\* except behind the recv of flush, which waits before it has sent them.
RequestsLeave ==
  ~IsEmpty(queue) ~> (IsEmpty(queue) \/ failure # "none" \/ at = "peek")

\* Once the compositor is gone no call waits for ever.  read_queues returns as if
\* the compositor had nothing to say, and so it is the next request that tells.
HangUpNoticed ==
  /\ hung_up ~> (call = "none" \/ failure # "none")
  /\ (hung_up /\ ~IsEmpty(queue)) ~> failure # "none"

=============================================================================
