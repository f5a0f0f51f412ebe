--------------------------- MODULE WindowInvariant ----------------------------
(***************************************************************************)
(* Why the properties of Window hold: invariants that its steps preserve,  *)
(* stated about what is on its way between the client and the compositor.  *)
(***************************************************************************)
EXTENDS Window

\* At most the current descriptor waits in the queue, and only until the first
\* dispatch; and only what answers the events of the last recv.
QueueInv ==
  /\ fd = 1 /\ DOMAIN files = {fd} /\ files[fd] = frame
  /\ failure \in {"none", "overflow", "fault"}
  /\ queue.fds \in {<<>>, <<fd>>}
  /\ IsEmpty(queue) => queue = EmptyQueue
  /\ pc = "recv" => queue = EmptyQueue
  /\ pc = "handle" => queue.fds = <<>>
  /\ pc = "handle" /\ failure = "none" =>
       queue.offset + RepliesTo(batch) <= RepliesTo(received)

Creates(requests) == {k \in DOMAIN requests : requests[k].op = "create_pool"}

\* `sent' holds the files served + 1, served + 2..., and so many create_pool
\* requests, in the same order.
InOrder(requests, sent, served) ==
  /\ \A i \in DOMAIN sent : sent[i] = served + i
  /\ {requests[k].n : k \in Creates(requests)} = (served + 1) .. (served + Len(sent))
  /\ \A j, k \in Creates(requests) : j < k => requests[j].n < requests[k].n

\* A create_pool and its file are always in flight together.
RightsInv ==
  LET served == frame - Len(queue.fds) - Len(rights) IN
    /\ served \in Nat
    /\ InOrder(socket, rights, served)
    /\ queue.fds = <<>> => Creates(queue.requests) = {}
    /\ queue.fds # <<>> => \E k \in DOMAIN queue.requests :
                             Creates(queue.requests) = {k} /\ queue.requests[k].n = frame

DescriptorsInv == TypeOK /\ QueueInv /\ RightsInv /\ PoolsGetTheirFile /\ RoomForReplies

\* No Framebuffer was made whose drawing cannot have come to its end, and every
\* buffer alive passed the compositor's checks.
SizesInv ==
  /\ \A n \in DOMAIN extents : ~DrawsFarOutside(extents[n])
  /\ protocol_error = "none" => \A b \in buffers : BufferFits(extents[b])

\* The requests and the events on their way.
Path == socket \o queue.requests
Coming == batch \o incoming

\* The objects of the Framebuffers have one life after another: request number
\* 4 n - 4 makes the pool of Framebuffer n, 4 n - 3 its buffer, 4 n - 2 destroys
\* the buffer and 4 n - 1 the pool.  An attach has its place before number 4 n - 2.
Turn(r) ==
  CASE r.op = "create_pool" -> 4 * r.n - 4
    [] r.op = "create_buffer" -> 4 * r.n - 3
    [] r.op \in {"attach", "destroy_buffer"} -> 4 * r.n - 2
    [] r.op = "destroy_pool" -> 4 * r.n - 1

With(requests, ops) == {k \in DOMAIN requests : requests[k].op \in ops}
Moves(requests) ==
  With(requests, {"create_pool", "create_buffer", "destroy_buffer", "destroy_pool"})
Attaches(requests) == With(requests, {"attach"})

\* The requests from number `turn' up to number `last', one each and in order,
\* and every attach where its buffer lives.
LivesInOrder(requests, turn, last) ==
  /\ \A k \in Moves(requests) : Turn(requests[k]) \in turn .. (last - 1)
  /\ \A t \in turn .. (last - 1) : \E k \in Moves(requests) : Turn(requests[k]) = t
  /\ \A j, k \in Moves(requests) : j < k => Turn(requests[j]) < Turn(requests[k])
  /\ \A a \in Attaches(requests) :
       /\ Turn(requests[a]) \in turn .. last
       /\ \A k \in Moves(requests) : k < a <=> Turn(requests[k]) < Turn(requests[a])

\* The compositor has served the requests before number `turn': alive is what
\* they created and did not destroy.
Alive(turn) ==
  /\ DOMAIN pools = {p \in 1 .. frame : 4 * p - 4 < turn /\ turn <= 4 * p - 1}
  /\ buffers = {b \in 1 .. frame : 4 * b - 3 < turn /\ turn <= 4 * b - 2}

\* What is on its way leads from the objects of the compositor to those of the client.
LivesInv ==
  /\ Len(extents) = frame /\ \A n \in 1 .. frame : Sized(extents[n])
  /\ \E turn \in 0 .. (4 * frame - 2) :
       LivesInOrder(Path, turn, 4 * frame - 2) /\ Alive(turn)

\* The toplevel's size and the serial of one configure arrive one after the other.
InPairs(events, sizes) ==
  \A k \in DOMAIN events :
    /\ events[k].ev = "toplevel_configure" =>
         /\ k + 1 \in DOMAIN events /\ events[k + 1].ev = "configure"
         /\ events[k].extent = sizes[events[k + 1].n]
    /\ events[k].ev = "configure" /\ k > 1 => events[k - 1].ev = "toplevel_configure"

Serials(events) == {k \in DOMAIN events : events[k].ev = "configure"}

\* The serials after `heard' up to `last', one each and in order.
SerialsInOrder(events, heard, last) ==
  /\ \A k \in Serials(events) : events[k].n \in (heard + 1) .. last
  /\ \A s \in (heard + 1) .. last : \E k \in Serials(events) : events[k].n = s
  /\ \A j, k \in Serials(events) : j < k => events[j].n < events[k].n

Acks(requests) == With(requests, {"ack"})

\* Acks of serials after `served' up to `last', in order.
AcksInOrder(requests, served, last) ==
  /\ \A k \in Acks(requests) : requests[k].n \in (served + 1) .. last
  /\ \A j, k \in Acks(requests) : j < k => requests[j].n < requests[k].n

\* Between the two events of a configure the Framebuffer is ahead of the serial.
SizedFor(events, heard) ==
  IF events # <<>> /\ events[1].ev = "configure" THEN heard + 1 ELSE heard

\* Each serial is on its way to the client or to the compositor or was there; and
\* the Framebuffer has the size of the last configure the client has heard of.
SerialsInv ==
  /\ pc # "handle" => batch = <<>>
  /\ InPairs(Coming, configured)
  /\ \E heard \in acked .. Len(configured) :
       /\ SerialsInOrder(Coming, heard, Len(configured))
       /\ AcksInOrder(Path, acked, heard)
       /\ failure = "none" => extents[frame] = Wanted(SizedFor(Coming, heard))

\* ack_configure, attach and commit follow one another...
Grouped(requests) ==
  \A k \in DOMAIN requests :
    /\ requests[k].op = "ack" => k + 1 \in DOMAIN requests /\ requests[k + 1].op = "attach"
    /\ requests[k].op = "attach" =>
         /\ k + 1 \in DOMAIN requests /\ requests[k + 1].op = "commit"
         /\ k > 1 => requests[k - 1].op = "ack"

\* ... and the buffer attached has the size of the configure acked.
SizedAsAcked(requests, made, asked) ==
  \A k \in Attaches(requests) :
    k > 1 => made[requests[k].n] = LatestSize(asked, requests[k - 1].n)

FirstOp(requests) == IF requests = <<>> THEN "none" ELSE requests[1].op
NextOp == FirstOp(Path)

\* What the compositor served of such a group, and what of it is still to come.
CommitsInv ==
  /\ Grouped(Path) /\ SizedAsAcked(Path, extents, configured)
  /\ applied <= acked
  /\ NextOp = "attach" => acked # None /\ extents[Path[1].n] = Wanted(acked)
  /\ attached # None =>
       /\ NextOp = "commit"
       /\ acked # None /\ attached \in 1 .. frame /\ extents[attached] = Wanted(acked)
  /\ acked # applied => attached # None \/ NextOp = "attach"
  /\ shown # None => shown \in 1 .. frame /\ extents[shown] = Wanted(applied)

IInv == DescriptorsInv /\ ProtocolObeyed /\ SizesInv /\ LivesInv /\ SerialsInv /\ CommitsInv

=============================================================================
