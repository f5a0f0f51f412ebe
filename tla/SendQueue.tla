------------------------------ MODULE SendQueue ------------------------------
(***************************************************************************)
(* The send_queue of buffers/queue.cpp as operators on its contents: a page *)
(* of memory that fills up with requests, and the file descriptors that    *)
(* travel beside them.  `requests' is what the page holds below access_ptr, *)
(* `offset' is Offset(), the bytes they take.                              *)
(***************************************************************************)
EXTENDS Integers, Sequences

CONSTANTS
  PAGE_SIZE,   \* size of the page (4096)
  CMSG_FDS     \* descriptors that fit the control buffer of Send (2 on x86-64)

ASSUME SendQueueAssumption ==
  /\ PAGE_SIZE \in Nat \ {0}
  /\ CMSG_FDS \in Nat \ {0}

Queues(Request, Descriptor) ==
  [requests : Seq(Request), fds : Seq(Descriptor), offset : Nat]

EmptyQueue == [requests |-> <<>>, fds |-> <<>>, offset |-> 0]

\* Empty() looks at the bytes; a queue with only descriptors counts as empty.
IsEmpty(q) == q.offset = 0

\* Plausible bug: the bytes asked for are not counted.
OverflowsLate(q, bytes) == q.offset >= PAGE_SIZE

\* Allocate throws once the page is full to the last byte, not beyond it.
\* The requests one handler writes overflow together or not at all, because
\* the exception ends the client.
Overflows(q, bytes) == q.offset + bytes >= PAGE_SIZE

\* `access_ptr += bytes' comes first, and stands when Allocate then throws.
Advance(q, bytes) == [q EXCEPT !.offset = @ + bytes]

\* One Allocate for each of `requests', `bytes' in all, and what was written.
Allocate(q, requests, bytes) ==
  [Advance(q, bytes) EXCEPT !.requests = @ \o requests]

AddFD(q, fd) == [q EXCEPT !.fds = Append(@, fd)]

\* Send copies the descriptors into a control buffer of fixed size on its stack.
Overruns(q) == Len(q.fds) > CMSG_FDS

\* Plausible bug: access_ptr is not moved back to the start of the page.
FlushedKeepsPage(q) == [q EXCEPT !.fds = <<>>]

\* What Send leaves: `fds.clear(); access_ptr = buffer'.
Flushed(q) == EmptyQueue

=============================================================================
