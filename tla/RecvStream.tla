----------------------------- MODULE RecvStream ------------------------------
(***************************************************************************)
(* The path of an event from the compositor to handle_event.               *)
(*                                                                         *)
(* The compositor writes whole events, but a stream socket keeps no         *)
(* boundaries: recv_queue.Recv takes as many bytes as are there and fit a   *)
(* page.  The loop of read_queues then walks over them with                *)
(* recv_queue::iterator, which trusts the size in each header and starts   *)
(* the next recv at the beginning of the page, whatever is left.           *)
(*                                                                         *)
(* The unit is the word of 4 bytes.  A word knows its event and its place  *)
(* there: 0 is the object id, 1 holds size and opcode, the rest is payload. *)
(***************************************************************************)
EXTENDS Integers, Sequences, FiniteSets

CONSTANTS
  PAGE_WORDS,  \* words in the page of recv_queue (1024)
  Sizes,       \* sizes of events, in words
  MaxField,    \* largest size read from a word that is no header
  Burst,       \* bound: words the compositor leaves waiting in the socket
  MaxEvents    \* bound: events the compositor sends

ASSUME RecvStreamAssumption ==
  /\ PAGE_WORDS \in Nat \ {0}
  /\ Sizes \subseteq 2 .. PAGE_WORDS
  /\ MaxField \in Nat
  /\ Burst \in Nat
  /\ MaxEvents \in Nat

VARIABLES
  sent,        \* events the compositor has sent
  hung_up,     \* it has closed the connection
  stream,      \* the words in the socket
  batch,       \* the words from m_ptr to the end of the last recv
  handled,     \* the event the loop of read_queues last dealt with
  failure,     \* what ended the client, if anything did
  crowded      \* history: more than a page has waited in the socket

vars == <<sent, hung_up, stream, batch, handled, failure, crowded>>

\* An event that makes read_queues exit: wl_display.error, or the null object.
Event == [n : 1 .. MaxEvents, size : Sizes, fatal : BOOLEAN]
NoEvent == [n |-> 0, size |-> 0, fatal |-> FALSE]
Garbled == [n |-> -1, size |-> 0, fatal |-> FALSE]

Word(event, pos) == [event |-> event, pos |-> pos]
WordsOf(event) == [k \in 1 .. event.size |-> Word(event, k - 1)]
Words == [event : Event, pos : Nat]

TypeOK ==
  /\ sent \in 0 .. MaxEvents
  /\ hung_up \in BOOLEAN
  /\ stream \in Seq(Words)
  /\ batch \in Seq(Words) /\ Len(batch) <= PAGE_WORDS
  /\ handled \in Event \cup {NoEvent, Garbled}
  /\ failure \in {"none", "recv", "exit", "misaligned"}
  /\ crowded \in BOOLEAN

Init ==
  /\ sent = 0
  /\ hung_up = FALSE
  /\ stream = <<>>
  /\ batch = <<>>
  /\ handled = NoEvent
  /\ failure = "none"
  /\ crowded = FALSE

-----------------------------------------------------------------------------
(* The client. *)

\* Plausible bug: what is unread stays, and a whole page is received behind it.
RecvAppends ==
  /\ failure = "none"
  /\ stream # <<>> \/ hung_up
  /\ LET n == IF Len(stream) < PAGE_WORDS THEN Len(stream) ELSE PAGE_WORDS IN
       /\ batch' = batch \o SubSeq(stream, 1, n)
       /\ stream' = SubSeq(stream, n + 1, Len(stream))
  /\ UNCHANGED <<sent, hung_up, handled, failure, crowded>>

\* Recv, after a dispatch_pending that is not of interest here.  It blocks
\* until there is something, and returns 0 for ever after the peer hung up.
Recv ==
  /\ failure = "none" /\ batch = <<>>
  /\ stream # <<>> \/ hung_up
  /\ LET n == IF Len(stream) < PAGE_WORDS THEN Len(stream) ELSE PAGE_WORDS IN
       /\ batch' = SubSeq(stream, 1, n)
       /\ stream' = SubSeq(stream, n + 1, Len(stream))
  /\ UNCHANGED <<sent, hung_up, handled, failure, crowded>>

RecvFails ==
  /\ failure = "none" /\ batch = <<>> /\ hung_up
  /\ failure' = "recv"
  /\ UNCHANGED <<sent, hung_up, stream, batch, handled, crowded>>

\* The sizes operator* and ++ may find in the second word at m_ptr: anything,
\* when it lies beyond what was received or is no header.
SizeFields ==
  IF Len(batch) > 1 /\ batch[2].pos = 1 THEN {batch[2].event.size} ELSE 0 .. MaxField

\* Whether read_queues exits; the opcode stands beside the size.
Fatal ==
  IF batch[1].pos = 0 /\ Len(batch) > 1 THEN {batch[1].event.fatal} ELSE BOOLEAN

\* What the body of the loop is given: a whole event, or other bytes beside some of it.
Given(size) ==
  IF size <= Len(batch) /\ SubSeq(batch, 1, size) = WordsOf(batch[1].event)
  THEN batch[1].event ELSE Garbled

\* Plausible bug: the page has to hold one more word for ++ to go on.
AdvanceTooStrict(size) ==
  IF size >= Len(batch)
  THEN failure' = "misaligned" /\ UNCHANGED batch
  ELSE batch' = SubSeq(batch, size + 1, Len(batch)) /\ UNCHANGED failure

\* Plausible bug: the loop goes on with the same message.
AdvanceNowhere(size) == UNCHANGED <<batch, failure>>

\* Plausible bug: ++ does not look whether it left what was received.
AdvanceUnchecked(size) ==
  batch' = SubSeq(batch, size + 1, Len(batch)) /\ UNCHANGED failure

\* iterator::operator++ throws when it has left what was received.
Advance(size) ==
  IF size > Len(batch)
  THEN failure' = "misaligned" /\ UNCHANGED batch
  ELSE batch' = SubSeq(batch, size + 1, Len(batch)) /\ UNCHANGED failure

\* One turn of the loop in read_queues: *it, the event, ++it.
Handle ==
  /\ failure = "none" /\ batch # <<>>
  /\ \E size \in SizeFields, fatal \in Fatal :
       IF fatal
       THEN failure' = "exit" /\ UNCHANGED <<batch, handled>>
       ELSE handled' = Given(size) /\ Advance(size)
  /\ UNCHANGED <<sent, hung_up, stream, crowded>>

-----------------------------------------------------------------------------
(* The compositor. *)

Emit(event) ==
  /\ ~hung_up /\ sent < MaxEvents
  /\ event.n = sent + 1
  /\ Len(stream) + event.size <= Burst
  /\ sent' = sent + 1
  /\ stream' = stream \o WordsOf(event)
  /\ crowded' = (crowded \/ Len(stream) + event.size > PAGE_WORDS)
  /\ UNCHANGED <<hung_up, batch, handled, failure>>

HangUp ==
  /\ ~hung_up
  /\ hung_up' = TRUE
  /\ UNCHANGED <<sent, stream, batch, handled, failure, crowded>>

Read == Recv \/ Handle

Next ==
  \/ Read
  \/ RecvFails
  \/ \E event \in Event : Emit(event)
  \/ HangUp

\* main() reads for as long as it runs.
Spec == Init /\ [][Next]_vars /\ WF_vars(Read)

-----------------------------------------------------------------------------
(* Properties. *)

\* The events whose first word is among `words', in their order there.
EventsIn(words) ==
  LET firsts == {i \in DOMAIN words : words[i].pos = 0}
      nth(k) == CHOOSE i \in firsts : Cardinality({j \in firsts : j <= i}) = k
  IN [k \in 1 .. Cardinality(firsts) |-> words[nth(k)].event]

Path == INSTANCE Outbox WITH
          Message <- Event, NoMessage <- NoEvent,
          outbox <- EventsIn(batch \o stream), delivered <- handled

\* Every event is handled once, whole and in the order it was sent, for as long
\* as no more than a page of them has waited in the socket.
DeliversInOrder ==
  Path!Init /\ [][crowded' \/ Path!Next]_<<EventsIn(batch \o stream), handled>>

\* queue.cpp: `Fatal stream frame misalignment' is thrown when a message is
\* longer than what was received; none such may be handled.
WholeEventsOnly == handled # Garbled

\* What the client reads next begins with the first word of an event.
InFrame == batch \o stream = <<>> \/ (batch \o stream)[1].pos = 0

\* However much waits in the socket, the client never goes on with the payload
\* of an event as if it were a header: an event cut by the end of the page
\* ends it.  The exception is a page that ends between the two words of a
\* header, where operator++ takes the size from what an earlier recv left.
FrameKept ==
  [][InFrame /\ Len(batch) # 1 => InFrame' \/ failure' = "misaligned"]_vars

\* Every event is handled, unless the client ends first or more than a page has
\* waited: a size of 0, from a header cut in two, holds the loop for ever.
EventsHandled ==
  \A n \in 1 .. MaxEvents :
    sent >= n ~> (handled.n >= n \/ failure # "none" \/ crowded)

=============================================================================
