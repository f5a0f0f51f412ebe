----------------------------- MODULE WindowProofs -----------------------------
(***************************************************************************)
(* Proofs about Window, for any sizes and any number of configures, pings  *)
(* and resizes.                                                            *)
(*                                                                         *)
(* The first part is about descriptors, the page and pixels.  The second   *)
(* one is about the rules of the protocol.  There, the requests in the     *)
(* send queue and the socket are one sequence, Path, and so are the events *)
(* in the batch and the socket, Coming.  The client appends to the one and *)
(* takes from the other, the compositor the other way round.  The          *)
(* invariant says what these sequences hold, and its proof follows what a  *)
(* step does to their ends.                                                *)
(***************************************************************************)
EXTENDS WindowInvariant, FiniteSetTheorems, TLAPS

-----------------------------------------------------------------------------
(* Sequences. *)

LEMMA ConcatLemma ==
  ASSUME NEW S, NEW s \in Seq(S), NEW t \in Seq(S)
  PROVE  /\ s \o t \in Seq(S)
         /\ DOMAIN (s \o t) = 1 .. (Len(s) + Len(t))
         /\ DOMAIN s = 1 .. Len(s) /\ DOMAIN t = 1 .. Len(t)
         /\ Len(s) \in Nat /\ Len(t) \in Nat
         /\ \A k \in 1 .. Len(s) : (s \o t)[k] = s[k]
         /\ \A k \in 1 .. Len(t) : (s \o t)[Len(s) + k] = t[k]
  OBVIOUS

LEMMA TailLemma ==
  ASSUME NEW S, NEW s \in Seq(S), s # <<>>
  PROVE  /\ Tail(s) \in Seq(S)
         /\ Head(s) \in S /\ Head(s) = s[1]
         /\ Len(s) \in Nat \ {0}
         /\ Len(Tail(s)) = Len(s) - 1
         /\ DOMAIN s = 1 .. Len(s)
         /\ DOMAIN Tail(s) = 1 .. (Len(s) - 1)
         /\ \A k \in 1 .. (Len(s) - 1) : Tail(s)[k] = s[k + 1]
  OBVIOUS

LEMMA SubSeqLemma ==
  ASSUME NEW S, NEW s \in Seq(S), NEW n \in 1 .. Len(s)
  PROVE  /\ SubSeq(s, 1, n) \in Seq(S) /\ Len(SubSeq(s, 1, n)) = n
         /\ SubSeq(s, n + 1, Len(s)) \in Seq(S)
  OBVIOUS

-----------------------------------------------------------------------------
(* create_pool requests and the files sent beside them. *)

LEMMA CreatesConcat ==
  ASSUME NEW s \in Seq(Requests), NEW q \in Seq(Requests), Creates(q) = {}
  PROVE  Creates(s \o q) = Creates(s)
<1>1. \A k \in 1 .. Len(q) : q[k].op # "create_pool"
  BY ConcatLemma DEF Creates
<1>2. \A k \in DOMAIN (s \o q) : k \in 1 .. Len(s) \/ \E j \in 1 .. Len(q) : k = Len(s) + j
  <2>1. ASSUME NEW k \in DOMAIN (s \o q), k \notin 1 .. Len(s)
        PROVE  k - Len(s) \in 1 .. Len(q) /\ k = Len(s) + (k - Len(s))
    BY <2>1, ConcatLemma
  <2>2. QED
    BY <2>1
<1>3. QED
  BY <1>1, <1>2, ConcatLemma DEF Creates

\* The m-th request of q is its only create_pool.
OnlyCreate(q, m) == m \in DOMAIN q /\ Creates(q) = {m}

LEMMA CreatesConcatOne ==
  ASSUME NEW s \in Seq(Requests), NEW q \in Seq(Requests), NEW m, OnlyCreate(q, m)
  PROVE  /\ m \in 1 .. Len(q)
         /\ Len(s) + m \in DOMAIN (s \o q) /\ (s \o q)[Len(s) + m] = q[m]
         /\ Creates(s \o q) = Creates(s) \cup {Len(s) + m}
<1> DEFINE last == Len(s) + m
<1>1. m \in 1 .. Len(q) /\ last \in DOMAIN (s \o q) /\ (s \o q)[last] = q[m]
  BY ConcatLemma DEF OnlyCreate
<1>2. \A k \in 1 .. Len(q) : q[k].op = "create_pool" <=> k = m
  BY ConcatLemma DEF OnlyCreate, Creates
<1>3. ASSUME NEW k \in DOMAIN (s \o q)
      PROVE  k \in Creates(s \o q) <=> k \in Creates(s) \cup {last}
  <2>1. CASE k \in 1 .. Len(s)
    BY <2>1, <1>1, ConcatLemma DEF Creates
  <2>2. CASE k \notin 1 .. Len(s)
    <3> DEFINE j == k - Len(s)
    <3>1. j \in 1 .. Len(q) /\ k = Len(s) + j
      BY <2>2, ConcatLemma
    <3>2. (s \o q)[k] = q[j]
      BY <3>1, ConcatLemma
    <3>3. k \notin Creates(s)
      BY <2>2, ConcatLemma DEF Creates
    <3>4. j = m <=> k = last
      BY <3>1, <1>1, ConcatLemma
    <3>5. QED
      BY <1>2, <3>1, <3>2, <3>3, <3>4 DEF Creates
  <2>3. QED
    BY <2>1, <2>2
<1>4. Creates(s) \cup {last} \subseteq DOMAIN (s \o q)
  BY <1>1, ConcatLemma DEF Creates
<1>5. QED
  BY <1>1, <1>3, <1>4 DEF Creates

LEMMA CreatesConcatFirst ==
  ASSUME NEW s \in Seq(Requests), NEW q \in Seq(Requests), Creates(s) = {},
         NEW m, OnlyCreate(q, m)
  PROVE  /\ s \o q \in Seq(Requests)
         /\ OnlyCreate(s \o q, Len(s) + m) /\ (s \o q)[Len(s) + m] = q[m]
<1>1. /\ Len(s) + m \in DOMAIN (s \o q) /\ (s \o q)[Len(s) + m] = q[m]
      /\ Creates(s \o q) = Creates(s) \cup {Len(s) + m}
  BY CreatesConcatOne
<1>2. QED
  BY <1>1, ConcatLemma DEF OnlyCreate

\* Requests without a create_pool change nothing.
LEMMA InOrderExtend ==
  ASSUME NEW s \in Seq(Requests), NEW q \in Seq(Requests), NEW r \in Seq(Nat),
         NEW served \in Nat, InOrder(s, r, served), Creates(q) = {}
  PROVE  InOrder(s \o q, r, served)
<1>1. Creates(s \o q) = Creates(s)
  BY CreatesConcat
<1>2. \A k \in Creates(s) : (s \o q)[k] = s[k]
  BY ConcatLemma DEF Creates
<1>3. QED
  BY <1>1, <1>2 DEF InOrder

\* One more create_pool, with the file that comes next.
LEMMA InOrderExtendOne ==
  ASSUME NEW s \in Seq(Requests), NEW q \in Seq(Requests), NEW r \in Seq(Nat),
         NEW served \in Nat, InOrder(s, r, served),
         NEW m, OnlyCreate(q, m), q[m].n = served + Len(r) + 1
  PROVE  InOrder(s \o q, Append(r, q[m].n), served)
<1> DEFINE last == Len(s) + m
           next == served + Len(r) + 1
<1>1. m \in 1 .. Len(q) /\ last \in DOMAIN (s \o q) /\ (s \o q)[last] = q[m]
  BY CreatesConcatOne
<1>2. Creates(s \o q) = Creates(s) \cup {last}
  BY CreatesConcatOne
<1>3. \A k \in Creates(s) : (s \o q)[k] = s[k] /\ k < last
  BY <1>1, ConcatLemma DEF Creates
<1>4. /\ DOMAIN Append(r, next) = 1 .. (Len(r) + 1)
      /\ Len(Append(r, next)) = Len(r) + 1
      /\ DOMAIN r = 1 .. Len(r) /\ Len(r) \in Nat
      /\ Append(r, next)[Len(r) + 1] = next
      /\ \A i \in 1 .. Len(r) : Append(r, next)[i] = r[i]
  OBVIOUS
<1>5. ASSUME NEW i \in DOMAIN Append(r, next) PROVE Append(r, next)[i] = served + i
  <2>1. CASE i = Len(r) + 1
    BY <1>4, <2>1
  <2>2. CASE i \in 1 .. Len(r)
    BY <1>4, <2>2 DEF InOrder
  <2>3. QED
    BY <1>4, <2>1, <2>2
<1>6. {(s \o q)[k].n : k \in Creates(s \o q)} = {s[k].n : k \in Creates(s)} \cup {next}
  <2>1. (s \o q)[last].n = next
    BY <1>1
  <2>2. \A k \in Creates(s) : (s \o q)[k].n = s[k].n
    BY <1>3
  <2>3. \A k \in Creates(s) \cup {last} :
          (s \o q)[k].n \in {s[j].n : j \in Creates(s)} \cup {next}
    BY <2>1, <2>2
  <2>4. \A x \in {s[j].n : j \in Creates(s)} \cup {next} :
          \E k \in Creates(s) \cup {last} : x = (s \o q)[k].n
    BY <2>1, <2>2
  <2>5. {(s \o q)[k].n : k \in Creates(s) \cup {last}}
          = {s[j].n : j \in Creates(s)} \cup {next}
    <3> DEFINE A == {s[j].n : j \in Creates(s)} \cup {next}
               f(k) == (s \o q)[k].n
               D == Creates(s) \cup {last}
    <3>1. (\A k \in D : f(k) \in A) /\ (\A x \in A : \E k \in D : x = f(k))
      BY <2>3, <2>4
    <3> HIDE DEF A, f, D
    <3>2. {f(k) : k \in D} = A
      BY <3>1
    <3>3. QED
      BY <3>2 DEF A, f, D
  <2>6. QED
    BY <1>2, <2>5
<1>7. {s[k].n : k \in Creates(s)} = (served + 1) .. (served + Len(r))
  BY DEF InOrder
<1>8. ((served + 1) .. (served + Len(r))) \cup {next} = (served + 1) .. (served + (Len(r) + 1))
  <2> DEFINE l == Len(r)
  <2>1. l \in Nat
    BY <1>4
  <2> HIDE DEF l
  <2>2. ((served + 1) .. (served + l)) \cup {served + l + 1} = (served + 1) .. (served + (l + 1))
    BY <2>1
  <2>3. QED
    BY <2>2 DEF l
<1>9. \A k \in Creates(s) : s[k].n < next
  <2>1. \A k \in Creates(s) : s[k].n \in (served + 1) .. (served + Len(r))
    BY <1>7
  <2>2. QED
    BY <2>1, <1>4
<1>10. \A j, k \in Creates(s \o q) : j < k => (s \o q)[j].n < (s \o q)[k].n
  <2> SUFFICES ASSUME NEW j \in Creates(s \o q), NEW k \in Creates(s \o q), j < k
               PROVE  (s \o q)[j].n < (s \o q)[k].n
    OBVIOUS
  <2>1. j \in Creates(s)
    BY <1>1, <1>2, <1>3, ConcatLemma, SMTT(40) DEF Creates
  <2>2. CASE k \in Creates(s)
    BY <1>3, <2>1, <2>2 DEF InOrder
  <2>3. CASE k = last
    BY <1>1, <1>3, <1>9, <2>1, <2>3
  <2>4. QED
    BY <1>2, <2>2, <2>3
<1>11. QED
  BY <1>4, <1>5, <1>6, <1>7, <1>8, <1>10 DEF InOrder

\* The requests a Framebuffer makes.
LEMMA LiteralLemma ==
  ASSUME NEW n \in Nat
  PROVE  /\ CreateRequests(n) \in Seq(Requests) /\ Creates(CreateRequests(n)) = {1}
         /\ 1 \in DOMAIN CreateRequests(n) /\ CreateRequests(n)[1].n = n
         /\ DestroyRequests(n) \in Seq(Requests) /\ Creates(DestroyRequests(n)) = {}
         /\ AttachRequests(n) \in Seq(Requests) /\ Creates(AttachRequests(n)) = {}
<1>1. /\ R("create_pool", n) \in Requests /\ R("create_buffer", n) \in Requests
      /\ R("destroy_buffer", n) \in Requests /\ R("destroy_pool", n) \in Requests
      /\ R("attach", n) \in Requests /\ R("commit", None) \in Requests
  BY DEF R, Requests, None
<1>2. CreateRequests(n) \in Seq(Requests) /\ Creates(CreateRequests(n)) = {1}
      /\ 1 \in DOMAIN CreateRequests(n) /\ CreateRequests(n)[1].n = n
  <2>1. CreateRequests(n) \in Seq(Requests) /\ DOMAIN CreateRequests(n) = {1, 2, 3}
    BY <1>1 DEF CreateRequests
  <2>2. /\ CreateRequests(n)[1] = [op |-> "create_pool", n |-> n]
        /\ CreateRequests(n)[2] = [op |-> "create_buffer", n |-> n]
        /\ CreateRequests(n)[3] = [op |-> "commit", n |-> None]
    BY DEF CreateRequests, R
  <2>3. QED
    BY <2>1, <2>2 DEF Creates
<1>3. DestroyRequests(n) \in Seq(Requests) /\ Creates(DestroyRequests(n)) = {}
  <2>1. DestroyRequests(n) \in Seq(Requests) /\ DOMAIN DestroyRequests(n) = {1, 2}
    BY <1>1 DEF DestroyRequests
  <2>2. /\ DestroyRequests(n)[1].op = "destroy_buffer"
        /\ DestroyRequests(n)[2].op = "destroy_pool"
    BY DEF DestroyRequests, R
  <2>3. QED
    BY <2>1, <2>2 DEF Creates
<1>4. AttachRequests(n) \in Seq(Requests) /\ Creates(AttachRequests(n)) = {}
  <2>1. AttachRequests(n) \in Seq(Requests) /\ DOMAIN AttachRequests(n) = {1, 2}
    BY <1>1 DEF AttachRequests
  <2>2. AttachRequests(n)[1].op = "attach" /\ AttachRequests(n)[2].op = "commit"
    BY DEF AttachRequests, R
  <2>3. QED
    BY <2>1, <2>2 DEF Creates
<1>5. QED
  BY <1>2, <1>3, <1>4

LEMMA RebuildLemma ==
  ASSUME NEW f \in Nat, NEW n \in Nat
  PROVE  /\ DestroyRequests(f) \o CreateRequests(n) \in Seq(Requests)
         /\ \E m : /\ OnlyCreate(DestroyRequests(f) \o CreateRequests(n), m)
                  /\ (DestroyRequests(f) \o CreateRequests(n))[m].n = n
<1> DEFINE D == DestroyRequests(f)
           C == CreateRequests(n)
<1>1. /\ D \in Seq(Requests) /\ Creates(D) = {}
      /\ C \in Seq(Requests) /\ OnlyCreate(C, 1) /\ C[1].n = n
  BY LiteralLemma DEF OnlyCreate
<1> HIDE DEF D, C
<1>2. /\ D \o C \in Seq(Requests)
      /\ OnlyCreate(D \o C, Len(D) + 1) /\ (D \o C)[Len(D) + 1] = C[1]
  BY <1>1, CreatesConcatFirst, ZenonT(60)
<1>3. \E m : OnlyCreate(D \o C, m) /\ (D \o C)[m].n = n
  BY <1>1, <1>2
<1>4. QED
  BY <1>2, <1>3 DEF D, C

\* The compositor takes a request that is no create_pool...
LEMMA InOrderTail ==
  ASSUME NEW s \in Seq(Requests), s # <<>>, NEW r \in Seq(Nat),
         NEW served \in Nat, InOrder(s, r, served), Head(s).op # "create_pool"
  PROVE  InOrder(Tail(s), r, served)
<1>1. \A k \in Creates(Tail(s)) : k + 1 \in Creates(s) /\ Tail(s)[k] = s[k + 1]
  BY TailLemma DEF Creates
<1>2. \A k \in Creates(s) : k - 1 \in Creates(Tail(s)) /\ Tail(s)[k - 1] = s[k]
  BY TailLemma DEF Creates
<1>3. {Tail(s)[k].n : k \in Creates(Tail(s))} = {s[k].n : k \in Creates(s)}
  <2>1. \A k \in Creates(Tail(s)) : Tail(s)[k].n \in {s[j].n : j \in Creates(s)}
    BY <1>1
  <2>2. \A k \in Creates(s) : s[k].n \in {Tail(s)[j].n : j \in Creates(Tail(s))}
    BY <1>2
  <2>3. QED
    BY <2>1, <2>2
<1>4. \A j, k \in Creates(Tail(s)) : j < k => Tail(s)[j].n < Tail(s)[k].n
  <2>1. \A j, k \in Creates(Tail(s)) : j < k => j + 1 < k + 1
    BY TailLemma DEF Creates
  <2>2. QED
    BY <1>1, <2>1 DEF InOrder
<1>5. QED
  BY <1>3, <1>4 DEF InOrder

\* ... or a create_pool, and then the next file is the one sent with it.
LEMMA InOrderTailOne ==
  ASSUME NEW s \in Seq(Requests), s # <<>>, NEW r \in Seq(Nat),
         NEW served \in Nat, InOrder(s, r, served), Head(s).op = "create_pool"
  PROVE  /\ r # <<>> /\ Head(r) = Head(s).n
         /\ InOrder(Tail(s), Tail(r), served + 1)
<1>1. 1 \in Creates(s) /\ Head(s) = s[1] /\ \A k \in Creates(s) : k \in Nat \ {0}
  BY TailLemma DEF Creates
<1>2. s[1].n \in (served + 1) .. (served + Len(r))
  BY <1>1 DEF InOrder
<1>3. r # <<>> /\ Len(r) \in Nat \ {0}
  BY <1>2
<1>4. PICK c \in Creates(s) : s[c].n = served + 1
  <2>1. served + 1 \in (served + 1) .. (served + Len(r))
    BY <1>3
  <2>2. QED
    BY <2>1 DEF InOrder
<1>5. s[1].n = served + 1
  <2>1. CASE c = 1
    BY <1>4, <2>1
  <2>2. CASE c # 1
    <3>1. 1 < c
      BY <1>1, <2>2
    <3>2. s[1].n < s[c].n
      BY <1>1, <3>1 DEF InOrder
    <3>3. QED
      BY <1>2, <1>4, <3>2
  <2>3. QED
    BY <2>1, <2>2
<1>6. /\ Head(r) = served + 1
      /\ Len(Tail(r)) = Len(r) - 1
      /\ \A i \in DOMAIN Tail(r) : Tail(r)[i] = (served + 1) + i
  <2>1. r[1] = served + 1
    BY <1>3 DEF InOrder
  <2>2. \A i \in DOMAIN Tail(r) : i + 1 \in DOMAIN r /\ Tail(r)[i] = r[i + 1] /\ i \in Nat
    BY <1>3, TailLemma
  <2>3. \A i \in DOMAIN Tail(r) : r[i + 1] = served + (i + 1)
    BY <2>2 DEF InOrder
  <2>4. QED
    BY <1>3, <2>1, <2>2, <2>3, TailLemma
<1>7. \A j \in Creates(Tail(s)) : j + 1 \in Creates(s) \ {1} /\ Tail(s)[j] = s[j + 1]
  BY TailLemma DEF Creates
<1>8. \A j \in Creates(s) \ {1} : j - 1 \in Creates(Tail(s)) /\ Tail(s)[j - 1] = s[j]
  BY TailLemma DEF Creates
<1>9. {Tail(s)[j].n : j \in Creates(Tail(s))} = {s[j].n : j \in Creates(s) \ {1}}
  <2>1. \A k \in Creates(Tail(s)) : Tail(s)[k].n \in {s[j].n : j \in Creates(s) \ {1}}
    BY <1>7
  <2>2. \A k \in Creates(s) \ {1} : s[k].n \in {Tail(s)[j].n : j \in Creates(Tail(s))}
    BY <1>8
  <2>3. QED
    BY <2>1, <2>2
<1>10. \A j \in Creates(s) \ {1} : s[j].n # served + 1
  BY <1>1, <1>5 DEF InOrder
<1>11. {s[j].n : j \in Creates(s) \ {1}} = {s[j].n : j \in Creates(s)} \ {served + 1}
  BY <1>1, <1>5, <1>10
<1>12. {s[j].n : j \in Creates(s)} = (served + 1) .. (served + Len(r))
  BY DEF InOrder
<1>13. ((served + 1) .. (served + Len(r))) \ {served + 1}
         = ((served + 1) + 1) .. ((served + 1) + (Len(r) - 1))
  BY <1>3
<1>14. \A i, j \in Creates(Tail(s)) : i < j => Tail(s)[i].n < Tail(s)[j].n
  <2>1. \A i, j \in Creates(Tail(s)) : i < j => i + 1 < j + 1
    BY TailLemma DEF Creates
  <2>2. QED
    BY <1>7, <2>1 DEF InOrder
<1>15. QED
  BY <1>1, <1>3, <1>5, <1>6, <1>9, <1>11, <1>12, <1>13, <1>14 DEF InOrder

-----------------------------------------------------------------------------
(* The send queue. *)

LEMMA BytesLemma ==
  /\ SetupBytes \in Nat /\ CreateBytes \in Nat /\ DestroyBytes \in Nat
  /\ AckBytes \in Nat /\ AttachBytes \in Nat /\ PongBytes \in Nat
  BY DEF SetupBytes, CreateBytes, DestroyBytes, AckBytes, AttachBytes, PongBytes

\* A handler that writes changes nothing of the queue but its bytes.
LEMMA WriteLemma ==
  ASSUME TypeOK, failure = "none", NEW rs \in Seq(Requests), NEW bytes \in Nat,
         Write(rs, bytes)
  PROVE  /\ queue' \in Queues(Requests, Nat)
         /\ queue'.fds = queue.fds
         /\ queue'.offset = queue.offset + bytes
         /\ \/ failure' = "none" /\ queue'.offset < PAGE_SIZE
               /\ queue'.requests = queue.requests \o rs
            \/ failure' = "overflow" /\ queue'.offset >= PAGE_SIZE
               /\ queue'.requests = queue.requests
<1>1. queue \in Queues(Requests, Nat) /\ queue.requests \o rs \in Seq(Requests)
  BY ConcatLemma DEF TypeOK, Queues
<1>2. CASE Overflows(queue, bytes)
  BY <1>1, <1>2 DEF Write, Overflows, Advance, Queues
<1>3. CASE ~Overflows(queue, bytes)
  <2>1. queue' = [[queue EXCEPT !.offset = @ + bytes] EXCEPT !.requests = @ \o rs]
        /\ failure' = "none"
    BY <1>3 DEF Write, Allocate, Advance
  <2>2. queue.offset + bytes < PAGE_SIZE
    BY <1>1, <1>3, SendQueueAssumption DEF Overflows, Queues
  <2>3. queue' = [requests |-> queue.requests \o rs, fds |-> queue.fds,
                  offset |-> queue.offset + bytes]
    BY <1>1, <2>1 DEF Queues
  <2>4. queue' \in Queues(Requests, Nat)
    BY <1>1, <2>3 DEF Queues
  <2>5. /\ queue'.fds = queue.fds /\ queue'.offset = queue.offset + bytes
        /\ queue'.requests = queue.requests \o rs
    BY <2>3
  <2>6. QED
    BY <2>1, <2>2, <2>4, <2>5
<1>4. QED
  BY <1>2, <1>3

\* The queue refers to no descriptor, or to the first one only.
FirstAtMost(q) == q.fds \in {<<>>, <<1>>}

\* Sending at most one descriptor, and an open one, succeeds.
LEMMA SendLemma ==
  ASSUME TypeOK, NEW q \in Queues(Requests, Nat), NEW open,
         FirstAtMost(q), 1 \in DOMAIN open, open[1] \in Nat,
         Send(q, open)
  PROVE  /\ socket' = socket \o q.requests
         /\ rights' = IF q.fds = <<>> THEN rights ELSE Append(rights, open[1])
         /\ queue' = EmptyQueue
         /\ UNCHANGED failure
<1> USE DEF FirstAtMost
<1>1. Len(q.fds) <= 1 /\ \A i \in DOMAIN q.fds : q.fds[i] = 1
  <2>1. CASE q.fds = <<>>
    BY <2>1
  <2>2. CASE q.fds = <<1>>
    BY <2>2
  <2>3. QED
    BY <2>1, <2>2
<1>2. ~Overruns(q)
  BY <1>1, SendQueueAssumption DEF Overruns
<1>3. /\ socket' = socket \o q.requests
      /\ rights' = rights \o [i \in DOMAIN q.fds |-> open[q.fds[i]]]
      /\ queue' = EmptyQueue
      /\ UNCHANGED failure
  BY <1>1, <1>2 DEF Send, Flushed
<1>4. CASE q.fds = <<>>
  <2>1. [i \in DOMAIN q.fds |-> open[q.fds[i]]] = <<>>
    BY <1>4
  <2>2. QED
    BY <1>3, <1>4, <2>1 DEF TypeOK
<1>5. CASE q.fds = <<1>>
  <2>1. [i \in DOMAIN q.fds |-> open[q.fds[i]]] = <<open[1]>>
    BY <1>5
  <2>2. QED
    BY <1>3, <1>5, <2>1 DEF TypeOK
<1>6. QED
  BY <1>4, <1>5

-----------------------------------------------------------------------------
(* The replies to the events of one recv. *)

\* The places of the events of one kind.
Places(ev, events) == {k \in DOMAIN events : events[k].ev = ev}

LEMMA CountLemma ==
  ASSUME NEW s \in Seq(Events), s # <<>>, NEW ev
  PROVE  /\ Count(ev, s) \in Nat /\ Count(ev, Tail(s)) \in Nat
         /\ Count(ev, s) = Count(ev, Tail(s)) + (IF Head(s).ev = ev THEN 1 ELSE 0)
<1> DEFINE P == Places(ev, s)
           T == Places(ev, Tail(s))
           L == P \ {1}
           f == [k \in T |-> k + 1]
<1>1. /\ Len(s) \in Nat \ {0} /\ Head(s) = s[1]
      /\ DOMAIN s = 1 .. Len(s) /\ DOMAIN Tail(s) = 1 .. (Len(s) - 1)
      /\ \A k \in 1 .. (Len(s) - 1) : Tail(s)[k] = s[k + 1]
  BY TailLemma
<1>2. IsFiniteSet(P) /\ IsFiniteSet(T) /\ IsFiniteSet(L)
  <2>1. IsFiniteSet(1 .. Len(s)) /\ IsFiniteSet(1 .. (Len(s) - 1))
    BY <1>1, FS_Interval
  <2>2. P \subseteq 1 .. Len(s) /\ T \subseteq 1 .. (Len(s) - 1) /\ L \subseteq 1 .. Len(s)
    BY <1>1 DEF Places
  <2> HIDE DEF P, T, L
  <2> QED BY <2>1, <2>2, FS_Subset
<1>3. \A k \in T : k + 1 \in L /\ k \in Nat
  BY <1>1 DEF Places
<1>4. \A k \in L : k - 1 \in T /\ k \in Nat /\ (k - 1) + 1 = k
  BY <1>1 DEF Places
<1>5. ExistsBijection(T, L)
  <2> HIDE DEF T, L
  <2>1. f \in [T -> L] /\ \A k \in T : f[k] = k + 1
    BY <1>3
  <2>2. \A j, k \in T : f[j] = f[k] => j = k
    BY <1>3, <2>1
  <2>3. \A k \in L : \E j \in T : f[j] = k
    BY <1>4, <2>1
  <2> HIDE DEF f
  <2>4. f \in Bijection(T, L)
    BY <2>1, <2>2, <2>3 DEF Bijection, Injection, Surjection, IsInjective
  <2> QED BY <2>4 DEF ExistsBijection
<1>6. Cardinality(T) = Cardinality(L) /\ Cardinality(T) \in Nat /\ Cardinality(P) \in Nat
  <2> HIDE DEF P, T, L
  <2> QED BY <1>2, <1>5, FS_Bijection, FS_CardinalityType
<1>7. Cardinality(P) = Cardinality(L) + (IF Head(s).ev = ev THEN 1 ELSE 0)
  <2>1. CASE Head(s).ev = ev
    <3>1. 1 \in P
      BY <1>1, <2>1 DEF Places
    <3>2. Cardinality(L) = Cardinality(P) - 1
      <4> HIDE DEF P
      <4> QED BY <1>2, <3>1, FS_RemoveElement
    <3> HIDE DEF P, L
    <3> QED BY <1>6, <2>1, <3>2
  <2>2. CASE Head(s).ev # ev
    <3>1. L = P
      BY <1>1, <2>2 DEF Places
    <3> HIDE DEF P, L, T
    <3> QED BY <1>6, <2>2, <3>1
  <2> QED BY <2>1, <2>2
<1>8. Count(ev, s) = Cardinality(P) /\ Count(ev, Tail(s)) = Cardinality(T)
  BY DEF Count, Places
<1> HIDE DEF P, T, L
<1> QED BY <1>6, <1>7, <1>8

\* What the listener of an event writes, but for a resize.
Reply(ev) ==
  CASE ev = "configure" -> AckBytes + AttachBytes
    [] ev = "ping" -> PongBytes
    [] OTHER -> 0

LEMMA RepliesLemma ==
  ASSUME NEW s \in Seq(Events), s # <<>>
  PROVE  /\ RepliesTo(s) \in Nat /\ RepliesTo(Tail(s)) \in Nat
         /\ RepliesTo(s) = RepliesTo(Tail(s)) + Reply(Head(s).ev)
<1> DEFINE c == Count("configure", Tail(s))
           p == Count("ping", Tail(s))
           e == Head(s).ev
<1>1. /\ c \in Nat /\ p \in Nat
      /\ Count("configure", s) = c + (IF e = "configure" THEN 1 ELSE 0)
      /\ Count("ping", s) = p + (IF e = "ping" THEN 1 ELSE 0)
  BY CountLemma
<1>2. /\ RepliesTo(Tail(s)) = 40 * c + 12 * p
      /\ RepliesTo(s) = 40 * Count("configure", s) + 12 * Count("ping", s)
  BY DEF RepliesTo, AckBytes, AttachBytes, PongBytes
<1>3. Reply(e) = IF e = "configure" THEN 40 ELSE IF e = "ping" THEN 12 ELSE 0
  BY DEF Reply, AckBytes, AttachBytes, PongBytes
<1> HIDE DEF c, p, e
<1>4. CASE e = "configure"
  BY <1>1, <1>2, <1>3, <1>4 DEF e
<1>5. CASE e = "ping"
  BY <1>1, <1>2, <1>3, <1>5 DEF e
<1>6. CASE e \notin {"configure", "ping"}
  BY <1>1, <1>2, <1>3, <1>6 DEF e
<1> QED BY <1>4, <1>5, <1>6

LEMMA RepliesType ==
  ASSUME NEW s \in Seq(Events)
  PROVE  RepliesTo(s) \in Nat
<1>1. CASE s = <<>>
  <2>1. {k \in DOMAIN s : s[k].ev = "configure"} = {} /\ {k \in DOMAIN s : s[k].ev = "ping"} = {}
    BY <1>1
  <2>2. Count("configure", s) = 0 /\ Count("ping", s) = 0
    BY <2>1, FS_EmptySet DEF Count
  <2> QED BY <2>2 DEF RepliesTo, AckBytes, AttachBytes, PongBytes
<1>2. CASE s # <<>>
  BY <1>2, RepliesLemma
<1> QED BY <1>1, <1>2

\* What the first event of the batch makes of the room that is left.
LEMMA RoomLemma ==
  ASSUME DescriptorsInv, NEW ev, Handles(ev)
  PROVE  /\ received \in Seq(Events) /\ received' = received
         /\ queue.offset \in Nat /\ RepliesTo(Tail(batch)) \in Nat
         /\ queue.offset + RepliesTo(Tail(batch)) + Reply(ev) <= RepliesTo(received)
<1>1. /\ batch \in Seq(Events) /\ batch # <<>> /\ Head(batch).ev = ev
      /\ received \in Seq(Events) /\ received' = received
      /\ queue.offset \in Nat /\ queue.offset + RepliesTo(batch) <= RepliesTo(received)
  BY DEF Handles, DescriptorsInv, TypeOK, Queues, QueueInv
<1>2. /\ RepliesTo(Tail(batch)) \in Nat
      /\ RepliesTo(batch) = RepliesTo(Tail(batch)) + Reply(ev)
  BY <1>1, RepliesLemma
<1>3. Reply(ev) \in Nat
  BY DEF Reply, AckBytes, AttachBytes, PongBytes
<1>4. queue.offset + (RepliesTo(Tail(batch)) + Reply(ev)) <= RepliesTo(received)
  BY <1>1, <1>2
<1> QED BY <1>1, <1>2, <1>3, <1>4

-----------------------------------------------------------------------------
(* The inductive invariant, one lemma per action. *)

\* A dispatch sends what is in the queue, if there is something.
LEMMA DispatchLemma ==
  ASSUME DescriptorsInv, Dispatch
  PROVE  /\ queue' = EmptyQueue /\ failure' = "none"
         /\ socket' = socket \o queue.requests
         /\ rights' = IF queue.fds = <<>> THEN rights ELSE Append(rights, frame)
<1> USE DEF DescriptorsInv
<1>1. failure = "none" /\ dispatch_pending(queue, files)
  BY DEF Dispatch
<1>2. /\ queue \in Queues(Requests, Nat) /\ queue.fds \in {<<>>, <<1>>}
      /\ 1 \in DOMAIN files /\ files[1] = frame /\ frame \in Nat
  BY DEF TypeOK, Queues, QueueInv
<1>3. CASE IsEmpty(queue)
  <2>1. queue = EmptyQueue
    BY <1>3 DEF QueueInv
  <2>2. QED
    BY <1>1, <1>3, <2>1 DEF dispatch_pending, EmptyQueue, TypeOK
<1>4. CASE ~IsEmpty(queue)
  BY <1>1, <1>2, <1>4, SendLemma DEF dispatch_pending, FirstAtMost
<1>5. QED
  BY <1>3, <1>4

LEMMA DispatchStep ==
  ASSUME DescriptorsInv, Dispatch
  PROVE  DescriptorsInv'
<1> USE DEF DescriptorsInv
<1>1. /\ pc = "dispatch" /\ failure = "none" /\ pc' = "recv"
      /\ UNCHANGED <<batch, received, frame, fd, files, should_close, extents, incoming,
                     compositor>>
  BY DEF Dispatch
<1>2. /\ queue \in Queues(Requests, Nat) /\ queue.requests \in Seq(Requests)
      /\ queue.fds \in {<<>>, <<1>>} /\ frame \in Nat
  BY DEF TypeOK, Queues, QueueInv
<1>3. /\ queue' = EmptyQueue /\ failure' = "none"
      /\ socket' = socket \o queue.requests
      /\ rights' = IF queue.fds = <<>> THEN rights ELSE Append(rights, frame)
  BY DispatchLemma
<1>4. /\ EmptyQueue \in Queues(Requests, Nat)
      /\ EmptyQueue.fds = <<>> /\ EmptyQueue.offset = 0 /\ EmptyQueue.requests = <<>>
  BY DEF EmptyQueue, Queues
<1>5. socket' \in Seq(Requests) /\ rights' \in Seq(Nat)
  BY <1>2, <1>3, ConcatLemma DEF TypeOK
<1>6. TypeOK'
  BY <1>1, <1>3, <1>4, <1>5, SendQueueAssumption, SMTT(40) DEF TypeOK, compositor, surface
<1>7. QueueInv'
  BY <1>1, <1>3, <1>4 DEF QueueInv
<1>8. RightsInv'
  <2> DEFINE served == frame - Len(queue.fds) - Len(rights)
  <2>1. served \in Nat /\ InOrder(socket, rights, served)
    BY DEF RightsInv
  <2>2. InOrder(socket', rights', served) /\ served = frame - 0 - Len(rights')
    <3>1. CASE queue.fds = <<>>
      <4>1. Creates(queue.requests) = {}
        BY <3>1 DEF RightsInv
      <4>2. QED
        BY <1>2, <1>3, <2>1, <3>1, <4>1, InOrderExtend DEF TypeOK
    <3>2. CASE queue.fds # <<>>
      <4>1. PICK k : OnlyCreate(queue.requests, k) /\ queue.requests[k].n = frame
        BY <3>2 DEF RightsInv, OnlyCreate
      <4>2. Len(queue.fds) = 1
        BY <1>2, <3>2
      <4>3. Len(rights) \in Nat /\ frame = served + Len(rights) + 1
        BY <1>2, <4>2, SMTT(40) DEF TypeOK
      <4>4. InOrder(socket \o queue.requests, Append(rights, queue.requests[k].n), served)
        BY <1>2, <2>1, <4>1, <4>3, InOrderExtendOne DEF TypeOK
      <4>5. rights' = Append(rights, frame) /\ Len(rights') = Len(rights) + 1
        BY <1>3, <3>2 DEF TypeOK
      <4>6. InOrder(socket', rights', served)
        BY <1>3, <4>1, <4>4, <4>5
      <4>7. served = frame - 0 - Len(rights')
        BY <1>2, <4>2, <4>3, <4>5
      <4>8. QED
        BY <4>6, <4>7
    <3>3. QED
      BY <3>1, <3>2
  <2>3. Creates(<<>>) = {}
    BY DEF Creates
  <2>4. QED
    BY <1>1, <1>3, <1>4, <2>1, <2>2, <2>3 DEF RightsInv
<1>9. PoolsGetTheirFile' /\ RoomForReplies'
  BY <1>1, <1>3 DEF PoolsGetTheirFile, RoomForReplies, compositor
<1>10. QED
  BY <1>6, <1>7, <1>8, <1>9

LEMMA RecvStep ==
  ASSUME DescriptorsInv, Recv
  PROVE  DescriptorsInv'
<1> USE DEF DescriptorsInv
<1>1. PICK n \in 1 .. Len(incoming) :
        /\ n <= BatchMax
        /\ batch' = SubSeq(incoming, 1, n)
        /\ incoming' = SubSeq(incoming, n + 1, Len(incoming))
  BY DEF Recv
<1>2. /\ pc = "recv" /\ pc' = "handle" /\ failure = "none"
      /\ UNCHANGED <<failure, queue, frame, fd, files, should_close, extents, socket,
                     rights, compositor>>
  BY DEF Recv
<1>3. /\ batch' \in Seq(Events) /\ incoming' \in Seq(Events) /\ batch' # <<>>
      /\ received' \in Seq(Events)
  <2>1. batch' \in Seq(Events) /\ incoming' \in Seq(Events) /\ Len(batch') = n
    BY <1>1, SubSeqLemma DEF TypeOK
  <2> QED BY <2>1 DEF Recv
<1>4. TypeOK'
  BY <1>2, <1>3 DEF TypeOK, compositor, surface
<1>5. queue.fds = <<>> /\ queue.offset = 0
  BY <1>2 DEF QueueInv, EmptyQueue
<1>6. QueueInv'
  <2>1. received' = batch' /\ RepliesTo(batch') \in Nat
    BY <1>1, <1>3, RepliesLemma DEF Recv
  <2> QED BY <1>2, <1>5, <2>1 DEF QueueInv
<1>7. RightsInv'
  BY <1>2 DEF RightsInv
<1>8. PoolsGetTheirFile' /\ RoomForReplies'
  BY <1>2 DEF PoolsGetTheirFile, RoomForReplies, compositor
<1>9. QED
  BY <1>4, <1>6, <1>7, <1>8

LEMMA LoopStep ==
  ASSUME DescriptorsInv, Loop
  PROVE  DescriptorsInv'
<1> USE DEF DescriptorsInv
<1>1. /\ pc' \in {"done", "dispatch"} /\ failure = "none" /\ received' = <<>>
      /\ UNCHANGED <<failure, batch, queue, frame, fd, files, should_close, extents,
                     socket, rights, incoming, compositor>>
  BY DEF Loop
<1>2. TypeOK'
  <2>1. received' \in Seq(Events)
    BY <1>1
  <2> QED BY <1>1, <2>1 DEF TypeOK, compositor, surface
<1>3. QueueInv' /\ RightsInv'
  BY <1>1 DEF QueueInv, RightsInv
<1>4. PoolsGetTheirFile' /\ RoomForReplies'
  BY <1>1 DEF PoolsGetTheirFile, RoomForReplies, compositor
<1>5. QED
  BY <1>2, <1>3, <1>4

\* A handler that only writes requests other than create_pool.
LEMMA ReplyStep ==
  ASSUME DescriptorsInv, NEW ev, Handles(ev),
         NEW rs \in Seq(Requests), Creates(rs) = {},
         NEW bytes \in Nat \ {0}, bytes = Reply(ev), Write(rs, bytes),
         UNCHANGED <<frame, fd, files, should_close, extents, socket, rights>>
  PROVE  DescriptorsInv'
<1> USE DEF DescriptorsInv
<1>1. /\ pc = "handle" /\ pc' = "handle" /\ failure = "none"
      /\ batch # <<>> /\ batch' = Tail(batch)
      /\ UNCHANGED <<received, incoming, compositor>>
  BY DEF Handles
<1>2. /\ queue' \in Queues(Requests, Nat)
      /\ queue'.fds = queue.fds
      /\ queue'.offset = queue.offset + bytes
      /\ \/ failure' = "none" /\ queue'.offset < PAGE_SIZE
            /\ queue'.requests = queue.requests \o rs
         \/ failure' = "overflow" /\ queue'.offset >= PAGE_SIZE
            /\ queue'.requests = queue.requests
  BY <1>1, WriteLemma
<1>3. batch' \in Seq(Events)
  BY <1>1, TailLemma DEF TypeOK
<1>4. TypeOK'
  BY <1>1, <1>2, <1>3 DEF TypeOK, compositor, surface
<1>5. queue.offset \in Nat /\ queue.fds = <<>>
  BY <1>1 DEF TypeOK, Queues, QueueInv
<1>6. /\ RepliesTo(batch') \in Nat
      /\ queue'.offset + RepliesTo(batch') <= RepliesTo(received')
      /\ queue'.offset \in Nat \ {0}
      /\ QueueInv'
  <2>1. /\ queue.offset \in Nat /\ RepliesTo(Tail(batch)) \in Nat
        /\ queue.offset + RepliesTo(Tail(batch)) + bytes <= RepliesTo(received)
    BY RoomLemma
  <2>2. queue'.offset = queue.offset + bytes
    BY <1>2
  <2>3. /\ RepliesTo(batch') \in Nat
        /\ queue'.offset + RepliesTo(batch') <= RepliesTo(received')
        /\ queue'.offset \in Nat \ {0}
    <3> DEFINE left == RepliesTo(Tail(batch))
               all == RepliesTo(received)
    <3>1. RepliesTo(batch') = left /\ RepliesTo(received') = all
      BY <1>1
    <3>2. all \in Nat
      BY RepliesType DEF TypeOK
    <3> HIDE DEF left, all
    <3> QED BY <2>1, <2>2, <3>1, <3>2 DEF left, all
  <2> QED BY <1>1, <1>2, <1>5, <2>3 DEF QueueInv, IsEmpty
<1>7. Creates(queue.requests \o rs) = {}
  BY <1>5, CreatesConcat DEF RightsInv, TypeOK, Queues
<1>8. RightsInv'
  <2>1. Creates(queue.requests) = {}
    BY <1>5 DEF RightsInv
  <2>2. QED
    BY <1>2, <1>5, <1>7, <2>1 DEF RightsInv
<1>9. RoomForReplies'
  <2> SUFFICES ASSUME queue'.offset >= PAGE_SIZE
               PROVE  RepliesTo(received') + DestroyBytes + CreateBytes >= PAGE_SIZE
    BY <1>2 DEF RoomForReplies
  <2> DEFINE all == RepliesTo(received')
             left == RepliesTo(batch')
             offset == queue'.offset
  <2>1. all \in Int /\ left \in Nat /\ offset \in Nat /\ offset + left <= all
    <3>1. RepliesTo(received) \in Nat
      BY RepliesType DEF TypeOK
    <3>2. RepliesTo(received') = RepliesTo(received)
      BY <1>1
    <3> QED BY <1>6, <3>1, <3>2
  <2> HIDE DEF all, left, offset
  <2>2. all + DestroyBytes + CreateBytes >= PAGE_SIZE
    BY <2>1, SendQueueAssumption DEF DestroyBytes, CreateBytes, offset
  <2> QED BY <2>2 DEF all
<1>10. PoolsGetTheirFile'
  BY <1>1 DEF PoolsGetTheirFile, compositor
<1>11. QED
  BY <1>4, <1>6, <1>8, <1>9, <1>10


LEMMA HandleConfigureStep ==
  ASSUME DescriptorsInv, HandleConfigure
  PROVE  DescriptorsInv'
<1> DEFINE rs == <<R("ack", Head(batch).n)>> \o AttachRequests(frame)
<1>1. /\ Handles("configure") /\ Write(rs, AckBytes + AttachBytes)
      /\ UNCHANGED <<frame, fd, files, should_close, extents, socket, rights>>
  BY DEF HandleConfigure
<1>2. Head(batch).n \in Nat
  <2>1. Head(batch) \in Events /\ Head(batch).ev = "configure"
    BY <1>1, TailLemma DEF Handles, DescriptorsInv, TypeOK
  <2>2. QED
    BY <2>1 DEF Events
<1>3. <<R("ack", Head(batch).n)>> \in Seq(Requests)
  BY <1>2 DEF R, Requests
<1>4. rs \in Seq(Requests) /\ Creates(rs) = {}
  <2>1. Creates(<<R("ack", Head(batch).n)>>) = {}
    BY DEF Creates, R
  <2>2. AttachRequests(frame) \in Seq(Requests) /\ Creates(AttachRequests(frame)) = {}
    BY LiteralLemma DEF DescriptorsInv, TypeOK
  <2>3. QED
    BY <1>3, <2>1, <2>2, ConcatLemma, CreatesConcat
<1> HIDE DEF rs
<1>5. AckBytes + AttachBytes \in Nat \ {0} /\ AckBytes + AttachBytes = Reply("configure")
  BY DEF AckBytes, AttachBytes, Reply
<1>6. QED
  BY <1>1, <1>4, <1>5, ReplyStep

LEMMA HandlePingStep ==
  ASSUME DescriptorsInv, HandlePing
  PROVE  DescriptorsInv'
<1> DEFINE rs == <<R("pong", Head(batch).n)>>
<1>1. /\ Handles("ping") /\ Write(rs, PongBytes)
      /\ UNCHANGED <<frame, fd, files, should_close, extents, socket, rights>>
  BY DEF HandlePing
<1>2. Head(batch).n \in Nat
  <2>1. Head(batch) \in Events /\ Head(batch).ev = "ping"
    BY <1>1, TailLemma DEF Handles, DescriptorsInv, TypeOK
  <2>2. QED
    BY <2>1 DEF Events
<1>3. rs \in Seq(Requests) /\ Creates(rs) = {}
  BY <1>2 DEF R, Requests, Creates
<1> HIDE DEF rs
<1>4. PongBytes \in Nat \ {0} /\ PongBytes = Reply("ping")
  BY DEF PongBytes, Reply
<1>5. QED
  BY <1>1, <1>3, <1>4, ReplyStep

\* An event that leads to no request.
LEMMA SilentStep ==
  ASSUME DescriptorsInv, NEW ev, Handles(ev), should_close' \in BOOLEAN,
         UNCHANGED <<failure, queue, frame, fd, files, extents, socket, rights>>
  PROVE  DescriptorsInv'
<1> USE DEF DescriptorsInv
<1>1. /\ pc = "handle" /\ pc' = "handle" /\ failure = "none"
      /\ batch # <<>> /\ batch' = Tail(batch)
      /\ UNCHANGED <<received, incoming, compositor>>
  BY DEF Handles
<1>2. batch' \in Seq(Events)
  BY <1>1, TailLemma DEF TypeOK
<1>3. TypeOK'
  BY <1>1, <1>2 DEF TypeOK, compositor, surface
<1>4. QueueInv'
  <2> DEFINE left == RepliesTo(Tail(batch))
             all == RepliesTo(received)
  <2>1. /\ queue.offset \in Nat /\ left \in Nat /\ Reply(ev) \in Nat /\ all \in Nat
        /\ queue.offset + left + Reply(ev) <= all
    BY RoomLemma, RepliesType DEF Reply, AckBytes, AttachBytes, PongBytes
  <2>2. RepliesTo(batch') = left /\ RepliesTo(received') = all
    BY <1>1
  <2> HIDE DEF left, all
  <2>3. queue'.offset + RepliesTo(batch') <= RepliesTo(received')
    BY <2>1, <2>2
  <2>4. QED
    BY <1>1, <2>3 DEF QueueInv
<1>5. RightsInv'
  BY DEF RightsInv
<1>6. PoolsGetTheirFile' /\ RoomForReplies'
  BY <1>1 DEF PoolsGetTheirFile, RoomForReplies, compositor
<1>7. QED
  BY <1>3, <1>4, <1>5, <1>6

\* The ways a Resize can go.
LEMMA ResizeCases ==
  ASSUME NEW extent, Resize(extent)
  PROVE  \/ \E bytes \in {DestroyBytes, DestroyBytes + CreateBytes} :
              Overflows(queue, bytes) /\ Overflow(bytes)
         \/ Fault
         \/ ~DrawsFarOutside(extent) /\ Rebuild(extent)
  BY DEF Resize

\* Resize puts one descriptor into the queue and empties it.
LEMMA ResizeLemma ==
  ASSUME DescriptorsInv, NEW extent \in Extents, Handles("toplevel_configure"), Rebuild(extent)
  PROVE  LET n == frame + 1
             rs == DestroyRequests(frame) \o CreateRequests(n)
         IN /\ frame' = n /\ fd' = 1 /\ files' = [d \in {1} |-> n]
            /\ extents' = Append(extents, extent)
            /\ queue' = EmptyQueue /\ failure' = "none"
            /\ rights' = Append(rights, n)
            /\ queue.requests \o rs \in Seq(Requests)
            /\ socket' = socket \o (queue.requests \o rs)
<1> USE DEF DescriptorsInv
<1> DEFINE bytes == DestroyBytes + CreateBytes
           n == frame + 1
           table == Reopened(n)
           rs == DestroyRequests(frame) \o CreateRequests(n)
<1>1. pc = "handle" /\ failure = "none"
  BY DEF Handles
<1>2. /\ queue \in Queues(Requests, Nat) /\ queue.offset \in Nat /\ queue.fds = <<>>
      /\ queue.requests \in Seq(Requests)
  BY <1>1 DEF TypeOK, Queues, QueueInv
<1>3. frame \in Nat \ {0} /\ fd = 1 /\ DOMAIN files = {1}
      /\ n \in Nat \ {0} /\ n = frame + 1 /\ frame \in Nat
  BY DEF TypeOK, QueueInv
<1>4. /\ frame' = n /\ fd' = table.fd /\ files' = table.files
      /\ extents' = Append(extents, extent)
      /\ dispatch_pending(Rebuilt(n, table.fd), table.files)
  BY DEF Rebuild
<1> HIDE DEF n
<1>5. table.fd = 1 /\ table.files = [d \in {1} |-> n]
  <2>1. LowestFree({}, n) = 1
    <3> DEFINE P(d) == d \notin {} /\ \A e \in 1 .. (d - 1) : e \in {}
    <3>1. 1 \in 1 .. n /\ P(1)
      BY <1>3
    <3>2. ASSUME NEW d \in 1 .. n, P(d) PROVE d = 1
      <4>1. d # 1 => 1 \in 1 .. (d - 1)
        BY <1>3
      <4>2. QED
        BY <3>2, <4>1
    <3>3. QED
      BY <3>1, <3>2 DEF LowestFree
  <2>2. DOMAIN files \ {fd} = {}
    BY <1>3
  <2>3. QED
    BY <2>1, <2>2 DEF Reopened
<1>6. rs \in Seq(Requests)
  BY <1>3, RebuildLemma
<1> DEFINE q == Rebuilt(n, 1)
<1>7. /\ q.requests = queue.requests \o rs /\ q.fds = <<1>>
      /\ q.offset = queue.offset + bytes /\ q.offset # 0
      /\ q \in Queues(Requests, Nat) /\ queue.requests \o rs \in Seq(Requests)
  <2>1. queue.requests \o rs \in Seq(Requests)
    BY <1>2, <1>6, ConcatLemma
  <2>2. q = [requests |-> queue.requests \o rs, fds |-> Append(queue.fds, 1),
             offset |-> queue.offset + bytes]
    <3>1. q = [[[queue EXCEPT !.offset = @ + bytes] EXCEPT !.requests = @ \o rs]
                EXCEPT !.fds = Append(@, 1)]
      BY DEF Rebuilt, AddFD, Allocate, Advance
    <3> HIDE DEF q, rs, bytes
    <3>2. QED
      BY <1>2, <3>1 DEF Queues
  <2> HIDE DEF q, rs, bytes
  <2>3. Append(queue.fds, 1) = <<1>> /\ <<1>> \in Seq(Nat)
    BY <1>2
  <2>4. queue.offset + bytes \in Nat \ {0}
    BY <1>2 DEF bytes, DestroyBytes, CreateBytes
  <2>5. /\ q.requests = queue.requests \o rs /\ q.fds = <<1>>
        /\ q.offset = queue.offset + bytes
    BY <2>2, <2>3
  <2>6. q \in Queues(Requests, Nat)
    BY <2>1, <2>2, <2>3, <2>4 DEF Queues
  <2>7. QED
    BY <2>1, <2>4, <2>5, <2>6
<1> HIDE DEF rs
<1> DEFINE open == [d \in {1} |-> n]
<1>8. Send(q, open) /\ files' = open /\ 1 \in DOMAIN open /\ open[1] = n
  BY <1>4, <1>5, <1>7 DEF dispatch_pending, IsEmpty
<1> HIDE DEF q, open
<1>9. /\ socket' = socket \o q.requests
      /\ rights' = Append(rights, n)
      /\ queue' = EmptyQueue /\ failure' = "none"
  <2>1. q.fds \in {<<>>, <<1>>} /\ q.fds # <<>>
    BY <1>7
  <2>2. TypeOK /\ q \in Queues(Requests, Nat) /\ open[1] \in Nat
    BY <1>3, <1>7, <1>8
  <2>3. /\ socket' = socket \o q.requests
        /\ rights' = IF q.fds = <<>> THEN rights ELSE Append(rights, open[1])
        /\ queue' = EmptyQueue /\ UNCHANGED failure
    BY ONLY TypeOK, <1>8, <2>1, <2>2, SendLemma DEF FirstAtMost
  <2>4. QED
    BY <1>1, <1>8, <2>1, <2>3
<1>10. fd' = 1 /\ files' = [d \in {1} |-> n]
  BY <1>4, <1>5
<1>11. QED
  BY <1>4, <1>7, <1>9, <1>10 DEF n, rs

LEMMA ResizeStep ==
  ASSUME DescriptorsInv, NEW extent \in Extents, Handles("toplevel_configure"), Resize(extent),
         UNCHANGED should_close
  PROVE  DescriptorsInv'
<1> USE DEF DescriptorsInv
<1> DEFINE n == frame + 1
           rs == DestroyRequests(frame) \o CreateRequests(n)
<1>1. /\ pc = "handle" /\ pc' = "handle" /\ failure = "none"
      /\ batch # <<>> /\ batch' = Tail(batch)
      /\ UNCHANGED <<received, incoming, compositor>>
  BY DEF Handles
<1>2. batch' \in Seq(Events)
  BY <1>1, TailLemma DEF TypeOK
<1>3. /\ queue \in Queues(Requests, Nat) /\ queue.offset \in Nat /\ queue.fds = <<>>
      /\ queue.requests \in Seq(Requests) /\ Creates(queue.requests) = {}
  BY <1>1 DEF TypeOK, Queues, QueueInv, RightsInv
<1>4. frame \in Nat \ {0} /\ fd = 1 /\ DOMAIN files = {1}
      /\ n \in Nat \ {0} /\ n = frame + 1 /\ frame \in Nat
  BY DEF TypeOK, QueueInv
<1> HIDE DEF n
<1> DEFINE left == RepliesTo(Tail(batch))
           all == RepliesTo(received)
<1>8. /\ left \in Nat /\ all \in Nat /\ queue.offset + left <= all
      /\ RepliesTo(batch') = left /\ RepliesTo(received') = all
  <2>1. /\ left \in Nat /\ all \in Nat
        /\ queue.offset + left + Reply("toplevel_configure") <= all
    BY RoomLemma, RepliesType
  <2>2. RepliesTo(batch') = left /\ RepliesTo(received') = all
    BY <1>1
  <2>3. Reply("toplevel_configure") = 0
    BY DEF Reply
  <2> HIDE DEF left, all
  <2> QED BY <1>3, <2>1, <2>2, <2>3
<1> HIDE DEF left, all
<1>5. ASSUME NEW b \in {DestroyBytes, DestroyBytes + CreateBytes}, Overflows(queue, b), Overflow(b)
      PROVE  DescriptorsInv'
  <2>1. /\ queue' = Advance(queue, b) /\ failure' = "overflow"
        /\ UNCHANGED <<frame, fd, files, extents, socket, rights>>
    BY <1>5 DEF Overflow
  <2>9. b \in {16, 72}
    BY <1>5 DEF DestroyBytes, CreateBytes
  <2>2. /\ queue' \in Queues(Requests, Nat) /\ queue'.offset = queue.offset + b
        /\ queue'.offset # 0
        /\ queue'.fds = queue.fds /\ queue'.requests = queue.requests
    BY <1>3, <2>1, <2>9 DEF Advance, Queues
  <2>3. TypeOK'
    BY <1>1, <1>2, <2>1, <2>2 DEF TypeOK, compositor, surface
  <2>4. QueueInv'
    BY <1>1, <1>3, <2>1, <2>2 DEF QueueInv, IsEmpty
  <2>5. RightsInv'
    BY <2>1, <2>2 DEF RightsInv
  <2>6. RoomForReplies'
    <3>1. queue.offset + b >= PAGE_SIZE
      BY <1>5 DEF Overflows
    <3>2. RepliesTo(received') + DestroyBytes + CreateBytes >= PAGE_SIZE
      BY <1>3, <1>8, <2>9, <3>1, SendQueueAssumption DEF DestroyBytes, CreateBytes
    <3> QED BY <3>2 DEF RoomForReplies
  <2>7. PoolsGetTheirFile'
    BY <1>1 DEF PoolsGetTheirFile, compositor
  <2>8. QED
    BY <2>3, <2>4, <2>5, <2>6, <2>7
<1>9. ASSUME Fault PROVE DescriptorsInv'
  <2>1. /\ failure' = "fault"
        /\ UNCHANGED <<queue, frame, fd, files, extents, socket, rights>>
    BY <1>9 DEF Fault
  <2>2. TypeOK'
    BY <1>1, <1>2, <2>1 DEF TypeOK, compositor, surface
  <2>3. QueueInv' /\ RightsInv'
    BY <1>1, <2>1 DEF QueueInv, RightsInv
  <2>4. PoolsGetTheirFile' /\ RoomForReplies'
    BY <1>1, <2>1 DEF PoolsGetTheirFile, RoomForReplies, compositor
  <2> QED BY <2>2, <2>3, <2>4
<1>6. ASSUME Rebuild(extent) PROVE DescriptorsInv'
  <2> DEFINE requests == queue.requests \o rs
  <2>1. /\ frame' = n /\ fd' = 1 /\ files' = [d \in {1} |-> n]
        /\ extents' = Append(extents, extent)
        /\ socket' = socket \o requests /\ rights' = Append(rights, n)
        /\ queue' = EmptyQueue /\ failure' = "none"
        /\ requests \in Seq(Requests)
    BY <1>6, ResizeLemma DEF n
  <2>2. rs \in Seq(Requests) /\ \E m : OnlyCreate(rs, m) /\ rs[m].n = n
    BY <1>4, RebuildLemma
  <2> HIDE DEF rs
  <2>3. /\ EmptyQueue \in Queues(Requests, Nat)
        /\ EmptyQueue.fds = <<>> /\ EmptyQueue.offset = 0 /\ EmptyQueue.requests = <<>>
    BY DEF EmptyQueue, Queues
  <2>4. TypeOK'
    <3>1. socket' \in Seq(Requests) /\ rights' \in Seq(Nat) /\ extents' \in Seq(Extents)
      BY <1>4, <2>1, ConcatLemma DEF TypeOK
    <3>2. frame' \in Nat \ {0} /\ fd' \in Nat /\ files' \in [DOMAIN files' -> Nat]
      BY <1>4, <2>1
    <3>3. QED
      <4>1. queue' \in Queues(Requests, Nat) /\ queue'.offset < PAGE_SIZE
        BY <2>1, <2>3, SendQueueAssumption
      <4>2. QED
        BY <1>1, <1>2, <2>1, <3>1, <3>2, <4>1 DEF TypeOK, compositor, surface
  <2>5. QueueInv'
    <3>1. 0 + RepliesTo(batch') <= RepliesTo(received')
      BY <1>3, <1>8
    <3>2. fd' = 1 /\ DOMAIN files' = {fd'} /\ files'[fd'] = frame'
      BY <2>1
    <3>4. QED
      BY <1>1, <2>1, <2>3, <3>1, <3>2 DEF QueueInv
  <2>6. RightsInv'
    <3> DEFINE served == frame - Len(queue.fds) - Len(rights)
    <3>1. served \in Nat /\ InOrder(socket, rights, served)
      BY DEF RightsInv
    <3>2. Len(rights) \in Nat /\ n = served + Len(rights) + 1
      <4>1. Len(queue.fds) = 0 /\ Len(rights) \in Nat
        BY <1>3 DEF TypeOK
      <4>2. QED
        BY <1>4, <4>1
    <3>3. PICK k : OnlyCreate(requests, k) /\ requests[k].n = n
      <4>1. PICK m : OnlyCreate(rs, m) /\ rs[m].n = n
        BY <2>2
      <4>2. /\ OnlyCreate(queue.requests \o rs, Len(queue.requests) + m)
            /\ (queue.requests \o rs)[Len(queue.requests) + m] = rs[m]
        BY <1>3, <2>2, <4>1, CreatesConcatFirst
      <4>3. QED
        BY <4>1, <4>2
    <3>4. InOrder(socket', rights', served)
      <4>1. InOrder(socket \o requests, Append(rights, requests[k].n), served)
        BY <2>1, <3>1, <3>2, <3>3, InOrderExtendOne DEF TypeOK
      <4>2. QED
        BY <2>1, <3>3, <4>1
    <3>5. frame' - 0 - Len(rights') = served
      <4>1. Len(rights') = Len(rights) + 1 /\ frame' = n
        BY <2>1 DEF TypeOK
      <4>2. Len(queue.fds) = 0
        BY <1>3
      <4>3. QED
        BY <1>4, <3>1, <3>2, <4>1, <4>2
    <3>6. Creates(<<>>) = {} /\ Len(<<>>) = 0
      BY DEF Creates
    <3>7. QED
      BY <2>1, <2>3, <3>1, <3>4, <3>5, <3>6 DEF RightsInv
  <2>7. PoolsGetTheirFile' /\ RoomForReplies'
    BY <1>1, <2>1 DEF PoolsGetTheirFile, RoomForReplies, compositor
  <2>8. QED
    BY <2>4, <2>5, <2>6, <2>7
<1>7. QED
  BY <1>5, <1>6, <1>9, ResizeCases

LEMMA HandleToplevelConfigureStep ==
  ASSUME DescriptorsInv, HandleToplevelConfigure
  PROVE  DescriptorsInv'
<1>1. Handles("toplevel_configure") /\ UNCHANGED should_close
  BY DEF HandleToplevelConfigure
<1>2. Head(batch).extent \in Extents /\ should_close \in BOOLEAN
  <2>1. Head(batch) \in Events /\ Head(batch).ev = "toplevel_configure"
    BY <1>1, TailLemma DEF Handles, DescriptorsInv, TypeOK
  <2>2. QED
    BY <2>1 DEF Events, DescriptorsInv, TypeOK
<1>3. CASE ~Sized(Head(batch).extent)
  BY <1>1, <1>2, <1>3, SilentStep DEF HandleToplevelConfigure
<1>4. CASE Sized(Head(batch).extent)
  <2>1. Resize(Head(batch).extent)
    BY <1>4 DEF HandleToplevelConfigure
  <2>2. QED
    BY <1>1, <1>2, <2>1, ResizeStep
<1>5. QED
  BY <1>3, <1>4

LEMMA HandleCloseStep ==
  ASSUME DescriptorsInv, HandleClose
  PROVE  DescriptorsInv'
  BY SilentStep DEF HandleClose

-----------------------------------------------------------------------------
(* The compositor. *)

\* A request that brings no file.
LEMMA ServeStep ==
  ASSUME DescriptorsInv, NEW ops, Takes(ops), Head(socket).op # "create_pool",
         UNCHANGED rights, PoolsGetTheirFile', TypeOK'
  PROVE  DescriptorsInv'
<1> USE DEF DescriptorsInv
<1>1. /\ socket # <<>> /\ socket' = Tail(socket)
      /\ UNCHANGED <<client, incoming>>
  BY DEF Takes
<1>2. QueueInv' /\ RoomForReplies'
  BY <1>1 DEF QueueInv, RoomForReplies, client
<1>3. RightsInv'
  <2> DEFINE served == frame - Len(queue.fds) - Len(rights)
  <2>1. served \in Nat /\ InOrder(socket, rights, served)
    BY DEF RightsInv
  <2>2. socket \in Seq(Requests) /\ rights \in Seq(Nat)
    BY DEF TypeOK
  <2> HIDE DEF served
  <2>3. InOrder(Tail(socket), rights, served)
    BY <1>1, <2>1, <2>2, InOrderTail
  <2>4. QED
    BY <1>1, <2>3 DEF RightsInv, client, served
<1>4. QED
  BY <1>2, <1>3

LEMMA TakesLemma ==
  ASSUME TypeOK, NEW ops, Takes(ops)
  PROVE  /\ socket # <<>> /\ socket \in Seq(Requests) /\ socket' \in Seq(Requests)
         /\ Head(socket).op \in ops /\ Head(socket).n \in Nat
         /\ UNCHANGED <<client, incoming, configured, pings, closing>>
<1>1. /\ socket # <<>> /\ socket' = Tail(socket) /\ socket \in Seq(Requests)
  BY DEF Takes, TypeOK
<1>2. socket' \in Seq(Requests) /\ Head(socket) \in Requests
  BY <1>1, TailLemma
<1>3. QED
  BY <1>1, <1>2 DEF Takes, Requests

LEMMA ServePoolStep ==
  ASSUME DescriptorsInv, ServePool
  PROVE  DescriptorsInv'
<1> USE DEF DescriptorsInv
<1> DEFINE p == Head(socket).n
           ops == {"create_pool", "destroy_pool"}
<1>1. Takes(ops) /\ UNCHANGED <<buffers, surface, pongs>>
  BY DEF ServePool
<1>2. /\ socket # <<>> /\ socket \in Seq(Requests) /\ socket' \in Seq(Requests)
      /\ Head(socket).op \in ops /\ p \in Nat
      /\ UNCHANGED <<client, incoming, configured, pings, closing>>
  BY <1>1, TakesLemma
<1>3. CASE Head(socket).op = "create_pool"
  <2> DEFINE served == frame - Len(queue.fds) - Len(rights)
  <2>1. served \in Nat /\ InOrder(socket, rights, served) /\ rights \in Seq(Nat)
    BY DEF RightsInv, TypeOK
  <2> HIDE DEF served
  <2>2. /\ rights # <<>> /\ Head(rights) = p
        /\ InOrder(Tail(socket), Tail(rights), served + 1)
    BY <1>2, <1>3, <2>1, InOrderTailOne
  <2>3. /\ pools' = [q \in DOMAIN pools \cup {p} |-> IF q = p THEN p ELSE pools[q]]
        /\ rights' = Tail(rights) /\ protocol_error' = "none" /\ socket' = Tail(socket)
    BY <1>3, <2>2 DEF ServePool, Rule, Takes
  <2>4. pools' \in [DOMAIN pools' -> Nat] /\ PoolsGetTheirFile'
    BY <1>2, <2>3 DEF TypeOK, PoolsGetTheirFile
  <2>5. rights' \in Seq(Nat) /\ Len(rights') = Len(rights) - 1 /\ Len(rights) \in Nat
    BY <2>1, <2>2, <2>3, TailLemma
  <2>6. TypeOK'
    BY <1>1, <1>2, <2>3, <2>4, <2>5 DEF TypeOK, client, surface
  <2>7. QueueInv' /\ RoomForReplies'
    BY <1>2 DEF QueueInv, RoomForReplies, client
  <2>8. RightsInv'
    <3>1. frame \in Nat /\ Len(queue.fds) \in Nat
      BY DEF TypeOK, Queues
    <3>2. frame' - Len(queue'.fds) - Len(rights') = served + 1 /\ served + 1 \in Nat
      BY <1>2, <2>1, <2>5, <3>1 DEF client, served
    <3>3. InOrder(socket', rights', frame' - Len(queue'.fds) - Len(rights'))
      BY <2>2, <2>3, <3>2
    <3>4. QED
      BY <1>2, <3>2, <3>3 DEF RightsInv, client
  <2>9. QED
    BY <2>4, <2>6, <2>7, <2>8
<1>4. CASE Head(socket).op = "destroy_pool"
  <2>1. /\ pools' = [q \in DOMAIN pools \ {p} |-> pools[q]] /\ UNCHANGED rights
        /\ protocol_error' \in {"none", "object"}
    BY <1>4 DEF ServePool, Rule
  <2>2. pools' \in [DOMAIN pools' -> Nat] /\ PoolsGetTheirFile'
    BY <2>1 DEF TypeOK, PoolsGetTheirFile
  <2>3. TypeOK'
    BY <1>1, <1>2, <2>1, <2>2 DEF TypeOK, client, surface
  <2>4. QED
    BY <1>1, <1>4, <2>1, <2>2, <2>3, ServeStep
<1>5. QED
  BY <1>2, <1>3, <1>4

LEMMA ServeBufferStep ==
  ASSUME DescriptorsInv, ServeBuffer
  PROVE  DescriptorsInv'
<1>1. /\ Takes({"create_buffer", "destroy_buffer"}) /\ UNCHANGED <<rights, pools, surface, pongs>>
      /\ buffers' \in {buffers \cup {Head(socket).n}, buffers \ {Head(socket).n}}
      /\ protocol_error' \in {"none", "object", "size"}
  BY DEF ServeBuffer, Rule
<1>2. /\ socket' \in Seq(Requests) /\ Head(socket).n \in Nat /\ Head(socket).op \in {"create_buffer", "destroy_buffer"}
      /\ UNCHANGED <<client, incoming, configured, pings, closing>>
  BY <1>1, TakesLemma DEF DescriptorsInv
<1>3. TypeOK'
  BY <1>1, <1>2, SMTT(40) DEF DescriptorsInv, TypeOK, client, surface
<1>4. QED
  BY <1>1, <1>2, <1>3, ServeStep DEF DescriptorsInv, PoolsGetTheirFile

LEMMA ServeAttachStep ==
  ASSUME DescriptorsInv, ServeAttach
  PROVE  DescriptorsInv'
<1>1. /\ Takes({"attach"})
      /\ UNCHANGED <<rights, pools, buffers, shown, ready, acked, applied, pongs>>
      /\ attached' = Head(socket).n /\ protocol_error' \in {"none", "object"}
  BY DEF ServeAttach, Rule
<1>2. /\ socket' \in Seq(Requests) /\ Head(socket).n \in Nat /\ Head(socket).op \in {"attach"}
      /\ UNCHANGED <<client, incoming, configured, pings, closing>>
  BY <1>1, TakesLemma DEF DescriptorsInv
<1>3. TypeOK'
  BY <1>1, <1>2 DEF DescriptorsInv, TypeOK, client
<1>4. QED
  BY <1>1, <1>2, <1>3, ServeStep DEF DescriptorsInv, PoolsGetTheirFile

LEMMA ServeAckStep ==
  ASSUME DescriptorsInv, ServeAck
  PROVE  DescriptorsInv'
<1>1. /\ Takes({"ack"})
      /\ UNCHANGED <<rights, pools, buffers, attached, shown, ready, applied, pongs>>
      /\ acked' = Head(socket).n /\ protocol_error' \in {"none", "serial"}
  BY DEF ServeAck, Rule
<1>2. /\ socket' \in Seq(Requests) /\ Head(socket).n \in Nat /\ Head(socket).op \in {"ack"}
      /\ UNCHANGED <<client, incoming, configured, pings, closing>>
  BY <1>1, TakesLemma DEF DescriptorsInv
<1>3. TypeOK'
  BY <1>1, <1>2 DEF DescriptorsInv, TypeOK, client
<1>4. QED
  BY <1>1, <1>2, <1>3, ServeStep DEF DescriptorsInv, PoolsGetTheirFile

LEMMA ServeCommitStep ==
  ASSUME DescriptorsInv, ServeCommit
  PROVE  DescriptorsInv'
<1>1. /\ Takes({"commit"}) /\ UNCHANGED <<rights, pools, buffers, acked, pongs>>
      /\ shown' \in {attached, shown} /\ attached' = None
      /\ ready' = TRUE /\ applied' = acked /\ protocol_error' \in {"none", "unconfigured"}
  BY DEF ServeCommit, Rule
<1>2. /\ socket' \in Seq(Requests) /\ Head(socket).n \in Nat /\ Head(socket).op \in {"commit"}
      /\ UNCHANGED <<client, incoming, configured, pings, closing>>
  BY <1>1, TakesLemma DEF DescriptorsInv
<1>3. TypeOK'
  BY <1>1, <1>2 DEF DescriptorsInv, TypeOK, client, None
<1>4. QED
  BY <1>1, <1>2, <1>3, ServeStep DEF DescriptorsInv, PoolsGetTheirFile

LEMMA ServeOtherStep ==
  ASSUME DescriptorsInv, ServeOther
  PROVE  DescriptorsInv'
<1>1. /\ Takes({"pong", "other"}) /\ UNCHANGED <<rights, pools, buffers, surface, protocol_error>>
      /\ pongs' \in {pongs \cup {Head(socket).n}, pongs}
  BY DEF ServeOther
<1>2. /\ socket' \in Seq(Requests) /\ Head(socket).n \in Nat /\ Head(socket).op \in {"pong", "other"}
      /\ UNCHANGED <<client, incoming, configured, pings, closing>>
  BY <1>1, TakesLemma DEF DescriptorsInv
<1>3. TypeOK'
  BY <1>1, <1>2, SMTT(40) DEF DescriptorsInv, TypeOK, client, surface
<1>4. QED
  BY <1>1, <1>2, <1>3, ServeStep DEF DescriptorsInv, PoolsGetTheirFile

\* Events on their way concern the client when it receives them.
LEMMA EmitStep ==
  ASSUME DescriptorsInv, NEW events \in Seq(Events), Emits(events),
         configured' \in Seq(Extents), pings' \in Nat, closing' \in BOOLEAN
  PROVE  DescriptorsInv'
<1> USE DEF DescriptorsInv
<1>1. /\ incoming' = incoming \o events
      /\ UNCHANGED <<client, socket, rights, pools, buffers, surface, pongs, protocol_error>>
  BY DEF Emits
<1>2. incoming' \in Seq(Events)
  BY <1>1, ConcatLemma DEF TypeOK
<1>3. TypeOK'
  BY <1>1, <1>2 DEF TypeOK, client, surface
<1>4. QueueInv' /\ RoomForReplies' /\ RightsInv' /\ PoolsGetTheirFile'
  BY <1>1 DEF QueueInv, RoomForReplies, RightsInv, PoolsGetTheirFile, client
<1>5. QED
  BY <1>3, <1>4

LEMMA ConfigureStep ==
  ASSUME DescriptorsInv, NEW extent \in Extents, Configure(extent)
  PROVE  DescriptorsInv'
<1> DEFINE e == ToplevelConfigure(extent)
           f == E("configure", Len(configured) + 1)
<1>1. configured \in Seq(Extents) /\ pings \in Nat /\ closing \in BOOLEAN
  BY DEF DescriptorsInv, TypeOK
<1>2. e \in Events /\ f \in Events
  BY <1>1 DEF E, ToplevelConfigure, Events
<1>3. /\ configured' = Append(configured, extent) /\ UNCHANGED <<pings, closing>>
      /\ Emits(<<e, f>>)
  BY DEF Configure
<1> HIDE DEF e, f
<1>4. configured' \in Seq(Extents) /\ <<e, f>> \in Seq(Events)
  BY <1>1, <1>2, <1>3
<1>5. QED
  BY <1>1, <1>3, <1>4, EmitStep

LEMMA PingStep ==
  ASSUME DescriptorsInv, Ping
  PROVE  DescriptorsInv'
<1> DEFINE e == E("ping", pings + 1)
<1>1. configured \in Seq(Extents) /\ pings \in Nat /\ closing \in BOOLEAN
  BY DEF DescriptorsInv, TypeOK
<1>2. e \in Events
  BY <1>1 DEF E, Events
<1>3. pings' = pings + 1 /\ UNCHANGED <<configured, closing>> /\ Emits(<<e>>)
  BY DEF Ping
<1> HIDE DEF e
<1>4. pings' \in Nat /\ <<e>> \in Seq(Events)
  BY <1>1, <1>2, <1>3
<1>5. QED
  BY <1>1, <1>3, <1>4, EmitStep

LEMMA CloseStep ==
  ASSUME DescriptorsInv, Close
  PROVE  DescriptorsInv'
<1> DEFINE e == E("close", None)
<1>1. configured \in Seq(Extents) /\ pings \in Nat
  BY DEF DescriptorsInv, TypeOK
<1>2. e \in Events
  BY DEF E, Events, None
<1>3. closing' = TRUE /\ UNCHANGED <<configured, pings>> /\ Emits(<<e>>)
  BY DEF Close
<1> HIDE DEF e
<1>4. <<e>> \in Seq(Events)
  BY <1>2
<1>5. QED
  BY <1>1, <1>3, <1>4, EmitStep

-----------------------------------------------------------------------------
(* The theorems. *)

LEMMA InitInv == Init => DescriptorsInv
<1> SUFFICES ASSUME Init PROVE DescriptorsInv
  OBVIOUS
<1> DEFINE others == <<R("other", None), R("other", None)>>
           rs == others \o CreateRequests(1)
<1>1. others \in Seq(Requests) /\ Creates(others) = {}
  <2>1. R("other", None) \in Requests /\ R("other", None).op = "other"
    BY DEF R, Requests, None
  <2> DEFINE r == R("other", None)
  <2> HIDE DEF r
  <2>2. <<r, r>> \in Seq(Requests) /\ DOMAIN <<r, r>> = {1, 2}
        /\ <<r, r>>[1].op = "other" /\ <<r, r>>[2].op = "other"
    BY <2>1 DEF r
  <2>3. QED
    BY <2>2 DEF Creates, r
<1>2. /\ CreateRequests(1) \in Seq(Requests) /\ OnlyCreate(CreateRequests(1), 1)
      /\ CreateRequests(1)[1].n = 1
  BY LiteralLemma DEF OnlyCreate
<1> HIDE DEF others
<1>3. rs \in Seq(Requests) /\ \E m : OnlyCreate(rs, m) /\ rs[m].n = 1
  <2> DEFINE C == CreateRequests(1)
  <2>1. C \in Seq(Requests) /\ OnlyCreate(C, 1) /\ C[1].n = 1
    BY <1>2
  <2> HIDE DEF C
  <2>2. /\ others \o C \in Seq(Requests)
        /\ OnlyCreate(others \o C, Len(others) + 1)
        /\ (others \o C)[Len(others) + 1] = C[1]
    BY <1>1, <2>1, CreatesConcatFirst
  <2>3. \E m : OnlyCreate(others \o C, m) /\ (others \o C)[m].n = 1
    BY <2>1, <2>2
  <2>4. QED
    BY <2>2, <2>3 DEF C
<1>4. queue = AddFD(Allocate(EmptyQueue, rs, SetupBytes), 1)
  BY DEF Init, others
<1> HIDE DEF rs
<1>5. queue = [requests |-> <<>> \o rs, fds |-> <<1>>, offset |-> SetupBytes]
  <2>1. Advance(EmptyQueue, SetupBytes)
          = [requests |-> <<>>, fds |-> <<>>, offset |-> SetupBytes]
    BY BytesLemma DEF Advance, EmptyQueue
  <2>2. Allocate(EmptyQueue, rs, SetupBytes)
          = [requests |-> <<>> \o rs, fds |-> <<>>, offset |-> SetupBytes]
    BY <2>1 DEF Allocate
  <2>3. QED
    BY <1>4, <2>2 DEF AddFD
<1>6. queue = [requests |-> rs, fds |-> <<1>>, offset |-> SetupBytes]
  BY <1>3, <1>5
<1>7. queue \in Queues(Requests, Nat) /\ queue.offset < PAGE_SIZE /\ queue.offset # 0
  BY <1>3, <1>6, WindowAssumption DEF Queues, SetupBytes
<1>8. TypeOK
  <2>1. /\ batch = <<>> /\ received = <<>> /\ socket = <<>> /\ rights = <<>> /\ incoming = <<>> /\ configured = <<>>
        /\ extents = <<Default>> /\ Default \in Extents
    BY WindowAssumption DEF Init
  <2>2. /\ batch \in Seq(Events) /\ received \in Seq(Events) /\ socket \in Seq(Requests) /\ rights \in Seq(Nat)
        /\ incoming \in Seq(Events) /\ configured \in Seq(Extents) /\ extents \in Seq(Extents)
    BY <2>1
  <2>3. files \in [DOMAIN files -> Nat] /\ pools \in [DOMAIN pools -> Nat]
    BY DEF Init, None
  <2>4. should_close \in BOOLEAN /\ ready \in BOOLEAN /\ closing \in BOOLEAN
    BY DEF Init
  <2>5. frame \in Nat \ {0} /\ fd \in Nat /\ attached \in Nat /\ shown \in Nat
        /\ acked \in Nat /\ applied \in Nat /\ pings \in Nat
    BY DEF Init, None
  <2>6. pc = "dispatch" /\ failure = "none" /\ protocol_error = "none"
    BY DEF Init
  <2>7. buffers \subseteq Nat /\ pongs \subseteq Nat
    BY DEF Init
  <2>8. QED
    BY <1>7, <2>2, <2>3, <2>4, <2>5, <2>6, <2>7 DEF TypeOK
<1>9. QueueInv
  BY <1>6, <1>7 DEF Init, QueueInv, IsEmpty
<1>10. RightsInv
  <2>1. Len(queue.fds) = 1 /\ Len(rights) = 0 /\ frame = 1 /\ queue.fds # <<>>
    BY <1>6 DEF Init
  <2>2. InOrder(socket, rights, 0)
    BY DEF Init, InOrder, Creates
  <2>3. \E k \in DOMAIN queue.requests :
          Creates(queue.requests) = {k} /\ queue.requests[k].n = frame
    BY <1>3, <1>6, <2>1 DEF OnlyCreate
  <2>4. QED
    BY <2>1, <2>2, <2>3 DEF RightsInv
<1>11. PoolsGetTheirFile /\ RoomForReplies
  BY DEF Init, PoolsGetTheirFile, RoomForReplies
<1>12. QED
  BY <1>8, <1>9, <1>10, <1>11 DEF DescriptorsInv

LEMMA DescriptorsStep == DescriptorsInv /\ [Next]_vars => DescriptorsInv'
<1> SUFFICES ASSUME DescriptorsInv, [Next]_vars PROVE DescriptorsInv'
  OBVIOUS
<1>1. CASE Client
  BY <1>1, DispatchStep, RecvStep, LoopStep, HandleToplevelConfigureStep,
     HandleConfigureStep, HandlePingStep, HandleCloseStep DEF Client
<1>2. CASE Serve
  BY <1>2, ServePoolStep, ServeBufferStep, ServeAttachStep, ServeAckStep, ServeCommitStep,
     ServeOtherStep DEF Serve
<1>3. ASSUME NEW extent \in Extents, Configure(extent) PROVE DescriptorsInv'
  BY <1>3, ConfigureStep
<1>4. CASE Ping \/ Close
  BY <1>4, PingStep, CloseStep
<1>5. CASE UNCHANGED vars
  <2>1. UNCHANGED <<client, socket, rights, incoming, compositor>>
    BY <1>5 DEF vars
  <2>2. TypeOK'
    BY <2>1 DEF DescriptorsInv, TypeOK, client, compositor, surface
  <2>3. QueueInv' /\ RightsInv' /\ PoolsGetTheirFile' /\ RoomForReplies'
    BY <2>1 DEF DescriptorsInv, QueueInv, RightsInv, PoolsGetTheirFile, RoomForReplies,
      client, compositor, surface
  <2>4. QED
    BY <2>2, <2>3 DEF DescriptorsInv
<1>6. QED
  BY <1>1, <1>2, <1>3, <1>4, <1>5 DEF Next

\* The inductive invariant: the send queue, the descriptor table and the files
\* on their way agree, at every moment of any number of resizes.
THEOREM Invariant == Spec => []DescriptorsInv
<1>1. Init => DescriptorsInv
  BY InitInv
<1>2. DescriptorsInv /\ [Next]_vars => DescriptorsInv'
  BY DescriptorsStep
<1>3. QED
  BY <1>1, <1>2, PTL DEF Spec

\* Every variable keeps its type, and the send queue stays within its page
\* as long as Allocate has not thrown.
THEOREM TypeCorrect == Spec => []TypeOK
<1>1. DescriptorsInv => TypeOK
  BY DEF DescriptorsInv
<1>2. QED
  BY <1>1, Invariant, PTL

\* Every pool the compositor maps has the memfd that was made for it, although
\* Framebuffer.Resize uses the same descriptor number for all of them.
THEOREM PoolsAlwaysGetTheirFile == Spec => []PoolsGetTheirFile
<1>1. DescriptorsInv => PoolsGetTheirFile
  BY DEF DescriptorsInv
<1>2. QED
  BY <1>1, Invariant, PTL

\* Send never finds a descriptor closed, nor more of them than fit.
THEOREM DescriptorsAlwaysFit == Spec => []DescriptorsFit
<1>1. DescriptorsInv => DescriptorsFit
  BY DEF DescriptorsInv, QueueInv, DescriptorsFit
<1>2. QED
  BY <1>1, Invariant, PTL

\* The client never waits in recv with requests it has not sent.
THEOREM AlwaysSendsBeforeBlocking == Spec => []NeverBlocksWithUnsent
<1>1. DescriptorsInv => NeverBlocksWithUnsent
  BY DEF DescriptorsInv, QueueInv, NeverBlocksWithUnsent
<1>2. QED
  BY <1>1, Invariant, PTL

\* The page overflows only when the replies to a single recv do not fit it,
\* however long the client has been running.
THEOREM AlwaysRoomForReplies == Spec => []RoomForReplies
<1>1. DescriptorsInv => RoomForReplies
  BY DEF DescriptorsInv
<1>2. QED
  BY <1>1, Invariant, PTL

-----------------------------------------------------------------------------
(* Geometry. *)

\* Row y of a picture begins where the rows above it end.
LEMMA RowLemma ==
  ASSUME NEW w \in Nat, NEW h \in Nat, NEW x \in 0 .. (w - 1), NEW y \in 0 .. (h - 1)
  PROVE  y * w + x \in Nat /\ y * w + x + 1 <= w * h
<1>1. y * w \in Nat /\ w * h \in Nat
  OBVIOUS
<1>2. (y + 1) * w <= h * w
  OBVIOUS
<1>3. (y + 1) * w = y * w + w /\ h * w = w * h
  OBVIOUS
<1>4. QED
  BY <1>1, <1>2, <1>3

\* In a picture whose bytes a wl_int can count nothing wraps.
LEMMA DrawnLemma ==
  ASSUME NEW extent \in [w : Nat, h : Nat], Drawable(extent)
  PROVE  DrawnInPlace(extent)
<1> DEFINE w == extent.w
           h == extent.h
<1>1. w \in Nat /\ h \in Nat /\ w * h \in Nat
  OBVIOUS
<1>2. INT_MAX < UINT_MOD /\ INT_MAX \in Int /\ UINT_MOD \in Nat \ {0}
  BY FramebufferAssumption DEF INT_MAX
<1>3. 4 * w < UINT_MOD /\ 4 * (w * h) < UINT_MOD
  BY <1>1, <1>2 DEF Drawable
<1>4. Stride(extent) = 4 * w /\ Size(extent) = 4 * (w * h)
  <2>1. Stride(extent) = 4 * w
    BY <1>1, <1>2, <1>3 DEF Stride
  <2>2. QED
    BY <1>1, <2>1 DEF Size
<1>5. ASSUME NEW x \in 0 .. (w - 1), NEW y \in 0 .. (h - 1)
      PROVE  /\ PixelOffset(extent, x, y) = y * Stride(extent) + 4 * x
             /\ PixelOffset(extent, x, y) + 4 <= Size(extent)
  <2> DEFINE k == y * w + x
  <2>1. k \in Nat /\ k + 1 <= w * h
    BY <1>1, RowLemma
  <2> HIDE DEF k
  <2>2. k % UINT_MOD = k /\ (4 * k) % UINT_MOD = 4 * k
    BY <1>1, <1>2, <1>3, <2>1
  <2>3. PixelOffset(extent, x, y) = 4 * k
    BY <2>2 DEF PixelOffset, k
  <2>4. y * Stride(extent) + 4 * x = 4 * k
    BY <1>1, <1>4 DEF k
  <2>5. QED
    BY <1>1, <1>4, <2>1, <2>3, <2>4
<1>6. QED
  BY <1>5 DEF DrawnInPlace

\* The compositor's checks and the drawing leave no size for which 32 bits wrap: if
\* a row is so long that its bytes do not fit, then the stride the compositor gets
\* is negative, or drawing that row runs far behind the mapping.
LEMMA AcceptedLemma ==
  ASSUME NEW extent \in [w : 0 .. (UINT_MOD - 1), h : 0 .. (UINT_MOD - 1)],
         BufferFits(extent), ~DrawsFarOutside(extent)
  PROVE  DrawnInPlace(extent)
<1> DEFINE w == extent.w
           h == extent.h
           m == UINT_MOD \div 4
           s == Stride(extent)
<1>1. /\ UINT_MOD = 4 * m /\ m \in Nat /\ m >= 4 /\ INT_MAX = 2 * m - 1
  BY FramebufferAssumption DEF INT_MAX
<1>2. w \in 0 .. (4 * m - 1) /\ h \in 0 .. (4 * m - 1)
  BY <1>1
<1> HIDE DEF m
<1>3. w \in 1 .. (2 * m - 1) /\ h \in 1 .. (2 * m - 1)
  <2>1. AsInt(w) > 0 /\ AsInt(h) > 0
    BY DEF BufferFits
  <2> HIDE DEF w, h
  <2> QED BY <1>1, <1>2, <2>1 DEF AsInt
<1>4. s = (4 * w) % (4 * m) /\ s \in 0 .. (4 * m - 1)
  <2>1. s = (4 * w) % (4 * m)
    BY <1>1 DEF Stride
  <2> HIDE DEF w, s
  <2> QED BY <1>1, <1>3, <2>1
<1>5. s \in 1 .. (2 * m - 1) /\ s * h <= 2 * m - 1 /\ Size(extent) = s * h
  <2>1. AsInt(s) >= w /\ AsInt(s) * h <= INT_MAX
    BY DEF BufferFits
  <2>2. Size(extent) = s * h
    BY DEF Size
  <2> HIDE DEF w, h, s
  <2>3. AsInt(s) = s /\ s <= 2 * m - 1 /\ s >= 1
    BY <1>1, <1>3, <1>4, <2>1 DEF AsInt
  <2> QED BY <1>1, <1>4, <2>1, <2>2, <2>3
<1>6. CASE w >= m
  <2> DEFINE x == m - 1
  <2>1. x \in 0 .. (w - 1) /\ 0 \in 0 .. (h - 1)
    <3> HIDE DEF w, h
    <3> QED BY <1>1, <1>3, <1>6
  <2>2. PixelOffset(extent, x, 0) = 4 * m - 4
    <3>1. 0 * w + x = m - 1
      <4> HIDE DEF w
      <4> QED BY <1>1, <1>3
    <3>2. (m - 1) % (4 * m) = m - 1 /\ (4 * (m - 1)) % (4 * m) = 4 * m - 4
      BY <1>1
    <3>3. PixelOffset(extent, x, 0) = (4 * ((0 * w + x) % UINT_MOD)) % UINT_MOD
      BY DEF PixelOffset
    <3> HIDE DEF w, x
    <3> QED BY <1>1, <3>1, <3>2, <3>3
  <2>3. PixelOffset(extent, x, 0) + 4 > Size(extent) + INT_MAX
    <3> DEFINE bytes == s * h
    <3>1. bytes \in Int
      <4> HIDE DEF s, h
      <4> QED BY <1>2, <1>4, <1>1
    <3>2. bytes <= 2 * m - 1 /\ Size(extent) = bytes
      BY <1>5
    <3> HIDE DEF bytes
    <3> QED BY <1>1, <2>2, <3>1, <3>2
  <2>4. DrawsFarOutside(extent)
    <3> HIDE DEF x
    <3> QED BY <2>1, <2>3 DEF DrawsFarOutside
  <2> QED BY <2>4
<1>7. CASE w < m
  <2>1. s = 4 * w
    <3> HIDE DEF w, s
    <3> QED BY <1>1, <1>3, <1>4, <1>7
  <2>2. (4 * w) * h = 4 * (w * h)
    BY <1>2
  <2>3. 4 * (w * h) <= INT_MAX /\ 4 * w <= INT_MAX
    BY <1>1, <1>5, <2>1, <2>2
  <2>4. extent \in [w : Nat, h : Nat]
    BY <1>2
  <2> QED BY <2>3, <2>4, DrawnLemma DEF Drawable
<1> HIDE DEF w, h
<1> QED BY <1>1, <1>3, <1>6, <1>7

-----------------------------------------------------------------------------
(* One request more, one request less. *)

LEMMA AppendMembers ==
  ASSUME NEW p \in Seq(Requests), NEW r \in Requests
  PROVE  LET q == Append(p, r)
             n == Len(p)
         IN /\ q \in Seq(Requests)
            /\ n \in Nat /\ Len(q) = n + 1
            /\ DOMAIN p = 1 .. n /\ DOMAIN q = 1 .. (n + 1)
            /\ \A k \in 1 .. n : q[k] = p[k] /\ p[k] \in Requests
            /\ q[n + 1] = r
  OBVIOUS

\* The requests of one kind, among one more or one less.
LEMMA AppendWith ==
  ASSUME NEW p \in Seq(Requests), NEW r \in Requests, NEW ops
  PROVE  LET q == Append(p, r)
             n == Len(p)
         IN /\ r.op \in ops => With(q, ops) = With(p, ops) \cup {n + 1}
            /\ r.op \notin ops => With(q, ops) = With(p, ops)
            /\ \A k \in With(p, ops) : k \in 1 .. n /\ q[k] = p[k]
            /\ q[n + 1] = r /\ n \in Nat
  <1> DEFINE q == Append(p, r)
             n == Len(p)
  <1>1. /\ n \in Nat /\ DOMAIN p = 1 .. n /\ DOMAIN q = 1 .. (n + 1)
        /\ \A k \in 1 .. n : q[k] = p[k]
        /\ q[n + 1] = r
    BY AppendMembers
  <1> HIDE DEF q, n
  <1>2. \A k \in 1 .. (n + 1) : k \in 1 .. n \/ k = n + 1
    BY <1>1
  <1>3. /\ r.op \in ops => With(q, ops) = With(p, ops) \cup {n + 1}
        /\ r.op \notin ops => With(q, ops) = With(p, ops)
        /\ \A k \in With(p, ops) : k \in 1 .. n /\ q[k] = p[k]
    BY <1>1, <1>2 DEF With
  <1> QED BY <1>1, <1>3 DEF q, n

LEMMA TailMembers ==
  ASSUME NEW p \in Seq(Requests), p # <<>>
  PROVE  LET q == Tail(p)
             n == Len(p)
         IN /\ q \in Seq(Requests) /\ Head(p) = p[1] /\ p[1] \in Requests
            /\ n \in Nat \ {0} /\ Len(q) = n - 1
            /\ DOMAIN p = 1 .. n /\ DOMAIN q = 1 .. (n - 1)
            /\ \A k \in 1 .. (n - 1) : q[k] = p[k + 1] /\ p[k + 1] \in Requests
  BY TailLemma

LEMMA TailWith ==
  ASSUME NEW p \in Seq(Requests), p # <<>>, NEW ops
  PROVE  LET q == Tail(p)
             n == Len(p)
         IN /\ \A k \in With(q, ops) : /\ k \in 1 .. (n - 1) /\ k + 1 \in With(p, ops)
                                       /\ q[k] = p[k + 1]
            /\ \A k \in With(p, ops) : /\ k \in 1 .. n
                                       /\ k # 1 => /\ k - 1 \in With(q, ops)
                                                   /\ q[k - 1] = p[k]
            /\ 1 \in With(p, ops) <=> p[1].op \in ops
            /\ n \in Nat \ {0}
  <1> DEFINE q == Tail(p)
             n == Len(p)
  <1>1. /\ n \in Nat \ {0}
        /\ DOMAIN p = 1 .. n /\ DOMAIN q = 1 .. (n - 1)
        /\ \A k \in 1 .. (n - 1) : q[k] = p[k + 1]
    BY TailMembers
  <1> HIDE DEF q, n
  <1>2. /\ \A k \in 1 .. (n - 1) : k + 1 \in 1 .. n
        /\ 1 \in 1 .. n
    BY <1>1
  <1>3. ASSUME NEW k \in 1 .. n, k # 1
        PROVE  k - 1 \in 1 .. (n - 1) /\ (k - 1) + 1 = k /\ q[k - 1] = p[k]
    <2>1. k - 1 \in 1 .. (n - 1) /\ (k - 1) + 1 = k
      BY <1>1, <1>3
    <2>2. q[k - 1] = p[(k - 1) + 1]
      BY <1>1, <2>1
    <2> QED BY <2>1, <2>2
  <1>4. \A k \in With(q, ops) : k \in 1 .. (n - 1) /\ k + 1 \in With(p, ops) /\ q[k] = p[k + 1]
    BY <1>1, <1>2 DEF With
  <1>5. \A k \in With(p, ops) : /\ k \in 1 .. n
                                /\ k # 1 => k - 1 \in With(q, ops) /\ q[k - 1] = p[k]
    BY <1>1, <1>3 DEF With
  <1>6. 1 \in With(p, ops) <=> p[1].op \in ops
    BY <1>1, <1>2 DEF With
  <1> QED BY <1>1, <1>4, <1>5, <1>6 DEF q, n

\* Whether a request has a place in the lives of the Framebuffers, and which.
MoveOps == {"create_pool", "create_buffer", "destroy_buffer", "destroy_pool"}

LEMMA TurnType ==
  ASSUME NEW r \in Requests, r.op \in MoveOps \cup {"attach"}
  PROVE  /\ Turn(r) \in Int
         /\ r.op = "create_pool" => Turn(r) = 4 * r.n - 4
         /\ r.op = "create_buffer" => Turn(r) = 4 * r.n - 3
         /\ r.op \in {"attach", "destroy_buffer"} => Turn(r) = 4 * r.n - 2
         /\ r.op = "destroy_pool" => Turn(r) = 4 * r.n - 1
  <1>1. r.n \in Nat
    BY DEF Requests
  <1> QED BY <1>1 DEF Turn, MoveOps

-----------------------------------------------------------------------------
(* The lives of the Framebuffers. *)

\* A request of another kind.
LEMMA LivesSkip ==
  ASSUME NEW p \in Seq(Requests), NEW r \in Requests, NEW t \in Nat, NEW l \in Nat,
         LivesInOrder(p, t, l), r.op \notin MoveOps, r.op # "attach"
  PROVE  LivesInOrder(Append(p, r), t, l)
  <1> DEFINE q == Append(p, r)
  <1>1. Moves(q) = Moves(p) /\ Attaches(q) = Attaches(p)
    BY AppendWith DEF Moves, Attaches, MoveOps
  <1>2. /\ \A k \in Moves(p) : q[k] = p[k]
        /\ \A k \in Attaches(p) : q[k] = p[k]
    BY AppendWith DEF Moves, Attaches
  <1> HIDE DEF q
  <1>3. LivesInOrder(q, t, l)
    BY <1>1, <1>2 DEF LivesInOrder
  <1> QED BY <1>3 DEF q

\* An attach of the buffer that is there last.
LEMMA LivesAttach ==
  ASSUME NEW p \in Seq(Requests), NEW r \in Requests, NEW t \in Nat, NEW l \in Nat,
         LivesInOrder(p, t, l), t <= l, r.op = "attach", Turn(r) = l
  PROVE  LivesInOrder(Append(p, r), t, l)
  <1> DEFINE q == Append(p, r)
             n == Len(p)
  <1>1. Moves(q) = Moves(p) /\ Attaches(q) = Attaches(p) \cup {n + 1}
    BY AppendWith DEF Moves, Attaches
  <1>2. /\ \A k \in Moves(p) : k \in 1 .. n /\ q[k] = p[k]
        /\ \A k \in Attaches(p) : k \in 1 .. n /\ q[k] = p[k]
        /\ q[n + 1] = r /\ n \in Nat
    BY AppendWith DEF Moves, Attaches
  <1> HIDE DEF q, n
  <1>3. \A k \in Moves(p) : Turn(p[k]) < l /\ k < n + 1
    <2> TAKE k \in Moves(p)
    <2>1. Turn(p[k]) \in t .. (l - 1) /\ k \in 1 .. n
      BY <1>2 DEF LivesInOrder
    <2> QED BY <1>2, <2>1
  <1>4. l \in t .. l
    OBVIOUS
  <1>5. LivesInOrder(q, t, l)
    BY <1>1, <1>2, <1>3, <1>4 DEF LivesInOrder
  <1> QED BY <1>5 DEF q

\* The request whose turn it is.
LEMMA LivesMove ==
  ASSUME NEW p \in Seq(Requests), NEW r \in Requests, NEW t \in Nat, NEW l \in Nat,
         LivesInOrder(p, t, l), t <= l, r.op \in MoveOps, Turn(r) = l
  PROVE  LivesInOrder(Append(p, r), t, l + 1)
  <1> DEFINE q == Append(p, r)
             n == Len(p)
  <1>1. Moves(q) = Moves(p) \cup {n + 1} /\ Attaches(q) = Attaches(p)
    BY AppendWith DEF Moves, Attaches, MoveOps
  <1>2. /\ \A k \in Moves(p) : k \in 1 .. n /\ q[k] = p[k]
        /\ \A k \in Attaches(p) : k \in 1 .. n /\ q[k] = p[k]
        /\ q[n + 1] = r /\ n \in Nat
    BY AppendWith DEF Moves, Attaches
  <1> HIDE DEF q, n
  <1>3. \A k \in Moves(q) : Turn(q[k]) \in t .. ((l + 1) - 1)
    <2> TAKE k \in Moves(q)
    <2>1. CASE k \in Moves(p)
      BY <1>2, <2>1 DEF LivesInOrder
    <2>2. CASE k = n + 1
      BY <1>2, <2>2
    <2> QED BY <1>1, <2>1, <2>2
  <1>4. \A s \in t .. ((l + 1) - 1) : \E k \in Moves(q) : Turn(q[k]) = s
    <2> TAKE s \in t .. ((l + 1) - 1)
    <2>1. CASE s = l
      BY <1>1, <1>2, <2>1
    <2>2. CASE s \in t .. (l - 1)
      BY <1>1, <1>2, <2>2 DEF LivesInOrder
    <2> QED BY <2>1, <2>2
  <1>5. \A j, k \in Moves(q) : j < k => Turn(q[j]) < Turn(q[k])
    <2> TAKE j, k \in Moves(q)
    <2> HAVE j < k
    <2>1. j \in Moves(p) /\ j \in 1 .. n
      BY <1>1, <1>2
    <2>2. Turn(p[j]) \in t .. (l - 1)
      BY <2>1 DEF LivesInOrder
    <2>3. CASE k \in Moves(p)
      BY <1>2, <2>1, <2>3 DEF LivesInOrder
    <2>4. CASE k = n + 1
      BY <1>2, <2>1, <2>2, <2>4
    <2> QED BY <1>1, <2>3, <2>4
  <1>6. \A a \in Attaches(q) :
          /\ Turn(q[a]) \in t .. (l + 1)
          /\ \A k \in Moves(q) : k < a <=> Turn(q[k]) < Turn(q[a])
    <2> TAKE a \in Attaches(q)
    <2>1. a \in Attaches(p) /\ a \in 1 .. n /\ q[a] = p[a] /\ Turn(p[a]) \in t .. l
      BY <1>1, <1>2 DEF LivesInOrder
    <2>2. ASSUME NEW k \in Moves(q) PROVE k < a <=> Turn(q[k]) < Turn(q[a])
      <3>1. CASE k \in Moves(p)
        BY <1>2, <2>1, <3>1 DEF LivesInOrder
      <3>2. CASE k = n + 1
        BY <1>2, <2>1, <3>2
      <3> QED BY <1>1, <3>1, <3>2
    <2> QED BY <2>1, <2>2
  <1>7. LivesInOrder(q, t, l + 1)
    BY <1>3, <1>4, <1>5, <1>6 DEF LivesInOrder
  <1> QED BY <1>7 DEF q

\* The request at the head is the one whose turn it is.
LEMMA LivesHead ==
  ASSUME NEW p \in Seq(Requests), p # <<>>, NEW t \in Nat, NEW l \in Nat, t <= l,
         LivesInOrder(p, t, l)
  PROVE  /\ p[1].op \in MoveOps => t < l /\ Turn(p[1]) = t
         /\ p[1].op = "attach" => Turn(p[1]) = t
  <1>1. \A k \in Moves(p) : k \in 1 .. Len(p)
    BY TailWith DEF Moves
  <1>2. CASE p[1].op \in MoveOps
    <2>1. 1 \in Moves(p)
      BY <1>2, TailWith DEF Moves, MoveOps
    <2>2. Turn(p[1]) \in t .. (l - 1)
      BY <2>1 DEF LivesInOrder
    <2>3. PICK k \in Moves(p) : Turn(p[k]) = t
      BY <2>2 DEF LivesInOrder
    <2>4. 1 < k => Turn(p[1]) < Turn(p[k])
      BY <2>1 DEF LivesInOrder
    <2>5. k = 1
      BY <1>1, <2>2, <2>3, <2>4
    <2> QED BY <1>2, <2>2, <2>3, <2>5 DEF MoveOps
  <1>3. CASE p[1].op = "attach"
    <2>1. 1 \in Attaches(p)
      BY <1>3, TailWith DEF Attaches
    <2>2. Turn(p[1]) \in t .. l
      BY <2>1 DEF LivesInOrder
    <2>3. ASSUME Turn(p[1]) # t PROVE FALSE
      <3>1. PICK k \in Moves(p) : Turn(p[k]) = t
        BY <2>2, <2>3 DEF LivesInOrder
      <3>2. k < 1
        BY <2>1, <2>2, <2>3, <3>1 DEF LivesInOrder
      <3> QED BY <1>1, <3>2
    <2> QED BY <1>3, <2>3 DEF MoveOps
  <1> QED BY <1>2, <1>3

LEMMA LivesTail ==
  ASSUME NEW p \in Seq(Requests), p # <<>>, NEW t \in Nat, NEW l \in Nat, t <= l,
         LivesInOrder(p, t, l)
  PROVE  LivesInOrder(Tail(p), IF p[1].op \in MoveOps THEN t + 1 ELSE t, l)
  <1> DEFINE q == Tail(p)
             n == Len(p)
             u == IF p[1].op \in MoveOps THEN t + 1 ELSE t
  <1>1. /\ \A k \in Moves(q) : k \in 1 .. (n - 1) /\ k + 1 \in Moves(p) /\ q[k] = p[k + 1]
        /\ \A k \in Attaches(q) : k \in 1 .. (n - 1) /\ k + 1 \in Attaches(p) /\ q[k] = p[k + 1]
        /\ \A k \in Moves(p) :
             k \in 1 .. n /\ (k # 1 => k - 1 \in Moves(q) /\ q[k - 1] = p[k])
        /\ 1 \in Moves(p) <=> p[1].op \in MoveOps
        /\ n \in Nat \ {0}
    BY TailWith DEF Moves, Attaches, MoveOps
  <1>2. u \in Nat /\ (1 \in Moves(p) => Turn(p[1]) = t /\ u = t + 1) /\ (1 \notin Moves(p) => u = t)
    <2>1. CASE p[1].op \in MoveOps
      BY <1>1, <2>1, LivesHead
    <2>2. CASE p[1].op \notin MoveOps
      BY <1>1, <2>2
    <2> QED BY <2>1, <2>2
  <1> HIDE DEF q, n, u
  <1>3. \A k \in Moves(q) : Turn(q[k]) \in u .. (l - 1)
    <2> TAKE k \in Moves(q)
    <2>1. k + 1 \in Moves(p) /\ q[k] = p[k + 1] /\ 1 < k + 1
      BY <1>1
    <2>2. Turn(p[k + 1]) \in t .. (l - 1)
      BY <2>1 DEF LivesInOrder
    <2>3. 1 \in Moves(p) => t < Turn(p[k + 1])
      BY <1>2, <2>1 DEF LivesInOrder
    <2> QED BY <1>2, <2>1, <2>2, <2>3
  <1>4. \A s \in u .. (l - 1) : \E k \in Moves(q) : Turn(q[k]) = s
    <2> TAKE s \in u .. (l - 1)
    <2>1. s \in t .. (l - 1) /\ (1 \in Moves(p) => s # t)
      BY <1>2
    <2>2. PICK k \in Moves(p) : Turn(p[k]) = s
      BY <2>1 DEF LivesInOrder
    <2>3. k # 1
      BY <1>2, <2>1, <2>2
    <2>4. k - 1 \in Moves(q) /\ q[k - 1] = p[k]
      BY <1>1, <2>3
    <2> QED BY <2>2, <2>4
  <1>5. \A j, k \in Moves(q) : j < k => Turn(q[j]) < Turn(q[k])
    <2> TAKE j, k \in Moves(q)
    <2>1. j < k => j + 1 < k + 1
      BY <1>1
    <2> QED BY <1>1, <2>1 DEF LivesInOrder
  <1>6. \A a \in Attaches(q) :
          /\ Turn(q[a]) \in u .. l
          /\ \A k \in Moves(q) : k < a <=> Turn(q[k]) < Turn(q[a])
    <2> TAKE a \in Attaches(q)
    <2>1. a + 1 \in Attaches(p) /\ q[a] = p[a + 1] /\ 1 < a + 1
      BY <1>1
    <2>2. Turn(p[a + 1]) \in t .. l
      BY <2>1 DEF LivesInOrder
    <2>3. 1 \in Moves(p) => t < Turn(p[a + 1])
      BY <1>2, <2>1 DEF LivesInOrder
    <2>4. ASSUME NEW k \in Moves(q) PROVE k < a <=> Turn(q[k]) < Turn(q[a])
      <3>1. k < a <=> k + 1 < a + 1
        BY <1>1
      <3> QED BY <1>1, <2>1, <3>1 DEF LivesInOrder
    <2> QED BY <1>2, <2>1, <2>2, <2>3, <2>4
  <1>7. LivesInOrder(q, u, l)
    BY <1>3, <1>4, <1>5, <1>6 DEF LivesInOrder
  <1> QED BY <1>7 DEF q, u

-----------------------------------------------------------------------------
(* Serials, on their way to the client and acked. *)

LEMMA EventsTail ==
  ASSUME NEW p \in Seq(Events), p # <<>>
  PROVE  LET q == Tail(p)
             n == Len(p)
         IN /\ q \in Seq(Events) /\ Head(p) = p[1] /\ p[1] \in Events
            /\ n \in Nat \ {0} /\ DOMAIN p = 1 .. n /\ DOMAIN q = 1 .. (n - 1)
            /\ \A k \in 1 .. (n - 1) : q[k] = p[k + 1]
            /\ \A k \in Serials(q) : k \in 1 .. (n - 1) /\ k + 1 \in Serials(p) /\ q[k] = p[k + 1]
            /\ \A k \in Serials(p) : k \in 1 .. n /\ (k # 1 => k - 1 \in Serials(q) /\ q[k - 1] = p[k])
            /\ 1 \in Serials(p) <=> p[1].ev = "configure"
  <1> DEFINE q == Tail(p)
             n == Len(p)
  <1>1. /\ q \in Seq(Events) /\ Head(p) = p[1] /\ p[1] \in Events
        /\ n \in Nat \ {0} /\ DOMAIN p = 1 .. n /\ DOMAIN q = 1 .. (n - 1)
        /\ \A k \in 1 .. (n - 1) : q[k] = p[k + 1]
    BY TailLemma
  <1> HIDE DEF q, n
  <1>2. /\ \A k \in 1 .. (n - 1) : k + 1 \in 1 .. n
        /\ 1 \in 1 .. n
    BY <1>1
  <1>3. ASSUME NEW k \in 1 .. n, k # 1
        PROVE  k - 1 \in 1 .. (n - 1) /\ q[k - 1] = p[k]
    <2>1. k - 1 \in 1 .. (n - 1) /\ (k - 1) + 1 = k
      BY <1>1, <1>3
    <2>2. q[k - 1] = p[(k - 1) + 1]
      BY <1>1, <2>1
    <2> QED BY <2>1, <2>2
  <1>4. \A k \in Serials(q) : k \in 1 .. (n - 1) /\ k + 1 \in Serials(p) /\ q[k] = p[k + 1]
    BY <1>1, <1>2 DEF Serials
  <1>5. \A k \in Serials(p) : k \in 1 .. n /\ (k # 1 => k - 1 \in Serials(q) /\ q[k - 1] = p[k])
    BY <1>1, <1>3 DEF Serials
  <1>6. 1 \in Serials(p) <=> p[1].ev = "configure"
    BY <1>1, <1>2 DEF Serials
  <1> QED BY <1>1, <1>4, <1>5, <1>6 DEF q, n

LEMMA EventsAppend ==
  ASSUME NEW p \in Seq(Events), NEW e \in Events
  PROVE  LET q == Append(p, e)
             n == Len(p)
         IN /\ q \in Seq(Events) /\ n \in Nat /\ q[n + 1] = e
            /\ DOMAIN p = 1 .. n /\ DOMAIN q = 1 .. (n + 1)
            /\ \A k \in 1 .. n : q[k] = p[k]
            /\ \A k \in Serials(p) : k \in 1 .. n /\ q[k] = p[k]
            /\ e.ev = "configure" => Serials(q) = Serials(p) \cup {n + 1}
            /\ e.ev # "configure" => Serials(q) = Serials(p)
  <1> DEFINE q == Append(p, e)
             n == Len(p)
  <1>1. /\ q \in Seq(Events) /\ n \in Nat /\ q[n + 1] = e
        /\ DOMAIN p = 1 .. n /\ DOMAIN q = 1 .. (n + 1)
        /\ \A k \in 1 .. n : q[k] = p[k]
    OBVIOUS
  <1> HIDE DEF q, n
  <1>2. \A k \in 1 .. (n + 1) : k \in 1 .. n \/ k = n + 1
    BY <1>1
  <1>3. /\ \A k \in Serials(p) : k \in 1 .. n /\ q[k] = p[k]
        /\ e.ev = "configure" => Serials(q) = Serials(p) \cup {n + 1}
        /\ e.ev # "configure" => Serials(q) = Serials(p)
    BY <1>1, <1>2 DEF Serials
  <1> QED BY <1>1, <1>3 DEF q, n

\* The serial at the head is the next one.
LEMMA SerialsHead ==
  ASSUME NEW p \in Seq(Events), p # <<>>, NEW heard \in Nat, NEW last \in Nat,
         SerialsInOrder(p, heard, last), p[1].ev = "configure"
  PROVE  p[1].n = heard + 1 /\ heard < last
  <1>1. 1 \in Serials(p) /\ \A k \in Serials(p) : k \in 1 .. Len(p)
    BY EventsTail
  <1>2. p[1].n \in (heard + 1) .. last
    BY <1>1 DEF SerialsInOrder
  <1>3. heard + 1 \in (heard + 1) .. last
    BY <1>2
  <1>4. PICK k \in Serials(p) : p[k].n = heard + 1
    BY <1>3 DEF SerialsInOrder
  <1>5. 1 < k => p[1].n < p[k].n
    BY <1>1 DEF SerialsInOrder
  <1>6. k = 1
    BY <1>1, <1>2, <1>4, <1>5
  <1> QED BY <1>2, <1>4, <1>6

LEMMA SerialsTail ==
  ASSUME NEW p \in Seq(Events), p # <<>>, NEW heard \in Nat, NEW last \in Nat,
         SerialsInOrder(p, heard, last)
  PROVE  SerialsInOrder(Tail(p), IF p[1].ev = "configure" THEN heard + 1 ELSE heard, last)
  <1> DEFINE q == Tail(p)
             n == Len(p)
             u == IF p[1].ev = "configure" THEN heard + 1 ELSE heard
  <1>1. /\ \A k \in Serials(q) : k \in 1 .. (n - 1) /\ k + 1 \in Serials(p) /\ q[k] = p[k + 1]
        /\ \A k \in Serials(p) :
             k \in 1 .. n /\ (k # 1 => k - 1 \in Serials(q) /\ q[k - 1] = p[k])
        /\ 1 \in Serials(p) <=> p[1].ev = "configure"
        /\ n \in Nat \ {0}
    BY EventsTail
  <1>2. u \in Nat /\ (1 \in Serials(p) => p[1].n = heard + 1 /\ u = heard + 1)
        /\ (1 \notin Serials(p) => u = heard)
    <2>1. CASE p[1].ev = "configure"
      BY <1>1, <2>1, SerialsHead
    <2>2. CASE p[1].ev # "configure"
      BY <1>1, <2>2
    <2> QED BY <2>1, <2>2
  <1> HIDE DEF q, n, u
  <1>3. \A k \in Serials(q) : q[k].n \in (u + 1) .. last
    <2> TAKE k \in Serials(q)
    <2>1. k + 1 \in Serials(p) /\ q[k] = p[k + 1] /\ 1 < k + 1
      BY <1>1
    <2>2. p[k + 1].n \in (heard + 1) .. last
      BY <2>1 DEF SerialsInOrder
    <2>3. 1 \in Serials(p) => heard + 1 < p[k + 1].n
      BY <1>2, <2>1 DEF SerialsInOrder
    <2> QED BY <1>2, <2>1, <2>2, <2>3
  <1>4. \A s \in (u + 1) .. last : \E k \in Serials(q) : q[k].n = s
    <2> TAKE s \in (u + 1) .. last
    <2>1. s \in (heard + 1) .. last /\ (1 \in Serials(p) => s # heard + 1)
      BY <1>2
    <2>2. PICK k \in Serials(p) : p[k].n = s
      BY <2>1 DEF SerialsInOrder
    <2>3. k # 1
      BY <1>2, <2>1, <2>2
    <2>4. k - 1 \in Serials(q) /\ q[k - 1] = p[k]
      BY <1>1, <2>3
    <2> QED BY <2>2, <2>4
  <1>5. \A j, k \in Serials(q) : j < k => q[j].n < q[k].n
    <2> TAKE j, k \in Serials(q)
    <2>1. j < k => j + 1 < k + 1
      BY <1>1
    <2> QED BY <1>1, <2>1 DEF SerialsInOrder
  <1>6. SerialsInOrder(q, u, last)
    BY <1>3, <1>4, <1>5 DEF SerialsInOrder
  <1> QED BY <1>6 DEF q, u

\* The compositor sends the next configure, or something else.
LEMMA SerialsAppend ==
  ASSUME NEW p \in Seq(Events), NEW e \in Events, NEW heard \in Nat, NEW last \in Nat,
         heard <= last, SerialsInOrder(p, heard, last)
  PROVE  /\ e.ev # "configure" => SerialsInOrder(Append(p, e), heard, last)
         /\ e.ev = "configure" /\ e.n = last + 1
              => SerialsInOrder(Append(p, e), heard, last + 1)
  <1> DEFINE q == Append(p, e)
             n == Len(p)
  <1>1. /\ n \in Nat /\ q[n + 1] = e
        /\ \A k \in Serials(p) : k \in 1 .. n /\ q[k] = p[k]
        /\ e.ev = "configure" => Serials(q) = Serials(p) \cup {n + 1}
        /\ e.ev # "configure" => Serials(q) = Serials(p)
    BY EventsAppend
  <1> HIDE DEF q, n
  <1>2. CASE e.ev # "configure"
    <2>1. SerialsInOrder(q, heard, last)
      BY <1>1, <1>2 DEF SerialsInOrder
    <2> QED BY <1>2, <2>1 DEF q
  <1>3. CASE e.ev = "configure" /\ e.n = last + 1
    <2>1. \A k \in Serials(q) : q[k].n \in (heard + 1) .. (last + 1)
      <3> TAKE k \in Serials(q)
      <3>1. CASE k \in Serials(p)
        BY <1>1, <3>1 DEF SerialsInOrder
      <3>2. CASE k = n + 1
        BY <1>1, <1>3, <3>2
      <3> QED BY <1>1, <1>3, <3>1, <3>2
    <2>2. \A s \in (heard + 1) .. (last + 1) : \E k \in Serials(q) : q[k].n = s
      <3> TAKE s \in (heard + 1) .. (last + 1)
      <3>1. CASE s = last + 1
        BY <1>1, <1>3, <3>1
      <3>2. CASE s \in (heard + 1) .. last
        BY <1>1, <1>3, <3>2 DEF SerialsInOrder
      <3> QED BY <3>1, <3>2
    <2>3. \A j, k \in Serials(q) : j < k => q[j].n < q[k].n
      <3> TAKE j, k \in Serials(q)
      <3> HAVE j < k
      <3>1. j \in Serials(p) /\ j \in 1 .. n
        BY <1>1, <1>3
      <3>2. p[j].n \in (heard + 1) .. last
        BY <3>1 DEF SerialsInOrder
      <3>3. CASE k \in Serials(p)
        BY <1>1, <3>1, <3>3 DEF SerialsInOrder
      <3>4. CASE k = n + 1
        BY <1>1, <1>3, <3>1, <3>2, <3>4
      <3> QED BY <1>1, <1>3, <3>3, <3>4
    <2>4. SerialsInOrder(q, heard, last + 1)
      BY <2>1, <2>2, <2>3 DEF SerialsInOrder
    <2> QED BY <1>3, <2>4 DEF q
  <1> QED BY <1>2, <1>3

\* A configure stays in one piece when the client takes an event...
LEMMA PairsTail ==
  ASSUME NEW p \in Seq(Events), p # <<>>, NEW sizes, InPairs(p, sizes)
  PROVE  /\ InPairs(Tail(p), sizes)
         /\ p[1].ev = "toplevel_configure" =>
              /\ Tail(p) # <<>> /\ Tail(p)[1].ev = "configure"
              /\ p[1].extent = sizes[Tail(p)[1].n]
         /\ p[1].ev # "toplevel_configure" => Tail(p) = <<>> \/ Tail(p)[1].ev # "configure"
  <1> DEFINE q == Tail(p)
             n == Len(p)
  <1>1. /\ q \in Seq(Events) /\ n \in Nat \ {0} /\ DOMAIN p = 1 .. n /\ DOMAIN q = 1 .. (n - 1)
        /\ \A k \in 1 .. (n - 1) : q[k] = p[k + 1]
    BY EventsTail
  <1>2. q = <<>> <=> n = 1
    BY <1>1
  <1> HIDE DEF q, n
  <1>3. ASSUME NEW k \in DOMAIN q
        PROVE  /\ q[k].ev = "toplevel_configure" =>
                    /\ k + 1 \in DOMAIN q /\ q[k + 1].ev = "configure"
                    /\ q[k].extent = sizes[q[k + 1].n]
               /\ q[k].ev = "configure" /\ k > 1 => q[k - 1].ev = "toplevel_configure"
    <2>1. k \in 1 .. (n - 1) /\ k + 1 \in DOMAIN p /\ q[k] = p[k + 1]
      BY <1>1
    <2>2. (k + 1) + 1 \in DOMAIN p => k + 1 \in DOMAIN q /\ q[k + 1] = p[(k + 1) + 1]
      BY <1>1
    <2>3. k > 1 => q[k - 1] = p[(k + 1) - 1] /\ k + 1 > 1
      <3>1. k > 1 => k - 1 \in 1 .. (n - 1) /\ (k - 1) + 1 = (k + 1) - 1 /\ k + 1 > 1
        BY <1>1
      <3> QED BY <1>1, <3>1
    <2> QED BY <2>1, <2>2, <2>3 DEF InPairs
  <1>4. InPairs(q, sizes)
    BY <1>3 DEF InPairs
  <1>5. 1 \in DOMAIN p /\ (2 \in DOMAIN p => n # 1 /\ q[1] = p[2])
    <2>1. 2 \in 1 .. n => 1 \in 1 .. (n - 1) /\ 1 + 1 = 2
      BY <1>1
    <2> QED BY <1>1, <2>1
  <1>6. p[1].ev = "toplevel_configure" =>
          /\ q # <<>> /\ q[1].ev = "configure" /\ p[1].extent = sizes[q[1].n]
    <2>1. 1 + 1 = 2
      OBVIOUS
    <2> QED BY <1>2, <1>5, <2>1 DEF InPairs
  <1>7. p[1].ev # "toplevel_configure" => q = <<>> \/ q[1].ev # "configure"
    <2>1. q # <<>> => 2 \in DOMAIN p /\ 2 > 1 /\ 2 - 1 = 1
      BY <1>1, <1>2
    <2> QED BY <1>5, <2>1 DEF InPairs
  <1> QED BY <1>4, <1>6, <1>7 DEF q

\* ... and when the compositor sends one, or another event.
LEMMA PairsAppend ==
  ASSUME NEW p \in Seq(Events), NEW e \in Events, NEW sizes, InPairs(p, sizes),
         e.ev \notin {"toplevel_configure", "configure"}
  PROVE  InPairs(Append(p, e), sizes)
  <1> DEFINE q == Append(p, e)
             n == Len(p)
  <1>1. /\ n \in Nat /\ q[n + 1] = e
        /\ DOMAIN p = 1 .. n /\ DOMAIN q = 1 .. (n + 1)
        /\ \A k \in 1 .. n : q[k] = p[k]
    BY EventsAppend
  <1> HIDE DEF q, n
  <1>2. ASSUME NEW k \in 1 .. n
        PROVE  /\ q[k].ev = "toplevel_configure" =>
                    /\ k + 1 \in DOMAIN q /\ q[k + 1].ev = "configure"
                    /\ q[k].extent = sizes[q[k + 1].n]
               /\ q[k].ev = "configure" /\ k > 1 => q[k - 1].ev = "toplevel_configure"
    <2>1. k > 1 => k - 1 \in 1 .. n
      BY <1>1
    <2>2. k + 1 \in 1 .. n => k + 1 \in 1 .. (n + 1)
      BY <1>1
    <2> QED BY <1>1, <2>1, <2>2 DEF InPairs
  <1>3. \A k \in DOMAIN q : k \in 1 .. n \/ k = n + 1
    BY <1>1
  <1>4. InPairs(q, sizes)
    BY <1>1, <1>2, <1>3 DEF InPairs
  <1> QED BY <1>4 DEF q

LEMMA PairsAppendPair ==
  ASSUME NEW p \in Seq(Events), NEW e \in Events, NEW f \in Events,
         NEW sizes, NEW new_sizes, InPairs(p, sizes),
         e.ev = "toplevel_configure", f.ev = "configure", e.extent = new_sizes[f.n],
         \A k \in Serials(p) : new_sizes[p[k].n] = sizes[p[k].n]
  PROVE  InPairs(Append(Append(p, e), f), new_sizes)
  <1> DEFINE q == Append(Append(p, e), f)
             n == Len(p)
  <1>1. /\ n \in Nat /\ q[n + 1] = e /\ q[n + 2] = f
        /\ DOMAIN p = 1 .. n /\ DOMAIN q = 1 .. (n + 2)
        /\ \A k \in 1 .. n : q[k] = p[k]
    OBVIOUS
  <1> HIDE DEF q, n
  <1>2. ASSUME NEW k \in 1 .. n
        PROVE  /\ q[k].ev = "toplevel_configure" =>
                    /\ k + 1 \in DOMAIN q /\ q[k + 1].ev = "configure"
                    /\ q[k].extent = new_sizes[q[k + 1].n]
               /\ q[k].ev = "configure" /\ k > 1 => q[k - 1].ev = "toplevel_configure"
    <2>1. k > 1 => k - 1 \in 1 .. n
      BY <1>1
    <2>2. k + 1 \in 1 .. n => k + 1 \in 1 .. (n + 2)
      BY <1>1
    <2>3. q[k].ev = "toplevel_configure" => k + 1 \in Serials(p)
      BY <1>1 DEF InPairs, Serials
    <2> QED BY <1>1, <2>1, <2>2, <2>3 DEF InPairs
  <1>3. \A k \in DOMAIN q : k \in 1 .. n \/ k = n + 1 \/ k = n + 2
    BY <1>1
  <1>4. (n + 1) + 1 = n + 2 /\ (n + 2) - 1 = n + 1 /\ n + 2 \in DOMAIN q
    BY <1>1
  <1>5. InPairs(q, new_sizes)
    BY <1>1, <1>2, <1>3, <1>4 DEF InPairs
  <1> QED BY <1>5 DEF q

\* Acks written, and acks served.
LEMMA AcksSkip ==
  ASSUME NEW p \in Seq(Requests), NEW r \in Requests, NEW low, NEW high,
         AcksInOrder(p, low, high), r.op # "ack"
  PROVE  AcksInOrder(Append(p, r), low, high)
  <1> DEFINE q == Append(p, r)
  <1>1. Acks(q) = Acks(p) /\ \A k \in Acks(p) : q[k] = p[k]
    BY AppendWith DEF Acks
  <1> HIDE DEF q
  <1>2. AcksInOrder(q, low, high)
    BY <1>1 DEF AcksInOrder
  <1> QED BY <1>2 DEF q

LEMMA AcksAppend ==
  ASSUME NEW p \in Seq(Requests), NEW r \in Requests, NEW low \in Nat, NEW high \in Nat,
         low <= high, AcksInOrder(p, low, high), r.op = "ack", r.n = high + 1
  PROVE  AcksInOrder(Append(p, r), low, high + 1)
  <1> DEFINE q == Append(p, r)
             n == Len(p)
  <1>1. /\ Acks(q) = Acks(p) \cup {n + 1} /\ n \in Nat /\ q[n + 1] = r
        /\ \A k \in Acks(p) : k \in 1 .. n /\ q[k] = p[k]
    BY AppendWith DEF Acks
  <1> HIDE DEF q, n
  <1>2. \A k \in Acks(p) : p[k].n \in (low + 1) .. high
    BY DEF AcksInOrder
  <1>3. \A k \in Acks(q) : q[k].n \in (low + 1) .. (high + 1)
    <2> TAKE k \in Acks(q)
    <2>1. CASE k \in Acks(p)
      BY <1>1, <1>2, <2>1
    <2>2. CASE k = n + 1
      BY <1>1, <2>2
    <2> QED BY <1>1, <2>1, <2>2
  <1>4. \A j, k \in Acks(q) : j < k => q[j].n < q[k].n
    <2> TAKE j, k \in Acks(q)
    <2> HAVE j < k
    <2>1. j \in Acks(p) /\ j \in 1 .. n
      BY <1>1
    <2>2. CASE k \in Acks(p)
      BY <1>1, <2>1, <2>2 DEF AcksInOrder
    <2>3. CASE k = n + 1
      BY <1>1, <1>2, <2>1, <2>3
    <2> QED BY <1>1, <2>2, <2>3
  <1>5. AcksInOrder(q, low, high + 1)
    BY <1>3, <1>4 DEF AcksInOrder
  <1> QED BY <1>5 DEF q

LEMMA AcksTail ==
  ASSUME NEW p \in Seq(Requests), p # <<>>, NEW low \in Nat, NEW high \in Nat,
         AcksInOrder(p, low, high)
  PROVE  /\ p[1].op = "ack" => /\ p[1].n \in (low + 1) .. high
                               /\ AcksInOrder(Tail(p), p[1].n, high)
         /\ p[1].op # "ack" => AcksInOrder(Tail(p), low, high)
  <1> DEFINE q == Tail(p)
             n == Len(p)
  <1>1. /\ \A k \in Acks(q) : k \in 1 .. (n - 1) /\ k + 1 \in Acks(p) /\ q[k] = p[k + 1]
        /\ 1 \in Acks(p) <=> p[1].op = "ack"
        /\ n \in Nat \ {0}
    BY TailWith DEF Acks
  <1> HIDE DEF q, n
  <1>2. \A j, k \in Acks(q) : j < k => q[j].n < q[k].n
    <2> TAKE j, k \in Acks(q)
    <2>1. j < k => j + 1 < k + 1
      BY <1>1
    <2> QED BY <1>1, <2>1 DEF AcksInOrder
  <1>3. \A k \in Acks(q) : q[k].n \in (low + 1) .. high
    BY <1>1 DEF AcksInOrder
  <1>4. CASE p[1].op = "ack"
    <2>1. p[1].n \in (low + 1) .. high
      BY <1>1, <1>4 DEF AcksInOrder
    <2>2. \A k \in Acks(q) : q[k].n \in (p[1].n + 1) .. high
      <3> TAKE k \in Acks(q)
      <3>1. k + 1 \in Acks(p) /\ 1 < k + 1 /\ q[k] = p[k + 1]
        BY <1>1
      <3>2. p[1].n < q[k].n
        BY <1>1, <1>4, <3>1 DEF AcksInOrder
      <3> QED BY <1>3, <2>1, <3>2
    <2>3. AcksInOrder(q, p[1].n, high)
      BY <1>2, <2>2 DEF AcksInOrder
    <2> QED BY <1>4, <2>1, <2>3 DEF q
  <1>5. CASE p[1].op # "ack"
    <2>1. AcksInOrder(q, low, high)
      BY <1>2, <1>3 DEF AcksInOrder
    <2> QED BY <1>5, <2>1 DEF q
  <1> QED BY <1>4, <1>5

-----------------------------------------------------------------------------
(* The size of the last configure that had one. *)

\* Numbers up to n, if there are any, have a largest.
LEMMA LargestLemma ==
  ASSUME NEW n \in Nat, NEW S, S \subseteq 1 .. n, S # {}
  PROVE  \E s \in S : \A t \in S : t <= s
  <1> DEFINE Less == {ss \in Nat \X Nat : ss[1] < ss[2]}
             T == {m \in Nat : n - m \in S}
  <1>1. IsWellFoundedOn(Less, Nat)
    BY NatLessThanWellFounded DEF OpToRel
  <1>2. T \subseteq Nat /\ T # {}
    <2>1. PICK s \in S : TRUE
      OBVIOUS
    <2>2. n - s \in Nat /\ n - (n - s) = s
      BY <2>1
    <2> QED BY <2>2
  <1> HIDE DEF Less, T
  <1>3. PICK m \in T : \A k \in T : ~(<<k, m>> \in Less)
    BY <1>1, <1>2, WFMin
  <1>4. m \in Nat /\ n - m \in S
    BY DEF T
  <1>5. ASSUME NEW t \in S PROVE t <= n - m
    <2>1. t \in 1 .. n /\ n - t \in Nat /\ n - (n - t) = t
      OBVIOUS
    <2>2. n - t \in T
      BY <2>1 DEF T
    <2>3. ~(n - t < m)
      BY <1>3, <1>4, <2>1, <2>2 DEF Less
    <2> QED BY <1>4, <2>1, <2>3
  <1> QED BY <1>4, <1>5

\* One configure later.
LEMMA LatestStep ==
  ASSUME NEW sizes, NEW s \in Nat
  PROVE  LatestSize(sizes, s + 1)
           = IF Sized(sizes[s + 1]) THEN sizes[s + 1] ELSE LatestSize(sizes, s)
  <1> DEFINE now == {t \in 1 .. (s + 1) : Sized(sizes[t])}
             before == {t \in 1 .. s : Sized(sizes[t])}
  <1>1. \A t \in 1 .. (s + 1) : t \in 1 .. s \/ t = s + 1
    OBVIOUS
  <1>2. s + 1 \in 1 .. (s + 1) /\ 1 .. s \subseteq 1 .. (s + 1)
    OBVIOUS
  <1>3. CASE Sized(sizes[s + 1])
    <2>1. s + 1 \in now /\ \A t \in now : t <= s + 1
      BY <1>2, <1>3
    <2>2. ASSUME NEW m \in now, \A t \in now : t <= m PROVE m = s + 1
      <3>1. m \in 1 .. (s + 1) /\ s + 1 <= m
        BY <2>1, <2>2
      <3> QED BY <3>1
    <2> HIDE DEF now
    <2>3. (CHOOSE m \in now : \A t \in now : t <= m) = s + 1
      BY <2>1, <2>2
    <2>4. now # {}
      BY <2>1
    <2>5. LatestSize(sizes, s + 1)
            = IF now = {} THEN Default ELSE sizes[CHOOSE m \in now : \A t \in now : t <= m]
      BY DEF LatestSize, now
    <2> QED BY <1>3, <2>3, <2>4, <2>5
  <1>4. CASE ~Sized(sizes[s + 1])
    <2>1. now = before
      BY <1>1, <1>2, <1>4
    <2>2. LatestSize(sizes, s + 1)
            = IF now = {} THEN Default ELSE sizes[CHOOSE m \in now : \A t \in now : t <= m]
      BY DEF LatestSize, now
    <2>3. LatestSize(sizes, s)
            = IF before = {} THEN Default
              ELSE sizes[CHOOSE m \in before : \A t \in before : t <= m]
      BY DEF LatestSize, before
    <2> HIDE DEF now, before
    <2> QED BY <1>4, <2>1, <2>2, <2>3
  <1> QED BY <1>3, <1>4

\* Only the configures up to the serial matter.
LEMMA LatestSame ==
  ASSUME NEW sizes, NEW new_sizes, NEW s \in Nat, \A t \in 1 .. s : new_sizes[t] = sizes[t]
  PROVE  LatestSize(new_sizes, s) = LatestSize(sizes, s)
  <1> DEFINE sized == {t \in 1 .. s : Sized(sizes[t])}
             new_sized == {t \in 1 .. s : Sized(new_sizes[t])}
             last == CHOOSE m \in sized : \A t \in sized : t <= m
  <1>1. sized = new_sized
    OBVIOUS
  <1>2. sized # {} => new_sizes[last] = sizes[last]
    <2>1. sized \subseteq 1 .. s
      OBVIOUS
    <2> HIDE DEF sized
    <2>2. sized # {} => \E m \in sized : \A t \in sized : t <= m
      BY <2>1, LargestLemma
    <2>3. sized # {} => last \in sized
      BY <2>2
    <2> QED BY <2>1, <2>3
  <1>3. LatestSize(sizes, s) = IF sized = {} THEN Default ELSE sizes[last]
    BY DEF LatestSize
  <1>4. LatestSize(new_sizes, s)
          = IF new_sized = {} THEN Default
            ELSE new_sizes[CHOOSE m \in new_sized : \A t \in new_sized : t <= m]
    BY DEF LatestSize
  <1> HIDE DEF sized, new_sized
  <1> QED BY <1>1, <1>2, <1>3, <1>4

\* A buffer of a size the client draws fits the pool made for it.
LEMMA FitsLemma ==
  ASSUME NEW extent \in [w : Nat, h : Nat], Drawable(extent), Sized(extent)
  PROVE  BufferFits(extent)
  <1> DEFINE w == extent.w
             h == extent.h
  <1>1. w \in Nat /\ h \in Nat /\ w * h \in Nat /\ w # 0 /\ h # 0
    BY DEF Sized
  <1>2. INT_MAX < UINT_MOD /\ INT_MAX \in Int /\ UINT_MOD \in Nat \ {0}
    BY FramebufferAssumption DEF INT_MAX
  <1>3. 4 * w <= INT_MAX /\ 4 * (w * h) <= INT_MAX
    BY DEF Drawable
  <1>4. Stride(extent) = 4 * w
    BY <1>1, <1>2, <1>3 DEF Stride
  <1>5. Size(extent) = 4 * (w * h)
    BY <1>1, <1>4 DEF Size
  <1>6. AsInt(Stride(extent)) = 4 * w
    BY <1>3, <1>4 DEF AsInt
  <1>7. PoolSize(extent) = 4 * (w * h)
    <2> DEFINE bytes == 4 * (w * h)
    <2>1. bytes \in Nat /\ bytes <= INT_MAX
      BY <1>1, <1>3
    <2> HIDE DEF bytes
    <2>2. bytes % UINT_MOD = bytes
      BY <1>2, <2>1
    <2> QED BY <1>5, <2>1, <2>2 DEF PoolSize, AsInt, bytes
  <1>8. (4 * w) * h = 4 * (w * h)
    BY <1>1
  <1>9. AsInt(w) > 0 /\ AsInt(h) > 0 /\ 4 * w >= w
    <2>1. w * h = (w - 1) * h + h /\ (w - 1) * h \in Nat
      BY <1>1
    <2>2. 4 * h <= 4 * (w * h)
      <3> DEFINE above == (w - 1) * h
                 all == w * h
      <3>1. above \in Nat /\ all = above + h
        BY <2>1
      <3> HIDE DEF above, all
      <3>2. 4 * h <= 4 * all
        BY <1>1, <3>1
      <3> QED BY <3>2 DEF all
    <2>3. 4 * w <= INT_MAX /\ 4 * h <= INT_MAX
      <3> DEFINE all == w * h
      <3>1. all \in Nat /\ 4 * h <= 4 * all /\ 4 * all <= INT_MAX
        BY <1>1, <1>3, <2>2
      <3> HIDE DEF all
      <3> QED BY <1>1, <1>2, <1>3, <3>1
    <2> HIDE DEF w, h
    <2> QED BY <1>1, <1>2, <2>3 DEF AsInt
  <1> QED BY <1>3, <1>6, <1>7, <1>8, <1>9 DEF BufferFits

-----------------------------------------------------------------------------
(* ack_configure, attach and commit. *)

LEMMA GroupedSkip ==
  ASSUME NEW p \in Seq(Requests), NEW r \in Requests, Grouped(p), r.op \notin {"ack", "attach"}
  PROVE  Grouped(Append(p, r))
  <1> DEFINE q == Append(p, r)
             n == Len(p)
  <1>1. /\ n \in Nat /\ q[n + 1] = r
        /\ DOMAIN p = 1 .. n /\ DOMAIN q = 1 .. (n + 1)
        /\ \A k \in 1 .. n : q[k] = p[k]
    BY AppendMembers
  <1> HIDE DEF q, n
  <1>2. ASSUME NEW k \in 1 .. n
        PROVE  /\ q[k].op = "ack" => k + 1 \in DOMAIN q /\ q[k + 1].op = "attach"
               /\ q[k].op = "attach" =>
                    /\ k + 1 \in DOMAIN q /\ q[k + 1].op = "commit"
                    /\ k > 1 => q[k - 1].op = "ack"
    <2>1. k > 1 => k - 1 \in 1 .. n
      BY <1>1
    <2>2. k + 1 \in 1 .. n => k + 1 \in 1 .. (n + 1)
      BY <1>1
    <2>3. /\ p[k].op = "ack" => k + 1 \in DOMAIN p /\ p[k + 1].op = "attach"
          /\ p[k].op = "attach" =>
               /\ k + 1 \in DOMAIN p /\ p[k + 1].op = "commit"
               /\ k > 1 => p[k - 1].op = "ack"
      BY <1>1 DEF Grouped
    <2> QED BY <1>1, <2>1, <2>2, <2>3
  <1>3. \A k \in DOMAIN q : k \in 1 .. n \/ k = n + 1
    BY <1>1
  <1>4. Grouped(q)
    BY <1>1, <1>2, <1>3 DEF Grouped
  <1> QED BY <1>4 DEF q

LEMMA GroupedGroup ==
  ASSUME NEW p \in Seq(Requests), Grouped(p),
         NEW a \in Requests, a.op = "ack", NEW t \in Requests, t.op = "attach",
         NEW c \in Requests, c.op = "commit"
  PROVE  Grouped(Append(Append(Append(p, a), t), c))
  <1> DEFINE q == Append(Append(Append(p, a), t), c)
             n == Len(p)
  <1>1. /\ n \in Nat /\ q[n + 1] = a /\ q[n + 2] = t /\ q[n + 3] = c
        /\ DOMAIN p = 1 .. n /\ DOMAIN q = 1 .. (n + 3)
        /\ \A k \in 1 .. n : q[k] = p[k]
    OBVIOUS
  <1> HIDE DEF q, n
  <1>2. ASSUME NEW k \in 1 .. n
        PROVE  /\ q[k].op = "ack" => k + 1 \in DOMAIN q /\ q[k + 1].op = "attach"
               /\ q[k].op = "attach" =>
                    /\ k + 1 \in DOMAIN q /\ q[k + 1].op = "commit"
                    /\ k > 1 => q[k - 1].op = "ack"
    <2>1. k > 1 => k - 1 \in 1 .. n
      BY <1>1
    <2>2. k + 1 \in 1 .. n => k + 1 \in 1 .. (n + 3)
      BY <1>1
    <2>3. /\ p[k].op = "ack" => k + 1 \in DOMAIN p /\ p[k + 1].op = "attach"
          /\ p[k].op = "attach" =>
               /\ k + 1 \in DOMAIN p /\ p[k + 1].op = "commit"
               /\ k > 1 => p[k - 1].op = "ack"
      BY <1>1 DEF Grouped
    <2> QED BY <1>1, <2>1, <2>2, <2>3
  <1>3. \A k \in DOMAIN q : k \in 1 .. n \/ k = n + 1 \/ k = n + 2 \/ k = n + 3
    BY <1>1
  <1>4. /\ (n + 1) + 1 = n + 2 /\ (n + 2) + 1 = n + 3 /\ (n + 2) - 1 = n + 1
        /\ n + 2 \in DOMAIN q /\ n + 3 \in DOMAIN q
    BY <1>1
  <1>5. ASSUME NEW k \in {n + 1, n + 2, n + 3}
        PROVE  /\ q[k].op = "ack" => k + 1 \in DOMAIN q /\ q[k + 1].op = "attach"
               /\ q[k].op = "attach" =>
                    /\ k + 1 \in DOMAIN q /\ q[k + 1].op = "commit"
                    /\ k > 1 => q[k - 1].op = "ack"
    <2>1. CASE k = n + 1
      BY <1>1, <1>4, <2>1
    <2>2. CASE k = n + 2
      BY <1>1, <1>4, <2>2
    <2>3. CASE k = n + 3
      BY <1>1, <2>3
    <2> QED BY <2>1, <2>2, <2>3
  <1>6. Grouped(q)
    BY <1>2, <1>3, <1>5 DEF Grouped
  <1> QED BY <1>6 DEF q

LEMMA GroupedTail ==
  ASSUME NEW p \in Seq(Requests), p # <<>>, Grouped(p)
  PROVE  /\ Grouped(Tail(p))
         /\ p[1].op = "ack" => FirstOp(Tail(p)) = "attach"
         /\ p[1].op = "attach" => FirstOp(Tail(p)) = "commit"
         /\ p[1].op # "ack" => FirstOp(Tail(p)) # "attach"
  <1> DEFINE q == Tail(p)
             n == Len(p)
  <1>1. /\ q \in Seq(Requests) /\ n \in Nat \ {0}
        /\ DOMAIN p = 1 .. n /\ DOMAIN q = 1 .. (n - 1)
        /\ \A k \in 1 .. (n - 1) : q[k] = p[k + 1]
    BY TailMembers
  <1>2. q = <<>> <=> n = 1
    BY <1>1
  <1> HIDE DEF q, n
  <1>3. ASSUME NEW k \in DOMAIN q
        PROVE  /\ q[k].op = "ack" => k + 1 \in DOMAIN q /\ q[k + 1].op = "attach"
               /\ q[k].op = "attach" =>
                    /\ k + 1 \in DOMAIN q /\ q[k + 1].op = "commit"
                    /\ k > 1 => q[k - 1].op = "ack"
    <2>1. k \in 1 .. (n - 1) /\ k + 1 \in DOMAIN p /\ q[k] = p[k + 1]
      BY <1>1
    <2>2. (k + 1) + 1 \in DOMAIN p => k + 1 \in DOMAIN q /\ q[k + 1] = p[(k + 1) + 1]
      BY <1>1
    <2>3. k > 1 => q[k - 1] = p[(k + 1) - 1] /\ k + 1 > 1
      <3>1. k > 1 => k - 1 \in 1 .. (n - 1) /\ (k - 1) + 1 = (k + 1) - 1 /\ k + 1 > 1
        BY <1>1
      <3> QED BY <1>1, <3>1
    <2> QED BY <2>1, <2>2, <2>3 DEF Grouped
  <1>4. Grouped(q)
    BY <1>3 DEF Grouped
  <1>5. 1 \in DOMAIN p /\ (2 \in DOMAIN p <=> n # 1) /\ (n # 1 => q[1] = p[2])
    <2>1. n # 1 => 1 \in 1 .. (n - 1) /\ 1 + 1 = 2
      BY <1>1
    <2> QED BY <1>1, <2>1
  <1>6. FirstOp(q) = IF n = 1 THEN "none" ELSE p[2].op
    BY <1>2, <1>5 DEF FirstOp
  <1>7. /\ p[1].op = "ack" => 2 \in DOMAIN p /\ p[2].op = "attach"
        /\ p[1].op = "attach" => 2 \in DOMAIN p /\ p[2].op = "commit"
        /\ 2 \in DOMAIN p /\ p[2].op = "attach" => p[1].op = "ack"
    <2>1. 1 + 1 = 2 /\ 2 > 1 /\ 2 - 1 = 1
      OBVIOUS
    <2> QED BY <1>5, <2>1 DEF Grouped
  <1> QED BY <1>4, <1>5, <1>6, <1>7 DEF q

\* The size attached after an ack, one request more and one less.
LEMMA SizedAppend ==
  ASSUME NEW p \in Seq(Requests), NEW r \in Requests, NEW made, NEW asked,
         SizedAsAcked(p, made, asked),
         r.op = "attach" /\ p # <<>> => made[r.n] = LatestSize(asked, p[Len(p)].n)
  PROVE  SizedAsAcked(Append(p, r), made, asked)
  <1> DEFINE q == Append(p, r)
             n == Len(p)
  <1>1. /\ n \in Nat /\ q[n + 1] = r
        /\ r.op = "attach" => Attaches(q) = Attaches(p) \cup {n + 1}
        /\ r.op # "attach" => Attaches(q) = Attaches(p)
        /\ \A k \in Attaches(p) : k \in 1 .. n
        /\ \A k \in 1 .. n : q[k] = p[k]
    BY AppendWith, AppendMembers DEF Attaches
  <1>2. p # <<>> <=> n # 0
    OBVIOUS
  <1> HIDE DEF q, n
  <1>3. ASSUME NEW k \in Attaches(p), k > 1
        PROVE  made[q[k].n] = LatestSize(asked, q[k - 1].n)
    <2>1. k \in 1 .. n /\ k - 1 \in 1 .. n
      BY <1>1, <1>3
    <2> QED BY <1>1, <1>3, <2>1 DEF SizedAsAcked
  <1>4. ASSUME r.op = "attach", n + 1 > 1
        PROVE  made[q[n + 1].n] = LatestSize(asked, q[(n + 1) - 1].n)
    <2>1. (n + 1) - 1 = n /\ n \in 1 .. n /\ n # 0
      BY <1>1, <1>4
    <2>2. q[n] = p[n] /\ made[r.n] = LatestSize(asked, p[n].n)
      BY <1>1, <1>2, <1>4, <2>1 DEF n
    <2> QED BY <1>1, <2>1, <2>2
  <1>5. SizedAsAcked(q, made, asked)
    BY <1>1, <1>3, <1>4 DEF SizedAsAcked
  <1> QED BY <1>5 DEF q

LEMMA SizedTail ==
  ASSUME NEW p \in Seq(Requests), p # <<>>, NEW made, NEW asked,
         SizedAsAcked(p, made, asked)
  PROVE  /\ SizedAsAcked(Tail(p), made, asked)
         /\ FirstOp(Tail(p)) = "attach" => made[Tail(p)[1].n] = LatestSize(asked, p[1].n)
  <1> DEFINE q == Tail(p)
             n == Len(p)
  <1>1. /\ q \in Seq(Requests) /\ n \in Nat \ {0}
        /\ DOMAIN p = 1 .. n /\ DOMAIN q = 1 .. (n - 1)
        /\ \A k \in 1 .. (n - 1) : q[k] = p[k + 1]
        /\ \A k \in Attaches(q) : k \in 1 .. (n - 1) /\ k + 1 \in Attaches(p)
    BY TailMembers, TailWith DEF Attaches
  <1>2. q # <<>> => 1 \in DOMAIN q
    BY <1>1
  <1> HIDE DEF q, n
  <1>3. ASSUME NEW k \in Attaches(q)
        PROVE  made[q[k].n] = LatestSize(asked, p[k].n)
    <2>1. k + 1 \in Attaches(p) /\ k + 1 > 1 /\ (k + 1) - 1 = k /\ q[k] = p[k + 1]
      BY <1>1
    <2> QED BY <2>1 DEF SizedAsAcked
  <1>4. ASSUME NEW k \in Attaches(q), k > 1 PROVE q[k - 1] = p[k]
    <2>1. k - 1 \in 1 .. (n - 1) /\ (k - 1) + 1 = k
      BY <1>1, <1>4
    <2> QED BY <1>1, <2>1
  <1>5. SizedAsAcked(q, made, asked)
    BY <1>3, <1>4 DEF SizedAsAcked
  <1>6. FirstOp(q) = "attach" => 1 \in Attaches(q)
    BY <1>2 DEF FirstOp, Attaches, With
  <1> QED BY <1>3, <1>5, <1>6 DEF q

\* Framebuffers and configures that come after do not matter.
LEMMA SizedGrow ==
  ASSUME NEW p \in Seq(Requests), NEW made, NEW asked, NEW new_made, NEW new_asked,
         SizedAsAcked(p, made, asked), Grouped(p),
         \A k \in Attaches(p) : new_made[p[k].n] = made[p[k].n],
         \A k \in Acks(p) : LatestSize(new_asked, p[k].n) = LatestSize(asked, p[k].n)
  PROVE  SizedAsAcked(p, new_made, new_asked)
  <1> SUFFICES ASSUME NEW k \in Attaches(p), k > 1
               PROVE  new_made[p[k].n] = LatestSize(new_asked, p[k - 1].n)
    BY DEF SizedAsAcked
  <1>1. k \in DOMAIN p /\ p[k].op = "attach"
    BY DEF Attaches, With
  <1>2. k - 1 \in DOMAIN p
    BY <1>1
  <1>3. k - 1 \in Acks(p)
    BY <1>1, <1>2 DEF Grouped, Acks, With
  <1> QED BY <1>3 DEF SizedAsAcked

-----------------------------------------------------------------------------
(* What the steps do to Path and Coming. *)

LEMMA ConcatAssoc ==
  ASSUME NEW S, NEW s \in Seq(S), NEW t \in Seq(S), NEW u \in Seq(S)
  PROVE  (s \o t) \o u = s \o (t \o u)
  OBVIOUS

\* Requests written behind those in the queue come behind all on the path.
LEMMA PathAssoc ==
  ASSUME TypeOK, NEW rs \in Seq(Requests)
  PROVE  socket \o (queue.requests \o rs) = Path \o rs
  <1> DEFINE waiting == queue.requests
  <1>1. socket \in Seq(Requests) /\ waiting \in Seq(Requests)
    BY DEF TypeOK, Queues
  <1> HIDE DEF waiting
  <1>2. (socket \o waiting) \o rs = socket \o (waiting \o rs)
    BY <1>1, ConcatAssoc
  <1> QED BY <1>2 DEF Path, waiting

LEMMA TailConcat ==
  ASSUME NEW S, NEW s \in Seq(S), NEW t \in Seq(S), s # <<>>
  PROVE  s \o t # <<>> /\ (s \o t)[1] = Head(s) /\ Tail(s \o t) = Tail(s) \o t
  OBVIOUS

LEMMA ConcatAppends ==
  ASSUME NEW S, NEW s \in Seq(S), NEW a \in S, NEW b \in S, NEW c \in S
  PROVE  /\ s \o <<a>> = Append(s, a)
         /\ s \o <<a, b>> = Append(Append(s, a), b)
         /\ s \o <<a, b, c>> = Append(Append(Append(s, a), b), c)
  OBVIOUS

LEMMA SubSeqConcat ==
  ASSUME NEW S, NEW s \in Seq(S), NEW n \in 1 .. Len(s)
  PROVE  SubSeq(s, 1, n) \o SubSeq(s, n + 1, Len(s)) = s
  OBVIOUS

LEMMA PathType ==
  ASSUME TypeOK
  PROVE  Path \in Seq(Requests) /\ Coming \in Seq(Events)
  BY ConcatLemma DEF TypeOK, Queues, Path, Coming

LEMMA Types ==
  ASSUME DescriptorsInv
  PROVE  /\ Path \in Seq(Requests) /\ Coming \in Seq(Events)
         /\ configured \in Seq(Extents) /\ Len(configured) \in Nat
         /\ extents \in Seq(Extents) /\ frame \in Nat \ {0}
         /\ acked \in Nat /\ applied \in Nat /\ attached \in Nat /\ shown \in Nat
  BY PathType DEF DescriptorsInv, TypeOK

LEMMA TakesPath ==
  ASSUME TypeOK, NEW ops, Takes(ops)
  PROVE  /\ Path # <<>> /\ Path[1] = Head(socket) /\ Path[1].op \in ops
         /\ Path' = Tail(Path) /\ Coming' = Coming
  <1>1. /\ socket # <<>> /\ socket \in Seq(Requests) /\ queue.requests \in Seq(Requests)
        /\ socket' = Tail(socket) /\ Head(socket).op \in ops
        /\ queue' = queue /\ batch' = batch /\ incoming' = incoming
    BY DEF Takes, TypeOK, Queues, client
  <1> QED BY <1>1, TailConcat DEF Path, Coming

LEMMA HandlesPath ==
  ASSUME TypeOK, NEW ev, Handles(ev)
  PROVE  /\ Coming # <<>> /\ Coming[1] = Head(batch) /\ Coming[1].ev = ev
         /\ Coming' = Tail(Coming)
  <1>1. /\ batch # <<>> /\ batch \in Seq(Events) /\ incoming \in Seq(Events)
        /\ batch' = Tail(batch) /\ Head(batch).ev = ev /\ incoming' = incoming
    BY DEF Handles, TypeOK
  <1> QED BY <1>1, TailConcat DEF Coming

LEMMA EmitsPath ==
  ASSUME TypeOK, NEW events \in Seq(Events), Emits(events)
  PROVE  Path' = Path /\ Coming' = Coming \o events
  <1>1. /\ batch \in Seq(Events) /\ incoming \in Seq(Events)
        /\ incoming' = incoming \o events
        /\ batch' = batch /\ queue' = queue /\ socket' = socket
    BY DEF Emits, TypeOK, client
  <1>2. (batch \o incoming) \o events = batch \o (incoming \o events)
    BY <1>1, ConcatAssoc
  <1> QED BY <1>1, <1>2 DEF Path, Coming

\* A listener's requests go to the end of the path, unless the page is full.
LEMMA WritePath ==
  ASSUME TypeOK, failure = "none", NEW rs \in Seq(Requests), NEW bytes \in Nat,
         Write(rs, bytes), UNCHANGED socket
  PROVE  \/ failure' = "none" /\ Path' = Path \o rs
         \/ failure' = "overflow" /\ Path' = Path
  <1>1. socket \in Seq(Requests) /\ queue.requests \in Seq(Requests)
    BY DEF TypeOK, Queues
  <1>2. CASE failure' = "none" /\ queue'.requests = queue.requests \o rs
    BY <1>2, PathAssoc DEF Path
  <1>3. CASE failure' = "overflow" /\ queue'.requests = queue.requests
    BY <1>3 DEF Path
  <1> QED BY <1>2, <1>3, WriteLemma

LEMMA DispatchPath ==
  ASSUME DescriptorsInv, Dispatch
  PROVE  Path' = Path /\ Coming' = Coming /\ failure' = failure
  <1>1. socket \in Seq(Requests) /\ queue.requests \in Seq(Requests)
    BY DEF DescriptorsInv, TypeOK, Queues
  <1>2. socket' = socket \o queue.requests /\ queue'.requests = <<>>
    BY DispatchLemma DEF EmptyQueue
  <1>3. Path' = Path
    BY <1>1, <1>2 DEF Path
  <1>4. Coming' = Coming /\ failure' = failure
    BY DispatchLemma DEF Dispatch, Coming
  <1> QED BY <1>3, <1>4

\* The five requests of a Resize, sent or left unwritten.
LEMMA ResizePath ==
  ASSUME DescriptorsInv, NEW extent \in Extents, Handles("toplevel_configure"), Resize(extent)
  PROVE  \/ /\ failure' \in {"overflow", "fault"} /\ Path' = Path /\ UNCHANGED <<frame, extents>>
         \/ /\ failure' = "none" /\ frame' = frame + 1 /\ extents' = Append(extents, extent)
            /\ Path' = Append(Append(Append(Append(Append(Path,
                         R("destroy_buffer", frame)), R("destroy_pool", frame)),
                         R("create_pool", frame + 1)), R("create_buffer", frame + 1)),
                         R("commit", None))
  <1>1. socket \in Seq(Requests) /\ queue.requests \in Seq(Requests)
    BY DEF DescriptorsInv, TypeOK, Queues
  <1>2. ASSUME NEW bytes, Overflow(bytes)
        PROVE  failure' = "overflow" /\ Path' = Path /\ UNCHANGED <<frame, extents>>
    <2>1. /\ queue' = Advance(queue, bytes) /\ failure' = "overflow"
          /\ UNCHANGED <<frame, extents, socket>>
      BY <1>2 DEF Overflow
    <2>2. queue'.requests = queue.requests
      BY <2>1 DEF Advance, DescriptorsInv, TypeOK, Queues
    <2> QED BY <2>1, <2>2 DEF Path
  <1>4. CASE Fault
    BY <1>4 DEF Fault, Path
  <1>3. CASE Rebuild(extent)
    <2> DEFINE D == DestroyRequests(frame)
               C == CreateRequests(frame + 1)
    <2>1. /\ frame' = frame + 1 /\ extents' = Append(extents, extent) /\ failure' = "none"
          /\ queue' = EmptyQueue /\ socket' = socket \o (queue.requests \o (D \o C))
      BY <1>3, ResizeLemma
    <2>2. frame \in Nat /\ frame + 1 \in Nat
      BY DEF DescriptorsInv, TypeOK
    <2>3. /\ R("destroy_buffer", frame) \in Requests /\ R("destroy_pool", frame) \in Requests
          /\ R("create_pool", frame + 1) \in Requests
          /\ R("create_buffer", frame + 1) \in Requests /\ R("commit", None) \in Requests
      BY <2>2 DEF R, Requests, None
    <2>4. D \in Seq(Requests) /\ C \in Seq(Requests) /\ D \o C \in Seq(Requests)
      BY <2>2, LiteralLemma, ConcatLemma
    <2>5. /\ Path \in Seq(Requests) /\ Path \o D \in Seq(Requests)
      BY <2>4, PathType, ConcatLemma DEF DescriptorsInv
    <2>6. Path' = (Path \o D) \o C
      <3> HIDE DEF D, C
      <3>1. Path' = socket \o (queue.requests \o (D \o C))
        <4>1. socket \o (queue.requests \o (D \o C)) \in Seq(Requests)
          BY <1>1, <2>4, ConcatLemma
        <4>2. queue'.requests = <<>>
          BY <2>1 DEF EmptyQueue
        <4> QED BY <2>1, <4>1, <4>2 DEF Path
      <3>2. socket \o (queue.requests \o (D \o C)) = Path \o (D \o C)
        BY <2>4, PathAssoc DEF DescriptorsInv
      <3>3. Path \o (D \o C) = (Path \o D) \o C
        BY <2>4, <2>5, ConcatAssoc
      <3> QED BY <3>1, <3>2, <3>3
    <2>7. Path \o D = Append(Append(Path, R("destroy_buffer", frame)), R("destroy_pool", frame))
      BY <2>3, <2>5, ConcatAppends DEF DestroyRequests
    <2>8. (Path \o D) \o C = Append(Append(Append(Path \o D, R("create_pool", frame + 1)),
                                    R("create_buffer", frame + 1)), R("commit", None))
      BY <2>3, <2>5, ConcatAppends DEF CreateRequests
    <2> QED BY <2>1, <2>6, <2>7, <2>8
  <1> QED BY <1>2, <1>3, <1>4, ResizeCases

-----------------------------------------------------------------------------
(* The lives of the Framebuffers, step by step. *)

LEMMA LivesKeep ==
  ASSUME LivesInv, UNCHANGED <<frame, extents, pools, buffers>>,
         \A turn \in 0 .. (4 * frame - 2) :
           LivesInOrder(Path, turn, 4 * frame - 2) => LivesInOrder(Path', turn, 4 * frame - 2)
  PROVE  LivesInv'
  <1>1. PICK turn \in 0 .. (4 * frame - 2) :
          LivesInOrder(Path, turn, 4 * frame - 2) /\ Alive(turn)
    BY DEF LivesInv
  <1>2. Alive(turn)'
    BY <1>1 DEF Alive
  <1>3. LivesInOrder(Path', turn, 4 * frame' - 2) /\ turn \in 0 .. (4 * frame' - 2)
    BY <1>1
  <1>4. Len(extents') = frame' /\ \A n \in 1 .. frame' : Sized(extents'[n])
    BY DEF LivesInv
  <1> QED BY <1>2, <1>3, <1>4 DEF LivesInv

\* The request the compositor takes is the one whose turn it is.
LEMMA ServedTurn ==
  ASSUME DescriptorsInv, LivesInv, NEW ops, Takes(ops)
  PROVE  \E turn \in 0 .. (4 * frame - 2) :
           /\ Alive(turn)
           /\ Head(socket).op \in MoveOps =>
                /\ Turn(Head(socket)) = turn /\ turn + 1 \in 0 .. (4 * frame - 2)
                /\ LivesInOrder(Path', turn + 1, 4 * frame - 2)
           /\ Head(socket).op = "attach" => Turn(Head(socket)) = turn
           /\ Head(socket).op \notin MoveOps => LivesInOrder(Path', turn, 4 * frame - 2)
  <1> DEFINE last == 4 * frame - 2
  <1>1. /\ Path # <<>> /\ Path \in Seq(Requests) /\ Path[1] = Head(socket) /\ Path' = Tail(Path)
    BY PathType, TakesPath DEF DescriptorsInv
  <1>2. last \in Nat
    BY DEF DescriptorsInv, TypeOK
  <1>3. PICK turn \in 0 .. last : LivesInOrder(Path, turn, last) /\ Alive(turn)
    BY DEF LivesInv
  <1> HIDE DEF last
  <1>4. turn \in Nat /\ turn <= last
    BY <1>2, <1>3
  <1>5. /\ Path[1].op \in MoveOps => turn < last /\ Turn(Path[1]) = turn
        /\ Path[1].op = "attach" => Turn(Path[1]) = turn
    BY <1>1, <1>2, <1>3, <1>4, LivesHead
  <1>6. LivesInOrder(Tail(Path), IF Path[1].op \in MoveOps THEN turn + 1 ELSE turn, last)
    BY <1>1, <1>2, <1>3, <1>4, LivesTail
  <1>7. Path[1].op \in MoveOps => turn + 1 \in 0 .. last
    BY <1>2, <1>4, <1>5
  <1>8. CASE Path[1].op \in MoveOps
    BY <1>1, <1>3, <1>5, <1>6, <1>7, <1>8 DEF last, MoveOps
  <1>9. CASE Path[1].op \notin MoveOps
    BY <1>1, <1>3, <1>5, <1>6, <1>9 DEF last
  <1> QED BY <1>8, <1>9

\* It creates or destroys an object...
LEMMA LivesServed ==
  ASSUME DescriptorsInv, LivesInv, NEW ops, Takes(ops), NEW turn \in 0 .. (4 * frame - 2),
         LivesInOrder(Path', turn, 4 * frame - 2), Alive(turn)'
  PROVE  LivesInv'
  <1>1. frame' = frame /\ extents' = extents
    BY DEF Takes, client
  <1>2. Len(extents') = frame' /\ \A n \in 1 .. frame' : Sized(extents'[n])
    BY <1>1 DEF LivesInv
  <1>3. LivesInOrder(Path', turn, 4 * frame' - 2) /\ turn \in 0 .. (4 * frame' - 2)
    BY <1>1
  <1> QED BY <1>2, <1>3 DEF LivesInv

\* ... or not.
LEMMA LivesPassed ==
  ASSUME DescriptorsInv, LivesInv, NEW ops, Takes(ops), UNCHANGED <<pools, buffers>>,
         ops \cap MoveOps = {}
  PROVE  LivesInv'
  <1>1. Head(socket).op \notin MoveOps
    BY DEF Takes
  <1>2. PICK turn \in 0 .. (4 * frame - 2) :
          Alive(turn) /\ LivesInOrder(Path', turn, 4 * frame - 2)
    BY <1>1, ServedTurn
  <1>3. frame' = frame
    BY DEF Takes, client
  <1>4. Alive(turn)'
    BY <1>2, <1>3 DEF Alive
  <1> QED BY <1>2, <1>4, LivesServed

LEMMA PoolLives ==
  ASSUME DescriptorsInv, LivesInv, ProtocolObeyed, ServePool
  PROVE  LivesInv' /\ ProtocolObeyed'
  <1> DEFINE r == Head(socket)
             p == r.n
             ops == {"create_pool", "destroy_pool"}
  <1>1. Takes(ops) /\ buffers' = buffers
    BY DEF ServePool
  <1>2. r \in Requests /\ r.op \in ops /\ p \in Nat
    <2>1. socket # <<>> /\ socket \in Seq(Requests) /\ r.op \in ops
      BY <1>1 DEF Takes, DescriptorsInv, TypeOK
    <2>2. r \in Requests
      BY <2>1, TailLemma
    <2> QED BY <2>1, <2>2 DEF Requests
  <1>3. frame' = frame /\ frame \in Nat \ {0}
    BY <1>1 DEF Takes, client, DescriptorsInv, TypeOK
  <1>4. PICK t \in 0 .. (4 * frame - 2) :
          /\ Alive(t) /\ Turn(r) = t /\ t + 1 \in 0 .. (4 * frame - 2)
          /\ LivesInOrder(Path', t + 1, 4 * frame - 2)
    BY <1>1, <1>2, ServedTurn DEF MoveOps
  <1> HIDE DEF p, r
  <1>5. CASE r.op = "create_pool"
    <2>1. t = 4 * p - 4
      BY <1>2, <1>4, <1>5, TurnType DEF MoveOps, p
    <2>2. rights # <<>>
      <3> DEFINE served == frame - Len(queue.fds) - Len(rights)
      <3>1. served \in Nat /\ InOrder(socket, rights, served)
        BY DEF DescriptorsInv, RightsInv
      <3>2. socket \in Seq(Requests) /\ rights \in Seq(Nat) /\ socket # <<>>
        BY <1>1 DEF DescriptorsInv, TypeOK, Takes
      <3> HIDE DEF served
      <3> QED BY <1>5, <3>1, <3>2, InOrderTailOne DEF r
    <2>3. DOMAIN pools' = DOMAIN pools \cup {p} /\ protocol_error' = "none"
      BY <1>5, <2>2 DEF ServePool, Rule, p, r
    <2>4. Alive(t + 1)'
      <3>1. p \in 1 .. frame
        BY <1>2, <1>3, <1>4, <2>1
      <3>2. DOMAIN pools' = {q \in 1 .. frame : 4 * q - 4 < t + 1 /\ t + 1 <= 4 * q - 1}
        BY <1>2, <1>4, <2>1, <2>3, <3>1 DEF Alive
      <3>3. buffers' = {b \in 1 .. frame : 4 * b - 3 < t + 1 /\ t + 1 <= 4 * b - 2}
        BY <1>1, <1>2, <1>4, <2>1, <3>1 DEF Alive
      <3> QED BY <1>3, <3>2, <3>3 DEF Alive
    <2> QED BY <1>1, <1>4, <2>3, <2>4, LivesServed DEF ProtocolObeyed
  <1>6. CASE r.op = "destroy_pool"
    <2>1. t = 4 * p - 1
      BY <1>2, <1>4, <1>6, TurnType DEF MoveOps, p
    <2>2. p \in 1 .. frame
      BY <1>2, <1>3, <1>4, <2>1
    <2>3. p \in DOMAIN pools
      BY <1>2, <1>4, <2>1, <2>2 DEF Alive
    <2>4. DOMAIN pools' = DOMAIN pools \ {p} /\ protocol_error' = "none"
      BY <1>6, <2>3 DEF ServePool, Rule, p, r
    <2>5. Alive(t + 1)'
      <3>1. DOMAIN pools' = {q \in 1 .. frame : 4 * q - 4 < t + 1 /\ t + 1 <= 4 * q - 1}
        BY <1>2, <1>4, <2>1, <2>2, <2>4 DEF Alive
      <3>2. buffers' = {b \in 1 .. frame : 4 * b - 3 < t + 1 /\ t + 1 <= 4 * b - 2}
        BY <1>1, <1>2, <1>4, <2>1, <2>2 DEF Alive
      <3> QED BY <1>3, <3>1, <3>2 DEF Alive
    <2> QED BY <1>1, <1>4, <2>4, <2>5, LivesServed DEF ProtocolObeyed
  <1> QED BY <1>2, <1>5, <1>6

LEMMA BufferLives ==
  ASSUME DescriptorsInv, LivesInv, ProtocolObeyed, ServeBuffer
  PROVE  LivesInv' /\ ProtocolObeyed'
  <1> DEFINE r == Head(socket)
             b == r.n
             ops == {"create_buffer", "destroy_buffer"}
  <1>1. Takes(ops) /\ pools' = pools
    BY DEF ServeBuffer
  <1>2. r \in Requests /\ r.op \in ops /\ b \in Nat
    <2>1. socket # <<>> /\ socket \in Seq(Requests) /\ r.op \in ops
      BY <1>1 DEF Takes, DescriptorsInv, TypeOK
    <2>2. r \in Requests
      BY <2>1, TailLemma
    <2> QED BY <2>1, <2>2 DEF Requests
  <1>3. frame' = frame /\ frame \in Nat \ {0}
    BY <1>1 DEF Takes, client, DescriptorsInv, TypeOK
  <1>4. PICK t \in 0 .. (4 * frame - 2) :
          /\ Alive(t) /\ Turn(r) = t /\ t + 1 \in 0 .. (4 * frame - 2)
          /\ LivesInOrder(Path', t + 1, 4 * frame - 2)
    BY <1>1, <1>2, ServedTurn DEF MoveOps
  <1> HIDE DEF b, r
  <1>5. CASE r.op = "create_buffer"
    <2>1. t = 4 * b - 3
      BY <1>2, <1>4, <1>5, TurnType DEF MoveOps, b
    <2>2. b \in 1 .. frame
      BY <1>2, <1>3, <1>4, <2>1
    <2>3. b \in DOMAIN pools
      BY <1>2, <1>4, <2>1, <2>2 DEF Alive
    <2>4. BufferFits(extents[b]) \/ ~Drawable(extents[b])
      <3>1. extents[b] \in Extents /\ Sized(extents[b])
        BY <2>2 DEF DescriptorsInv, TypeOK, LivesInv
      <3>2. extents[b] \in [w : Nat, h : Nat]
        BY <3>1, WindowAssumption, FramebufferAssumption
      <3> QED BY <3>1, <3>2, FitsLemma
    <2>5. /\ buffers' = buffers \cup {b}
          /\ protocol_error' = IF BufferFits(extents[b]) THEN "none" ELSE "size"
      BY <1>5, <2>3 DEF ServeBuffer, Rule, b, r
    <2>7. ProtocolObeyed'
      <3>1. extents' = extents /\ b \in DOMAIN extents
        BY <1>1, <1>3, <2>2 DEF Takes, client, LivesInv, DescriptorsInv, TypeOK
      <3> QED BY <2>4, <2>5, <3>1 DEF ProtocolObeyed
    <2>6. Alive(t + 1)'
      <3>1. DOMAIN pools' = {q \in 1 .. frame : 4 * q - 4 < t + 1 /\ t + 1 <= 4 * q - 1}
        BY <1>1, <1>2, <1>4, <2>1, <2>2 DEF Alive
      <3>2. buffers' = {c \in 1 .. frame : 4 * c - 3 < t + 1 /\ t + 1 <= 4 * c - 2}
        BY <1>2, <1>4, <2>1, <2>2, <2>5 DEF Alive
      <3> QED BY <1>3, <3>1, <3>2 DEF Alive
    <2> QED BY <1>1, <1>4, <2>6, <2>7, LivesServed
  <1>6. CASE r.op = "destroy_buffer"
    <2>1. t = 4 * b - 2
      BY <1>2, <1>4, <1>6, TurnType DEF MoveOps, b
    <2>2. b \in 1 .. frame
      BY <1>2, <1>3, <1>4, <2>1
    <2>3. b \in buffers
      BY <1>2, <1>4, <2>1, <2>2 DEF Alive
    <2>4. buffers' = buffers \ {b} /\ protocol_error' = "none"
      BY <1>6, <2>3 DEF ServeBuffer, Rule, b, r
    <2>5. Alive(t + 1)'
      <3>1. DOMAIN pools' = {q \in 1 .. frame : 4 * q - 4 < t + 1 /\ t + 1 <= 4 * q - 1}
        BY <1>1, <1>2, <1>4, <2>1, <2>2 DEF Alive
      <3>2. buffers' = {c \in 1 .. frame : 4 * c - 3 < t + 1 /\ t + 1 <= 4 * c - 2}
        BY <1>2, <1>4, <2>1, <2>2, <2>4 DEF Alive
      <3> QED BY <1>3, <3>1, <3>2 DEF Alive
    <2> QED BY <1>1, <1>4, <2>4, <2>5, LivesServed DEF ProtocolObeyed
  <1> QED BY <1>2, <1>5, <1>6

LEMMA AttachLives ==
  ASSUME DescriptorsInv, LivesInv, ProtocolObeyed, ServeAttach
  PROVE  LivesInv' /\ ProtocolObeyed'
  <1> DEFINE r == Head(socket)
             b == r.n
  <1>1. Takes({"attach"}) /\ UNCHANGED <<pools, buffers>>
    BY DEF ServeAttach
  <1>2. r \in Requests /\ r.op = "attach" /\ b \in Nat
    <2>1. socket # <<>> /\ socket \in Seq(Requests) /\ r.op = "attach"
      BY <1>1 DEF Takes, DescriptorsInv, TypeOK
    <2>2. r \in Requests
      BY <2>1, TailLemma
    <2> QED BY <2>1, <2>2 DEF Requests
  <1>3. PICK t \in 0 .. (4 * frame - 2) : Alive(t) /\ Turn(r) = t
    BY <1>1, <1>2, ServedTurn
  <1>4. frame \in Nat \ {0}
    BY DEF DescriptorsInv, TypeOK
  <1> HIDE DEF r, b
  <1>5. t = 4 * b - 2
    BY <1>2, <1>3, TurnType DEF b
  <1>6. b \in 1 .. frame
    BY <1>2, <1>3, <1>4, <1>5
  <1>7. b \in buffers
    BY <1>2, <1>3, <1>5, <1>6 DEF Alive
  <1>8. protocol_error' = "none"
    BY <1>7 DEF ServeAttach, Rule, b, r
  <1>9. LivesInv'
    BY <1>1, LivesPassed DEF MoveOps
  <1> QED BY <1>8, <1>9 DEF ProtocolObeyed

\* Resize ends one life and begins the next.
LEMMA ResizeLives ==
  ASSUME DescriptorsInv, LivesInv, NEW extent \in Extents, Sized(extent),
         Handles("toplevel_configure"), Resize(extent)
  PROVE  LivesInv'
  <1>1. UNCHANGED <<pools, buffers>>
    BY DEF Handles, compositor
  <1>2. CASE Path' = Path /\ UNCHANGED <<frame, extents>>
    BY <1>1, <1>2, LivesKeep
  <1>3. CASE /\ frame' = frame + 1 /\ extents' = Append(extents, extent)
             /\ Path' = Append(Append(Append(Append(Append(Path,
                          R("destroy_buffer", frame)), R("destroy_pool", frame)),
                          R("create_pool", frame + 1)), R("create_buffer", frame + 1)),
                          R("commit", None))
    <2> DEFINE r1 == R("destroy_buffer", frame)
               r2 == R("destroy_pool", frame)
               r3 == R("create_pool", frame + 1)
               r4 == R("create_buffer", frame + 1)
               r5 == R("commit", None)
               l == 4 * frame - 2
    <2>1. frame \in Nat \ {0} /\ Path \in Seq(Requests) /\ extents \in Seq(Extents)
      BY PathType DEF DescriptorsInv, TypeOK
    <2>2. /\ r1 \in Requests /\ r1.op \in MoveOps /\ Turn(r1) = l
          /\ r2 \in Requests /\ r2.op \in MoveOps /\ Turn(r2) = l + 1
          /\ r3 \in Requests /\ r3.op \in MoveOps /\ Turn(r3) = l + 2
          /\ r4 \in Requests /\ r4.op \in MoveOps /\ Turn(r4) = l + 3
          /\ r5 \in Requests /\ r5.op \notin MoveOps /\ r5.op # "attach"
      BY <2>1 DEF R, Requests, MoveOps, None, Turn
    <2>3. PICK t \in 0 .. l : LivesInOrder(Path, t, l) /\ Alive(t)
      BY DEF LivesInv
    <2>4. l \in Nat /\ t \in Nat /\ t <= l /\ l + 4 = 4 * (frame + 1) - 2
      BY <2>1, <2>3
    <2> DEFINE p1 == Append(Path, r1)
               p2 == Append(p1, r2)
               p3 == Append(p2, r3)
               p4 == Append(p3, r4)
               p5 == Append(p4, r5)
    <2>5. Path' = p5
      BY <1>3
    <2> HIDE DEF r1, r2, r3, r4, r5, l
    <2>6. p1 \in Seq(Requests) /\ LivesInOrder(p1, t, l + 1)
      BY <2>1, <2>2, <2>3, <2>4, LivesMove
    <2> HIDE DEF p1
    <2>7. p2 \in Seq(Requests) /\ LivesInOrder(p2, t, (l + 1) + 1)
      <3>1. l + 1 \in Nat /\ t <= l + 1
        BY <2>4
      <3> QED BY <2>2, <2>4, <2>6, <3>1, LivesMove
    <2> HIDE DEF p2
    <2>8. p3 \in Seq(Requests) /\ LivesInOrder(p3, t, (l + 2) + 1)
      <3>1. l + 2 \in Nat /\ t <= l + 2 /\ (l + 1) + 1 = l + 2
        BY <2>4
      <3> QED BY <2>2, <2>4, <2>7, <3>1, LivesMove
    <2> HIDE DEF p3
    <2>9. p4 \in Seq(Requests) /\ LivesInOrder(p4, t, (l + 3) + 1)
      <3>1. l + 3 \in Nat /\ t <= l + 3 /\ (l + 2) + 1 = l + 3
        BY <2>4
      <3> QED BY <2>2, <2>4, <2>8, <3>1, LivesMove
    <2> HIDE DEF p4
    <2>10. LivesInOrder(p5, t, l + 4)
      <3>1. l + 4 \in Nat /\ (l + 3) + 1 = l + 4
        BY <2>4
      <3> QED BY <2>2, <2>4, <2>9, <3>1, LivesSkip
    <2>11. Alive(t)'
      <3>1. DOMAIN pools' = {q \in 1 .. (frame + 1) : 4 * q - 4 < t /\ t <= 4 * q - 1}
        BY <1>1, <2>1, <2>3, <2>4 DEF Alive, l
      <3>2. buffers' = {c \in 1 .. (frame + 1) : 4 * c - 3 < t /\ t <= 4 * c - 2}
        BY <1>1, <2>1, <2>3, <2>4 DEF Alive, l
      <3> QED BY <1>3, <3>1, <3>2 DEF Alive
    <2>12. Len(extents') = frame' /\ \A n \in 1 .. frame' : Sized(extents'[n])
      <3>1. Len(extents) = frame /\ \A n \in 1 .. frame : Sized(extents[n])
        BY DEF LivesInv
      <3>2. /\ Len(extents') = Len(extents) + 1 /\ extents'[Len(extents) + 1] = extent
            /\ \A n \in 1 .. Len(extents) : extents'[n] = extents[n]
        BY <1>3, <2>1
      <3>3. \A n \in 1 .. (frame + 1) : n \in 1 .. frame \/ n = frame + 1
        BY <2>1
      <3> QED BY <1>3, <3>1, <3>2, <3>3
    <2>13. t \in 0 .. (4 * frame' - 2) /\ LivesInOrder(Path', t, 4 * frame' - 2)
      <3>1. 4 * frame' - 2 = l + 4 /\ t \in 0 .. (l + 4)
        BY <1>3, <2>4
      <3> QED BY <2>5, <2>10, <3>1
    <2> QED BY <2>11, <2>12, <2>13 DEF LivesInv
  <1> QED BY <1>2, <1>3, ResizePath

-----------------------------------------------------------------------------
(* Serials and sizes, step by step. *)

LEMMA SerialsQuiet ==
  ASSUME SerialsInv, Path' = Path, Coming' = Coming,
         UNCHANGED <<frame, extents, configured, acked, failure>>,
         pc' # "handle" => batch' = <<>>
  PROVE  SerialsInv'
  <1>1. PICK heard \in acked .. Len(configured) :
          /\ SerialsInOrder(Coming, heard, Len(configured))
          /\ AcksInOrder(Path, acked, heard)
          /\ failure = "none" =>
               extents[frame] = LatestSize(configured, SizedFor(Coming, heard))
    BY DEF SerialsInv, Wanted
  <1>2. InPairs(Coming', configured')
    BY DEF SerialsInv
  <1> QED BY <1>1, <1>2 DEF SerialsInv, Wanted

\* What the client learns from the event it handles.
LEMMA HeardLemma ==
  ASSUME DescriptorsInv, SerialsInv, NEW ev, Handles(ev)
  PROVE  \E heard \in acked .. Len(configured) :
           LET rest == Tail(Coming)
               last == Len(configured)
           IN /\ heard \in Nat /\ AcksInOrder(Path, acked, heard) /\ InPairs(rest, configured)
              /\ ev = "configure" =>
                   /\ Coming[1].n = heard + 1 /\ heard + 1 \in acked .. last
                   /\ SerialsInOrder(rest, heard + 1, last)
                   /\ extents[frame] = LatestSize(configured, heard + 1)
                   /\ SizedFor(rest, heard + 1) = heard + 1
              /\ ev # "configure" =>
                   /\ SerialsInOrder(rest, heard, last)
                   /\ extents[frame] = LatestSize(configured, heard)
              /\ ev = "toplevel_configure" =>
                   /\ Coming[1].extent = configured[heard + 1]
                   /\ SizedFor(rest, heard) = heard + 1
              /\ ev \notin {"toplevel_configure", "configure"} => SizedFor(rest, heard) = heard
  <1> DEFINE rest == Tail(Coming)
             last == Len(configured)
  <1>1. /\ Coming # <<>> /\ Coming \in Seq(Events) /\ Coming[1].ev = ev
        /\ last \in Nat /\ acked \in Nat /\ failure = "none"
    BY Types, HandlesPath DEF DescriptorsInv, Handles
  <1>2. PICK heard \in acked .. last :
          /\ SerialsInOrder(Coming, heard, last)
          /\ AcksInOrder(Path, acked, heard)
          /\ extents[frame] = LatestSize(configured, SizedFor(Coming, heard))
    BY <1>1 DEF SerialsInv, Wanted
  <1>3. heard \in Nat /\ InPairs(Coming, configured)
    BY <1>1 DEF SerialsInv
  <1>4. /\ rest \in Seq(Events) /\ InPairs(rest, configured)
        /\ ev = "toplevel_configure" =>
             /\ rest # <<>> /\ rest[1].ev = "configure"
             /\ Coming[1].extent = configured[rest[1].n]
        /\ ev # "toplevel_configure" => rest = <<>> \/ rest[1].ev # "configure"
    BY <1>1, <1>3, PairsTail, EventsTail
  <1>5. SerialsInOrder(rest, IF ev = "configure" THEN heard + 1 ELSE heard, last)
    BY <1>1, <1>2, <1>3, SerialsTail
  <1> HIDE DEF rest, last
  <1>6. ev = "configure" => Coming[1].n = heard + 1 /\ heard + 1 \in acked .. last
    <2>1. ev = "configure" => Coming[1].n = heard + 1 /\ heard < last
      BY <1>1, <1>2, <1>3, SerialsHead
    <2> QED BY <1>1, <1>2, <2>1
  <1>7. ev = "toplevel_configure" => Coming[1].extent = configured[heard + 1]
    <2> HAVE ev = "toplevel_configure"
    <2>1. SerialsInOrder(rest, heard, last) /\ rest # <<>> /\ rest[1].ev = "configure"
      BY <1>4, <1>5
    <2>2. rest[1].n = heard + 1
      BY <1>1, <1>3, <1>4, <2>1, SerialsHead
    <2> QED BY <1>4, <2>2
  <1>8. SizedFor(Coming, heard) = IF ev = "configure" THEN heard + 1 ELSE heard
    BY <1>1 DEF SizedFor
  <1>9. /\ ev = "configure" => SizedFor(rest, heard + 1) = heard + 1
        /\ ev = "toplevel_configure" => SizedFor(rest, heard) = heard + 1
        /\ ev \notin {"toplevel_configure", "configure"} => SizedFor(rest, heard) = heard
    BY <1>4 DEF SizedFor
  <1> QED BY <1>2, <1>3, <1>4, <1>5, <1>6, <1>7, <1>8, <1>9 DEF rest, last

LEMMA SerialsHandled ==
  ASSUME DescriptorsInv, NEW ev, Handles(ev), NEW heard \in acked .. Len(configured),
         InPairs(Tail(Coming), configured),
         SerialsInOrder(Tail(Coming), heard, Len(configured)),
         AcksInOrder(Path', acked, heard),
         failure' = "none" =>
           extents'[frame'] = LatestSize(configured, SizedFor(Tail(Coming), heard))
  PROVE  SerialsInv'
  <1>1. Coming' = Tail(Coming)
    BY HandlesPath DEF DescriptorsInv
  <1>2. pc' = "handle" /\ configured' = configured /\ acked' = acked
    BY DEF Handles, compositor, surface
  <1> QED BY <1>1, <1>2 DEF SerialsInv, Wanted

\* An event with no effect on the Framebuffer.
LEMMA PassiveSerials ==
  ASSUME DescriptorsInv, SerialsInv, NEW ev, Handles(ev),
         ev \notin {"toplevel_configure", "configure"}, UNCHANGED <<frame, extents>>,
         \A heard \in Nat : AcksInOrder(Path, acked, heard) => AcksInOrder(Path', acked, heard)
  PROVE  SerialsInv'
  <1>1. PICK heard \in acked .. Len(configured) :
          /\ heard \in Nat /\ AcksInOrder(Path, acked, heard) /\ InPairs(Tail(Coming), configured)
          /\ SerialsInOrder(Tail(Coming), heard, Len(configured))
          /\ extents[frame] = LatestSize(configured, heard)
          /\ SizedFor(Tail(Coming), heard) = heard
    BY HeardLemma
  <1> QED BY <1>1, SerialsHandled

LEMMA UnsizedSerials ==
  ASSUME DescriptorsInv, SerialsInv, Handles("toplevel_configure"),
         ~Sized(Head(batch).extent), UNCHANGED <<frame, extents>>, Path' = Path
  PROVE  SerialsInv'
  <1>1. PICK heard \in acked .. Len(configured) :
          /\ heard \in Nat /\ AcksInOrder(Path, acked, heard) /\ InPairs(Tail(Coming), configured)
          /\ SerialsInOrder(Tail(Coming), heard, Len(configured))
          /\ extents[frame] = LatestSize(configured, heard)
          /\ Coming[1].extent = configured[heard + 1]
          /\ SizedFor(Tail(Coming), heard) = heard + 1
    BY HeardLemma
  <1>2. LatestSize(configured, heard + 1) = LatestSize(configured, heard)
    <2>1. ~Sized(configured[heard + 1])
      BY <1>1, HandlesPath DEF DescriptorsInv
    <2> QED BY <1>1, <2>1, LatestStep
  <1> QED BY <1>1, <1>2, SerialsHandled

LEMMA ResizeSerials ==
  ASSUME DescriptorsInv, LivesInv, SerialsInv, NEW extent \in Extents,
         Handles("toplevel_configure"), extent = Head(batch).extent, Sized(extent),
         Resize(extent)
  PROVE  SerialsInv'
  <1>1. PICK heard \in acked .. Len(configured) :
          /\ heard \in Nat /\ AcksInOrder(Path, acked, heard) /\ InPairs(Tail(Coming), configured)
          /\ SerialsInOrder(Tail(Coming), heard, Len(configured))
          /\ Coming[1].extent = configured[heard + 1]
          /\ SizedFor(Tail(Coming), heard) = heard + 1
    BY HeardLemma
  <1>2. CASE failure' \in {"overflow", "fault"} /\ Path' = Path
    BY <1>1, <1>2, SerialsHandled
  <1>3. CASE /\ frame' = frame + 1 /\ extents' = Append(extents, extent)
             /\ Path' = Append(Append(Append(Append(Append(Path,
                          R("destroy_buffer", frame)), R("destroy_pool", frame)),
                          R("create_pool", frame + 1)), R("create_buffer", frame + 1)),
                          R("commit", None))
    <2> DEFINE r1 == R("destroy_buffer", frame)
               r2 == R("destroy_pool", frame)
               r3 == R("create_pool", frame + 1)
               r4 == R("create_buffer", frame + 1)
               r5 == R("commit", None)
               p1 == Append(Path, r1)
               p2 == Append(p1, r2)
               p3 == Append(p2, r3)
               p4 == Append(p3, r4)
    <2>1. /\ frame \in Nat \ {0} /\ Path \in Seq(Requests) /\ extents \in Seq(Extents)
          /\ Len(extents) = frame
      BY PathType DEF DescriptorsInv, TypeOK, LivesInv
    <2>2. /\ r1 \in Requests /\ r1.op # "ack" /\ r2 \in Requests /\ r2.op # "ack"
          /\ r3 \in Requests /\ r3.op # "ack" /\ r4 \in Requests /\ r4.op # "ack"
          /\ r5 \in Requests /\ r5.op # "ack"
      BY <2>1 DEF R, Requests, None
    <2>3. Path' = Append(p4, r5)
      BY <1>3
    <2> HIDE DEF r1, r2, r3, r4, r5
    <2>4. p1 \in Seq(Requests) /\ AcksInOrder(p1, acked, heard)
      BY <1>1, <2>1, <2>2, AcksSkip
    <2> HIDE DEF p1
    <2>5. p2 \in Seq(Requests) /\ AcksInOrder(p2, acked, heard)
      BY <2>2, <2>4, AcksSkip
    <2> HIDE DEF p2
    <2>6. p3 \in Seq(Requests) /\ AcksInOrder(p3, acked, heard)
      BY <2>2, <2>5, AcksSkip
    <2> HIDE DEF p3
    <2>7. p4 \in Seq(Requests) /\ AcksInOrder(p4, acked, heard)
      BY <2>2, <2>6, AcksSkip
    <2> HIDE DEF p4
    <2>8. AcksInOrder(Path', acked, heard)
      BY <2>2, <2>3, <2>7, AcksSkip
    <2>9. extents'[frame'] = extent
      BY <1>3, <2>1
    <2>10. LatestSize(configured, heard + 1) = extent
      <3>1. extent = configured[heard + 1]
        BY <1>1, HandlesPath DEF DescriptorsInv
      <3> QED BY <1>1, <3>1, LatestStep
    <2> QED BY <1>1, <2>8, <2>9, <2>10, SerialsHandled
  <1> QED BY <1>2, <1>3, ResizePath

\* The ack follows the event; when it does not fit the page the client ends.
LEMMA ConfiguredSerials ==
  ASSUME DescriptorsInv, SerialsInv, Handles("configure"), UNCHANGED <<frame, extents>>,
         NEW a \in Requests, a = R("ack", Head(batch).n),
         NEW t \in Requests, t.op = "attach", NEW c \in Requests, c.op = "commit",
         Path' = Append(Append(Append(Path, a), t), c) \/ Path' = Path
  PROVE  SerialsInv'
  <1>1. PICK heard \in acked .. Len(configured) :
          /\ heard \in Nat /\ AcksInOrder(Path, acked, heard) /\ InPairs(Tail(Coming), configured)
          /\ Coming[1].n = heard + 1 /\ heard + 1 \in acked .. Len(configured)
          /\ SerialsInOrder(Tail(Coming), heard + 1, Len(configured))
          /\ extents[frame] = LatestSize(configured, heard + 1)
          /\ SizedFor(Tail(Coming), heard + 1) = heard + 1
    BY HeardLemma
  <1>2. Path \in Seq(Requests) /\ acked \in Nat /\ acked <= heard
    BY <1>1, PathType DEF DescriptorsInv, TypeOK
  <1>3. a.op = "ack" /\ a.n = heard + 1
    BY <1>1, HandlesPath DEF DescriptorsInv, R
  <1>4. CASE Path' = Path
    <2>1. AcksInOrder(Path, acked, heard + 1)
      <3>1. \A n \in (acked + 1) .. heard : n \in (acked + 1) .. (heard + 1)
        BY <1>1, <1>2
      <3> QED BY <1>1, <3>1 DEF AcksInOrder
    <2> QED BY <1>1, <1>4, <2>1, SerialsHandled
  <1>5. CASE Path' = Append(Append(Append(Path, a), t), c)
    <2> DEFINE p1 == Append(Path, a)
               p2 == Append(p1, t)
    <2>1. p1 \in Seq(Requests) /\ AcksInOrder(p1, acked, heard + 1)
      BY <1>1, <1>2, <1>3, AcksAppend
    <2>2. Path' = Append(p2, c)
      BY <1>5
    <2> HIDE DEF p1
    <2>3. p2 \in Seq(Requests) /\ AcksInOrder(p2, acked, heard + 1)
      BY <2>1, AcksSkip
    <2> HIDE DEF p2
    <2>4. AcksInOrder(Path', acked, heard + 1)
      BY <2>2, <2>3, AcksSkip
    <2> QED BY <1>1, <2>4, SerialsHandled
  <1> QED BY <1>4, <1>5

\* An ack served is one of a configure that was sent.
LEMMA ServedSerials ==
  ASSUME DescriptorsInv, SerialsInv, NEW ops, Takes(ops),
         IF Path[1].op = "ack" THEN acked' = Path[1].n ELSE acked' = acked
  PROVE  /\ SerialsInv'
         /\ Path[1].op = "ack" => Path[1].n \in (acked + 1) .. Len(configured)
  <1>1. /\ Path # <<>> /\ Path \in Seq(Requests) /\ Path' = Tail(Path)
        /\ Coming' = Coming /\ Len(configured) \in Nat /\ acked \in Nat
    BY Types, TakesPath DEF DescriptorsInv
  <1>2. UNCHANGED <<pc, failure, batch, frame, extents, configured>>
    BY DEF Takes, client
  <1>3. PICK heard \in acked .. Len(configured) :
          /\ SerialsInOrder(Coming, heard, Len(configured))
          /\ AcksInOrder(Path, acked, heard)
          /\ failure = "none" =>
               extents[frame] = LatestSize(configured, SizedFor(Coming, heard))
    BY DEF SerialsInv, Wanted
  <1>4. heard \in Nat
    BY <1>1, <1>3
  <1>5. InPairs(Coming, configured) /\ (pc # "handle" => batch = <<>>)
    BY DEF SerialsInv
  <1>6. AcksInOrder(Tail(Path), acked', heard) /\ heard \in acked' .. Len(configured)
    <2>1. CASE Path[1].op = "ack"
      <3>1. Path[1].n \in (acked + 1) .. heard /\ AcksInOrder(Tail(Path), Path[1].n, heard)
        BY <1>1, <1>3, <1>4, <2>1, AcksTail
      <3> QED BY <1>1, <1>3, <2>1, <3>1
    <2>2. CASE Path[1].op # "ack"
      BY <1>1, <1>3, <1>4, <2>2, AcksTail
    <2> QED BY <2>1, <2>2
  <1>7. SerialsInv'
    BY <1>1, <1>2, <1>3, <1>5, <1>6 DEF SerialsInv, Wanted
  <1>8. Path[1].op = "ack" => Path[1].n \in (acked + 1) .. Len(configured)
    <2> HAVE Path[1].op = "ack"
    <2>1. Path[1].n \in (acked + 1) .. heard
      BY <1>1, <1>3, <1>4, AcksTail
    <2> QED BY <1>1, <1>3, <2>1
  <1> QED BY <1>7, <1>8

\* The compositor sends something else...
LEMMA OtherSerials ==
  ASSUME DescriptorsInv, SerialsInv, NEW e \in Events, Emits(<<e>>), UNCHANGED configured,
         e.ev \notin {"toplevel_configure", "configure"}
  PROVE  SerialsInv'
  <1>1. /\ Path' = Path /\ Coming' = Append(Coming, e) /\ Coming \in Seq(Events)
        /\ Len(configured) \in Nat /\ acked \in Nat
    <2>1. <<e>> \in Seq(Events) /\ Coming \in Seq(Events)
      BY PathType DEF DescriptorsInv
    <2>2. Path' = Path /\ Coming' = Coming \o <<e>>
      BY <2>1, EmitsPath DEF DescriptorsInv
    <2>3. Coming \o <<e>> = Append(Coming, e)
      BY <2>1, ConcatAppends
    <2> QED BY <2>1, <2>2, <2>3 DEF DescriptorsInv, TypeOK
  <1>2. UNCHANGED <<pc, failure, batch, frame, extents, configured, acked>>
    BY DEF Emits, client, surface
  <1>3. PICK heard \in acked .. Len(configured) :
          /\ SerialsInOrder(Coming, heard, Len(configured))
          /\ AcksInOrder(Path, acked, heard)
          /\ failure = "none" =>
               extents[frame] = LatestSize(configured, SizedFor(Coming, heard))
    BY DEF SerialsInv, Wanted
  <1>4. heard \in Nat /\ heard <= Len(configured)
    BY <1>1, <1>3
  <1>5. SerialsInOrder(Coming', heard, Len(configured))
    BY <1>1, <1>3, <1>4, SerialsAppend
  <1>6. InPairs(Coming', configured) /\ (pc # "handle" => batch = <<>>)
    BY <1>1, PairsAppend DEF SerialsInv
  <1>7. SizedFor(Coming', heard) = SizedFor(Coming, heard)
    <2>1. /\ Coming = <<>> => Append(Coming, e) # <<>> /\ Append(Coming, e)[1] = e
          /\ Coming # <<>> => /\ Append(Coming, e) # <<>>
                              /\ Append(Coming, e)[1] = Coming[1]
      BY <1>1
    <2> QED BY <1>1, <2>1 DEF SizedFor
  <1> QED BY <1>1, <1>2, <1>3, <1>5, <1>6, <1>7 DEF SerialsInv, Wanted

\* ... or a configure: its size and its serial.
LEMMA NewSerials ==
  ASSUME DescriptorsInv, SerialsInv, NEW extent \in Extents, Configure(extent)
  PROVE  SerialsInv'
  <1> DEFINE e == ToplevelConfigure(extent)
             f == E("configure", Len(configured) + 1)
             last == Len(configured)
  <1>1. /\ configured' = Append(configured, extent) /\ Emits(<<e, f>>)
        /\ Coming \in Seq(Events) /\ configured \in Seq(Extents)
        /\ last \in Nat /\ acked \in Nat
    BY Types DEF Configure
  <1>2. /\ e \in Events /\ e.ev = "toplevel_configure" /\ e.extent = extent
        /\ f \in Events /\ f.ev = "configure" /\ f.n = last + 1
    BY <1>1 DEF E, ToplevelConfigure, Events
  <1>3. /\ Len(configured') = last + 1 /\ configured'[last + 1] = extent
        /\ \A s \in 1 .. last : configured'[s] = configured[s]
    BY <1>1
  <1> HIDE DEF e, f
  <1> DEFINE p1 == Append(Coming, e)
             p2 == Append(p1, f)
  <1>4. Path' = Path /\ Coming' = p2
    <2>1. <<e, f>> \in Seq(Events)
      BY <1>2
    <2>2. Path' = Path /\ Coming' = Coming \o <<e, f>>
      BY <1>1, <2>1, EmitsPath DEF DescriptorsInv
    <2>3. Coming \o <<e, f>> = Append(Append(Coming, e), f)
      BY <1>1, <1>2, ConcatAppends
    <2> QED BY <2>2, <2>3
  <1>5. UNCHANGED <<pc, failure, batch, frame, extents, acked>>
    BY <1>1 DEF Emits, client, surface
  <1>6. PICK heard \in acked .. last :
          /\ SerialsInOrder(Coming, heard, last)
          /\ AcksInOrder(Path, acked, heard)
          /\ failure = "none" =>
               extents[frame] = LatestSize(configured, SizedFor(Coming, heard))
    BY DEF SerialsInv, Wanted
  <1> HIDE DEF last
  <1>7. heard \in Nat /\ heard <= last /\ heard \in acked .. (last + 1)
    BY <1>1, <1>6
  <1>8. SerialsInOrder(p2, heard, last + 1)
    <2>1. p1 \in Seq(Events) /\ SerialsInOrder(p1, heard, last)
      BY <1>1, <1>2, <1>6, <1>7, SerialsAppend
    <2> HIDE DEF p1
    <2> QED BY <1>1, <1>2, <1>7, <2>1, SerialsAppend
  <1>9. InPairs(p2, configured')
    <2>1. \A k \in Serials(Coming) : configured'[Coming[k].n] = configured[Coming[k].n]
      <3> TAKE k \in Serials(Coming)
      <3>1. Coming[k].n \in (heard + 1) .. last
        BY <1>6 DEF SerialsInOrder
      <3>2. Coming[k].n \in 1 .. last
        BY <1>1, <1>7, <3>1
      <3> QED BY <1>3, <3>2
    <2>2. InPairs(Coming, configured)
      BY DEF SerialsInv
    <2>3. e.extent = configured'[f.n]
      BY <1>2, <1>3
    <2> QED BY <1>1, <1>2, <2>1, <2>2, <2>3, PairsAppendPair
  <1>10. SizedFor(p2, heard) = SizedFor(Coming, heard)
    <2>1. /\ Coming = <<>> => p2 # <<>> /\ p2[1] = e
          /\ Coming # <<>> => p2 # <<>> /\ p2[1] = Coming[1]
      BY <1>1, <1>2
    <2> HIDE DEF p2
    <2> QED BY <1>2, <2>1 DEF SizedFor
  <1>11. LatestSize(configured', SizedFor(Coming, heard))
           = LatestSize(configured, SizedFor(Coming, heard))
    <2>1. SizedFor(Coming, heard) \in 0 .. last
      <3>1. CASE Coming # <<>> /\ Coming[1].ev = "configure"
        <4>1. heard < last
          BY <1>1, <1>6, <1>7, <3>1, SerialsHead
        <4> QED BY <1>1, <1>7, <3>1, <4>1 DEF SizedFor
      <3>2. CASE ~(Coming # <<>> /\ Coming[1].ev = "configure")
        BY <1>1, <1>7, <3>2 DEF SizedFor
      <3> QED BY <3>1, <3>2
    <2> DEFINE s == SizedFor(Coming, heard)
    <2> HIDE DEF s
    <2>2. s \in Nat /\ \A t \in 1 .. s : configured'[t] = configured[t]
      <3>1. s \in 0 .. last
        BY <2>1 DEF s
      <3>2. s \in Nat /\ \A t \in 1 .. s : t \in 1 .. last
        BY <1>1, <3>1
      <3> QED BY <1>3, <3>2
    <2>3. LatestSize(configured', s) = LatestSize(configured, s)
      BY <2>2, LatestSame
    <2> QED BY <2>3 DEF s
  <1>12. pc # "handle" => batch = <<>>
    BY DEF SerialsInv
  <1> HIDE DEF p1, p2
  <1> QED BY <1>3, <1>4, <1>5, <1>6, <1>7, <1>8, <1>9, <1>10, <1>11, <1>12 DEF SerialsInv, Wanted

-----------------------------------------------------------------------------
(* Acks, attaches and commits, step by step. *)

\* The requests on their way name Framebuffers that were made, and serials that were sent.
LEMMA NamedLemma ==
  ASSUME DescriptorsInv, LivesInv, SerialsInv
  PROVE  /\ \A k \in Attaches(Path) : Path[k].n \in 1 .. frame
         /\ \A k \in Acks(Path) : Path[k].n \in 0 .. Len(configured)
         /\ acked \in 0 .. Len(configured)
  <1>1. /\ Path \in Seq(Requests) /\ frame \in Nat \ {0}
        /\ acked \in Nat /\ Len(configured) \in Nat
    BY Types
  <1>2. ASSUME NEW k \in Attaches(Path) PROVE Path[k].n \in 1 .. frame
    <2>1. PICK t \in 0 .. (4 * frame - 2) : LivesInOrder(Path, t, 4 * frame - 2)
      BY DEF LivesInv
    <2>2. Turn(Path[k]) \in t .. (4 * frame - 2)
      BY <2>1 DEF LivesInOrder
    <2>3. Path[k] \in Requests /\ Path[k].op = "attach"
      BY <1>1 DEF Attaches, With
    <2>4. Turn(Path[k]) = 4 * Path[k].n - 2
      BY <2>3, TurnType
    <2>5. Path[k].n \in Nat
      BY <2>3 DEF Requests
    <2> QED BY <1>1, <2>1, <2>2, <2>4, <2>5
  <1>3. PICK heard \in acked .. Len(configured) : AcksInOrder(Path, acked, heard)
    BY DEF SerialsInv
  <1>4. ASSUME NEW k \in Acks(Path) PROVE Path[k].n \in 0 .. Len(configured)
    <2>1. Path[k].n \in (acked + 1) .. heard
      BY <1>3 DEF AcksInOrder
    <2> QED BY <1>1, <1>3, <2>1
  <1>5. acked \in 0 .. Len(configured)
    BY <1>1, <1>3
  <1> QED BY <1>2, <1>4, <1>5

\* A longer path begins like the one it continues.
Continues(q, p) ==
  /\ p # <<>> => q # <<>> /\ q[1] = p[1]
  /\ p = <<>> => FirstOp(q) # "attach"

LEMMA ContinuesAppend ==
  ASSUME NEW p \in Seq(Requests), NEW q \in Seq(Requests), NEW r \in Requests, Continues(q, p),
         q = <<>> => r.op # "attach"
  PROVE  Continues(Append(q, r), p)
  <1>1. /\ Append(q, r) # <<>>
        /\ q = <<>> => Append(q, r)[1] = r
        /\ q # <<>> => Append(q, r)[1] = q[1]
    OBVIOUS
  <1>2. CASE q = <<>>
    BY <1>1, <1>2 DEF Continues, FirstOp
  <1>3. CASE q # <<>>
    BY <1>1, <1>3 DEF Continues, FirstOp
  <1> QED BY <1>2, <1>3

\* A request that is part of no group.
LEMMA PlainAppend ==
  ASSUME NEW p \in Seq(Requests), NEW q \in Seq(Requests), NEW r \in Requests,
         r.op \notin {"ack", "attach"}, NEW made, NEW asked,
         Continues(q, p), Grouped(q), SizedAsAcked(q, made, asked)
  PROVE  /\ Append(q, r) \in Seq(Requests) /\ Continues(Append(q, r), p)
         /\ Grouped(Append(q, r)) /\ SizedAsAcked(Append(q, r), made, asked)
  <1>1. Append(q, r) \in Seq(Requests)
    OBVIOUS
  <1> QED BY <1>1, ContinuesAppend, GroupedSkip, SizedAppend

\* A step of the client, or a configure more.
LEMMA CommitsKeep ==
  ASSUME DescriptorsInv, LivesInv, SerialsInv, CommitsInv, UNCHANGED surface,
         Continues(Path', Path), Grouped(Path'), SizedAsAcked(Path', extents', configured'),
         frame' \in Nat, frame <= frame', \A n \in 1 .. frame : extents'[n] = extents[n],
         \A s \in 0 .. Len(configured) : LatestSize(configured', s) = LatestSize(configured, s)
  PROVE  CommitsInv'
  <1>1. /\ attached' = attached /\ shown' = shown /\ acked' = acked /\ applied' = applied
        /\ Path \in Seq(Requests) /\ frame \in Nat \ {0}
        /\ acked \in Nat /\ applied \in Nat /\ Len(configured) \in Nat
    BY Types DEF surface
  <1>2. /\ acked \in 0 .. Len(configured) /\ applied \in 0 .. Len(configured)
        /\ \A k \in Attaches(Path) : Path[k].n \in 1 .. frame
    BY <1>1, NamedLemma DEF CommitsInv
  <1>3. \A n \in 1 .. frame : n \in 1 .. frame'
    BY <1>1
  <1>4. /\ LatestSize(configured', acked) = LatestSize(configured, acked)
        /\ LatestSize(configured', applied) = LatestSize(configured, applied)
    BY <1>2
  <1>5. /\ Path # <<>> => FirstOp(Path') = FirstOp(Path) /\ Path'[1] = Path[1]
        /\ FirstOp(Path') = "attach" => Path # <<>>
    BY DEF Continues, FirstOp
  <1>6. FirstOp(Path) = "attach" => Path[1].n \in 1 .. frame
    <2>1. FirstOp(Path) = "attach" => 1 \in Attaches(Path)
      BY <1>1, TailWith DEF FirstOp, Attaches
    <2> QED BY <1>2, <2>1
  <1>7. FirstOp(Path') = "attach" =>
          acked # None /\ extents'[Path'[1].n] = LatestSize(configured', acked)
    BY <1>4, <1>5, <1>6 DEF CommitsInv, NextOp, Wanted
  <1>8. attached # None =>
          /\ FirstOp(Path') = "commit" /\ acked # None /\ attached \in 1 .. frame'
          /\ extents'[attached] = LatestSize(configured', acked)
    <2> HAVE attached # None
    <2>1. /\ FirstOp(Path) = "commit" /\ acked # None /\ attached \in 1 .. frame
          /\ extents[attached] = LatestSize(configured, acked)
      BY DEF CommitsInv, NextOp, Wanted
    <2>2. Path # <<>>
      BY <2>1 DEF FirstOp
    <2> QED BY <1>3, <1>4, <1>5, <2>1, <2>2
  <1>9. acked # applied => attached # None \/ FirstOp(Path') = "attach"
    <2>1. FirstOp(Path) = "attach" => Path # <<>>
      BY DEF FirstOp
    <2> QED BY <1>5, <2>1 DEF CommitsInv, NextOp
  <1>10. shown # None =>
           shown \in 1 .. frame' /\ extents'[shown] = LatestSize(configured', applied)
    BY <1>3, <1>4 DEF CommitsInv, Wanted
  <1>11. applied <= acked
    BY DEF CommitsInv
  <1> QED BY <1>1, <1>7, <1>8, <1>9, <1>10, <1>11 DEF CommitsInv, NextOp, Wanted

\* A step that writes nothing.
LEMMA CommitsQuiet ==
  ASSUME DescriptorsInv, LivesInv, SerialsInv, CommitsInv, Path' = Path,
         UNCHANGED <<surface, frame, extents, configured>>
  PROVE  CommitsInv'
  <1>1. frame' \in Nat /\ frame <= frame'
    BY Types
  <1>2. Continues(Path, Path)
    BY DEF Continues, FirstOp
  <1>3. Grouped(Path') /\ SizedAsAcked(Path', extents', configured')
    BY DEF CommitsInv
  <1> QED BY <1>1, <1>2, <1>3, CommitsKeep

\* A pong.
LEMMA PongCommits ==
  ASSUME DescriptorsInv, LivesInv, SerialsInv, CommitsInv,
         NEW r \in Requests, r.op \notin {"ack", "attach"}, Path' = Append(Path, r),
         UNCHANGED <<surface, frame, extents, configured>>
  PROVE  CommitsInv'
  <1>1. frame' \in Nat /\ frame <= frame' /\ Path \in Seq(Requests)
    BY Types
  <1>2. Continues(Path, Path) /\ Grouped(Path) /\ SizedAsAcked(Path, extents, configured)
    BY DEF Continues, FirstOp, CommitsInv
  <1>3. Continues(Path', Path) /\ Grouped(Path') /\ SizedAsAcked(Path', extents', configured')
    BY <1>1, <1>2, PlainAppend
  <1> QED BY <1>1, <1>3, CommitsKeep

\* The reply to a configure, whose size the Framebuffer has by then.
LEMMA ConfiguredCommits ==
  ASSUME DescriptorsInv, LivesInv, SerialsInv, CommitsInv, Handles("configure"),
         NEW a \in Requests, a = R("ack", Head(batch).n),
         NEW t \in Requests, t = R("attach", frame),
         NEW c \in Requests, c.op = "commit",
         Path' = Append(Append(Append(Path, a), t), c), UNCHANGED <<frame, extents>>
  PROVE  CommitsInv'
  <1> DEFINE p1 == Append(Path, a)
             p2 == Append(p1, t)
  <1>1. /\ frame' \in Nat /\ frame <= frame' /\ Path \in Seq(Requests)
        /\ a.op = "ack" /\ t.op = "attach" /\ t.n = frame
    BY Types DEF R
  <1>2. Continues(Path, Path) /\ Grouped(Path) /\ SizedAsAcked(Path, extents, configured)
    BY DEF Continues, FirstOp, CommitsInv
  <1>3. /\ p1 \in Seq(Requests) /\ p1 # <<>> /\ p1[Len(p1)] = a
        /\ p2 \in Seq(Requests) /\ p2 # <<>> /\ Path' = Append(p2, c)
    BY <1>1
  <1>4. extents[frame] = LatestSize(configured, a.n)
    <2>1. PICK heard \in acked .. Len(configured) :
            /\ Coming[1].n = heard + 1
            /\ extents[frame] = LatestSize(configured, heard + 1)
      BY HeardLemma
    <2>2. a.n = Coming[1].n
      BY HandlesPath DEF DescriptorsInv, R
    <2> QED BY <2>1, <2>2
  <1>5. Grouped(Path')
    BY <1>1, <1>2, GroupedGroup
  <1>6. Continues(p1, Path) /\ SizedAsAcked(p1, extents, configured)
    BY <1>1, <1>2, ContinuesAppend, SizedAppend
  <1> HIDE DEF p1
  <1>7. Continues(p2, Path) /\ SizedAsAcked(p2, extents, configured)
    BY <1>1, <1>3, <1>4, <1>6, ContinuesAppend, SizedAppend
  <1> HIDE DEF p2
  <1>8. Continues(Path', Path) /\ SizedAsAcked(Path', extents, configured)
    BY <1>1, <1>3, <1>7, ContinuesAppend, SizedAppend
  <1>9. configured' = configured /\ UNCHANGED surface
    BY DEF Handles, compositor
  <1> QED BY <1>1, <1>5, <1>8, <1>9, CommitsKeep

LEMMA ResizeCommits ==
  ASSUME DescriptorsInv, LivesInv, SerialsInv, CommitsInv, NEW extent \in Extents,
         Handles("toplevel_configure"), Resize(extent)
  PROVE  CommitsInv'
  <1>1. configured' = configured /\ UNCHANGED surface
    BY DEF Handles, compositor
  <1>2. CASE Path' = Path /\ UNCHANGED <<frame, extents>>
    BY <1>1, <1>2, CommitsQuiet
  <1>3. CASE /\ frame' = frame + 1 /\ extents' = Append(extents, extent)
             /\ Path' = Append(Append(Append(Append(Append(Path,
                          R("destroy_buffer", frame)), R("destroy_pool", frame)),
                          R("create_pool", frame + 1)), R("create_buffer", frame + 1)),
                          R("commit", None))
    <2> DEFINE r1 == R("destroy_buffer", frame)
               r2 == R("destroy_pool", frame)
               r3 == R("create_pool", frame + 1)
               r4 == R("create_buffer", frame + 1)
               r5 == R("commit", None)
               p1 == Append(Path, r1)
               p2 == Append(p1, r2)
               p3 == Append(p2, r3)
               p4 == Append(p3, r4)
    <2>1. frame \in Nat \ {0} /\ Path \in Seq(Requests) /\ extents \in Seq(Extents)
      BY Types
    <2>2. Len(extents) = frame
      BY DEF LivesInv
    <2>3. frame' \in Nat /\ frame <= frame' /\ \A n \in 1 .. frame : extents'[n] = extents[n]
      BY <1>3, <2>1, <2>2
    <2>4. /\ r1 \in Requests /\ r1.op \notin {"ack", "attach"}
          /\ r2 \in Requests /\ r2.op \notin {"ack", "attach"}
          /\ r3 \in Requests /\ r3.op \notin {"ack", "attach"}
          /\ r4 \in Requests /\ r4.op \notin {"ack", "attach"}
          /\ r5 \in Requests /\ r5.op \notin {"ack", "attach"}
      BY <2>1 DEF R, Requests, None
    <2>5. Path' = Append(p4, r5)
      BY <1>3
    <2> HIDE DEF r1, r2, r3, r4, r5
    <2> DEFINE Good(q) == /\ q \in Seq(Requests) /\ Continues(q, Path) /\ Grouped(q)
                          /\ SizedAsAcked(q, extents', configured)
    <2>6. ASSUME NEW q, Good(q), NEW r \in Requests, r.op \notin {"ack", "attach"}
          PROVE  Good(Append(q, r))
      BY <2>1, <2>6, PlainAppend
    <2>7. Good(Path)
      <3>1. \A k \in Attaches(Path) : extents'[Path[k].n] = extents[Path[k].n]
        BY <2>3, NamedLemma
      <3>2. SizedAsAcked(Path, extents', configured)
        BY <2>1, <3>1, SizedGrow DEF CommitsInv
      <3> QED BY <2>1, <3>2 DEF CommitsInv, Continues, FirstOp
    <2> HIDE DEF Good
    <2>8. Good(p1)
      BY <2>4, <2>6, <2>7
    <2>9. Good(p2)
      BY <2>4, <2>6, <2>8
    <2>10. Good(p3)
      BY <2>4, <2>6, <2>9
    <2>11. Good(p4)
      BY <2>4, <2>6, <2>10
    <2>12. Good(Path')
      BY <2>4, <2>5, <2>6, <2>11
    <2> QED BY <1>1, <2>3, <2>12, CommitsKeep DEF Good
  <1> QED BY <1>2, <1>3, ResizePath

LEMMA NewCommits ==
  ASSUME DescriptorsInv, LivesInv, SerialsInv, CommitsInv, NEW extent \in Extents,
         Configure(extent)
  PROVE  CommitsInv'
  <1> DEFINE e == ToplevelConfigure(extent)
             f == E("configure", Len(configured) + 1)
  <1>1. /\ configured' = Append(configured, extent) /\ Emits(<<e, f>>)
        /\ configured \in Seq(Extents) /\ Len(configured) \in Nat
        /\ frame \in Nat \ {0} /\ Path \in Seq(Requests)
    BY Types DEF Configure
  <1>2. <<e, f>> \in Seq(Events)
    <2>1. e \in Events /\ f \in Events
      BY <1>1 DEF E, ToplevelConfigure, Events
    <2> HIDE DEF e, f
    <2> QED BY <2>1
  <1> HIDE DEF e, f
  <1>3. Path' = Path /\ UNCHANGED <<surface, frame, extents>>
    BY <1>1, <1>2, EmitsPath DEF DescriptorsInv, Emits, client
  <1>4. ASSUME NEW s \in 0 .. Len(configured)
        PROVE  LatestSize(configured', s) = LatestSize(configured, s)
    <2>1. s \in Nat /\ \A t \in 1 .. s : t \in 1 .. Len(configured)
      BY <1>1
    <2>2. \A t \in 1 .. Len(configured) : configured'[t] = configured[t]
      BY <1>1
    <2> QED BY <2>1, <2>2, LatestSame
  <1>5. SizedAsAcked(Path', extents', configured')
    <2>1. \A k \in Acks(Path) :
            LatestSize(configured', Path[k].n) = LatestSize(configured, Path[k].n)
      BY <1>4, NamedLemma
    <2>2. SizedAsAcked(Path, extents, configured')
      BY <1>1, <2>1, SizedGrow DEF CommitsInv
    <2> QED BY <1>3, <2>2
  <1>6. Continues(Path', Path) /\ Grouped(Path')
    BY <1>3 DEF Continues, FirstOp, CommitsInv
  <1>7. frame' \in Nat /\ frame <= frame'
    BY <1>1, <1>3
  <1> QED BY <1>3, <1>4, <1>5, <1>6, <1>7, CommitsKeep

\* The compositor takes a request that is neither ack, attach nor commit...
LEMMA PassedCommits ==
  ASSUME DescriptorsInv, CommitsInv, NEW ops, Takes(ops),
         ops \cap {"ack", "attach", "commit"} = {}, UNCHANGED surface
  PROVE  CommitsInv'
  <1>1. /\ Path # <<>> /\ Path \in Seq(Requests) /\ Path[1].op \in ops /\ Path' = Tail(Path)
    BY Types, TakesPath DEF DescriptorsInv
  <1>2. UNCHANGED <<frame, extents, configured, attached, shown, acked, applied>>
    BY DEF Takes, client, surface
  <1>3. Grouped(Path) /\ SizedAsAcked(Path, extents, configured)
    BY DEF CommitsInv
  <1>4. Grouped(Path') /\ SizedAsAcked(Path', extents, configured) /\ FirstOp(Path') # "attach"
    BY <1>1, <1>3, GroupedTail, SizedTail
  <1>5. FirstOp(Path) = Path[1].op
    BY <1>1 DEF FirstOp
  <1>6. attached = None /\ acked = applied
    BY <1>1, <1>5 DEF CommitsInv, NextOp
  <1> QED BY <1>2, <1>4, <1>6 DEF CommitsInv, NextOp, Wanted

\* ... an ack, which the attach of the right size follows...
LEMMA AckCommits ==
  ASSUME DescriptorsInv, SerialsInv, CommitsInv, ServeAck
  PROVE  CommitsInv'
  <1>1. Takes({"ack"}) /\ UNCHANGED <<attached, shown, applied>> /\ acked' = Head(socket).n
    BY DEF ServeAck
  <1>2. /\ Path # <<>> /\ Path \in Seq(Requests) /\ Path[1].op = "ack" /\ Path' = Tail(Path)
        /\ Path[1] = Head(socket) /\ acked \in Nat /\ applied \in Nat
        /\ Len(configured) \in Nat
    BY <1>1, Types, TakesPath DEF DescriptorsInv
  <1>3. UNCHANGED <<frame, extents, configured>>
    BY <1>1 DEF Takes, client
  <1>4. Path[1].n \in (acked + 1) .. Len(configured)
    BY <1>1, <1>2, ServedSerials
  <1>5. applied <= acked' /\ acked' # None
    <2>1. applied <= acked
      BY DEF CommitsInv
    <2> QED BY <1>1, <1>2, <1>4, <2>1 DEF None
  <1>6. Grouped(Path) /\ SizedAsAcked(Path, extents, configured)
    BY DEF CommitsInv
  <1>7. /\ Grouped(Path') /\ SizedAsAcked(Path', extents, configured)
        /\ FirstOp(Path') = "attach"
        /\ extents[Path'[1].n] = LatestSize(configured, acked')
    BY <1>1, <1>2, <1>6, GroupedTail, SizedTail
  <1>8. attached = None
    BY <1>2 DEF CommitsInv, NextOp, FirstOp
  <1>9. shown # None => shown \in 1 .. frame /\ extents[shown] = LatestSize(configured, applied)
    BY DEF CommitsInv, Wanted
  <1> QED BY <1>1, <1>3, <1>5, <1>7, <1>8, <1>9 DEF CommitsInv, NextOp, Wanted

\* ... that attach, which the commit follows...
LEMMA AttachCommits ==
  ASSUME DescriptorsInv, LivesInv, SerialsInv, CommitsInv, ServeAttach
  PROVE  CommitsInv'
  <1>1. /\ Takes({"attach"}) /\ UNCHANGED <<shown, acked, applied>>
        /\ attached' = Head(socket).n
    BY DEF ServeAttach
  <1>2. /\ Path # <<>> /\ Path \in Seq(Requests) /\ Path[1].op = "attach" /\ Path' = Tail(Path)
        /\ Path[1] = Head(socket)
    BY <1>1, Types, TakesPath DEF DescriptorsInv
  <1>3. UNCHANGED <<frame, extents, configured>>
    BY <1>1 DEF Takes, client
  <1>4. Grouped(Path) /\ SizedAsAcked(Path, extents, configured)
    BY DEF CommitsInv
  <1>5. /\ Grouped(Path') /\ SizedAsAcked(Path', extents, configured)
        /\ FirstOp(Path') = "commit"
    BY <1>2, <1>4, GroupedTail, SizedTail
  <1>6. acked # None /\ extents[Path[1].n] = LatestSize(configured, acked)
    BY <1>2 DEF CommitsInv, NextOp, FirstOp, Wanted
  <1>7. attached' \in 1 .. frame
    <2>1. 1 \in Attaches(Path)
      BY <1>2, TailWith DEF Attaches
    <2> QED BY <1>1, <1>2, <2>1, NamedLemma
  <1>8. attached' # None
    BY <1>7 DEF None
  <1>9. /\ shown # None => shown \in 1 .. frame /\ extents[shown] = LatestSize(configured, applied)
        /\ applied <= acked
    BY DEF CommitsInv, Wanted
  <1> QED BY <1>1, <1>2, <1>3, <1>5, <1>6, <1>7, <1>8, <1>9 DEF CommitsInv, NextOp, Wanted

\* ... and the commit, which shows it.
LEMMA CommitCommits ==
  ASSUME DescriptorsInv, CommitsInv, ServeCommit
  PROVE  CommitsInv'
  <1>1. /\ Takes({"commit"}) /\ acked' = acked /\ applied' = acked /\ attached' = None
        /\ shown' = IF attached # None THEN attached ELSE shown
    BY DEF ServeCommit
  <1>2. /\ Path # <<>> /\ Path \in Seq(Requests) /\ Path[1].op = "commit" /\ Path' = Tail(Path)
        /\ acked \in Nat
    BY <1>1, Types, TakesPath DEF DescriptorsInv
  <1>3. UNCHANGED <<frame, extents, configured>>
    BY <1>1 DEF Takes, client
  <1>4. Grouped(Path) /\ SizedAsAcked(Path, extents, configured)
    BY DEF CommitsInv
  <1>5. /\ Grouped(Path') /\ SizedAsAcked(Path', extents, configured)
        /\ FirstOp(Path') # "attach"
    BY <1>2, <1>4, GroupedTail, SizedTail
  <1>6. attached = None => acked = applied
    BY <1>2 DEF CommitsInv, NextOp, FirstOp
  <1>7. shown' # None =>
          shown' \in 1 .. frame /\ extents[shown'] = LatestSize(configured, acked)
    BY <1>1, <1>6 DEF CommitsInv, Wanted
  <1>8. acked <= acked
    BY <1>2
  <1> QED BY <1>1, <1>3, <1>5, <1>7, <1>8 DEF CommitsInv, NextOp, Wanted

-----------------------------------------------------------------------------
(* The inductive invariant. *)

\* What this module adds to DescriptorsInv.
OrderInv == LivesInv /\ SerialsInv /\ CommitsInv

LEMMA ClientOrder ==
  ASSUME DescriptorsInv, OrderInv, Client
  PROVE  OrderInv'
  <1> USE DEF OrderInv
  <1>1. CASE Dispatch
    <2>1. Path' = Path /\ Coming' = Coming /\ failure' = failure
      BY <1>1, DispatchPath
    <2>2. /\ UNCHANGED <<batch, frame, extents, compositor>>
          /\ pc # "handle"
      BY <1>1 DEF Dispatch
    <2>3. UNCHANGED <<pools, buffers, surface, configured, acked>>
      BY <2>2 DEF compositor, surface
    <2>4. pc' # "handle" => batch' = <<>>
      BY <2>2 DEF SerialsInv
    <2> QED BY <2>1, <2>2, <2>3, <2>4, LivesKeep, SerialsQuiet, CommitsQuiet
  <1>2. CASE Recv
    <2>1. /\ pc # "handle" /\ pc' = "handle"
          /\ UNCHANGED <<failure, queue, frame, extents, socket, compositor>>
      BY <1>2 DEF Recv
    <2>2. UNCHANGED <<pools, buffers, surface, configured, acked>>
      BY <2>1 DEF compositor, surface
    <2>3. Path' = Path
      BY <2>1 DEF Path
    <2>4. Coming' = Coming
      <3>1. PICK n \in 1 .. Len(incoming) :
              /\ batch' = SubSeq(incoming, 1, n)
              /\ incoming' = SubSeq(incoming, n + 1, Len(incoming))
        BY <1>2 DEF Recv
      <3>2. incoming \in Seq(Events) /\ batch = <<>>
        BY <2>1 DEF DescriptorsInv, TypeOK, SerialsInv
      <3>3. batch' \o incoming' = incoming
        BY <3>1, <3>2, SubSeqConcat
      <3>4. batch \o incoming = incoming
        BY <3>2
      <3> QED BY <3>3, <3>4 DEF Coming
    <2> QED BY <2>1, <2>2, <2>3, <2>4, LivesKeep, SerialsQuiet, CommitsQuiet
  <1>3. CASE Loop
    <2>1. /\ batch = <<>>
          /\ UNCHANGED <<failure, batch, queue, frame, extents, socket, incoming, compositor>>
      BY <1>3 DEF Loop
    <2>2. UNCHANGED <<pools, buffers, surface, configured, acked>>
      BY <2>1 DEF compositor, surface
    <2>3. Path' = Path /\ Coming' = Coming
      BY <2>1 DEF Path, Coming
    <2> QED BY <2>1, <2>2, <2>3, LivesKeep, SerialsQuiet, CommitsQuiet
  <1>4. CASE HandleToplevelConfigure
    <2> DEFINE extent == Head(batch).extent
    <2>1. Handles("toplevel_configure")
      BY <1>4 DEF HandleToplevelConfigure
    <2>2. CASE ~Sized(extent)
      <3>1. UNCHANGED <<queue, frame, extents, socket>>
        BY <1>4, <2>2 DEF HandleToplevelConfigure
      <3>2. UNCHANGED <<pools, buffers, surface, configured, acked>>
        BY <2>1 DEF Handles, compositor, surface
      <3>3. Path' = Path
        BY <3>1 DEF Path
      <3>4. LivesInv' /\ CommitsInv'
        BY <3>1, <3>2, <3>3, LivesKeep, CommitsQuiet
      <3>5. SerialsInv'
        BY <2>1, <2>2, <3>1, <3>3, UnsizedSerials
      <3> QED BY <3>4, <3>5
    <2>3. CASE Sized(extent)
      <3>1. Resize(extent)
        BY <1>4, <2>3 DEF HandleToplevelConfigure
      <3>2. extent \in Extents
        <4>1. Head(batch) \in Events /\ Head(batch).ev = "toplevel_configure"
          BY <2>1, TailLemma DEF Handles, DescriptorsInv, TypeOK
        <4> QED BY <4>1 DEF Events
      <3> QED BY <2>1, <2>3, <3>1, <3>2, ResizeLives, ResizeSerials, ResizeCommits
    <2> QED BY <2>2, <2>3
  <1>5. CASE HandleConfigure
    <2> DEFINE a == R("ack", Head(batch).n)
               t == R("attach", frame)
               c == R("commit", None)
               rs == <<a>> \o AttachRequests(frame)
    <2>1. /\ Handles("configure") /\ Write(rs, AckBytes + AttachBytes)
          /\ UNCHANGED <<frame, extents, socket>>
      BY <1>5 DEF HandleConfigure
    <2>2. /\ a \in Requests /\ t \in Requests /\ c \in Requests
          /\ a.op = "ack" /\ t.op = "attach" /\ t.n = frame /\ c.op = "commit"
      <3>1. Head(batch) \in Events /\ Head(batch).ev = "configure"
        BY <2>1, TailLemma DEF Handles, DescriptorsInv, TypeOK
      <3>2. Head(batch).n \in Nat
        BY <3>1 DEF Events
      <3> QED BY <3>2, Types DEF R, Requests, None
    <2>3. rs = <<a>> \o <<t, c>>
      BY DEF AttachRequests
    <2>4. Path \in Seq(Requests) /\ frame \in Nat \ {0} /\ AckBytes + AttachBytes \in Nat
      BY Types DEF AckBytes, AttachBytes
    <2>5. UNCHANGED <<pools, buffers, surface, configured, acked>> /\ failure = "none"
      BY <2>1 DEF Handles, compositor, surface
    <2> HIDE DEF rs
    <2>6. Path' = Path \o rs \/ Path' = Path
      <3>1. rs \in Seq(Requests)
        <4> HIDE DEF a, t, c
        <4>1. <<a>> \in Seq(Requests) /\ <<t, c>> \in Seq(Requests)
          BY <2>2
        <4> QED BY <2>3, <4>1, ConcatLemma
      <3> QED BY <2>1, <2>4, <2>5, <3>1, WritePath DEF DescriptorsInv
    <2>7. Path \o rs = Append(Append(Append(Path, a), t), c)
      <3> HIDE DEF a, t, c
      <3>1. <<a>> \in Seq(Requests) /\ <<t, c>> \in Seq(Requests)
        BY <2>2
      <3>2. Path \o (<<a>> \o <<t, c>>) = (Path \o <<a>>) \o <<t, c>>
        BY <2>4, <3>1, ConcatAssoc
      <3>3. Path \o <<a>> = Append(Path, a) /\ Append(Path, a) \in Seq(Requests)
        BY <2>2, <2>4, ConcatAppends
      <3>4. Append(Path, a) \o <<t, c>> = Append(Append(Append(Path, a), t), c)
        BY <2>2, <3>3, ConcatAppends
      <3> QED BY <2>3, <3>2, <3>3, <3>4
    <2>8. SerialsInv'
      BY <2>1, <2>2, <2>6, <2>7, ConfiguredSerials
    <2>9. CommitsInv'
      <3>1. CASE Path' = Path
        BY <2>1, <2>5, <3>1, CommitsQuiet
      <3>2. CASE Path' = Append(Append(Append(Path, a), t), c)
        BY <2>1, <2>2, <3>2, ConfiguredCommits
      <3> QED BY <2>6, <2>7, <3>1, <3>2
    <2>10. LivesInv'
      <3> DEFINE l == 4 * frame - 2
      <3>1. l \in Nat /\ Turn(t) = l /\ a.op \notin MoveOps /\ c.op \notin MoveOps
        BY <2>2, <2>4 DEF Turn, MoveOps, R
      <3> HIDE DEF a, t, c
      <3>2. ASSUME NEW turn \in 0 .. l, LivesInOrder(Path, turn, l)
            PROVE  LivesInOrder(Append(Append(Append(Path, a), t), c), turn, l)
        <4> HIDE DEF l
        <4>1. turn \in Nat /\ turn <= l
          BY <3>1
        <4> DEFINE p1 == Append(Path, a)
                   p2 == Append(p1, t)
        <4>2. p1 \in Seq(Requests) /\ LivesInOrder(p1, turn, l)
          BY <2>2, <2>4, <3>1, <3>2, <4>1, LivesSkip
        <4> HIDE DEF p1
        <4>3. p2 \in Seq(Requests) /\ LivesInOrder(p2, turn, l)
          BY <2>2, <3>1, <4>1, <4>2, LivesAttach
        <4> HIDE DEF p2
        <4>4. LivesInOrder(Append(p2, c), turn, l)
          BY <2>2, <3>1, <4>1, <4>3, LivesSkip
        <4> QED BY <4>4 DEF p1, p2
      <3> QED BY <2>1, <2>5, <2>6, <2>7, <3>2, LivesKeep
    <2> QED BY <2>8, <2>9, <2>10
  <1>6. CASE HandlePing
    <2> DEFINE r == R("pong", Head(batch).n)
    <2>1. /\ Handles("ping") /\ Write(<<r>>, PongBytes)
          /\ UNCHANGED <<frame, extents, socket>>
      BY <1>6 DEF HandlePing
    <2>2. r \in Requests /\ r.op = "pong"
      <3>1. Head(batch) \in Events /\ Head(batch).ev = "ping"
        BY <2>1, TailLemma DEF Handles, DescriptorsInv, TypeOK
      <3>2. Head(batch).n \in Nat
        BY <3>1 DEF Events
      <3> QED BY <3>2 DEF R, Requests
    <2> HIDE DEF r
    <2>3. Path \in Seq(Requests) /\ PongBytes \in Nat /\ <<r>> \in Seq(Requests)
      BY <2>2, Types DEF PongBytes
    <2>4. UNCHANGED <<pools, buffers, surface, configured, acked>> /\ failure = "none"
      BY <2>1 DEF Handles, compositor, surface
    <2>5. Path' = Append(Path, r) \/ Path' = Path
      <3>1. Path \o <<r>> = Append(Path, r)
        BY <2>2, <2>3, ConcatAppends
      <3> QED BY <2>1, <2>3, <2>4, <3>1, WritePath DEF DescriptorsInv
    <2>6. LivesInv'
      <3> DEFINE l == 4 * frame - 2
      <3>1. l \in Nat
        BY Types
      <3> HIDE DEF l
      <3>2. ASSUME NEW turn \in 0 .. l, LivesInOrder(Path, turn, l)
            PROVE  LivesInOrder(Path', turn, l)
        <4>1. turn \in Nat /\ turn <= l
          BY <3>1
        <4>2. r.op \notin MoveOps /\ r.op # "attach"
          BY <2>2 DEF MoveOps
        <4>3. LivesInOrder(Append(Path, r), turn, l)
          BY <2>2, <2>3, <3>1, <3>2, <4>1, <4>2, LivesSkip
        <4> QED BY <2>5, <3>2, <4>3
      <3> QED BY <2>1, <2>4, <3>2, LivesKeep DEF l
    <2>7. SerialsInv'
      <3>1. \A heard \in Nat : AcksInOrder(Path, acked, heard) => AcksInOrder(Path', acked, heard)
        BY <2>2, <2>3, <2>5, AcksSkip
      <3> QED BY <2>1, <3>1, PassiveSerials
    <2>8. CommitsInv'
      BY <2>1, <2>2, <2>4, <2>5, PongCommits, CommitsQuiet
    <2> QED BY <2>6, <2>7, <2>8
  <1>7. CASE HandleClose
    <2>1. Handles("close") /\ UNCHANGED <<queue, frame, extents, socket>>
      BY <1>7 DEF HandleClose
    <2>2. UNCHANGED <<pools, buffers, surface, configured, acked>>
      BY <2>1 DEF Handles, compositor, surface
    <2>3. Path' = Path
      BY <2>1 DEF Path
    <2>4. LivesInv' /\ CommitsInv'
      BY <2>1, <2>2, <2>3, LivesKeep, CommitsQuiet
    <2>5. SerialsInv'
      BY <2>1, <2>3, PassiveSerials
    <2> QED BY <2>4, <2>5
  <1> QED BY <1>1, <1>2, <1>3, <1>4, <1>5, <1>6, <1>7 DEF Client


LEMMA ServeOrder ==
  ASSUME DescriptorsInv, ProtocolObeyed, OrderInv, Serve
  PROVE  OrderInv' /\ ProtocolObeyed'
  <1> USE DEF OrderInv
  <1> DEFINE r == Head(socket)
  <1>1. CASE ServePool
    <2>1. Takes({"create_pool", "destroy_pool"}) /\ UNCHANGED surface
      BY <1>1 DEF ServePool
    <2>2. acked' = acked /\ Path[1].op # "ack"
      BY <2>1, TakesPath DEF surface, DescriptorsInv
    <2>3. SerialsInv'
      BY <2>1, <2>2, ServedSerials
    <2> QED BY <1>1, <2>1, <2>3, PoolLives, PassedCommits
  <1>2. CASE ServeBuffer
    <2>1. Takes({"create_buffer", "destroy_buffer"}) /\ UNCHANGED surface
      BY <1>2 DEF ServeBuffer
    <2>2. acked' = acked /\ Path[1].op # "ack"
      BY <2>1, TakesPath DEF surface, DescriptorsInv
    <2>3. SerialsInv'
      BY <2>1, <2>2, ServedSerials
    <2> QED BY <1>2, <2>1, <2>3, BufferLives, PassedCommits
  <1>3. CASE ServeAttach
    <2>1. Takes({"attach"}) /\ acked' = acked
      BY <1>3 DEF ServeAttach
    <2>2. Path[1].op # "ack"
      BY <2>1, TakesPath DEF DescriptorsInv
    <2>3. SerialsInv'
      BY <2>1, <2>2, ServedSerials
    <2> QED BY <1>3, <2>3, AttachLives, AttachCommits
  <1>4. CASE ServeAck
    <2>1. /\ Takes({"ack"}) /\ acked' = r.n /\ UNCHANGED <<pools, buffers>>
          /\ Rule(r.n \in (acked + 1) .. Len(configured), "serial")
      BY <1>4 DEF ServeAck
    <2>2. Path[1] = r /\ Path[1].op = "ack"
      BY <2>1, TakesPath DEF DescriptorsInv
    <2>3. SerialsInv' /\ r.n \in (acked + 1) .. Len(configured)
      BY <2>1, <2>2, ServedSerials
    <2>4. ProtocolObeyed'
      BY <2>1, <2>3 DEF Rule, ProtocolObeyed
    <2>5. LivesInv'
      <3>1. {"ack"} \cap MoveOps = {}
        BY DEF MoveOps
      <3> QED BY <2>1, <3>1, LivesPassed
    <2> QED BY <1>4, <2>3, <2>4, <2>5, AckCommits
  <1>5. CASE ServeCommit
    <2>1. /\ Takes({"commit"}) /\ acked' = acked /\ UNCHANGED <<pools, buffers>>
          /\ Rule(attached # None => acked # None, "unconfigured")
      BY <1>5 DEF ServeCommit
    <2>2. Path[1].op # "ack"
      BY <2>1, TakesPath DEF DescriptorsInv
    <2>3. SerialsInv'
      BY <2>1, <2>2, ServedSerials
    <2>4. ProtocolObeyed'
      BY <2>1 DEF CommitsInv, Rule, ProtocolObeyed
    <2>5. LivesInv'
      <3>1. {"commit"} \cap MoveOps = {}
        BY DEF MoveOps
      <3> QED BY <2>1, <3>1, LivesPassed
    <2> QED BY <1>5, <2>3, <2>4, <2>5, CommitCommits
  <1>6. CASE ServeOther
    <2>1. Takes({"pong", "other"}) /\ UNCHANGED <<pools, buffers, surface, protocol_error>>
      BY <1>6 DEF ServeOther
    <2>2. acked' = acked /\ Path[1].op # "ack"
      BY <2>1, TakesPath DEF surface, DescriptorsInv
    <2>3. SerialsInv'
      BY <2>1, <2>2, ServedSerials
    <2>4. LivesInv'
      <3>1. {"pong", "other"} \cap MoveOps = {}
        BY DEF MoveOps
      <3> QED BY <2>1, <3>1, LivesPassed
    <2>5. CommitsInv'
      BY <2>1, PassedCommits
    <2>6. ProtocolObeyed'
      BY <2>1 DEF Takes, ProtocolObeyed
    <2> QED BY <2>3, <2>4, <2>5, <2>6
  <1> QED BY <1>1, <1>2, <1>3, <1>4, <1>5, <1>6 DEF Serve

LEMMA EmitOrder ==
  ASSUME DescriptorsInv, OrderInv,
         (\E extent \in Extents : Configure(extent)) \/ Ping \/ Close
  PROVE  OrderInv'
  <1> USE DEF OrderInv
  <1>1. ASSUME NEW extent \in Extents, Configure(extent) PROVE OrderInv'
    <2> DEFINE e == ToplevelConfigure(extent)
               f == E("configure", Len(configured) + 1)
    <2>1. Emits(<<e, f>>)
      BY <1>1 DEF Configure
    <2>2. e \in Events /\ f \in Events
      BY Types DEF E, ToplevelConfigure, Events
    <2> HIDE DEF e, f
    <2>3. Path' = Path
      <3>1. <<e, f>> \in Seq(Events)
        BY <2>2
      <3> QED BY <2>1, <3>1, EmitsPath DEF DescriptorsInv
    <2>4. UNCHANGED <<frame, extents, pools, buffers>>
      BY <2>1 DEF Emits, client
    <2>5. LivesInv'
      BY <2>3, <2>4, LivesKeep
    <2> QED BY <1>1, <2>5, NewSerials, NewCommits
  <1>2. ASSUME NEW e \in Events, Emits(<<e>>), UNCHANGED configured,
               e.ev \notin {"toplevel_configure", "configure"}
        PROVE  OrderInv'
    <2>1. <<e>> \in Seq(Events)
      OBVIOUS
    <2>2. Path' = Path
      BY <1>2, <2>1, EmitsPath DEF DescriptorsInv
    <2>3. UNCHANGED <<frame, extents, pools, buffers, surface, configured>>
      BY <1>2 DEF Emits, client
    <2> QED BY <1>2, <2>2, <2>3, LivesKeep, OtherSerials, CommitsQuiet
  <1>3. CASE Ping
    <2> DEFINE e == E("ping", pings + 1)
    <2>1. e \in Events /\ e.ev = "ping"
      BY DEF E, Events, DescriptorsInv, TypeOK
    <2>2. Emits(<<e>>) /\ UNCHANGED configured
      BY <1>3 DEF Ping
    <2> HIDE DEF e
    <2> QED BY <1>2, <2>1, <2>2
  <1>4. CASE Close
    <2> DEFINE e == E("close", None)
    <2>1. e \in Events /\ e.ev = "close"
      BY DEF E, Events, None
    <2>2. Emits(<<e>>) /\ UNCHANGED configured
      BY <1>4 DEF Close
    <2> HIDE DEF e
    <2> QED BY <1>2, <2>1, <2>2
  <1> QED BY <1>1, <1>3, <1>4


\* What waits in the queue at first: two requests for the input devices, then the
\* first Framebuffer.
LEMMA InitPath ==
  ASSUME Init
  PROVE  LET o == R("other", None)
         IN Path = Append(Append(Append(Append(Append(<<>>, o), o),
                     R("create_pool", 1)), R("create_buffer", 1)), R("commit", None))
  <1> DEFINE o == R("other", None)
             p == R("create_pool", 1)
             b == R("create_buffer", 1)
             c == R("commit", None)
             rs == <<o, o>> \o CreateRequests(1)
  <1>1. o \in Requests /\ p \in Requests /\ b \in Requests /\ c \in Requests
    BY DEF R, Requests, None
  <1>2. CreateRequests(1) = <<p, b, c>>
    BY DEF CreateRequests
  <1>3. queue.requests = <<>> \o rs
    <2>1. queue = AddFD(Allocate(EmptyQueue, rs, SetupBytes), 1)
      BY DEF Init
    <2> HIDE DEF rs
    <2> QED BY <2>1 DEF AddFD, Allocate, Advance, EmptyQueue
  <1> HIDE DEF o, p, b, c
  <1>4. <<o, o>> \o <<p, b, c>> = Append(Append(Append(<<o, o>>, p), b), c)
    BY <1>1, ConcatAppends
  <1>5. <<o, o>> = Append(Append(<<>>, o), o)
    <2>1. <<>> \o <<o, o>> = Append(Append(<<>>, o), o)
      BY <1>1, ConcatAppends
    <2>2. <<>> \o <<o, o>> = <<o, o>>
      BY <1>1
    <2> QED BY <2>1, <2>2
  <1>6. rs \in Seq(Requests)
    <2>1. <<o, o>> \in Seq(Requests) /\ <<p, b, c>> \in Seq(Requests)
      BY <1>1
    <2> QED BY <1>2, <2>1, ConcatLemma
  <1>7. Path = rs
    <2> HIDE DEF rs
    <2> QED BY <1>3, <1>6 DEF Init, Path
  <1> QED BY <1>2, <1>4, <1>5, <1>7 DEF o, p, b, c

LEMMA InitOrder ==
  ASSUME Init
  PROVE  OrderInv /\ ProtocolObeyed
  <1> DEFINE o == R("other", None)
             p == R("create_pool", 1)
             b == R("create_buffer", 1)
             c == R("commit", None)
             p0 == << >>
             p1 == Append(p0, o)
             p2 == Append(p1, o)
             p3 == Append(p2, p)
             p4 == Append(p3, b)
             p5 == Append(p4, c)
  <1>1. Path = p5
    BY InitPath
  <1>2. /\ o \in Requests /\ p \in Requests /\ b \in Requests /\ c \in Requests
        /\ o.op = "other" /\ c.op = "commit"
        /\ p.op = "create_pool" /\ Turn(p) = 0 /\ b.op = "create_buffer" /\ Turn(b) = 1
    <2>1. /\ o \in Requests /\ p \in Requests /\ b \in Requests /\ c \in Requests
          /\ o.op = "other" /\ c.op = "commit" /\ p.op = "create_pool" /\ b.op = "create_buffer"
          /\ p.n = 1 /\ b.n = 1
      BY DEF R, Requests, None
    <2> HIDE DEF o, p, b, c
    <2>2. Turn(p) = 4 * 1 - 4 /\ Turn(b) = 4 * 1 - 3
      BY <2>1, TurnType DEF MoveOps
    <2> QED BY <2>1, <2>2
  <1> HIDE DEF o, p, b, c
  <1>3. /\ p0 \in Seq(Requests) /\ p1 \in Seq(Requests) /\ p2 \in Seq(Requests)
        /\ p3 \in Seq(Requests) /\ p4 \in Seq(Requests) /\ p5 \in Seq(Requests)
    <2>1. p0 \in Seq(Requests)
      OBVIOUS
    <2> HIDE DEF p0
    <2> QED BY <1>2, <2>1
  <1>4. /\ Coming = <<>> /\ configured = <<>> /\ extents = <<Default>> /\ frame = 1
        /\ DOMAIN pools = {} /\ buffers = {} /\ batch = <<>>
        /\ acked = 0 /\ applied = 0 /\ attached = 0 /\ shown = 0 /\ protocol_error = "none"
    BY DEF Init, Coming, None
  <1>5. LivesInv
    <2>1. LivesInOrder(p0, 0, 0)
      BY DEF LivesInOrder, Moves, Attaches, With
    <2> HIDE DEF p0
    <2>2. LivesInOrder(p1, 0, 0)
      BY <1>2, <1>3, <2>1, LivesSkip DEF MoveOps
    <2> HIDE DEF p1
    <2>3. LivesInOrder(p2, 0, 0)
      BY <1>2, <1>3, <2>2, LivesSkip DEF MoveOps
    <2> HIDE DEF p2
    <2>4. LivesInOrder(p3, 0, 0 + 1)
      BY <1>2, <1>3, <2>3, LivesMove DEF MoveOps
    <2> HIDE DEF p3
    <2>5. LivesInOrder(p4, 0, 1 + 1)
      BY <1>2, <1>3, <2>4, LivesMove DEF MoveOps
    <2> HIDE DEF p4
    <2>6. LivesInOrder(p5, 0, 2)
      BY <1>2, <1>3, <2>5, LivesSkip DEF MoveOps
    <2>7. 4 * frame - 2 = 2 /\ 0 \in 0 .. (4 * frame - 2)
      BY <1>4
    <2>8. Alive(0)
      BY <1>4 DEF Alive
    <2>9. Len(extents) = frame /\ \A n \in 1 .. frame : Sized(extents[n])
      BY <1>4, WindowAssumption
    <2> HIDE DEF p5
    <2> QED BY <1>1, <2>6, <2>7, <2>8, <2>9 DEF LivesInv
  <1>6. SerialsInv
    <2>1. InPairs(Coming, configured) /\ Coming \in Seq(Events) /\ Len(configured) = 0
      BY <1>4 DEF InPairs
    <2>2. SerialsInOrder(Coming, 0, 0)
      BY <1>4 DEF SerialsInOrder, Serials
    <2>3. AcksInOrder(p5, 0, 0)
      <3>1. AcksInOrder(p0, 0, 0)
        BY DEF AcksInOrder, Acks, With
      <3> HIDE DEF p0
      <3>2. AcksInOrder(p1, 0, 0)
        BY <1>2, <1>3, <3>1, AcksSkip
      <3> HIDE DEF p1
      <3>3. AcksInOrder(p2, 0, 0)
        BY <1>2, <1>3, <3>2, AcksSkip
      <3> HIDE DEF p2
      <3>4. AcksInOrder(p3, 0, 0)
        BY <1>2, <1>3, <3>3, AcksSkip
      <3> HIDE DEF p3
      <3>5. AcksInOrder(p4, 0, 0)
        BY <1>2, <1>3, <3>4, AcksSkip
      <3> HIDE DEF p4
      <3> QED BY <1>2, <1>3, <3>5, AcksSkip
    <2>4. extents[frame] = LatestSize(configured, SizedFor(Coming, 0))
      <3>1. SizedFor(Coming, 0) = 0
        BY <1>4 DEF SizedFor
      <3>2. LatestSize(configured, 0) = Default
        BY DEF LatestSize
      <3> QED BY <1>4, <3>1, <3>2
    <2> HIDE DEF p5
    <2> QED BY <1>1, <1>4, <2>1, <2>2, <2>3, <2>4 DEF SerialsInv, Wanted
  <1>7. CommitsInv
    <2> DEFINE Good(q) == /\ Grouped(q) /\ SizedAsAcked(q, extents, configured)
    <2>1. Good(p0)
      BY DEF Grouped, SizedAsAcked, Attaches, With
    <2>2. ASSUME NEW q \in Seq(Requests), NEW r \in Requests, Good(q),
                 r.op \notin {"ack", "attach"}
          PROVE  Good(Append(q, r))
      BY <2>2, GroupedSkip, SizedAppend
    <2> HIDE DEF Good
    <2> HIDE DEF p0
    <2>3. Good(p1)
      BY <1>2, <1>3, <2>1, <2>2
    <2> HIDE DEF p1
    <2>4. Good(p2)
      BY <1>2, <1>3, <2>2, <2>3
    <2> HIDE DEF p2
    <2>5. Good(p3)
      BY <1>2, <1>3, <2>2, <2>4
    <2> HIDE DEF p3
    <2>6. Good(p4)
      BY <1>2, <1>3, <2>2, <2>5
    <2> HIDE DEF p4
    <2>7. Good(p5)
      BY <1>2, <1>3, <2>2, <2>6
    <2>8. FirstOp(p5) = "other"
      BY <1>2 DEF p0, p1, p2, p3, p4, FirstOp
    <2> HIDE DEF p5
    <2> QED BY <1>1, <1>4, <2>7, <2>8 DEF Good, CommitsInv, NextOp, None
  <1> QED BY <1>4, <1>5, <1>6, <1>7 DEF OrderInv, ProtocolObeyed


\* Only a Rebuild makes a Framebuffer, and only a served create_buffer a buffer.
LEMMA SizesStep ==
  ASSUME DescriptorsInv, LivesInv, SizesInv, [Next]_vars
  PROVE  SizesInv'
<1>1. buffers \subseteq DOMAIN extents /\ extents \in Seq(Extents)
  BY DEF LivesInv, Alive, DescriptorsInv, TypeOK
<1>2. CASE UNCHANGED <<extents, buffers, protocol_error>>
  BY <1>2 DEF SizesInv
<1>3. ASSUME NEW extent, extents' = Append(extents, extent), ~DrawsFarOutside(extent),
             UNCHANGED <<buffers, protocol_error>>
      PROVE  SizesInv'
  <2>1. /\ DOMAIN extents' = DOMAIN extents \cup {Len(extents) + 1}
        /\ extents'[Len(extents) + 1] = extent
        /\ \A n \in DOMAIN extents : extents'[n] = extents[n]
    BY <1>1, <1>3
  <2> QED BY <1>1, <1>3, <2>1 DEF SizesInv
<1>4. CASE Client
  <2>1. CASE Dispatch \/ Recv \/ Loop \/ HandleConfigure \/ HandlePing \/ HandleClose
    BY <1>2, <2>1 DEF Dispatch, Recv, Loop, HandleConfigure, HandlePing, HandleClose, Handles,
      compositor
  <2>2. CASE HandleToplevelConfigure
    <3> DEFINE extent == Head(batch).extent
    <3>1. UNCHANGED <<buffers, protocol_error>>
      BY <2>2 DEF HandleToplevelConfigure, Handles, compositor
    <3>2. UNCHANGED extents \/ Resize(extent)
      BY <2>2 DEF HandleToplevelConfigure
    <3>3. CASE Resize(extent)
      <4>1. \/ UNCHANGED extents
            \/ ~DrawsFarOutside(extent) /\ extents' = Append(extents, extent)
        BY <3>3, ResizeCases DEF Overflow, Fault, Rebuild
      <4> QED BY <1>2, <1>3, <3>1, <4>1
    <3> QED BY <1>2, <3>1, <3>2, <3>3
  <2> QED BY <1>4, <2>1, <2>2 DEF Client
<1>5. CASE Serve
  <2>1. extents' = extents /\ protocol_error = "none"
    BY <1>5 DEF Serve, ServePool, ServeBuffer, ServeAttach, ServeAck, ServeCommit, ServeOther,
      Takes, client
  <2>2. CASE buffers' = buffers
    BY <2>1, <2>2 DEF SizesInv
  <2>3. CASE ServeBuffer
    <3> DEFINE b == Head(socket).n
    <3>1. \/ buffers' = buffers \cup {b} /\ (protocol_error' = "none" => BufferFits(extents[b]))
          \/ buffers' = buffers \ {b}
      BY <2>3 DEF ServeBuffer, Rule
    <3> QED BY <2>1, <3>1 DEF SizesInv
  <2> QED BY <1>5, <2>2, <2>3 DEF Serve, ServePool, ServeAttach, ServeAck, ServeCommit, ServeOther
<1>6. CASE (\E extent \in Extents : Configure(extent)) \/ Ping \/ Close
  BY <1>2, <1>6 DEF Configure, Ping, Close, Emits, client
<1>7. CASE UNCHANGED vars
  BY <1>2, <1>7 DEF vars, client, compositor
<1> QED BY <1>4, <1>5, <1>6, <1>7 DEF Next

\* The client breaks no rule when it makes a Framebuffer.
LEMMA ObeyedKeep ==
  ASSUME DescriptorsInv, ProtocolObeyed, UNCHANGED protocol_error,
         UNCHANGED extents \/ \E extent : extents' = Append(extents, extent)
  PROVE  ProtocolObeyed'
<1>1. \A n \in DOMAIN extents : n \in DOMAIN extents' /\ extents'[n] = extents[n]
  <2>1. extents \in Seq(Extents)
    BY DEF DescriptorsInv, TypeOK
  <2>2. CASE \E extent : extents' = Append(extents, extent)
    <3>1. PICK extent : extents' = Append(extents, extent)
      BY <2>2
    <3>2. /\ DOMAIN extents' = DOMAIN extents \cup {Len(extents) + 1}
          /\ \A n \in DOMAIN extents : extents'[n] = extents[n]
      BY <2>1, <3>1
    <3> QED BY <3>2
  <2> QED BY <2>2
<1> QED BY <1>1 DEF ProtocolObeyed

LEMMA OrderStep == IInv /\ [Next]_vars => IInv'
<1> SUFFICES ASSUME DescriptorsInv, ProtocolObeyed, SizesInv, OrderInv, [Next]_vars
             PROVE  DescriptorsInv' /\ ProtocolObeyed' /\ SizesInv' /\ OrderInv'
  BY DEF IInv, OrderInv
<1>6. SizesInv'
  BY SizesStep DEF OrderInv
<1>1. DescriptorsInv'
  BY DescriptorsStep
<1>2. CASE Client
  <2>1. protocol_error' = protocol_error
    BY <1>2 DEF Client, Dispatch, Recv, Loop, HandleToplevelConfigure, HandleConfigure,
      HandlePing, HandleClose, Handles, compositor
  <2>2. UNCHANGED extents \/ \E extent : extents' = Append(extents, extent)
    <3>1. UNCHANGED extents \/ \E extent : Resize(extent)
      BY <1>2 DEF Client, Dispatch, Recv, Loop, HandleToplevelConfigure, HandleConfigure,
        HandlePing, HandleClose
    <3> QED BY <3>1, ResizeCases DEF Overflow, Fault, Rebuild
  <2> QED BY <1>1, <1>2, <1>6, <2>1, <2>2, ClientOrder, ObeyedKeep
<1>3. CASE Serve
  BY <1>1, <1>3, <1>6, ServeOrder
<1>4. CASE (\E extent \in Extents : Configure(extent)) \/ Ping \/ Close
  <2>1. protocol_error' = protocol_error /\ extents' = extents
    BY <1>4 DEF Configure, Ping, Close, Emits, client
  <2> QED BY <1>1, <1>4, <1>6, <2>1, EmitOrder, ObeyedKeep
<1>5. CASE UNCHANGED vars
  <2>1. UNCHANGED <<pc, failure, batch, queue, frame, extents, socket, incoming, pools, buffers,
                    surface, configured, acked, protocol_error>>
    BY <1>5 DEF vars, client, compositor, surface
  <2>2. Path' = Path /\ Coming' = Coming
    BY <2>1 DEF Path, Coming
  <2>3. LivesInv' /\ SerialsInv' /\ CommitsInv'
    BY <2>1, <2>2, LivesKeep, SerialsQuiet, CommitsQuiet DEF OrderInv, SerialsInv
  <2> QED BY <1>1, <1>6, <2>1, <2>3, ObeyedKeep DEF OrderInv
<1> QED BY <1>2, <1>3, <1>4, <1>5 DEF Next

-----------------------------------------------------------------------------
(* The theorems. *)

\* The invariant of the whole exchange: on top of DescriptorsInv, the requests on
\* their way are the rest of the Framebuffers' lives in order, the configures on
\* their way are the serials not yet heard of, and every ack on its way is
\* followed by a buffer of the size that was acked.
THEOREM ProtocolInvariant == Spec => []IInv
<1>1. Init => IInv
  <2>1. Init => SizesInv
    <3> SUFFICES ASSUME Init PROVE SizesInv
      OBVIOUS
    <3>1. extents = <<Default>> /\ buffers = {}
      BY DEF Init
    <3>2. Default \in [w : Nat, h : Nat] /\ Drawable(Default)
      BY WindowAssumption, FramebufferAssumption
    <3>3. ~DrawsFarOutside(Default)
      <4>1. DrawnInPlace(Default)
        BY <3>2, DrawnLemma
      <4>2. INT_MAX \in Nat
        BY FramebufferAssumption DEF INT_MAX
      <4>3. Size(Default) \in Nat
        <5>1. Stride(Default) \in Nat
          BY <3>2, FramebufferAssumption DEF Stride
        <5> QED BY <3>2, <5>1 DEF Size
      <4>4. ASSUME NEW x \in 0 .. (Default.w - 1), NEW y \in 0 .. (Default.h - 1)
            PROVE  ~(PixelOffset(Default, x, y) + 4 > Size(Default) + INT_MAX)
        <5>1. PixelOffset(Default, x, y) \in Nat
          <6>1. y * Default.w + x \in Nat
            BY <3>2
          <6> QED BY <6>1, FramebufferAssumption DEF PixelOffset
        <5>2. PixelOffset(Default, x, y) + 4 <= Size(Default)
          BY <4>1 DEF DrawnInPlace
        <5> QED BY <4>2, <4>3, <5>1, <5>2
      <4> QED BY <4>4 DEF DrawsFarOutside
    <3> QED BY <3>1, <3>3 DEF SizesInv
  <2> QED BY <2>1, InitInv, InitOrder DEF IInv, OrderInv
<1>2. IInv /\ [Next]_vars => IInv'
  BY OrderStep
<1>3. QED
  BY <1>1, <1>2, PTL DEF Spec

\* Whatever the two ends do while configures, resizes and acks cross, the client
\* breaks none of the rules of the protocol that the compositor checks, except that
\* a buffer may be too large where the compositor asked for it.
THEOREM ProtocolAlwaysObeyed == Spec => []ProtocolObeyed
<1>1. IInv => ProtocolObeyed
  BY DEF IInv
<1>2. QED
  BY <1>1, ProtocolInvariant, PTL

\* Of every buffer the compositor accepts, whatever size it asked for, each pixel
\* was drawn in the mapping and where it is read.
THEOREM AlwaysDrawnWhereRead == Spec => []DrawnWhereRead
<1>1. IInv => DrawnWhereRead
  <2> SUFFICES ASSUME DescriptorsInv, SizesInv, LivesInv, protocol_error = "none",
                      NEW b \in buffers
               PROVE  DrawnInPlace(extents[b])
    BY DEF DrawnWhereRead, IInv
  <2>1. b \in DOMAIN extents
    BY DEF LivesInv, Alive, DescriptorsInv, TypeOK
  <2>2. extents[b] \in [w : 0 .. (UINT_MOD - 1), h : 0 .. (UINT_MOD - 1)]
    <3>1. extents[b] \in Extents
      BY <2>1 DEF DescriptorsInv, TypeOK
    <3> QED BY <3>1, WindowAssumption
  <2>3. BufferFits(extents[b]) /\ ~DrawsFarOutside(extents[b])
    BY <2>1 DEF SizesInv
  <2> QED BY <2>2, <2>3, AcceptedLemma
<1>2. QED
  BY <1>1, ProtocolInvariant, PTL

\* The buffer on the screen always has the size of the last configure applied.
THEOREM AlwaysShowsWhatWasAsked == Spec => []ShowsWhatWasAsked
<1>1. IInv => ShowsWhatWasAsked
  BY DEF IInv, CommitsInv, ShowsWhatWasAsked
<1>2. QED
  BY <1>1, ProtocolInvariant, PTL

\* The commit that applies an ack always carries a buffer: a commit that comes
\* first on the path without one finds no ack that was not applied before.
THEOREM AckAlwaysBringsBuffer == Spec => AckBringsBuffer
<1>1. IInv /\ [Next]_vars => [applied' # applied => attached # None]_vars
  <2> SUFFICES ASSUME DescriptorsInv, CommitsInv, [Next]_vars, applied' # applied
               PROVE  attached # None
    BY DEF IInv
  <2>1. applied' = applied \/ ServeCommit
    <3>1. CASE Client
      BY <3>1 DEF Client, Dispatch, Recv, Loop, HandleToplevelConfigure, HandleConfigure,
        HandlePing, HandleClose, Handles, compositor, surface
    <3>2. CASE Serve
      BY <3>2 DEF Serve, ServePool, ServeBuffer, ServeAttach, ServeAck, ServeOther, surface
    <3>3. CASE (\E extent \in Extents : Configure(extent)) \/ Ping \/ Close
      BY <3>3 DEF Configure, Ping, Close, Emits, surface
    <3>4. CASE UNCHANGED vars
      BY <3>4 DEF vars, compositor, surface
    <3> QED BY <3>1, <3>2, <3>3, <3>4 DEF Next
  <2>2. /\ Takes({"commit"}) /\ applied' = acked
    BY <2>1 DEF ServeCommit
  <2>3. Path # <<>> /\ Path[1].op = "commit"
    BY <2>2, TakesPath DEF DescriptorsInv
  <2>4. NextOp # "attach" /\ acked # applied
    BY <2>2, <2>3 DEF NextOp, FirstOp
  <2> QED BY <2>4 DEF CommitsInv
<1>2. QED
  BY <1>1, ProtocolInvariant, PTL DEF Spec, AckBringsBuffer

=============================================================================
