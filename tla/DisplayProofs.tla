---------------------------- MODULE DisplayProofs -----------------------------
(***************************************************************************)
(* What holds of wl_display for any objects, files, sizes of requests, of   *)
(* the page, of the socket and of the count.                               *)
(*                                                                         *)
(* Requests and descriptors travel apart, and what keeps them together is a *)
(* count: on the whole way, page and socket together, as many descriptors   *)
(* wait as there are requests that need one; and in the socket no fewer,    *)
(* though a page cut short leaves descriptors there before their requests.  *)
(***************************************************************************)
EXTENDS Display, FiniteSetTheorems, TLAPS

\* As many descriptors as requests that come with one.
Matched(requests, fds) == FdsUpTo(requests, Len(requests)) = Len(fds)

\* No request lacks its descriptor.
Covered(requests, fds) == FdsUpTo(requests, Len(requests)) <= Len(fds)

\* The constructor runs once, before every other call.
Constructing == call = "wl_display" <=> at \in {"socket", "connect"}

\* The inductive invariant.
IInv ==
  /\ TypeOK
  /\ Constructing
  /\ UsesConnectedSocket
  /\ Covered(socket, rights)
  /\ Matched(socket \o queue.requests, rights \o queue.fds)

-----------------------------------------------------------------------------
(* Sequences. *)

LEMMA ConcatLemma ==
  ASSUME NEW S, NEW s \in Seq(S), NEW t \in Seq(S)
  PROVE  /\ s \o t \in Seq(S)
         /\ Len(s \o t) = Len(s) + Len(t)
         /\ DOMAIN (s \o t) = 1 .. (Len(s) + Len(t))
         /\ Len(s) \in Nat /\ Len(t) \in Nat
         /\ \A k \in 1 .. Len(s) : (s \o t)[k] = s[k]
         /\ \A k \in 1 .. Len(t) : (s \o t)[Len(s) + k] = t[k]
  OBVIOUS

LEMMA AppendLemma ==
  ASSUME NEW S, NEW s \in Seq(S), NEW e \in S
  PROVE  /\ Append(s, e) \in Seq(S)
         /\ Len(s) \in Nat /\ Len(Append(s, e)) = Len(s) + 1
         /\ DOMAIN Append(s, e) = 1 .. (Len(s) + 1) /\ DOMAIN s = 1 .. Len(s)
         /\ \A k \in 1 .. Len(s) : Append(s, e)[k] = s[k]
         /\ Append(s, e)[Len(s) + 1] = e
  OBVIOUS

LEMMA TailLemma ==
  ASSUME NEW S, NEW s \in Seq(S), s # <<>>
  PROVE  /\ Tail(s) \in Seq(S)
         /\ Head(s) \in S /\ Head(s) = s[1]
         /\ Len(s) \in Nat \ {0} /\ Len(Tail(s)) = Len(s) - 1
         /\ DOMAIN s = 1 .. Len(s) /\ DOMAIN Tail(s) = 1 .. (Len(s) - 1)
         /\ \A k \in 1 .. (Len(s) - 1) : Tail(s)[k] = s[k + 1]
  OBVIOUS

LEMMA SequenceEquality ==
  ASSUME NEW S, NEW s \in Seq(S), NEW t \in Seq(S), Len(s) = Len(t),
         \A k \in 1 .. Len(s) : s[k] = t[k]
  PROVE  s = t
  OBVIOUS

LEMMA ConcatAppend ==
  ASSUME NEW S, NEW s \in Seq(S), NEW t \in Seq(S), NEW e \in S
  PROVE  s \o Append(t, e) = Append(s \o t, e)
  OBVIOUS

LEMMA ConcatTail ==
  ASSUME NEW S, NEW s \in Seq(S), NEW t \in Seq(S), s # <<>>
  PROVE  /\ s \o t # <<>>
         /\ Head(s \o t) = Head(s) /\ Tail(s \o t) = Tail(s) \o t
  OBVIOUS

LEMMA SplitLemma ==
  ASSUME NEW S, NEW s \in Seq(S), NEW t \in Seq(S), NEW n \in 0 .. Len(s)
  PROVE  LET front == t \o SubSeq(s, 1, n)
             rest == SubSeq(s, n + 1, Len(s))
         IN  /\ front \in Seq(S) /\ Len(front) = Len(t) + n
             /\ \A k \in 1 .. (Len(t) + n) : front[k] = (t \o s)[k]
             /\ rest \in Seq(S)
             /\ front \o rest = t \o s
  <1> DEFINE a == SubSeq(s, 1, n)
             rest == SubSeq(s, n + 1, Len(s))
             front == t \o a
  <1>1. /\ a \in Seq(S) /\ Len(a) = n /\ n \in Nat /\ Len(s) \in Nat /\ n <= Len(s)
        /\ \A k \in 1 .. n : a[k] = s[k]
    OBVIOUS
  <1>2. /\ rest \in Seq(S) /\ Len(rest) = Len(s) - n
        /\ \A k \in 1 .. (Len(s) - n) : rest[k] = s[n + k]
    OBVIOUS
  <1> HIDE DEF a, rest
  <1>3. /\ front \in Seq(S) /\ Len(front) = Len(t) + n /\ Len(t) \in Nat
        /\ \A k \in 1 .. Len(t) : front[k] = t[k]
        /\ \A k \in 1 .. n : front[Len(t) + k] = s[k]
    <2>1. a \in Seq(S)
      BY <1>1
    <2>2. /\ t \o a \in Seq(S) /\ Len(t \o a) = Len(t) + Len(a) /\ Len(t) \in Nat
          /\ \A k \in 1 .. Len(t) : (t \o a)[k] = t[k]
          /\ \A k \in 1 .. Len(a) : (t \o a)[Len(t) + k] = a[k]
      BY <2>1, ConcatLemma
    <2> HIDE DEF front
    <2>3. front = t \o a
      BY DEF front
    <2> QED BY <1>1, <2>2, <2>3
  <1>4. /\ t \o s \in Seq(S) /\ Len(t \o s) = Len(t) + Len(s)
        /\ \A k \in 1 .. Len(t) : (t \o s)[k] = t[k]
        /\ \A k \in 1 .. Len(s) : (t \o s)[Len(t) + k] = s[k]
    BY ConcatLemma
  <1> HIDE DEF front
  <1>5. ASSUME NEW k \in 1 .. (Len(t) + n) PROVE front[k] = (t \o s)[k]
    <2>1. CASE k \in 1 .. Len(t)
      BY <1>3, <1>4, <2>1
    <2>2. CASE k \notin 1 .. Len(t)
      <3>1. k - Len(t) \in 1 .. n /\ k - Len(t) \in 1 .. Len(s) /\ Len(t) + (k - Len(t)) = k
        BY <1>1, <1>3, <2>2
      <3> QED BY <1>3, <1>4, <3>1
    <2> QED BY <2>1, <2>2
  <1>6. /\ front \o rest \in Seq(S) /\ Len(front \o rest) = Len(t) + Len(s)
        /\ \A k \in 1 .. (Len(t) + n) : (front \o rest)[k] = front[k]
        /\ \A k \in 1 .. (Len(s) - n) : (front \o rest)[Len(t) + n + k] = s[n + k]
    <2>1. /\ front \o rest \in Seq(S) /\ Len(front \o rest) = Len(front) + Len(rest)
          /\ \A k \in 1 .. Len(front) : (front \o rest)[k] = front[k]
          /\ \A k \in 1 .. Len(rest) : (front \o rest)[Len(front) + k] = rest[k]
      <3>1. front \in Seq(S) /\ rest \in Seq(S)
        BY <1>2, <1>3
      <3> QED BY <3>1, ConcatLemma
    <2> QED BY <1>1, <1>2, <1>3, <2>1
  <1>7. ASSUME NEW k \in 1 .. (Len(t) + Len(s)) PROVE (front \o rest)[k] = (t \o s)[k]
    <2>1. CASE k \in 1 .. (Len(t) + n)
      BY <1>5, <1>6, <2>1
    <2>2. CASE k \notin 1 .. (Len(t) + n)
      <3> DEFINE j == k - (Len(t) + n)
      <3>1. /\ j \in 1 .. (Len(s) - n) /\ n + j \in 1 .. Len(s)
            /\ k = Len(t) + n + j /\ k = Len(t) + (n + j)
        BY <1>1, <1>3, <2>2
      <3> HIDE DEF j
      <3> QED BY <1>4, <1>6, <3>1
    <2> QED BY <2>1, <2>2
  <1>8. front \o rest = t \o s
    BY <1>4, <1>6, <1>7, SequenceEquality
  <1> QED BY <1>2, <1>3, <1>5, <1>8 DEF front, a, rest

-----------------------------------------------------------------------------
(* Counting descriptors. *)

\* The count over a prefix is a natural number, and looks at the prefix only.
LEMMA CountType ==
  ASSUME NEW r \in Seq(Request), NEW k \in 0 .. Len(r)
  PROVE  /\ IsFiniteSet({i \in 1 .. k : r[i].has_fd})
         /\ FdsUpTo(r, k) \in Nat
  <1>1. IsFiniteSet(1 .. k)
    BY FS_Interval
  <1>2. {i \in 1 .. k : r[i].has_fd} \in SUBSET (1 .. k)
    OBVIOUS
  <1>3. IsFiniteSet({i \in 1 .. k : r[i].has_fd})
    BY <1>1, <1>2, FS_Subset
  <1> QED BY <1>3, FS_CardinalityType DEF FdsUpTo

LEMMA CountPrefix ==
  ASSUME NEW r \in Seq(Request), NEW s \in Seq(Request),
         NEW k \in 0 .. Len(r), k <= Len(s), \A i \in 1 .. k : r[i] = s[i]
  PROVE  FdsUpTo(r, k) = FdsUpTo(s, k)
  <1>1. {i \in 1 .. k : r[i].has_fd} = {i \in 1 .. k : s[i].has_fd}
    OBVIOUS
  <1> QED BY <1>1 DEF FdsUpTo

\* It is 0 at first, and each request with a descriptor adds one.
LEMMA CountStep ==
  ASSUME NEW r \in Seq(Request), NEW k \in 1 .. Len(r)
  PROVE  /\ FdsUpTo(r, 0) = 0
         /\ FdsUpTo(r, k) = FdsUpTo(r, k - 1) + (IF r[k].has_fd THEN 1 ELSE 0)
  <1> DEFINE with(j) == {i \in 1 .. j : r[i].has_fd}
  <1>1. with(0) = {}
    OBVIOUS
  <1>2. FdsUpTo(r, 0) = 0
    BY <1>1, FS_EmptySet DEF FdsUpTo
  <1>3. IsFiniteSet(with(k - 1)) /\ k - 1 \in 0 .. Len(r)
    BY CountType
  <1>4. CASE r[k].has_fd
    <2>1. with(k) = with(k - 1) \cup {k} /\ k \notin with(k - 1)
      BY <1>4
    <2> QED BY <1>2, <1>3, <1>4, <2>1, FS_AddElement DEF FdsUpTo
  <1>5. CASE ~r[k].has_fd
    <2>1. with(k) = with(k - 1)
      BY <1>5
    <2>2. FdsUpTo(r, k - 1) \in Nat
      BY <1>3, CountType
    <2>3. FdsUpTo(r, k) = FdsUpTo(r, k - 1)
      BY <2>1 DEF FdsUpTo
    <2> QED BY <1>2, <1>5, <2>2, <2>3
  <1> QED BY <1>4, <1>5

LEMMA CountMonotone ==
  ASSUME NEW r \in Seq(Request), NEW k \in 0 .. Len(r), NEW j \in 0 .. k
  PROVE  FdsUpTo(r, j) <= FdsUpTo(r, k)
  <1>1. IsFiniteSet({i \in 1 .. k : r[i].has_fd})
    BY CountType
  <1>2. {i \in 1 .. j : r[i].has_fd} \in SUBSET {i \in 1 .. k : r[i].has_fd}
    OBVIOUS
  <1> QED BY <1>1, <1>2, FS_Subset DEF FdsUpTo

\* A request with a descriptor has one that is counted.
LEMMA CountPositive ==
  ASSUME NEW r \in Seq(Request), NEW k \in 1 .. Len(r), r[k].has_fd
  PROVE  FdsUpTo(r, k) \in 1 .. FdsUpTo(r, Len(r))
  <1>1. k - 1 \in 0 .. Len(r) /\ k \in 0 .. Len(r) /\ Len(r) \in 0 .. Len(r)
    OBVIOUS
  <1>2. FdsUpTo(r, k - 1) \in Nat /\ FdsUpTo(r, k) \in Nat /\ FdsUpTo(r, Len(r)) \in Nat
    BY <1>1, CountType
  <1>3. FdsUpTo(r, k) <= FdsUpTo(r, Len(r))
    BY <1>1, CountMonotone
  <1> QED BY <1>2, <1>3, CountStep

\* The count over a concatenation is the sum of the counts.
LEMMA CountConcat ==
  ASSUME NEW r \in Seq(Request), NEW s \in Seq(Request), NEW k \in 0 .. Len(s)
  PROVE  FdsUpTo(r \o s, Len(r) + k) = FdsUpTo(r, Len(r)) + FdsUpTo(s, k)
  <1> DEFINE A == {i \in 1 .. Len(r) : r[i].has_fd}
             B == {i \in 1 .. k : s[i].has_fd}
             C == {i + Len(r) : i \in B}
             All == {i \in 1 .. (Len(r) + k) : (r \o s)[i].has_fd}
             f == [i \in B |-> i + Len(r)]
  <1>1. IsFiniteSet(A) /\ IsFiniteSet(B)
    BY CountType
  <1>2. IsFiniteSet(C) /\ Cardinality(C) = Cardinality(B)
    <2>1. f \in Bijection(B, C)
      BY DEF Bijection, Injection, Surjection, IsInjective
    <2>2. ExistsBijection(B, C)
      BY <2>1 DEF ExistsBijection
    <2> QED BY <1>1, <2>2, FS_Bijection
  <1>3. A \cap C = {} /\ All = A \cup C
    <2>1. A \cap C = {}
      OBVIOUS
    <2>2. ASSUME NEW i \in 1 .. Len(r) PROVE i \in All <=> i \in A
      BY ConcatLemma
    <2>3. ASSUME NEW i \in 1 .. k PROVE i + Len(r) \in All <=> i \in B
      BY ConcatLemma
    <2>4. ASSUME NEW i \in 1 .. (Len(r) + k)
          PROVE  i \in 1 .. Len(r) \/ (i - Len(r) \in 1 .. k /\ i = (i - Len(r)) + Len(r))
      OBVIOUS
    <2>5. All \subseteq A \cup C
      BY <2>2, <2>3, <2>4
    <2>6. A \cup C \subseteq All
      BY <2>2, <2>3
    <2> QED BY <2>1, <2>5, <2>6
  <1>4. Cardinality(A \cup C) = Cardinality(A) + Cardinality(C)
    <2>1. Cardinality(A \cup C) = Cardinality(A) + Cardinality(C) - Cardinality(A \cap C)
      BY <1>1, <1>2, FS_Union
    <2>2. Cardinality(A \cap C) = 0
      BY <1>3, FS_EmptySet
    <2> QED BY <1>1, <1>2, <2>1, <2>2, FS_CardinalityType
  <1> QED BY <1>2, <1>3, <1>4 DEF FdsUpTo

\* What keeps requests and descriptors matched: a request composed with its
\* descriptor, a page sent, a request received with the descriptor it takes.
LEMMA MatchedNone == Matched(<<>>, <<>>)
  <1>1. {i \in 1 .. 0 : (<<>>)[i].has_fd} = {}
    OBVIOUS
  <1> QED BY <1>1, FS_EmptySet DEF Matched, FdsUpTo

LEMMA MatchedAppend ==
  ASSUME NEW r \in Seq(Request), NEW fds \in Seq(Files), Matched(r, fds),
         NEW e \in Request, NEW fd, e.has_fd => fd \in Files
  PROVE  Matched(Append(r, e), IF e.has_fd THEN Append(fds, fd) ELSE fds)
  <1> DEFINE s == Append(r, e)
             n == Len(r)
  <1>1. /\ s \in Seq(Request) /\ Len(s) = n + 1 /\ n \in Nat /\ s[n + 1] = e
        /\ \A i \in 1 .. n : s[i] = r[i]
    BY AppendLemma
  <1>2. FdsUpTo(s, n + 1) = FdsUpTo(s, n) + (IF e.has_fd THEN 1 ELSE 0)
    <2>1. n + 1 \in 1 .. Len(s) /\ (n + 1) - 1 = n
      BY <1>1
    <2> HIDE DEF s, n
    <2> QED BY <1>1, <2>1, CountStep
  <1>3. FdsUpTo(s, n) = FdsUpTo(r, n)
    <2>1. n \in 0 .. Len(s) /\ n <= Len(r)
      BY <1>1
    <2> HIDE DEF s
    <2> QED BY <1>1, <2>1, CountPrefix
  <1>4. Len(fds) \in Nat /\ (e.has_fd => Len(Append(fds, fd)) = Len(fds) + 1)
    BY AppendLemma
  <1> QED BY <1>1, <1>2, <1>3, <1>4 DEF Matched

\* The count over the tail of a sequence of requests.
LEMMA CountTail ==
  ASSUME NEW r \in Seq(Request), r # <<>>, NEW k \in 0 .. (Len(r) - 1)
  PROVE  FdsUpTo(r, k + 1) = FdsUpTo(Tail(r), k) + (IF r[1].has_fd THEN 1 ELSE 0)
  <1> DEFINE h == <<Head(r)>>
             t == Tail(r)
  <1>1. /\ h \in Seq(Request) /\ Len(h) = 1 /\ h[1] = r[1] /\ r = h \o t
        /\ t \in Seq(Request)
    OBVIOUS
  <1>2. k \in 0 .. Len(t)
    BY TailLemma
  <1> HIDE DEF h, t
  <1>3. FdsUpTo(h, 1) = (IF r[1].has_fd THEN 1 ELSE 0)
    <2>1. 1 \in 1 .. Len(h) /\ 1 - 1 = 0
      BY <1>1
    <2>2. /\ FdsUpTo(h, 0) = 0
          /\ FdsUpTo(h, 1) = FdsUpTo(h, 1 - 1) + (IF h[1].has_fd THEN 1 ELSE 0)
      BY <1>1, <2>1, CountStep
    <2> QED BY <1>1, <2>1, <2>2
  <1>4. FdsUpTo(h \o t, Len(h) + k) = FdsUpTo(h, Len(h)) + FdsUpTo(t, k)
    BY <1>1, <1>2, CountConcat
  <1>5. Len(h) + k = k + 1
    BY <1>1
  <1>6. FdsUpTo(t, k) \in Nat
    BY <1>1, <1>2, CountType
  <1>7. FdsUpTo(r, k + 1) = FdsUpTo(t, k) + (IF r[1].has_fd THEN 1 ELSE 0)
    <2>1. FdsUpTo(r, k + 1) = FdsUpTo(h, 1) + FdsUpTo(t, k)
      BY <1>1, <1>4, <1>5
    <2> QED BY <1>3, <1>6, <2>1
  <1> QED BY <1>7 DEF t

LEMMA MatchedTail ==
  ASSUME NEW r \in Seq(Request), r # <<>>, NEW fds \in Seq(Files), Matched(r, fds)
  PROVE  /\ r[1].has_fd => fds # <<>>
         /\ Matched(Tail(r), IF r[1].has_fd THEN Tail(fds) ELSE fds)
  <1>1. /\ Tail(r) \in Seq(Request) /\ Len(r) \in Nat \ {0} /\ Len(Tail(r)) = Len(r) - 1
    BY TailLemma
  <1>2. FdsUpTo(r, Len(r)) = FdsUpTo(Tail(r), Len(r) - 1) + (IF r[1].has_fd THEN 1 ELSE 0)
    <2>1. Len(r) - 1 \in 0 .. (Len(r) - 1) /\ (Len(r) - 1) + 1 = Len(r)
      BY <1>1
    <2> QED BY <2>1, CountTail
  <1>3. FdsUpTo(Tail(r), Len(r) - 1) \in Nat
    <2>1. Len(r) - 1 \in 0 .. Len(Tail(r))
      BY <1>1
    <2> QED BY <1>1, <2>1, CountType
  <1>4. Len(fds) \in Nat /\ (Len(fds) = 0 <=> fds = <<>>)
    OBVIOUS
  <1>5. fds # <<>> => Len(Tail(fds)) = Len(fds) - 1
    BY TailLemma
  <1> QED BY <1>1, <1>2, <1>3, <1>4, <1>5 DEF Matched

LEMMA CoveredTail ==
  ASSUME NEW r \in Seq(Request), r # <<>>, NEW fds \in Seq(Files), Covered(r, fds)
  PROVE  /\ r[1].has_fd => fds # <<>>
         /\ Covered(Tail(r), IF r[1].has_fd THEN Tail(fds) ELSE fds)
  <1>1. /\ Tail(r) \in Seq(Request) /\ Len(r) \in Nat \ {0} /\ Len(Tail(r)) = Len(r) - 1
    BY TailLemma
  <1>2. FdsUpTo(r, Len(r)) = FdsUpTo(Tail(r), Len(r) - 1) + (IF r[1].has_fd THEN 1 ELSE 0)
    <2>1. Len(r) - 1 \in 0 .. (Len(r) - 1) /\ (Len(r) - 1) + 1 = Len(r)
      BY <1>1
    <2> QED BY <2>1, CountTail
  <1>3. FdsUpTo(Tail(r), Len(r) - 1) \in Nat
    <2>1. Len(r) - 1 \in 0 .. Len(Tail(r))
      BY <1>1
    <2> QED BY <1>1, <2>1, CountType
  <1>4. Len(fds) \in Nat /\ (Len(fds) = 0 <=> fds = <<>>)
    OBVIOUS
  <1>5. fds # <<>> => Len(Tail(fds)) = Len(fds) - 1
    BY TailLemma
  <1> QED BY <1>1, <1>2, <1>3, <1>4, <1>5 DEF Covered

\* The front of a matched path lacks no descriptor of all there are.
LEMMA CoveredFront ==
  ASSUME NEW r \in Seq(Request), NEW s \in Seq(Request), NEW fds \in Seq(Files),
         Matched(r, fds), Len(s) <= Len(r), \A k \in 1 .. Len(s) : s[k] = r[k]
  PROVE  Covered(s, fds)
  <1>1. Len(s) \in 0 .. Len(r) /\ Len(s) \in 0 .. Len(s) /\ Len(r) \in 0 .. Len(r)
    OBVIOUS
  <1>2. FdsUpTo(s, Len(s)) = FdsUpTo(r, Len(s))
    BY <1>1, CountPrefix
  <1>3. FdsUpTo(r, Len(s)) <= FdsUpTo(r, Len(r))
    BY <1>1, CountMonotone
  <1> QED BY <1>2, <1>3 DEF Matched, Covered

-----------------------------------------------------------------------------
(* Requests paired with their files. *)

\* The k-th message of a path.
PairedAt(requests, fds, k) ==
  [id |-> requests[k].id,
   file |-> IF ~requests[k].has_fd THEN NoFile
            ELSE IF FdsUpTo(requests, k) \in DOMAIN fds
                 THEN fds[FdsUpTo(requests, k)] ELSE NoFile]

LEMMA PairedType ==
  ASSUME NEW r \in Seq(Request), NEW fds \in Seq(Files)
  PROVE  /\ Paired(r, fds) \in Seq(Message)
         /\ Len(Paired(r, fds)) = Len(r)
         /\ \A k \in 1 .. Len(r) : Paired(r, fds)[k] = PairedAt(r, fds, k)
  <1>1. Paired(r, fds) = [k \in 1 .. Len(r) |-> PairedAt(r, fds, k)]
    BY DEF Paired, PairedAt
  <1>2. ASSUME NEW k \in 1 .. Len(r) PROVE PairedAt(r, fds, k) \in Message
    <2>1. r[k] \in Request
      OBVIOUS
    <2> QED BY <2>1 DEF PairedAt, Request, Message
  <1> QED BY <1>1, <1>2

\* A request composed with its file joins the end of the path.
LEMMA PairedAppend ==
  ASSUME NEW r \in Seq(Request), NEW fds \in Seq(Files), Matched(r, fds),
         NEW e \in Request, NEW fd, e.has_fd => fd \in Files
  PROVE  Paired(Append(r, e), IF e.has_fd THEN Append(fds, fd) ELSE fds)
           = Append(Paired(r, fds), [id |-> e.id, file |-> IF e.has_fd THEN fd ELSE NoFile])
  <1> DEFINE s == Append(r, e)
             gds == IF e.has_fd THEN Append(fds, fd) ELSE fds
             m == [id |-> e.id, file |-> IF e.has_fd THEN fd ELSE NoFile]
             n == Len(r)
  <1>1. /\ s \in Seq(Request) /\ Len(s) = n + 1 /\ n \in Nat /\ s[n + 1] = e
        /\ \A i \in 1 .. n : s[i] = r[i]
    BY AppendLemma
  <1>2. /\ gds \in Seq(Files) /\ Len(fds) \in Nat
        /\ DOMAIN fds = 1 .. Len(fds)
        /\ \A i \in 1 .. Len(fds) : i \in DOMAIN gds /\ gds[i] = fds[i]
        /\ e.has_fd => Len(fds) + 1 \in DOMAIN gds /\ gds[Len(fds) + 1] = fd
    BY AppendLemma
  <1>3. m \in Message
    BY DEF Request, Message
  <1>4. Matched(s, gds)
    BY MatchedAppend
  <1>5. FdsUpTo(s, n + 1) = Len(gds)
    BY <1>1, <1>4 DEF Matched
  <1>6. e.has_fd => Len(gds) = Len(fds) + 1
    BY AppendLemma
  <1>7. PairedAt(s, gds, n + 1) = m
    BY <1>1, <1>2, <1>5, <1>6 DEF PairedAt
  <1>8. ASSUME NEW k \in 1 .. n PROVE PairedAt(s, gds, k) = PairedAt(r, fds, k)
    <2>1. s[k] = r[k]
      BY <1>1
    <2>2. FdsUpTo(s, k) = FdsUpTo(r, k)
      <3>1. k \in 0 .. Len(s) /\ k <= Len(r) /\ \A i \in 1 .. k : s[i] = r[i]
        BY <1>1
      <3> HIDE DEF s
      <3> QED BY <1>1, <3>1, CountPrefix
    <2>3. r[k].has_fd => FdsUpTo(r, k) \in 1 .. Len(fds)
      BY CountPositive DEF Matched
    <2> HIDE DEF s, gds
    <2> QED BY <1>2, <2>1, <2>2, <2>3 DEF PairedAt
  <1> HIDE DEF s, gds, m, n
  <1>9. /\ Paired(s, gds) \in Seq(Message) /\ Len(Paired(s, gds)) = n + 1
        /\ \A k \in 1 .. (n + 1) : Paired(s, gds)[k] = PairedAt(s, gds, k)
    BY <1>1, <1>2, PairedType
  <1>10. /\ Paired(r, fds) \in Seq(Message) /\ Len(Paired(r, fds)) = n
         /\ \A k \in 1 .. n : Paired(r, fds)[k] = PairedAt(r, fds, k)
    BY PairedType DEF n
  <1>11. /\ Append(Paired(r, fds), m) \in Seq(Message)
         /\ Len(Append(Paired(r, fds), m)) = n + 1
         /\ \A k \in 1 .. n : Append(Paired(r, fds), m)[k] = Paired(r, fds)[k]
         /\ Append(Paired(r, fds), m)[n + 1] = m
    BY <1>3, <1>10, AppendLemma
  <1>12. \A k \in 1 .. (n + 1) : Paired(s, gds)[k] = Append(Paired(r, fds), m)[k]
    <2> SUFFICES ASSUME NEW k \in 1 .. (n + 1)
                 PROVE  Paired(s, gds)[k] = Append(Paired(r, fds), m)[k]
      OBVIOUS
    <2>1. CASE k \in 1 .. n
      BY <1>8, <1>9, <1>10, <1>11, <2>1
    <2>2. CASE k = n + 1
      BY <1>7, <1>9, <1>11, <2>2
    <2>3. k \in 1 .. n \/ k = n + 1
      <3>1. n \in Nat
        BY <1>1
      <3> QED BY <3>1
    <2> QED BY <2>1, <2>2, <2>3, Zenon
  <1>13. Paired(s, gds) = Append(Paired(r, fds), m)
    BY <1>9, <1>11, <1>12, SequenceEquality
  <1> QED BY <1>13 DEF s, gds, m

\* The request at the head of the path takes the first descriptor, and leaves the
\* others what they were.
LEMMA PairedTail ==
  ASSUME NEW r \in Seq(Request), NEW fds \in Seq(Files), Matched(r, fds), r # <<>>
  PROVE  /\ Paired(r, fds) # <<>>
         /\ Head(Paired(r, fds))
              = [id |-> r[1].id, file |-> IF r[1].has_fd THEN Head(fds) ELSE NoFile]
         /\ Paired(Tail(r), IF r[1].has_fd THEN Tail(fds) ELSE fds) = Tail(Paired(r, fds))
  <1> DEFINE s == Tail(r)
             gds == IF r[1].has_fd THEN Tail(fds) ELSE fds
             n == Len(r)
  <1>1. /\ s \in Seq(Request) /\ n \in Nat \ {0} /\ Len(s) = n - 1
        /\ \A k \in 1 .. (n - 1) : s[k] = r[k + 1]
    BY TailLemma
  <1>2. (r[1].has_fd => fds # <<>>) /\ Matched(s, gds)
    BY MatchedTail
  <1>3. /\ gds \in Seq(Files) /\ DOMAIN fds = 1 .. Len(fds) /\ Len(fds) \in Nat
        /\ DOMAIN gds = 1 .. Len(gds) /\ Len(gds) \in Nat
        /\ r[1].has_fd => /\ Head(fds) = fds[1] /\ Len(gds) = Len(fds) - 1
                          /\ \A k \in 1 .. Len(gds) : gds[k] = fds[k + 1]
        /\ ~r[1].has_fd => gds = fds
    BY <1>2, TailLemma
  <1>4. /\ Paired(r, fds) \in Seq(Message) /\ Len(Paired(r, fds)) = n
        /\ \A k \in 1 .. n : Paired(r, fds)[k] = PairedAt(r, fds, k)
    BY PairedType
  <1> HIDE DEF s, gds
  <1>5. /\ Paired(s, gds) \in Seq(Message) /\ Len(Paired(s, gds)) = n - 1
        /\ \A k \in 1 .. (n - 1) : Paired(s, gds)[k] = PairedAt(s, gds, k)
    BY <1>1, <1>3, PairedType
  <1> HIDE DEF n
  <1>6. /\ Paired(r, fds) # <<>> /\ Head(Paired(r, fds)) = Paired(r, fds)[1]
        /\ Tail(Paired(r, fds)) \in Seq(Message) /\ Len(Tail(Paired(r, fds))) = n - 1
        /\ \A k \in 1 .. (n - 1) : Tail(Paired(r, fds))[k] = Paired(r, fds)[k + 1]
    <2>1. Paired(r, fds) # <<>>
      BY <1>1, <1>4
    <2> QED BY <1>4, <2>1, TailLemma
  <1>7. PairedAt(r, fds, 1)
          = [id |-> r[1].id, file |-> IF r[1].has_fd THEN Head(fds) ELSE NoFile]
    <2>1. r[1].has_fd => FdsUpTo(r, 1) = 1
      <3>1. 1 \in 1 .. Len(r) /\ 1 - 1 = 0
        BY <1>1 DEF n
      <3>2. /\ FdsUpTo(r, 0) = 0
            /\ FdsUpTo(r, 1) = FdsUpTo(r, 0) + (IF r[1].has_fd THEN 1 ELSE 0)
        BY <3>1, CountStep
      <3> QED BY <3>2
    <2>2. r[1].has_fd => 1 \in DOMAIN fds
      BY <1>2, <1>3
    <2> QED BY <1>3, <2>1, <2>2 DEF PairedAt
  <1>8. ASSUME NEW k \in 1 .. (n - 1) PROVE PairedAt(s, gds, k) = PairedAt(r, fds, k + 1)
    <2>1. s[k] = r[k + 1] /\ k \in 1 .. Len(s)
      BY <1>1
    <2>2. FdsUpTo(r, k + 1) = FdsUpTo(s, k) + (IF r[1].has_fd THEN 1 ELSE 0)
      <3>1. k \in 0 .. (Len(r) - 1)
        BY <1>1 DEF n
      <3> QED BY <3>1, CountTail DEF s
    <2>3. s[k].has_fd => FdsUpTo(s, k) \in 1 .. Len(gds)
      BY <1>1, <1>2, <2>1, CountPositive DEF Matched
    <2>4. CASE ~s[k].has_fd
      BY <2>1, <2>4 DEF PairedAt
    <2>5. CASE s[k].has_fd /\ r[1].has_fd
      <3> DEFINE c == FdsUpTo(s, k)
      <3>1. c \in 1 .. Len(gds) /\ FdsUpTo(r, k + 1) = c + 1
        BY <2>2, <2>3, <2>5
      <3> HIDE DEF c
      <3>2. c \in DOMAIN gds /\ c + 1 \in DOMAIN fds /\ gds[c] = fds[c + 1]
        BY <1>3, <2>5, <3>1
      <3> QED BY <2>1, <2>5, <3>1, <3>2 DEF PairedAt, c
    <2>6. CASE s[k].has_fd /\ ~r[1].has_fd
      <3> DEFINE c == FdsUpTo(s, k)
      <3>1. gds = fds
        BY <1>3, <2>6
      <3>2. FdsUpTo(r, k + 1) = c
        <4>1. FdsUpTo(r, k + 1) = c + 0
          BY <2>2, <2>6
        <4>2. c \in Nat
          <5>1. k \in 0 .. Len(s)
            BY <2>1
          <5> QED BY <1>1, <5>1, CountType
        <4> HIDE DEF c
        <4> QED BY <4>1, <4>2
      <3> QED BY <2>1, <2>6, <3>1, <3>2 DEF PairedAt
    <2> QED BY <2>4, <2>5, <2>6
  <1>9. \A k \in 1 .. (n - 1) : Paired(s, gds)[k] = Tail(Paired(r, fds))[k]
    <2> SUFFICES ASSUME NEW k \in 1 .. (n - 1)
                 PROVE  Paired(s, gds)[k] = Tail(Paired(r, fds))[k]
      OBVIOUS
    <2>1. k + 1 \in 1 .. n
      BY <1>1
    <2> QED BY <1>4, <1>5, <1>6, <1>8, <2>1
  <1>10. Paired(s, gds) = Tail(Paired(r, fds))
    BY <1>5, <1>6, <1>9, SequenceEquality
  <1>11. 1 \in 1 .. n
    BY <1>1
  <1> QED BY <1>4, <1>6, <1>7, <1>10, <1>11 DEF s, gds

-----------------------------------------------------------------------------
(* The type invariant, the handle and the counts. *)

\* What a request does to the queue.
LEMMA AdvanceLemma ==
  ASSUME NEW q \in Queues(Request, Files), NEW bytes \in Nat
  PROVE  /\ Advance(q, bytes) \in Queues(Request, Files)
         /\ Advance(q, bytes).requests = q.requests /\ Advance(q, bytes).fds = q.fds
         /\ Advance(q, bytes).offset = q.offset + bytes
  BY DEF Advance, Queues

LEMMA AllocateLemma ==
  ASSUME NEW q \in Queues(Request, Files), NEW bytes \in Nat, NEW r \in Request
  PROVE  LET w == Allocate(q, <<r>>, bytes) IN
           /\ w \in Queues(Request, Files)
           /\ w.requests = Append(q.requests, r) /\ w.fds = q.fds
           /\ w.offset = q.offset + bytes
  <1> DEFINE a == Advance(q, bytes)
             s == a.requests \o <<r>>
  <1>1. /\ a \in Queues(Request, Files)
        /\ a.requests = q.requests /\ a.fds = q.fds /\ a.offset = q.offset + bytes
    BY AdvanceLemma
  <1>2. s = Append(q.requests, r) /\ s \in Seq(Request)
    <2> HIDE DEF a
    <2>1. q.requests \in Seq(Request)
      BY DEF Queues
    <2> QED BY <1>1, <2>1
  <1>3. Allocate(q, <<r>>, bytes) = [a EXCEPT !.requests = s]
    BY DEF Allocate
  <1> HIDE DEF a, s
  <1> QED BY <1>1, <1>2, <1>3 DEF Queues

LEMMA AddFDLemma ==
  ASSUME NEW q \in Queues(Request, Files), NEW fd \in Files
  PROVE  /\ AddFD(q, fd) \in Queues(Request, Files)
         /\ AddFD(q, fd).requests = q.requests /\ AddFD(q, fd).fds = Append(q.fds, fd)
         /\ AddFD(q, fd).offset = q.offset
  <1> DEFINE s == Append(q.fds, fd)
  <1>1. s \in Seq(Files)
    BY DEF Queues
  <1>2. AddFD(q, fd) = [q EXCEPT !.fds = s]
    BY DEF AddFD
  <1> HIDE DEF s
  <1>3. /\ AddFD(q, fd) \in Queues(Request, Files)
        /\ AddFD(q, fd).requests = q.requests /\ AddFD(q, fd).fds = s
        /\ AddFD(q, fd).offset = q.offset
    BY <1>1, <1>2 DEF Queues
  <1> QED BY <1>3 DEF s

\* A request composed: the queue, well typed, with the request at its end.
LEMMA ComposeLemma ==
  ASSUME IInv, NEW m \in Message, NEW bytes \in Bytes, Compose(m, bytes)
  PROVE  \/ /\ failure' = "overflow" /\ UNCHANGED msg_n
            /\ queue' \in Queues(Request, Files)
            /\ queue'.requests = queue.requests /\ queue'.fds = queue.fds
         \/ /\ UNCHANGED failure /\ msg_n' \in 0 .. (COUNT_MOD - 1)
            /\ queue' \in Queues(Request, Files) /\ queue'.offset < PAGE_SIZE
            /\ \E r \in Request, fd \in Files \cup {NoFile} :
                 /\ r.has_fd <=> m.file # NoFile
                 /\ r.has_fd => fd \in Files
                 /\ m = [id |-> r.id, file |-> IF r.has_fd THEN fd ELSE NoFile]
                 /\ queue'.requests = Append(queue.requests, r)
                 /\ queue'.fds = IF r.has_fd THEN Append(queue.fds, fd) ELSE queue.fds
  <1> DEFINE r == [id |-> m.id, has_fd |-> m.file # NoFile]
             w == Allocate(queue, <<r>>, bytes)
  <1>1. /\ queue \in Queues(Request, Files) /\ bytes \in Nat /\ queue.offset \in Nat
        /\ PAGE_SIZE \in Nat /\ msg_n \in 0 .. (COUNT_MOD - 1) /\ COUNT_MOD \in Nat \ {0}
    BY SendQueueAssumption, DisplayAssumption DEF IInv, TypeOK, Queues
  <1>2. /\ r \in Request
        /\ m.file # NoFile => m.file \in Files
        /\ m = [id |-> r.id, file |-> IF r.has_fd THEN m.file ELSE NoFile]
    BY DEF Request, Message
  <1>3. CASE Overflows(queue, bytes)
    <2>1. queue' = Advance(queue, bytes) /\ failure' = "overflow" /\ UNCHANGED msg_n
      BY <1>3 DEF Compose
    <2>2. /\ Advance(queue, bytes) \in Queues(Request, Files)
          /\ Advance(queue, bytes).requests = queue.requests
          /\ Advance(queue, bytes).fds = queue.fds
      BY <1>1, AdvanceLemma
    <2> QED BY <2>1, <2>2
  <1>4. CASE ~Overflows(queue, bytes)
    <2>1. /\ queue' = IF r.has_fd THEN AddFD(w, m.file) ELSE w
          /\ msg_n' = (msg_n + 1) % COUNT_MOD
          /\ UNCHANGED failure
      BY <1>4 DEF Compose
    <2>2. msg_n' \in 0 .. (COUNT_MOD - 1)
      BY <1>1, <2>1
    <2>3. queue.offset + bytes < PAGE_SIZE
      BY <1>1, <1>4 DEF Overflows
    <2>4. /\ queue' \in Queues(Request, Files)
          /\ queue'.offset = queue.offset + bytes
          /\ queue'.requests = Append(queue.requests, r)
          /\ queue'.fds = IF r.has_fd THEN Append(queue.fds, m.file) ELSE queue.fds
      <3>1. /\ w \in Queues(Request, Files)
            /\ w.requests = Append(queue.requests, r) /\ w.fds = queue.fds
            /\ w.offset = queue.offset + bytes
        BY <1>1, <1>2, AllocateLemma
      <3> HIDE DEF r, w
      <3>2. CASE r.has_fd
        <4>1. m.file \in Files /\ queue' = AddFD(w, m.file)
          BY <1>2, <2>1, <3>2 DEF r
        <4>2. /\ AddFD(w, m.file) \in Queues(Request, Files)
              /\ AddFD(w, m.file).requests = w.requests
              /\ AddFD(w, m.file).fds = Append(w.fds, m.file)
              /\ AddFD(w, m.file).offset = w.offset
          BY <3>1, <4>1, AddFDLemma
        <4> QED BY <3>1, <3>2, <4>1, <4>2
      <3>3. CASE ~r.has_fd
        BY <2>1, <3>1, <3>3
      <3> QED BY <3>2, <3>3
    <2>5. m.file \in Files \cup {NoFile} /\ (r.has_fd <=> m.file # NoFile)
      BY DEF Message
    <2> HIDE DEF r, w
    <2> QED BY <1>2, <2>1, <2>2, <2>3, <2>4, <2>5
  <1> QED BY <1>3, <1>4

\* What the invariant says of the variables that requests go through.
PathOK ==
  /\ queue \in Queues(Request, Files)
  /\ failure = "none" => queue.offset < PAGE_SIZE
  /\ msg_n \in 0 .. (COUNT_MOD - 1)
  /\ failure \in {"none", "connect", "overflow", "overrun", "send", "recv", "event"}
  /\ socket \in Seq(Request)
  /\ rights \in Seq(Files)
  /\ Covered(socket, rights)
  /\ Matched(socket \o queue.requests, rights \o queue.fds)

LEMMA PathUnchanged ==
  ASSUME IInv, UNCHANGED sending,
         failure' \in {failure, "connect", "overflow", "overrun", "send", "recv", "event"}
  PROVE  PathOK'
  BY DEF IInv, TypeOK, PathOK, sending, Matched, Covered, FdsUpTo

\* dispatch_pending does nothing, fails, or moves requests and all descriptors
\* to the socket, every request unless it fails.
LEMMA DispatchCases ==
  ASSUME dispatch_pending
  PROVE  \/ UNCHANGED sending /\ failure' \in {failure, "overrun", "send"}
         \/ Send
         \/ \E n \in 0 .. (Len(queue.requests) - 1) : SendCutShort(n)
  BY DEF dispatch_pending, SendFails

LEMMA SendPath ==
  ASSUME IInv, Send
  PROVE  PathOK'
  <1> DEFINE path == socket \o queue.requests
             fds == rights \o queue.fds
  <1>1. /\ path \in Seq(Request) /\ fds \in Seq(Files) /\ Matched(path, fds)
        /\ msg_n \in 0 .. (COUNT_MOD - 1)
        /\ failure \in {"none", "connect", "overflow", "overrun", "send", "recv", "event"}
    BY DEF IInv, TypeOK, Queues
  <1>2. /\ socket' = path /\ rights' = fds
        /\ queue' = EmptyQueue /\ UNCHANGED <<msg_n, failure>>
    BY DEF Send, Flushed
  <1>3. /\ EmptyQueue \in Queues(Request, Files) /\ EmptyQueue.offset < PAGE_SIZE
        /\ EmptyQueue.requests = <<>> /\ EmptyQueue.fds = <<>>
    BY SendQueueAssumption DEF EmptyQueue, Queues
  <1> HIDE DEF path, fds
  <1>4. path \o <<>> = path /\ fds \o <<>> = fds
    BY <1>1
  <1>5. Covered(path, fds)
    BY <1>1, CoveredFront
  <1> QED
    BY <1>1, <1>2, <1>3, <1>4, <1>5 DEF PathOK, Matched, Covered, FdsUpTo

LEMMA CutShortPath ==
  ASSUME IInv, NEW n \in 0 .. (Len(queue.requests) - 1), SendCutShort(n)
  PROVE  PathOK'
  <1> DEFINE path == socket \o queue.requests
             fds == rights \o queue.fds
             front == socket \o SubSeq(queue.requests, 1, n)
             rest == SubSeq(queue.requests, n + 1, Len(queue.requests))
  <1>1. /\ socket \in Seq(Request) /\ rights \in Seq(Files)
        /\ queue \in Queues(Request, Files)
        /\ queue.requests \in Seq(Request) /\ queue.fds \in Seq(Files)
        /\ Matched(path, fds) /\ msg_n \in 0 .. (COUNT_MOD - 1)
    BY DEF IInv, TypeOK, Queues
  <1>2. n \in 0 .. Len(queue.requests)
    BY <1>1
  <1>3. /\ front \in Seq(Request) /\ Len(front) = Len(socket) + n
        /\ \A k \in 1 .. (Len(socket) + n) : front[k] = path[k]
        /\ rest \in Seq(Request) /\ front \o rest = path
    BY <1>1, <1>2, SplitLemma
  <1>4. /\ path \in Seq(Request) /\ Len(front) <= Len(path)
        /\ fds \in Seq(Files) /\ fds \o <<>> = fds
    <2>1. Len(path) = Len(socket) + Len(queue.requests) /\ path \in Seq(Request)
      BY <1>1, ConcatLemma
    <2>2. Len(socket) \in Nat /\ Len(queue.requests) \in Nat
      BY <1>1
    <2>3. fds \in Seq(Files) /\ fds \o <<>> = fds
      BY <1>1
    <2> HIDE DEF path, front, fds
    <2> QED BY <1>2, <1>3, <2>1, <2>2, <2>3
  <1>5. /\ socket' = front /\ rights' = fds
        /\ queue' = [queue EXCEPT !.requests = rest, !.fds = <<>>]
        /\ failure' = "send" /\ UNCHANGED msg_n
    BY DEF SendCutShort
  <1> HIDE DEF path, fds, front, rest
  <1>6. Covered(front, fds)
    BY <1>1, <1>3, <1>4, CoveredFront
  <1>7. /\ queue' \in Queues(Request, Files)
        /\ queue'.requests = rest /\ queue'.fds = <<>>
    <2>1. <<>> \in Seq(Files)
      OBVIOUS
    <2> QED BY <1>1, <1>3, <1>5, <2>1 DEF Queues
  <1> QED
    BY <1>1, <1>3, <1>4, <1>5, <1>6, <1>7 DEF PathOK, Matched, Covered, FdsUpTo

LEMMA DispatchPath == IInv /\ dispatch_pending => PathOK'
  BY DispatchCases, PathUnchanged, SendPath, CutShortPath

\* The rest of the invariant, from the variables the calls go through.
LEMMA Assemble ==
  ASSUME PathOK',
         handle' \in {"none", "invalid", "open", "connected"},
         call' \in {"wl_display", "none", "roundtrip", "flush"},
         at' \in {"socket", "connect", "caller", "peek", "recv", "events"},
         batch' \in Nat, unread' \in 0 .. MaxUnread, hung_up' \in BOOLEAN,
         delivered' \in Message \cup {NoMessage},
         Constructing', UsesConnectedSocket'
  PROVE  IInv'
  BY DEF PathOK, IInv, TypeOK, Matched, Covered, FdsUpTo

LEMMA InitInv == Init => IInv
  <1> SUFFICES ASSUME Init PROVE IInv
    OBVIOUS
  <1>1. /\ EmptyQueue \in Queues(Request, Files) /\ EmptyQueue.offset = 0
        /\ EmptyQueue.requests = <<>> /\ EmptyQueue.fds = <<>>
    BY DEF EmptyQueue, Queues
  <1>2. TypeOK
    <2>1. 0 \in 0 .. (COUNT_MOD - 1) /\ 0 \in 0 .. MaxUnread /\ 0 < PAGE_SIZE
      BY SendQueueAssumption, DisplayAssumption
    <2>2. socket \in Seq(Request) /\ rights \in Seq(Files)
      BY DEF Init
    <2> QED BY <1>1, <2>1, <2>2 DEF Init, TypeOK
  <1>3. /\ Covered(socket, rights)
        /\ Matched(socket \o queue.requests, rights \o queue.fds)
    <2>1. socket = <<>> /\ rights = <<>>
      BY DEF Init
    <2>2. socket \o queue.requests = <<>> /\ rights \o queue.fds = <<>>
      BY <1>1 DEF Init
    <2>3. FdsUpTo(<<>>, Len(<<>>)) = Len(<<>>) /\ Len(<<>>) = 0
      BY MatchedNone DEF Matched
    <2> QED BY <2>1, <2>2, <2>3, MatchedNone DEF Covered
  <1> QED BY <1>2, <1>3 DEF Init, IInv, Constructing, UsesConnectedSocket

LEMMA NextInv == IInv /\ [Next]_vars => IInv'
  <1> SUFFICES ASSUME IInv, [Next]_vars PROVE IInv'
    OBVIOUS
  <1> USE DEF Constructing, UsesConnectedSocket
  <1>0. /\ handle \in {"none", "invalid", "open", "connected"}
        /\ call \in {"wl_display", "none", "roundtrip", "flush"}
        /\ at \in {"socket", "connect", "caller", "peek", "recv", "events"}
        /\ batch \in Nat /\ unread \in 0 .. MaxUnread /\ hung_up \in BOOLEAN
        /\ delivered \in Message \cup {NoMessage} /\ MaxUnread \in Nat
        /\ Constructing /\ UsesConnectedSocket
    BY DisplayAssumption DEF IInv, TypeOK
  <1>1. CASE Socket
    <2>1. PathOK'
      BY <1>1, PathUnchanged DEF Socket
    <2> QED BY <1>0, <1>1, <2>1, Assemble DEF Socket, Runs
  <1>2. CASE Connect
    <2>1. PathOK'
      BY <1>2, PathUnchanged DEF Connect
    <2> QED BY <1>0, <1>2, <2>1, Assemble DEF Connect, Runs
  <1>3. CASE Call_dispatch_pending
    <2>1. PathOK'
      BY <1>3, DispatchPath DEF Call_dispatch_pending
    <2> QED BY <1>0, <1>3, <2>1, Assemble DEF Call_dispatch_pending, InApplication
  <1>4. CASE Roundtrip
    <2>1. PathOK'
      BY <1>4, DispatchPath DEF Roundtrip
    <2> QED BY <1>0, <1>4, <2>1, Assemble DEF Roundtrip, Runs
  <1>5. CASE Flush
    <2>1. PathOK'
      BY <1>5, PathUnchanged DEF Flush
    <2> QED BY <1>0, <1>5, <2>1, Assemble DEF Flush, Runs
  <1>6. CASE Peek
    <2>1. PathOK'
      BY <1>6, DispatchPath, PathUnchanged DEF Peek
    <2> QED BY <1>0, <1>6, <2>1, Assemble DEF Peek, Runs
  <1>7. CASE Recv
    <2>1. PathOK'
      BY <1>7, PathUnchanged DEF Recv
    <2>2. unread \in Nat /\ 0 \in 0 .. MaxUnread
      BY <1>0
    <2> QED BY <1>0, <1>7, <2>1, <2>2, Assemble DEF Recv
  <1>8. CASE EventHandled
    <2>1. PathOK'
      BY <1>8, PathUnchanged DEF EventHandled
    <2>2. batch' \in Nat
      BY <1>0, <1>8 DEF EventHandled
    <2> QED BY <1>0, <1>8, <2>1, <2>2, Assemble DEF EventHandled
  <1>9. CASE Return
    <2>1. PathOK'
      BY <1>9, DispatchPath, PathUnchanged DEF Return
    <2> QED BY <1>0, <1>9, <2>1, Assemble DEF Return
  <1>10. ASSUME NEW m \in Message, NEW bytes \in Bytes, Compose(m, bytes)
         PROVE  IInv'
    <2>1. UNCHANGED <<handle, call, at, batch, socket, rights, unread, hung_up, delivered>>
          /\ failure = "none"
      BY <1>10 DEF Compose, InApplication
    <2> DEFINE path == socket \o queue.requests
               fds == rights \o queue.fds
    <2>2. /\ socket \in Seq(Request) /\ rights \in Seq(Files)
          /\ queue.requests \in Seq(Request) /\ queue.fds \in Seq(Files)
          /\ path \in Seq(Request) /\ fds \in Seq(Files)
          /\ Covered(socket, rights) /\ Matched(path, fds)
          /\ msg_n \in 0 .. (COUNT_MOD - 1)
      BY DEF IInv, TypeOK, Queues
    <2>3. Covered(socket', rights')
      BY <2>1, <2>2 DEF Covered, FdsUpTo
    <2>4. Matched(socket' \o queue'.requests, rights' \o queue'.fds)
      <3>1. CASE queue'.requests = queue.requests /\ queue'.fds = queue.fds
        BY <2>1, <2>2, <3>1
      <3>2. ASSUME NEW r \in Request, NEW fd \in Files \cup {NoFile},
                   r.has_fd => fd \in Files,
                   queue'.requests = Append(queue.requests, r),
                   queue'.fds = IF r.has_fd THEN Append(queue.fds, fd) ELSE queue.fds
            PROVE  Matched(socket' \o queue'.requests, rights' \o queue'.fds)
        <4>1. socket' \o queue'.requests = Append(path, r)
          BY <2>1, <2>2, <3>2, ConcatAppend
        <4>2. rights' \o queue'.fds = IF r.has_fd THEN Append(fds, fd) ELSE fds
          <5>1. ASSUME r.has_fd PROVE rights \o Append(queue.fds, fd) = Append(fds, fd)
            <6>1. fd \in Files
              BY <3>2, <5>1
            <6> QED BY <2>2, <6>1, ConcatAppend
          <5> QED BY <2>1, <3>2, <5>1
        <4>3. Matched(Append(path, r), IF r.has_fd THEN Append(fds, fd) ELSE fds)
          <5> HIDE DEF path, fds
          <5> QED BY <2>2, <3>2, MatchedAppend
        <4> QED BY <4>1, <4>2, <4>3
      <3> QED BY <1>10, <3>1, <3>2, ComposeLemma
    <2>5. PathOK'
      BY <1>10, <2>1, <2>2, <2>3, <2>4, ComposeLemma DEF PathOK, Matched, Covered, FdsUpTo
    <2> QED BY <1>0, <2>1, <2>5, Assemble
  <1>11. CASE Receive
    <2>1. /\ UNCHANGED <<handle, call, at, batch, queue, msg_n, failure, unread, hung_up>>
          /\ socket # <<>> /\ socket' = Tail(socket)
          /\ rights' = IF Head(socket).has_fd THEN Tail(rights) ELSE rights
          /\ delivered' = [id |-> Head(socket).id,
                           file |-> IF Head(socket).has_fd THEN Head(rights) ELSE NoFile]
      BY <1>11 DEF Receive
    <2> DEFINE path == socket \o queue.requests
               fds == rights \o queue.fds
    <2>2. /\ socket \in Seq(Request) /\ rights \in Seq(Files)
          /\ queue.requests \in Seq(Request) /\ queue.fds \in Seq(Files)
          /\ path \in Seq(Request) /\ fds \in Seq(Files)
          /\ Covered(socket, rights) /\ Matched(path, fds)
      BY DEF IInv, TypeOK, Queues
    <2>3. /\ Head(socket) \in Request /\ Head(socket) = socket[1]
          /\ Tail(socket) \in Seq(Request)
      BY <2>1, <2>2
    <2>4. /\ Head(socket).has_fd => rights # <<>>
          /\ Covered(socket', rights')
      BY <2>1, <2>2, <2>3, CoveredTail
    <2>5. Head(socket).has_fd => Head(rights) \in Files /\ Tail(rights) \in Seq(Files)
      BY <2>2, <2>4
    <2>6. delivered' \in Message
      BY <2>1, <2>3, <2>5 DEF Request, Message
    <2>7. Matched(socket' \o queue'.requests, rights' \o queue'.fds)
      <3>1. socket' \o queue'.requests = Tail(path) /\ path # <<>> /\ path[1] = socket[1]
        <4>1. path # <<>> /\ Head(path) = Head(socket) /\ Tail(path) = Tail(socket) \o queue.requests
          BY <2>1, <2>2, ConcatTail
        <4>2. path[1] = Head(path)
          <5> HIDE DEF path
          <5> QED BY <2>2, <4>1
        <4> QED BY <2>1, <2>3, <4>1, <4>2
      <3>2. rights' \o queue'.fds = IF path[1].has_fd THEN Tail(fds) ELSE fds
        <4>1. rights # <<>> => Tail(fds) = Tail(rights) \o queue.fds
          BY <2>2, ConcatTail
        <4> QED BY <2>1, <2>3, <2>4, <3>1, <4>1
      <3>3. Matched(Tail(path), IF path[1].has_fd THEN Tail(fds) ELSE fds)
        <4> HIDE DEF path, fds
        <4> QED BY <2>2, <3>1, MatchedTail
      <3> QED BY <3>1, <3>2, <3>3
    <2>8. PathOK'
      BY <2>1, <2>2, <2>3, <2>4, <2>5, <2>7 DEF IInv, TypeOK, PathOK, Matched, Covered, FdsUpTo
    <2> QED BY <1>0, <2>1, <2>6, <2>8, Assemble
  <1>12. CASE Emit
    <2>1. PathOK'
      BY <1>12, PathUnchanged DEF Emit
    <2>2. unread' \in 0 .. MaxUnread
      BY <1>0, <1>12 DEF Emit
    <2> QED BY <1>0, <1>12, <2>1, <2>2, Assemble DEF Emit
  <1>13. CASE HangUp
    <2>1. PathOK'
      BY <1>13, PathUnchanged DEF HangUp
    <2> QED BY <1>0, <1>13, <2>1, Assemble DEF HangUp
  <1>14. CASE UNCHANGED vars
    <2>1. PathOK'
      BY <1>14, PathUnchanged DEF vars
    <2> QED BY <1>0, <1>14, <2>1, Assemble DEF vars
  <1> QED
    BY <1>1, <1>2, <1>3, <1>4, <1>5, <1>6, <1>7, <1>8, <1>9, <1>10, <1>11, <1>12, <1>13, <1>14
    DEF Next, Client

\* The inductive invariant holds in every state of the display.
THEOREM Invariant == Spec => []IInv
  BY InitInv, NextInv, PTL DEF Spec

\* The state of wl_display and its queues is what its type says: for one thing
\* the compositor never lacks the descriptor of the request it reads.
THEOREM TypeCorrect == Spec => []TypeOK
  <1>1. IInv => TypeOK
    BY DEF IInv
  <1> QED BY <1>1, Invariant, PTL

\* create_wayland_socket: once the constructor has returned, the socket of the
\* display is connected, although the check of socket() cannot fail.
THEOREM AlwaysConnected == Spec => []UsesConnectedSocket
  <1>1. IInv => UsesConnectedSocket
    BY DEF IInv
  <1> QED BY <1>1, Invariant, PTL

-----------------------------------------------------------------------------
(* The path of a request implements the Outbox. *)

\* No request is under way at first.
LEMMA InitRefines == Init => Path!Init
  <1> SUFFICES ASSUME Init PROVE Path!Init
    OBVIOUS
  <1>1. Paired(<<>>, <<>>) = <<>>
    BY DEF Paired
  <1>2. socket \o queue.requests = <<>> /\ rights \o queue.fds = <<>>
    BY DEF Init, EmptyQueue
  <1> QED BY <1>1, <1>2 DEF Init, Path!Init

\* A step that leaves the path alone, or moves it on, is invisible.
LEMMA StillRefines ==
  ASSUME IInv, UNCHANGED delivered,
         \/ UNCHANGED sending
         \/ Send
         \/ \E n \in 0 .. (Len(queue.requests) - 1) : SendCutShort(n)
  PROVE  UNCHANGED <<Paired(socket \o queue.requests, rights \o queue.fds), delivered>>
  <1>1. /\ socket \in Seq(Request) /\ rights \in Seq(Files)
        /\ queue \in Queues(Request, Files)
        /\ queue.requests \in Seq(Request) /\ queue.fds \in Seq(Files)
    BY DEF IInv, TypeOK, Queues
  <1>2. CASE UNCHANGED sending
    BY <1>2 DEF sending, Paired, FdsUpTo
  <1>3. CASE Send
    <2>1. /\ socket' = socket \o queue.requests /\ queue'.requests = <<>>
          /\ rights' = rights \o queue.fds /\ queue'.fds = <<>>
      BY <1>3 DEF Send, Flushed, EmptyQueue
    <2>2. socket' \o queue'.requests = socket \o queue.requests
      BY <1>1, <2>1
    <2>3. rights' \o queue'.fds = rights \o queue.fds
      BY <1>1, <2>1
    <2> QED BY <2>2, <2>3 DEF Paired, FdsUpTo
  <1>4. ASSUME NEW n \in 0 .. (Len(queue.requests) - 1), SendCutShort(n)
        PROVE  UNCHANGED <<Paired(socket \o queue.requests, rights \o queue.fds), delivered>>
    <2> DEFINE front == socket \o SubSeq(queue.requests, 1, n)
               rest == SubSeq(queue.requests, n + 1, Len(queue.requests))
    <2>1. n \in 0 .. Len(queue.requests)
      BY <1>1
    <2>2. front \o rest = socket \o queue.requests
      BY <1>1, <2>1, SplitLemma
    <2>3. /\ socket' = front /\ rights' = rights \o queue.fds
          /\ queue' = [queue EXCEPT !.requests = rest, !.fds = <<>>]
      BY <1>4 DEF SendCutShort
    <2> HIDE DEF front, rest
    <2>4. queue'.requests = rest /\ queue'.fds = <<>>
      BY <1>1, <2>3 DEF Queues
    <2>5. rights' \o queue'.fds = rights \o queue.fds
      BY <1>1, <2>3, <2>4
    <2>6. socket' \o queue'.requests = socket \o queue.requests
      BY <2>2, <2>3, <2>4
    <2> QED BY <2>5, <2>6 DEF Paired, FdsUpTo
  <1> QED BY <1>2, <1>3, <1>4

\* Every step of the display and the compositor is a step of the Outbox or none.
LEMMA StepRefines ==
  IInv /\ [Next]_vars
    => [Path!Next]_<<Paired(socket \o queue.requests, rights \o queue.fds), delivered>>
  <1> SUFFICES ASSUME IInv, [Next]_vars
               PROVE  \/ Path!Compose \/ Path!Deliver
                      \/ UNCHANGED <<Paired(socket \o queue.requests, rights \o queue.fds),
                                     delivered>>
    BY DEF Path!Next
  <1>1. /\ socket \in Seq(Request) /\ rights \in Seq(Files)
        /\ queue.requests \in Seq(Request) /\ queue.fds \in Seq(Files)
        /\ Covered(socket, rights)
        /\ Matched(socket \o queue.requests, rights \o queue.fds)
    BY DEF IInv, TypeOK, Queues
  <1> DEFINE path == socket \o queue.requests
             fds == rights \o queue.fds
  <1>2. path \in Seq(Request) /\ fds \in Seq(Files) /\ Matched(path, fds)
    BY <1>1
  <1>3. CASE (Client \/ Emit \/ HangUp \/ UNCHANGED vars) /\ ~Receive
    <2>1. /\ UNCHANGED delivered
          /\ \/ UNCHANGED sending
             \/ Send
             \/ \E n \in 0 .. (Len(queue.requests) - 1) : SendCutShort(n)
      BY <1>3, DispatchCases
      DEF Client, Socket, Connect, Call_dispatch_pending, Roundtrip, Flush, Peek, Recv,
          EventHandled, Return, Emit, HangUp, vars, sending
    <2> QED BY <2>1, StillRefines
  <1>4. ASSUME NEW m \in Message, NEW bytes \in Bytes, Compose(m, bytes)
        PROVE  \/ Path!Compose
               \/ UNCHANGED <<Paired(socket \o queue.requests, rights \o queue.fds),
                              delivered>>
    <2>1. UNCHANGED <<socket, rights, delivered>>
      BY <1>4 DEF Compose
    <2>2. CASE queue'.requests = queue.requests /\ queue'.fds = queue.fds
      BY <2>1, <2>2 DEF Paired, FdsUpTo
    <2>3. ASSUME NEW r \in Request, NEW fd \in Files \cup {NoFile},
                 r.has_fd => fd \in Files,
                 m = [id |-> r.id, file |-> IF r.has_fd THEN fd ELSE NoFile],
                 queue'.requests = Append(queue.requests, r),
                 queue'.fds = IF r.has_fd THEN Append(queue.fds, fd) ELSE queue.fds
          PROVE  Path!Compose
      <3>1. socket' \o queue'.requests = Append(path, r)
        BY <1>1, <2>1, <2>3, ConcatAppend
      <3>2. rights' \o queue'.fds = IF r.has_fd THEN Append(fds, fd) ELSE fds
        <4>1. r.has_fd => rights \o Append(queue.fds, fd) = Append(fds, fd)
          BY <1>1, <2>3, ConcatAppend
        <4> QED BY <2>1, <2>3, <4>1
      <3>3. Paired(Append(path, r), IF r.has_fd THEN Append(fds, fd) ELSE fds)
              = Append(Paired(path, fds), m)
        <4> HIDE DEF path, fds
        <4> QED BY <1>2, <2>3, PairedAppend
      <3>4. Paired(socket' \o queue'.requests, rights' \o queue'.fds)
              = Append(Paired(path, fds), m)
        BY <3>1, <3>2, <3>3
      <3>5. Paired(socket \o queue.requests, rights \o queue.fds)'
              = Paired(socket' \o queue'.requests, rights' \o queue'.fds)
        BY DEF Paired, FdsUpTo
      <3> QED BY <2>1, <3>4, <3>5 DEF Path!Compose
    <2> QED BY <1>4, <2>2, <2>3, ComposeLemma
  <1>5. CASE Receive
    <2>1. /\ UNCHANGED queue
          /\ socket # <<>> /\ socket' = Tail(socket)
          /\ rights' = IF Head(socket).has_fd THEN Tail(rights) ELSE rights
          /\ delivered' = [id |-> Head(socket).id,
                           file |-> IF Head(socket).has_fd THEN Head(rights) ELSE NoFile]
      BY <1>5 DEF Receive
    <2>2. Head(socket).has_fd => rights # <<>>
      <3>1. Head(socket) = socket[1]
        BY <1>1, <2>1
      <3> QED BY <1>1, <2>1, <3>1, CoveredTail
    <2>3. /\ path # <<>> /\ Head(path) = Head(socket)
          /\ socket' \o queue'.requests = Tail(path)
      BY <1>1, <2>1, ConcatTail
    <2>4. /\ Head(socket).has_fd => Head(fds) = Head(rights)
          /\ rights' \o queue'.fds = IF Head(socket).has_fd THEN Tail(fds) ELSE fds
      <3>1. rights # <<>> => /\ Head(fds) = Head(rights)
                             /\ Tail(fds) = Tail(rights) \o queue.fds
        BY <1>1, ConcatTail
      <3> QED BY <2>1, <2>2, <3>1
    <2>5. Head(path) = path[1]
      <3> HIDE DEF path
      <3> QED BY <1>2, <2>3
    <2>6. /\ Paired(path, fds) # <<>>
          /\ Head(Paired(path, fds))
               = [id |-> path[1].id, file |-> IF path[1].has_fd THEN Head(fds) ELSE NoFile]
          /\ Paired(Tail(path), IF path[1].has_fd THEN Tail(fds) ELSE fds)
               = Tail(Paired(path, fds))
      <3> HIDE DEF path, fds
      <3> QED BY <1>2, <2>3, PairedTail
    <2>7. Paired(socket' \o queue'.requests, rights' \o queue'.fds) = Tail(Paired(path, fds))
      BY <2>3, <2>4, <2>5, <2>6
    <2>8. delivered' = Head(Paired(path, fds))
      BY <2>1, <2>3, <2>4, <2>5, <2>6
    <2>9. Paired(socket \o queue.requests, rights \o queue.fds)'
            = Paired(socket' \o queue'.requests, rights' \o queue'.fds)
      BY DEF Paired, FdsUpTo
    <2> QED BY <2>6, <2>7, <2>8, <2>9 DEF Path!Deliver
  <1> QED BY <1>3, <1>4, <1>5 DEF Next

\* Whatever is composed, sent and received in whatever order, each request reaches
\* the compositor once, in the order of composition and with its own file.
THEOREM PathImplementsOutbox == Spec => DeliversInOrder
  <1>1. Init /\ []IInv /\ [][Next]_vars
          => /\ Path!Init
             /\ [][Path!Next]_<<Paired(socket \o queue.requests, rights \o queue.fds),
                                delivered>>
    BY InitRefines, StepRefines, PTL
  <1> QED BY <1>1, Invariant, PTL DEF Spec, DeliversInOrder, Path!Spec

=============================================================================
