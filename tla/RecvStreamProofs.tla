-------------------------- MODULE RecvStreamProofs ---------------------------
(***************************************************************************)
(* What holds of the path of an event for any page, any sizes of events and *)
(* any number of them.  Types hold always, and so does it that payload is   *)
(* not taken for a header (FrameKept).  Every event is handled whole and in *)
(* order until, for the first time, more than a page of them has waited.    *)
(***************************************************************************)
EXTENDS RecvStream, FiniteSetTheorems, FunctionTheorems, TLAPS

\* Every word stands among all the words of its event.
Whole(words) ==
  \A i \in DOMAIN words :
    LET event == words[i].event
        first == i - words[i].pos
    IN /\ words[i].pos < event.size
       /\ \A k \in 1 .. event.size :
            first + k - 1 \in DOMAIN words /\ words[first + k - 1] = Word(event, k - 1)

Firsts(words) == {i \in DOMAIN words : words[i].pos = 0}

\* `starts' lists the places where an event begins.
Lists(starts, words) ==
  /\ starts \in Seq(Nat)
  /\ \A j, k \in DOMAIN starts : j < k => starts[j] < starts[k]
  /\ {starts[k] : k \in DOMAIN starts} = Firsts(words)

\* What holds while a page has been enough for what waits in the socket.
IInv ==
  /\ TypeOK
  /\ WholeEventsOnly
  /\ Len(stream) <= PAGE_WORDS
  /\ Whole(batch) /\ Whole(stream)
  /\ \E starts : Lists(starts, batch \o stream)

\* The inductive invariant.
Inv == TypeOK /\ (crowded \/ IInv)

-----------------------------------------------------------------------------
(* Sequences. *)

LEMMA ConcatLemma ==
  ASSUME NEW S, NEW s \in Seq(S), NEW t \in Seq(S)
  PROVE  /\ s \o t \in Seq(S)
         /\ Len(s \o t) = Len(s) + Len(t)
         /\ DOMAIN (s \o t) = 1 .. (Len(s) + Len(t))
         /\ DOMAIN s = 1 .. Len(s) /\ DOMAIN t = 1 .. Len(t)
         /\ Len(s) \in Nat /\ Len(t) \in Nat
         /\ \A k \in 1 .. Len(s) : (s \o t)[k] = s[k]
         /\ \A k \in 1 .. Len(t) : (s \o t)[Len(s) + k] = t[k]
  OBVIOUS

LEMMA ConcatAssoc ==
  ASSUME NEW S, NEW s \in Seq(S), NEW t \in Seq(S), NEW u \in Seq(S)
  PROVE  (s \o t) \o u = s \o (t \o u)
  OBVIOUS

\* A sequence cut after n elements.
LEMMA CutLemma ==
  ASSUME NEW S, NEW s \in Seq(S), NEW n \in 0 .. Len(s)
  PROVE  /\ SubSeq(s, 1, n) \in Seq(S) /\ Len(SubSeq(s, 1, n)) = n
         /\ SubSeq(s, n + 1, Len(s)) \in Seq(S) /\ Len(SubSeq(s, n + 1, Len(s))) = Len(s) - n
         /\ DOMAIN SubSeq(s, n + 1, Len(s)) = 1 .. (Len(s) - n)
         /\ \A k \in 1 .. (Len(s) - n) : SubSeq(s, n + 1, Len(s))[k] = s[n + k]
         /\ \A k \in 1 .. n : SubSeq(s, 1, n)[k] = s[k]
         /\ Len(s) \in Nat
  OBVIOUS

LEMMA ListType ==
  ASSUME NEW S, NEW n \in Nat, NEW f \in [1 .. n -> S]
  PROVE  f \in Seq(S) /\ Len(f) = n
  OBVIOUS

\* Recv takes all there is.
LEMMA CutAll ==
  ASSUME NEW S, NEW s \in Seq(S)
  PROVE  /\ SubSeq(s, 1, Len(s)) = s /\ SubSeq(s, Len(s) + 1, Len(s)) = <<>>
         /\ <<>> \o s = s /\ s \o <<>> = s
  OBVIOUS

LEMMA SequenceEquality ==
  ASSUME NEW S, NEW s \in Seq(S), NEW t \in Seq(S), Len(s) = Len(t),
         \A k \in 1 .. Len(s) : s[k] = t[k]
  PROVE  s = t
  OBVIOUS

-----------------------------------------------------------------------------
(* Events and their words. *)

LEMMA EventType ==
  ASSUME NEW e \in Event
  PROVE  /\ e.size \in Nat /\ e.size >= 2 /\ e.size <= PAGE_WORDS
         /\ WordsOf(e) \in Seq(Words) /\ Len(WordsOf(e)) = e.size
         /\ DOMAIN WordsOf(e) = 1 .. e.size
         /\ \A k \in 1 .. e.size : WordsOf(e)[k] = Word(e, k - 1)
         /\ \A k \in 1 .. e.size : Word(e, k - 1).pos = k - 1 /\ Word(e, k - 1).event = e
  <1>1. e.size \in Sizes
    BY DEF Event
  <1>2. e.size \in Nat /\ e.size >= 2 /\ e.size <= PAGE_WORDS
    <2>1. e.size \in 2 .. PAGE_WORDS /\ PAGE_WORDS \in Nat
      BY <1>1, RecvStreamAssumption
    <2> QED BY <2>1
  <1>3. \A k \in 1 .. e.size :
          /\ Word(e, k - 1) \in Words
          /\ Word(e, k - 1).pos = k - 1 /\ Word(e, k - 1).event = e
    BY <1>2 DEF Word, Words
  <1>4. WordsOf(e) \in [1 .. e.size -> Words]
    BY <1>3 DEF WordsOf
  <1>5. WordsOf(e) \in Seq(Words) /\ Len(WordsOf(e)) = e.size
    BY <1>2, <1>4
  <1>6. \A k \in 1 .. e.size : WordsOf(e)[k] = Word(e, k - 1)
    BY DEF WordsOf
  <1> QED BY <1>2, <1>3, <1>4, <1>5, <1>6

\* Another event behind the others.
LEMMA WholeAppend ==
  ASSUME NEW words \in Seq(Words), Whole(words), NEW e \in Event
  PROVE  Whole(words \o WordsOf(e))
  <1> DEFINE more == WordsOf(e)
             all == words \o more
             n == Len(words)
  <1>1. /\ more \in Seq(Words) /\ Len(more) = e.size /\ e.size \in Nat
        /\ \A k \in 1 .. e.size : more[k] = Word(e, k - 1)
        /\ \A k \in 1 .. e.size : more[k].pos = k - 1 /\ more[k].event = e
    BY EventType
  <1> HIDE DEF more
  <1>2. /\ n \in Nat /\ DOMAIN words = 1 .. n /\ DOMAIN all = 1 .. (n + e.size)
        /\ \A i \in 1 .. n : all[i] = words[i]
        /\ \A k \in 1 .. e.size : all[n + k] = more[k]
    BY <1>1, ConcatLemma
  <1> HIDE DEF all, n
  <1>3. ASSUME NEW i \in 1 .. n
        PROVE  LET event == all[i].event
                   first == i - all[i].pos
               IN /\ all[i].pos < event.size
                  /\ \A k \in 1 .. event.size :
                       first + k - 1 \in DOMAIN all /\ all[first + k - 1] = Word(event, k - 1)
    <2>1. all[i] = words[i]
      BY <1>2
    <2>2. /\ words[i].pos < words[i].event.size
          /\ \A k \in 1 .. words[i].event.size :
               /\ i - words[i].pos + k - 1 \in 1 .. n
               /\ words[i - words[i].pos + k - 1] = Word(words[i].event, k - 1)
      BY <1>2 DEF Whole
    <2>3. \A j \in 1 .. n : j \in DOMAIN all /\ all[j] = words[j]
      BY <1>1, <1>2
    <2> QED BY <2>1, <2>2, <2>3
  <1>4. ASSUME NEW j \in 1 .. e.size
        PROVE  LET i == n + j
                   event == all[i].event
                   first == i - all[i].pos
               IN /\ all[i].pos < event.size
                  /\ \A k \in 1 .. event.size :
                       first + k - 1 \in DOMAIN all /\ all[first + k - 1] = Word(event, k - 1)
    <2>1. all[n + j].event = e /\ all[n + j].pos = j - 1
      BY <1>1, <1>2
    <2>2. /\ j - 1 < e.size /\ n + j - (j - 1) = n + 1
          /\ \A k \in 1 .. e.size : n + 1 + k - 1 = n + k /\ n + k \in 1 .. (n + e.size)
      BY <1>1, <1>2
    <2> QED BY <1>1, <1>2, <2>1, <2>2
  <1>5. \A i \in DOMAIN all : i \in 1 .. n \/ \E j \in 1 .. e.size : i = n + j
    <2> TAKE i \in DOMAIN all
    <2>1. i \in 1 .. n \/ (i - n \in 1 .. e.size /\ i = n + (i - n))
      BY <1>1, <1>2
    <2> QED BY <2>1
  <1>6. Whole(all)
    BY <1>3, <1>4, <1>5 DEF Whole
  <1> QED BY <1>6 DEF all, more

\* The first event, and what remains without it.
LEMMA WholeHead ==
  ASSUME NEW words \in Seq(Words), Whole(words), words # <<>>
  PROVE  LET e == words[1].event
         IN /\ e \in Event /\ e.size \in 2 .. Len(words)
            /\ \A k \in 1 .. e.size : words[k].pos = k - 1 /\ words[k].event = e
            /\ SubSeq(words, 1, e.size) = WordsOf(e)
            /\ Whole(SubSeq(words, e.size + 1, Len(words)))
  <1> DEFINE e == words[1].event
             n == Len(words)
             rest == SubSeq(words, e.size + 1, n)
  <1>1. /\ n \in Nat /\ n >= 1 /\ DOMAIN words = 1 .. n
        /\ \A i \in 1 .. n : words[i].pos \in Nat /\ words[i].event \in Event
    <2>1. \A i \in 1 .. Len(words) : words[i] \in Words
      OBVIOUS
    <2>2. \A w \in Words : w.pos \in Nat /\ w.event \in Event
      BY DEF Words
    <2>3. n \in Nat /\ n >= 1 /\ DOMAIN words = 1 .. n
      OBVIOUS
    <2> QED BY <2>1, <2>2, <2>3
  <1>2. e \in Event /\ e.size \in Nat /\ e.size >= 2
    BY <1>1, EventType
  <1> HIDE DEF e
  <1>3. ASSUME NEW i \in 1 .. n
        PROVE  /\ words[i].pos < words[i].event.size
               /\ \A k \in 1 .. words[i].event.size :
                    /\ i - words[i].pos + k - 1 \in 1 .. n
                    /\ words[i - words[i].pos + k - 1] = Word(words[i].event, k - 1)
    BY <1>1 DEF Whole
  <1> HIDE DEF n
  <1>4. words[1].pos = 0
    <2>1. 1 \in 1 .. n /\ 1 \in 1 .. e.size
      BY <1>1, <1>2
    <2>2. 1 - words[1].pos + 1 - 1 \in 1 .. n
      BY <1>3, <2>1 DEF e
    <2> QED BY <1>1, <2>2
  <1>5. ASSUME NEW k \in 1 .. e.size
        PROVE  k \in 1 .. n /\ words[k] = Word(e, k - 1) /\ words[k].pos = k - 1 /\ words[k].event = e
    <2>1. 1 - words[1].pos + k - 1 = k
      BY <1>2, <1>4
    <2>2. 1 \in 1 .. n
      BY <1>1
    <2>3. k \in 1 .. n /\ words[k] = Word(e, k - 1)
      BY <1>3, <2>1, <2>2 DEF e
    <2> QED BY <1>2, <2>3, EventType
  <1>6. e.size \in 2 .. n
    <2>1. e.size \in 1 .. e.size
      BY <1>2
    <2>2. e.size \in 1 .. n
      BY <1>5, <2>1
    <2> QED BY <1>1, <1>2, <2>2
  <1>7. SubSeq(words, 1, e.size) = WordsOf(e)
    <2>1. /\ SubSeq(words, 1, e.size) \in Seq(Words) /\ Len(SubSeq(words, 1, e.size)) = e.size
          /\ \A k \in 1 .. e.size : SubSeq(words, 1, e.size)[k] = words[k]
      BY <1>1, <1>6, CutLemma DEF n
    <2>2. /\ WordsOf(e) \in Seq(Words) /\ Len(WordsOf(e)) = e.size
          /\ \A k \in 1 .. e.size : WordsOf(e)[k] = Word(e, k - 1)
      BY <1>2, EventType
    <2> QED BY <1>5, <2>1, <2>2, SequenceEquality
  <1>8. /\ DOMAIN rest = 1 .. (n - e.size)
        /\ \A i \in 1 .. (n - e.size) : rest[i] = words[e.size + i]
    <2>1. e.size \in 0 .. n
      BY <1>1, <1>6
    <2> QED BY <2>1, CutLemma DEF n
  <1> HIDE DEF rest
  <1>9. ASSUME NEW i \in 1 .. (n - e.size)
        PROVE  LET event == rest[i].event
                   first == i - rest[i].pos
               IN /\ rest[i].pos < event.size
                  /\ \A k \in 1 .. event.size :
                       first + k - 1 \in DOMAIN rest /\ rest[first + k - 1] = Word(event, k - 1)
    <2> DEFINE at == e.size + i
               w == words[at]
               f == at - w.pos
    <2>1. rest[i] = w /\ at \in 1 .. n
      BY <1>1, <1>2, <1>8
    <2>2. w = words[at] /\ f = at - w.pos
      OBVIOUS
    <2> HIDE DEF at, w, f
    <2>3. /\ w.pos \in Nat /\ w.event \in Event /\ w.pos < w.event.size
          /\ \A k \in 1 .. w.event.size :
               f + k - 1 \in 1 .. n /\ words[f + k - 1] = Word(w.event, k - 1)
      BY <1>1, <1>3, <2>1, <2>2
    <2>4. w.event.size \in Nat /\ w.event.size >= 2 /\ f = (e.size + i) - w.pos
      BY <2>2, <2>3, EventType DEF at
    <2>5. f \in 1 .. n /\ words[f].pos = 0 /\ words[f].event = w.event
      <3>1. 1 \in 1 .. w.event.size /\ f + 1 - 1 = f
        BY <1>2, <2>3, <2>4
      <3>2. f \in 1 .. n /\ words[f] = Word(w.event, 1 - 1)
        BY <2>3, <3>1
      <3> QED BY <2>3, <2>4, <3>1, <3>2, EventType
    <2>6. f > e.size
      <3> SUFFICES ASSUME f <= e.size PROVE FALSE
        BY <1>2, <2>5
      <3>1. words[f].pos = f - 1 /\ words[f].event = e
        BY <1>2, <1>5, <2>5
      <3>2. f = 1 /\ w.event = e
        BY <2>5, <3>1
      <3> QED BY <1>2, <2>3, <2>4, <3>2
    <2>7. ASSUME NEW k \in 1 .. w.event.size
          PROVE  /\ i - w.pos + k - 1 \in 1 .. (n - e.size)
                 /\ rest[i - w.pos + k - 1] = Word(w.event, k - 1)
      <3>1. f + k - 1 \in 1 .. n /\ words[f + k - 1] = Word(w.event, k - 1)
        BY <2>3
      <3>2. /\ i - w.pos + k - 1 \in 1 .. (n - e.size)
            /\ e.size + (i - w.pos + k - 1) = f + k - 1
        <4>1. e.size + (i - w.pos + k - 1) = f + k - 1
          BY <1>2, <2>3, <2>4
        <4>2. f + k - 1 > e.size
          BY <1>2, <2>3, <2>4, <2>5, <2>6
        <4> DEFINE x == i - w.pos + k - 1
        <4>3. x \in Int
          BY <2>3, <2>4
        <4>4. e.size + x = f + k - 1
          BY <4>1
        <4> HIDE DEF x
        <4>5. x \in 1 .. (n - e.size)
          BY <1>1, <1>2, <3>1, <4>2, <4>3, <4>4
        <4> QED BY <4>1, <4>5 DEF x
      <3> QED BY <1>8, <3>1, <3>2
    <2> QED BY <1>8, <2>1, <2>3, <2>7
  <1>10. Whole(rest)
    BY <1>8, <1>9 DEF Whole
  <1> QED BY <1>2, <1>5, <1>6, <1>7, <1>10 DEF e, rest, n

-----------------------------------------------------------------------------
(* The events among words, listed. *)

LEMMA StartsType ==
  ASSUME NEW words \in Seq(Words), NEW starts, Lists(starts, words)
  PROVE  /\ Len(starts) \in Nat /\ DOMAIN starts = 1 .. Len(starts)
         /\ \A k \in 1 .. Len(starts) : /\ starts[k] \in 1 .. Len(words)
                                        /\ words[starts[k]].pos = 0
                                        /\ words[starts[k]].event \in Event
         /\ \A i \in 1 .. Len(words) :
              words[i].pos = 0 => \E k \in 1 .. Len(starts) : i = starts[k]
         /\ \A k \in 1 .. Len(starts) : starts[k] \in Nat
         /\ \A j, k \in 1 .. Len(starts) : j < k => starts[j] < starts[k]
  <1>1. Len(starts) \in Nat /\ DOMAIN starts = 1 .. Len(starts) /\ DOMAIN words = 1 .. Len(words)
    BY DEF Lists
  <1>2. \A k \in 1 .. Len(starts) : starts[k] \in Firsts(words)
    BY <1>1 DEF Lists
  <1>3. \A i \in Firsts(words) : \E k \in 1 .. Len(starts) : i = starts[k]
    BY <1>1 DEF Lists
  <1>4. /\ \A k \in 1 .. Len(starts) : starts[k] \in Nat
        /\ \A j, k \in 1 .. Len(starts) : j < k => starts[j] < starts[k]
    <2>1. starts \in Seq(Nat) /\ \A j, k \in DOMAIN starts : j < k => starts[j] < starts[k]
      BY DEF Lists
    <2>2. \A k \in 1 .. Len(starts) : starts[k] \in Nat
      BY <2>1
    <2> QED BY <1>1, <2>1, <2>2
  <1>5. \A i \in 1 .. Len(words) : words[i].event \in Event
    <2>1. \A i \in 1 .. Len(words) : words[i] \in Words
      OBVIOUS
    <2> QED BY <2>1 DEF Words
  <1> QED BY <1>1, <1>2, <1>3, <1>4, <1>5 DEF Firsts

\* So many places are no later than the k-th.
LEMMA RankLemma ==
  ASSUME NEW words \in Seq(Words), NEW starts, Lists(starts, words),
         NEW k \in 0 .. Len(starts)
  PROVE  Cardinality({starts[j] : j \in 1 .. k}) = k
  <1> DEFINE S == {starts[j] : j \in 1 .. k}
             f == [j \in 1 .. k |-> starts[j]]
  <1>1. /\ Len(starts) \in Nat /\ DOMAIN starts = 1 .. Len(starts) /\ k \in Nat
        /\ \A j \in 1 .. k : j \in 1 .. Len(starts)
    BY StartsType
  <1>2. \A i, j \in 1 .. k : f[i] = f[j] => i = j
    <2> TAKE i, j \in 1 .. k
    <2>1. i < j => starts[i] < starts[j] /\ starts[i] \in Nat /\ starts[j] \in Nat
      BY <1>1, StartsType
    <2>2. j < i => starts[j] < starts[i] /\ starts[i] \in Nat /\ starts[j] \in Nat
      BY <1>1, StartsType
    <2> QED BY <1>1, <2>1, <2>2
  <1>3. f \in [1 .. k -> S] /\ \A s \in S : \E j \in 1 .. k : f[j] = s
    OBVIOUS
  <1> HIDE DEF S, f
  <1>4. f \in Bijection(1 .. k, S)
    BY <1>2, <1>3, Fun_IsBij
  <1>5. ExistsBijection(1 .. k, S)
    BY <1>4 DEF ExistsBijection
  <1>6. Cardinality(S) = k
    BY <1>1, <1>5, FS_CountingElements
  <1> QED BY <1>6 DEF S

LEMMA ListedEvents ==
  ASSUME NEW words \in Seq(Words), NEW starts, Lists(starts, words)
  PROVE  EventsIn(words) = [k \in 1 .. Len(starts) |-> words[starts[k]].event]
  <1> DEFINE m == Len(starts)
             firsts == {i \in DOMAIN words : words[i].pos = 0}
             Before(i) == {j \in firsts : j <= i}
             nth(k) == CHOOSE i \in firsts : Cardinality(Before(i)) = k
  <1>1. /\ m \in Nat /\ DOMAIN starts = 1 .. m
        /\ \A k \in 1 .. m : starts[k] \in Nat
        /\ \A j, k \in 1 .. m : j < k => starts[j] < starts[k]
        /\ firsts = {starts[k] : k \in 1 .. m}
    BY StartsType DEF Lists, Firsts
  <1> HIDE DEF m, firsts
  <1>2. ASSUME NEW k \in 1 .. m
        PROVE  Before(starts[k]) = {starts[j] : j \in 1 .. k}
    <2>1. \A j \in 1 .. m : starts[j] <= starts[k] <=> j <= k
      <3> TAKE j \in 1 .. m
      <3>1. j < k => starts[j] < starts[k]
        BY <1>1
      <3>2. k < j => starts[k] < starts[j]
        BY <1>1
      <3> QED BY <1>1, <3>1, <3>2
    <2>2. \A j \in 1 .. k : j \in 1 .. m /\ j <= k
      BY <1>1
    <2>3. \A j \in 1 .. m : j <= k => j \in 1 .. k
      BY <1>1
    <2> QED BY <1>1, <2>1, <2>2, <2>3
  <1>3. ASSUME NEW k \in 1 .. m PROVE Cardinality(Before(starts[k])) = k
    <2>1. k \in 0 .. Len(starts)
      BY <1>1 DEF m
    <2> QED BY <1>2, <2>1, RankLemma
  <1> HIDE DEF Before
  <1>4. ASSUME NEW k \in 1 .. m PROVE nth(k) = starts[k]
    <2>1. starts[k] \in firsts /\ Cardinality(Before(starts[k])) = k
      BY <1>1, <1>3
    <2>2. \A i \in firsts : Cardinality(Before(i)) = k => i = starts[k]
      BY <1>1, <1>3
    <2> QED BY <2>1, <2>2
  <1>5. Cardinality(firsts) = m
    <2>1. m \in 0 .. Len(starts)
      BY <1>1 DEF m
    <2> QED BY <1>1, <2>1, RankLemma
  <1>6. EventsIn(words) = [k \in 1 .. Cardinality(firsts) |-> words[nth(k)].event]
    BY DEF EventsIn, firsts, Before
  <1> HIDE DEF nth
  <1>7. EventsIn(words) = [k \in 1 .. m |-> words[starts[k]].event]
    BY <1>4, <1>5, <1>6
  <1> QED BY <1>7 DEF m

\* One event more...
LEMMA ListAppend ==
  ASSUME NEW words \in Seq(Words), NEW starts, Lists(starts, words), NEW e \in Event
  PROVE  /\ Lists(Append(starts, Len(words) + 1), words \o WordsOf(e))
         /\ EventsIn(words \o WordsOf(e)) = Append(EventsIn(words), e)
  <1> DEFINE n == Len(words)
             m == Len(starts)
             more == WordsOf(e)
             all == words \o more
             places == Append(starts, n + 1)
  <1>1. /\ more \in Seq(Words) /\ Len(more) = e.size /\ e.size \in Nat /\ e.size >= 2
        /\ \A k \in 1 .. e.size : more[k].pos = k - 1 /\ more[k].event = e
    BY EventType
  <1> HIDE DEF more
  <1>2. /\ n \in Nat /\ DOMAIN words = 1 .. n
        /\ all \in Seq(Words) /\ DOMAIN all = 1 .. (n + e.size)
        /\ \A i \in 1 .. n : all[i] = words[i]
        /\ \A k \in 1 .. e.size : all[n + k] = more[k]
    BY <1>1, ConcatLemma
  <1>3. /\ m \in Nat /\ DOMAIN starts = 1 .. m
        /\ \A k \in 1 .. m : starts[k] \in 1 .. n
        /\ \A j, k \in 1 .. m : j < k => starts[j] < starts[k]
        /\ {starts[k] : k \in 1 .. m} = Firsts(words) /\ starts \in Seq(Nat)
    BY StartsType DEF Lists
  <1>4. /\ places \in Seq(Nat) /\ Len(places) = m + 1 /\ DOMAIN places = 1 .. (m + 1)
        /\ \A k \in 1 .. m : places[k] = starts[k]
        /\ places[m + 1] = n + 1
    <2>1. n + 1 \in Nat
      BY <1>2
    <2> HIDE DEF n
    <2> QED BY <1>3, <2>1
  <1> HIDE DEF n, m, all, places
  <1>5. \A j, k \in 1 .. (m + 1) : j < k => places[j] < places[k]
    <2> SUFFICES ASSUME NEW j \in 1 .. (m + 1), NEW k \in 1 .. (m + 1), j < k
                 PROVE  places[j] < places[k]
      OBVIOUS
    <2>1. j \in 1 .. m /\ (k \in 1 .. m \/ k = m + 1)
      BY <1>3
    <2>2. starts[j] \in 1 .. n
      BY <1>3, <2>1
    <2> QED BY <1>2, <1>3, <1>4, <2>1, <2>2
  <1>6. Firsts(all) = Firsts(words) \cup {n + 1}
    <2>1. \A i \in 1 .. n : i \in 1 .. (n + e.size) /\ all[i].pos = words[i].pos
      BY <1>1, <1>2
    <2>2. n + 1 \in 1 .. (n + e.size) /\ all[n + 1].pos = 0
      <3>1. 1 \in 1 .. e.size
        BY <1>1
      <3>2. all[n + 1] = more[1] /\ more[1].pos = 1 - 1
        BY <1>1, <1>2, <3>1
      <3> QED BY <1>1, <1>2, <3>2
    <2>3. \A i \in 1 .. (n + e.size) : i \notin 1 .. n /\ i # n + 1 => all[i].pos # 0
      <3> SUFFICES ASSUME NEW i \in 1 .. (n + e.size), i \notin 1 .. n, i # n + 1
                   PROVE  all[i].pos # 0
        OBVIOUS
      <3>1. i - n \in 1 .. e.size /\ n + (i - n) = i /\ (i - n) - 1 # 0
        BY <1>1, <1>2
      <3>2. all[n + (i - n)] = more[i - n] /\ more[i - n].pos = (i - n) - 1
        BY <1>1, <1>2, <3>1
      <3> QED BY <3>1, <3>2
    <2> QED BY <1>2, <2>1, <2>2, <2>3 DEF Firsts
  <1>7. \A k \in 1 .. (m + 1) : k \in 1 .. m \/ k = m + 1
    BY <1>3
  <1>8. \A k \in 1 .. m : k \in 1 .. (m + 1)
    BY <1>3
  <1>9. Lists(places, all)
    <2>1. m + 1 \in 1 .. (m + 1)
      BY <1>3
    <2>2. {places[k] : k \in 1 .. (m + 1)} = Firsts(words) \cup {n + 1}
      BY <1>3, <1>4, <1>7, <1>8, <2>1
    <2> QED BY <1>4, <1>5, <1>6, <2>2 DEF Lists
  <1>10. EventsIn(all) = Append(EventsIn(words), e)
    <2>1. /\ EventsIn(words) = [k \in 1 .. m |-> words[starts[k]].event]
          /\ EventsIn(all) = [k \in 1 .. (m + 1) |-> all[places[k]].event]
      <3>1. EventsIn(words) = [k \in 1 .. m |-> words[starts[k]].event]
        BY ListedEvents DEF m
      <3>2. EventsIn(all) = [k \in 1 .. Len(places) |-> all[places[k]].event]
        BY <1>2, <1>9, ListedEvents
      <3> QED BY <1>4, <3>1, <3>2
    <2>2. /\ \A k \in 1 .. m : /\ all[places[k]].event = words[starts[k]].event
                               /\ words[starts[k]].event \in Event
          /\ all[places[m + 1]].event = e
      <3>1. 1 \in 1 .. e.size
        BY <1>1
      <3>2. all[n + 1].event = e
        BY <1>1, <1>2, <3>1
      <3> QED BY <1>2, <1>3, <1>4, <3>2, StartsType DEF m
    <2>3. /\ EventsIn(words) \in Seq(Event) /\ Len(EventsIn(words)) = m
          /\ EventsIn(all) \in Seq(Event) /\ Len(EventsIn(all)) = m + 1
      <3>1. EventsIn(words) \in [1 .. m -> Event] /\ EventsIn(all) \in [1 .. (m + 1) -> Event]
        BY <1>7, <2>1, <2>2
      <3>2. m + 1 \in Nat
        BY <1>3
      <3> QED BY <1>3, <3>1, <3>2, ListType
    <2>4. \A k \in 1 .. (m + 1) : EventsIn(all)[k] = Append(EventsIn(words), e)[k]
      <3>1. \A k \in 1 .. m : EventsIn(all)[k] = EventsIn(words)[k]
        BY <1>8, <2>1, <2>2
      <3>2. EventsIn(all)[m + 1] = e
        <4>1. m + 1 \in 1 .. (m + 1)
          BY <1>3
        <4> QED BY <2>1, <2>2, <4>1
      <3> DEFINE before == EventsIn(words)
      <3>3. /\ \A k \in 1 .. m : Append(before, e)[k] = before[k]
            /\ Append(before, e)[m + 1] = e
        <4> HIDE DEF before
        <4>1. before \in Seq(Event) /\ Len(before) = m
          BY <2>3 DEF before
        <4> QED BY <4>1
      <3> QED BY <1>7, <3>1, <3>2, <3>3
    <2> DEFINE before == EventsIn(words)
               after == EventsIn(all)
    <2> HIDE DEF before, after
    <2>5. /\ before \in Seq(Event) /\ Len(before) = m
          /\ after \in Seq(Event) /\ Len(after) = m + 1
          /\ \A k \in 1 .. (m + 1) : after[k] = Append(before, e)[k]
      BY <2>3, <2>4 DEF before, after
    <2>6. Append(before, e) \in Seq(Event) /\ Len(Append(before, e)) = m + 1
      BY <2>5
    <2>7. after = Append(before, e)
      BY <2>5, <2>6, SequenceEquality
    <2> QED BY <2>7 DEF before, after
  <1> QED BY <1>9, <1>10 DEF n, places, all, more

\* ... and one event less.
LEMMA ListTail ==
  ASSUME NEW words \in Seq(Words), NEW starts, Lists(starts, words),
         NEW e \in Event, e.size \in 2 .. Len(words),
         \A k \in 1 .. e.size : words[k].pos = k - 1 /\ words[k].event = e
  PROVE  LET rest == SubSeq(words, e.size + 1, Len(words))
         IN /\ \E fewer : Lists(fewer, rest)
            /\ EventsIn(words) # <<>> /\ Head(EventsIn(words)) = e
            /\ EventsIn(rest) = Tail(EventsIn(words))
  <1> DEFINE n == Len(words)
             m == Len(starts)
             size == e.size
             rest == SubSeq(words, size + 1, n)
             fewer == [k \in 1 .. (m - 1) |-> starts[k + 1] - size]
  <1>1. /\ n \in Nat /\ size \in Nat /\ size >= 2 /\ size <= n /\ DOMAIN words = 1 .. n
        /\ rest \in Seq(Words) /\ DOMAIN rest = 1 .. (n - size)
        /\ \A i \in 1 .. (n - size) : rest[i] = words[size + i]
    <2>1. size \in 0 .. n /\ size >= 2
      OBVIOUS
    <2> HIDE DEF size
    <2> QED BY <2>1, CutLemma
  <1>2. /\ m \in Nat
        /\ \A k \in 1 .. m : /\ starts[k] \in 1 .. n /\ words[starts[k]].pos = 0
                             /\ words[starts[k]].event \in Event
        /\ \A i \in 1 .. n : words[i].pos = 0 => \E k \in 1 .. m : i = starts[k]
        /\ \A j, k \in 1 .. m : j < k => starts[j] < starts[k]
    BY StartsType
  <1>3. \A k \in 1 .. size : words[k].pos = k - 1 /\ words[k].event = e
    OBVIOUS
  <1> HIDE DEF n, m, size, rest
  <1>4. m >= 1 /\ starts[1] = 1
    <2>1. 1 \in 1 .. n /\ 1 \in 1 .. size /\ words[1].pos = 1 - 1
      BY <1>1, <1>3
    <2>2. PICK k \in 1 .. m : starts[k] = 1
      BY <1>2, <2>1
    <2>3. 1 \in 1 .. m
      BY <1>2, <2>2
    <2>4. k = 1
      <3> SUFFICES ASSUME 1 < k PROVE FALSE
        BY <1>2
      <3>1. starts[1] < 1 /\ starts[1] \in 1 .. n
        BY <1>2, <2>2, <2>3
      <3> QED BY <1>1, <3>1
    <2> QED BY <1>2, <2>2, <2>3, <2>4
  <1>5. ASSUME NEW k \in 2 .. m PROVE starts[k] \in (size + 1) .. n
    <2>1. k \in 1 .. m /\ 1 \in 1 .. m /\ 1 < k
      BY <1>2
    <2>2. starts[k] \in 1 .. n /\ 1 < starts[k] /\ words[starts[k]].pos = 0
      BY <1>2, <1>4, <2>1
    <2>3. ~(starts[k] <= size)
      <3> SUFFICES ASSUME starts[k] <= size PROVE FALSE
        OBVIOUS
      <3>1. starts[k] \in 1 .. size
        BY <1>1, <2>2
      <3>2. words[starts[k]].pos = starts[k] - 1
        BY <1>3, <3>1
      <3> QED BY <1>1, <2>2, <3>2
    <2> QED BY <1>1, <2>2, <2>3
  <1>6. ASSUME NEW k \in 1 .. (m - 1)
        PROVE  /\ k + 1 \in 1 .. m /\ starts[k + 1] \in (size + 1) .. n
               /\ fewer[k] = starts[k + 1] - size
               /\ fewer[k] \in 1 .. (n - size) /\ size + fewer[k] = starts[k + 1]
    <2>1. k + 1 \in 2 .. m /\ k + 1 \in 1 .. m
      BY <1>2
    <2>2. starts[k + 1] \in (size + 1) .. n
      BY <1>5, <2>1
    <2> QED BY <1>1, <2>1, <2>2
  <1>7. fewer \in Seq(Nat) /\ Len(fewer) = m - 1 /\ DOMAIN fewer = 1 .. (m - 1)
    <2>1. m - 1 \in Nat
      BY <1>2, <1>4
    <2>2. \A k \in 1 .. (m - 1) : starts[k + 1] - size \in Nat
      BY <1>1, <1>6
    <2>3. fewer \in [1 .. (m - 1) -> Nat]
      BY <2>2
    <2> HIDE DEF fewer
    <2> QED BY <2>1, <2>3, ListType
  <1> HIDE DEF fewer
  <1>8. \A j, k \in 1 .. (m - 1) : j < k => fewer[j] < fewer[k]
    <2> SUFFICES ASSUME NEW j \in 1 .. (m - 1), NEW k \in 1 .. (m - 1), j < k
                 PROVE  fewer[j] < fewer[k]
      OBVIOUS
    <2>1. j + 1 \in 1 .. m /\ k + 1 \in 1 .. m /\ j + 1 < k + 1
      BY <1>6
    <2>2. starts[j + 1] < starts[k + 1]
      BY <1>2, <2>1
    <2>3. /\ starts[j + 1] \in (size + 1) .. n /\ starts[k + 1] \in (size + 1) .. n
          /\ fewer[j] = starts[j + 1] - size /\ fewer[k] = starts[k + 1] - size
      BY <1>6
    <2> QED BY <1>1, <2>2, <2>3
  <1>9. {fewer[k] : k \in 1 .. (m - 1)} = Firsts(rest)
    <2>1. ASSUME NEW k \in 1 .. (m - 1) PROVE fewer[k] \in Firsts(rest)
      <3>1. fewer[k] \in 1 .. (n - size) /\ rest[fewer[k]] = words[starts[k + 1]]
        BY <1>1, <1>6
      <3>2. words[starts[k + 1]].pos = 0
        BY <1>2, <1>6
      <3> QED BY <1>1, <3>1, <3>2 DEF Firsts
    <2>2. ASSUME NEW i \in Firsts(rest) PROVE \E k \in 1 .. (m - 1) : i = fewer[k]
      <3>1. i \in 1 .. (n - size) /\ words[size + i].pos = 0
        BY <1>1 DEF Firsts
      <3>2. size + i \in 1 .. n /\ size + i > 1
        BY <1>1, <3>1
      <3>3. PICK j \in 1 .. m : size + i = starts[j]
        BY <1>2, <3>1, <3>2
      <3>4. j # 1
        BY <1>4, <3>2, <3>3
      <3>5. j - 1 \in 1 .. (m - 1) /\ (j - 1) + 1 = j
        BY <1>2, <3>4
      <3>6. size + fewer[j - 1] = size + i /\ fewer[j - 1] \in 1 .. (n - size)
        BY <1>6, <3>3, <3>5
      <3>7. fewer[j - 1] = i
        BY <1>1, <3>1, <3>6
      <3> QED BY <3>5, <3>7
    <2> QED BY <2>1, <2>2
  <1>10. Lists(fewer, rest)
    BY <1>7, <1>8, <1>9 DEF Lists
  <1> DEFINE before == EventsIn(words)
             after == EventsIn(rest)
  <1>11. before = [k \in 1 .. m |-> words[starts[k]].event]
    BY ListedEvents DEF m
  <1>12. after = [k \in 1 .. (m - 1) |-> rest[fewer[k]].event]
    <2>1. after = [k \in 1 .. Len(fewer) |-> rest[fewer[k]].event]
      BY <1>1, <1>10, ListedEvents
    <2> QED BY <1>7, <2>1
  <1>13. \A k \in 1 .. (m - 1) : rest[fewer[k]].event = words[starts[k + 1]].event
    BY <1>1, <1>6
  <1>14. before \in Seq(Event) /\ Len(before) = m
    <2>1. before \in [1 .. m -> Event]
      BY <1>2, <1>11
    <2> HIDE DEF before
    <2> QED BY <1>2, <2>1, ListType
  <1>15. after \in Seq(Event) /\ Len(after) = m - 1
    <2>1. m - 1 \in Nat
      BY <1>2, <1>4
    <2>2. \A k \in 1 .. (m - 1) : words[starts[k + 1]].event \in Event
      BY <1>2, <1>6
    <2>3. after \in [1 .. (m - 1) -> Event]
      BY <1>12, <1>13, <2>2
    <2> HIDE DEF after
    <2> QED BY <2>1, <2>3, ListType
  <1>16. before[1] = e
    <2>1. 1 \in 1 .. m /\ 1 \in 1 .. size
      BY <1>1, <1>2, <1>4
    <2> QED BY <1>3, <1>4, <1>11, <2>1
  <1>17. \A k \in 1 .. (m - 1) : after[k] = before[k + 1]
    BY <1>6, <1>11, <1>12, <1>13
  <1> HIDE DEF before, after
  <1>18. before # <<>> /\ Head(before) = e
    BY <1>4, <1>14, <1>16
  <1>19. after = Tail(before)
    <2>1. /\ Tail(before) \in Seq(Event) /\ Len(Tail(before)) = m - 1
          /\ \A k \in 1 .. (m - 1) : Tail(before)[k] = before[k + 1]
      BY <1>4, <1>14
    <2> QED BY <1>15, <1>17, <2>1, SequenceEquality
  <1> QED BY <1>10, <1>18, <1>19 DEF before, after, rest, n, size

\* What is left of two sequences when the first n elements are gone.
LEMMA CutConcat ==
  ASSUME NEW S, NEW s \in Seq(S), NEW t \in Seq(S), NEW n \in 0 .. Len(s)
  PROVE  SubSeq(s \o t, n + 1, Len(s \o t)) = SubSeq(s, n + 1, Len(s)) \o t
  <1> DEFINE left == SubSeq(s \o t, n + 1, Len(s \o t))
             cut == SubSeq(s, n + 1, Len(s))
             right == cut \o t
             st == s \o t
  <1>1. /\ st \in Seq(S) /\ Len(st) = Len(s) + Len(t) /\ Len(s) \in Nat /\ Len(t) \in Nat
        /\ \A k \in 1 .. Len(s) : st[k] = s[k]
        /\ \A k \in 1 .. Len(t) : st[Len(s) + k] = t[k]
    BY ConcatLemma
  <1>2. /\ cut \in Seq(S) /\ Len(cut) = Len(s) - n
        /\ \A k \in 1 .. (Len(s) - n) : cut[k] = s[n + k]
    BY CutLemma
  <1> HIDE DEF cut
  <1>3. /\ right \in Seq(S) /\ Len(right) = (Len(s) - n) + Len(t)
        /\ \A k \in 1 .. (Len(s) - n) : right[k] = cut[k]
        /\ \A k \in 1 .. Len(t) : right[(Len(s) - n) + k] = t[k]
    <2>1. /\ right \in Seq(S) /\ Len(right) = Len(cut) + Len(t)
          /\ \A k \in 1 .. Len(cut) : right[k] = cut[k]
          /\ \A k \in 1 .. Len(t) : right[Len(cut) + k] = t[k]
      <3>1. cut \in Seq(S)
        BY <1>2
      <3> QED BY <3>1, ConcatLemma
    <2> HIDE DEF right
    <2> QED BY <1>2, <2>1
  <1> HIDE DEF st, right
  <1>4. /\ left \in Seq(S) /\ Len(left) = Len(st) - n
        /\ \A k \in 1 .. (Len(st) - n) : left[k] = st[n + k]
    <2>1. n \in 0 .. Len(st)
      BY <1>1
    <2> QED BY <1>1, <2>1, CutLemma DEF st
  <1> HIDE DEF left
  <1>5. Len(left) = Len(right)
    BY <1>1, <1>3, <1>4
  <1>6. ASSUME NEW k \in 1 .. Len(left) PROVE left[k] = right[k]
    <2>1. left[k] = st[n + k]
      BY <1>4
    <2>2. CASE k <= Len(s) - n
      <3>1. k \in 1 .. (Len(s) - n) /\ n + k \in 1 .. Len(s)
        BY <1>1, <1>4, <2>2
      <3> QED BY <1>1, <1>2, <1>3, <2>1, <3>1
    <2>3. CASE k > Len(s) - n
      <3> DEFINE j == k - (Len(s) - n)
      <3>1. j \in 1 .. Len(t) /\ (Len(s) - n) + j = k /\ Len(s) + j = n + k
        BY <1>1, <1>4, <2>3
      <3> HIDE DEF j
      <3> QED BY <1>1, <1>3, <2>1, <3>1
    <2> QED BY <1>1, <1>4, <2>2, <2>3
  <1>7. left = right
    BY <1>3, <1>4, <1>5, <1>6, SequenceEquality
  <1> QED BY <1>7 DEF left, right, cut
-----------------------------------------------------------------------------
(* Types, whatever waits in the socket. *)

LEMMA NothingReceived == <<>> \in Seq(Words) /\ Len(<<>>) = 0
  OBVIOUS

LEMMA InitTypes == Init => TypeOK
  <1>1. 0 \in 0 .. MaxEvents /\ Len(<<>>) <= PAGE_WORDS
    BY NothingReceived, RecvStreamAssumption
  <1> QED BY <1>1, NothingReceived DEF Init, TypeOK

\* The words Recv takes, and those it leaves.
LEMMA RecvTypes ==
  ASSUME TypeOK, Recv
  PROVE  TypeOK'
  <1> DEFINE n == IF Len(stream) < PAGE_WORDS THEN Len(stream) ELSE PAGE_WORDS
  <1>1. stream \in Seq(Words) /\ Len(stream) \in Nat
    BY DEF TypeOK
  <1>2. n \in 0 .. Len(stream) /\ n <= PAGE_WORDS
    BY <1>1, RecvStreamAssumption
  <1>3. batch' = SubSeq(stream, 1, n) /\ stream' = SubSeq(stream, n + 1, Len(stream))
    BY DEF Recv
  <1> HIDE DEF n
  <1>4. /\ batch' \in Seq(Words) /\ Len(batch') = n
        /\ stream' \in Seq(Words)
    BY <1>1, <1>2, <1>3, CutLemma
  <1> QED BY <1>2, <1>4 DEF Recv, TypeOK

\* The size read is a number, and what the loop is given an event or a garbled one.
LEMMA ReadTypes ==
  ASSUME TypeOK, batch # <<>>, NEW size \in SizeFields
  PROVE  size \in Nat /\ Given(size) \in Event \cup {Garbled}
  <1>1. batch \in Seq(Words) /\ Len(batch) \in Nat /\ Len(batch) >= 1
    BY DEF TypeOK
  <1>2. \A k \in 1 .. Len(batch) : batch[k] \in Words
    BY <1>1
  <1>3. \A k \in 1 .. Len(batch) : batch[k].event \in Event /\ batch[k].event.size \in Nat
    BY <1>2, EventType DEF Words
  <1>4. size \in Nat
    <2>1. CASE Len(batch) > 1 /\ batch[2].pos = 1
      <3>1. 2 \in 1 .. Len(batch)
        BY <1>1, <2>1
      <3> QED BY <1>3, <2>1, <3>1 DEF SizeFields
    <2>2. CASE ~(Len(batch) > 1 /\ batch[2].pos = 1)
      <3>1. size \in 0 .. MaxField
        BY <2>2 DEF SizeFields
      <3> QED BY <3>1, RecvStreamAssumption
    <2> QED BY <2>1, <2>2
  <1>5. 1 \in 1 .. Len(batch)
    BY <1>1
  <1> QED BY <1>3, <1>4, <1>5 DEF Given

LEMMA HandleTypes ==
  ASSUME TypeOK, Handle
  PROVE  TypeOK'
  <1>1. batch # <<>> /\ UNCHANGED <<sent, hung_up, stream, crowded>>
    BY DEF Handle
  <1>2. PICK size \in SizeFields, fatal \in Fatal :
          IF fatal
          THEN failure' = "exit" /\ UNCHANGED <<batch, handled>>
          ELSE handled' = Given(size) /\ Advance(size)
    BY DEF Handle
  <1>3. size \in Nat /\ Given(size) \in Event \cup {Garbled}
    BY <1>1, ReadTypes
  <1>4. batch \in Seq(Words) /\ Len(batch) \in Nat /\ Len(batch) <= PAGE_WORDS /\ PAGE_WORDS \in Nat
    BY RecvStreamAssumption DEF TypeOK
  <1>5. CASE fatal
    BY <1>1, <1>2, <1>5 DEF Handle, TypeOK
  <1>6. CASE ~fatal /\ size > Len(batch)
    <2>1. handled' = Given(size) /\ failure' = "misaligned" /\ UNCHANGED batch
      BY <1>2, <1>6 DEF Advance
    <2> QED BY <1>1, <1>3, <2>1 DEF TypeOK
  <1>7. CASE ~fatal /\ ~(size > Len(batch))
    <2>1. /\ handled' = Given(size) /\ UNCHANGED failure
          /\ batch' = SubSeq(batch, size + 1, Len(batch))
      BY <1>2, <1>7 DEF Advance
    <2>2. size \in 0 .. Len(batch)
      BY <1>3, <1>4, <1>7
    <2>3. batch' \in Seq(Words) /\ Len(batch') = Len(batch) - size
      BY <1>4, <2>1, <2>2, CutLemma
    <2>4. Len(batch') <= PAGE_WORDS
      BY <1>3, <1>4, <2>3
    <2> QED BY <1>1, <1>3, <2>1, <2>3, <2>4 DEF TypeOK
  <1> QED BY <1>5, <1>6, <1>7

LEMMA EmitTypes ==
  ASSUME TypeOK, NEW event \in Event, Emit(event)
  PROVE  TypeOK'
  <1>1. sent' \in 0 .. MaxEvents
    BY RecvStreamAssumption DEF Emit, TypeOK
  <1>2. WordsOf(event) \in Seq(Words)
    BY EventType
  <1>3. stream' \in Seq(Words)
    BY <1>2, ConcatLemma DEF Emit, TypeOK
  <1> QED BY <1>1, <1>3 DEF Emit, TypeOK

LEMMA StepTypes == TypeOK /\ [Next]_vars => TypeOK'
  <1> SUFFICES ASSUME TypeOK, [Next]_vars PROVE TypeOK'
    OBVIOUS
  <1>1. CASE Recv
    BY <1>1, RecvTypes
  <1>2. CASE Handle
    BY <1>2, HandleTypes
  <1>3. CASE RecvFails
    BY <1>3 DEF RecvFails, TypeOK
  <1>4. CASE \E event \in Event : Emit(event)
    BY <1>4, EmitTypes
  <1>5. CASE HangUp
    BY <1>5 DEF HangUp, TypeOK
  <1>6. CASE UNCHANGED vars
    BY <1>6 DEF vars, TypeOK
  <1> QED BY <1>1, <1>2, <1>3, <1>4, <1>5, <1>6 DEF Next, Read

\* recv_queue never holds more than a page, and read_queues deals with whole
\* events or with garbled ones, however much waits in the socket and wherever
\* recv cuts it.
THEOREM TypeCorrect == Spec => []TypeOK
  BY InitTypes, StepTypes, PTL DEF Spec
-----------------------------------------------------------------------------
(* Where an event begins and ends, whatever waits in the socket. *)

\* From each word on the others of its event follow, and then another event.
Framed(words) ==
  \A i \in DOMAIN words :
    LET event == words[i].event
        left == event.size - words[i].pos
    IN /\ left \in Nat \ {0}
       /\ \A k \in 0 .. (left - 1) :
            i + k \in DOMAIN words /\ words[i + k] = Word(event, words[i].pos + k)
       /\ i + left \in DOMAIN words => words[i + left].pos = 0

LEMMA WordType ==
  ASSUME NEW words \in Seq(Words), NEW i \in 1 .. Len(words)
  PROVE  words[i] \in Words /\ words[i].pos \in Nat /\ words[i].event \in Event
  <1>1. words[i] \in Words
    OBVIOUS
  <1> QED BY <1>1 DEF Words

\* What is left of a stream is framed as the stream was.
LEMMA FramedRest ==
  ASSUME NEW words \in Seq(Words), Framed(words), NEW n \in 0 .. Len(words)
  PROVE  Framed(SubSeq(words, n + 1, Len(words)))
  <1> DEFINE rest == SubSeq(words, n + 1, Len(words))
             m == Len(words) - n
  <1>1. /\ DOMAIN rest = 1 .. m /\ \A i \in 1 .. m : rest[i] = words[n + i]
        /\ Len(words) \in Nat /\ DOMAIN words = 1 .. Len(words)
    BY CutLemma
  <1> HIDE DEF rest
  <1>2. ASSUME NEW i \in 1 .. m
        PROVE  LET event == rest[i].event
                   left == event.size - rest[i].pos
               IN /\ left \in Nat \ {0}
                  /\ \A k \in 0 .. (left - 1) :
                       i + k \in DOMAIN rest /\ rest[i + k] = Word(event, rest[i].pos + k)
                  /\ i + left \in DOMAIN rest => rest[i + left].pos = 0
    <2> DEFINE event == words[n + i].event
               pos == words[n + i].pos
               left == event.size - pos
    <2>1. n + i \in DOMAIN words /\ rest[i] = words[n + i]
      BY <1>1
    <2>2. /\ left \in Nat \ {0}
          /\ \A k \in 0 .. (left - 1) :
               n + i + k \in DOMAIN words /\ words[n + i + k] = Word(event, pos + k)
          /\ n + i + left \in DOMAIN words => words[n + i + left].pos = 0
      BY <2>1 DEF Framed
    <2>3. rest[i].event = event /\ rest[i].pos = pos
      BY <2>1
    <2> HIDE DEF event, pos
    <2>4. left \in Nat \ {0}
      BY <2>2
    <2> HIDE DEF left
    <2>5. ASSUME NEW k \in 0 .. (left - 1)
          PROVE  i + k \in DOMAIN rest /\ rest[i + k] = Word(event, pos + k)
      <3>1. n + i + k \in 1 .. Len(words) /\ words[n + i + k] = Word(event, pos + k)
        BY <1>1, <2>2
      <3>2. i + k \in 1 .. m /\ n + (i + k) = n + i + k
        BY <1>1, <2>4, <3>1
      <3> QED BY <1>1, <3>1, <3>2
    <2>6. ASSUME i + left \in DOMAIN rest PROVE rest[i + left].pos = 0
      <3>1. i + left \in 1 .. m /\ n + (i + left) = n + i + left /\ n + i + left \in 1 .. Len(words)
        BY <1>1, <2>4, <2>6
      <3> QED BY <1>1, <2>2, <3>1
    <2> QED BY <2>3, <2>4, <2>5, <2>6 DEF left
  <1>3. Framed(rest)
    BY <1>1, <1>2 DEF Framed
  <1> QED BY <1>3 DEF rest

\* So is a stream another event is put behind.
LEMMA FramedAppend ==
  ASSUME NEW words \in Seq(Words), Framed(words), NEW e \in Event
  PROVE  Framed(words \o WordsOf(e))
  <1> DEFINE more == WordsOf(e)
             all == words \o more
             n == Len(words)
  <1>1. /\ more \in Seq(Words) /\ Len(more) = e.size /\ e.size \in Nat /\ e.size >= 2
        /\ \A k \in 1 .. e.size : more[k] = Word(e, k - 1)
        /\ \A k \in 1 .. e.size : more[k].pos = k - 1 /\ more[k].event = e
    BY EventType
  <1> HIDE DEF more
  <1>2. /\ n \in Nat /\ DOMAIN words = 1 .. n /\ DOMAIN all = 1 .. (n + e.size)
        /\ \A i \in 1 .. n : all[i] = words[i]
        /\ \A k \in 1 .. e.size : all[n + k] = more[k]
    BY <1>1, ConcatLemma
  <1> HIDE DEF all, n
  <1>3. ASSUME NEW i \in 1 .. n
        PROVE  LET event == all[i].event
                   left == event.size - all[i].pos
               IN /\ left \in Nat \ {0}
                  /\ \A k \in 0 .. (left - 1) :
                       i + k \in DOMAIN all /\ all[i + k] = Word(event, all[i].pos + k)
                  /\ i + left \in DOMAIN all => all[i + left].pos = 0
    <2> DEFINE event == words[i].event
               pos == words[i].pos
               left == event.size - pos
    <2>1. /\ left \in Nat \ {0}
          /\ \A k \in 0 .. (left - 1) : i + k \in 1 .. n /\ words[i + k] = Word(event, pos + k)
          /\ i + left \in 1 .. n => words[i + left].pos = 0
      BY <1>2 DEF Framed
    <2>2. all[i].event = event /\ all[i].pos = pos
      BY <1>2
    <2> HIDE DEF event, pos
    <2>3. left \in Nat \ {0}
      BY <2>1
    <2> HIDE DEF left
    <2>4. ASSUME NEW k \in 0 .. (left - 1)
          PROVE  i + k \in DOMAIN all /\ all[i + k] = Word(event, pos + k)
      BY <1>1, <1>2, <2>1
    <2>5. ASSUME i + left \in DOMAIN all PROVE all[i + left].pos = 0
      <3>1. left - 1 \in 0 .. (left - 1) /\ i + (left - 1) \in 1 .. n
        BY <2>1, <2>3
      <3>2. i + left \in 1 .. n \/ i + left = n + 1
        BY <1>2, <2>3, <3>1
      <3>3. 1 \in 1 .. e.size /\ all[n + 1] = more[1] /\ more[1].pos = 1 - 1
        BY <1>1, <1>2
      <3> QED BY <1>2, <2>1, <3>2, <3>3
    <2> QED BY <2>2, <2>3, <2>4, <2>5 DEF left
  <1>4. ASSUME NEW i \in 1 .. (n + e.size), i > n
        PROVE  LET event == all[i].event
                   left == event.size - all[i].pos
               IN /\ left \in Nat \ {0}
                  /\ \A k \in 0 .. (left - 1) :
                       i + k \in DOMAIN all /\ all[i + k] = Word(event, all[i].pos + k)
                  /\ i + left \in DOMAIN all => all[i + left].pos = 0
    <2>1. PICK j \in 1 .. e.size : i = n + j
      <3>1. i - n \in 1 .. e.size /\ i = n + (i - n)
        BY <1>1, <1>2, <1>4
      <3> QED BY <3>1
    <2>2. all[i].event = e /\ all[i].pos = j - 1
      BY <1>1, <1>2, <2>1
    <2>3. e.size - (j - 1) \in Nat \ {0} /\ i + (e.size - (j - 1)) = n + e.size + 1
      BY <1>1, <1>2, <2>1
    <2>4. ASSUME NEW k \in 0 .. (e.size - (j - 1) - 1)
          PROVE  i + k \in DOMAIN all /\ all[i + k] = Word(e, j - 1 + k)
      <3>0. n \in Nat /\ e.size \in Nat
        BY <1>1, <1>2
      <3>1. j + k \in 1 .. e.size /\ i + k = n + (j + k) /\ (j + k) - 1 = j - 1 + k
        <4>1. j \in Int /\ k \in Int /\ 1 <= j /\ 0 <= k /\ k <= e.size - (j - 1) - 1
          BY <2>1, <2>4, <3>0
        <4> QED BY <2>1, <3>0, <4>1
      <3>2. i + k \in 1 .. (n + e.size)
        BY <3>0, <3>1
      <3> QED BY <1>1, <1>2, <3>1, <3>2
    <2>5. n + e.size + 1 \notin DOMAIN all
      BY <1>1, <1>2
    <2> QED BY <2>2, <2>3, <2>4, <2>5
  <1>5. \A i \in DOMAIN all : i \in 1 .. n \/ (i \in 1 .. (n + e.size) /\ i > n)
    BY <1>1, <1>2
  <1>6. Framed(all)
    BY <1>3, <1>4, <1>5 DEF Framed
  <1> QED BY <1>6 DEF all, more

\* Behind the first event of a stream there is another one, or nothing.
LEMMA FramedHead ==
  ASSUME NEW words \in Seq(Words), Framed(words), words # <<>>, words[1].pos = 0,
         words[1].event.size <= Len(words)
  PROVE  LET rest == SubSeq(words, words[1].event.size + 1, Len(words))
         IN rest = <<>> \/ rest[1].pos = 0
  <1> DEFINE size == words[1].event.size
             rest == SubSeq(words, size + 1, Len(words))
  <1>1. 1 \in DOMAIN words /\ DOMAIN words = 1 .. Len(words) /\ Len(words) \in Nat
    OBVIOUS
  <1>2. words[1].event \in Event /\ size \in Nat
    BY <1>1, WordType, EventType
  <1>3. size - 0 \in Nat \ {0} /\ (1 + (size - 0) \in DOMAIN words => words[1 + (size - 0)].pos = 0)
    BY <1>1 DEF Framed
  <1>4. size \in 0 .. Len(words)
    BY <1>1, <1>2
  <1> HIDE DEF size
  <1>5. /\ rest \in Seq(Words) /\ Len(rest) = Len(words) - size
        /\ \A k \in 1 .. (Len(words) - size) : rest[k] = words[size + k]
    BY <1>4, CutLemma
  <1>6. CASE size = Len(words)
    <2>1. Len(rest) = 0
      BY <1>1, <1>5, <1>6
    <2>2. rest = <<>>
      BY <1>5, <2>1
    <2> QED BY <2>2 DEF size
  <1>7. CASE size # Len(words)
    <2>1. 1 \in 1 .. (Len(words) - size) /\ 1 + (size - 0) = size + 1 /\ size + 1 \in DOMAIN words
      BY <1>1, <1>2, <1>4, <1>7 DEF size
    <2>2. rest[1].pos = 0
      BY <1>3, <1>5, <2>1
    <2> QED BY <2>2 DEF size
  <1> QED BY <1>6, <1>7

\* However little recv takes, the path of the events stays what it was.
LEMMA RecvKeepsPath ==
  ASSUME TypeOK, Recv
  PROVE  batch' \o stream' = batch \o stream
  <1> DEFINE n == IF Len(stream) < PAGE_WORDS THEN Len(stream) ELSE PAGE_WORDS
             first == SubSeq(stream, 1, n)
             rest == SubSeq(stream, n + 1, Len(stream))
  <1>1. stream \in Seq(Words) /\ Len(stream) \in Nat
    BY DEF TypeOK
  <1>2. n \in 0 .. Len(stream)
    BY <1>1, RecvStreamAssumption
  <1>3. batch = <<>> /\ batch' = first /\ stream' = rest
    BY DEF Recv
  <1> HIDE DEF n
  <1>4. /\ first \in Seq(Words) /\ rest \in Seq(Words)
        /\ Len(first) = n /\ Len(rest) = Len(stream) - n
        /\ \A k \in 1 .. n : first[k] = stream[k]
        /\ \A k \in 1 .. (Len(stream) - n) : rest[k] = stream[n + k]
    BY <1>1, <1>2, CutLemma
  <1> HIDE DEF first, rest
  <1>5. /\ first \o rest \in Seq(Words) /\ Len(first \o rest) = Len(stream)
        /\ \A k \in 1 .. n : (first \o rest)[k] = first[k]
        /\ \A k \in 1 .. (Len(stream) - n) : (first \o rest)[n + k] = rest[k]
    BY <1>1, <1>2, <1>4, ConcatLemma
  <1>6. ASSUME NEW k \in 1 .. Len(stream) PROVE (first \o rest)[k] = stream[k]
    <2>1. CASE k <= n
      BY <1>1, <1>2, <1>4, <1>5, <2>1
    <2>2. CASE k > n
      <3>1. k - n \in 1 .. (Len(stream) - n) /\ n + (k - n) = k
        BY <1>1, <1>2, <2>2
      <3>2. PICK j \in 1 .. (Len(stream) - n) : n + j = k
        BY <3>1
      <3>3. (first \o rest)[n + j] = rest[j] /\ rest[j] = stream[n + j]
        BY <1>4, <1>5
      <3> QED BY <3>2, <3>3
    <2>3. k <= n \/ k > n
      BY <1>1, <1>2
    <2> QED BY <2>1, <2>2, <2>3
  <1>7. first \o rest = stream
    BY <1>1, <1>5, <1>6, SequenceEquality
  <1> QED BY <1>1, <1>3, <1>7, CutAll

\* What ++ takes from the page, it takes from the path.
LEMMA AdvancePath ==
  ASSUME TypeOK, NEW size \in Nat, size <= Len(batch)
  PROVE  /\ batch \o stream \in Seq(Words) /\ size \in 0 .. Len(batch \o stream)
         /\ SubSeq(batch, size + 1, Len(batch)) \o stream
              = SubSeq(batch \o stream, size + 1, Len(batch \o stream))
  <1>1. /\ batch \in Seq(Words) /\ stream \in Seq(Words)
        /\ Len(batch) \in Nat /\ Len(stream) \in Nat
    BY DEF TypeOK
  <1>2. batch \o stream \in Seq(Words) /\ Len(batch \o stream) = Len(batch) + Len(stream)
    BY <1>1, ConcatLemma
  <1>3. size \in 0 .. Len(batch) /\ size \in 0 .. Len(batch \o stream)
    BY <1>1, <1>2
  <1> QED BY <1>1, <1>2, <1>3, CutConcat

\* The path of the events is framed, also when the client has lost its place in it.
FrameInv == TypeOK /\ Framed(batch \o stream)

LEMMA HandlePath ==
  ASSUME TypeOK, Handle
  PROVE  \/ UNCHANGED <<batch, stream>>
         \/ \E size \in SizeFields :
              /\ size \in Nat /\ size <= Len(batch)
              /\ UNCHANGED stream /\ batch' = SubSeq(batch, size + 1, Len(batch))
  <1>1. batch # <<>> /\ UNCHANGED stream
    BY DEF Handle
  <1>2. PICK size \in SizeFields, fatal \in Fatal :
          IF fatal
          THEN failure' = "exit" /\ UNCHANGED <<batch, handled>>
          ELSE handled' = Given(size) /\ Advance(size)
    BY DEF Handle
  <1>3. size \in Nat /\ Len(batch) \in Nat
    BY <1>1, ReadTypes DEF TypeOK
  <1>4. UNCHANGED batch \/ (~(size > Len(batch)) /\ batch' = SubSeq(batch, size + 1, Len(batch)))
    BY <1>2 DEF Advance
  <1> QED BY <1>1, <1>3, <1>4

LEMMA StepFrameInv == FrameInv /\ [Next]_vars => FrameInv'
  <1> SUFFICES ASSUME FrameInv, [Next]_vars PROVE FrameInv'
    OBVIOUS
  <1>1. TypeOK /\ TypeOK'
    BY StepTypes DEF FrameInv
  <1>2. CASE Recv
    BY <1>1, <1>2, RecvKeepsPath DEF FrameInv
  <1>3. CASE Handle
    <2>1. CASE UNCHANGED <<batch, stream>>
      BY <1>1, <2>1 DEF FrameInv
    <2>2. ASSUME NEW size \in Nat, size <= Len(batch),
                 UNCHANGED stream, batch' = SubSeq(batch, size + 1, Len(batch))
          PROVE  FrameInv'
      <3>1. /\ batch \o stream \in Seq(Words) /\ size \in 0 .. Len(batch \o stream)
            /\ batch' \o stream' = SubSeq(batch \o stream, size + 1, Len(batch \o stream))
        BY <1>1, <2>2, AdvancePath
      <3>2. Framed(batch' \o stream')
        BY <3>1, FramedRest DEF FrameInv
      <3> QED BY <1>1, <3>2 DEF FrameInv
    <2> QED BY <1>1, <1>3, <2>1, <2>2, HandlePath
  <1>4. CASE \E event \in Event : Emit(event)
    <2>1. PICK event \in Event : Emit(event)
      BY <1>4
    <2>2. /\ batch \in Seq(Words) /\ stream \in Seq(Words) /\ WordsOf(event) \in Seq(Words)
          /\ batch' = batch /\ stream' = stream \o WordsOf(event)
      BY <1>1, <2>1, EventType DEF Emit, TypeOK
    <2>3. batch' \o stream' = (batch \o stream) \o WordsOf(event) /\ batch \o stream \in Seq(Words)
      BY <2>2, ConcatAssoc, ConcatLemma
    <2> QED BY <1>1, <2>3, FramedAppend DEF FrameInv
  <1>5. CASE RecvFails \/ HangUp \/ UNCHANGED vars
    <2>1. UNCHANGED <<batch, stream>>
      BY <1>5 DEF RecvFails, HangUp, vars
    <2> QED BY <1>1, <2>1 DEF FrameInv
  <1> QED BY <1>2, <1>3, <1>4, <1>5 DEF Next, Read

\* Only a Handle moves on: past the event, if it is all there.
LEMMA HandleKeepsFrame ==
  ASSUME FrameInv, Handle, InFrame, Len(batch) # 1
  PROVE  InFrame' \/ failure' = "misaligned"
  <1> DEFINE path == batch \o stream
             e == batch[1].event
  <1>1. /\ TypeOK /\ Framed(path) /\ batch # <<>> /\ UNCHANGED stream
        /\ batch \in Seq(Words) /\ stream \in Seq(Words)
        /\ Len(batch) \in Nat /\ Len(stream) \in Nat /\ Len(batch) >= 2
    <2>1. TypeOK /\ batch \in Seq(Words) /\ stream \in Seq(Words) /\ Framed(path)
      BY DEF FrameInv, TypeOK
    <2>2. batch # <<>> /\ UNCHANGED stream
      BY DEF Handle
    <2>3. Len(batch) \in Nat /\ Len(stream) \in Nat /\ Len(batch) # 0
      BY <2>1, <2>2
    <2>4. Len(batch) >= 2
      <3> DEFINE n == Len(batch)
      <3>1. n \in Nat /\ n # 0 /\ n # 1
        BY <2>3
      <3> HIDE DEF n
      <3>2. n >= 2
        BY <3>1
      <3> QED BY <3>2 DEF n
    <2> QED BY <2>1, <2>2, <2>3, <2>4
  <1>2. /\ path \in Seq(Words) /\ Len(path) = Len(batch) + Len(stream)
        /\ \A k \in 1 .. Len(batch) : path[k] = batch[k]
        /\ DOMAIN path = 1 .. (Len(batch) + Len(stream))
    BY <1>1, ConcatLemma
  <1>3. path # <<>> /\ path[1] = batch[1] /\ path[2] = batch[2] /\ path[1].pos = 0
    <2>1. 1 \in 1 .. Len(batch) /\ 2 \in 1 .. Len(batch)
      BY <1>1
    <2>2. path # <<>>
      BY <1>1, <1>2
    <2> QED BY <1>2, <2>1, <2>2 DEF InFrame
  <1> HIDE DEF path
  <1>4. 1 \in 1 .. Len(path) /\ e = path[1].event /\ e \in Event /\ e.size \in Nat /\ e.size >= 2
    <2>1. 1 \in 1 .. Len(path)
      BY <1>1, <1>2
    <2> QED BY <1>2, <1>3, <2>1, WordType, EventType
  <1> HIDE DEF e
  <1>5. path[2] = Word(e, 1)
    <2>1. 1 \in DOMAIN path
      BY <1>2, <1>4
    <2>2. \A k \in 0 .. (e.size - 0 - 1) : path[1 + k] = Word(e, 0 + k)
      BY <1>1, <1>3, <1>4, <2>1 DEF Framed
    <2>3. 1 \in 0 .. (e.size - 0 - 1) /\ 1 + 1 = 2 /\ 0 + 1 = 1
      BY <1>4
    <2> QED BY <2>2, <2>3
  <1>6. SizeFields = {e.size}
    <2>1. Word(e, 1).pos = 1 /\ Word(e, 1).event = e
      BY DEF Word
    <2>2. Len(batch) > 1 /\ batch[2].pos = 1 /\ batch[2].event = e
      BY <1>1, <1>3, <1>5, <2>1
    <2> QED BY <2>2 DEF SizeFields
  <1>7. PICK fatal \in Fatal :
          IF fatal
          THEN failure' = "exit" /\ UNCHANGED <<batch, handled>>
          ELSE handled' = Given(e.size) /\ Advance(e.size)
    BY <1>6 DEF Handle
  <1>8. CASE UNCHANGED batch
    BY <1>1, <1>8 DEF InFrame
  <1>9. CASE ~(e.size > Len(batch)) /\ batch' = SubSeq(batch, e.size + 1, Len(batch))
    <2>1. batch' \o stream' = SubSeq(path, e.size + 1, Len(path))
      <3>1. e.size \in Nat /\ e.size <= Len(batch)
        BY <1>1, <1>4, <1>9
      <3>2. SubSeq(batch, e.size + 1, Len(batch)) \o stream = SubSeq(path, e.size + 1, Len(path))
        BY <1>1, <3>1, AdvancePath DEF path
      <3> QED BY <1>1, <1>9, <3>2
    <2>2. path[1].event.size <= Len(path)
      BY <1>1, <1>2, <1>4, <1>9
    <2>3. batch' \o stream' = <<>> \/ (batch' \o stream')[1].pos = 0
      BY <1>1, <1>2, <1>3, <1>4, <2>1, <2>2, FramedHead
    <2> QED BY <2>3 DEF InFrame
  <1>10. failure' = "misaligned" \/ UNCHANGED batch
           \/ (~(e.size > Len(batch)) /\ batch' = SubSeq(batch, e.size + 1, Len(batch)))
    BY <1>7 DEF Advance
  <1> QED BY <1>8, <1>9, <1>10

LEMMA StepKeepsFrame ==
  ASSUME FrameInv, [Next]_vars, InFrame, Len(batch) # 1
  PROVE  InFrame' \/ failure' = "misaligned"
  <1>1. TypeOK
    BY DEF FrameInv
  <1>2. CASE Recv
    BY <1>1, <1>2, RecvKeepsPath DEF InFrame
  <1>3. CASE Handle
    BY <1>3, HandleKeepsFrame
  <1>4. CASE \E event \in Event : Emit(event)
    <2>1. PICK event \in Event : Emit(event)
      BY <1>4
    <2> DEFINE path == batch \o stream
               more == WordsOf(event)
    <2>2. /\ batch \in Seq(Words) /\ stream \in Seq(Words) /\ more \in Seq(Words)
          /\ batch' = batch /\ stream' = stream \o more
      BY <1>1, <2>1, EventType DEF Emit, TypeOK
    <2>3. batch' \o stream' = path \o more /\ path \in Seq(Words) /\ Len(path) \in Nat
      BY <2>2, ConcatAssoc, ConcatLemma
    <2>4. Len(more) >= 2 /\ Len(more) \in Nat /\ more[1].pos = 0
      <3>1. event.size >= 2 /\ event.size \in Nat /\ Len(more) = event.size
            /\ \A k \in 1 .. event.size : more[k].pos = k - 1
        BY EventType
      <3>2. 1 \in 1 .. event.size /\ 1 - 1 = 0
        BY <3>1
      <3> QED BY <3>1, <3>2
    <2>5. path = <<>> \/ path[1].pos = 0
      BY DEF InFrame
    <2> HIDE DEF path, more
    <2>6. /\ \A k \in 1 .. Len(path) : (path \o more)[k] = path[k]
          /\ \A k \in 1 .. Len(more) : (path \o more)[Len(path) + k] = more[k]
      BY <2>2, <2>3, ConcatLemma
    <2>7. (path \o more)[1].pos = 0
      <3>1. CASE Len(path) = 0
        <4>1. 1 \in 1 .. Len(more) /\ Len(path) + 1 = 1
          BY <2>4, <3>1
        <4> QED BY <2>4, <2>6, <4>1
      <3>2. CASE Len(path) # 0
        <4>1. 1 \in 1 .. Len(path) /\ path # <<>>
          BY <2>3, <3>2
        <4> QED BY <2>5, <2>6, <4>1
      <3> QED BY <3>1, <3>2
    <2> QED BY <2>3, <2>7 DEF InFrame
  <1>5. CASE RecvFails \/ HangUp \/ UNCHANGED vars
    <2>1. UNCHANGED <<batch, stream>>
      BY <1>5 DEF RecvFails, HangUp, vars
    <2> QED BY <2>1 DEF InFrame
  <1> QED BY <1>2, <1>3, <1>4, <1>5 DEF Next, Read

\* Whatever waits in the socket and wherever recv cuts it: read_queues does not
\* go on with payload as if it were a header, unless a page ended inside one.
THEOREM FrameAlwaysKept == Spec => FrameKept
  <1>1. Init => FrameInv
    <2>1. <<>> \o <<>> = <<>> /\ Framed(<<>>)
      BY NothingReceived, CutAll DEF Framed
    <2> QED BY <2>1, InitTypes DEF Init, FrameInv
  <1>2. FrameInv /\ [Next]_vars => [InFrame /\ Len(batch) # 1 => InFrame' \/ failure' = "misaligned"]_vars
    BY StepKeepsFrame
  <1> QED BY <1>1, <1>2, StepFrameInv, PTL DEF Spec, FrameKept
-----------------------------------------------------------------------------
(* What waits fits a page: whole events are received and whole events left. *)

LEMMA InitInv == Init => IInv
  <1> SUFFICES ASSUME Init PROVE IInv
    OBVIOUS
  <1>1. batch = <<>> /\ stream = <<>> /\ handled = NoEvent
    BY DEF Init
  <1>2. Whole(<<>>)
    BY DEF Whole
  <1>3. Len(<<>>) <= PAGE_WORDS
    BY NothingReceived, RecvStreamAssumption
  <1>4. Lists(<<>>, <<>>)
    <2>1. <<>> \in Seq(Nat) /\ DOMAIN <<>> = {}
      OBVIOUS
    <2> QED BY <2>1 DEF Lists, Firsts
  <1>5. <<>> \o <<>> = <<>>
    BY NothingReceived, CutAll
  <1>6. WholeEventsOnly
    BY <1>1 DEF NoEvent, Garbled, WholeEventsOnly
  <1> QED BY <1>1, <1>2, <1>3, <1>4, <1>5, <1>6, InitTypes DEF IInv

\* Recv takes all that waits; the path of the events stays what it was.
LEMMA RecvTakesAll ==
  ASSUME IInv, Recv
  PROVE  /\ batch' = stream /\ stream' = <<>>
         /\ batch' \o stream' = batch \o stream
  <1>1. stream \in Seq(Words) /\ Len(stream) <= PAGE_WORDS /\ Len(stream) \in Nat
    <2>1. stream \in Seq(Words) /\ Len(stream) \in Nat
      BY DEF IInv, TypeOK
    <2> QED BY <2>1 DEF IInv
  <1>2. (IF Len(stream) < PAGE_WORDS THEN Len(stream) ELSE PAGE_WORDS) = Len(stream)
    BY <1>1, RecvStreamAssumption
  <1>3. /\ batch = <<>>
        /\ batch' = SubSeq(stream, 1, Len(stream))
        /\ stream' = SubSeq(stream, Len(stream) + 1, Len(stream))
    BY <1>2 DEF Recv
  <1>4. batch' = stream /\ stream' = <<>>
    BY <1>1, <1>3, CutAll
  <1> QED BY <1>1, <1>3, <1>4, CutAll

LEMMA RecvInv ==
  ASSUME IInv, Recv
  PROVE  IInv'
  <1>1. batch' = stream /\ stream' = <<>> /\ batch' \o stream' = batch \o stream
    BY RecvTakesAll
  <1>2. TypeOK'
    BY RecvTypes DEF IInv
  <1>3. Whole(<<>>) /\ Len(<<>>) <= PAGE_WORDS
    BY NothingReceived, RecvStreamAssumption DEF Whole
  <1>4. UNCHANGED handled
    BY DEF Recv
  <1> QED BY <1>1, <1>2, <1>3, <1>4 DEF IInv, WholeEventsOnly

\* The loop is given the event at the head of the path, and leaves the others.
LEMMA HandleTakesOne ==
  ASSUME IInv, Handle
  PROVE  \/ UNCHANGED <<batch, stream, handled>>
         \/ /\ batch # <<>> /\ UNCHANGED stream
            /\ handled' = batch[1].event /\ batch[1].event \in Event
            /\ batch' = SubSeq(batch, batch[1].event.size + 1, Len(batch))
  <1> DEFINE e == batch[1].event
  <1>1. batch # <<>> /\ UNCHANGED stream /\ batch \in Seq(Words) /\ Whole(batch)
    BY DEF Handle, IInv, TypeOK
  <1>2. /\ e \in Event /\ e.size \in 2 .. Len(batch)
        /\ \A k \in 1 .. e.size : batch[k].pos = k - 1 /\ batch[k].event = e
        /\ SubSeq(batch, 1, e.size) = WordsOf(e)
    BY <1>1, WholeHead
  <1>3. Len(batch) \in Nat /\ e.size \in Nat /\ e.size >= 2 /\ e.size <= Len(batch)
    BY <1>1, <1>2
  <1>4. SizeFields = {e.size}
    <2>1. 2 \in 1 .. e.size /\ Len(batch) > 1
      BY <1>3
    <2>2. batch[2].pos = 1 /\ batch[2].event = e
      BY <1>2, <2>1
    <2> QED BY <2>1, <2>2 DEF SizeFields
  <1>5. PICK fatal \in Fatal :
          IF fatal
          THEN failure' = "exit" /\ UNCHANGED <<batch, handled>>
          ELSE handled' = Given(e.size) /\ Advance(e.size)
    BY <1>4 DEF Handle
  <1>6. Given(e.size) = e
    BY <1>2, <1>3 DEF Given
  <1>7. CASE fatal
    BY <1>1, <1>5, <1>7
  <1>8. CASE ~fatal
    <2>1. ~(e.size > Len(batch))
      BY <1>3
    <2>2. batch' = SubSeq(batch, e.size + 1, Len(batch)) /\ handled' = e
      BY <1>5, <1>6, <1>8, <2>1 DEF Advance
    <2> QED BY <1>1, <1>2, <2>2
  <1> QED BY <1>7, <1>8

\* The rest of the path, when its first event is gone.
LEMMA PathTail ==
  ASSUME IInv, batch # <<>>
  PROVE  LET e == batch[1].event
             rest == SubSeq(batch, e.size + 1, Len(batch))
         IN /\ Whole(rest)
            /\ \E starts : Lists(starts, rest \o stream)
            /\ EventsIn(batch \o stream) # <<>>
            /\ Head(EventsIn(batch \o stream)) = e
            /\ EventsIn(rest \o stream) = Tail(EventsIn(batch \o stream))
  <1> DEFINE e == batch[1].event
             rest == SubSeq(batch, e.size + 1, Len(batch))
             path == batch \o stream
  <1>1. batch \in Seq(Words) /\ stream \in Seq(Words) /\ Whole(batch)
    BY DEF IInv, TypeOK
  <1>2. /\ e \in Event /\ e.size \in 2 .. Len(batch)
        /\ \A k \in 1 .. e.size : batch[k].pos = k - 1 /\ batch[k].event = e
        /\ Whole(rest)
    BY <1>1, WholeHead
  <1>3. PICK starts : Lists(starts, path)
    BY DEF IInv
  <1>4. /\ path \in Seq(Words) /\ Len(path) = Len(batch) + Len(stream)
        /\ Len(batch) \in Nat /\ Len(stream) \in Nat
        /\ \A k \in 1 .. Len(batch) : path[k] = batch[k]
    BY <1>1, ConcatLemma
  <1>5. SubSeq(path, e.size + 1, Len(path)) = rest \o stream
    <2>1. e.size \in 0 .. Len(batch)
      BY <1>2, <1>4
    <2> HIDE DEF e
    <2> QED BY <1>1, <2>1, CutConcat
  <1> HIDE DEF e, rest, path
  <1>6. e.size \in 2 .. Len(path)
    BY <1>2, <1>4
  <1>7. \A k \in 1 .. e.size : path[k].pos = k - 1 /\ path[k].event = e
    <2>1. \A k \in 1 .. e.size : k \in 1 .. Len(batch)
      BY <1>2, <1>4
    <2> QED BY <1>2, <1>4, <2>1
  <1>8. LET tail == SubSeq(path, e.size + 1, Len(path))
        IN /\ \E fewer : Lists(fewer, tail)
           /\ EventsIn(path) # <<>> /\ Head(EventsIn(path)) = e
           /\ EventsIn(tail) = Tail(EventsIn(path))
    BY <1>2, <1>3, <1>4, <1>6, <1>7, ListTail
  <1> QED BY <1>2, <1>5, <1>8 DEF e, rest, path

LEMMA HandleInv ==
  ASSUME IInv, Handle
  PROVE  IInv'
  <1>1. TypeOK'
    BY HandleTypes DEF IInv
  <1>2. CASE UNCHANGED <<batch, stream, handled>>
    BY <1>1, <1>2 DEF IInv, WholeEventsOnly
  <1>3. CASE /\ batch # <<>> /\ UNCHANGED stream
             /\ handled' = batch[1].event /\ batch[1].event \in Event
             /\ batch' = SubSeq(batch, batch[1].event.size + 1, Len(batch))
    <2>1. Whole(batch') /\ \E starts : Lists(starts, batch' \o stream')
      BY <1>3, PathTail
    <2>2. handled' # Garbled
      <3>1. \A event \in Event : event.n \in 1 .. MaxEvents
        BY DEF Event
      <3>2. Garbled.n = -1 /\ -1 \notin 1 .. MaxEvents
        BY RecvStreamAssumption DEF Garbled
      <3> QED BY <1>3, <3>1, <3>2
    <2> QED BY <1>1, <1>3, <2>1, <2>2 DEF IInv, WholeEventsOnly
  <1> QED BY <1>2, <1>3, HandleTakesOne

\* The compositor lengthens the path by the event it sends.
LEMMA EmitAppends ==
  ASSUME IInv, NEW event \in Event, Emit(event)
  PROVE  /\ batch' \o stream' = (batch \o stream) \o WordsOf(event)
         /\ Whole(stream')
         /\ \E starts : Lists(starts, batch' \o stream')
         /\ EventsIn(batch' \o stream') = Append(EventsIn(batch \o stream), event)
  <1>1. /\ batch \in Seq(Words) /\ stream \in Seq(Words) /\ Whole(stream)
        /\ batch \o stream \in Seq(Words)
    BY ConcatLemma DEF IInv, TypeOK
  <1>2. WordsOf(event) \in Seq(Words)
    BY EventType
  <1>3. batch' = batch /\ stream' = stream \o WordsOf(event)
    BY DEF Emit
  <1>4. batch' \o stream' = (batch \o stream) \o WordsOf(event)
    BY <1>1, <1>2, <1>3, ConcatAssoc
  <1>5. PICK starts : Lists(starts, batch \o stream)
    BY DEF IInv
  <1>6. Whole(stream')
    BY <1>1, <1>3, WholeAppend
  <1> QED BY <1>1, <1>4, <1>5, <1>6, ListAppend

LEMMA EmitInv ==
  ASSUME IInv, NEW event \in Event, Emit(event), ~crowded'
  PROVE  IInv'
  <1>1. TypeOK'
    BY EmitTypes DEF IInv
  <1>2. Len(stream') <= PAGE_WORDS
    <2>1. stream \in Seq(Words) /\ WordsOf(event) \in Seq(Words) /\ Len(WordsOf(event)) = event.size
      BY EventType DEF IInv, TypeOK
    <2>2. Len(stream \o WordsOf(event)) = Len(stream) + event.size
      BY <2>1, ConcatLemma
    <2>3. Len(stream) \in Nat /\ event.size \in Nat /\ PAGE_WORDS \in Nat
      BY <2>1, EventType, RecvStreamAssumption
    <2>4. ~(Len(stream) + event.size > PAGE_WORDS) /\ stream' = stream \o WordsOf(event)
      BY Zenon DEF Emit
    <2> QED BY <2>2, <2>3, <2>4, <2>1
  <1>3. UNCHANGED <<batch, handled>>
    BY DEF Emit
  <1> QED BY <1>1, <1>2, <1>3, EmitAppends DEF IInv, WholeEventsOnly

LEMMA UncrowdedStep ==
  ASSUME IInv, [Next]_vars, ~crowded'
  PROVE  IInv'
  <1>1. TypeOK'
    BY StepTypes DEF IInv
  <1>2. CASE Recv
    BY <1>2, RecvInv
  <1>3. CASE Handle
    BY <1>3, HandleInv
  <1>4. CASE RecvFails
    BY <1>1, <1>4 DEF RecvFails, IInv, WholeEventsOnly
  <1>5. CASE \E event \in Event : Emit(event)
    BY <1>5, EmitInv
  <1>6. CASE HangUp
    BY <1>1, <1>6 DEF HangUp, IInv, WholeEventsOnly
  <1>7. CASE UNCHANGED vars
    BY <1>1, <1>7 DEF vars, IInv, WholeEventsOnly
  <1> QED BY <1>2, <1>3, <1>4, <1>5, <1>6, <1>7 DEF Next, Read

\* Once crowded, crowded for ever.
LEMMA StaysCrowded == crowded /\ [Next]_vars => crowded'
  BY DEF Next, Read, Recv, RecvFails, Handle, Emit, HangUp, vars

LEMMA Invariant == Spec => []Inv
  <1>1. Init => Inv
    BY InitInv DEF IInv, Inv
  <1>2. Inv /\ [Next]_vars => Inv'
    BY StepTypes, UncrowdedStep, StaysCrowded DEF Inv
  <1> QED BY <1>1, <1>2, PTL DEF Spec

-----------------------------------------------------------------------------
(* The path of an event implements the Outbox. *)

LEMMA InitRefines == Init => Path!Init
  <1> SUFFICES ASSUME Init PROVE Path!Init
    OBVIOUS
  <1>1. EventsIn(<<>>) = <<>>
    <2>1. /\ <<>> \in Seq(Words) /\ Lists(<<>>, <<>>) /\ Len(<<>>) = 0
      <3>1. <<>> \in Seq(Nat) /\ DOMAIN <<>> = {}
        OBVIOUS
      <3> QED BY <3>1, NothingReceived DEF Lists, Firsts
    <2>2. EventsIn(<<>>) = [k \in 1 .. Len(<<>>) |-> <<>>[<<>>[k]].event]
      BY <2>1, ListedEvents
    <2>3. EventsIn(<<>>) \in [1 .. 0 -> Event]
      BY <2>1, <2>2
    <2> QED BY <2>3
  <1>2. <<>> \o <<>> = <<>>
    BY NothingReceived, CutAll
  <1> QED BY <1>1, <1>2 DEF Init, Path!Init

\* The events an Emit sends are composed; those a Handle deals with are delivered.
LEMMA StepRefines ==
  ASSUME IInv, [Next]_vars
  PROVE  [Path!Next]_<<EventsIn(batch \o stream), handled>>
  <1> SUFFICES \/ Path!Compose \/ Path!Deliver
               \/ UNCHANGED <<EventsIn(batch \o stream), handled>>
    BY DEF Path!Next
  <1>1. CASE Recv
    <2>1. batch' \o stream' = batch \o stream /\ UNCHANGED handled
      BY <1>1, RecvTakesAll DEF Recv
    <2> QED BY <2>1
  <1>2. CASE Handle
    <2>1. CASE UNCHANGED <<batch, stream, handled>>
      BY <2>1
    <2>2. CASE /\ batch # <<>> /\ UNCHANGED stream
               /\ handled' = batch[1].event /\ batch[1].event \in Event
               /\ batch' = SubSeq(batch, batch[1].event.size + 1, Len(batch))
      BY <2>2, PathTail DEF Path!Deliver
    <2> QED BY <1>2, <2>1, <2>2, HandleTakesOne
  <1>3. CASE \E event \in Event : Emit(event)
    <2>1. PICK event \in Event : Emit(event)
      BY <1>3
    <2>2. EventsIn(batch' \o stream') = Append(EventsIn(batch \o stream), event)
      BY <2>1, EmitAppends
    <2>3. UNCHANGED handled
      BY <2>1 DEF Emit
    <2> QED BY <2>2, <2>3 DEF Path!Compose
  <1>4. CASE RecvFails \/ HangUp \/ UNCHANGED vars
    <2>1. UNCHANGED <<batch, stream, handled>>
      BY <1>4 DEF RecvFails, HangUp, vars
    <2> QED BY <2>1
  <1> QED BY <1>1, <1>2, <1>3, <1>4 DEF Next, Read

\* Every event is handled once, whole and in the order it was sent, for any sizes
\* and any cuts of recv, until more than fits a page has waited in the socket.
THEOREM PathImplementsOutbox == Spec => DeliversInOrder
  <1>1. Inv /\ [Next]_vars
          => [crowded' \/ Path!Next]_<<EventsIn(batch \o stream), handled>>
    <2> SUFFICES ASSUME Inv, [Next]_vars
                 PROVE  [crowded' \/ Path!Next]_<<EventsIn(batch \o stream), handled>>
      OBVIOUS
    <2>1. CASE crowded
      BY <2>1, StaysCrowded
    <2>2. CASE IInv
      BY <2>2, StepRefines
    <2> QED BY <2>1, <2>2 DEF Inv
  <1> QED BY <1>1, Invariant, InitRefines, PTL DEF Spec, DeliversInOrder

=============================================================================
