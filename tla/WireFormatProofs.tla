--------------------------- MODULE WireFormatProofs --------------------------
(***************************************************************************)
(* Sizes and numbers of the wire format, for every width of wl_uint16, and *)
(* the way of a request: from the call of its method to the words in the   *)
(* page and the socket, and to what the compositor decodes of them.        *)
(***************************************************************************)
EXTENDS RequestWire, NaturalsInduction, WellFoundedInduction, SequenceTheorems, TLAPS

\* What is as short as a wl_uint16 is far from the end of a wl_uint.
LEMMA WideLemma ==
  /\ UINT16_MOD \in Nat /\ UINT16_MOD > 8
  /\ UINT_MOD \in Nat /\ UINT_MOD >= 8 * UINT16_MOD
<1>1. UINT16_MOD \in Nat /\ UINT16_MOD > 8
  BY WireFormatAssumption
<1>2. ASSUME NEW m \in Nat, m > 8
      PROVE  m * m \in Nat /\ m * m >= 8 * m
  BY <1>2, SMTT(30)
<1>3. QED
  BY <1>1, <1>2 DEF UINT_MOD

\* A remainder by a number that is not reached is the number itself.
LEMMA SmallLemma ==
  ASSUME NEW m \in Nat, NEW n \in Nat, n < m
  PROVE  n % m = n
  BY SMTT(30)

\* wl_align gives the least multiple of the word that is not less.
THEOREM AlignsToWord ==
  ASSUME NEW n \in 1 .. UINT16_MOD
  PROVE  /\ wl_align(n) \in Nat /\ wl_align(n) % WL_WORD_SIZE = 0
         /\ n <= wl_align(n) /\ wl_align(n) < n + WL_WORD_SIZE
<1> DEFINE k == (n - 1) \div 4
<1>1. /\ n \in Nat /\ n - 1 \in Nat /\ k \in Nat
      /\ n - 1 = 4 * k + ((n - 1) % 4) /\ (n - 1) % 4 \in 0 .. 3
  BY WideLemma, SMTT(30)
<1>2. n - 1 < UINT_MOD /\ 4 * k + 4 < UINT_MOD
  <2>1. n <= UINT16_MOD /\ 4 * k <= n - 1
    BY <1>1, WideLemma
  <2> HIDE DEF k
  <2>2. QED
    BY <1>1, <2>1, WideLemma
<1> HIDE DEF k
<1>3. (n - 1) % UINT_MOD = n - 1
  BY <1>1, <1>2, WideLemma, SmallLemma
<1>4. (4 * k + 4) % UINT_MOD = 4 * k + 4
  <2>1. 4 * k + 4 \in Nat
    BY <1>1
  <2>2. QED
    BY <2>1, <1>2, WideLemma, SmallLemma
<1>5. wl_align(n) = (n - 1 - ((n - 1) % 4) + 4) % UINT_MOD
  BY <1>3, Zenon DEF wl_align, WL_WORD_SIZE
<1>6. n - 1 - ((n - 1) % 4) + 4 = 4 * k + 4
  BY <1>1
<1>7. wl_align(n) = 4 * k + 4
  BY <1>4, <1>5, <1>6, Zenon
<1>8. QED
  BY <1>1, <1>7 DEF WL_WORD_SIZE

\* Hence a string takes as many words as the compositor looks for ...
THEOREM StringsAgree ==
  ASSUME NEW n \in 1 .. UINT16_MOD
  PROVE  /\ word_size(n) = WordsFor(n) /\ word_size(n) \in Nat
         /\ serialised_size(n) = WL_WORD_SIZE * (1 + WordsFor(n))
<1>1. ASSUME NEW m \in Nat, NEW a \in Nat, a % 4 = 0, m <= a, a < m + 4
      PROVE  a \div 4 = (m + 3) \div 4 /\ a \div 4 \in Nat /\ a = 4 * (a \div 4)
  BY <1>1, SMTT(30)
<1>2. /\ wl_align(n) \in Nat /\ wl_align(n) % 4 = 0
      /\ n <= wl_align(n) /\ wl_align(n) < n + 4
  BY AlignsToWord DEF WL_WORD_SIZE
<1>3. n \in Nat
  BY WideLemma
<1>4. /\ wl_align(n) \div 4 = (n + 3) \div 4 /\ wl_align(n) \div 4 \in Nat
      /\ wl_align(n) = 4 * (wl_align(n) \div 4)
  BY <1>1, <1>2, <1>3
<1>5. word_size(n) = WordsFor(n) /\ word_size(n) \in Nat
  BY <1>4, Zenon DEF word_size, WordsFor, WL_WORD_SIZE
<1>6. wl_align(n) = 4 * WordsFor(n) /\ WordsFor(n) \in Nat
  BY <1>4, <1>5, Zenon DEF WordsFor
<1>7. serialised_size(n) = 4 * WordsFor(n) + 4
  BY <1>6, Zenon DEF serialised_size, WL_WORD_SIZE
<1>8. QED
  BY <1>5, <1>6, <1>7 DEF WL_WORD_SIZE

\* A size that fits a wl_uint16 is what the words and the header take.
LEMMA MessageSizeLemma ==
  ASSUME NEW words \in Nat, words * 4 + 8 < UINT16_MOD
  PROVE  MessageSize(words) = words * 4 + 8
<1>1. words < UINT16_MOD /\ words * 4 + 8 \in Nat
  BY WideLemma
<1>2. words % UINT16_MOD = words /\ (words * 4 + 8) % UINT16_MOD = words * 4 + 8
  BY <1>1, <1>1, WideLemma, SmallLemma
<1>3. WL_WORD_SIZE = 4 /\ WL_EVENT_HEADER_SIZE = 8
  BY DEF WL_WORD_SIZE, WL_EVENT_HEADER_SIZE
<1>4. QED
  BY <1>2, <1>3, Zenon DEF MessageSize

\* ... and what bind and set_title say of their requests is enough for what
\* they write, if it fits the 16 bits of the size.
THEOREM ReservesEnough ==
  ASSUME NEW n \in 1 .. UINT16_MOD,
         NEW bind \in Registry, NEW set_title \in Toplevel, set_title.name = "set_title",
         WL_WORD_SIZE * (7 + word_size(n)) + WL_EVENT_HEADER_SIZE < UINT16_MOD
  PROVE  /\ MessageSize(SizeOf(bind, n))
              >= WL_EVENT_HEADER_SIZE + 3 * WL_WORD_SIZE + serialised_size(n)
         /\ MessageSize(SizeOf(set_title, n)) >= WL_EVENT_HEADER_SIZE + serialised_size(n)
<1>1. ASSUME NEW words \in Nat, words * 4 + 8 < UINT16_MOD
      PROVE  MessageSize(words) = words * 4 + 8
  BY <1>1, MessageSizeLemma
<1>2. /\ word_size(n) \in Nat /\ serialised_size(n) = 4 * (1 + word_size(n))
      /\ (7 + word_size(n)) * 4 + 8 < UINT16_MOD
  BY StringsAgree, WideLemma DEF WL_WORD_SIZE, WL_EVENT_HEADER_SIZE
<1>3. SizeOf(bind, n) = 7 + word_size(n) /\ SizeOf(set_title, n) = 4 + word_size(n)
  <2>1. bind.name = "bind" /\ bind.words = 7
    BY DEF Registry, Writes, WL_WORD_SIZE
  <2>2. set_title.words = 4
    BY DEF Toplevel, Writes, WL_WORD_SIZE
  <2>3. QED
    BY <1>2, <2>1, <2>2 DEF SizeOf
<1>4. /\ 7 + word_size(n) \in Nat /\ 4 + word_size(n) \in Nat
      /\ (4 + word_size(n)) * 4 + 8 < UINT16_MOD
  BY <1>2, WideLemma
<1>5. /\ MessageSize(SizeOf(bind, n)) = (7 + word_size(n)) * 4 + 8
      /\ MessageSize(SizeOf(set_title, n)) = (4 + word_size(n)) * 4 + 8
  BY <1>1, <1>2, <1>3, <1>4
<1>6. QED
  BY <1>2, <1>5 DEF WL_WORD_SIZE, WL_EVENT_HEADER_SIZE

\* The header is read as it was packed.
THEOREM HeaderRoundTrip ==
  ASSUME NEW size \in 0 .. (UINT16_MOD - 1), NEW opcode \in 0 .. (UINT16_MOD - 1)
  PROVE  /\ HeaderSize(PackHeader(size, opcode)) = size
         /\ HeaderOpcode(PackHeader(size, opcode)) = opcode
<1>1. ASSUME NEW m \in Nat, m > 0, NEW q \in Nat, NEW r \in Nat, r < m
      PROVE  (q * m + r) \div m = q /\ (q * m + r) % m = r
  BY <1>1, SMTT(60)
<1>2. UINT16_MOD \in Nat /\ UINT16_MOD > 0 /\ size \in Nat /\ opcode \in Nat /\ opcode < UINT16_MOD
  BY WideLemma
<1>3. QED
  BY <1>1, <1>2 DEF PackHeader, HeaderSize, HeaderOpcode

\* Induction, for a property given as the set of the numbers that have it.
LEMMA SetInduction ==
  ASSUME NEW T, 0 \in T, \A m \in Nat : m \in T => m + 1 \in T
  PROVE  Nat \subseteq T
<1> DEFINE Less == {ss \in Nat \X Nat : ss[1] < ss[2]}
           Bad == Nat \ T
<1>1. IsWellFoundedOn(Less, Nat)
  BY NatLessThanWellFounded DEF OpToRel
<1>2. SUFFICES ASSUME Bad # {} PROVE FALSE
  OBVIOUS
<1>3. Bad \subseteq Nat
  OBVIOUS
<1> HIDE DEF Bad, Less
<1>4. PICK m \in Bad : \A k \in Bad : ~(<<k, m>> \in Less)
  BY <1>1, <1>2, <1>3, WFMin
<1>5. m \in Nat /\ m \notin T
  BY DEF Bad
<1>6. m # 0 /\ m - 1 \in Nat /\ (m - 1) + 1 = m /\ m - 1 < m
  BY <1>5
<1>7. m - 1 \in T
  <2>1. <<m - 1, m>> \in Less
    BY <1>5, <1>6 DEF Less
  <2>2. m - 1 \notin Bad
    BY <1>4, <2>1
  <2>3. QED
    BY <1>6, <2>2 DEF Bad
<1>8. QED
  BY <1>5, <1>6, <1>7

\* The largest of some numbers.
LEMMA LargestLemma ==
  ASSUME NEW m \in Nat, NEW s \in SUBSET (1 .. m), s # {}
  PROVE  Max(s) \in s /\ \A k \in s : k <= Max(s)
<1> DEFINE T == {n \in Nat : \A t \in SUBSET (1 .. n) :
                                t # {} => \E x \in t : \A y \in t : x >= y}
<1>1. 0 \in T
  <2>1. 1 .. 0 = {} /\ 0 \in Nat
    OBVIOUS
  <2>2. QED
    BY <2>1, Zenon
<1>2. ASSUME NEW n \in Nat, n \in T PROVE n + 1 \in T
  <2>1. SUFFICES ASSUME NEW t \in SUBSET (1 .. (n + 1)), t # {}
                 PROVE  \E x \in t : \A y \in t : x >= y
    OBVIOUS
  <2>2. CASE n + 1 \in t
    BY <2>2
  <2>3. CASE n + 1 \notin t
    <3>1. t \in SUBSET (1 .. n)
      BY <2>3
    <3>2. QED
      BY <1>2, <2>1, <3>1
  <2>4. QED
    BY <2>2, <2>3
<1> HIDE DEF T
<1>3. Nat \subseteq T
  BY <1>1, <1>2, SetInduction
<1>4. \E x \in s : \A y \in s : x >= y
  BY <1>3 DEF T
<1>5. Max(s) \in s /\ \A y \in s : Max(s) >= y
  BY <1>4, Zenon DEF Max
<1>6. QED
  BY <1>5

\* The largest of the numbers up to one.
LEMMA LargestOfAll ==
  ASSUME NEW m \in Nat, NEW s \in SUBSET (1 .. (m + 1)), m + 1 \in s
  PROVE  Max(s) = m + 1
<1>1. Max(s) \in s /\ m + 1 <= Max(s)
  <2>1. m + 1 \in Nat /\ s # {}
    OBVIOUS
  <2>2. QED
    BY <2>1, LargestLemma
<1>2. PICK x \in 1 .. (m + 1) : x = Max(s)
  BY <1>1
<1>3. m + 1 <= x
  BY <1>1, <1>2, Zenon
<1>4. x = m + 1
  BY <1>3
<1>5. QED
  BY <1>2, <1>4, Zenon

\* A fold over the numbers up to n is a function of sets of them that takes the
\* largest one after the others.
IsStep(step, X, n) == step \in [X \X (1 .. n) -> X]
IsFold(f, base, step, X, n) ==
  /\ f \in [SUBSET (1 .. n) -> X]
  /\ \A s \in SUBSET (1 .. n) :
       f[s] = IF s = {} THEN base ELSE step[<<f[s \ {Max(s)}], Max(s)>>]

\* One that is it wherever it has a value to go on from.
Folds(f, base, step, X, n) ==
  /\ f[{}] = base
  /\ \A s \in SUBSET (1 .. n) :
       s # {} /\ f[s \ {Max(s)}] \in X => f[s] = step[<<f[s \ {Max(s)}], Max(s)>>]

\* There is such a function.
LEMMA FoldExists ==
  ASSUME NEW X, NEW base \in X, NEW n \in Nat, NEW step, IsStep(step, X, n)
  PROVE  \E f : IsFold(f, base, step, X, n)
<1> DEFINE Is(f, m) == \A s \in SUBSET (1 .. m) :
                         f[s] = IF s = {} THEN base ELSE step[<<f[s \ {Max(s)}], Max(s)>>]
           T == {m \in Nat : m <= n => \E f \in [SUBSET (1 .. m) -> X] : Is(f, m)}
<1>1. 0 \in T
  <2> DEFINE f == [s \in SUBSET (1 .. 0) |-> base]
  <2>1. \A s \in SUBSET (1 .. 0) : s = {}
    OBVIOUS
  <2>2. f \in [SUBSET (1 .. 0) -> X] /\ Is(f, 0)
    BY <2>1
  <2>3. QED
    BY <2>2
<1>2. ASSUME NEW m \in Nat, m \in T PROVE m + 1 \in T
  <2>1. SUFFICES ASSUME m + 1 <= n
                 PROVE  \E f \in [SUBSET (1 .. (m + 1)) -> X] : Is(f, m + 1)
    <3> HIDE DEF Is
    <3>1. m + 1 \in Nat
      OBVIOUS
    <3>2. QED
      BY <3>1, Zenon
  <2>2. PICK g \in [SUBSET (1 .. m) -> X] : Is(g, m)
    <3> HIDE DEF Is
    <3>1. m <= n
      BY <2>1
    <3>2. QED
      BY <1>2, <3>1, Zenon
  <2> DEFINE f == [s \in SUBSET (1 .. (m + 1)) |->
                     IF m + 1 \in s THEN step[<<g[s \ {m + 1}], m + 1>>] ELSE g[s]]
  <2>3. ASSUME NEW s \in SUBSET (1 .. (m + 1))
        PROVE  s \ {m + 1} \in SUBSET (1 .. m) /\ (m + 1 \notin s => s \in SUBSET (1 .. m))
    OBVIOUS
  <2>4. ASSUME NEW s \in SUBSET (1 .. m)
        PROVE  /\ s \in SUBSET (1 .. (m + 1)) /\ m + 1 \notin s
               /\ f[s] = g[s]
    <3>1. s \in SUBSET (1 .. (m + 1)) /\ m + 1 \notin s
      OBVIOUS
    <3>2. QED
      BY <3>1, Zenon
  <2>5. f \in [SUBSET (1 .. (m + 1)) -> X]
    <3>1. m + 1 \in 1 .. n
      BY <2>1
    <3>2. ASSUME NEW s \in SUBSET (1 .. (m + 1))
          PROVE  step[<<g[s \ {m + 1}], m + 1>>] \in X /\ (m + 1 \notin s => g[s] \in X)
      BY <2>3, <3>1 DEF IsStep
    <3>3. QED
      BY <3>2, Zenon
  <2>6. ASSUME NEW s \in SUBSET (1 .. (m + 1))
        PROVE  f[s] = IF s = {} THEN base ELSE step[<<f[s \ {Max(s)}], Max(s)>>]
    <3>1. CASE m + 1 \in s
      <4>1. Max(s) = m + 1
        BY <3>1, LargestOfAll
      <4>2. f[s \ {m + 1}] = g[s \ {m + 1}]
        BY <2>3, <2>4
      <4>3. f[s] = step[<<g[s \ {m + 1}], m + 1>>]
        BY <3>1, Zenon
      <4> HIDE DEF f
      <4>4. QED
        BY <3>1, <4>1, <4>2, <4>3, Zenon
    <3>2. CASE m + 1 \notin s
      <4>1. s \in SUBSET (1 .. m) /\ s \ {Max(s)} \in SUBSET (1 .. m)
        BY <2>3, <3>2, Zenon
      <4>2. f[s] = g[s] /\ f[s \ {Max(s)}] = g[s \ {Max(s)}]
        BY <2>4, <4>1
      <4> HIDE DEF f
      <4>3. QED
        BY <2>2, <4>1, <4>2, Zenon
    <3>3. QED
      BY <3>1, <3>2
  <2> HIDE DEF f
  <2>7. QED
    BY <2>5, <2>6
<1> HIDE DEF T
<1>3. n \in T
  BY <1>1, <1>2, SetInduction
<1>4. PICK f \in [SUBSET (1 .. n) -> X] : Is(f, n)
  <2> HIDE DEF Is
  <2>1. n <= n
    OBVIOUS
  <2>2. QED
    BY <1>3, <2>1, Zenon DEF T
<1>5. IsFold(f, base, step, X, n)
  BY <1>4 DEF IsFold
<1>6. QED
  BY <1>5, Zenon

\* The values of a fold one after the other.
Steps(h, base, step, X, n) ==
  /\ h \in [0 .. n -> X] /\ h[0] = base
  /\ \A k \in 1 .. n : h[k] = step[<<h[k - 1], k>>]

\* Its values on the first numbers are such steps.
LEMMA FoldSteps ==
  ASSUME NEW X, NEW base \in X, NEW n \in Nat, NEW step, IsStep(step, X, n),
         NEW f, Folds(f, base, step, X, n)
  PROVE  \E h : Steps(h, base, step, X, n) /\ h[n] = f[1 .. n]
<1> DEFINE h == [k \in 0 .. n |-> f[1 .. k]]
<1>1. ASSUME NEW k \in 1 .. n, f[1 .. (k - 1)] \in X
      PROVE  f[1 .. k] = step[<<f[1 .. (k - 1)], k>>] /\ f[1 .. k] \in X
  <2>1. /\ 1 .. k \in SUBSET (1 .. n) /\ 1 .. k # {} /\ (1 .. k) \ {k} = 1 .. (k - 1)
        /\ k - 1 \in Nat /\ (k - 1) + 1 = k /\ k \in 1 .. k
    BY SMT
  <2>2. Max(1 .. k) = k
    BY <2>1, LargestOfAll
  <2>3. f[1 .. k] = step[<<f[1 .. (k - 1)], k>>]
    BY <1>1, <2>1, <2>2, Zenon DEF Folds
  <2>4. QED
    BY <1>1, <2>3 DEF IsStep
<1>2. f[1 .. 0] = base
  <2>1. 1 .. 0 = {}
    OBVIOUS
  <2>2. QED
    BY <2>1, Zenon DEF Folds
<1>3. \A k \in 0 .. n : f[1 .. k] \in X
  <2> DEFINE T == {k \in Nat : k <= n => f[1 .. k] \in X}
  <2>1. 0 \in T
    BY <1>2
  <2>2. ASSUME NEW k \in Nat, k \in T PROVE k + 1 \in T
    <3>1. SUFFICES ASSUME k + 1 <= n PROVE f[1 .. (k + 1)] \in X
      OBVIOUS
    <3>2. k + 1 \in 1 .. n /\ (k + 1) - 1 = k /\ k <= n
      BY <3>1
    <3>3. QED
      BY <1>1, <2>2, <3>2
  <2> HIDE DEF T
  <2>3. Nat \subseteq T
    BY <2>1, <2>2, SetInduction
  <2>4. QED
    BY <2>3 DEF T
<1>4. \A k \in 1 .. n : k \in 0 .. n /\ k - 1 \in 0 .. n
  OBVIOUS
<1>5. h[0] = base /\ h[n] = f[1 .. n]
  <2>1. 0 \in 0 .. n /\ n \in 0 .. n
    OBVIOUS
  <2>2. QED
    BY <1>2, <2>1, Zenon
<1>6. \A k \in 1 .. n : h[k] = step[<<h[k - 1], k>>]
  BY <1>1, <1>3, <1>4, Zenon
<1>7. h \in [0 .. n -> X]
  BY <1>3, Zenon
<1> HIDE DEF h
<1>8. Steps(h, base, step, X, n)
  BY <1>5, <1>6, <1>7 DEF Steps
<1>9. QED
  BY <1>5, <1>8, Zenon

\* Such steps can be taken from any value.
LEMMA Iterates ==
  ASSUME NEW X, NEW base \in X, NEW n \in Nat, NEW step, IsStep(step, X, n)
  PROVE  \E h : Steps(h, base, step, X, n)
<1>1. PICK f : IsFold(f, base, step, X, n)
  BY FoldExists, Zenon
<1>2. {} \in SUBSET (1 .. n)
  OBVIOUS
<1>3. Folds(f, base, step, X, n)
  BY <1>1, <1>2, Zenon DEF IsFold, Folds
<1>4. QED
  BY <1>3, FoldSteps, Zenon

Word == [value : Int, part : Nat]

LEMMA JoinLemma ==
  ASSUME NEW a \in Seq(Word), NEW b \in Seq(Word)
  PROVE  a \o b \in Seq(Word)
  BY ConcatProperties

\* Where the words of an event end does not matter to the stream.
Rejoined(a, b, c) == (a \o b) \o c = a \o (b \o c)

LEMMA RejoinLemma ==
  ASSUME NEW a \in Seq(Word), NEW b \in Seq(Word), NEW c \in Seq(Word)
  PROVE  Rejoined(a, b, c)
  BY ConcatAssociative DEF Rejoined

\* Words in the middle, where a reader is.
LEMMA MiddleLemma ==
  ASSUME NEW a \in Seq(Word), NEW b \in Seq(Word), NEW c \in Seq(Word)
  PROVE  /\ (a \o b) \o c \in Seq(Word)
         /\ \A k \in 1 .. Len(b) : /\ Len(a) + k \in DOMAIN ((a \o b) \o c)
                                   /\ ((a \o b) \o c)[Len(a) + k] = b[k]
  OBVIOUS

LEMMA AppendedLemma ==
  ASSUME NEW a \in Seq(Word), NEW b \in Seq(Word)
  PROVE  LET s == a \o b
         IN /\ s \in Seq(Word) /\ Len(s) = Len(a) + Len(b)
            /\ \A k \in 1 .. Len(a) : s[k] = a[k]
            /\ \A k \in 1 .. Len(b) : s[Len(a) + k] = b[k]
<1> HIDE DEF Word
<1>1. QED
  BY ConcatProperties

\* What is left of words behind the first m, which are n.
IsLeft(left, words, m, n) ==
  /\ left \in Seq(Word) /\ Len(left) = n
  /\ \A k \in 1 .. n : left[k] = words[m + k]

LEMMA LeftLemma ==
  ASSUME NEW words \in Seq(Word), NEW m \in Nat, NEW n \in Nat, Len(words) = m + n
  PROVE  IsLeft(SubSeq(words, m + 1, Len(words)), words, m, n)
<1> HIDE DEF Word
<1>1. QED
  BY SMTT(30) DEF IsLeft

-----------------------------------------------------------------------------
(* What a writer does.                                                     *)

\* An argument whose size fits.
Args == {arg \in [value : Int, size : Nat] : arg.size <= UINT16_MOD}

\* Its words.
Marshalled(arg) ==
  IF arg.size > 0
  THEN <<Number(arg.size)>> \o [k \in 1 .. word_size(arg.size) |-> Chunk(arg.value, k)]
  ELSE <<Number(arg.value)>>

WordsOf(arg) == IF arg.size > 0 THEN 1 + WordsFor(arg.size) ELSE 1

LEMMA MarshalledLemma ==
  ASSUME NEW arg \in Args
  PROVE  /\ Marshalled(arg) \in Seq(Word) /\ WordsOf(arg) \in Nat
         /\ Len(Marshalled(arg)) = WordsOf(arg)
         /\ arg.size > 0 =>
              /\ Marshalled(arg)[1] = Number(arg.size) /\ WordsFor(arg.size) \in Nat \ {0}
              /\ \A k \in 1 .. WordsFor(arg.size) : Marshalled(arg)[1 + k] = Chunk(arg.value, k)
<1>1. arg.value \in Int /\ arg.size \in Nat /\ arg.size <= UINT16_MOD
  BY DEF Args
<1>2. Number(arg.size) \in Word /\ Number(arg.value) \in Word
  BY <1>1 DEF Number, Word
<1>3. CASE arg.size > 0
  <2> DEFINE n == WordsFor(arg.size)
             chunks == [k \in 1 .. n |-> Chunk(arg.value, k)]
  <2>1. arg.size \in 1 .. UINT16_MOD
    BY <1>1, <1>3, WideLemma
  <2>2. word_size(arg.size) = n /\ n \in Nat
    BY <2>1, StringsAgree
  <2>3. n # 0
    <3>1. ASSUME NEW m \in Nat, m > 0 PROVE (m + 3) \div 4 # 0
      BY <3>1, SMTT(30)
    <3>2. QED
      BY <1>1, <1>3, <3>1 DEF WordsFor
  <2> HIDE DEF n
  <2>4. \A k \in 1 .. n : Chunk(arg.value, k) \in Word
    BY <1>1, <2>2 DEF Chunk, Word
  <2> HIDE DEF Word
  <2>5. /\ chunks \in Seq(Word) /\ Len(chunks) = n
        /\ \A k \in 1 .. n : chunks[k] = Chunk(arg.value, k)
    BY <2>2, <2>4
  <2>6. Marshalled(arg) = <<Number(arg.size)>> \o chunks
    BY <1>3, <2>2, Zenon DEF Marshalled
  <2> HIDE DEF chunks
  <2>7. /\ Marshalled(arg) \in Seq(Word) /\ Len(Marshalled(arg)) = 1 + n
        /\ Marshalled(arg)[1] = Number(arg.size)
        /\ \A k \in 1 .. n : Marshalled(arg)[1 + k] = chunks[k]
    BY <1>2, <2>2, <2>5, <2>6
  <2>8. WordsOf(arg) = 1 + n
    BY <1>3 DEF WordsOf, n
  <2>9. QED
    BY <1>3, <2>2, <2>3, <2>5, <2>7, <2>8 DEF n
<1>4. CASE ~(arg.size > 0)
  <2>1. Marshalled(arg) = <<Number(arg.value)>> /\ WordsOf(arg) = 1
    BY <1>4 DEF Marshalled, WordsOf
  <2> HIDE DEF Word
  <2>2. QED
    BY <1>2, <1>4, <2>1
<1>5. QED
  BY <1>3, <1>4

\* The words of the page up to an address, which is what Send sends.
Filled(p, at) == [k \in 1 .. (at \div WL_WORD_SIZE) |-> p[WL_WORD_SIZE * (k - 1)]]

\* A writer that has come to an address, up to which the page holds these words.
Wrote(writer, words) ==
  /\ words \in Seq(Word)
  /\ writer = [page |-> writer.page, cursor |-> writer.cursor]
  /\ writer.page \in [Addresses -> Word] /\ writer.cursor = 4 * Len(words)
  /\ Filled(writer.page, 4 * Len(words)) = words

\* The words of a page up to an address in it.
LEMMA FilledLemma ==
  ASSUME NEW p \in [Addresses -> Word], NEW n \in Nat, 4 * n <= PAGE_SIZE
  PROVE  /\ Filled(p, 4 * n) \in Seq(Word) /\ Len(Filled(p, 4 * n)) = n
         /\ \A k \in 1 .. n : /\ 4 * (k - 1) \in Addresses
                              /\ Filled(p, 4 * n)[k] = p[4 * (k - 1)]
<1> HIDE DEF Word
<1>1. (4 * n) \div 4 = n
  BY SMTT(30)
<1>2. \A k \in 1 .. n : 4 * (k - 1) \in Addresses
  <2>1. PAGE_SIZE \in Nat
    BY RequestWireAssumption
  <2>2. ASSUME NEW k \in 1 .. n PROVE 4 * (k - 1) \in 0 .. (PAGE_SIZE - 1)
    BY <2>1
  <2>3. ASSUME NEW k \in 1 .. n PROVE (4 * (k - 1)) % 4 = 0
    <3>1. k - 1 \in Nat
      OBVIOUS
    <3>2. ASSUME NEW m \in Nat PROVE (4 * m) % 4 = 0
      BY SMTT(30)
    <3>3. QED
      BY <3>1, <3>2
  <2>4. QED
    BY <2>2, <2>3 DEF Addresses, WL_WORD_SIZE
<1>3. Filled(p, 4 * n) = [k \in 1 .. n |-> p[4 * (k - 1)]]
  BY <1>1, Zenon DEF Filled, WL_WORD_SIZE
<1>4. QED
  BY <1>2, <1>3

\* One write after the other.
LEMMA PutLemma ==
  ASSUME NEW writer, NEW a, Wrote(writer, a), NEW b \in Seq(Word),
         4 * (Len(a) + Len(b)) <= PAGE_SIZE,
         NEW at, at = writer.cursor + 4 * Len(b)
  PROVE  Wrote([Put(writer, b) EXCEPT !.cursor = at], a \o b)
<1> DEFINE new == [x \in Addresses |->
                     LET k == (x - writer.cursor) \div WL_WORD_SIZE + 1
                     IN IF x >= writer.cursor /\ k \in DOMAIN b
                        THEN b[k] ELSE writer.page[x]]
           words == a \o b
<1> HIDE DEF Word
<1>1. /\ a \in Seq(Word) /\ writer = [page |-> writer.page, cursor |-> writer.cursor]
      /\ writer.page \in [Addresses -> Word] /\ writer.cursor = 4 * Len(a)
      /\ Filled(writer.page, 4 * Len(a)) = a
  BY DEF Wrote
<1>2. /\ words \in Seq(Word) /\ Len(words) = Len(a) + Len(b)
      /\ \A k \in 1 .. Len(a) : words[k] = a[k]
      /\ \A k \in 1 .. Len(b) : words[Len(a) + k] = b[k]
  BY <1>1, AppendedLemma
<1>3. Put(writer, b) = [writer EXCEPT !.page = new]
  BY SMT DEF Put
<1>4. Len(a) \in Nat /\ Len(b) \in Nat
  BY <1>1
<1>5. new \in [Addresses -> Word]
  BY <1>1
<1>6. ASSUME NEW k \in 1 .. Len(words) PROVE new[4 * (k - 1)] = words[k]
  <2>1. 4 * (k - 1) \in Addresses
    <3>1. 4 * Len(words) <= PAGE_SIZE /\ Len(words) \in Nat
      BY <1>2, <1>4
    <3>2. QED
      BY <1>5, <3>1, FilledLemma
  <2>2. CASE k \in 1 .. Len(a)
    <3>1. ~(4 * (k - 1) >= writer.cursor)
      BY <1>1, <1>4, <2>2
    <3>2. new[4 * (k - 1)] = writer.page[4 * (k - 1)]
      BY <2>1, <3>1, Zenon
    <3>3. 4 * Len(a) <= PAGE_SIZE
      BY <1>4, RequestWireAssumption
    <3>4. a[k] = writer.page[4 * (k - 1)]
      BY <1>1, <1>4, <2>2, <3>3, FilledLemma
    <3>5. QED
      BY <1>2, <2>2, <3>2, <3>4, Zenon
  <2>3. CASE k \notin 1 .. Len(a)
    <3>1. PICK j \in 1 .. Len(b) : k = Len(a) + j
      <4>1. k - Len(a) \in 1 .. Len(b) /\ k = Len(a) + (k - Len(a))
        BY <1>2, <1>4, <2>3
      <4>2. QED
        BY <4>1, Zenon
    <3>2. 4 * (k - 1) >= writer.cursor /\ 4 * (k - 1) - writer.cursor = 4 * (j - 1) /\ j \in Nat
      BY <1>1, <1>4, <3>1
    <3>3. (4 * (j - 1)) \div 4 + 1 = j
      BY <3>2, SMTT(30)
    <3>4. j \in DOMAIN b
      BY <3>1
    <3>5. new[4 * (k - 1)] = b[j]
      BY <2>1, <3>2, <3>3, <3>4, Zenon DEF WL_WORD_SIZE
    <3>6. QED
      BY <1>2, <3>1, <3>5
  <2>4. QED
    BY <2>2, <2>3
<1> HIDE DEF new
<1>7. [Put(writer, b) EXCEPT !.cursor = at] = [page |-> new, cursor |-> at]
  <2>1. Put(writer, b) = [page |-> new, cursor |-> writer.cursor]
    BY <1>1, <1>3
  <2>2. QED
    BY <2>1
<1>8. at = 4 * Len(words) /\ 4 * Len(words) <= PAGE_SIZE /\ Len(words) \in Nat
  BY <1>1, <1>2, <1>4
<1> HIDE DEF words
<1>9. Filled(new, 4 * Len(words)) = words
  <2>1. /\ Filled(new, 4 * Len(words)) \in Seq(Word)
        /\ Len(Filled(new, 4 * Len(words))) = Len(words)
        /\ \A k \in 1 .. Len(words) : Filled(new, 4 * Len(words))[k] = new[4 * (k - 1)]
    BY <1>5, <1>8, FilledLemma, Zenon
  <2> DEFINE f == Filled(new, 4 * Len(words))
  <2>2. f \in Seq(Word) /\ Len(f) = Len(words) /\ \A k \in 1 .. Len(words) : f[k] = words[k]
    BY <1>6, <2>1 DEF words
  <2> HIDE DEF f
  <2>3. f = words
    BY <1>2, <2>2, SeqEqual DEF words
  <2>4. QED
    BY <2>3 DEF f
<1>10. Wrote([page |-> new, cursor |-> at], words)
  BY <1>2, <1>5, <1>8, <1>9 DEF Wrote, words
<1>11. QED
  BY <1>7, <1>10 DEF words

\* write() puts the words of the argument where the writer is.
LEMMA WriteLemma ==
  ASSUME NEW writer, NEW words, Wrote(writer, words), NEW arg \in Args,
         4 * (Len(words) + Len(Marshalled(arg))) <= PAGE_SIZE
  PROVE  Wrote(Write(writer, arg), words \o Marshalled(arg))
<1> DEFINE b == Marshalled(arg)
<1>1. b \in Seq(Word) /\ Len(b) = WordsOf(arg)
  BY MarshalledLemma
<1>2. Put(writer, b).cursor = writer.cursor
  BY DEF Put, Wrote
<1>3. Write(writer, arg) = [Put(writer, b) EXCEPT !.cursor = writer.cursor + 4 * Len(b)]
  <2>1. CASE arg.size > 0
    <3>1. arg.size \in 1 .. UINT16_MOD
      BY <2>1, WideLemma DEF Args
    <3>2. serialised_size(arg.size) = 4 * (1 + WordsFor(arg.size))
      BY <3>1, StringsAgree DEF WL_WORD_SIZE
    <3>3. serialised_size(arg.size) = 4 * Len(b)
      BY <1>1, <2>1, <3>2 DEF WordsOf
    <3>4. Write(writer, arg) = [Put(writer, b) EXCEPT !.cursor = @ + serialised_size(arg.size)]
      BY <2>1, Zenon DEF Write, WriteString, Marshalled
    <3> HIDE DEF b
    <3>5. QED
      BY <1>2, <3>3, <3>4
  <2>2. CASE ~(arg.size > 0)
    <3>1. 4 * Len(b) = WL_WORD_SIZE
      BY <1>1, <2>2 DEF WordsOf, WL_WORD_SIZE
    <3>2. Write(writer, arg) = [Put(writer, b) EXCEPT !.cursor = @ + WL_WORD_SIZE]
      BY <2>2, Zenon DEF Write, WriteNumber, Marshalled
    <3> HIDE DEF b
    <3>3. QED
      BY <1>2, <3>1, <3>2
  <2>3. QED
    BY <2>1, <2>2
<1>4. 4 * (Len(words) + Len(b)) <= PAGE_SIZE
  OBVIOUS
<1> HIDE DEF b
<1>5. PICK at : at = writer.cursor + 4 * Len(b)
  OBVIOUS
<1>6. Wrote([Put(writer, b) EXCEPT !.cursor = at], words \o b)
  BY <1>1, <1>4, <1>5, PutLemma, Zenon
<1>7. Wrote(Write(writer, arg), words \o b)
  BY <1>3, <1>5, <1>6, Zenon
<1>8. QED
  BY <1>7 DEF b

-----------------------------------------------------------------------------
(* The words of all arguments.                                             *)

\* Those of the first arguments, argument by argument.
Parts(h, args) ==
  /\ h \in [0 .. Len(args) -> Seq(Word)] /\ h[0] = <<>>
  /\ \A k \in 1 .. Len(args) : h[k] = h[k - 1] \o Marshalled(args[k])

Payload(args) == (CHOOSE h : Parts(h, args))[Len(args)]

IsPayload(h, args) ==
  /\ Parts(h, args) /\ h[Len(args)] = Payload(args) /\ Payload(args) \in Seq(Word)
  /\ \A k \in 0 .. Len(args) : \E c \in Seq(Word) : Payload(args) = h[k] \o c

LEMMA PayloadLemma ==
  ASSUME NEW args \in Seq(Args)
  PROVE  \E h : IsPayload(h, args)
<1> DEFINE n == Len(args)
           step == [xk \in Seq(Word) \X (1 .. n) |-> xk[1] \o Marshalled(args[xk[2]])]
<1>1. n \in Nat /\ \A k \in 1 .. n : Marshalled(args[k]) \in Seq(Word)
  <2>1. \A k \in 1 .. n : args[k] \in Args
    <3> HIDE DEF Args
    <3>1. QED
      OBVIOUS
  <2>2. QED
    BY <2>1, MarshalledLemma
<1> HIDE DEF n
<1> HIDE DEF Word
<1>2. \A x \in Seq(Word), k \in 1 .. n :
        x \o Marshalled(args[k]) \in Seq(Word) /\ step[<<x, k>>] = x \o Marshalled(args[k])
  BY <1>1, JoinLemma
<1>3. IsStep(step, Seq(Word), n) /\ <<>> \in Seq(Word)
  <2>1. IsStep(step, Seq(Word), n)
    BY <1>2 DEF IsStep
  <2>2. <<>> \in Seq(Word)
    OBVIOUS
  <2>3. QED
    BY <2>1, <2>2
<1> HIDE DEF step
<1>4. PICK g : Steps(g, <<>>, step, Seq(Word), n)
  BY <1>1, <1>3, Iterates, Zenon
<1>5. Parts(g, args)
  <2>1. /\ g \in [0 .. n -> Seq(Word)] /\ g[0] = <<>>
        /\ \A k \in 1 .. n : g[k] = step[<<g[k - 1], k>>]
    BY <1>4 DEF Steps
  <2>2. \A k \in 1 .. n : g[k - 1] \in Seq(Word)
    BY <1>1, <2>1
  <2>3. \A k \in 1 .. n : g[k] = g[k - 1] \o Marshalled(args[k])
    BY <1>2, <2>1, <2>2, Zenon
  <2>4. QED
    BY <2>1, <2>3, Zenon DEF Parts, n
<1> DEFINE h == CHOOSE f : Parts(f, args)
<1>6. Parts(h, args) /\ Payload(args) = h[n]
  BY <1>5, Zenon DEF Payload, n
<1> HIDE DEF h
<1>7. /\ h \in [0 .. n -> Seq(Word)] /\ h[0] = <<>>
      /\ \A k \in 1 .. n : h[k] = h[k - 1] \o Marshalled(args[k])
  BY <1>6, Zenon DEF Parts, n
<1> DEFINE T == {j \in Nat : j <= n => \E c \in Seq(Word) : h[n] = h[n - j] \o c}
<1>8. 0 \in T
  <2>1. h[n] \in Seq(Word) /\ n - 0 = n /\ <<>> \in Seq(Word)
    BY <1>1, <1>7
  <2>2. h[n] = h[n] \o <<>>
    BY <2>1
  <2>3. QED
    BY <2>1, <2>2
<1>9. ASSUME NEW j \in Nat, j \in T PROVE j + 1 \in T
  <2>1. SUFFICES ASSUME j + 1 <= n PROVE \E c \in Seq(Word) : h[n] = h[n - (j + 1)] \o c
    OBVIOUS
  <2>2. /\ n - j \in 1 .. n /\ n - (j + 1) = (n - j) - 1 /\ n - (j + 1) \in 0 .. n
        /\ n - j \in 0 .. n /\ j <= n
    BY <1>1, <2>1
  <2>3. PICK c \in Seq(Word) : h[n] = h[n - j] \o c
    BY <1>9, <2>2
  <2>4. PICK k \in 1 .. n : k = n - j
    BY <2>2
  <2>5. h[k] = h[k - 1] \o Marshalled(args[k]) /\ h[k - 1] \in Seq(Word)
    BY <1>7, <2>2, <2>4
  <2>6. PICK b \in Seq(Word) : b = Marshalled(args[k])
    BY <1>1
  <2>7. h[n] = h[k - 1] \o (b \o c) /\ b \o c \in Seq(Word)
    <3>1. h[n] = (h[k - 1] \o b) \o c
      BY <2>3, <2>4, <2>5, <2>6, Zenon
    <3>2. Rejoined(h[k - 1], b, c) /\ b \o c \in Seq(Word)
      BY <2>5, JoinLemma, RejoinLemma, Zenon
    <3>3. QED
      BY <3>1, <3>2, Zenon DEF Rejoined
  <2>8. QED
    BY <2>2, <2>4, <2>7
<1> HIDE DEF T
<1>10. ASSUME NEW k \in 0 .. n PROVE \E c \in Seq(Word) : h[n] = h[k] \o c
  <2>1. n - k \in Nat /\ n - k <= n /\ n - (n - k) = k
    BY <1>1
  <2>2. n - k \in T
    BY <1>8, <1>9, <2>1, SetInduction
  <2>3. QED
    BY <2>1, <2>2 DEF T
<1>11. h[n] \in Seq(Word)
  BY <1>1, <1>7
<1>12. IsPayload(h, args)
  BY <1>6, <1>10, <1>11, Zenon DEF IsPayload, n
<1>13. QED
  BY <1>12, Zenon

\* They are one for each argument, and more for a string among them.
LEMMA LengthLemma ==
  ASSUME NEW args \in Seq(Args), NEW n \in Nat, n = Len(args),
         NEW p \in Nat, NEW size \in 1 .. UINT16_MOD,
         \A k \in 1 .. n : args[k].size = IF k = p THEN size ELSE 0
  PROVE  Len(Payload(args)) = n + (IF p \in 1 .. n THEN WordsFor(size) ELSE 0)
<1> DEFINE more(m) == IF p \in 1 .. m THEN WordsFor(size) ELSE 0
<1>1. PICK h : IsPayload(h, args)
  BY PayloadLemma, Zenon
<1>2. /\ h \in [0 .. n -> Seq(Word)] /\ h[0] = <<>> /\ h[n] = Payload(args)
      /\ \A k \in 1 .. n : h[k] = h[k - 1] \o Marshalled(args[k])
  BY <1>1, Zenon DEF IsPayload, Parts
<1>3. WordsFor(size) \in Nat /\ size > 0
  BY StringsAgree, WideLemma
<1>4. \A k \in 1 .. n : args[k] \in Args
  <2> HIDE DEF Args
  <2>1. QED
    OBVIOUS
<1> DEFINE T == {m \in Nat : m <= n => Len(h[m]) = m + more(m)}
<1>5. 0 \in T
  BY <1>2
<1>6. ASSUME NEW m \in Nat, m \in T PROVE m + 1 \in T
  <2>1. SUFFICES ASSUME m + 1 <= n PROVE Len(h[m + 1]) = m + 1 + more(m + 1)
    <3> HIDE DEF more
    <3>1. m + 1 \in Nat
      OBVIOUS
    <3>2. QED
      BY <3>1, Zenon
  <2>2. PICK k \in 1 .. n : k = m + 1
    BY <2>1
  <2>3. k - 1 = m /\ m \in 0 .. n /\ m <= n
    BY <2>2
  <2>4. PICK a \in Seq(Word), b \in Seq(Word) :
              a = h[m] /\ b = Marshalled(args[k]) /\ h[k] = a \o b
    <3>1. h[m] \in Seq(Word) /\ Marshalled(args[k]) \in Seq(Word)
      BY <1>2, <1>4, <2>3, MarshalledLemma
    <3>2. QED
      BY <1>2, <2>3, <3>1
  <2>5. b \in Seq(Word) /\ Len(b) = IF k = p THEN 1 + WordsFor(size) ELSE 1
    <3>1. b \in Seq(Word) /\ Len(b) = WordsOf(args[k])
      BY <1>4, <2>4, MarshalledLemma
    <3>2. args[k].size = IF k = p THEN size ELSE 0
      OBVIOUS
    <3>3. WordsOf(args[k]) = IF k = p THEN 1 + WordsFor(size) ELSE 1
      BY <1>3, <3>2 DEF WordsOf
    <3>4. QED
      BY <3>1, <3>3
  <2>6. Len(a \o b) = Len(a) + Len(b)
    BY <2>5, AppendedLemma
  <2>7. Len(a) = m + more(m)
    <3> HIDE DEF more
    <3>1. QED
      BY <1>6, <2>3, <2>4
  <2>8. CASE k = p
    <3>1. more(m) = 0 /\ more(m + 1) = WordsFor(size)
      BY <2>2, <2>8
    <3> HIDE DEF more
    <3>2. QED
      BY <1>3, <2>2, <2>4, <2>5, <2>6, <2>7, <2>8, <3>1
  <2>9. CASE k # p
    <3>1. more(m) = more(m + 1) /\ more(m) \in Int
      BY <1>3, <2>2, <2>9
    <3> HIDE DEF more
    <3>2. QED
      BY <2>2, <2>4, <2>5, <2>6, <2>7, <2>9, <3>1
  <2>10. QED
    BY <2>8, <2>9
<1> HIDE DEF T, more
<1>7. n \in T
  BY <1>5, <1>6, SetInduction
<1>8. Len(h[n]) = n + more(n)
  <2>1. n <= n
    OBVIOUS
  <2>2. QED
    BY <1>7, <2>1, Zenon DEF T
<1>9. QED
  BY <1>2, <1>8, Zenon DEF more

\* Writers of the page.
Writers == [page : [Addresses -> Word], cursor : Int]

LEMMA WritersLemma ==
  ASSUME NEW writer \in Writers, NEW arg \in Args
  PROVE  Write(writer, arg) \in Writers
<1> HIDE DEF Word
<1>1. /\ writer.page \in [Addresses -> Word] /\ writer.cursor \in Int
      /\ writer = [page |-> writer.page, cursor |-> writer.cursor]
  BY DEF Writers
<1>2. ASSUME NEW b \in Seq(Word), NEW at \in Int
      PROVE  [Put(writer, b) EXCEPT !.cursor = at] \in Writers /\ Put(writer, b).cursor = writer.cursor
  <2> DEFINE new == [x \in Addresses |->
                     LET k == (x - writer.cursor) \div WL_WORD_SIZE + 1
                     IN IF x >= writer.cursor /\ k \in DOMAIN b
                        THEN b[k] ELSE writer.page[x]]
  <2>1. new \in [Addresses -> Word]
    BY <1>1
  <2>2. Put(writer, b) = [writer EXCEPT !.page = new]
    BY SMT DEF Put
  <2> HIDE DEF new
  <2>3. Put(writer, b) = [page |-> new, cursor |-> writer.cursor]
    BY <1>1, <2>2
  <2>4. [Put(writer, b) EXCEPT !.cursor = at] = [page |-> new, cursor |-> at]
    BY <2>3
  <2>5. QED
    BY <2>1, <2>3, <2>4 DEF Writers
<1>3. Marshalled(arg) \in Seq(Word)
  BY MarshalledLemma
<1>4. CASE arg.size > 0
  <2>1. serialised_size(arg.size) \in Int
    <3>1. arg.size \in 1 .. UINT16_MOD
      BY <1>4, WideLemma DEF Args
    <3>2. /\ serialised_size(arg.size) = 4 * (1 + WordsFor(arg.size))
          /\ WordsFor(arg.size) \in Nat
      BY <3>1, StringsAgree DEF WL_WORD_SIZE
    <3>3. QED
      BY <3>2
  <2>2. PICK more \in Int : more = serialised_size(arg.size)
    BY <2>1
  <2> DEFINE b == Marshalled(arg)
  <2>3. Write(writer, arg) = [Put(writer, b) EXCEPT !.cursor = @ + more]
    BY <1>4, <2>2, Zenon DEF Write, WriteString, Marshalled
  <2> HIDE DEF b
  <2>4. b \in Seq(Word) /\ writer.cursor + more \in Int
    BY <1>1, <1>3 DEF b
  <2>5. QED
    BY <1>2, <2>3, <2>4
<1>5. CASE ~(arg.size > 0)
  <2>1. WL_WORD_SIZE \in Int
    BY DEF WL_WORD_SIZE
  <2> DEFINE b == Marshalled(arg)
  <2>2. Write(writer, arg) = [Put(writer, b) EXCEPT !.cursor = @ + WL_WORD_SIZE]
    BY <1>5, Zenon DEF Write, WriteNumber, Marshalled
  <2> HIDE DEF b
  <2>3. b \in Seq(Word) /\ writer.cursor + WL_WORD_SIZE \in Int
    BY <1>1, <1>3, <2>1 DEF b
  <2>4. QED
    BY <1>2, <2>2, <2>3
<1>6. QED
  BY <1>4, <1>5

\* Where a request has room for its words, its arguments leave them there.
LEMMA WritesLemma ==
  ASSUME NEW writer, NEW words, Wrote(writer, words), NEW args \in Seq(Args),
         4 * (Len(words) + Len(Payload(args))) <= PAGE_SIZE
  PROVE  Wrote(FoldLeft(Write, writer, args), words \o Payload(args))
<1> DEFINE n == Len(args)
           step == [xk \in Writers \X (1 .. n) |-> Write(xk[1], args[xk[2]])]
           Is(f) == f = [s \in SUBSET DOMAIN args |->
                           IF s = {} THEN writer ELSE Write(f[s \ {Max(s)}], args[Max(s)])]
           f == CHOOSE g : Is(g)
<1>1. n \in Nat /\ DOMAIN args = 1 .. n /\ \A k \in 1 .. n : args[k] \in Args
  <2> HIDE DEF Args
  <2>1. QED
    OBVIOUS
<1>2. PICK h : IsPayload(h, args)
  BY PayloadLemma, Zenon
<1>3. /\ h \in [0 .. n -> Seq(Word)] /\ h[0] = <<>> /\ h[n] = Payload(args)
      /\ \A k \in 1 .. n : h[k] = h[k - 1] \o Marshalled(args[k])
      /\ \A k \in 0 .. n : \E c \in Seq(Word) : Payload(args) = h[k] \o c
  BY <1>2, Zenon DEF IsPayload, Parts
<1> HIDE DEF n
<1>4. writer \in Writers /\ words \in Seq(Word)
  <2> HIDE DEF Word
  <2>1. Len(words) \in Nat => 4 * Len(words) \in Int
    OBVIOUS
  <2>2. QED
    BY <2>1 DEF Wrote, Writers
<1>5. \A x \in Writers, k \in 1 .. n : Write(x, args[k]) \in Writers /\ step[<<x, k>>] = Write(x, args[k])
  BY <1>1, WritersLemma
<1>6. IsStep(step, Writers, n)
  BY <1>5 DEF IsStep
<1>7. FoldLeft(Write, writer, args) = f[1 .. n]
  <2>1. FoldLeft(Write, writer, args) = f[DOMAIN args]
    BY Zenon DEF FoldLeft, MapThenFoldSet
  <2>2. QED
    BY <1>1, <2>1, Zenon
<1>8. \A s \in SUBSET (1 .. n) : s # {} => Max(s) \in 1 .. n /\ s \ {Max(s)} \in SUBSET (1 .. n)
  BY <1>1, LargestLemma
<1> HIDE DEF step, Writers
<1>9. Is(f)
  <2>1. PICK g : IsFold(g, writer, step, Writers, n)
    BY <1>1, <1>4, <1>6, FoldExists, Zenon
  <2>2. \A s \in SUBSET (1 .. n) :
          g[s] = IF s = {} THEN writer ELSE Write(g[s \ {Max(s)}], args[Max(s)])
    <3>1. ASSUME NEW s \in SUBSET (1 .. n), s # {}
          PROVE  g[s] = Write(g[s \ {Max(s)}], args[Max(s)])
      <4>1. /\ g[s] = step[<<g[s \ {Max(s)}], Max(s)>>]
            /\ Max(s) \in 1 .. n /\ s \ {Max(s)} \in SUBSET (1 .. n)
        BY <1>8, <2>1, <3>1, Zenon DEF IsFold
      <4>2. g[s \ {Max(s)}] \in Writers
        BY <2>1, <4>1 DEF IsFold
      <4>3. QED
        BY <1>5, <4>1, <4>2, Zenon
    <3>2. QED
      BY <2>1, <3>1, Zenon DEF IsFold
  <2>3. g = [s \in SUBSET (1 .. n) |-> g[s]]
    BY <2>1 DEF IsFold
  <2>4. Is(g)
    BY <1>1, <2>2, <2>3, Zenon
  <2> HIDE DEF Is
  <2>5. QED
    BY <2>4, Zenon
<1> HIDE DEF f
<1>10. Folds(f, writer, step, Writers, n)
  <2>1. {} \in SUBSET (1 .. n)
    OBVIOUS
  <2>2. f[{}] = writer
    BY <1>1, <1>9, <2>1, Zenon
  <2>3. ASSUME NEW s \in SUBSET (1 .. n), s # {}, f[s \ {Max(s)}] \in Writers
        PROVE  f[s] = step[<<f[s \ {Max(s)}], Max(s)>>]
    <3>1. f[s] = Write(f[s \ {Max(s)}], args[Max(s)])
      BY <1>1, <1>9, <2>3, Zenon
    <3>2. QED
      BY <1>5, <1>8, <2>3, <3>1, Zenon
  <2>4. QED
    BY <2>2, <2>3, Zenon DEF Folds
<1>11. PICK w : Steps(w, writer, step, Writers, n) /\ w[n] = f[1 .. n]
  BY <1>1, <1>4, <1>6, <1>10, FoldSteps
<1> DEFINE T == {k \in Nat : k <= n => Wrote(w[k], words \o h[k])}
<1>12. 0 \in T
  <2>1. words \o h[0] = words /\ w[0] = writer
    BY <1>3, <1>4, <1>11, ConcatEmptySeq DEF Steps
  <2>2. Wrote(w[0], words \o h[0])
    BY <2>1, Zenon
  <2>3. QED
    BY <2>2, Zenon
<1>13. ASSUME NEW k \in Nat, k \in T PROVE k + 1 \in T
  <2>1. SUFFICES ASSUME k + 1 <= n PROVE Wrote(w[k + 1], words \o h[k + 1])
    OBVIOUS
  <2>2. PICK j \in 1 .. n : j = k + 1
    BY <1>1, <2>1
  <2>3. j - 1 = k /\ k <= n /\ k \in 0 .. n /\ j \in 0 .. n
    BY <1>1, <2>1, <2>2
  <2>4. Wrote(w[k], words \o h[k])
    BY <1>13, <2>3
  <2>5. w[j] = Write(w[k], args[j])
    <3>1. w[j] = step[<<w[k], j>>] /\ w[k] \in Writers
      BY <1>11, <2>2, <2>3 DEF Steps
    <3>2. QED
      BY <1>5, <3>1, Zenon
  <2>6. PICK arg \in Args : arg = args[j]
    BY <1>1
  <2>7. PICK b \in Seq(Word) : b = Marshalled(arg)
    BY MarshalledLemma
  <2>8. PICK c \in Seq(Word), a \in Seq(Word), d \in Seq(Word) :
              Payload(args) = d \o c /\ a = h[k] /\ d = h[j] /\ d = a \o b
    BY <1>3, <2>3, <2>6, <2>7
  <2>9. /\ Len(words \o a) + Len(b) <= Len(words) + Len(Payload(args))
        /\ Len(words \o a) + Len(b) \in Nat
    <3>1. /\ Len(words \o a) = Len(words) + Len(a) /\ Len(d) = Len(a) + Len(b)
          /\ Len(Payload(args)) = Len(d) + Len(c)
      BY <1>4, <2>8, AppendedLemma
    <3>2. Len(words) \in Nat /\ Len(a) \in Nat /\ Len(b) \in Nat /\ Len(c) \in Nat
      BY <1>4, LenProperties
    <3>3. QED
      BY <3>1, <3>2
  <2>10. 4 * (Len(words \o a) + Len(b)) <= PAGE_SIZE
    <3>1. Len(Payload(args)) \in Nat /\ Len(words) \in Nat
      BY <1>4, <2>8, JoinLemma, LenProperties
    <3>2. QED
      BY <2>9, <3>1, RequestWireAssumption
  <2>11. Wrote(Write(w[k], arg), (words \o a) \o b)
    <3>1. PICK v, u : v = w[k] /\ u = words \o a /\ Wrote(v, u)
      BY <2>4, <2>8
    <3>2. 4 * (Len(u) + Len(Marshalled(arg))) <= PAGE_SIZE
      BY <2>7, <2>10, <3>1
    <3>3. Wrote(Write(v, arg), u \o Marshalled(arg))
      BY <3>1, <3>2, WriteLemma, Zenon
    <3>4. QED
      BY <2>7, <3>1, <3>3, Zenon
  <2>12. Rejoined(words, a, b)
    BY <1>4, RejoinLemma, Zenon
  <2>13. QED
    BY <2>2, <2>5, <2>6, <2>8, <2>11, <2>12, Zenon DEF Rejoined
<1> HIDE DEF T
<1>14. n \in T
  BY <1>1, <1>12, <1>13, SetInduction
<1>15. Wrote(w[n], words \o h[n])
  <2>1. n <= n
    BY <1>1
  <2>2. QED
    BY <1>14, <2>1, Zenon DEF T
<1>16. QED
  BY <1>3, <1>7, <1>11, <1>15, Zenon

-----------------------------------------------------------------------------
(* What the methods write, compared with the protocol.                     *)

\* What the methods write: numbers, six at most, but for the name of bind and the
\* title of set_title.
LEMMA MethodsLemma ==
  ASSUME NEW method \in Methods
  PROVE  \/ /\ method.name = "bind" /\ method.words = 7
            /\ method.args = <<"uint", "string", "uint", "uint">>
         \/ method.name = "set_title" /\ method.words = 4 /\ method.args = <<"string">>
         \/ /\ method.name # "bind" /\ method.name # "set_title"
            /\ \E n \in 0 .. 6 : method.words = n /\ method.args = Words(n)
<1> DEFINE Plain(m) == /\ m.name # "bind" /\ m.name # "set_title"
                       /\ \E n \in 0 .. 6 : m.words = n /\ m.args = Words(n)
<1>1. ASSUME NEW interface, NEW name, NEW opcode, NEW n \in 0 .. 6,
             name # "bind", name # "set_title"
      PROVE  Plain(Writes(interface, name, opcode, n, Words(n)))
  BY <1>1 DEF Writes
<1> HIDE DEF Plain
<1>2. 0 \in 0 .. 6 /\ 1 \in 0 .. 6 /\ 2 \in 0 .. 6 /\ 3 \in 0 .. 6 /\ 4 \in 0 .. 6 /\ 6 \in 0 .. 6
  OBVIOUS
<1>3. ASSUME method \in Display \cup Compositor \cup Surface \cup Shm \cup ShmPool \cup Buffer
      PROVE  Plain(method)
  BY <1>1, <1>2, <1>3 DEF Display, Compositor, Surface, Shm, ShmPool, Buffer
<1>4. ASSUME method \in WmBase \cup XdgSurface \cup Seat \cup Pointer \cup Dmabuf
      PROVE  Plain(method)
  BY <1>1, <1>2, <1>4 DEF WmBase, XdgSurface, Seat, Pointer, Dmabuf
<1>5. ASSUME method \in Registry
      PROVE  /\ method.name = "bind" /\ method.words = 7
             /\ method.args = <<"uint", "string", "uint", "uint">>
  BY <1>5 DEF Registry, Writes, WL_WORD_SIZE
<1>6. ASSUME method \in Toplevel
      PROVE  \/ Plain(method)
             \/ method.name = "set_title" /\ method.words = 4 /\ method.args = <<"string">>
  <2> DEFINE title == Writes("toplevel", "set_title", 2, WL_WORD_SIZE, <<"string">>)
  <2>1. CASE method = title
    BY <2>1 DEF Writes, WL_WORD_SIZE
  <2>2. CASE method # title
    BY <1>1, <1>2, <1>6, <2>2 DEF Toplevel
  <2>3. QED
    BY <2>1, <2>2
<1>7. \/ method \in Display \cup Compositor \cup Surface \cup Shm \cup ShmPool \cup Buffer
      \/ method \in WmBase \cup XdgSurface \cup Seat \cup Pointer \cup Dmabuf
      \/ method \in Registry \/ method \in Toplevel
  BY DEF Methods
<1>8. QED
  BY <1>3, <1>4, <1>5, <1>6, <1>7 DEF Plain

\* The opcode and arguments a method writes are those of the request it means.
Meant(method) ==
  /\ method.interface \in DOMAIN Object /\ method.opcode \in 0 .. 12
  /\ method.opcode + 1 \in DOMAIN Protocol[method.interface]
  /\ Protocol[method.interface][method.opcode + 1] = Named(method.name, method.args)

\* One interface after the other.
LEMMA DisplayTable == \A method \in Display : Meant(method)
<1>1. Protocol.display = <<Named("sync", Words(1)), Named("get_registry", Words(1))>>
  BY DEF Protocol
<1>2. "display" \in DOMAIN Object
  BY DEF Object
<1>3. QED
  BY <1>1, <1>2 DEF Display, Meant, Writes

LEMMA RegistryTable == \A method \in Registry : Meant(method)
<1>1. Protocol.registry = <<Named("bind", <<"uint", "string", "uint", "uint">>)>>
  BY DEF Protocol
<1>2. "registry" \in DOMAIN Object
  BY DEF Object
<1>3. QED
  BY <1>1, <1>2 DEF Registry, Meant, Writes

LEMMA CompositorTable == \A method \in Compositor : Meant(method)
<1>1. Protocol.compositor = <<Named("create_surface", Words(1))>>
  BY DEF Protocol
<1>2. "compositor" \in DOMAIN Object
  BY DEF Object
<1>3. QED
  BY <1>1, <1>2 DEF Compositor, Meant, Writes

LEMMA SurfaceTable == \A method \in Surface : Meant(method)
<1>1. Protocol.surface = <<Named("destroy", Words(0)), Named("attach", Words(3)),
                           Named("damage", Words(4)), Named("frame", Words(1)),
                           Named("set_opaque_region", Words(1)),
                           Named("set_input_region", Words(1)), Named("commit", Words(0))>>
  BY DEF Protocol
<1>2. "surface" \in DOMAIN Object
  BY DEF Object
<1>3. QED
  BY <1>1, <1>2 DEF Surface, Meant, Writes

LEMMA ShmTable == \A method \in Shm : Meant(method)
<1>1. Protocol.shm = <<Named("create_pool", Words(2))>>
  BY DEF Protocol
<1>2. "shm" \in DOMAIN Object
  BY DEF Object
<1>3. QED
  BY <1>1, <1>2 DEF Shm, Meant, Writes

LEMMA ShmPoolTable == \A method \in ShmPool : Meant(method)
<1>1. Protocol.shm_pool = <<Named("create_buffer", Words(6)), Named("destroy", Words(0)),
                            Named("resize", Words(1))>>
  BY DEF Protocol
<1>2. "shm_pool" \in DOMAIN Object
  BY DEF Object
<1>3. QED
  BY <1>1, <1>2 DEF ShmPool, Meant, Writes

LEMMA BufferTable == \A method \in Buffer : Meant(method)
<1>1. Protocol.buffer = <<Named("destroy", Words(0))>>
  BY DEF Protocol
<1>2. "buffer" \in DOMAIN Object
  BY DEF Object
<1>3. QED
  BY <1>1, <1>2 DEF Buffer, Meant, Writes

LEMMA WmBaseTable == \A method \in WmBase : Meant(method)
<1>1. Protocol.wm_base = <<Named("destroy", Words(0)), Named("create_positioner", Words(1)),
                           Named("get_xdg_surface", Words(2)), Named("pong", Words(1))>>
  BY DEF Protocol
<1>2. "wm_base" \in DOMAIN Object
  BY DEF Object
<1>3. QED
  BY <1>1, <1>2 DEF WmBase, Meant, Writes

LEMMA XdgSurfaceTable == \A method \in XdgSurface : Meant(method)
<1>1. Protocol.xdg_surface = <<Named("destroy", Words(0)), Named("get_toplevel", Words(1)),
                               Named("get_popup", Words(3)),
                               Named("set_window_geometry", Words(4)),
                               Named("ack_configure", Words(1))>>
  BY DEF Protocol
<1>2. "xdg_surface" \in DOMAIN Object
  BY DEF Object
<1>3. QED
  BY <1>1, <1>2 DEF XdgSurface, Meant, Writes

LEMMA ToplevelTable == \A method \in Toplevel : Meant(method)
<1>1. Protocol.toplevel = <<Named("destroy", Words(0)), Named("set_parent", Words(1)),
                            Named("set_title", <<"string">>), Named("set_app_id", <<"string">>),
                            Named("show_window_menu", Words(4)), Named("move", Words(2)),
                            Named("resize", Words(3)), Named("set_max_size", Words(2)),
                            Named("set_min_size", Words(2)), Named("set_maximized", Words(0)),
                            Named("unset_maximized", Words(0)), Named("set_fullscreen", Words(1)),
                            Named("unset_fullscreen", Words(0))>>
  BY DEF Protocol
<1>2. "toplevel" \in DOMAIN Object
  BY DEF Object
<1>3. QED
  BY <1>1, <1>2 DEF Toplevel, Meant, Writes

LEMMA SeatTable == \A method \in Seat : Meant(method)
<1>1. Protocol.seat = <<Named("get_pointer", Words(1)), Named("get_keyboard", Words(1))>>
  BY DEF Protocol
<1>2. "seat" \in DOMAIN Object
  BY DEF Object
<1>3. QED
  BY <1>1, <1>2 DEF Seat, Meant, Writes

LEMMA PointerTable == \A method \in Pointer : Meant(method)
<1>1. Protocol.pointer = <<Named("set_cursor", Words(4)), Named("release", Words(0))>>
  BY DEF Protocol
<1>2. "pointer" \in DOMAIN Object
  BY DEF Object
<1>3. QED
  BY <1>1, <1>2 DEF Pointer, Meant, Writes

LEMMA DmabufTable == \A method \in Dmabuf : Meant(method)
<1>1. Protocol.dmabuf = <<Named("destroy", Words(0)), Named("create_params", Words(1)),
                          Named("get_default_feedback", Words(1)),
                          Named("get_surface_feedback", Words(2))>>
  BY DEF Protocol
<1>2. "dmabuf" \in DOMAIN Object
  BY DEF Object
<1>3. QED
  BY <1>1, <1>2 DEF Dmabuf, Meant, Writes

LEMMA MeantLemma ==
  ASSUME NEW method \in Methods
  PROVE  Meant(method)
  BY DisplayTable, RegistryTable, CompositorTable, SurfaceTable, ShmTable, ShmPoolTable,
     BufferTable, WmBaseTable, XdgSurfaceTable, ToplevelTable, SeatTable, PointerTable,
     DmabufTable, Zenon DEF Methods

\* Every object has a number of its own.
LEMMA ObjectLemma ==
  /\ DOMAIN Object = DOMAIN Protocol
  /\ \A interface \in DOMAIN Object : Object[interface] \in Int
  /\ \A i, j \in DOMAIN Object : Object[i] = Object[j] => i = j
  BY DEF Object, Protocol

-----------------------------------------------------------------------------
(* The arguments of a request, and the room it has for them.               *)

\* The largest request, bind, fits the 16 bits in which a message keeps its size.
SizesFit ==
  /\ StringSizes \subseteq 1 .. UINT16_MOD
  /\ \A n \in StringSizes : WL_WORD_SIZE * (7 + word_size(n)) + WL_EVENT_HEADER_SIZE < UINT16_MOD

\* Arguments of these types.
Typed(types, args) ==
  /\ args \in Seq(Args) /\ DOMAIN types = 1 .. Len(args)
  /\ \A k \in 1 .. Len(args) : (types[k] = "uint") <=> (args[k].size = 0)

\* A method gives a request whole words, and enough of them.
HasRoom(size, args) ==
  /\ size < UINT16_MOD
  /\ \E w \in Nat : size = 4 * w /\ 2 + Len(Payload(args)) <= w

LEMMA RequestLemma ==
  ASSUME SizesFit, NEW method \in Methods, NEW string \in StringSizes, NEW number \in Nat
  PROVE  /\ Typed(method.args, Request(number, method, string).args)
         /\ HasRoom(MessageSize(SizeOf(method, string)), Request(number, method, string).args)
<1> DEFINE size == MessageSize(SizeOf(method, string))
           args == Request(number, method, string).args
           length == WordsFor(string)
<1>1. args = [k \in DOMAIN method.args |-> Argument(number, k, method.args[k], string)]
  BY DEF Request
<1>2. /\ string \in 1 .. UINT16_MOD /\ string \in Nat \ {0} /\ string <= UINT16_MOD
      /\ WL_WORD_SIZE * (7 + word_size(string)) + WL_EVENT_HEADER_SIZE < UINT16_MOD
  BY WideLemma DEF SizesFit
<1>3. /\ length \in Nat /\ word_size(string) = length
      /\ (7 + length) * 4 + 8 < UINT16_MOD
  BY <1>2, StringsAgree, WideLemma DEF WL_WORD_SIZE, WL_EVENT_HEADER_SIZE
<1>4. ASSUME NEW n \in Nat, NEW p \in Nat, DOMAIN method.args = 1 .. n,
             \A k \in 1 .. n : method.args[k] = IF k = p THEN "string" ELSE "uint"
      PROVE  /\ Typed(method.args, args)
             /\ Len(Payload(args)) = n + (IF p \in 1 .. n THEN length ELSE 0)
  <2>1. args = [k \in 1 .. n |-> Argument(number, k, method.args[k], string)]
    BY <1>1, <1>4, Zenon
  <2>2. ASSUME NEW k \in 1 .. n
        PROVE  /\ Argument(number, k, method.args[k], string) \in Args
               /\ Argument(number, k, method.args[k], string).size = IF k = p THEN string ELSE 0
    <3>1. 10 * number + k \in Int /\ 0 <= UINT16_MOD
      BY WideLemma
    <3>2. method.args[k] = IF k = p THEN "string" ELSE "uint"
      BY <1>4
    <3>3. Argument(number, k, method.args[k], string)
            = [value |-> 10 * number + k, size |-> IF k = p THEN string ELSE 0]
      BY <3>2 DEF Argument
    <3>4. QED
      BY <1>2, <3>1, <3>3 DEF Args
  <2> HIDE DEF args, Args
  <2>3. /\ args \in Seq(Args) /\ Len(args) = n
        /\ \A k \in 1 .. n : args[k] = Argument(number, k, method.args[k], string)
    BY <2>1, <2>2
  <2>4. \A k \in 1 .. n : args[k].size = IF k = p THEN string ELSE 0
    BY <2>2, <2>3
  <2>5. Typed(method.args, args)
    BY <1>2, <1>4, <2>3, <2>4 DEF Typed
  <2>6. Len(Payload(args)) = n + (IF p \in 1 .. n THEN length ELSE 0)
    BY <1>2, <2>3, <2>4, LengthLemma
  <2>7. QED
    BY <2>5, <2>6
<1>5. ASSUME NEW words \in Nat, words <= 7 + length, SizeOf(method, string) = words,
             Len(Payload(args)) \in Nat, Len(Payload(args)) <= words
      PROVE  HasRoom(size, args)
  <2>1. words * 4 + 8 < UINT16_MOD
    BY <1>3, <1>5, WideLemma
  <2>2. size = words * 4 + 8
    BY <1>5, <2>1, MessageSizeLemma
  <2> HIDE DEF args, size
  <2>3. size < UINT16_MOD
    BY <2>1, <2>2
  <2>4. size = 4 * (words + 2) /\ words + 2 \in Nat /\ 2 + Len(Payload(args)) <= words + 2
    BY <1>5, <2>2
  <2>5. QED
    BY <2>3, <2>4, Zenon DEF HasRoom
<1> HIDE DEF args, size, length
<1> SUFFICES Typed(method.args, args) /\ HasRoom(size, args)
  BY DEF args, size
<1>6. CASE /\ method.name = "bind" /\ method.words = 7
           /\ method.args = <<"uint", "string", "uint", "uint">>
  <2>1. DOMAIN method.args = 1 .. 4 /\ 4 \in Nat /\ 2 \in Nat /\ 2 \in 1 .. 4
    BY <1>6
  <2>2. \A k \in 1 .. 4 : method.args[k] = IF k = 2 THEN "string" ELSE "uint"
    BY <1>6
  <2>3. Typed(method.args, args) /\ Len(Payload(args)) = 4 + length
    BY <1>4, <2>1, <2>2
  <2>4. SizeOf(method, string) = 7 + length
    BY <1>3, <1>6 DEF SizeOf
  <2>5. QED
    BY <1>3, <1>5, <2>3, <2>4
<1>7. CASE method.name = "set_title" /\ method.words = 4 /\ method.args = <<"string">>
  <2>1. DOMAIN method.args = 1 .. 1 /\ 1 \in Nat /\ 1 \in 1 .. 1
    BY <1>7
  <2>2. \A k \in 1 .. 1 : method.args[k] = IF k = 1 THEN "string" ELSE "uint"
    BY <1>7
  <2>3. Typed(method.args, args) /\ Len(Payload(args)) = 1 + length
    BY <1>4, <2>1, <2>2
  <2>4. SizeOf(method, string) = 4 + length
    BY <1>3, <1>7 DEF SizeOf
  <2>5. QED
    BY <1>3, <1>5, <2>3, <2>4
<1>8. ASSUME method.name # "bind", method.name # "set_title",
             NEW n \in 0 .. 6, method.words = n, method.args = Words(n)
      PROVE  Typed(method.args, args) /\ HasRoom(size, args)
  <2>1. DOMAIN method.args = 1 .. n /\ n \in Nat /\ 0 \in Nat /\ 0 \notin 1 .. n
    BY <1>8 DEF Words
  <2>2. \A k \in 1 .. n : method.args[k] = IF k = 0 THEN "string" ELSE "uint"
    BY <1>8 DEF Words
  <2>3. Typed(method.args, args) /\ Len(Payload(args)) = n + 0
    BY <1>4, <2>1, <2>2
  <2>4. SizeOf(method, string) = n
    <3>1. SizeOf(method, string) = n + 0
      BY <1>8, Zenon DEF SizeOf
    <3>2. QED
      BY <3>1
  <2>5. QED
    BY <1>3, <1>5, <2>1, <2>3, <2>4
<1>9. QED
  BY <1>6, <1>7, <1>8, MethodsLemma

-----------------------------------------------------------------------------
(* How the compositor comes past the words of an argument.                 *)

\* Its reader, at a word of the message with the arguments it has read.
Readers == [at : Int, args : Seq([value : Int, size : Int])]
At(a, args) == [at |-> Len(a) + 1, args |-> args]

\* A reader that has read one more is a reader.
LEMMA ReadersLemma ==
  ASSUME NEW message \in Seq(Word), NEW reader \in Readers, NEW type
  PROVE  Demarshal(reader, type, message) \in Readers
<1> DEFINE Arg == [value : Int, size : Int]
           word(k) == IF k \in DOMAIN message THEN message[k] ELSE Junk
           size == word(reader.at).value
           first == word(reader.at + 1)
           whole == \A k \in 1 .. WordsFor(size) : word(reader.at + k) = Chunk(first.value, k)
           string == [value |-> IF whole THEN first.value ELSE 0, size |-> size]
<1>1. \A k \in Int : word(k).value \in Int
  <2>1. Junk \in Word /\ \A w \in Word : w.value \in Int
    BY DEF Junk, Number, Word
  <2>2. \A k \in Int : word(k) \in Word
    <3> HIDE DEF Word
    <3>1. QED
      BY <2>1
  <2> HIDE DEF word
  <2>3. QED
    BY <2>1, <2>2, Zenon
<1>2. reader.at \in Int /\ reader.at + 1 \in Int /\ reader.args \in Seq(Arg)
  BY DEF Readers
<1>3. size \in Int /\ first.value \in Int
  BY <1>1, <1>2, Zenon
<1> HIDE DEF word
<1>4. CASE type = "uint"
  <2>1. Demarshal(reader, type, message)
          = [at |-> reader.at + 1, args |-> Append(reader.args, [value |-> size, size |-> 0])]
    BY <1>4, Zenon DEF Demarshal, word
  <2> HIDE DEF size
  <2>2. Append(reader.args, [value |-> size, size |-> 0]) \in Seq(Arg)
    <3>1. [value |-> size, size |-> 0] \in Arg
      BY <1>3
    <3> HIDE DEF Arg
    <3>2. QED
      BY <1>2, <3>1, AppendProperties
  <2>3. QED
    BY <1>2, <2>1, <2>2 DEF Readers
<1>5. CASE type # "uint"
  <2>1. Demarshal(reader, type, message)
          = [at |-> reader.at + 1 + WordsFor(size), args |-> Append(reader.args, string)]
    BY <1>5, Zenon DEF Demarshal, word
  <2>2. string \in Arg
    <3> HIDE DEF whole, size, first
    <3>1. QED
      BY <1>3
  <2> HIDE DEF size, string
  <2>3. reader.at + 1 + WordsFor(size) \in Int
    <3>1. WordsFor(size) \in Int
      BY <1>3 DEF WordsFor
    <3>2. QED
      BY <1>2, <3>1
  <2>4. Append(reader.args, string) \in Seq(Arg)
    <3> HIDE DEF Arg
    <3>1. QED
      BY <1>2, <2>2, AppendProperties
  <2>5. QED
    BY <2>1, <2>3, <2>4 DEF Readers
<1>6. QED
  BY <1>4, <1>5

\* The message goes on with these words after those.
Follows(message, a, b) == \E c \in Seq(Word) : message = (a \o b) \o c

\* Where an argument is as it was written, it is read as it was.
LEMMA DemarshalLemma ==
  ASSUME NEW message, NEW arg \in Args, NEW type, (type = "uint") <=> (arg.size = 0),
         NEW a \in Seq(Word), Follows(message, a, Marshalled(arg)), NEW args
  PROVE  Demarshal(At(a, args), type, message) = At(a \o Marshalled(arg), Append(args, arg))
<1> DEFINE b == Marshalled(arg)
           reader == At(a, args)
           word(k) == IF k \in DOMAIN message THEN message[k] ELSE Junk
<1>1. arg.value \in Int /\ arg.size \in Nat /\ arg = [value |-> arg.value, size |-> arg.size]
  BY DEF Args
<1>2. b \in Seq(Word) /\ Len(b) = WordsOf(arg)
  BY MarshalledLemma
<1>3. \A j \in 1 .. Len(b) : word(Len(a) + j) = b[j]
  <2>1. PICK c \in Seq(Word) : message = (a \o b) \o c
    BY Zenon DEF Follows, b
  <2> HIDE DEF b
  <2>2. \A j \in 1 .. Len(b) : /\ Len(a) + j \in DOMAIN ((a \o b) \o c)
                               /\ ((a \o b) \o c)[Len(a) + j] = b[j]
    BY <1>2, MiddleLemma, Zenon
  <2>3. QED
    BY <2>1, <2>2, Zenon
<1>4. reader.at = Len(a) + 1 /\ reader.args = args
  BY DEF At
<1> HIDE DEF reader
<1>5. Len(a \o b) = Len(a) + Len(b) /\ Len(a) \in Nat
  <2> HIDE DEF b
  <2>1. QED
    BY <1>2
<1> HIDE DEF word
<1>6. CASE arg.size > 0
  <2> DEFINE n == WordsFor(arg.size)
  <2>1. /\ n \in Nat \ {0} /\ Len(b) = 1 + n /\ b[1] = Number(arg.size)
        /\ \A k \in 1 .. n : b[1 + k] = Chunk(arg.value, k)
    BY <1>2, <1>6, MarshalledLemma DEF WordsOf
  <2> HIDE DEF b, n
  <2>2. word(reader.at) = b[1] /\ \A j \in 1 .. n : word(reader.at + j) = b[1 + j]
    <3>1. 1 \in 1 .. Len(b) /\ \A j \in 1 .. n : 1 + j \in 1 .. Len(b)
      BY <2>1
    <3>2. \A j \in 1 .. n : (Len(a) + 1) + j = Len(a) + (1 + j)
      BY <1>5, <2>1
    <3>3. QED
      BY <1>3, <1>4, <3>1, <3>2
  <2>3. word(reader.at).value = arg.size
    BY <2>1, <2>2 DEF Number
  <2>4. \A j \in 1 .. n : word(reader.at + j) = Chunk(arg.value, j)
    BY <2>1, <2>2
  <2>5. word(reader.at + 1).value = arg.value
    <3>1. 1 \in 1 .. n
      BY <2>1
    <3>2. word(reader.at + 1) = Chunk(arg.value, 1)
      BY <2>4, <3>1, Zenon
    <3>3. QED
      BY <3>2 DEF Chunk
  <2>6. type # "uint"
    BY <1>6
  <2>7. Demarshal(reader, type, message)
          = [at |-> reader.at + 1 + n,
             args |-> Append(reader.args, [value |-> arg.value, size |-> arg.size])]
    <3> DEFINE size == word(reader.at).value
               first == word(reader.at + 1)
               whole == \A k \in 1 .. WordsFor(size) : word(reader.at + k) = Chunk(first.value, k)
    <3>1. Demarshal(reader, type, message)
            = [at |-> reader.at + 1 + WordsFor(size),
               args |-> Append(reader.args,
                               [value |-> IF whole THEN first.value ELSE 0, size |-> size])]
      BY <2>6, Zenon DEF Demarshal, word
    <3>2. whole /\ size = arg.size /\ first.value = arg.value /\ WordsFor(size) = n
      BY <2>3, <2>4, <2>5, Zenon DEF n
    <3> HIDE DEF size, first, whole
    <3>3. QED
      BY <3>1, <3>2, Zenon
  <2>8. reader.at + 1 + n = Len(a \o b) + 1
    BY <1>4, <1>5, <2>1
  <2>9. QED
    BY <1>1, <1>4, <2>7, <2>8, Zenon DEF b, At, reader
<1>7. CASE ~(arg.size > 0)
  <2>1. b = <<Number(arg.value)>> /\ arg.size = 0
    BY <1>1, <1>7 DEF Marshalled
  <2>2. Len(b) = 1 /\ b[1] = Number(arg.value)
    BY <2>1
  <2> HIDE DEF b
  <2>3. word(reader.at) = Number(arg.value)
    BY <1>3, <1>4, <2>2
  <2>4. word(reader.at).value = arg.value
    BY <2>3 DEF Number
  <2>5. reader.at + 1 = Len(a \o b) + 1
    BY <1>4, <1>5, <2>2
  <2>6. Demarshal(reader, type, message)
          = [at |-> reader.at + 1,
             args |-> Append(reader.args, [value |-> word(reader.at).value, size |-> 0])]
    BY <2>1, Zenon DEF Demarshal, word
  <2>7. QED
    BY <1>1, <1>4, <2>1, <2>4, <2>5, <2>6, Zenon DEF b, At, reader
<1>8. QED
  BY <1>6, <1>7

-----------------------------------------------------------------------------
(* What the compositor reads of a request.                                 *)

Start == [at |-> 3, args |-> <<>>]

\* The arguments that Decode finds.
ReadAll(message, types) ==
  LET step(state, type) == Demarshal(state, type, message)
  IN FoldLeft(step, Start, types)

ReadsWhole(message, types, args) == ReadAll(message, types).args = args

LEMMA ReadsLemma ==
  ASSUME NEW types, NEW args, Typed(types, args),
         NEW first \in Seq(Word), Len(first) = 2, NEW padding \in Seq(Word),
         NEW message, message = (first \o Payload(args)) \o padding
  PROVE  ReadsWhole(message, types, args)
<1> DEFINE n == Len(args)
           payload == Payload(args)
           read(x, type) == Demarshal(x, type, message)
           step == [xk \in Readers \X (1 .. n) |-> read(xk[1], types[xk[2]])]
           Is(f) == f = [s \in SUBSET DOMAIN types |->
                           IF s = {} THEN Start ELSE read(f[s \ {Max(s)}], types[Max(s)])]
           f == CHOOSE g : Is(g)
<1>1. /\ n \in Nat /\ DOMAIN types = 1 .. n /\ args \in Seq(Args)
      /\ \A k \in 1 .. n : args[k] \in Args /\ ((types[k] = "uint") <=> (args[k].size = 0))
  <2> HIDE DEF Args
  <2>1. QED
    BY DEF Typed
<1>2. PICK h : IsPayload(h, args)
  BY <1>1, PayloadLemma, Zenon
<1>3. /\ h \in [0 .. n -> Seq(Word)] /\ h[0] = <<>> /\ h[n] = payload /\ payload \in Seq(Word)
      /\ \A k \in 1 .. n : h[k] = h[k - 1] \o Marshalled(args[k])
      /\ \A k \in 0 .. n : \E c \in Seq(Word) : payload = h[k] \o c
  BY <1>2, Zenon DEF IsPayload, Parts
<1>4. message \in Seq(Word)
  BY <1>3, JoinLemma
<1> HIDE DEF n, payload, read
<1>5. \A x \in Readers, k \in 1 .. n : read(x, types[k]) \in Readers /\ step[<<x, k>>] = read(x, types[k])
  BY <1>4, ReadersLemma DEF read
<1>6. IsStep(step, Readers, n)
  BY <1>5 DEF IsStep
<1>7. Start \in Readers
  BY DEF Start, Readers
<1>8. ReadAll(message, types) = f[1 .. n]
  <2>1. ReadAll(message, types) = FoldLeft(read, Start, types)
    BY Zenon DEF ReadAll, read
  <2>2. FoldLeft(read, Start, types) = f[DOMAIN types]
    BY Zenon DEF FoldLeft, MapThenFoldSet
  <2>3. QED
    BY <1>1, <2>1, <2>2, Zenon
<1>9. \A s \in SUBSET (1 .. n) : s # {} => Max(s) \in 1 .. n /\ s \ {Max(s)} \in SUBSET (1 .. n)
  BY <1>1, LargestLemma
<1> HIDE DEF step, Readers
<1>10. Is(f)
  <2>1. PICK g : IsFold(g, Start, step, Readers, n)
    BY <1>1, <1>6, <1>7, FoldExists, Zenon
  <2>2. \A s \in SUBSET (1 .. n) :
          g[s] = IF s = {} THEN Start ELSE read(g[s \ {Max(s)}], types[Max(s)])
    <3>1. ASSUME NEW s \in SUBSET (1 .. n), s # {}
          PROVE  g[s] = read(g[s \ {Max(s)}], types[Max(s)])
      <4>1. /\ g[s] = step[<<g[s \ {Max(s)}], Max(s)>>]
            /\ Max(s) \in 1 .. n /\ s \ {Max(s)} \in SUBSET (1 .. n)
        BY <1>9, <2>1, <3>1, Zenon DEF IsFold
      <4>2. g[s \ {Max(s)}] \in Readers
        BY <2>1, <4>1 DEF IsFold
      <4>3. QED
        BY <1>5, <4>1, <4>2, Zenon
    <3>2. QED
      BY <2>1, <3>1, Zenon DEF IsFold
  <2>3. g = [s \in SUBSET (1 .. n) |-> g[s]]
    BY <2>1 DEF IsFold
  <2>4. Is(g)
    BY <1>1, <2>2, <2>3, Zenon
  <2> HIDE DEF Is
  <2>5. QED
    BY <2>4, Zenon
<1> HIDE DEF f
<1>11. Folds(f, Start, step, Readers, n)
  <2>1. {} \in SUBSET (1 .. n)
    OBVIOUS
  <2>2. f[{}] = Start
    BY <1>1, <1>10, <2>1, Zenon
  <2>3. ASSUME NEW s \in SUBSET (1 .. n), s # {}, f[s \ {Max(s)}] \in Readers
        PROVE  f[s] = step[<<f[s \ {Max(s)}], Max(s)>>]
    <3>1. f[s] = read(f[s \ {Max(s)}], types[Max(s)])
      BY <1>1, <1>10, <2>3, Zenon
    <3>2. QED
      BY <1>5, <1>9, <2>3, <3>1, Zenon
  <2>4. QED
    BY <2>2, <2>3, Zenon DEF Folds
<1>12. PICK r : Steps(r, Start, step, Readers, n) /\ r[n] = f[1 .. n]
  BY <1>1, <1>6, <1>7, <1>11, FoldSteps
<1> DEFINE Now(k) == At(first \o h[k], SubSeq(args, 1, k))
           T == {k \in Nat : k <= n => r[k] = Now(k)}
<1>13. 0 \in T
  <2>1. first \o h[0] = first
    BY <1>3, ConcatEmptySeq
  <2>2. SubSeq(args, 1, 0) = <<>>
    BY <1>1
  <2>3. r[0] = Start
    BY <1>12 DEF Steps
  <2>4. Now(0) = [at |-> 3, args |-> <<>>]
    <3>1. Len(first) + 1 = 3
      OBVIOUS
    <3>2. QED
      BY <2>1, <2>2, <3>1, Zenon DEF At
  <2>5. QED
    BY <2>3, <2>4, Zenon DEF Start
<1>14. ASSUME NEW k \in Nat, k \in T PROVE k + 1 \in T
  <2>1. SUFFICES ASSUME k + 1 <= n PROVE r[k + 1] = Now(k + 1)
    <3> HIDE DEF At
    <3>1. QED
      OBVIOUS
  <2>2. PICK j \in 1 .. n : j = k + 1
    BY <1>1, <2>1
  <2>3. j - 1 = k /\ k <= n /\ k \in 0 .. n /\ j \in 0 .. n
    BY <1>1, <2>1, <2>2
  <2>4. r[k] = Now(k)
    BY <1>14, <2>3
  <2>5. r[j] = read(r[k], types[j])
    <3>1. r[j] = step[<<r[k], j>>] /\ r[k] \in Readers
      BY <1>12, <2>2, <2>3 DEF Steps
    <3>2. QED
      BY <1>5, <3>1, Zenon
  <2>6. PICK arg \in Args, b \in Seq(Word) : arg = args[j] /\ b = Marshalled(arg)
    BY <1>1, MarshalledLemma
  <2>7. PICK a \in Seq(Word), w \in Seq(Word), c \in Seq(Word) :
              a = h[k] /\ w = h[j] /\ w = a \o b /\ payload = w \o c
    <3>1. h[k] \in Seq(Word) /\ h[j] \in Seq(Word) /\ h[j] = h[k] \o b
      BY <1>3, <2>3, <2>6
    <3>2. PICK c \in Seq(Word) : payload = h[j] \o c
      BY <1>3, <2>3
    <3>3. QED
      BY <3>1, <3>2
  <2>8. PICK v \in Seq(Word), u \in Seq(Word) : v = first \o w /\ u = first \o a
    BY JoinLemma
  <2>9. v = u \o b /\ Follows(message, u, b)
    <3>1. Rejoined(first, a, b) /\ Rejoined(first, w, c) /\ Rejoined(v, c, padding)
      BY RejoinLemma, Zenon
    <3>2. v = u \o b
      BY <2>7, <2>8, <3>1, Zenon DEF Rejoined
    <3>3. message = (first \o (w \o c)) \o padding
      BY <2>7, Zenon DEF payload
    <3>4. message = (u \o b) \o (c \o padding)
      BY <2>8, <3>1, <3>2, <3>3, Zenon DEF Rejoined
    <3>5. c \o padding \in Seq(Word)
      BY JoinLemma, Zenon
    <3>6. QED
      BY <3>2, <3>4, <3>5, Zenon DEF Follows
  <2>10. read(r[k], types[j]) = At(v, Append(SubSeq(args, 1, k), arg))
    <3>1. PICK type, now : type = types[j] /\ now = SubSeq(args, 1, k)
      OBVIOUS
    <3>2. ((type = "uint") <=> (arg.size = 0)) /\ Follows(message, u, Marshalled(arg))
      BY <1>1, <2>6, <2>9, <3>1
    <3>3. Demarshal(At(u, now), type, message) = At(u \o Marshalled(arg), Append(now, arg))
      BY <3>2, DemarshalLemma
    <3>4. QED
      BY <2>4, <2>6, <2>7, <2>8, <2>9, <3>1, <3>3, Zenon DEF read
  <2>11. SubSeq(args, 1, j) = Append(SubSeq(args, 1, k), arg)
    <3> HIDE DEF Args
    <3>1. n = Len(args)
      BY DEF n
    <3>2. QED
      BY <1>1, <2>2, <2>3, <2>6, <3>1, SMTT(30)
  <2>12. QED
    BY <2>2, <2>5, <2>7, <2>8, <2>10, <2>11, Zenon
<1> HIDE DEF T
<1>15. r[n] = Now(n)
  <2>1. n \in T /\ n <= n
    <3>1. Nat \subseteq T
      BY <1>13, <1>14, SetInduction, Zenon
    <3>2. QED
      BY <1>1, <3>1
  <2>2. QED
    BY <2>1, Zenon DEF T
<1>16. Now(n).args = SubSeq(args, 1, n)
  BY DEF At
<1>17. SubSeq(args, 1, n) = args
  <2> HIDE DEF Args
  <2>1. n = Len(args)
    BY DEF n
  <2>2. QED
    BY <1>1, <2>1
<1>18. QED
  BY <1>8, <1>12, <1>15, <1>16, <1>17, Zenon DEF ReadsWhole

\* The header of a request, and how it is read.
HeaderOf(method, size) ==
  <<Number(Object[method.interface]), Number(PackHeader(size, method.opcode))>>

LEMMA HeaderLemma ==
  ASSUME SizesFit, StringSizes # {}, NEW method \in Methods,
         NEW size \in Nat, size < UINT16_MOD, NEW w \in Nat, size = 4 * w
  PROVE  LET header == HeaderOf(method, size)
         IN /\ header \in Seq(Word) /\ Len(header) = 2
            /\ header[1].value = Object[method.interface]
            /\ HeaderSize(header[2].value) \div WL_WORD_SIZE = w
            /\ HeaderOpcode(header[2].value) = method.opcode
<1> DEFINE packed == PackHeader(size, method.opcode)
<1>1. method.interface \in DOMAIN Object /\ method.opcode \in 0 .. 12
  BY MeantLemma DEF Meant
<1>2. method.opcode \in 0 .. (UINT16_MOD - 1) /\ size \in 0 .. (UINT16_MOD - 1)
  <2>1. PICK n \in StringSizes : TRUE
    OBVIOUS
  <2>2. /\ WL_WORD_SIZE * (7 + word_size(n)) + WL_EVENT_HEADER_SIZE < UINT16_MOD
        /\ word_size(n) \in Nat
    BY StringsAgree DEF SizesFit
  <2>3. 4 * (7 + word_size(n)) + 8 < UINT16_MOD
    BY <2>2 DEF WL_WORD_SIZE, WL_EVENT_HEADER_SIZE
  <2>4. QED
    BY <1>1, <2>2, <2>3, WideLemma
<1>3. HeaderSize(packed) = size /\ HeaderOpcode(packed) = method.opcode
  BY <1>2, HeaderRoundTrip
<1>4. packed \in Int
  BY <1>2, WideLemma DEF PackHeader
<1>5. (4 * w) \div 4 = w
  BY SMTT(30)
<1>6. Object[method.interface] \in Int
  BY <1>1, ObjectLemma
<1>7. /\ Number(Object[method.interface]) \in Word /\ Number(packed) \in Word
      /\ Number(Object[method.interface]).value = Object[method.interface]
      /\ Number(packed).value = packed
  BY <1>4, <1>6 DEF Number, Word
<1> HIDE DEF packed, Word
<1>8. LET header == HeaderOf(method, size)
      IN /\ header \in Seq(Word) /\ Len(header) = 2
         /\ header[1] = Number(Object[method.interface]) /\ header[2] = Number(packed)
  BY <1>7 DEF HeaderOf, packed
<1>9. HeaderSize(packed) \div WL_WORD_SIZE = w
  BY <1>3, <1>5, Zenon DEF WL_WORD_SIZE
<1>10. QED
  BY <1>3, <1>7, <1>8, <1>9, Zenon

\* Of what a method writes the compositor decodes the request that is meant.
LEMMA DecodeLemma ==
  ASSUME SizesFit, NEW method \in Methods, NEW string \in StringSizes, NEW number \in Nat,
         NEW size \in Nat, size < UINT16_MOD, NEW w \in Nat, size = 4 * w,
         NEW padding \in Seq(Word)
  PROVE  LET request == Request(number, method, string)
         IN Decode((HeaderOf(method, size) \o Payload(request.args)) \o padding) = request
<1> DEFINE request == Request(number, method, string)
           header == HeaderOf(method, size)
           payload == Payload(request.args)
           message == (header \o payload) \o padding
           opcode == method.opcode
<1>1. /\ header \in Seq(Word) /\ Len(header) = 2
      /\ header[1].value = Object[method.interface]
      /\ HeaderOpcode(header[2].value) = opcode
  BY HeaderLemma
<1>2. Typed(method.args, request.args)
  BY RequestLemma
<1>3. payload \in Seq(Word)
  <2>1. PICK h : IsPayload(h, request.args)
    BY <1>2, PayloadLemma, Zenon DEF Typed
  <2>2. QED
    BY <2>1, Zenon DEF IsPayload
<1>4. ReadAll(message, method.args).args = request.args
  <2>1. PICK first, args, types, m :
           /\ first = header /\ args = request.args /\ types = method.args
           /\ m = (first \o Payload(args)) \o padding
    OBVIOUS
  <2>2. Typed(types, args) /\ first \in Seq(Word) /\ Len(first) = 2
    BY <1>1, <1>2, <2>1, Zenon
  <2>3. m = (first \o Payload(args)) \o padding
    BY <2>1, Zenon
  <2>4. ReadsWhole(m, types, args)
    BY <2>2, <2>3, ReadsLemma, Zenon
  <2>5. QED
    BY <2>1, <2>4, Zenon DEF ReadsWhole
<1> HIDE DEF header, payload
<1>5. message[1] = header[1] /\ message[2] = header[2]
  <2> HIDE DEF Word
  <2>1. PICK s \in Seq(Word) : s = header \o payload
    BY <1>1, <1>3, JoinLemma
  <2>2. Len(s) = 2 + Len(payload) /\ Len(payload) \in Nat /\ \A k \in 1 .. 2 : s[k] = header[k]
    <3>1. PICK a \in Seq(Word), b \in Seq(Word) : a = header /\ b = payload
      BY <1>1, <1>3
    <3>2. s = a \o b
      BY <2>1, <3>1
    <3>3. Len(s) = Len(a) + Len(b) /\ \A k \in 1 .. Len(a) : s[k] = a[k]
      BY <3>2, AppendedLemma
    <3>4. Len(a) = 2 /\ Len(b) \in Nat
      BY <1>1, <3>1
    <3>5. Len(s) = 2 + Len(b) /\ \A k \in 1 .. 2 : s[k] = a[k]
      BY <3>3, <3>4
    <3>6. QED
      BY <3>1, <3>4, <3>5, Zenon
  <2>3. \A k \in 1 .. Len(s) : (s \o padding)[k] = s[k]
    BY AppendedLemma
  <2>4. 1 \in 1 .. 2 /\ 2 \in 1 .. 2 /\ 1 \in 1 .. Len(s) /\ 2 \in 1 .. Len(s)
    BY <2>2
  <2>5. QED
    BY <2>1, <2>2, <2>3, <2>4
<1> HIDE DEF message
<1>6. /\ method.interface \in DOMAIN Object
      /\ opcode + 1 \in DOMAIN Protocol[method.interface]
      /\ Protocol[method.interface][opcode + 1] = Named(method.name, method.args)
  BY MeantLemma DEF Meant
<1>7. Decode(message)
        = [interface |-> method.interface,
           name |-> Protocol[method.interface][opcode + 1].name,
           args |-> ReadAll(message, Protocol[method.interface][opcode + 1].args).args]
  <2> DEFINE k == HeaderOpcode(message[2].value) + 1
             known == {i \in DOMAIN Object : Object[i] = message[1].value /\ k \in DOMAIN Protocol[i]}
             interface == CHOOSE i \in known : TRUE
  <2>1. k = opcode + 1
    BY <1>1, <1>5
  <2>2. known = {method.interface}
    <3> HIDE DEF k
    <3>1. method.interface \in known
      BY <1>1, <1>5, <1>6, <2>1
    <3>2. \A i \in known : i = method.interface
      BY <1>1, <1>5, <1>6, ObjectLemma
    <3> HIDE DEF known
    <3>3. QED
      BY <3>1, <3>2
  <2>3. interface = method.interface /\ known # {}
    BY <2>2
  <2>4. Decode(message) = IF known = {} THEN Malformed
                          ELSE [interface |-> interface, name |-> Protocol[interface][k].name,
                                args |-> ReadAll(message, Protocol[interface][k].args).args]
    BY Zenon DEF Decode, ReadAll, Start
  <2> HIDE DEF k, known, interface
  <2>5. QED
    BY <2>1, <2>3, <2>4, Zenon
<1>8. Named(method.name, method.args).name = method.name
      /\ Named(method.name, method.args).args = method.args
  BY DEF Named
<1>9. request = [interface |-> method.interface, name |-> method.name, args |-> request.args]
  BY DEF Request
<1> HIDE DEF request
<1>10. Decode(message) = request
  BY <1>4, <1>6, <1>7, <1>8, <1>9, Zenon
<1>11. QED
  BY <1>10 DEF message, header, payload, request

-----------------------------------------------------------------------------
(* Whole requests.                                                         *)

\* The words of a request: as many as its header says, and the compositor decodes
\* the request from them.
IsMessage(message, request) ==
  /\ request \in Requests /\ message \in Seq(Word) /\ Len(message) >= 2
  /\ HeaderSize(message[2].value) \div WL_WORD_SIZE = Len(message)
  /\ Decode(message) = request

\* Words that are whole requests, with these requests: the pair of nothing and
\* nothing, and all that comes of it by putting requests first.
Pairs == Seq(Word) \X Seq(Requests)
Nothing == <<<<>>, <<>>>>

Before(message, request, pair) == <<message \o pair[1], <<request>> \o pair[2]>>
Both(first, second) == <<first[1] \o second[1], first[2] \o second[2]>>

Closed(S) ==
  /\ Nothing \in S
  /\ \A message, request : IsMessage(message, request) =>
       \A pair \in S : Before(message, request, pair) \in S

Cuts == {pair \in Pairs : \A S \in SUBSET Pairs : Closed(S) => pair \in S}

\* What is closed holds of every cut.
LEMMA CutInduction ==
  ASSUME NEW S \in SUBSET Pairs, Closed(S)
  PROVE  Cuts \subseteq S
  BY Zenon DEF Cuts

LEMMA JoinRequests ==
  ASSUME NEW a \in Seq(Requests), NEW b \in Seq(Requests), NEW c \in Seq(Requests)
  PROVE  a \o b \in Seq(Requests) /\ Rejoined(a, b, c)
<1> HIDE DEF Requests
<1>1. a \o b \in Seq(Requests)
  BY ConcatProperties
<1>2. Rejoined(a, b, c)
  BY ConcatAssociative DEF Rejoined
<1>3. QED
  BY <1>1, <1>2

LEMMA FirstIsPair ==
  ASSUME NEW message, NEW request, IsMessage(message, request), NEW pair \in Pairs
  PROVE  Before(message, request, pair) \in Pairs
<1> HIDE DEF Requests, Word
<1>1. PICK w \in Seq(Word), c \in Seq(Requests) : pair = <<w, c>>
  BY DEF Pairs
<1>2. message \o w \in Seq(Word)
  BY JoinLemma DEF IsMessage
<1>3. <<request>> \o c \in Seq(Requests)
  <2>1. <<request>> \in Seq(Requests)
    BY DEF IsMessage
  <2>2. QED
    BY <2>1, JoinRequests
<1>4. pair[1] = w /\ pair[2] = c
  BY <1>1
<1>5. QED
  BY <1>2, <1>3, <1>4 DEF Before, Pairs

LEMMA CutsClosed ==
  Cuts \subseteq Pairs /\ Closed(Cuts)
<1>1. Nothing \in Cuts
  <2>1. Nothing \in Pairs
    <3>1. <<>> \in Seq(Word) /\ <<>> \in Seq(Requests)
      OBVIOUS
    <3>2. QED
      BY <3>1, Zenon DEF Pairs, Nothing
  <2>2. QED
    BY <2>1, Zenon DEF Cuts, Closed
<1>2. ASSUME NEW message, NEW request, IsMessage(message, request), NEW pair \in Cuts
      PROVE  Before(message, request, pair) \in Cuts
  <2>1. pair \in Pairs
    BY Zenon DEF Cuts
  <2>2. Before(message, request, pair) \in Pairs
    BY <1>2, <2>1, FirstIsPair, Zenon
  <2>3. ASSUME NEW S \in SUBSET Pairs, Closed(S)
        PROVE  Before(message, request, pair) \in S
    <3>1. pair \in S
      BY <2>3, Zenon DEF Cuts
    <3>2. QED
      BY <1>2, <2>3, <3>1, Zenon DEF Closed
  <2>4. QED
    BY <2>2, <2>3, Zenon DEF Cuts
<1>3. Cuts \subseteq Pairs
  BY Zenon DEF Cuts
<1>4. QED
  BY <1>1, <1>2, <1>3, Zenon DEF Closed

LEMMA PairLemma ==
  ASSUME NEW w, NEW c, <<w, c>> \in Cuts
  PROVE  w \in Seq(Word) /\ c \in Seq(Requests)
<1> HIDE DEF Requests, Word
<1>1. QED
  BY DEF Cuts, Pairs

\* A cut is nothing, or it has a first request.
IsFirst(pair) ==
  \E message, request :
    IsMessage(message, request) /\ \E later \in Cuts : pair = Before(message, request, later)

LEMMA CutFirst ==
  ASSUME NEW pair \in Cuts
  PROVE  pair = Nothing \/ IsFirst(pair)
<1> DEFINE S == {p \in Cuts : p = Nothing \/ IsFirst(p)}
<1>1. S \in SUBSET Pairs
  BY CutsClosed, Zenon
<1>2. Nothing \in S
  BY CutsClosed, Zenon DEF Closed
<1>3. ASSUME NEW message, NEW request, IsMessage(message, request), NEW p \in S
      PROVE  Before(message, request, p) \in S
  <2>1. p \in Cuts
    BY Zenon
  <2>2. Before(message, request, p) \in Cuts
    BY <1>3, <2>1, CutsClosed, Zenon DEF Closed
  <2>3. IsFirst(Before(message, request, p))
    BY <1>3, <2>1, Zenon DEF IsFirst
  <2>4. QED
    BY <2>2, <2>3, Zenon
<1> HIDE DEF S
<1>4. Closed(S)
  BY <1>2, <1>3, Zenon DEF Closed
<1>5. Cuts \subseteq S
  BY <1>1, <1>4, CutInduction, Zenon
<1>6. QED
  BY <1>5, Zenon DEF S

\* What is sent behind whole requests may be whole requests.
LEMMA CutJoin ==
  ASSUME NEW second \in Cuts, NEW first \in Cuts
  PROVE  Both(first, second) \in Cuts
<1> DEFINE S == {p \in Pairs : Both(p, second) \in Cuts}
<1>1. PICK x \in Seq(Word), y \in Seq(Requests) : second = <<x, y>>
  <2>1. second \in Pairs
    BY CutsClosed, Zenon
  <2> HIDE DEF Requests, Word
  <2>2. QED
    BY <2>1 DEF Pairs
<1> HIDE DEF Requests, Word
<1>2. second[1] = x /\ second[2] = y
  BY <1>1
<1>3. Nothing \in S
  <2>1. Nothing \in Pairs
    BY CutsClosed, Zenon DEF Closed
  <2>2. Both(Nothing, second) = <<<<>> \o x, <<>> \o y>>
    BY <1>2 DEF Both, Nothing
  <2>3. <<>> \o x = x /\ <<>> \o y = y
    BY ConcatEmptySeq
  <2>4. QED
    BY <1>1, <2>1, <2>2, <2>3, Zenon
<1>4. ASSUME NEW m, NEW r, IsMessage(m, r), NEW p \in S
      PROVE  Before(m, r, p) \in S
  <2>1. p \in Pairs /\ Both(p, second) \in Cuts
    BY Zenon
  <2>2. Before(m, r, p) \in Pairs
    BY <1>4, <2>1, FirstIsPair, Zenon
  <2>3. Before(m, r, Both(p, second)) \in Cuts
    BY <1>4, <2>1, CutsClosed, Zenon DEF Closed
  <2>4. Before(m, r, Both(p, second)) = Both(Before(m, r, p), second)
    <3>1. PICK w \in Seq(Word), c \in Seq(Requests) : p = <<w, c>>
      BY <2>1 DEF Pairs
    <3>2. m \in Seq(Word) /\ <<r>> \in Seq(Requests)
      BY <1>4 DEF IsMessage
    <3>3. PICK v : v = <<r>>
      OBVIOUS
    <3>4. Before(m, r, p) = <<m \o w, v \o c>> /\ Both(p, second) = <<w \o x, c \o y>>
      BY <1>2, <3>1, <3>3 DEF Before, Both
    <3>5. /\ Before(m, r, Both(p, second)) = <<m \o (w \o x), v \o (c \o y)>>
          /\ Both(Before(m, r, p), second) = <<(m \o w) \o x, (v \o c) \o y>>
      BY <1>2, <3>3, <3>4 DEF Before, Both
    <3>6. (m \o w) \o x = m \o (w \o x)
      <4>1. Rejoined(m, w, x)
        BY <3>2, RejoinLemma, ZenonT(30)
      <4>2. QED
        BY <4>1, Zenon DEF Rejoined
    <3>7. (v \o c) \o y = v \o (c \o y)
      BY <3>2, <3>3, JoinRequests, Zenon DEF Rejoined
    <3>8. QED
      BY <3>5, <3>6, <3>7
  <2>5. QED
    BY <2>2, <2>3, <2>4, Zenon
<1>5. S \in SUBSET Pairs
  BY Zenon
<1> HIDE DEF S
<1>6. Closed(S)
  BY <1>3, <1>4, Zenon DEF Closed
<1>7. Cuts \subseteq S
  BY <1>5, <1>6, CutInduction, Zenon
<1>8. QED
  BY <1>7, Zenon DEF S

\* One request is a cut.
LEMMA CutOfOne ==
  ASSUME NEW message, NEW request, IsMessage(message, request)
  PROVE  <<message, <<request>>>> \in Cuts
<1> HIDE DEF Requests, Word
<1>1. Before(message, request, Nothing) \in Cuts
  BY CutsClosed, Zenon DEF Closed
<1>2. message \in Seq(Word) /\ <<request>> \in Seq(Requests)
  BY DEF IsMessage
<1>3. message \o <<>> = message /\ <<request>> \o <<>> = <<request>>
  BY <1>2, ConcatEmptySeq
<1>4. Before(message, request, Nothing) = <<message \o <<>>, <<request>> \o <<>>>>
  BY DEF Before, Nothing
<1>5. QED
  BY <1>1, <1>3, <1>4

-----------------------------------------------------------------------------
(* What a request method leaves in the page.                               *)

\* A sequence that starts like another goes on from there.
LEMMA ExtensionLemma ==
  ASSUME NEW a \in Seq(Word), NEW b \in Seq(Word), Len(a) <= Len(b),
         \A k \in 1 .. Len(a) : b[k] = a[k]
  PROVE  \E c \in Seq(Word) : b = a \o c
<1> HIDE DEF Word
<1>1. PICK m \in Nat, n \in Nat : m = Len(a) /\ Len(b) = m + n
  <2>1. Len(a) \in Nat /\ Len(b) - Len(a) \in Nat /\ Len(b) = Len(a) + (Len(b) - Len(a))
    OBVIOUS
  <2>2. QED
    BY <2>1, Zenon
<1>2. PICK c : c = SubSeq(b, m + 1, Len(b)) /\ IsLeft(c, b, m, n)
  BY <1>1, LeftLemma
<1>3. c \in Seq(Word) /\ Len(c) = n /\ \A k \in 1 .. n : c[k] = b[m + k]
  BY <1>2, Zenon DEF IsLeft
<1>4. PICK s \in Seq(Word) : s = a \o c
  BY <1>3, JoinLemma
<1>5. /\ Len(s) = m + n /\ \A k \in 1 .. m : s[k] = a[k]
      /\ \A k \in 1 .. n : s[m + k] = c[k]
  BY <1>1, <1>3, <1>4, AppendedLemma
<1>6. ASSUME NEW k \in 1 .. Len(b) PROVE s[k] = b[k]
  <2>1. CASE k \in 1 .. m
    BY <1>1, <1>5, <2>1
  <2>2. CASE k \notin 1 .. m
    <3>1. PICK j \in 1 .. n : k = m + j
      <4>1. k - m \in 1 .. n /\ k = m + (k - m)
        BY <1>1, <2>2
      <4>2. QED
        BY <4>1, Zenon
    <3>2. QED
      BY <1>3, <1>5, <3>1, Zenon
  <2>3. QED
    BY <2>1, <2>2
<1>7. s = b
  BY <1>1, <1>5, <1>6, SeqEqual
<1>8. QED
  BY <1>3, <1>4, <1>7

\* The front of three pieces.
LEMMA FrontLemma ==
  ASSUME NEW a \in Seq(Word), Len(a) = 2, NEW b \in Seq(Word), NEW c \in Seq(Word)
  PROVE  ((a \o b) \o c)[2] = a[2] /\ Len((a \o b) \o c) >= 2
<1> HIDE DEF Word
<1>1. PICK s \in Seq(Word) : s = a \o b
  BY JoinLemma
<1>2. Len(s) = Len(a) + Len(b) /\ \A k \in 1 .. Len(a) : s[k] = a[k]
  <2>1. /\ Len(a \o b) = Len(a) + Len(b)
        /\ \A k \in 1 .. Len(a) : (a \o b)[k] = a[k]
    BY AppendedLemma, Zenon
  <2>2. QED
    BY <1>1, <2>1, Zenon
<1>3. Len(s \o c) = Len(s) + Len(c) /\ \A k \in 1 .. Len(s) : (s \o c)[k] = s[k]
  BY AppendedLemma
<1>4. Len(b) \in Nat /\ Len(c) \in Nat
  OBVIOUS
<1>5. 2 \in 1 .. Len(a) /\ 2 \in 1 .. Len(s) /\ Len(s \o c) >= 2
  BY <1>2, <1>3, <1>4
<1>6. QED
  BY <1>1, <1>2, <1>3, <1>5

\* Behind these words in the page, the words of a request in as many bytes.
IsComposed(writer, words, size, request) ==
  /\ writer.page \in [Addresses -> Word]
  /\ writer.cursor \in Nat /\ writer.cursor <= 4 * Len(words) + size
  /\ \E message : /\ IsMessage(message, request)
                  /\ Filled(writer.page, 4 * Len(words) + size) = words \o message

LEMMA WriterLemma ==
  ASSUME SizesFit, page \in [Addresses -> Word], NEW words \in Seq(Word),
         NEW m \in Nat, Len(words) = m, Filled(page, 4 * m) = words,
         NEW method \in Methods, NEW string \in StringSizes, NEW number \in 1 .. MaxRequests,
         NEW size \in Nat, size = MessageSize(SizeOf(method, string)), 4 * m + size < PAGE_SIZE
  PROVE  IsComposed(FoldLeft(Write, NewWriter(4 * m, method, size),
                             Request(number, method, string).args),
                    words, size, Request(number, method, string))
<1> DEFINE request == Request(number, method, string)
           header == HeaderOf(method, size)
           payload == Payload(request.args)
           start == NewWriter(4 * m, method, size)
           writer == FoldLeft(Write, start, request.args)
           all == (words \o header) \o payload
<1>1. Typed(method.args, request.args) /\ HasRoom(size, request.args) /\ number \in Nat
  BY RequestLemma, RequestWireAssumption
<1>2. PICK w \in Nat : size < UINT16_MOD /\ size = 4 * w /\ 2 + Len(payload) <= w
  BY <1>1, Zenon DEF HasRoom
<1>3. \A padding \in Seq(Word) : Decode((header \o payload) \o padding) = request
  BY <1>1, <1>2, DecodeLemma, ZenonT(30)
<1>4. request \in Requests
  BY <1>1 DEF Requests
<1>5. /\ header \in Seq(Word) /\ Len(header) = 2
      /\ HeaderSize(header[2].value) \div WL_WORD_SIZE = w
  BY <1>2, HeaderLemma
<1>6. payload \in Seq(Word) /\ request.args \in Seq(Args)
  <2>1. request.args \in Seq(Args)
    BY <1>1, Zenon DEF Typed
  <2>2. PICK h : IsPayload(h, request.args)
    BY <2>1, PayloadLemma, Zenon
  <2>3. QED
    BY <2>1, <2>2, Zenon DEF IsPayload
<1>7. PICK l \in Nat : l = Len(payload)
  BY <1>6
<1>8. PAGE_SIZE \in Nat
  BY RequestWireAssumption
<1>9. Wrote(start, words \o header)
  <2> DEFINE first == [page |-> page, cursor |-> 4 * m]
  <2>1. Wrote(first, words)
    BY DEF Wrote
  <2>2. 4 * (Len(words) + Len(header)) <= PAGE_SIZE
    <3>1. PICK k : k = Len(header) /\ k = 2
      BY <1>5
    <3>2. 4 * (m + 2) <= PAGE_SIZE
      BY <1>2, <1>7, <1>8
    <3>3. QED
      BY <3>1, <3>2, Zenon
  <2>3. start = [Put(first, header) EXCEPT !.cursor = 4 * m + WL_EVENT_HEADER_SIZE]
    BY Zenon DEF NewWriter, HeaderOf
  <2>4. 4 * m + WL_EVENT_HEADER_SIZE = first.cursor + 4 * Len(header)
    BY <1>5 DEF WL_EVENT_HEADER_SIZE, WL_WORD_SIZE
  <2> HIDE DEF first, start, header
  <2>5. PICK at : at = 4 * m + WL_EVENT_HEADER_SIZE
    OBVIOUS
  <2>6. Wrote([Put(first, header) EXCEPT !.cursor = at], words \o header)
    BY <1>5, <2>1, <2>2, <2>4, <2>5, PutLemma, Zenon
  <2>7. QED
    BY <2>3, <2>5, <2>6, Zenon
<1> HIDE DEF start, header, payload, request
<1>10. PICK both \in Seq(Word) : both = words \o header /\ Len(both) = m + 2
  <2>1. words \o header \in Seq(Word) /\ Len(words \o header) = Len(words) + Len(header)
    BY <1>5, AppendedLemma, Zenon
  <2>2. QED
    BY <1>5, <2>1, Zenon
<1>11. Wrote(writer, all) /\ all \in Seq(Word) /\ Len(all) = m + 2 + l
  <2>1. 4 * (Len(both) + Len(payload)) <= PAGE_SIZE
    BY <1>2, <1>7, <1>8, <1>10
  <2>2. Wrote(writer, both \o payload)
    BY <1>6, <1>9, <1>10, <2>1, WritesLemma, Zenon DEF payload
  <2>3. both \o payload \in Seq(Word) /\ Len(both \o payload) = Len(both) + Len(payload)
    BY <1>6, AppendedLemma
  <2>4. QED
    BY <1>7, <1>10, <2>2, <2>3
<1> HIDE DEF writer, all
<1>12. /\ writer.page \in [Addresses -> Word] /\ writer.cursor = 4 * Len(all)
       /\ Filled(writer.page, 4 * Len(all)) = all
  BY <1>11, Zenon DEF Wrote
<1>13. writer.cursor \in Nat /\ writer.cursor <= 4 * m + size
  BY <1>2, <1>7, <1>11, <1>12
<1> DEFINE sent == Filled(writer.page, 4 * (m + w))
<1>14. 4 * m + size = 4 * (m + w) /\ 4 * (m + w) <= PAGE_SIZE /\ m + w \in Nat
  BY <1>2, <1>8
<1>15. /\ sent \in Seq(Word) /\ Len(sent) = m + w
       /\ \A k \in 1 .. (m + w) : sent[k] = writer.page[4 * (k - 1)]
  BY <1>12, <1>14, FilledLemma, Zenon
<1>16. Len(all) <= Len(sent) /\ Len(all) \in Nat /\ 4 * Len(all) <= PAGE_SIZE
  <2>1. PICK n \in Nat : n = Len(all) /\ n = m + 2 + l
    BY <1>11
  <2>2. n <= m + w /\ 4 * n <= PAGE_SIZE
    BY <1>2, <1>7, <1>8, <2>1
  <2>3. QED
    BY <1>15, <2>1, <2>2, Zenon
<1>17. \A k \in 1 .. Len(all) : all[k] = writer.page[4 * (k - 1)]
  <2>1. PICK k \in Nat : k = Len(all)
    BY <1>16
  <2>2. \A i \in 1 .. k : Filled(writer.page, 4 * k)[i] = writer.page[4 * (i - 1)]
    BY <1>12, <1>16, <2>1, FilledLemma, Zenon
  <2>3. QED
    BY <1>12, <2>1, <2>2, Zenon
<1> HIDE DEF sent
<1>18. \A k \in 1 .. Len(all) : sent[k] = all[k]
  <2>1. \A k \in 1 .. Len(all) : k \in 1 .. (m + w)
    BY <1>15, <1>16
  <2>2. QED
    BY <1>15, <1>17, <2>1, Zenon
<1>19. PICK padding \in Seq(Word) : sent = all \o padding
  BY <1>11, <1>15, <1>16, <1>18, ExtensionLemma, Zenon
<1> DEFINE message == (header \o payload) \o padding
<1>20. message \in Seq(Word)
  <2>1. header \o payload \in Seq(Word)
    BY <1>5, <1>6, JoinLemma, Zenon
  <2>2. QED
    BY <2>1, JoinLemma, Zenon
<1>21. sent = words \o message
  <2>1. all = words \o (header \o payload)
    <3>1. Rejoined(words, header, payload)
      BY <1>5, <1>6, RejoinLemma, ZenonT(30)
    <3>2. QED
      BY <3>1, Zenon DEF Rejoined, all
  <2>2. header \o payload \in Seq(Word)
    BY <1>5, <1>6, JoinLemma, Zenon
  <2>3. QED
    <3>1. Rejoined(words, header \o payload, padding)
      BY <2>2, RejoinLemma, ZenonT(30)
    <3>2. QED
      BY <1>19, <2>1, <3>1, Zenon DEF Rejoined
<1>22. Len(message) >= 2 /\ message[2] = header[2]
  BY <1>5, <1>6, FrontLemma, Zenon
<1>23. Decode(message) = request
  BY <1>3, Zenon
<1> HIDE DEF message
<1>24. Len(message) = w
  <2>1. Len(words \o message) = Len(words) + Len(message) /\ Len(message) \in Nat
    BY <1>20, AppendedLemma, LenProperties, Zenon
  <2>2. QED
    BY <1>15, <1>21, <2>1
<1>25. IsMessage(message, request)
  BY <1>5, <1>20, <1>22, <1>24, <1>4, <1>23, Zenon DEF IsMessage
<1>26. Filled(writer.page, 4 * Len(words) + size) = words \o message
  BY <1>14, <1>21, Zenon DEF sent
<1>27. IsComposed(writer, words, size, request)
  BY <1>12, <1>13, <1>25, <1>26, Zenon DEF IsComposed
<1>28. QED
  BY <1>27 DEF writer, start, request

-----------------------------------------------------------------------------
(* The invariant.                                                          *)

\* What is in the socket are whole requests, and so is what is in the page as long
\* as it has not overflowed; they are those pending, in this order.
Queued ==
  \E first, rest : /\ <<stream, first>> \in Cuts /\ rest \in Seq(Requests)
                   /\ failure = "none" => <<Filled(page, offset), rest>> \in Cuts
                   /\ pending = first \o rest

IInv ==
  /\ page \in [Addresses -> Word] /\ composed \in Nat /\ ~overrun
  /\ \E m \in Nat : offset = 4 * m
  /\ Queued

\* What DecodedAsComposed asks of a step.
PathStep == [Path!Next]_<<pending, received>>

LEMMA EmptyLemma ==
  ASSUME NEW p
  PROVE  Filled(p, 0) = <<>> /\ <<Filled(p, 0), <<>>>> \in Cuts
<1>1. 0 \div 4 = 0
  BY SMT
<1>2. Filled(p, 0) = [k \in 1 .. 0 |-> p[4 * (k - 1)]]
  BY <1>1, Zenon DEF Filled, WL_WORD_SIZE
<1>3. Filled(p, 0) = <<>>
  BY <1>2
<1>4. QED
  BY <1>3, CutsClosed, Zenon DEF Closed, Nothing

LEMMA InitLemma ==
  ASSUME Init
  PROVE  IInv /\ Path!Init
<1>1. page \in [Addresses -> Word]
  BY DEF Init, Junk, Number, Word
<1>2. Queued
  <2>1. <<stream, <<>>>> \in Cuts /\ <<Filled(page, offset), <<>>>> \in Cuts
    BY EmptyLemma, CutsClosed, Zenon DEF Init, Closed, Nothing
  <2>2. <<>> \in Seq(Requests) /\ <<>> = <<>> \o <<>>
    <3> HIDE DEF Requests
    <3>1. QED
      OBVIOUS
  <2>3. pending = <<>>
    BY DEF Init
  <2>4. QED
    BY <2>1, <2>2, <2>3, Zenon DEF Queued
<1>3. offset = 4 * 0 /\ 0 \in Nat
  BY DEF Init
<1>4. IInv
  BY <1>1, <1>2, <1>3 DEF Init, IInv
<1>5. QED
  BY <1>4 DEF Init, Path!Init

\* A method gives a request whole words.
LEMMA WholeLemma ==
  ASSUME SizesFit, NEW method \in Methods, NEW string \in StringSizes
  PROVE  \E w \in Nat : MessageSize(SizeOf(method, string)) = 4 * w
<1>1. HasRoom(MessageSize(SizeOf(method, string)), Request(0, method, string).args)
  BY RequestLemma
<1>2. QED
  BY <1>1, Zenon DEF HasRoom

LEMMA ComposeLemma ==
  ASSUME SizesFit, IInv, NEW method \in Methods, NEW string \in StringSizes,
         Compose(method, string)
  PROVE  IInv' /\ PathStep
<1> DEFINE size == MessageSize(SizeOf(method, string))
           request == Request(composed + 1, method, string)
           writer == FoldLeft(Write, NewWriter(offset, method, size), request.args)
<1>1. /\ failure = "none" /\ composed < MaxRequests
      /\ offset' = offset + size
      /\ IF offset + size >= PAGE_SIZE
         THEN failure' = "overflow" /\ UNCHANGED <<page, overrun, composed, pending>>
         ELSE /\ page' = writer.page
              /\ overrun' = (overrun \/ writer.cursor > offset + size)
              /\ composed' = composed + 1
              /\ pending' = Append(pending, request)
              /\ UNCHANGED failure
      /\ UNCHANGED <<stream, received>>
  BY Zenon DEF Compose
<1>2. PICK w \in Nat : size = 4 * w
  BY WholeLemma, Zenon
<1>3. page \in [Addresses -> Word] /\ composed \in Nat /\ ~overrun
  BY Zenon DEF IInv
<1>4. PICK m \in Nat : offset = 4 * m
  BY Zenon DEF IInv
<1>5. PICK first, rest : /\ <<stream, first>> \in Cuts
                         /\ rest \in Seq(Requests)
                         /\ failure = "none" => <<Filled(page, offset), rest>> \in Cuts
                         /\ pending = first \o rest
  BY Zenon DEF IInv, Queued
<1>6. first \in Seq(Requests)
  BY <1>5, PairLemma
<1>7. \E k \in Nat : offset' = 4 * k
  <2> HIDE DEF size
  <2>1. m + w \in Nat /\ offset' = 4 * (m + w)
    BY <1>1, <1>2, <1>4
  <2>2. QED
    BY <2>1, Zenon
<1>8. CASE offset + size >= PAGE_SIZE
  <2>1. /\ failure' = "overflow" /\ failure' # "none"
        /\ UNCHANGED <<page, overrun, composed, pending, stream, received>>
    BY <1>1, <1>8
  <2>2. Queued'
    <3>1. <<stream', first>> \in Cuts /\ pending' = first \o rest
      BY <1>5, <2>1
    <3>2. QED
      BY <1>5, <2>1, <3>1, Zenon DEF Queued
  <2>3. IInv'
    BY <1>3, <1>7, <2>1, <2>2, Zenon DEF IInv
  <2>4. QED
    BY <2>1, <2>3 DEF PathStep
<1>9. CASE ~(offset + size >= PAGE_SIZE)
  <2>1. /\ page' = writer.page
        /\ overrun' = (overrun \/ writer.cursor > offset + size)
        /\ composed' = composed + 1 /\ pending' = Append(pending, request)
        /\ UNCHANGED <<failure, stream, received>>
    BY <1>1, <1>9, Zenon
  <2>2. composed + 1 \in 1 .. MaxRequests /\ composed + 1 \in Nat
    BY <1>1, <1>3, RequestWireAssumption
  <2>3. PICK words : words = Filled(page, 4 * m) /\ <<words, rest>> \in Cuts
    BY <1>1, <1>4, <1>5, Zenon
  <2>4. words \in Seq(Word)
    BY <2>3, PairLemma, Zenon
  <2>5. PICK bytes \in Nat : bytes = size
    BY <1>2
  <2>6. 4 * m + bytes < PAGE_SIZE /\ 4 * m <= PAGE_SIZE
    <3> HIDE DEF size
    <3>1. QED
      BY <1>4, <1>9, <2>5, RequestWireAssumption
  <2>7. Len(words) = m
    BY <1>3, <2>3, <2>6, FilledLemma
  <2>8. IsComposed(FoldLeft(Write, NewWriter(4 * m, method, bytes),
                            Request(composed + 1, method, string).args),
                   words, bytes, Request(composed + 1, method, string))
    BY <1>3, <2>2, <2>3, <2>4, <2>5, <2>6, <2>7, WriterLemma, Zenon
  <2>9. IsComposed(writer, words, size, request)
    BY <1>4, <2>5, <2>8, Zenon
  <2> HIDE DEF writer, size, request
  <2>10. PICK message : /\ IsMessage(message, request)
                        /\ Filled(writer.page, 4 * Len(words) + size) = words \o message
    BY <2>9, Zenon DEF IsComposed
  <2>11. page' \in [Addresses -> Word]
    BY <2>1, <2>9, Zenon DEF IsComposed
  <2>12. ~overrun'
    <3>1. writer.cursor \in Nat /\ writer.cursor <= 4 * Len(words) + size
      BY <2>9, Zenon DEF IsComposed
    <3>2. ~(writer.cursor > offset + size)
      BY <1>4, <2>5, <2>7, <3>1
    <3>3. QED
      BY <1>3, <2>1, <3>2, Zenon
  <2>13. <<Filled(page', offset'), rest \o <<request>>>> \in Cuts
    <3>1. <<message, <<request>>>> \in Cuts
      BY <2>10, CutOfOne, Zenon
    <3>2. Both(<<words, rest>>, <<message, <<request>>>>) \in Cuts
      BY <2>3, <3>1, CutJoin, Zenon
    <3>3. Both(<<words, rest>>, <<message, <<request>>>>)
            = <<words \o message, rest \o <<request>>>>
      BY DEF Both
    <3>4. Filled(page', offset') = words \o message
      BY <1>1, <1>4, <2>1, <2>7, <2>10, Zenon
    <3>5. QED
      BY <3>2, <3>3, <3>4, Zenon
  <2>14. request \in Requests
    BY <2>10, Zenon DEF IsMessage
  <2>15. rest \o <<request>> \in Seq(Requests) /\ pending' = first \o (rest \o <<request>>)
    <3> HIDE DEF Requests
    <3>1. <<request>> \in Seq(Requests) /\ first \o rest \in Seq(Requests)
      BY <1>5, <1>6, <2>14, JoinRequests
    <3>2. Append(first \o rest, request) = (first \o rest) \o <<request>>
      BY <2>14, <3>1
    <3>3. Rejoined(first, rest, <<request>>) /\ rest \o <<request>> \in Seq(Requests)
      BY <1>5, <1>6, <3>1, JoinRequests, Zenon
    <3>4. QED
      BY <1>5, <2>1, <3>2, <3>3, Zenon DEF Rejoined
  <2>16. Queued'
    <3>1. <<stream', first>> \in Cuts
      BY <1>5, <2>1
    <3>2. QED
      BY <2>13, <2>15, <3>1, Zenon DEF Queued
  <2>17. IInv'
    <3>1. composed' \in Nat
      BY <2>1, <2>2
    <3>2. QED
      BY <1>7, <2>11, <2>12, <2>16, <3>1, Zenon DEF IInv
  <2>18. PathStep
    BY <2>1, <2>14, Zenon DEF PathStep, Path!Next, Path!Compose
  <2>19. QED
    BY <2>17, <2>18
<1>10. QED
  BY <1>8, <1>9

LEMMA SendLemma ==
  ASSUME IInv, Send
  PROVE  IInv' /\ PathStep
<1>1. /\ failure = "none" /\ stream' = stream \o Filled(page, offset) /\ offset' = 0
      /\ UNCHANGED <<page, overrun, composed, pending, received, failure>>
  BY Zenon DEF Send, Filled
<1>2. PICK first, rest : /\ <<stream, first>> \in Cuts
                         /\ rest \in Seq(Requests)
                         /\ failure = "none" => <<Filled(page, offset), rest>> \in Cuts
                         /\ pending = first \o rest
  BY Zenon DEF IInv, Queued
<1>3. <<stream', first \o rest>> \in Cuts
  <2>1. Both(<<stream, first>>, <<Filled(page, offset), rest>>) \in Cuts
    BY <1>1, <1>2, CutJoin, Zenon
  <2>2. Both(<<stream, first>>, <<Filled(page, offset), rest>>) = <<stream', first \o rest>>
    BY <1>1 DEF Both
  <2>3. QED
    BY <2>1, <2>2, Zenon
<1>4. <<Filled(page', offset'), <<>>>> \in Cuts
  BY <1>1, EmptyLemma, Zenon
<1>5. <<>> \in Seq(Requests) /\ pending' = (first \o rest) \o <<>>
  <2>1. first \o rest \in Seq(Requests)
    BY <1>3, PairLemma, Zenon
  <2> HIDE DEF Requests
  <2>2. <<>> \in Seq(Requests) /\ (first \o rest) \o <<>> = first \o rest
    BY <2>1, ConcatEmptySeq
  <2>3. QED
    BY <1>1, <1>2, <2>2, Zenon
<1>6. Queued'
  BY <1>3, <1>4, <1>5, Zenon DEF Queued
<1>7. offset' = 4 * 0 /\ 0 \in Nat
  BY <1>1
<1>8. IInv'
  BY <1>1, <1>6, <1>7 DEF IInv
<1>9. QED
  BY <1>1, <1>8 DEF PathStep

\* The first request in the socket.
IsNext(message, request, later, next) ==
  IsMessage(message, request) /\ <<later, next>> \in Cuts

HasNext(words, requests) ==
  \E message, request, later, next :
    /\ IsNext(message, request, later, next)
    /\ words = message \o later /\ requests = <<request>> \o next

LEMMA NextLemma ==
  ASSUME NEW words, NEW requests, <<words, requests>> \in Cuts, words # <<>>
  PROVE  HasNext(words, requests)
<1>1. <<words, requests>> # Nothing
  BY DEF Nothing
<1>2. IsFirst(<<words, requests>>)
  BY <1>1, CutFirst, Zenon
<1>3. PICK message, request :
        /\ IsMessage(message, request)
        /\ \E pair \in Cuts : <<words, requests>> = Before(message, request, pair)
  BY <1>2, Zenon DEF IsFirst
<1>4. PICK pair \in Cuts : <<words, requests>> = Before(message, request, pair)
  BY <1>3, Zenon
<1>5. PICK later, next : pair = <<later, next>>
  BY DEF Cuts, Pairs
<1>6. words = message \o later /\ requests = <<request>> \o next
  BY <1>4, <1>5 DEF Before
<1>7. IsNext(message, request, later, next)
  BY <1>3, <1>4, <1>5, Zenon DEF IsNext
<1>8. QED
  BY <1>6, <1>7, Zenon DEF HasNext

\* A message and what follows it, cut by its length.
IsCut(words, message, later) ==
  /\ Len(words) > 1 /\ words[2] = message[2] /\ Len(message) \in 2 .. Len(words)
  /\ SubSeq(words, 1, Len(message)) = message
  /\ SubSeq(words, Len(message) + 1, Len(words)) = later

LEMMA CutLemma ==
  ASSUME NEW message \in Seq(Word), Len(message) >= 2, NEW later \in Seq(Word)
  PROVE  IsCut(message \o later, message, later)
<1> HIDE DEF Word
<1>1. PICK words \in Seq(Word) : words = message \o later
  BY JoinLemma
<1>2. /\ Len(message \o later) = Len(message) + Len(later)
      /\ \A k \in 1 .. Len(message) : (message \o later)[k] = message[k]
      /\ \A k \in 1 .. Len(later) : (message \o later)[Len(message) + k] = later[k]
  BY AppendedLemma, Zenon
<1>3. PICK m \in Nat, n \in Nat : m = Len(message) /\ n = Len(later)
  OBVIOUS
<1>4. /\ Len(words) = m + n /\ \A k \in 1 .. m : words[k] = message[k]
      /\ \A k \in 1 .. n : words[m + k] = later[k]
  BY <1>1, <1>2, <1>3
<1>5. Len(words) > 1 /\ m \in 2 .. Len(words) /\ 2 \in 1 .. m
  BY <1>3, <1>4
<1>6. SubSeq(words, 1, m) = message
  <2>1. PICK s : s = SubSeq(words, 1, m)
    OBVIOUS
  <2>2. s \in Seq(Word) /\ Len(s) = m /\ \A k \in 1 .. m : s[k] = words[k]
    <3>1. m <= Len(words) /\ Len(words) \in Nat
      BY <1>4
    <3>2. QED
      BY <2>1, <3>1, SMTT(30)
  <2>3. s = message
    BY <1>3, <1>4, <2>2, SeqEqual
  <2>4. QED
    BY <2>1, <2>3
<1>7. SubSeq(words, m + 1, Len(words)) = later
  <2>1. PICK s : s = SubSeq(words, m + 1, Len(words)) /\ IsLeft(s, words, m, n)
    BY <1>4, LeftLemma
  <2>2. s \in Seq(Word) /\ Len(s) = n /\ \A k \in 1 .. n : s[k] = words[m + k]
    BY <2>1, Zenon DEF IsLeft
  <2>3. s = later
    BY <1>3, <1>4, <2>2, SeqEqual
  <2>4. QED
    BY <2>1, <2>3
<1>8. words[2] = message[2]
  BY <1>4, <1>5
<1>9. IsCut(words, message, later)
  BY <1>3, <1>5, <1>6, <1>7, <1>8, Zenon DEF IsCut
<1>10. QED
  BY <1>1, <1>9

LEMMA ReceiveLemma ==
  ASSUME IInv, Receive
  PROVE  IInv' /\ PathStep
<1> DEFINE words == IF Len(stream) > 1
                    THEN HeaderSize(stream[2].value) \div WL_WORD_SIZE ELSE 0
<1>1. /\ stream # <<>>
      /\ IF words \in 2 .. Len(stream)
         THEN /\ received' = Decode(SubSeq(stream, 1, words))
              /\ stream' = SubSeq(stream, words + 1, Len(stream))
         ELSE received' = Malformed /\ stream' = <<>>
      /\ pending' = IF pending = <<>> THEN <<>> ELSE Tail(pending)
      /\ UNCHANGED <<page, offset, overrun, composed, failure>>
  BY Zenon DEF Receive
<1>2. PICK first, rest : /\ <<stream, first>> \in Cuts
                         /\ rest \in Seq(Requests)
                         /\ failure = "none" => <<Filled(page, offset), rest>> \in Cuts
                         /\ pending = first \o rest
  BY Zenon DEF IInv, Queued
<1>3. PICK message, request, later, next :
        /\ IsNext(message, request, later, next)
        /\ stream = message \o later /\ first = <<request>> \o next
  <2>1. HasNext(stream, first)
    BY <1>1, <1>2, NextLemma, Zenon
  <2>2. QED
    BY <2>1, Zenon DEF HasNext
<1>4. /\ request \in Requests /\ message \in Seq(Word) /\ Len(message) >= 2
      /\ HeaderSize(message[2].value) \div WL_WORD_SIZE = Len(message)
      /\ Decode(message) = request /\ <<later, next>> \in Cuts
  BY <1>3, Zenon DEF IsNext, IsMessage
<1>5. later \in Seq(Word) /\ next \in Seq(Requests)
  BY <1>4, PairLemma, Zenon
<1>6. IsCut(stream, message, later)
  BY <1>3, <1>4, <1>5, CutLemma, Zenon
<1>7. words = Len(message) /\ words \in 2 .. Len(stream)
  BY <1>4, <1>6, Zenon DEF IsCut
<1>8. received' = request /\ stream' = later
  BY <1>1, <1>4, <1>6, <1>7, Zenon DEF IsCut
<1> HIDE DEF words
<1>9. pending # <<>> /\ Head(pending) = request /\ Tail(pending) = next \o rest
      /\ next \o rest \in Seq(Requests)
  <2> HIDE DEF Requests
  <2>1. <<request>> \in Seq(Requests)
    BY <1>4
  <2>2. next \o rest \in Seq(Requests) /\ Rejoined(<<request>>, next, rest)
    BY <1>2, <1>5, <2>1, JoinRequests, Zenon
  <2>3. PICK all \in Seq(Requests) : all = next \o rest
    BY <2>2
  <2>4. pending = <<request>> \o all
    BY <1>2, <1>3, <2>2, <2>3, Zenon DEF Rejoined
  <2>5. pending # <<>> /\ Head(pending) = request /\ Tail(pending) = all
    BY <1>4, <2>3, <2>4
  <2>6. QED
    BY <2>3, <2>5
<1>10. pending' = next \o rest
  BY <1>1, <1>9, Zenon
<1>11. Queued'
  <2>1. <<stream', next>> \in Cuts
    BY <1>4, <1>8, Zenon
  <2>2. failure' = "none" => <<Filled(page', offset'), rest>> \in Cuts
    BY <1>1, <1>2
  <2>3. QED
    BY <1>2, <1>10, <2>1, <2>2, Zenon DEF Queued
<1>12. IInv'
  BY <1>1, <1>11 DEF IInv
<1>13. PathStep
  BY <1>8, <1>9, <1>10 DEF PathStep, Path!Next, Path!Deliver
<1>14. QED
  BY <1>12, <1>13

LEMMA StepLemma ==
  ASSUME SizesFit, IInv, [Next]_vars
  PROVE  IInv' /\ PathStep
<1>1. ASSUME NEW method \in Methods, NEW string \in StringSizes, Compose(method, string)
      PROVE  IInv' /\ PathStep
  BY <1>1, ComposeLemma
<1>2. CASE Send
  BY <1>2, SendLemma
<1>3. CASE Receive
  BY <1>3, ReceiveLemma
<1>4. CASE UNCHANGED vars
  <2>1. UNCHANGED <<page, offset, overrun, composed, pending, stream, received, failure>>
    BY <1>4, Zenon DEF vars
  <2>2. Queued'
    BY <2>1, Zenon DEF IInv, Queued
  <2>3. IInv'
    BY <2>1, <2>2 DEF IInv
  <2>4. QED
    BY <2>1, <2>3 DEF PathStep
<1>5. QED
  BY <1>1, <1>2, <1>3, <1>4, Zenon DEF Next

\* No request method writes outside of what it was given, for strings of any size
\* that a request can have: Spec => []WritesInside.
THEOREM AlwaysWritesInside ==
  ASSUME SizesFit
  PROVE  Spec => []WritesInside
<1>1. Init => IInv
  BY InitLemma
<1>2. IInv /\ [Next]_vars => IInv'
  BY StepLemma
<1>3. IInv => WritesInside
  BY DEF IInv, WritesInside
<1>4. QED
  BY <1>1, <1>2, <1>3, PTL DEF Spec

\* What the compositor decodes is what the methods were called with, in order and
\* once each, for any requests and strings of any size that a request can have.
THEOREM AlwaysDecodedAsComposed ==
  ASSUME SizesFit
  PROVE  Spec => DecodedAsComposed
<1>1. Init => IInv /\ Path!Init
  BY InitLemma
<1>2. IInv /\ [Next]_vars => IInv' /\ PathStep
  BY StepLemma
<1>3. PathStep => [Path!Next]_<<pending, received>>
  BY DEF PathStep
<1>4. QED
  BY <1>1, <1>2, <1>3, PTL DEF Spec, DecodedAsComposed, Path!Spec

=============================================================================
