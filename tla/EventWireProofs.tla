---------------------------- MODULE EventWireProofs ---------------------------
(***************************************************************************)
(* Proofs about EventWire, for any events in any order and any number of   *)
(* them, with any strings, arrays and numbers.                             *)
(*                                                                         *)
(* First, what a fold does one step at a time, for which there is nothing  *)
(* but the definition of folds in the library.  Then, what the handlers    *)
(* read is compared with the protocol, and a reader followed through the   *)
(* words of an event.  The invariant says that the page and the socket     *)
(* each hold whole events, and that the calls these are for are those that *)
(* are expected.                                                           *)
(***************************************************************************)
EXTENDS EventWire, NaturalsInduction, WellFoundedInduction, SequenceTheorems,
        FiniteSetTheorems, TLAPS

-----------------------------------------------------------------------------
(* Induction, and folds over the numbers up to one.                        *)

\* Induction, for a property given as the set of the numbers that have it.
LEMMA SetInduction ==
  ASSUME NEW T, 0 \in T, \A m \in Nat : m \in T => m + 1 \in T
  PROVE  Nat \subseteq T
<1> DEFINE Less == {ss \in Nat \X Nat : ss[1] < ss[2]}
           Bad == Nat \ T
<1>1. IsWellFoundedOn(Less, Nat)
  BY NatLessThanWellFounded DEF OpToRel
<1>2. SUFFICES ASSUME Bad # {} PROVE FALSE
  OBVIOUS
<1>3. Bad \subseteq Nat
  OBVIOUS
<1> HIDE DEF Bad, Less
<1>4. PICK m \in Bad : \A k \in Bad : ~(<<k, m>> \in Less)
  BY <1>1, <1>2, <1>3, WFMin
<1>5. m \in Nat /\ m \notin T
  BY DEF Bad
<1>6. m # 0 /\ m - 1 \in Nat /\ (m - 1) + 1 = m /\ m - 1 < m
  BY <1>5
<1>7. m - 1 \in T
  <2>1. <<m - 1, m>> \in Less
    BY <1>5, <1>6 DEF Less
  <2>2. m - 1 \notin Bad
    BY <1>4, <2>1
  <2>3. QED
    BY <1>6, <2>2 DEF Bad
<1>8. QED
  BY <1>5, <1>6, <1>7

\* The largest of some numbers.
LEMMA LargestLemma ==
  ASSUME NEW m \in Nat, NEW s \in SUBSET (1 .. m), s # {}
  PROVE  Max(s) \in s /\ \A k \in s : k <= Max(s)
<1> DEFINE T == {n \in Nat : \A t \in SUBSET (1 .. n) :
                                t # {} => \E x \in t : \A y \in t : x >= y}
<1>1. 0 \in T
  <2>1. 1 .. 0 = {} /\ 0 \in Nat
    OBVIOUS
  <2>2. QED
    BY <2>1, Zenon
<1>2. ASSUME NEW n \in Nat, n \in T PROVE n + 1 \in T
  <2>1. SUFFICES ASSUME NEW t \in SUBSET (1 .. (n + 1)), t # {}
                 PROVE  \E x \in t : \A y \in t : x >= y
    OBVIOUS
  <2>2. CASE n + 1 \in t
    BY <2>2
  <2>3. CASE n + 1 \notin t
    <3>1. t \in SUBSET (1 .. n)
      BY <2>3
    <3>2. QED
      BY <1>2, <2>1, <3>1
  <2>4. QED
    BY <2>2, <2>3
<1> HIDE DEF T
<1>3. Nat \subseteq T
  BY <1>1, <1>2, SetInduction
<1>4. \E x \in s : \A y \in s : x >= y
  BY <1>3 DEF T
<1>5. Max(s) \in s /\ \A y \in s : Max(s) >= y
  BY <1>4, Zenon DEF Max
<1>6. QED
  BY <1>5

\* The largest of the numbers up to one.
LEMMA LargestOfAll ==
  ASSUME NEW m \in Nat, NEW s \in SUBSET (1 .. (m + 1)), m + 1 \in s
  PROVE  Max(s) = m + 1
<1>1. Max(s) \in s /\ m + 1 <= Max(s)
  <2>1. m + 1 \in Nat /\ s # {}
    OBVIOUS
  <2>2. QED
    BY <2>1, LargestLemma
<1>2. PICK x \in 1 .. (m + 1) : x = Max(s)
  BY <1>1
<1>3. m + 1 <= x
  BY <1>1, <1>2, Zenon
<1>4. x = m + 1
  BY <1>3
<1>5. QED
  BY <1>2, <1>4, Zenon

\* A fold over the numbers up to n is a function of sets of them that takes the
\* largest one after the others.
IsStep(step, X, n) == step \in [X \X (1 .. n) -> X]
IsFold(f, base, step, X, n) ==
  /\ f \in [SUBSET (1 .. n) -> X]
  /\ \A s \in SUBSET (1 .. n) :
       f[s] = IF s = {} THEN base ELSE step[<<f[s \ {Max(s)}], Max(s)>>]

\* One that is it wherever it has a value to go on from.
Folds(f, base, step, X, n) ==
  /\ f[{}] = base
  /\ \A s \in SUBSET (1 .. n) :
       s # {} /\ f[s \ {Max(s)}] \in X => f[s] = step[<<f[s \ {Max(s)}], Max(s)>>]

\* There is such a function.
LEMMA FoldExists ==
  ASSUME NEW X, NEW base \in X, NEW n \in Nat, NEW step, IsStep(step, X, n)
  PROVE  \E f : IsFold(f, base, step, X, n)
<1> DEFINE Is(f, m) == \A s \in SUBSET (1 .. m) :
                         f[s] = IF s = {} THEN base ELSE step[<<f[s \ {Max(s)}], Max(s)>>]
           T == {m \in Nat : m <= n => \E f \in [SUBSET (1 .. m) -> X] : Is(f, m)}
<1>1. 0 \in T
  <2> DEFINE f == [s \in SUBSET (1 .. 0) |-> base]
  <2>1. \A s \in SUBSET (1 .. 0) : s = {}
    OBVIOUS
  <2>2. f \in [SUBSET (1 .. 0) -> X] /\ Is(f, 0)
    BY <2>1
  <2>3. QED
    BY <2>2
<1>2. ASSUME NEW m \in Nat, m \in T PROVE m + 1 \in T
  <2>1. SUFFICES ASSUME m + 1 <= n
                 PROVE  \E f \in [SUBSET (1 .. (m + 1)) -> X] : Is(f, m + 1)
    <3> HIDE DEF Is
    <3>1. m + 1 \in Nat
      OBVIOUS
    <3>2. QED
      BY <3>1, Zenon
  <2>2. PICK g \in [SUBSET (1 .. m) -> X] : Is(g, m)
    <3> HIDE DEF Is
    <3>1. m <= n
      BY <2>1
    <3>2. QED
      BY <1>2, <3>1, Zenon
  <2> DEFINE f == [s \in SUBSET (1 .. (m + 1)) |->
                     IF m + 1 \in s THEN step[<<g[s \ {m + 1}], m + 1>>] ELSE g[s]]
  <2>3. ASSUME NEW s \in SUBSET (1 .. (m + 1))
        PROVE  s \ {m + 1} \in SUBSET (1 .. m) /\ (m + 1 \notin s => s \in SUBSET (1 .. m))
    OBVIOUS
  <2>4. ASSUME NEW s \in SUBSET (1 .. m)
        PROVE  /\ s \in SUBSET (1 .. (m + 1)) /\ m + 1 \notin s
               /\ f[s] = g[s]
    <3>1. s \in SUBSET (1 .. (m + 1)) /\ m + 1 \notin s
      OBVIOUS
    <3>2. QED
      BY <3>1, Zenon
  <2>5. f \in [SUBSET (1 .. (m + 1)) -> X]
    <3>1. m + 1 \in 1 .. n
      BY <2>1
    <3>2. ASSUME NEW s \in SUBSET (1 .. (m + 1))
          PROVE  step[<<g[s \ {m + 1}], m + 1>>] \in X /\ (m + 1 \notin s => g[s] \in X)
      BY <2>3, <3>1 DEF IsStep
    <3>3. QED
      BY <3>2, Zenon
  <2>6. ASSUME NEW s \in SUBSET (1 .. (m + 1))
        PROVE  f[s] = IF s = {} THEN base ELSE step[<<f[s \ {Max(s)}], Max(s)>>]
    <3>1. CASE m + 1 \in s
      <4>1. Max(s) = m + 1
        BY <3>1, LargestOfAll
      <4>2. f[s \ {m + 1}] = g[s \ {m + 1}]
        BY <2>3, <2>4
      <4>3. f[s] = step[<<g[s \ {m + 1}], m + 1>>]
        BY <3>1, Zenon
      <4> HIDE DEF f
      <4>4. QED
        BY <3>1, <4>1, <4>2, <4>3, Zenon
    <3>2. CASE m + 1 \notin s
      <4>1. s \in SUBSET (1 .. m) /\ s \ {Max(s)} \in SUBSET (1 .. m)
        BY <2>3, <3>2, Zenon
      <4>2. f[s] = g[s] /\ f[s \ {Max(s)}] = g[s \ {Max(s)}]
        BY <2>4, <4>1
      <4> HIDE DEF f
      <4>3. QED
        BY <2>2, <4>1, <4>2, Zenon
    <3>3. QED
      BY <3>1, <3>2
  <2> HIDE DEF f
  <2>7. QED
    BY <2>5, <2>6
<1> HIDE DEF T
<1>3. n \in T
  BY <1>1, <1>2, SetInduction
<1>4. PICK f \in [SUBSET (1 .. n) -> X] : Is(f, n)
  <2> HIDE DEF Is
  <2>1. n <= n
    OBVIOUS
  <2>2. QED
    BY <1>3, <2>1, Zenon DEF T
<1>5. IsFold(f, base, step, X, n)
  BY <1>4 DEF IsFold
<1>6. QED
  BY <1>5, Zenon

\* The values of a fold one after the other.
Steps(h, base, step, X, n) ==
  /\ h \in [0 .. n -> X] /\ h[0] = base
  /\ \A k \in 1 .. n : h[k] = step[<<h[k - 1], k>>]

\* Its values on the first numbers are such steps.
LEMMA FoldSteps ==
  ASSUME NEW X, NEW base \in X, NEW n \in Nat, NEW step, IsStep(step, X, n),
         NEW f, Folds(f, base, step, X, n)
  PROVE  \E h : Steps(h, base, step, X, n) /\ h[n] = f[1 .. n]
<1> DEFINE h == [k \in 0 .. n |-> f[1 .. k]]
<1>1. ASSUME NEW k \in 1 .. n, f[1 .. (k - 1)] \in X
      PROVE  f[1 .. k] = step[<<f[1 .. (k - 1)], k>>] /\ f[1 .. k] \in X
  <2>1. /\ 1 .. k \in SUBSET (1 .. n) /\ 1 .. k # {} /\ (1 .. k) \ {k} = 1 .. (k - 1)
        /\ k - 1 \in Nat /\ (k - 1) + 1 = k /\ k \in 1 .. k
    BY SMT
  <2>2. Max(1 .. k) = k
    BY <2>1, LargestOfAll
  <2>3. f[1 .. k] = step[<<f[1 .. (k - 1)], k>>]
    BY <1>1, <2>1, <2>2, Zenon DEF Folds
  <2>4. QED
    BY <1>1, <2>3 DEF IsStep
<1>2. f[1 .. 0] = base
  <2>1. 1 .. 0 = {}
    OBVIOUS
  <2>2. QED
    BY <2>1, Zenon DEF Folds
<1>3. \A k \in 0 .. n : f[1 .. k] \in X
  <2> DEFINE T == {k \in Nat : k <= n => f[1 .. k] \in X}
  <2>1. 0 \in T
    BY <1>2
  <2>2. ASSUME NEW k \in Nat, k \in T PROVE k + 1 \in T
    <3>1. SUFFICES ASSUME k + 1 <= n PROVE f[1 .. (k + 1)] \in X
      OBVIOUS
    <3>2. k + 1 \in 1 .. n /\ (k + 1) - 1 = k /\ k <= n
      BY <3>1
    <3>3. QED
      BY <1>1, <2>2, <3>2
  <2> HIDE DEF T
  <2>3. Nat \subseteq T
    BY <2>1, <2>2, SetInduction
  <2>4. QED
    BY <2>3 DEF T
<1>4. \A k \in 1 .. n : k \in 0 .. n /\ k - 1 \in 0 .. n
  OBVIOUS
<1>5. h[0] = base /\ h[n] = f[1 .. n]
  <2>1. 0 \in 0 .. n /\ n \in 0 .. n
    OBVIOUS
  <2>2. QED
    BY <1>2, <2>1, Zenon
<1>6. \A k \in 1 .. n : h[k] = step[<<h[k - 1], k>>]
  BY <1>1, <1>3, <1>4, Zenon
<1>7. h \in [0 .. n -> X]
  BY <1>3, Zenon
<1> HIDE DEF h
<1>8. Steps(h, base, step, X, n)
  BY <1>5, <1>6, <1>7 DEF Steps
<1>9. QED
  BY <1>5, <1>8, Zenon

\* Such steps can be taken from any value.
LEMMA Iterates ==
  ASSUME NEW X, NEW base \in X, NEW n \in Nat, NEW step, IsStep(step, X, n)
  PROVE  \E h : Steps(h, base, step, X, n)
<1>1. PICK f : IsFold(f, base, step, X, n)
  BY FoldExists, Zenon
<1>2. {} \in SUBSET (1 .. n)
  OBVIOUS
<1>3. Folds(f, base, step, X, n)
  BY <1>1, <1>2, Zenon DEF IsFold, Folds
<1>4. QED
  BY <1>3, FoldSteps, Zenon

-----------------------------------------------------------------------------
(* Numbers.                                                                *)

\* What is as short as a wl_uint16 is far from the end of a wl_uint.
LEMMA WideLemma ==
  /\ UINT16_MOD \in Nat /\ UINT16_MOD > 10
  /\ UINT_MOD \in Nat /\ UINT_MOD >= 8 * UINT16_MOD
<1>1. UINT16_MOD \in Nat /\ UINT16_MOD > 10
  BY WireFormatAssumption
<1>2. ASSUME NEW m \in Nat, m > 8
      PROVE  m * m \in Nat /\ m * m >= 8 * m
  BY <1>2, SMTT(30)
<1>3. QED
  BY <1>1, <1>2 DEF UINT_MOD

\* A string takes as many words as hold its bytes, and one for its size.
LEMMA StringWords ==
  ASSUME NEW n \in 1 .. UINT16_MOD
  PROVE  LET words == (n + 3) \div 4
         IN /\ words \in Nat \ {0} /\ word_size(n) = words
            /\ serialised_size(n) \div WL_WORD_SIZE = 1 + words
<1>1. ASSUME NEW m \in Nat, NEW k \in Nat, k < m
      PROVE  k % m = k
  BY <1>1, SMTT(30)
<1>2. PICK q \in Nat : /\ (n - 1) - ((n - 1) % 4) = 4 * q /\ 4 * q <= n - 1
                       /\ (n + 3) \div 4 = q + 1
  <2>1. n \in Nat \ {0}
    BY WideLemma
  <2>2. LET q == (n - 1) \div 4
        IN /\ q \in Nat /\ (n - 1) - ((n - 1) % 4) = 4 * q /\ 4 * q <= n - 1
           /\ (n + 3) \div 4 = q + 1
    BY <2>1, SMTT(30)
  <2>3. QED
    BY <2>2
<1>3. (n - 1) % UINT_MOD = n - 1 /\ (4 * q + 4) % UINT_MOD = 4 * q + 4
  <2>1. /\ n - 1 \in Nat /\ n - 1 < UINT_MOD
        /\ 4 * q + 4 \in Nat /\ 4 * q + 4 < UINT_MOD
    BY <1>2, WideLemma
  <2>2. QED
    BY <1>1, <2>1, WideLemma
<1>4. wl_align(n) = 4 * q + 4
  BY <1>2, <1>3, Zenon DEF wl_align, WL_WORD_SIZE
<1>5. (4 * q + 4) \div 4 = q + 1 /\ (4 * q + 4 + 4) \div 4 = 1 + (q + 1)
  BY <1>2, SMTT(30)
<1>6. word_size(n) = q + 1 /\ serialised_size(n) \div WL_WORD_SIZE = 1 + (q + 1)
  BY <1>4, <1>5, Zenon DEF word_size, serialised_size, WL_WORD_SIZE
<1>7. QED
  BY <1>2, <1>6

\* The header of an event is read as it was packed.
LEMMA HeaderLemma ==
  ASSUME NEW n \in Nat, 4 * n + 8 < UINT16_MOD, NEW opcode \in 0 .. 10
  PROVE  LET header == PackHeader(WL_WORD_SIZE * n + WL_EVENT_HEADER_SIZE, opcode)
         IN /\ header \in Int
            /\ HeaderSize(header) \div WL_WORD_SIZE = n + 2 /\ HeaderOpcode(header) = opcode
<1>1. ASSUME NEW m \in Nat, m > 0, NEW q \in Nat, NEW r \in Nat, r < m
      PROVE  q * m + r \in Int /\ (q * m + r) \div m = q /\ (q * m + r) % m = r
  BY <1>1, SMTT(60)
<1>2. /\ UINT16_MOD \in Nat /\ UINT16_MOD > 0 /\ opcode \in Nat /\ opcode < UINT16_MOD
      /\ 4 * n + 8 \in Nat
  BY WideLemma
<1>3. (4 * n + 8) \div 4 = n + 2
  BY SMTT(30)
<1>4. WL_WORD_SIZE = 4 /\ WL_EVENT_HEADER_SIZE = 8
  BY DEF WL_WORD_SIZE, WL_EVENT_HEADER_SIZE
<1> DEFINE size == 4 * n + 8
<1>5. /\ size * UINT16_MOD + opcode \in Int
      /\ (size * UINT16_MOD + opcode) \div UINT16_MOD = size
      /\ (size * UINT16_MOD + opcode) % UINT16_MOD = opcode
  BY <1>1, <1>2
<1>6. QED
  BY <1>3, <1>4, <1>5, Zenon DEF PackHeader, HeaderSize, HeaderOpcode

-----------------------------------------------------------------------------
(* Sequences of words.                                                     *)

Word == [value : Int, part : Nat]

\* Words in the middle, where a reader is.
LEMMA MiddleLemma ==
  ASSUME NEW a \in Seq(Word), NEW b \in Seq(Word), NEW c \in Seq(Word)
  PROVE  /\ (a \o b) \o c \in Seq(Word)
         /\ \A k \in 1 .. Len(b) : /\ Len(a) + k \in DOMAIN ((a \o b) \o c)
                                   /\ ((a \o b) \o c)[Len(a) + k] = b[k]
  OBVIOUS

LEMMA JoinLemma ==
  ASSUME NEW a \in Seq(Word), NEW b \in Seq(Word)
  PROVE  a \o b \in Seq(Word)
  BY ConcatProperties

\* Where the words of an event end does not matter to the stream.
Rejoined(a, b, c) == (a \o b) \o c = a \o (b \o c)

LEMMA RejoinLemma ==
  ASSUME NEW a \in Seq(Word), NEW b \in Seq(Word), NEW c \in Seq(Word)
  PROVE  Rejoined(a, b, c)
  BY ConcatAssociative DEF Rejoined

\* The first k of n sequences of words, one after the other.
Joined(h, seqs, n) ==
  /\ h \in [0 .. n -> Seq(Word)] /\ h[0] = <<>>
  /\ \A k \in 1 .. n : h[k] = h[k - 1] \o seqs[k]

\* What is flattened, piece by piece.
LEMMA FlattenSteps ==
  ASSUME NEW n \in Nat, NEW seqs, DOMAIN seqs = 1 .. n, Len(seqs) = n,
         n = 0 => seqs = <<>>,
         \A k \in 1 .. n : seqs[k] \in Seq(Word)
  PROVE  \E h : Joined(h, seqs, n) /\ h[n] = FlattenSeq(seqs)
<1> DEFINE step == [xk \in Seq(Word) \X (1 .. n) |-> xk[1] \o seqs[xk[2]]]
<1>1. \A x \in Seq(Word), k \in 1 .. n : x \o seqs[k] \in Seq(Word)
  BY ConcatProperties
<1>2. IsStep(step, Seq(Word), n)
  BY <1>1 DEF IsStep
<1>3. \A x \in Seq(Word), k \in 1 .. n : step[<<x, k>>] = x \o seqs[k]
  OBVIOUS
<1>4. <<>> \in Seq(Word)
  OBVIOUS
<1> HIDE DEF step
<1>5. PICK h : Steps(h, <<>>, step, Seq(Word), n)
  BY <1>2, <1>4, Iterates, Zenon
<1>6. /\ h \in [0 .. n -> Seq(Word)] /\ h[0] = <<>>
       /\ \A k \in 1 .. n : h[k] = step[<<h[k - 1], k>>]
  BY <1>5 DEF Steps
<1>7. \A k \in 1 .. n : h[k] = h[k - 1] \o seqs[k]
  <2>1. \A k \in 1 .. n : k - 1 \in 0 .. n /\ h[k - 1] \in Seq(Word)
    BY <1>6
  <2>2. QED
    BY <1>3, <1>6, <2>1, Zenon
<1>8. CASE n = 0
  BY <1>6, <1>7, <1>8 DEF FlattenSeq, Joined
<1>9. CASE n # 0
  <2> DEFINE g == [i \in 1 .. n |-> h[i]]
             Is(f) == f = [i \in 1 .. Len(seqs) |->
                              IF i = 1 THEN seqs[i] ELSE f[i - 1] \o seqs[i]]
  <2>1. Is(g)
    <3>1. ASSUME NEW i \in 1 .. n
          PROVE  h[i] = IF i = 1 THEN seqs[i] ELSE g[i - 1] \o seqs[i]
      <4>1. CASE i = 1
        <5>1. h[1] = <<>> \o seqs[1] /\ seqs[1] \in Seq(Word)
          <6>1. 1 \in 1 .. n /\ 1 - 1 = 0
            BY <4>1
          <6>2. QED
            BY <1>6, <1>7, <6>1
        <5>2. QED
          BY <4>1, <5>1, ConcatEmptySeq, Zenon
      <4>2. CASE i # 1
        <5>1. i - 1 \in 1 .. n
          BY <4>2
        <5>2. QED
          BY <1>7, <4>2, <5>1
      <4>3. QED
        BY <4>1, <4>2
    <3>2. Len(seqs) = n
      OBVIOUS
    <3>3. QED
      BY <3>1, <3>2, Zenon
  <2> HIDE DEF g
  <2> DEFINE f == CHOOSE e : Is(e)
  <2>2. FlattenSeq(seqs) = f[n]
    BY <1>9, Zenon DEF FlattenSeq
  <2>3. Is(f)
    <3> HIDE DEF Is
    <3>1. QED
      BY <2>1, Zenon
  <2> HIDE DEF f
  <2>4. \A i \in 1 .. n : f[i] = IF i = 1 THEN seqs[i] ELSE f[i - 1] \o seqs[i]
    <3>1. Len(seqs) = n
      OBVIOUS
    <3>2. QED
      BY <2>3, <3>1, Zenon
  <2> DEFINE T == {k \in Nat : k + 1 <= n => f[k + 1] = h[k + 1]}
  <2>5. 0 \in T
    <3>1. 1 \in 1 .. n /\ 0 + 1 = 1 /\ 1 - 1 = 0
      BY <1>9
    <3>2. f[1] = seqs[1] /\ h[1] = <<>> \o seqs[1] /\ seqs[1] \in Seq(Word)
      BY <1>6, <1>7, <2>4, <3>1
    <3>3. f[1] = h[1]
      BY <3>2, ConcatEmptySeq, Zenon
    <3>4. QED
      BY <3>1, <3>3
  <2>6. ASSUME NEW k \in Nat, k \in T PROVE k + 1 \in T
    <3>1. SUFFICES ASSUME k + 1 + 1 <= n PROVE f[k + 1 + 1] = h[k + 1 + 1]
      OBVIOUS
    <3>2. k + 1 + 1 \in 1 .. n /\ k + 1 + 1 # 1 /\ (k + 1 + 1) - 1 = k + 1 /\ k + 1 <= n
      BY <3>1
    <3>3. f[k + 1] = h[k + 1]
      BY <2>6, <3>2
    <3>4. /\ f[k + 1 + 1] = f[k + 1] \o seqs[k + 1 + 1]
          /\ h[k + 1 + 1] = h[k + 1] \o seqs[k + 1 + 1]
      BY <1>7, <2>4, <3>2, Zenon
    <3>5. QED
      BY <3>3, <3>4, Zenon
  <2> HIDE DEF T, Is
  <2>7. Nat \subseteq T
    BY <2>5, <2>6, SetInduction
  <2>8. n - 1 \in Nat /\ (n - 1) + 1 = n /\ n <= n
    BY <1>9
  <2>9. f[n] = h[n]
    <3>1. n - 1 \in T
      BY <2>7, <2>8
    <3>2. QED
      BY <2>8, <3>1 DEF T
  <2>10. FlattenSeq(seqs) = h[n]
    BY <2>2, <2>9
  <2>11. QED
    BY <1>6, <1>7, <2>10 DEF Joined
<1>10. QED
  BY <1>8, <1>9

-----------------------------------------------------------------------------
(* Arguments.                                                              *)

\* An argument, as a number and a size.
Value == [value : Int, size : Nat]

\* Every argument is one.
LEMMA ValuesLemma ==
  ASSUME NEW n \in Nat, NEW k \in Nat, NEW type
  PROVE  Values(n, k, type) \subseteq Value
<1>1. FixedBits \subseteq Int /\ StringSizes \subseteq Nat /\ ArraySizes \subseteq Nat
  BY EventWireAssumption
<1>2. 10 * n + k \in Int /\ 0 \in Nat
  OBVIOUS
<1>3. CASE type = "fixed"
  BY <1>1, <1>2, <1>3 DEF Values, Value
<1>4. CASE type = "string"
  BY <1>1, <1>2, <1>4 DEF Values, Value
<1>5. CASE type = "array"
  BY <1>1, <1>2, <1>5 DEF Values, Value
<1>6. CASE type \notin {"fixed", "string", "array"}
  BY <1>1, <1>2, <1>6 DEF Values, Value
<1>7. QED
  BY <1>3, <1>4, <1>5, <1>6

\* The arguments of an event are as many as it has, each of its type.
LEMMA ArgsLemma ==
  ASSUME NEW n \in Nat, NEW interface, NEW opcode,
         NEW m \in Nat, DOMAIN Types(interface, opcode) = 1 .. m,
         NEW args \in ArgsOf(n, interface, opcode)
  PROVE  /\ args \in Seq(Value) /\ Len(args) = m /\ DOMAIN args = 1 .. m
         /\ \A k \in 1 .. m : args[k] \in Values(n, k, Types(interface, opcode)[k])
<1> DEFINE types == Types(interface, opcode)
           X == SUBSET Seq(Value)
           longer(seqs, k) == Longer(seqs, Values(n, k, types[k]))
           step == [xk \in X \X (1 .. m) |-> longer(xk[1], xk[2])]
           places == [i \in DOMAIN types |-> i]
           Is(f) == f = [s \in SUBSET DOMAIN places |->
                           IF s = {} THEN {<<>>} ELSE longer(f[s \ {Max(s)}], places[Max(s)])]
           f == CHOOSE g : Is(g)
<1> HIDE DEF types
<1>1. ASSUME NEW x \in X, NEW k \in 1 .. m
      PROVE  longer(x, k) \in X /\ step[<<x, k>>] = longer(x, k)
  <2>1. Values(n, k, types[k]) \subseteq Value
    BY ValuesLemma
  <2> HIDE DEF Value
  <2>2. longer(x, k) \in X
    BY <2>1 DEF Longer
  <2>3. QED
    BY <2>2
<1>2. IsStep(step, X, m)
  BY <1>1 DEF IsStep
<1>3. {<<>>} \in X
  OBVIOUS
<1>4. DOMAIN types = 1 .. m /\ DOMAIN places = 1 .. m
      /\ \A k \in 1 .. m : places[k] = k
  BY DEF types
<1>5. ArgsOf(n, interface, opcode) = f[1 .. m]
  <2>1. ArgsOf(n, interface, opcode) = FoldLeft(longer, {<<>>}, places)
    BY Zenon DEF ArgsOf, FoldLeftDomain, types, Types
  <2> HIDE DEF places
  <2>2. FoldLeft(longer, {<<>>}, places) = f[DOMAIN places]
    BY Zenon DEF FoldLeft, MapThenFoldSet
  <2>3. QED
    BY <1>4, <2>1, <2>2, Zenon
<1>6. \A s \in SUBSET (1 .. m) : s # {} => Max(s) \in 1 .. m /\ s \ {Max(s)} \in SUBSET (1 .. m)
  BY LargestLemma
<1> HIDE DEF X, longer, step, places
<1>7. Is(f)
  <2>1. PICK g : IsFold(g, {<<>>}, step, X, m)
    BY <1>2, <1>3, FoldExists, Zenon
  <2>2. \A s \in SUBSET (1 .. m) :
          g[s] = IF s = {} THEN {<<>>} ELSE longer(g[s \ {Max(s)}], places[Max(s)])
    <3>1. ASSUME NEW s \in SUBSET (1 .. m), s # {}
          PROVE  g[s] = longer(g[s \ {Max(s)}], places[Max(s)])
      <4>1. /\ g[s] = step[<<g[s \ {Max(s)}], Max(s)>>]
            /\ Max(s) \in 1 .. m /\ s \ {Max(s)} \in SUBSET (1 .. m)
        BY <1>6, <2>1, <3>1, Zenon DEF IsFold
      <4>2. g[s \ {Max(s)}] \in X
        BY <2>1, <4>1 DEF IsFold
      <4>3. QED
        BY <1>1, <1>4, <4>1, <4>2
    <3>2. QED
      BY <2>1, <3>1, Zenon DEF IsFold
  <2>3. g = [s \in SUBSET (1 .. m) |-> g[s]]
    BY <2>1 DEF IsFold
  <2>4. Is(g)
    BY <1>4, <2>2, <2>3, Zenon
  <2> HIDE DEF Is
  <2>5. QED
    BY <2>4, Zenon
<1> HIDE DEF f
<1>8. Folds(f, {<<>>}, step, X, m)
  <2>1. {} \in SUBSET (1 .. m)
    OBVIOUS
  <2>2. f[{}] = {<<>>}
    BY <1>4, <1>7, <2>1, Zenon
  <2>3. ASSUME NEW s \in SUBSET (1 .. m), s # {}, f[s \ {Max(s)}] \in X
        PROVE  f[s] = step[<<f[s \ {Max(s)}], Max(s)>>]
    <3>1. f[s] = longer(f[s \ {Max(s)}], places[Max(s)])
      BY <1>4, <1>7, <2>3, Zenon
    <3>2. PICK k \in 1 .. m, x \in X : k = Max(s) /\ x = f[s \ {Max(s)}]
      BY <1>6, <2>3, Zenon
    <3>3. f[s] = longer(x, k)
      BY <1>4, <3>1, <3>2, Zenon
    <3>4. QED
      BY <1>1, <3>2, <3>3, Zenon
  <2>4. QED
    BY <2>2, <2>3, Zenon DEF Folds
<1>9. PICK h : Steps(h, {<<>>}, step, X, m) /\ h[m] = f[1 .. m]
  BY <1>2, <1>3, <1>8, FoldSteps
<1> DEFINE Good(a, k) == /\ a \in Seq(Value) /\ Len(a) = k
                         /\ \A j \in 1 .. k : a[j] \in Values(n, j, types[j])
           T == {k \in Nat : k <= m => \A a \in h[k] : Good(a, k)}
<1>10. 0 \in T
  <2>1. \A a \in h[0] : a = <<>>
    BY <1>9 DEF Steps
  <2>2. Good(<<>>, 0)
    OBVIOUS
  <2> HIDE DEF Good
  <2>3. QED
    BY <2>1, <2>2
<1>11. ASSUME NEW k \in Nat, k \in T PROVE k + 1 \in T
  <2>1. SUFFICES ASSUME k + 1 <= m, NEW a \in h[k + 1] PROVE Good(a, k + 1)
    <3> HIDE DEF Good
    <3>1. QED
      OBVIOUS
  <2>2. k + 1 \in 1 .. m /\ (k + 1) - 1 = k /\ k <= m /\ k \in 0 .. m
    BY <2>1
  <2>3. h[k] \in X /\ h[k + 1] = step[<<h[k], k + 1>>]
    BY <1>9, <2>2 DEF Steps
  <2>4. h[k + 1] = longer(h[k], k + 1)
    BY <1>1, <2>2, <2>3
  <2>5. PICK b \in h[k], v \in Values(n, k + 1, types[k + 1]) : a = Append(b, v)
    BY <2>1, <2>4 DEF longer, Longer
  <2>6. Good(b, k)
    <3> HIDE DEF Good
    <3>1. QED
      BY <1>11, <2>2
  <2>7. v \in Value
    BY <2>5, ValuesLemma
  <2> HIDE DEF T, Value
  <2>8. a \in Seq(Value) /\ Len(a) = k + 1 /\ a[k + 1] = v /\ \A j \in 1 .. k : a[j] = b[j]
    BY <2>5, <2>6, <2>7
  <2>9. \A j \in 1 .. (k + 1) : j \in 1 .. k \/ j = k + 1
    OBVIOUS
  <2>10. QED
    BY <2>5, <2>6, <2>8, <2>9
<1> HIDE DEF T
<1>12. m \in T
  BY <1>10, <1>11, SetInduction
<1>13. Good(args, m)
  <2> HIDE DEF Good
  <2>1. args \in h[m]
    BY <1>5, <1>9
  <2>2. m <= m
    OBVIOUS
  <2>3. QED
    BY <1>12, <2>1, <2>2, Zenon DEF T
<1>14. DOMAIN args = 1 .. m
  BY <1>13
<1>15. QED
  BY <1>13, <1>14 DEF types

-----------------------------------------------------------------------------
(* The handlers of the client match the events of the protocol.            *)

IsList(types) == Len(types) \in Nat /\ DOMAIN types = 1 .. Len(types)

\* A handler reads the first arguments of the event, up to an array.
Fits(types, read) ==
  /\ Len(read) \in 0 .. Len(types) /\ DOMAIN read = 1 .. Len(read)
  /\ \A k \in 1 .. Len(read) : /\ types[k] # "array"
                               /\ (read[k] = "string") <=> (types[k] = "string")
                               /\ (read[k] = "fixed") <=> (types[k] = "fixed")

\* It calls the listener of the event with them all, if the event has one.
Right(event, handler, client) ==
  /\ Fits(event.args, handler.types)
  /\ handler.listener = Silent => event.name \notin Listeners(client)
  /\ handler.listener # Silent =>
       /\ handler.listener = event.name /\ event.name \in Listeners(client)
       /\ client.parameters[event.name] = Len(handler.types)

\* An event has one handler, or none, and then no listener.
Entry(event, opcode, client) ==
  /\ IsList(event.args)
  /\ \/ \E handler \in client.reads :
          /\ Right(event, handler, client)
          /\ \A h \in client.reads : h.opcode = opcode <=> h = handler
     \/ /\ \A h \in client.reads : h.opcode # opcode
        /\ event.name \notin Listeners(client)

Matches(events, client) ==
  /\ Len(events) \in 1 .. 11
  /\ \A opcode \in 0 .. (Len(events) - 1) : Entry(events[opcode + 1], opcode, client)

\* What the tables of a client say of an opcode and of the name of an event.
Handles(client, opcode, types, listener) ==
  \A h \in client.reads : h.opcode = opcode <=> h = Reads(opcode, types, listener)
Ignores(client, opcode) == \A h \in client.reads : h.opcode # opcode

Heard(client, name, n) ==
  name # Silent /\ name \in Listeners(client) /\ client.parameters[name] = n
Unheard(client, name) == name \notin Listeners(client)

FitsList(types, read, n) == IsList(types) /\ Fits(types, read) /\ Len(read) = n

\* A handler that calls a listener.
LEMMA HeardEntry ==
  ASSUME NEW client, NEW opcode, NEW name, NEW types, NEW read, NEW n,
         Reads(opcode, read, name) \in client.reads, Handles(client, opcode, read, name),
         Heard(client, name, n), FitsList(types, read, n)
  PROVE  Entry(Named(name, types), opcode, client)
<1> DEFINE event == Named(name, types)
           handler == Reads(opcode, read, name)
<1>1. event.name = name /\ event.args = types
  BY DEF Named
<1>2. handler.types = read /\ handler.listener = name
  BY DEF Reads
<1>3. handler \in client.reads /\ \A h \in client.reads : h.opcode = opcode <=> h = handler
  BY Zenon DEF Handles
<1> HIDE DEF event, handler
<1>4. Right(event, handler, client)
  BY <1>1, <1>2, Zenon DEF Right, Heard, FitsList
<1>5. Entry(event, opcode, client)
  BY <1>1, <1>3, <1>4, Zenon DEF Entry, FitsList
<1>6. QED
  BY <1>5 DEF event

\* One that calls none.
LEMMA SilentEntry ==
  ASSUME NEW client, NEW opcode, NEW name, NEW types, NEW read, NEW n,
         Reads(opcode, read, Silent) \in client.reads, Handles(client, opcode, read, Silent),
         Unheard(client, name), FitsList(types, read, n)
  PROVE  Entry(Named(name, types), opcode, client)
<1> DEFINE event == Named(name, types)
           handler == Reads(opcode, read, Silent)
<1>1. event.name = name /\ event.args = types
  BY DEF Named
<1>2. handler.types = read /\ handler.listener = Silent
  BY DEF Reads
<1>3. handler \in client.reads /\ \A h \in client.reads : h.opcode = opcode <=> h = handler
  BY Zenon DEF Handles
<1> HIDE DEF event, handler
<1>4. Right(event, handler, client)
  BY <1>1, <1>2, Zenon DEF Right, Unheard, FitsList
<1>5. Entry(event, opcode, client)
  BY <1>1, <1>3, <1>4, Zenon DEF Entry, FitsList
<1>6. QED
  BY <1>5 DEF event

\* No handler.
LEMMA IgnoredEntry ==
  ASSUME NEW client, NEW opcode, NEW name, NEW types,
         Ignores(client, opcode), Unheard(client, name), IsList(types)
  PROVE  Entry(Named(name, types), opcode, client)
<1>1. Named(name, types).name = name /\ Named(name, types).args = types
  BY DEF Named
<1>2. QED
  BY <1>1, Zenon DEF Entry, Ignores, Unheard

\* The arguments of events, and what handlers read of them.
LEMMA ListTable ==
  /\ IsList(<<>>) /\ IsList(<<"int">>) /\ IsList(<<"uint">>) /\ IsList(<<"array">>)
  /\ IsList(<<"string">>) /\ IsList(<<"object">>) /\ IsList(<<"int", "int">>)
  /\ IsList(<<"uint", "int">>) /\ IsList(<<"uint", "uint">>) /\ IsList(<<"uint", "object">>)
  /\ IsList(<<"int", "int", "array">>) /\ IsList(<<"uint", "uint", "uint">>)
  /\ IsList(<<"uint", "uint", "fixed">>) /\ IsList(<<"uint", "string", "uint">>)
  /\ IsList(<<"uint", "fixed", "fixed">>) /\ IsList(<<"uint", "object", "array">>)
  /\ IsList(<<"object", "uint", "string">>) /\ IsList(<<"uint", "int", "int", "int">>)
  /\ IsList(<<"uint", "uint", "uint", "uint">>) /\ IsList(<<"uint", "object", "fixed", "fixed">>)
  /\ IsList(<<"uint", "uint", "uint", "uint", "uint">>)
  /\ IsList(<<"int", "int", "int", "int", "int", "string", "string", "int">>)
  BY DEF IsList

LEMMA FitsTable ==
  /\ FitsList(<<>>, <<>>, 0) /\ FitsList(<<"array">>, <<>>, 0)
  /\ FitsList(<<"int">>, <<"int">>, 1) /\ FitsList(<<"uint">>, <<"uint">>, 1)
  /\ FitsList(<<"uint">>, <<"object">>, 1) /\ FitsList(<<"string">>, <<"string">>, 1)
  /\ FitsList(<<"int", "int">>, <<"int", "int">>, 2)
  /\ FitsList(<<"int", "int", "array">>, <<"int", "int">>, 2)
  /\ FitsList(<<"uint", "int">>, <<"uint", "int">>, 2)
  /\ FitsList(<<"uint", "uint">>, <<"uint", "uint">>, 2)
  /\ FitsList(<<"uint", "object">>, <<"uint", "object">>, 2)
  /\ FitsList(<<"uint", "uint", "fixed">>, <<"uint", "uint", "fixed">>, 3)
  /\ FitsList(<<"uint", "string", "uint">>, <<"uint", "string", "uint">>, 3)
  /\ FitsList(<<"uint", "fixed", "fixed">>, <<"uint", "fixed", "fixed">>, 3)
  /\ FitsList(<<"object", "uint", "string">>, <<"object", "uint", "string">>, 3)
  /\ FitsList(<<"uint", "int", "int", "int">>, <<"uint", "int", "int", "int">>, 4)
  /\ FitsList(<<"uint", "uint", "uint", "uint">>, <<"uint", "uint", "uint", "uint">>, 4)
  /\ FitsList(<<"uint", "object", "fixed", "fixed">>, <<"uint", "object", "fixed", "fixed">>, 4)
  BY DEF FitsList, Fits, IsList

\* One interface after the other: which events have a handler, and which a
\* listener.
LEMMA DisplayTable == Matches(Protocol.display, Display)
<1>1. /\ Reads(0, <<"object", "uint", "string">>, "error") \in Display.reads
      /\ Reads(1, <<"object">>, "delete_id") \in Display.reads
  BY DEF Display
<1>2. /\ Handles(Display, 0, <<"object", "uint", "string">>, "error")
      /\ Handles(Display, 1, <<"object">>, "delete_id")
  BY DEF Handles, Display, Reads
<1>3. /\ Heard(Display, "error", 3) /\ Heard(Display, "delete_id", 1)
  BY DEF Listeners, Heard, Display, Silent
<1>4. /\ Entry(Named("error", <<"object", "uint", "string">>), 0, Display)
      /\ Entry(Named("delete_id", <<"uint">>), 1, Display)
  BY <1>1, <1>2, <1>3, HeardEntry, FitsTable, Zenon
<1>5. Protocol.display = <<Named("error", <<"object", "uint", "string">>),
                           Named("delete_id", <<"uint">>)>>
  BY DEF Protocol
<1>6. QED
  BY <1>4, <1>5 DEF Matches

LEMMA RegistryTable == Matches(Protocol.registry, Registry)
<1>1. /\ Reads(0, <<"uint", "string", "uint">>, "global") \in Registry.reads
      /\ Reads(1, <<"uint">>, "global_remove") \in Registry.reads
  BY DEF Registry
<1>2. /\ Handles(Registry, 0, <<"uint", "string", "uint">>, "global")
      /\ Handles(Registry, 1, <<"uint">>, "global_remove")
  BY DEF Handles, Registry, Reads
<1>3. /\ Heard(Registry, "global", 3) /\ Heard(Registry, "global_remove", 1)
  BY DEF Listeners, Heard, Registry, Silent
<1>4. /\ Entry(Named("global", <<"uint", "string", "uint">>), 0, Registry)
      /\ Entry(Named("global_remove", <<"uint">>), 1, Registry)
  BY <1>1, <1>2, <1>3, HeardEntry, FitsTable, Zenon
<1>5. Protocol.registry = <<Named("global", <<"uint", "string", "uint">>),
                            Named("global_remove", <<"uint">>)>>
  BY DEF Protocol
<1>6. QED
  BY <1>4, <1>5 DEF Matches

LEMMA ShmTable == Matches(Protocol.shm, Shm)
<1>1. /\ Reads(0, <<"uint">>, "format") \in Shm.reads
  BY DEF Shm
<1>2. /\ Handles(Shm, 0, <<"uint">>, "format")
  BY DEF Handles, Shm, Reads
<1>3. /\ Heard(Shm, "format", 1)
  BY DEF Listeners, Heard, Shm, Silent
<1>4. /\ Entry(Named("format", <<"uint">>), 0, Shm)
  BY <1>1, <1>2, <1>3, HeardEntry, FitsTable, Zenon
<1>5. Protocol.shm = <<Named("format", <<"uint">>)>>
  BY DEF Protocol
<1>6. QED
  BY <1>4, <1>5 DEF Matches

LEMMA WmBaseTable == Matches(Protocol.wm_base, WmBase)
<1>1. /\ Reads(0, <<"uint">>, "ping") \in WmBase.reads
  BY DEF WmBase
<1>2. /\ Handles(WmBase, 0, <<"uint">>, "ping")
  BY DEF Handles, WmBase, Reads
<1>3. /\ Heard(WmBase, "ping", 1)
  BY DEF Listeners, Heard, WmBase, Silent
<1>4. /\ Entry(Named("ping", <<"uint">>), 0, WmBase)
  BY <1>1, <1>2, <1>3, HeardEntry, FitsTable, Zenon
<1>5. Protocol.wm_base = <<Named("ping", <<"uint">>)>>
  BY DEF Protocol
<1>6. QED
  BY <1>4, <1>5 DEF Matches

LEMMA XdgSurfaceTable == Matches(Protocol.xdg_surface, XdgSurface)
<1>1. /\ Reads(0, <<"uint">>, "configure") \in XdgSurface.reads
  BY DEF XdgSurface
<1>2. /\ Handles(XdgSurface, 0, <<"uint">>, "configure")
  BY DEF Handles, XdgSurface, Reads
<1>3. /\ Heard(XdgSurface, "configure", 1)
  BY DEF Listeners, Heard, XdgSurface, Silent
<1>4. /\ Entry(Named("configure", <<"uint">>), 0, XdgSurface)
  BY <1>1, <1>2, <1>3, HeardEntry, FitsTable, Zenon
<1>5. Protocol.xdg_surface = <<Named("configure", <<"uint">>)>>
  BY DEF Protocol
<1>6. QED
  BY <1>4, <1>5 DEF Matches

LEMMA ToplevelTable == Matches(Protocol.toplevel, Toplevel)
<1>1. /\ Reads(0, <<"int", "int">>, "configure") \in Toplevel.reads
      /\ Reads(1, <<>>, "close") \in Toplevel.reads
      /\ Reads(2, <<"int", "int">>, "configure_bounds") \in Toplevel.reads
      /\ Reads(3, <<>>, "wm_capabilities") \in Toplevel.reads
  BY DEF Toplevel
<1>2. /\ Handles(Toplevel, 0, <<"int", "int">>, "configure")
      /\ Handles(Toplevel, 1, <<>>, "close")
      /\ Handles(Toplevel, 2, <<"int", "int">>, "configure_bounds")
      /\ Handles(Toplevel, 3, <<>>, "wm_capabilities")
  BY DEF Handles, Toplevel, Reads
<1>3. /\ Heard(Toplevel, "configure", 2) /\ Heard(Toplevel, "close", 0)
      /\ Heard(Toplevel, "configure_bounds", 2) /\ Heard(Toplevel, "wm_capabilities", 0)
  BY DEF Listeners, Heard, Toplevel, Silent
<1>4. /\ Entry(Named("configure", <<"int", "int", "array">>), 0, Toplevel)
      /\ Entry(Named("close", <<>>), 1, Toplevel)
      /\ Entry(Named("configure_bounds", <<"int", "int">>), 2, Toplevel)
      /\ Entry(Named("wm_capabilities", <<"array">>), 3, Toplevel)
  BY <1>1, <1>2, <1>3, HeardEntry, FitsTable, Zenon
<1>5. Protocol.toplevel = <<Named("configure", <<"int", "int", "array">>), Named("close", <<>>),
                            Named("configure_bounds", <<"int", "int">>),
                            Named("wm_capabilities", <<"array">>)>>
  BY DEF Protocol
<1>6. QED
  BY <1>4, <1>5 DEF Matches

LEMMA KeyboardTable == Matches(Protocol.keyboard, Keyboard)
<1>1. /\ Reads(0, <<"uint", "uint">>, Silent) \in Keyboard.reads
      /\ Reads(3, <<"uint", "uint", "uint", "uint">>, "key") \in Keyboard.reads
  BY DEF Keyboard
<1>2. /\ Handles(Keyboard, 0, <<"uint", "uint">>, Silent) /\ Ignores(Keyboard, 1)
      /\ Ignores(Keyboard, 2) /\ Handles(Keyboard, 3, <<"uint", "uint", "uint", "uint">>, "key")
      /\ Ignores(Keyboard, 4) /\ Ignores(Keyboard, 5)
  BY DEF Handles, Ignores, Keyboard, Reads, Silent
<1>3. /\ Unheard(Keyboard, "keymap") /\ Unheard(Keyboard, "enter") /\ Unheard(Keyboard, "leave")
      /\ Heard(Keyboard, "key", 4) /\ Unheard(Keyboard, "modifiers")
      /\ Unheard(Keyboard, "repeat_info")
  BY DEF Listeners, Heard, Unheard, Keyboard, Silent
<1>4. /\ Entry(Named("keymap", <<"uint", "uint">>), 0, Keyboard)
      /\ Entry(Named("enter", <<"uint", "object", "array">>), 1, Keyboard)
      /\ Entry(Named("leave", <<"uint", "object">>), 2, Keyboard)
      /\ Entry(Named("key", <<"uint", "uint", "uint", "uint">>), 3, Keyboard)
      /\ Entry(Named("modifiers", <<"uint", "uint", "uint", "uint", "uint">>), 4, Keyboard)
      /\ Entry(Named("repeat_info", <<"int", "int">>), 5, Keyboard)
  BY <1>1, <1>2, <1>3, HeardEntry, SilentEntry, FitsTable, IgnoredEntry, ListTable, Zenon
<1>5. Protocol.keyboard = <<Named("keymap", <<"uint", "uint">>),
                            Named("enter", <<"uint", "object", "array">>),
                            Named("leave", <<"uint", "object">>),
                            Named("key", <<"uint", "uint", "uint", "uint">>),
                            Named("modifiers", <<"uint", "uint", "uint", "uint", "uint">>),
                            Named("repeat_info", <<"int", "int">>)>>
  BY DEF Protocol
<1>6. QED
  BY <1>4, <1>5 DEF Matches

LEMMA PointerTable == Matches(Protocol.pointer, Pointer)
<1>1. /\ Reads(0, <<"uint", "object", "fixed", "fixed">>, "enter") \in Pointer.reads
      /\ Reads(1, <<"uint", "object">>, "leave") \in Pointer.reads
      /\ Reads(2, <<"uint", "fixed", "fixed">>, "motion") \in Pointer.reads
      /\ Reads(3, <<"uint", "uint", "uint", "uint">>, "button") \in Pointer.reads
      /\ Reads(4, <<"uint", "uint", "fixed">>, "axis") \in Pointer.reads
      /\ Reads(5, <<>>, "frame") \in Pointer.reads
      /\ Reads(6, <<"uint">>, "axis_source") \in Pointer.reads
      /\ Reads(8, <<"uint", "int">>, "axis_discrete") \in Pointer.reads
      /\ Reads(9, <<"uint", "int">>, "axis_value120") \in Pointer.reads
      /\ Reads(10, <<"uint", "uint">>, "axis_relative_direction") \in Pointer.reads
  BY DEF Pointer
<1>2. /\ Handles(Pointer, 0, <<"uint", "object", "fixed", "fixed">>, "enter")
      /\ Handles(Pointer, 1, <<"uint", "object">>, "leave")
      /\ Handles(Pointer, 2, <<"uint", "fixed", "fixed">>, "motion")
      /\ Handles(Pointer, 3, <<"uint", "uint", "uint", "uint">>, "button")
      /\ Handles(Pointer, 4, <<"uint", "uint", "fixed">>, "axis")
      /\ Handles(Pointer, 5, <<>>, "frame") /\ Handles(Pointer, 6, <<"uint">>, "axis_source")
      /\ Ignores(Pointer, 7) /\ Handles(Pointer, 8, <<"uint", "int">>, "axis_discrete")
      /\ Handles(Pointer, 9, <<"uint", "int">>, "axis_value120")
      /\ Handles(Pointer, 10, <<"uint", "uint">>, "axis_relative_direction")
  BY DEF Handles, Ignores, Pointer, Reads
<1>3. /\ Heard(Pointer, "enter", 4) /\ Heard(Pointer, "leave", 2) /\ Heard(Pointer, "motion", 3)
      /\ Heard(Pointer, "button", 4) /\ Heard(Pointer, "axis", 3) /\ Heard(Pointer, "frame", 0)
      /\ Heard(Pointer, "axis_source", 1) /\ Unheard(Pointer, "axis_stop")
      /\ Heard(Pointer, "axis_discrete", 2) /\ Heard(Pointer, "axis_value120", 2)
      /\ Heard(Pointer, "axis_relative_direction", 2)
  BY DEF Listeners, Heard, Unheard, Pointer, Silent
<1>4. /\ Entry(Named("enter", <<"uint", "object", "fixed", "fixed">>), 0, Pointer)
      /\ Entry(Named("leave", <<"uint", "object">>), 1, Pointer)
      /\ Entry(Named("motion", <<"uint", "fixed", "fixed">>), 2, Pointer)
      /\ Entry(Named("button", <<"uint", "uint", "uint", "uint">>), 3, Pointer)
      /\ Entry(Named("axis", <<"uint", "uint", "fixed">>), 4, Pointer)
      /\ Entry(Named("frame", <<>>), 5, Pointer)
      /\ Entry(Named("axis_source", <<"uint">>), 6, Pointer)
      /\ Entry(Named("axis_stop", <<"uint", "uint">>), 7, Pointer)
      /\ Entry(Named("axis_discrete", <<"uint", "int">>), 8, Pointer)
      /\ Entry(Named("axis_value120", <<"uint", "int">>), 9, Pointer)
      /\ Entry(Named("axis_relative_direction", <<"uint", "uint">>), 10, Pointer)
  BY <1>1, <1>2, <1>3, HeardEntry, FitsTable, IgnoredEntry, ListTable, Zenon
<1>5. Protocol.pointer = <<Named("enter", <<"uint", "object", "fixed", "fixed">>),
                           Named("leave", <<"uint", "object">>),
                           Named("motion", <<"uint", "fixed", "fixed">>),
                           Named("button", <<"uint", "uint", "uint", "uint">>),
                           Named("axis", <<"uint", "uint", "fixed">>), Named("frame", <<>>),
                           Named("axis_source", <<"uint">>),
                           Named("axis_stop", <<"uint", "uint">>),
                           Named("axis_discrete", <<"uint", "int">>),
                           Named("axis_value120", <<"uint", "int">>),
                           Named("axis_relative_direction", <<"uint", "uint">>)>>
  BY DEF Protocol
<1>6. QED
  BY <1>4, <1>5 DEF Matches

LEMMA OutputTable == Matches(Protocol.output, Output)
<1>1. /\ Reads(1, <<"uint", "int", "int", "int">>, Silent) \in Output.reads
      /\ Reads(3, <<"int">>, Silent) \in Output.reads
      /\ Reads(4, <<"string">>, Silent) \in Output.reads
      /\ Reads(5, <<"string">>, Silent) \in Output.reads
  BY DEF Output
<1>2. /\ Ignores(Output, 0) /\ Handles(Output, 1, <<"uint", "int", "int", "int">>, Silent)
      /\ Ignores(Output, 2) /\ Handles(Output, 3, <<"int">>, Silent)
      /\ Handles(Output, 4, <<"string">>, Silent) /\ Handles(Output, 5, <<"string">>, Silent)
  BY DEF Handles, Ignores, Output, Reads, Silent
<1>3. /\ Unheard(Output, "geometry") /\ Unheard(Output, "mode") /\ Unheard(Output, "done")
      /\ Unheard(Output, "scale") /\ Unheard(Output, "name") /\ Unheard(Output, "description")
  BY DEF Listeners, Unheard, Output
<1>4. /\ Entry(Named("geometry",
                     <<"int", "int", "int", "int", "int", "string", "string", "int">>), 0, Output)
      /\ Entry(Named("mode", <<"uint", "int", "int", "int">>), 1, Output)
      /\ Entry(Named("done", <<>>), 2, Output) /\ Entry(Named("scale", <<"int">>), 3, Output)
      /\ Entry(Named("name", <<"string">>), 4, Output)
      /\ Entry(Named("description", <<"string">>), 5, Output)
  BY <1>1, <1>2, <1>3, SilentEntry, FitsTable, IgnoredEntry, ListTable, Zenon
<1>5. Protocol.output = <<Named("geometry",
                                <<"int", "int", "int", "int", "int", "string", "string", "int">>),
                          Named("mode", <<"uint", "int", "int", "int">>), Named("done", <<>>),
                          Named("scale", <<"int">>), Named("name", <<"string">>),
                          Named("description", <<"string">>)>>
  BY DEF Protocol
<1>6. QED
  BY <1>4, <1>5 DEF Matches

LEMMA SeatTable == Matches(Protocol.seat, Seat)
<1>1. /\ Ignores(Seat, 0) /\ Ignores(Seat, 1)
  BY DEF Ignores, Seat, Unread
<1>2. /\ Unheard(Seat, "capabilities") /\ Unheard(Seat, "name")
  BY DEF Listeners, Unheard, Seat, Unread
<1>3. /\ Entry(Named("capabilities", <<"uint">>), 0, Seat)
      /\ Entry(Named("name", <<"string">>), 1, Seat)
  BY <1>1, <1>2, IgnoredEntry, ListTable, Zenon
<1>4. Protocol.seat = <<Named("capabilities", <<"uint">>), Named("name", <<"string">>)>>
  BY DEF Protocol
<1>5. QED
  BY <1>3, <1>4 DEF Matches

LEMMA SurfaceTable == Matches(Protocol.surface, Surface)
<1>1. /\ Ignores(Surface, 0) /\ Ignores(Surface, 1) /\ Ignores(Surface, 2) /\ Ignores(Surface, 3)
  BY DEF Ignores, Surface
<1>2. /\ Unheard(Surface, "enter") /\ Unheard(Surface, "leave")
      /\ Unheard(Surface, "preferred_buffer_scale")
      /\ Unheard(Surface, "preferred_buffer_transform")
  BY DEF Listeners, Unheard, Surface
<1>3. /\ Entry(Named("enter", <<"object">>), 0, Surface)
      /\ Entry(Named("leave", <<"object">>), 1, Surface)
      /\ Entry(Named("preferred_buffer_scale", <<"int">>), 2, Surface)
      /\ Entry(Named("preferred_buffer_transform", <<"uint">>), 3, Surface)
  BY <1>1, <1>2, IgnoredEntry, ListTable, Zenon
<1>4. Protocol.surface = <<Named("enter", <<"object">>), Named("leave", <<"object">>),
                           Named("preferred_buffer_scale", <<"int">>),
                           Named("preferred_buffer_transform", <<"uint">>)>>
  BY DEF Protocol
<1>5. QED
  BY <1>3, <1>4 DEF Matches

LEMMA BufferTable == Matches(Protocol.buffer, Buffer)
<1>1. /\ Ignores(Buffer, 0)
  BY DEF Ignores, Buffer, Unread
<1>2. /\ Unheard(Buffer, "release")
  BY DEF Listeners, Unheard, Buffer, Unread
<1>3. /\ Entry(Named("release", <<>>), 0, Buffer)
  BY <1>1, <1>2, IgnoredEntry, ListTable, Zenon
<1>4. Protocol.buffer = <<Named("release", <<>>)>>
  BY DEF Protocol
<1>5. QED
  BY <1>3, <1>4 DEF Matches

LEMMA DmabufTable == Matches(Protocol.dmabuf, Dmabuf)
<1>1. /\ Ignores(Dmabuf, 0) /\ Ignores(Dmabuf, 1)
  BY DEF Ignores, Dmabuf, Unread
<1>2. /\ Unheard(Dmabuf, "format") /\ Unheard(Dmabuf, "modifier")
  BY DEF Listeners, Unheard, Dmabuf, Unread
<1>3. /\ Entry(Named("format", <<"uint">>), 0, Dmabuf)
      /\ Entry(Named("modifier", <<"uint", "uint", "uint">>), 1, Dmabuf)
  BY <1>1, <1>2, IgnoredEntry, ListTable, Zenon
<1>4. Protocol.dmabuf = <<Named("format", <<"uint">>),
                          Named("modifier", <<"uint", "uint", "uint">>)>>
  BY DEF Protocol
<1>5. QED
  BY <1>3, <1>4 DEF Matches

LEMMA FeedbackTable == Matches(Protocol.feedback, Feedback)
<1>1. /\ Ignores(Feedback, 0) /\ Ignores(Feedback, 1) /\ Ignores(Feedback, 2)
      /\ Ignores(Feedback, 3) /\ Ignores(Feedback, 4) /\ Ignores(Feedback, 5)
      /\ Ignores(Feedback, 6)
  BY DEF Ignores, Feedback, Unread
<1>2. /\ Unheard(Feedback, "done") /\ Unheard(Feedback, "format_table")
      /\ Unheard(Feedback, "main_device") /\ Unheard(Feedback, "tranche_done")
      /\ Unheard(Feedback, "tranche_target_device") /\ Unheard(Feedback, "tranche_formats")
      /\ Unheard(Feedback, "tranche_flags")
  BY DEF Listeners, Unheard, Feedback, Unread
<1>3. /\ Entry(Named("done", <<>>), 0, Feedback)
      /\ Entry(Named("format_table", <<"uint">>), 1, Feedback)
      /\ Entry(Named("main_device", <<"array">>), 2, Feedback)
      /\ Entry(Named("tranche_done", <<>>), 3, Feedback)
      /\ Entry(Named("tranche_target_device", <<"array">>), 4, Feedback)
      /\ Entry(Named("tranche_formats", <<"array">>), 5, Feedback)
      /\ Entry(Named("tranche_flags", <<"uint">>), 6, Feedback)
  BY <1>1, <1>2, IgnoredEntry, ListTable, Zenon
<1>4. Protocol.feedback = <<Named("done", <<>>), Named("format_table", <<"uint">>),
                            Named("main_device", <<"array">>), Named("tranche_done", <<>>),
                            Named("tranche_target_device", <<"array">>),
                            Named("tranche_formats", <<"array">>),
                            Named("tranche_flags", <<"uint">>)>>
  BY DEF Protocol
<1>5. QED
  BY <1>3, <1>4 DEF Matches

\* All of them.
LEMMA TableLemma ==
  ASSUME NEW interface \in DOMAIN Protocol
  PROVE  Matches(Protocol[interface], Client[interface])
<1>1. interface \in {"display", "registry", "shm", "wm_base", "xdg_surface", "toplevel", "keyboard",
                     "pointer", "output", "seat", "surface", "buffer", "dmabuf", "feedback"}
  BY DEF Protocol
<1>2. /\ Client.display = Display /\ Client.registry = Registry /\ Client.shm = Shm
      /\ Client.wm_base = WmBase /\ Client.xdg_surface = XdgSurface
      /\ Client.toplevel = Toplevel /\ Client.keyboard = Keyboard /\ Client.pointer = Pointer
      /\ Client.output = Output /\ Client.seat = Seat /\ Client.surface = Surface
      /\ Client.buffer = Buffer /\ Client.dmabuf = Dmabuf /\ Client.feedback = Feedback
  BY DEF Client
<1>3. QED
  BY <1>1, <1>2, DisplayTable, RegistryTable, ShmTable, WmBaseTable, XdgSurfaceTable,
     ToplevelTable, KeyboardTable, PointerTable, OutputTable, SeatTable, SurfaceTable,
     BufferTable, DmabufTable, FeedbackTable, Zenon

\* Every interface has a number of its own.
LEMMA IdLemma ==
  /\ DOMAIN Id = DOMAIN Protocol
  /\ \A interface \in DOMAIN Id : Id[interface] \in Int
  /\ \A i, j \in DOMAIN Id : Id[i] = Id[j] => i = j
  BY DEF Id, Protocol

-----------------------------------------------------------------------------
(* The words of an argument, and how the reader comes past them.           *)

\* Strings whose words a reader counts as the compositor did.
StringsFit == StringSizes \subseteq 1 .. UINT16_MOD

\* A string is its size and its words, and a number is one word.
LEMMA MarshalLemma ==
  ASSUME StringsFit, NEW n \in Nat, NEW k \in Nat, NEW type, NEW arg \in Values(n, k, type)
  PROVE  /\ Marshal(type, arg) \in Seq(Word)
         /\ type = "string" =>
              LET words == (arg.size + 3) \div 4
              IN /\ arg.size \in 1 .. UINT16_MOD /\ words \in Nat \ {0}
                 /\ Len(Marshal(type, arg)) = 1 + words
                 /\ Marshal(type, arg)[1].value = arg.size
                 /\ \A j \in 1 .. words : Marshal(type, arg)[1 + j] = Chunk(arg.value, j)
         /\ type \notin {"string", "array"} =>
              arg.size = 0 /\ Marshal(type, arg) = <<Number(arg.value)>>
<1>1. arg \in Value
  BY ValuesLemma
<1>2. arg.value \in Int /\ arg.size \in Nat
  BY <1>1 DEF Value
<1>3. (arg.size + 3) \div 4 \in Nat
  BY <1>2
<1> DEFINE words == (arg.size + 3) \div 4
           chunks == [j \in 1 .. words |-> Chunk(arg.value, j)]
<1>4. CASE type \in {"string", "array"}
  <2>1. Marshal(type, arg) = <<Number(arg.size)>> \o chunks
    BY <1>4 DEF Marshal
  <2>2. <<Number(arg.size)>> \in Seq(Word) /\ Number(arg.size).value = arg.size
    BY <1>2 DEF Number, Word
  <2>3. ASSUME NEW j \in 1 .. words PROVE Chunk(arg.value, j) \in Word
    BY <1>2, <1>3 DEF Chunk, Word
  <2>4. /\ chunks \in Seq(Word) /\ Len(chunks) = words
        /\ \A j \in 1 .. words : chunks[j] = Chunk(arg.value, j)
    <3> HIDE DEF words
    <3>1. words \in Nat
      BY <1>3 DEF words
    <3>2. QED
      BY <2>3, <3>1
  <2> HIDE DEF chunks
  <2>5. /\ Marshal(type, arg) \in Seq(Word)
        /\ Len(Marshal(type, arg)) = 1 + words
        /\ Marshal(type, arg)[1] = Number(arg.size)
        /\ \A j \in 1 .. words : Marshal(type, arg)[1 + j] = chunks[j]
    <3> HIDE DEF words
    <3>1. words \in Nat
      BY <1>3 DEF words
    <3>2. QED
      BY <2>1, <2>2, <2>4, <3>1
  <2>6. type = "string" => arg.size \in 1 .. UINT16_MOD
    BY DEF Values, StringsFit
  <2>7. arg.size \in 1 .. UINT16_MOD => words \in Nat \ {0}
    BY StringWords
  <2>8. QED
    BY <1>4, <2>2, <2>4, <2>5, <2>6, <2>7
<1>5. CASE type \notin {"string", "array"}
  <2>1. Marshal(type, arg) = <<Number(arg.value)>>
    BY <1>5 DEF Marshal
  <2>2. <<Number(arg.value)>> \in Seq(Word)
    BY <1>2 DEF Number, Word
  <2>3. arg.size = 0
    BY <1>5 DEF Values
  <2>4. QED
    BY <1>5, <2>1, <2>2, <2>3
<1>6. QED
  BY <1>4, <1>5

\* The page goes on with these words after those.
Follows(a, b) == \E c \in Seq(Word) : batch = (a \o b) \o c

\* A reader that has come to the end of some words.
At(a, args) == [cursor |-> Len(a) + 1, args |-> args]

\* Where an argument is as it was sent, it is read as it was.
LEMMA ReadLemma ==
  ASSUME StringsFit, NEW n \in Nat, NEW k \in Nat, NEW type, type # "array",
         NEW arg \in Values(n, k, type),
         NEW a \in Seq(Word), Follows(a, Marshal(type, arg)), NEW args,
         NEW read, (read = "string") <=> (type = "string")
  PROVE  Read(At(a, args), read) = At(a \o Marshal(type, arg), Append(args, arg))
<1> DEFINE b == Marshal(type, arg)
           reader == At(a, args)
<1>1. arg.value \in Int /\ arg.size \in Nat /\ arg = [value |-> arg.value, size |-> arg.size]
  BY ValuesLemma DEF Value
<1>2. b \in Seq(Word)
  BY MarshalLemma
<1>3. \A j \in 1 .. Len(b) : WordAt(Len(a) + j) = b[j]
  <2>1. PICK c \in Seq(Word) : batch = (a \o b) \o c
    BY Zenon DEF Follows, b
  <2> HIDE DEF b
  <2>2. \A j \in 1 .. Len(b) : /\ Len(a) + j \in DOMAIN ((a \o b) \o c)
                               /\ ((a \o b) \o c)[Len(a) + j] = b[j]
    BY <1>2, MiddleLemma, Zenon
  <2>3. QED
    BY <2>1, <2>2, Zenon DEF WordAt
<1>4. reader.cursor = Len(a) + 1 /\ reader.args = args
  BY DEF At
<1> HIDE DEF reader
<1>5. Len(a \o b) = Len(a) + Len(b) /\ Len(a) \in Nat
  <2> HIDE DEF b
  <2>1. QED
    BY <1>2
<1>6. CASE type = "string"
  <2> DEFINE words == (arg.size + 3) \div 4
  <2>1. /\ arg.size \in 1 .. UINT16_MOD /\ words \in Nat \ {0}
        /\ Len(b) = 1 + words /\ b[1].value = arg.size
        /\ \A j \in 1 .. words : b[1 + j] = Chunk(arg.value, j)
    BY <1>6, MarshalLemma
  <2>2. word_size(arg.size) = words /\ serialised_size(arg.size) \div WL_WORD_SIZE = 1 + words
    BY <2>1, StringWords
  <2> HIDE DEF b, words
  <2>3. WordAt(reader.cursor) = b[1] /\ \A j \in 1 .. words : WordAt(reader.cursor + j) = b[1 + j]
    <3>1. 1 \in 1 .. Len(b) /\ \A j \in 1 .. words : 1 + j \in 1 .. Len(b)
      BY <2>1
    <3>2. \A j \in 1 .. words : (Len(a) + 1) + j = Len(a) + (1 + j)
      BY <1>5, <2>1
    <3>3. QED
      BY <1>3, <1>4, <3>1, <3>2
  <2>4. WordAt(reader.cursor + 1).value = arg.value
    <3>1. 1 \in 1 .. words
      BY <2>1
    <3>2. WordAt(reader.cursor + 1) = Chunk(arg.value, 1)
      BY <2>1, <2>3, <3>1, Zenon
    <3>3. QED
      BY <3>2 DEF Chunk
  <2>5. ReadString(reader) = [cursor |-> reader.cursor + (1 + words),
                              args |-> Append(reader.args,
                                              [value |-> arg.value, size |-> arg.size])]
    <3>1. WordAt(reader.cursor).value = arg.size
      BY <2>1, <2>3
    <3>2. \A j \in 1 .. words : WordAt(reader.cursor + j) = Chunk(arg.value, j)
      BY <2>1, <2>3
    <3>3. QED
      BY <2>2, <2>4, <3>1, <3>2, Zenon DEF ReadString
  <2>6. reader.cursor + (1 + words) = Len(a \o b) + 1
    BY <1>4, <1>5, <2>1
  <2>7. QED
    BY <1>1, <1>4, <1>6, <2>5, <2>6, Zenon DEF Read, b, At, reader
<1>7. CASE type # "string"
  <2>1. b = <<Number(arg.value)>> /\ arg.size = 0
    BY <1>7, MarshalLemma
  <2>2. Len(b) = 1 /\ b[1] = Number(arg.value)
    BY <2>1
  <2> HIDE DEF b
  <2>3. WordAt(reader.cursor) = Number(arg.value)
    BY <1>3, <1>4, <2>2
  <2>4. WordAt(reader.cursor).value = arg.value
    BY <2>3 DEF Number
  <2>5. reader.cursor + 1 = Len(a \o b) + 1
    BY <1>4, <1>5, <2>2
  <2>6. QED
    BY <1>1, <1>4, <1>7, <2>1, <2>4, <2>5, Zenon DEF Read, ReadWord, b, At, reader
<1>8. QED
  BY <1>6, <1>7

-----------------------------------------------------------------------------
(* The words of an event.                                                  *)

\* Arguments of these types, of the n-th event.
Typed(types, n, args) ==
  /\ Len(types) \in Nat /\ DOMAIN types = 1 .. Len(types)
  /\ args \in Seq(Value) /\ Len(args) = Len(types) /\ DOMAIN args = 1 .. Len(types)
  /\ \A k \in 1 .. Len(types) : args[k] \in Values(n, k, types[k])

\* The payload up to its k-th argument.
PayloadSteps(h, types, args) ==
  /\ h \in [0 .. Len(types) -> Seq(Word)]
  /\ h[0] = <<>> /\ h[Len(types)] = Payload(types, args)
  /\ \A k \in 1 .. Len(types) : h[k] = h[k - 1] \o Marshal(types[k], args[k])
  /\ \A k \in 0 .. Len(types) : \E c \in Seq(Word) : Payload(types, args) = h[k] \o c

LEMMA PayloadLemma ==
  ASSUME StringsFit, NEW n \in Nat, NEW types, NEW args, Typed(types, n, args)
  PROVE  \E h : PayloadSteps(h, types, args)
<1> DEFINE m == Len(types)
           seqs == [k \in DOMAIN args |-> Marshal(types[k], args[k])]
<1>1. m \in Nat /\ DOMAIN seqs = 1 .. m /\ Len(seqs) = m
  BY DEF Typed
<1>2. \A k \in 1 .. m : seqs[k] = Marshal(types[k], args[k]) /\ seqs[k] \in Seq(Word)
  <2>1. ASSUME NEW k \in 1 .. m PROVE Marshal(types[k], args[k]) \in Seq(Word)
    <3>1. args[k] \in Values(n, k, types[k]) /\ k \in Nat
      BY DEF Typed
    <3>2. QED
      BY <3>1, MarshalLemma, Zenon
  <2>2. QED
    BY <2>1 DEF Typed
<1>3. m = 0 => seqs = <<>>
  BY <1>1
<1>4. Payload(types, args) = FlattenSeq(seqs)
  BY Zenon DEF Payload
<1> HIDE DEF m, seqs
<1>5. PICK h : Joined(h, seqs, m) /\ h[m] = FlattenSeq(seqs)
  BY <1>1, <1>2, <1>3, FlattenSteps, Zenon
<1>6. /\ h \in [0 .. m -> Seq(Word)] /\ h[0] = <<>> /\ h[m] = FlattenSeq(seqs)
      /\ \A k \in 1 .. m : h[k] = h[k - 1] \o seqs[k]
  BY <1>5, Zenon DEF Joined
<1> DEFINE T == {j \in Nat : j <= m => \E c \in Seq(Word) : h[m] = h[m - j] \o c}
<1>7. 0 \in T
  <2>1. h[m] \in Seq(Word) /\ m - 0 = m /\ <<>> \in Seq(Word)
    BY <1>1, <1>6
  <2>2. h[m] = h[m] \o <<>>
    BY <2>1
  <2>3. QED
    BY <2>1, <2>2
<1>8. ASSUME NEW j \in Nat, j \in T PROVE j + 1 \in T
  <2>1. SUFFICES ASSUME j + 1 <= m PROVE \E c \in Seq(Word) : h[m] = h[m - (j + 1)] \o c
    OBVIOUS
  <2>2. /\ m - j \in 1 .. m /\ m - (j + 1) = (m - j) - 1 /\ m - (j + 1) \in 0 .. m
        /\ m - j \in 0 .. m /\ j <= m
    BY <1>1, <2>1
  <2>3. PICK c \in Seq(Word) : h[m] = h[m - j] \o c
    BY <1>8, <2>2
  <2>4. PICK k \in 1 .. m : k = m - j
    BY <2>2
  <2>5. h[k] = h[k - 1] \o seqs[k] /\ seqs[k] \in Seq(Word) /\ h[k - 1] \in Seq(Word)
    BY <1>2, <1>6, <2>2, <2>4
  <2>6. h[m] = h[k - 1] \o (seqs[k] \o c) /\ seqs[k] \o c \in Seq(Word)
    <3>1. h[m] = (h[k - 1] \o seqs[k]) \o c
      BY <2>3, <2>4, <2>5, Zenon
    <3>2. Rejoined(h[k - 1], seqs[k], c) /\ seqs[k] \o c \in Seq(Word)
      BY <2>3, <2>5, JoinLemma, RejoinLemma, Zenon
    <3>3. QED
      BY <3>1, <3>2, Zenon DEF Rejoined
  <2>7. QED
    BY <2>2, <2>4, <2>6
<1> HIDE DEF T
<1>9. ASSUME NEW k \in 0 .. m PROVE \E c \in Seq(Word) : h[m] = h[k] \o c
  <2>1. m - k \in Nat /\ m - k <= m /\ m - (m - k) = k
    BY <1>1
  <2>2. m - k \in T
    BY <1>7, <1>8, <2>1, SetInduction
  <2>3. QED
    BY <2>1, <2>2 DEF T
<1>10. QED
  BY <1>2, <1>4, <1>6, <1>9 DEF PayloadSteps, m

\* The reader before the first argument.
Readers == [cursor : Int, args : Seq([value : Int, size : Int])]
Start == [cursor |-> 3, args |-> <<>>]

\* A reader that has read one more is a reader.
LEMMA ReadersLemma ==
  ASSUME batch \in Seq(Word), NEW reader \in Readers, NEW type
  PROVE  Read(reader, type) \in Readers
<1>1. \A cursor \in Int : WordAt(cursor).value \in Int
  <2>1. Junk \in Word /\ \A word \in Word : word.value \in Int
    BY DEF Junk, Number, Word
  <2>2. \A cursor \in Int : WordAt(cursor) \in Word
    <3> HIDE DEF Word
    <3>1. QED
      BY <2>1 DEF WordAt
  <2>3. QED
    BY <2>1, <2>2, Zenon
<1>2. reader.cursor \in Int /\ reader.args \in Seq([value : Int, size : Int])
  BY DEF Readers
<1>3. ReadWord(reader) \in Readers
  <2>1. [value |-> WordAt(reader.cursor).value, size |-> 0] \in [value : Int, size : Int]
    BY <1>1, <1>2
  <2>2. Append(reader.args, [value |-> WordAt(reader.cursor).value, size |-> 0])
          \in Seq([value : Int, size : Int])
    BY <1>2, <2>1, AppendProperties
  <2>3. reader.cursor + 1 \in Int
    BY <1>2
  <2>4. QED
    BY <2>2, <2>3 DEF ReadWord, Readers
<1>4. ReadString(reader) \in Readers
  <2> DEFINE size == WordAt(reader.cursor).value
             first == WordAt(reader.cursor + 1)
             whole == \A k \in 1 .. word_size(size) :
                        WordAt(reader.cursor + k) = Chunk(first.value, k)
             arg == [value |-> IF whole THEN first.value ELSE 0, size |-> size]
             next == reader.cursor + serialised_size(size) \div WL_WORD_SIZE
  <2>1. size \in Int /\ first.value \in Int
    BY <1>1, <1>2
  <2>2. arg \in [value : Int, size : Int]
    <3> HIDE DEF whole, size, first
    <3>1. QED
      BY <2>1
  <2>3. serialised_size(size) \div WL_WORD_SIZE \in Int
    <3>1. \A i \in Int, m \in Nat : m > 0 => i % m \in Int
      OBVIOUS
    <3>2. UINT_MOD \in Nat /\ UINT_MOD > 0
      BY WideLemma
    <3> HIDE DEF size
    <3>3. (size - 1) % UINT_MOD \in Int
      BY <2>1, <3>1, <3>2
    <3>4. wl_align(size) \in Int
      BY <3>1, <3>2, <3>3 DEF wl_align, WL_WORD_SIZE
    <3>5. QED
      BY <3>4 DEF serialised_size, WL_WORD_SIZE
  <2>4. next \in Int
    BY <1>2, <2>3
  <2>5. Append(reader.args, arg) \in Seq([value : Int, size : Int])
    <3> HIDE DEF arg
    <3>1. QED
      BY <1>2, <2>2, AppendProperties
  <2>6. ReadString(reader) = [cursor |-> next, args |-> Append(reader.args, arg)]
    BY Zenon DEF ReadString
  <2> HIDE DEF next, arg
  <2>7. QED
    BY <2>4, <2>5, <2>6 DEF Readers
<1>5. QED
  BY <1>3, <1>4 DEF Read

ReadsFirst(types, args, read) ==
  LET reader == FoldLeft(Read, Start, read)
  IN /\ reader.args = SubSeq(args, 1, Len(read))
     /\ reader.cursor \in Int /\ reader.cursor <= Len(Payload(types, args)) + 3

\* What a handler reads of a message in the page are the arguments of the event.
LEMMA ReaderLemma ==
  ASSUME StringsFit, NEW n \in Nat, NEW types, NEW args, Typed(types, n, args),
         NEW read, Fits(types, read),
         NEW first \in Seq(Word), Len(first) = 2, NEW later \in Seq(Word),
         batch = (first \o Payload(types, args)) \o later
  PROVE  ReadsFirst(types, args, read)
<1> DEFINE p == Len(read)
           X == Readers
           step == [xk \in X \X (1 .. p) |-> Read(xk[1], read[xk[2]])]
           Is(f) == f = [s \in SUBSET DOMAIN read |->
                           IF s = {} THEN Start ELSE Read(f[s \ {Max(s)}], read[Max(s)])]
           f == CHOOSE g : Is(g)
           m == Len(types)
           payload == Payload(types, args)
<1>1. /\ m \in Nat /\ p \in 0 .. m /\ p \in Nat /\ DOMAIN read = 1 .. p
      /\ \A k \in 1 .. p : /\ types[k] # "array" /\ k \in 1 .. m
                           /\ (read[k] = "string") <=> (types[k] = "string")
  BY DEF Fits, Typed
<1>2. PICK h : PayloadSteps(h, types, args)
  BY PayloadLemma, Zenon
<1>3. /\ h \in [0 .. m -> Seq(Word)] /\ h[0] = <<>> /\ h[m] = payload
      /\ \A k \in 1 .. m : h[k] = h[k - 1] \o Marshal(types[k], args[k])
      /\ \A k \in 0 .. m : \E c \in Seq(Word) : payload = h[k] \o c
  BY <1>2, Zenon DEF PayloadSteps
<1>4. payload \in Seq(Word)
  <2> HIDE DEF m, payload
  <2>1. QED
    BY <1>1, <1>3
<1>5. /\ args \in Seq(Value) /\ Len(args) = m /\ DOMAIN args = 1 .. m
      /\ \A k \in 1 .. m : args[k] \in Values(n, k, types[k])
  BY DEF Typed
<1>6. batch \in Seq(Word)
  BY <1>4, JoinLemma
<1> HIDE DEF p, m, payload
<1>7. \A x \in X, k \in 1 .. p : Read(x, read[k]) \in X /\ step[<<x, k>>] = Read(x, read[k])
  BY <1>6, ReadersLemma
<1>8. IsStep(step, X, p)
  BY <1>7 DEF IsStep
<1>9. Start \in X
  BY DEF Start, Readers
<1>10. FoldLeft(Read, Start, read) = f[1 .. p]
  <2>1. FoldLeft(Read, Start, read) = f[DOMAIN read]
    BY Zenon DEF FoldLeft, MapThenFoldSet
  <2>2. QED
    BY <1>1, <2>1, Zenon
<1>11. \A s \in SUBSET (1 .. p) : s # {} => Max(s) \in 1 .. p /\ s \ {Max(s)} \in SUBSET (1 .. p)
  BY <1>1, LargestLemma
<1> HIDE DEF X, step
<1>12. Is(f)
  <2>1. PICK g : IsFold(g, Start, step, X, p)
    BY <1>1, <1>8, <1>9, FoldExists, Zenon
  <2>2. \A s \in SUBSET (1 .. p) :
          g[s] = IF s = {} THEN Start ELSE Read(g[s \ {Max(s)}], read[Max(s)])
    <3>1. ASSUME NEW s \in SUBSET (1 .. p), s # {}
          PROVE  g[s] = Read(g[s \ {Max(s)}], read[Max(s)])
      <4>1. /\ g[s] = step[<<g[s \ {Max(s)}], Max(s)>>]
            /\ Max(s) \in 1 .. p /\ s \ {Max(s)} \in SUBSET (1 .. p)
        BY <1>11, <2>1, <3>1, Zenon DEF IsFold
      <4>2. g[s \ {Max(s)}] \in X
        BY <2>1, <4>1 DEF IsFold
      <4>3. QED
        BY <1>7, <4>1, <4>2, Zenon
    <3>2. QED
      BY <2>1, <3>1, Zenon DEF IsFold
  <2>3. g = [s \in SUBSET (1 .. p) |-> g[s]]
    BY <2>1 DEF IsFold
  <2>4. Is(g)
    BY <1>1, <2>2, <2>3, Zenon
  <2> HIDE DEF Is
  <2>5. QED
    BY <2>4, Zenon
<1> HIDE DEF f
<1>13. Folds(f, Start, step, X, p)
  <2>1. {} \in SUBSET (1 .. p)
    OBVIOUS
  <2>2. f[{}] = Start
    BY <1>1, <1>12, <2>1, Zenon
  <2>3. ASSUME NEW s \in SUBSET (1 .. p), s # {}, f[s \ {Max(s)}] \in X
        PROVE  f[s] = step[<<f[s \ {Max(s)}], Max(s)>>]
    <3>1. f[s] = Read(f[s \ {Max(s)}], read[Max(s)])
      BY <1>1, <1>12, <2>3, Zenon
    <3>2. QED
      BY <1>7, <1>11, <2>3, <3>1, Zenon
  <2>4. QED
    BY <2>2, <2>3, Zenon DEF Folds
<1>14. PICK r : Steps(r, Start, step, X, p) /\ r[p] = f[1 .. p]
  BY <1>1, <1>8, <1>9, <1>13, FoldSteps
<1> DEFINE Now(k) == At(first \o h[k], SubSeq(args, 1, k))
           T == {k \in Nat : k <= p => r[k] = Now(k)}
<1>15. 0 \in T
  <2>1. first \o h[0] = first
    BY <1>3, ConcatEmptySeq
  <2>2. SubSeq(args, 1, 0) = <<>>
    BY <1>5
  <2>3. r[0] = Start
    BY <1>14 DEF Steps
  <2>4. QED
    <3>1. Now(0) = [cursor |-> 3, args |-> <<>>]
      <4>1. Len(first) + 1 = 3
        OBVIOUS
      <4>2. QED
        BY <2>1, <2>2, <4>1, Zenon DEF At
    <3>2. QED
      BY <2>3, <3>1, Zenon DEF Start
<1>16. ASSUME NEW k \in Nat, k \in T PROVE k + 1 \in T
  <2>1. SUFFICES ASSUME k + 1 <= p PROVE r[k + 1] = Now(k + 1)
    <3> HIDE DEF At
    <3>1. QED
      OBVIOUS
  <2>2. PICK j \in 1 .. p : j = k + 1
    BY <1>1, <2>1
  <2>3. /\ j - 1 = k /\ k <= p /\ j \in 1 .. m /\ k \in 0 .. m
        /\ j \in Nat /\ j \in 0 .. m /\ k \in 0 .. p
    BY <1>1, <2>2
  <2>4. r[k] = Now(k)
    BY <1>16, <2>3
  <2>5. r[j] = Read(r[k], read[j])
    <3>1. r[j] = step[<<r[k], j>>] /\ r[k] \in X
      BY <1>14, <2>2, <2>3 DEF Steps
    <3>2. QED
      BY <1>7, <3>1, Zenon
  <2> DEFINE b == Marshal(types[j], args[j])
  <2>6. h[j] = h[j - 1] \o Marshal(types[j], args[j])
    BY <1>3, <2>3, Zenon
  <2>7. /\ h[j] = h[k] \o b /\ h[k] \in Seq(Word) /\ h[j] \in Seq(Word)
        /\ args[j] \in Values(n, j, types[j])
    BY <1>3, <1>5, <2>3, <2>6
  <2>8. b \in Seq(Word)
    BY <2>3, <2>7, MarshalLemma, Zenon
  <2>9. PICK c \in Seq(Word) : payload = h[j] \o c
    BY <1>3, <2>3
  <2> HIDE DEF b
  <2>10. PICK a \in Seq(Word), w \in Seq(Word), v \in Seq(Word), u \in Seq(Word) :
               /\ a = h[k] /\ w = h[j] /\ v = first \o h[j] /\ u = first \o h[k]
    BY <2>7, JoinLemma
  <2>11. v = u \o b /\ Follows(u, b)
    <3>1. Rejoined(first, a, b) /\ Rejoined(first, w, c) /\ Rejoined(v, c, later)
      BY <2>8, RejoinLemma, Zenon
    <3>2. v = u \o b
      BY <2>7, <2>10, <3>1, Zenon DEF Rejoined
    <3>3. batch = (first \o (w \o c)) \o later
      BY <2>9, <2>10, Zenon DEF payload
    <3>4. batch = (u \o b) \o (c \o later)
      BY <2>10, <3>1, <3>2, <3>3, Zenon DEF Rejoined
    <3>5. c \o later \in Seq(Word)
      BY JoinLemma, Zenon
    <3>6. QED
      BY <3>2, <3>4, <3>5, Zenon DEF Follows
  <2>12. Read(r[k], read[j]) = At(v, Append(SubSeq(args, 1, k), args[j]))
    <3>1. PICK arg, type, now, it :
            arg = args[j] /\ type = types[j] /\ now = SubSeq(args, 1, k) /\ it = read[j]
      OBVIOUS
    <3>2. /\ arg \in Values(n, j, type) /\ type # "array" /\ j \in Nat
          /\ ((it = "string") <=> (type = "string")) /\ Follows(u, Marshal(type, arg))
      BY <1>1, <2>3, <2>7, <2>11, <3>1, Zenon DEF b
    <3>3. Read(At(u, now), it) = At(u \o Marshal(type, arg), Append(now, arg))
      BY <3>2, ReadLemma
    <3>4. QED
      BY <2>4, <2>10, <2>11, <3>1, <3>3, Zenon DEF b
  <2>13. SubSeq(args, 1, j) = Append(SubSeq(args, 1, k), args[j])
    <3> HIDE DEF Value
    <3>1. QED
      BY <1>5, <2>3, SMTT(30)
  <2>14. QED
    BY <2>2, <2>5, <2>10, <2>12, <2>13, Zenon
<1> HIDE DEF T
<1>17. r[p] = Now(p)
  <2>1. p \in T /\ p <= p
    <3>1. Nat \subseteq T
      BY <1>15, <1>16, SetInduction, Zenon
    <3>2. QED
      BY <1>1, <3>1
  <2>2. QED
    BY <2>1, Zenon DEF T
<1>18. Len(first \o h[p]) + 1 \in Int /\ Len(first \o h[p]) + 1 <= Len(payload) + 3
  <2>1. PICK c \in Seq(Word) : payload = h[p] \o c
    BY <1>1, <1>3
  <2>2. PICK a \in Seq(Word) : a = h[p]
    BY <1>1, <1>3
  <2>3. payload = a \o c
    BY <2>1, <2>2, Zenon
  <2> HIDE DEF payload
  <2>4. /\ Len(first \o a) = 2 + Len(a) /\ Len(payload) = Len(a) + Len(c)
        /\ Len(a) \in Nat /\ Len(c) \in Nat
    <3>1. /\ Len(first \o a) = Len(first) + Len(a) /\ Len(a \o c) = Len(a) + Len(c)
          /\ Len(a) \in Nat /\ Len(c) \in Nat
      BY ConcatProperties, LenProperties
    <3>2. QED
      BY <2>3, <3>1
  <2>5. QED
    BY <2>2, <2>4
<1>19. FoldLeft(Read, Start, read) = Now(p)
  BY <1>10, <1>14, <1>17, Zenon
<1>20. Now(p).args = SubSeq(args, 1, p) /\ Now(p).cursor = Len(first \o h[p]) + 1
  BY DEF At
<1>21. QED
  BY <1>18, <1>19, <1>20, Zenon DEF p, payload, ReadsFirst

-----------------------------------------------------------------------------
(* Events.                                                                 *)

\* An event that the compositor may send.
IsEvent(interface, opcode, args) ==
  /\ interface \in Interfaces /\ opcode \in Opcodes(interface)
  /\ \E n \in 1 .. MaxEvents : args \in ArgsOf(n, interface, opcode)

\* Its header, all of its words, and the calls it is for.
HeaderOf(interface, opcode, args) ==
  <<Number(Id[interface]), Number(PackHeader(EventSize(interface, opcode, args), opcode))>>
WordsOf(interface, opcode, args) ==
  HeaderOf(interface, opcode, args) \o PayloadOf(interface, opcode, args)
CallsOf(interface, opcode, args) == SetToSeq(CallsFor(interface, opcode, args))

\* What is assumed of sizes.
EventsFit ==
  /\ StringsFit
  /\ \A interface, opcode, args :
       IsEvent(interface, opcode, args) => EventSize(interface, opcode, args) < UINT16_MOD

LEMMA FitLemma == EventsFit
  BY SizesAssumption DEF SizesFit, EventsFit, StringsFit, IsEvent

\* Of one call, and of none, SetToSeq makes what it should.
LEMMA SequenceOfOne ==
  ASSUME NEW x
  PROVE  SetToSeq({}) = <<>> /\ SetToSeq({x}) = <<x>>
<1>1. Cardinality({}) = 0 /\ Cardinality({x}) = 1
  BY FS_EmptySet, FS_Singleton
<1>2. SetToSeq({}) = <<>>
  <2>1. \A f \in [1 .. 0 -> {}] : f = <<>>
    OBVIOUS
  <2>2. <<>> \in [1 .. 0 -> {}] /\ IsInjective(<<>>)
    BY DEF IsInjective
  <2>3. QED
    BY <1>1, <2>1, <2>2, Zenon DEF SetToSeq
<1>3. SetToSeq({x}) = <<x>>
  <2>1. \A f \in [1 .. 1 -> {x}] : f = <<x>>
    OBVIOUS
  <2>2. <<x>> \in [1 .. 1 -> {x}] /\ IsInjective(<<x>>)
    BY DEF IsInjective
  <2>3. QED
    BY <1>1, <2>1, <2>2, Zenon DEF SetToSeq
<1>4. QED
  BY <1>2, <1>3

\* What the tables say of an event.
LEMMA EventLemma ==
  ASSUME NEW interface, NEW opcode, NEW args, IsEvent(interface, opcode, args)
  PROVE  /\ interface \in DOMAIN Protocol /\ opcode \in 0 .. 10
         /\ Entry(Protocol[interface][opcode + 1], opcode, Client[interface])
         /\ \E n \in Nat : Typed(Types(interface, opcode), n, args)
<1>1. interface \in DOMAIN Protocol
  BY EventWireAssumption DEF IsEvent
<1>2. Matches(Protocol[interface], Client[interface])
  BY <1>1, TableLemma
<1>3. opcode \in 0 .. (Len(Protocol[interface]) - 1)
  BY DEF IsEvent, Opcodes
<1>4. opcode \in 0 .. 10 /\ Entry(Protocol[interface][opcode + 1], opcode, Client[interface])
  <2>1. PICK m \in 1 .. 11 : m = Len(Protocol[interface])
    BY <1>2, Zenon DEF Matches
  <2>2. opcode \in 0 .. (m - 1)
    BY <1>3, <2>1, Zenon
  <2>3. Entry(Protocol[interface][opcode + 1], opcode, Client[interface])
    BY <1>2, <1>3, Zenon DEF Matches
  <2>4. QED
    BY <2>2, <2>3
<1>5. IsList(Types(interface, opcode))
  BY <1>4 DEF Entry, Types
<1>6. PICK n \in 1 .. MaxEvents : args \in ArgsOf(n, interface, opcode)
  BY DEF IsEvent
<1>7. PICK m \in Nat : m = Len(Types(interface, opcode)) /\ DOMAIN Types(interface, opcode) = 1 .. m
  BY <1>5 DEF IsList
<1>8. n \in Nat
  BY EventWireAssumption
<1>9. /\ args \in Seq(Value) /\ Len(args) = m /\ DOMAIN args = 1 .. m
      /\ \A k \in 1 .. m : args[k] \in Values(n, k, Types(interface, opcode)[k])
  BY <1>6, <1>7, <1>8, ArgsLemma
<1>10. Typed(Types(interface, opcode), n, args)
  BY <1>7, <1>9, Zenon DEF Typed
<1>11. QED
  BY <1>1, <1>4, <1>8, <1>10

\* Its words.
LEMMA WordsLemma ==
  ASSUME EventsFit, NEW interface, NEW opcode, NEW args, IsEvent(interface, opcode, args)
  PROVE  LET payload == PayloadOf(interface, opcode, args)
             header == HeaderOf(interface, opcode, args)
         IN /\ payload \in Seq(Word) /\ header \in Seq(Word) /\ Len(header) = 2
            /\ WordsOf(interface, opcode, args) \in Seq(Word)
            /\ header[1].value = Id[interface]
            /\ HeaderSize(header[2].value) \div WL_WORD_SIZE = Len(payload) + 2
            /\ HeaderOpcode(header[2].value) = opcode
<1> DEFINE payload == PayloadOf(interface, opcode, args)
           header == HeaderOf(interface, opcode, args)
           size == EventSize(interface, opcode, args)
           types == Types(interface, opcode)
<1>1. PICK n \in Nat : Typed(types, n, args)
  BY EventLemma
<1>2. PICK h : PayloadSteps(h, types, args)
  BY <1>1, PayloadLemma, Zenon DEF EventsFit
<1>3. payload \in Seq(Word)
  <2>1. /\ h \in [0 .. Len(types) -> Seq(Word)] /\ h[Len(types)] = payload
        /\ Len(types) \in Nat
    BY <1>1, <1>2, Zenon DEF PayloadSteps, Typed, PayloadOf
  <2> HIDE DEF payload, types
  <2>2. QED
    BY <2>1
<1>4. size < UINT16_MOD
  BY Zenon DEF EventsFit
<1>5. opcode \in 0 .. 10
  BY EventLemma
<1>6. /\ PackHeader(size, opcode) \in Int
      /\ HeaderSize(PackHeader(size, opcode)) \div WL_WORD_SIZE = Len(payload) + 2
      /\ HeaderOpcode(PackHeader(size, opcode)) = opcode
  <2>1. size = WL_WORD_SIZE * Len(payload) + WL_EVENT_HEADER_SIZE
    BY Zenon DEF EventSize
  <2> HIDE DEF payload, size
  <2>2. Len(payload) \in Nat /\ 4 * Len(payload) + 8 < UINT16_MOD
    BY <1>3, <1>4, <2>1 DEF WL_WORD_SIZE, WL_EVENT_HEADER_SIZE
  <2>3. QED
    BY <1>5, <2>1, <2>2, HeaderLemma
<1>7. Id[interface] \in Int
  BY EventLemma, IdLemma
<1>8. header = <<Number(Id[interface]), Number(PackHeader(size, opcode))>>
  BY Zenon DEF HeaderOf
<1>9. /\ Number(Id[interface]) \in Word /\ Number(Id[interface]).value = Id[interface]
      /\ Number(PackHeader(size, opcode)) \in Word
      /\ Number(PackHeader(size, opcode)).value = PackHeader(size, opcode)
  BY <1>6, <1>7 DEF Number, Word
<1>10. header \in Seq(Word) /\ Len(header) = 2 /\ header[1] = Number(Id[interface])
       /\ header[2] = Number(PackHeader(size, opcode))
  <2> HIDE DEF header, size, Word
  <2>1. QED
    BY <1>8, <1>9
<1>11. WordsOf(interface, opcode, args) \in Seq(Word)
  BY <1>3, <1>10, JoinLemma, Zenon DEF WordsOf
<1>12. QED
  BY <1>3, <1>6, <1>9, <1>10, <1>11, Zenon

\* Its calls.
LEMMA CallsLemma ==
  ASSUME NEW interface, NEW opcode, NEW args, IsEvent(interface, opcode, args)
  PROVE  LET name == Protocol[interface][opcode + 1].name
             client == Client[interface]
         IN /\ name \notin Listeners(client) => CallsOf(interface, opcode, args) = <<>>
            /\ name \in Listeners(client) =>
                 CallsOf(interface, opcode, args) =
                   <<Call(interface, name, SubSeq(args, 1, client.parameters[name]))>>
            /\ CallsOf(interface, opcode, args) \in Seq(Calls)
<1> DEFINE name == Protocol[interface][opcode + 1].name
           client == Client[interface]
           call == Call(interface, name, SubSeq(args, 1, client.parameters[name]))
<1>1. CallsFor(interface, opcode, args) \subseteq Calls
  <2>1. PICK n \in 1 .. MaxEvents : args \in ArgsOf(n, interface, opcode)
    BY DEF IsEvent
  <2>2. interface \in Interfaces /\ opcode \in Opcodes(interface)
    BY DEF IsEvent
  <2> DEFINE ByArgs(m, i, o) == UNION {CallsFor(i, o, a) : a \in ArgsOf(m, i, o)}
             ByOpcode(m, i) == UNION {ByArgs(m, i, o) : o \in Opcodes(i)}
             ByInterface(m) == UNION {ByOpcode(m, i) : i \in Interfaces}
  <2>3. Calls = UNION {ByInterface(m) : m \in 1 .. MaxEvents}
    BY Zenon DEF Calls
  <2>4. CallsFor(interface, opcode, args) \subseteq ByArgs(n, interface, opcode)
    BY <2>1
  <2> HIDE DEF ByArgs
  <2>5. ByArgs(n, interface, opcode) \subseteq ByOpcode(n, interface)
    BY <2>2
  <2> HIDE DEF ByOpcode
  <2>6. ByOpcode(n, interface) \subseteq ByInterface(n)
    BY <2>2
  <2> HIDE DEF ByInterface
  <2>7. QED
    BY <2>3, <2>4, <2>5, <2>6
<1>2. CASE name \notin Listeners(client)
  <2>1. CallsFor(interface, opcode, args) = {}
    BY <1>2, Zenon DEF CallsFor
  <2>2. CallsOf(interface, opcode, args) = <<>>
    BY <2>1, SequenceOfOne, Zenon DEF CallsOf
  <2>3. QED
    BY <1>2, <2>2
<1>3. CASE name \in Listeners(client)
  <2>1. CallsFor(interface, opcode, args) = {call}
    BY <1>3, Zenon DEF CallsFor
  <2>2. CallsOf(interface, opcode, args) = <<call>>
    BY <2>1, SequenceOfOne, Zenon DEF CallsOf
  <2>3. call \in Calls
    BY <1>1, <2>1, Zenon
  <2> HIDE DEF call
  <2>4. <<call>> \in Seq(Calls)
    BY <2>3
  <2>5. QED
    BY <1>3, <2>2, <2>4, Zenon DEF call
<1>4. QED
  BY <1>2, <1>3

-----------------------------------------------------------------------------
(* Whole events.                                                           *)

\* Words that are whole events, with the calls these events are for: the pair
\* of nothing and nothing, and all that comes of it by putting events first.
Pairs == Seq(Word) \X Seq(Calls)

Before(interface, opcode, args, pair) ==
  <<WordsOf(interface, opcode, args) \o pair[1], CallsOf(interface, opcode, args) \o pair[2]>>
After(interface, opcode, args, pair) ==
  <<pair[1] \o WordsOf(interface, opcode, args), pair[2] \o CallsOf(interface, opcode, args)>>

Closed(S) ==
  /\ <<<<>>, <<>>>> \in S
  /\ \A interface, opcode, args :
       IsEvent(interface, opcode, args) =>
         \A pair \in S : Before(interface, opcode, args, pair) \in S

Cuts == {pair \in Pairs : \A S \in SUBSET Pairs : Closed(S) => pair \in S}

\* What is closed holds of every cut.
LEMMA CutInduction ==
  ASSUME NEW S \in SUBSET Pairs, Closed(S)
  PROVE  Cuts \subseteq S
  BY Zenon DEF Cuts

LEMMA RejoinCalls ==
  ASSUME NEW a \in Seq(Calls), NEW b \in Seq(Calls), NEW c \in Seq(Calls)
  PROVE  Rejoined(a, b, c)
<1> HIDE DEF Calls
<1>1. QED
  BY ConcatAssociative DEF Rejoined

LEMMA FirstIsPair ==
  ASSUME EventsFit, NEW interface, NEW opcode, NEW args, IsEvent(interface, opcode, args),
         NEW pair \in Pairs
  PROVE  /\ Before(interface, opcode, args, pair) \in Pairs
         /\ After(interface, opcode, args, pair) \in Pairs
<1>1. /\ WordsOf(interface, opcode, args) \in Seq(Word)
      /\ CallsOf(interface, opcode, args) \in Seq(Calls)
  BY WordsLemma, CallsLemma
<1>2. PICK w \in Seq(Word), c \in Seq(Calls) : pair = <<w, c>>
  BY DEF Pairs
<1>3. pair[1] = w /\ pair[2] = c
  BY <1>2
<1> DEFINE x == WordsOf(interface, opcode, args)
           y == CallsOf(interface, opcode, args)
<1>4. x \o w \in Seq(Word) /\ w \o x \in Seq(Word)
  BY <1>1, JoinLemma, Zenon
<1>5. y \o c \in Seq(Calls) /\ c \o y \in Seq(Calls)
  <2> HIDE DEF y
  <2>1. y \in Seq(Calls)
    BY <1>1 DEF y
  <2>2. QED
    BY <2>1, ConcatProperties
<1>6. QED
  BY <1>3, <1>4, <1>5 DEF Before, After, Pairs

LEMMA CutsClosed ==
  ASSUME EventsFit
  PROVE  Cuts \subseteq Pairs /\ Closed(Cuts)
<1>1. <<<<>>, <<>>>> \in Cuts
  <2>1. <<<<>>, <<>>>> \in Pairs
    <3>1. <<>> \in Seq(Word) /\ <<>> \in Seq(Calls)
      OBVIOUS
    <3>2. QED
      BY <3>1, Zenon DEF Pairs
  <2>2. QED
    BY <2>1, Zenon DEF Cuts, Closed
<1>2. ASSUME NEW interface, NEW opcode, NEW args, IsEvent(interface, opcode, args),
             NEW pair \in Cuts
      PROVE  Before(interface, opcode, args, pair) \in Cuts
  <2>1. pair \in Pairs
    BY DEF Cuts
  <2>2. Before(interface, opcode, args, pair) \in Pairs
    BY <1>2, <2>1, FirstIsPair, Zenon
  <2>3. ASSUME NEW S \in SUBSET Pairs, Closed(S)
        PROVE  Before(interface, opcode, args, pair) \in S
    <3>1. pair \in S
      BY <2>3, Zenon DEF Cuts
    <3>2. QED
      BY <1>2, <2>3, <3>1, Zenon DEF Closed
  <2>4. QED
    BY <2>2, <2>3, Zenon DEF Cuts
<1>3. Cuts \subseteq Pairs
  BY Zenon DEF Cuts
<1>4. QED
  BY <1>1, <1>2, <1>3, Zenon DEF Closed

\* A cut is nothing, or it has a first event.
IsFirst(pair) ==
  \E interface, opcode, args :
    /\ IsEvent(interface, opcode, args)
    /\ \E later \in Cuts : pair = Before(interface, opcode, args, later)

LEMMA CutFirst ==
  ASSUME EventsFit, NEW pair \in Cuts
  PROVE  pair = <<<<>>, <<>>>> \/ IsFirst(pair)
<1> DEFINE S == {p \in Cuts : p = <<<<>>, <<>>>> \/ IsFirst(p)}
<1>1. S \in SUBSET Pairs
  BY CutsClosed
<1>2. <<<<>>, <<>>>> \in S
  BY CutsClosed, Zenon DEF Closed
<1>3. ASSUME NEW interface, NEW opcode, NEW args, IsEvent(interface, opcode, args), NEW p \in S
      PROVE  Before(interface, opcode, args, p) \in S
  <2>1. p \in Cuts
    OBVIOUS
  <2>2. Before(interface, opcode, args, p) \in Cuts
    BY <1>3, <2>1, CutsClosed, Zenon DEF Closed
  <2>3. IsFirst(Before(interface, opcode, args, p))
    BY <1>3, <2>1, Zenon DEF IsFirst
  <2>4. QED
    BY <2>2, <2>3, Zenon
<1> HIDE DEF S
<1>4. Closed(S)
  BY <1>2, <1>3, Zenon DEF Closed
<1>5. Cuts \subseteq S
  BY <1>1, <1>4, CutInduction, Zenon
<1>6. QED
  BY <1>5, Zenon DEF S

\* It may go on with one more event.
LEMMA CutLast ==
  ASSUME EventsFit, NEW pair \in Cuts,
         NEW interface, NEW opcode, NEW args, IsEvent(interface, opcode, args)
  PROVE  After(interface, opcode, args, pair) \in Cuts
<1> DEFINE S == {p \in Pairs : After(interface, opcode, args, p) \in Cuts}
           x == WordsOf(interface, opcode, args)
           y == CallsOf(interface, opcode, args)
<1>1. x \in Seq(Word) /\ y \in Seq(Calls)
  BY WordsLemma, CallsLemma
<1> HIDE DEF x, y
<1>2. <<<<>>, <<>>>> \in S
  <2>1. <<<<>>, <<>>>> \in Cuts /\ <<<<>>, <<>>>> \in Pairs
    BY CutsClosed, Zenon DEF Closed
  <2>2. Before(interface, opcode, args, <<<<>>, <<>>>>) \in Cuts
    BY <2>1, CutsClosed, Zenon DEF Closed
  <2>3. Before(interface, opcode, args, <<<<>>, <<>>>>) = <<x \o <<>>, y \o <<>>>>
    BY DEF Before, x, y
  <2>4. After(interface, opcode, args, <<<<>>, <<>>>>) = <<<<>> \o x, <<>> \o y>>
    BY DEF After, x, y
  <2>5. x \o <<>> = x /\ <<>> \o x = x /\ y \o <<>> = y /\ <<>> \o y = y
    BY <1>1, ConcatEmptySeq
  <2>6. QED
    BY <2>1, <2>2, <2>3, <2>4, <2>5, Zenon
<1>3. ASSUME NEW i, NEW o, NEW a, IsEvent(i, o, a), NEW p \in S
      PROVE  Before(i, o, a, p) \in S
  <2>1. p \in Pairs /\ After(interface, opcode, args, p) \in Cuts
    OBVIOUS
  <2>2. Before(i, o, a, p) \in Pairs
    BY <1>3, <2>1, FirstIsPair, Zenon
  <2>3. Before(i, o, a, After(interface, opcode, args, p)) \in Cuts
    BY <1>3, <2>1, CutsClosed, Zenon DEF Closed
  <2>4. Before(i, o, a, After(interface, opcode, args, p))
          = After(interface, opcode, args, Before(i, o, a, p))
    <3>1. PICK w \in Seq(Word), c \in Seq(Calls) : p = <<w, c>>
      BY <2>1 DEF Pairs
    <3>2. PICK u \in Seq(Word), v \in Seq(Calls) : u = WordsOf(i, o, a) /\ v = CallsOf(i, o, a)
      BY <1>3, WordsLemma, CallsLemma
    <3>3. /\ Before(i, o, a, p) = <<u \o w, v \o c>>
          /\ After(interface, opcode, args, p) = <<w \o x, c \o y>>
      BY <3>1, <3>2 DEF Before, After, x, y
    <3>4. /\ Before(i, o, a, After(interface, opcode, args, p)) = <<u \o (w \o x), v \o (c \o y)>>
          /\ After(interface, opcode, args, Before(i, o, a, p)) = <<(u \o w) \o x, (v \o c) \o y>>
      BY <3>2, <3>3 DEF Before, After, x, y
    <3>5. (u \o w) \o x = u \o (w \o x)
      BY <1>1, RejoinLemma, Zenon DEF Rejoined
    <3>6. (v \o c) \o y = v \o (c \o y)
      BY <1>1, RejoinCalls, Zenon DEF Rejoined
    <3>7. QED
      BY <3>4, <3>5, <3>6
  <2>5. QED
    BY <2>2, <2>3, <2>4, Zenon
<1>4. S \in SUBSET Pairs
  OBVIOUS
<1> HIDE DEF S
<1>5. Closed(S)
  BY <1>2, <1>3, Zenon DEF Closed
<1>6. Cuts \subseteq S
  BY <1>4, <1>5, CutInduction, Zenon
<1>7. QED
  BY <1>6, Zenon DEF S

(* wl_fixed. *)

\* A remainder by a number that is not reached is the number itself.
LEMMA SmallLemma ==
  ASSUME NEW m \in Nat, NEW n \in Nat, n < m
  PROVE  n % m = n
  BY SMTT(30)

\* A number in 256ths is its integer and its fraction, below 0, too.
LEMMA FractionLemma ==
  ASSUME NEW bits \in Int
  PROVE  /\ bits \div 256 \in Int /\ bits % 256 \in 0 .. 255
         /\ bits = 256 * (bits \div 256) + (bits % 256)
         /\ 256 * (255 * (bits \div 256) + (bits % 256)) - 255 * bits \in 0 .. 255
<1>1. /\ bits \div 256 \in Int /\ bits % 256 \in 0 .. 255
      /\ bits = 256 * (bits \div 256) + (bits % 256)
  BY SMTT(30)
<1>2. PICK q \in Int, r \in 0 .. 255 : q = bits \div 256 /\ r = bits % 256
  BY <1>1, ZenonT(60)
<1>3. bits = 256 * q + r
  BY <1>1, <1>2, ZenonT(60)
<1>4. 256 * (255 * q + r) - 255 * bits \in 0 .. 255
  BY <1>3, SMTT(30)
<1>5. QED
  BY <1>1, <1>2, <1>4, ZenonT(60)

\* read_wl_fixed is right about the integer, whatever the sign, and at most
\* 1/256 too large about the fraction.
THEOREM FixedIsNear ==
  ASSUME NEW bits \in Int, -256 * FIXED_INT_MOD <= bits, bits < 256 * FIXED_INT_MOD
  PROVE  /\ read_wl_fixed(bits).integer = bits \div 256
         /\ 256 * FixedTimes255(read_wl_fixed(bits)) - 255 * bits \in 0 .. 255
<1>1. FIXED_INT_MOD \in Nat /\ FIXED_INT_MOD > 0
  BY SMT DEF FIXED_INT_MOD
<1>2. ASSUME NEW m \in Nat, m > 0, -256 * m <= bits, bits < 256 * m
      PROVE  /\ bits \div 256 \in Int /\ bits % 256 \in 0 .. 255
             /\ bits = 256 * (bits \div 256) + (bits % 256)
             /\ bits < 0 => -m <= bits \div 256 /\ bits \div 256 < 0
             /\ ~(bits < 0) => 0 <= bits \div 256 /\ bits \div 256 < m
  BY <1>2, SMTT(30)
<1>3. ASSUME NEW m \in Nat, m > 0, NEW q \in Int, -m <= q, q < 0
      PROVE  -(m - (q % m)) = q
  <2>1. q = -m \/ (q + m \in Nat /\ q + m < m)
    BY <1>3
  <2>2. q % m = q + m \/ (q = -m /\ q % m = 0)
    BY <1>3, <2>1, SMTT(30)
  <2>3. QED
    BY <1>3, <2>2
<1>4. read_wl_fixed(bits) = [integer |-> bits \div 256, fraction |-> bits % 256]
  <2>1. CASE bits < 0
    <3>1. -(FIXED_INT_MOD - ((bits \div 256) % FIXED_INT_MOD)) = bits \div 256
      BY <1>1, <1>2, <1>3, <2>1
    <3>2. QED
      BY <2>1, <3>1, Zenon DEF read_wl_fixed
  <2>2. CASE ~(bits < 0)
    <3>1. bits \div 256 \in Nat /\ bits \div 256 < FIXED_INT_MOD
      BY <1>1, <1>2, <2>2
    <3>2. (bits \div 256) % FIXED_INT_MOD = bits \div 256
      BY <1>1, <3>1, SmallLemma
    <3>3. QED
      BY <2>2, <3>2, Zenon DEF read_wl_fixed
  <2>3. QED
    BY <2>1, <2>2
<1>5. /\ read_wl_fixed(bits).integer = bits \div 256
      /\ FixedTimes255(read_wl_fixed(bits)) = 255 * (bits \div 256) + (bits % 256)
  BY <1>4 DEF FixedTimes255, UINT8_MAX
<1>6. bits \in Int
  OBVIOUS
<1>7. 256 * (255 * (bits \div 256) + (bits % 256)) - 255 * bits \in 0 .. 255
  BY <1>6, FractionLemma
<1>8. QED
  BY <1>5, <1>7, ZenonT(60)

\* A wl_fixed that was sent is read as what it is, or a little above.
LEMMA NearLemma ==
  ASSUME NEW bits \in FixedBits
  PROVE  256 * FixedTimes255(read_wl_fixed(bits)) - 255 * bits \in 0 .. 255
<1>1. bits \in Int /\ bits \div 256 \in (-FIXED_INT_MOD) .. (FIXED_INT_MOD - 1)
  BY EventWireAssumption
<1>2. /\ bits \div 256 \in Int /\ bits % 256 \in 0 .. 255
      /\ bits = 256 * (bits \div 256) + (bits % 256)
  BY <1>1, FractionLemma
<1>3. FIXED_INT_MOD \in Nat
  BY DEF FIXED_INT_MOD
<1>4. ASSUME NEW m \in Nat, NEW q \in Int, NEW r \in 0 .. 255, -m <= q, q <= m - 1
      PROVE  -256 * m <= 256 * q + r /\ 256 * q + r < 256 * m
  BY <1>4
<1>5. -256 * FIXED_INT_MOD <= bits /\ bits < 256 * FIXED_INT_MOD
  <2>1. PICK q \in Int, r \in 0 .. 255 : q = bits \div 256 /\ r = bits % 256
    BY <1>2, Zenon
  <2>2. -FIXED_INT_MOD <= q /\ q <= FIXED_INT_MOD - 1
    BY <1>1, <1>3, <2>1
  <2>3. -256 * FIXED_INT_MOD <= 256 * q + r /\ 256 * q + r < 256 * FIXED_INT_MOD
    BY <1>3, <1>4, <2>2
  <2>4. bits = 256 * q + r
    BY <1>2, <2>1, Zenon
  <2>5. QED
    BY <2>3, <2>4, Zenon
<1>6. QED
  BY <1>1, <1>5, FixedIsNear

-----------------------------------------------------------------------------
(* One event handled.                                                      *)

\* The handler of an event takes the call of the event, if it has one, out of
\* the queue, and its reader stays in the message.
LEMMA DispatchLemma ==
  ASSUME EventsFit, NEW interface, NEW opcode, NEW args, IsEvent(interface, opcode, args),
         NEW later \in Seq(Word), batch = WordsOf(interface, opcode, args) \o later,
         NEW next \in Seq(Calls), expected = CallsOf(interface, opcode, args) \o next,
         ~strayed, FixedNear,
         Dispatch(interface, {h \in Client[interface].reads : h.opcode = opcode},
                  Len(PayloadOf(interface, opcode, args)) + 2)
  PROVE  /\ expected' = next /\ ~strayed' /\ FixedNear'
         /\ \/ UNCHANGED <<expected, called>>
            \/ expected # <<>> /\ called' = Head(expected) /\ expected' = Tail(expected)
<1> DEFINE event == Protocol[interface][opcode + 1]
           client == Client[interface]
           types == Types(interface, opcode)
           payload == PayloadOf(interface, opcode, args)
           first == HeaderOf(interface, opcode, args)
           handlers == {h \in client.reads : h.opcode = opcode}
<1>1. PICK n \in Nat : Typed(types, n, args)
  BY EventLemma
<1>2. Entry(event, opcode, client) /\ event.args = types
  BY EventLemma DEF Types
<1>3. /\ payload \in Seq(Word) /\ first \in Seq(Word) /\ Len(first) = 2
      /\ batch = (first \o payload) \o later
  BY WordsLemma DEF WordsOf
<1>4. /\ event.name \notin Listeners(client) => CallsOf(interface, opcode, args) = <<>>
      /\ event.name \in Listeners(client) =>
           CallsOf(interface, opcode, args) =
             <<Call(interface, event.name, SubSeq(args, 1, client.parameters[event.name]))>>
  BY CallsLemma
<1>5. CallsOf(interface, opcode, args) = <<>> => expected = next
  <2>1. <<>> \o next = next
    BY ConcatEmptySeq
  <2>2. QED
    BY <2>1, Zenon
<1> HIDE DEF event, client, types, payload, first
<1>6. CASE /\ \A h \in client.reads : h.opcode # opcode
           /\ event.name \notin Listeners(client)
  <2>1. handlers = {}
    BY <1>6
  <2>2. UNCHANGED <<expected, called, floats, strayed, failure>>
    BY <2>1, Zenon DEF Dispatch, client
  <2>3. expected = next
    BY <1>4, <1>5, <1>6, Zenon
  <2>4. FixedNear'
    BY <2>2 DEF FixedNear
  <2>5. QED
    BY <2>2, <2>3, <2>4
<1>7. ASSUME NEW handler \in client.reads, Right(event, handler, client),
             \A h \in client.reads : h.opcode = opcode <=> h = handler
      PROVE  /\ expected' = next /\ ~strayed' /\ FixedNear'
             /\ \/ UNCHANGED <<expected, called>>
                \/ expected # <<>> /\ called' = Head(expected) /\ expected' = Tail(expected)
  <2> DEFINE reader == FoldLeft(Read, Start, handler.types)
             fixed == {k \in DOMAIN handler.types : handler.types[k] = "fixed"}
             p == Len(handler.types)
  <2>1. handlers = {handler} /\ handlers # {}
    BY <1>7
  <2>2. /\ strayed' = (strayed \/ reader.cursor > (Len(payload) + 2) + 1)
        /\ floats' = [k \in fixed |-> [bits |-> reader.args[k].value,
                                       read |-> read_wl_fixed(reader.args[k].value)]]
        /\ IF handler.listener = Silent
           THEN UNCHANGED <<expected, called>>
           ELSE /\ called' = Call(interface, handler.listener, reader.args)
                /\ expected' = IF expected = <<>> THEN <<>> ELSE Tail(expected)
    BY <2>1, Zenon DEF Dispatch, Start, client, payload
  <2>3. Fits(types, handler.types)
    BY <1>2, <1>7, Zenon DEF Right
  <2>4. /\ reader.args = SubSeq(args, 1, p) /\ reader.cursor \in Int
        /\ reader.cursor <= Len(payload) + 3
    <3>1. batch = (first \o Payload(types, args)) \o later /\ payload = Payload(types, args)
      BY <1>3, Zenon DEF payload, types, PayloadOf
    <3>2. ReadsFirst(types, args, handler.types)
      BY <1>1, <1>3, <2>3, <3>1, ReaderLemma, Zenon DEF EventsFit
    <3>3. QED
      BY <3>1, <3>2, Zenon DEF ReadsFirst
  <2>5. ~strayed'
    <3>1. PICK cursor \in Int : cursor = reader.cursor
      BY <2>4, Zenon
    <3>2. PICK size \in Nat : size = Len(payload)
      BY <1>3
    <3>3. cursor <= size + 3 => ~(cursor > (size + 2) + 1)
      OBVIOUS
    <3>4. QED
      BY <2>2, <2>4, <3>1, <3>2, <3>3, Zenon
  <2>6. FixedNear'
    <3>1. ASSUME NEW k \in fixed
          PROVE  256 * FixedTimes255(read_wl_fixed(reader.args[k].value))
                   - 255 * reader.args[k].value \in 0 .. 255
      <4>1. k \in 1 .. p /\ types[k] = "fixed" /\ p \in 0 .. Len(types) /\ k \in 1 .. Len(types)
        BY <1>1, <2>3 DEF Fits, Typed
      <4>2. args[k] \in Values(n, k, types[k]) /\ args \in Seq(Value) /\ Len(args) = Len(types)
        BY <1>1, <4>1, Zenon DEF Typed
      <4>3. args[k].value \in FixedBits
        BY <4>1, <4>2 DEF Values
      <4>4. SubSeq(args, 1, p)[k] = args[k]
        <5> HIDE DEF p
        <5>1. QED
          BY <4>1, <4>2
      <4>5. QED
        <5>1. PICK bits \in FixedBits : bits = args[k].value
          BY <4>3, Zenon
        <5>2. reader.args[k].value = bits
          BY <2>4, <4>4, <5>1, Zenon
        <5>3. 256 * FixedTimes255(read_wl_fixed(bits)) - 255 * bits \in 0 .. 255
          BY NearLemma
        <5>4. QED
          BY <5>2, <5>3, Zenon
    <3>2. /\ DOMAIN floats' = fixed
          /\ \A k \in fixed : /\ floats'[k].bits = reader.args[k].value
                              /\ floats'[k].read = read_wl_fixed(reader.args[k].value)
      <4>1. floats' = [k \in fixed |-> [bits |-> reader.args[k].value,
                                       read |-> read_wl_fixed(reader.args[k].value)]]
        BY <2>2, Zenon
      <4> HIDE DEF reader, fixed
      <4>2. QED
        BY <4>1
    <3>3. ASSUME NEW k \in DOMAIN floats'
          PROVE  256 * FixedTimes255(floats'[k].read) - 255 * floats'[k].bits \in 0 .. 255
      <4>1. k \in fixed
        BY <3>2, Zenon
      <4>2. /\ floats'[k].bits = reader.args[k].value
            /\ floats'[k].read = read_wl_fixed(reader.args[k].value)
        BY <3>2, <4>1, Zenon
      <4>3. QED
        BY <3>1, <4>1, <4>2, ZenonT(30)
    <3>4. QED
      BY <3>3, Zenon DEF FixedNear
  <2> HIDE DEF reader
  <2>7. CASE handler.listener = Silent
    <3>1. event.name \notin Listeners(client)
      BY <1>7, <2>7, Zenon DEF Right
    <3>2. expected = next
      BY <1>4, <1>5, <3>1, Zenon
    <3>3. UNCHANGED <<expected, called>>
      BY <2>2, <2>7, Zenon
    <3>4. QED
      BY <2>5, <2>6, <3>2, <3>3
  <2>8. CASE handler.listener # Silent
    <3>1. /\ handler.listener = event.name /\ event.name \in Listeners(client)
          /\ client.parameters[event.name] = p
      BY <1>7, <2>8, Zenon DEF Right
    <3>2. PICK call : call = Call(interface, event.name, SubSeq(args, 1, p))
      OBVIOUS
    <3>3. CallsOf(interface, opcode, args) = <<call>>
      BY <1>4, <3>1, <3>2, Zenon
    <3>4. expected = <<call>> \o next /\ <<call>> \in Seq(Calls)
      BY <3>3, CallsLemma
    <3>5. expected # <<>> /\ Head(expected) = call /\ Tail(expected) = next
      BY <3>4
    <3>6. called' = call /\ expected' = Tail(expected)
      BY <2>2, <2>4, <2>8, <3>1, <3>2, <3>5, Zenon
    <3>7. QED
      BY <2>5, <2>6, <3>5, <3>6
  <2>9. QED
    BY <2>7, <2>8
<1>8. QED
  BY <1>2, <1>6, <1>7, Zenon DEF Entry

-----------------------------------------------------------------------------
(* The invariant.                                                          *)

\* What is in the page and what is in the socket are whole events, and the
\* calls they are for are those expected, in this order.
Queued ==
  \E first, rest : /\ <<batch, first>> \in Cuts /\ <<stream, rest>> \in Cuts
                   /\ expected = first \o rest

IInv == sent \in Nat /\ Queued /\ ReadsInside /\ FixedNear

\* What CalledAsSent asks of a step.
PathStep == [Path!Next]_<<expected, called>>

\* The words of an event: a header of two words, and what is behind it.
Pieces(words, header, payload, later) ==
  /\ 2 \in DOMAIN words /\ words # <<>>
  /\ words[1] = header[1] /\ words[2] = header[2]
  /\ SubSeq(words, (Len(payload) + 2) + 1, Len(words)) = later

LEMMA AppendedLemma ==
  ASSUME NEW a \in Seq(Word), NEW b \in Seq(Word)
  PROVE  LET s == a \o b
         IN /\ s \in Seq(Word) /\ Len(s) = Len(a) + Len(b)
            /\ \A k \in 1 .. Len(a) : s[k] = a[k]
            /\ \A k \in 1 .. Len(b) : s[Len(a) + k] = b[k]
<1> HIDE DEF Word
<1>1. QED
  BY ConcatProperties

\* What is left of words behind the first m, which are n.
IsLeft(left, words, m, n) ==
  /\ left \in Seq(Word) /\ Len(left) = n
  /\ \A k \in 1 .. n : left[k] = words[m + k]

LEMMA LeftLemma ==
  ASSUME NEW words \in Seq(Word), NEW m \in Nat, NEW n \in Nat, Len(words) = m + n
  PROVE  IsLeft(SubSeq(words, m + 1, Len(words)), words, m, n)
<1> HIDE DEF Word
<1>1. QED
  BY SMTT(30) DEF IsLeft

LEMMA PiecesLemma ==
  ASSUME NEW a \in Seq(Word), Len(a) = 2, NEW b \in Seq(Word), NEW c \in Seq(Word)
  PROVE  Pieces((a \o b) \o c, a, b, c)
<1> HIDE DEF Word
<1> DEFINE s == a \o b
           t == s \o c
<1>1. /\ s \in Seq(Word) /\ Len(s) = Len(a) + Len(b) /\ \A k \in 1 .. Len(a) : s[k] = a[k]
  BY AppendedLemma
<1>2. Len(b) \in Nat /\ Len(c) \in Nat
  OBVIOUS
<1> HIDE DEF s
<1>3. /\ t \in Seq(Word) /\ Len(t) = Len(s) + Len(c)
      /\ \A k \in 1 .. Len(s) : t[k] = s[k]
      /\ \A k \in 1 .. Len(c) : t[Len(s) + k] = c[k]
  BY <1>1, AppendedLemma
<1>4. /\ Len(t) = (Len(b) + 2) + Len(c) /\ t[1] = a[1] /\ t[2] = a[2]
      /\ \A i \in 1 .. Len(c) : t[(Len(b) + 2) + i] = c[i]
  <2>1. Len(s) = Len(b) + 2
    BY <1>1, <1>2
  <2>2. 1 \in 1 .. Len(a) /\ 2 \in 1 .. Len(a) /\ 1 \in 1 .. Len(s) /\ 2 \in 1 .. Len(s)
    BY <1>2, <2>1
  <2>3. t[1] = a[1] /\ t[2] = a[2]
    BY <1>1, <1>3, <2>2
  <2>4. QED
    BY <1>3, <2>1, <2>3
<1>5. 2 \in DOMAIN t /\ t # <<>>
  BY <1>2, <1>3, <1>4
<1>6. SubSeq(t, (Len(b) + 2) + 1, Len(t)) = c
  <2> DEFINE u == SubSeq(t, (Len(b) + 2) + 1, Len(t))
  <2>1. /\ u \in Seq(Word) /\ Len(u) = Len(c)
        /\ \A k \in 1 .. Len(c) : u[k] = t[(Len(b) + 2) + k]
    <3>1. Len(b) + 2 \in Nat
      BY <1>2
    <3>2. IsLeft(u, t, Len(b) + 2, Len(c))
      BY <1>2, <1>3, <1>4, <3>1, LeftLemma, Zenon
    <3>3. QED
      BY <3>2, Zenon DEF IsLeft
  <2> HIDE DEF u
  <2>2. u = c
    BY <1>4, <2>1, SeqEqual
  <2>3. QED
    BY <2>2 DEF u
<1>7. QED
  BY <1>4, <1>5, <1>6 DEF Pieces, s, t

LEMMA PairLemma ==
  ASSUME NEW w, NEW c, <<w, c>> \in Cuts
  PROVE  w \in Seq(Word) /\ c \in Seq(Calls)
  BY DEF Cuts, Pairs

LEMMA InitLemma ==
  ASSUME EventsFit, Init
  PROVE  IInv /\ Path!Init
<1>1. <<<<>>, <<>>>> \in Cuts
  BY CutsClosed, Zenon DEF Closed
<1>2. <<>> = <<>> \o <<>>
  OBVIOUS
<1>3. Queued
  BY <1>1, <1>2, Zenon DEF Init, Queued
<1>4. FixedNear
  BY DEF Init, FixedNear
<1>5. QED
  BY <1>3, <1>4 DEF Init, IInv, ReadsInside, Path!Init

LEMMA EmitLemma ==
  ASSUME EventsFit, IInv, NEW interface \in Interfaces, NEW opcode \in Opcodes(interface),
         NEW args \in ArgsOf(sent + 1, interface, opcode), Emit(interface, opcode, args)
  PROVE  IInv' /\ PathStep
<1> DEFINE words == WordsOf(interface, opcode, args)
           calls == CallsOf(interface, opcode, args)
           header == HeaderOf(interface, opcode, args)
           payload == PayloadOf(interface, opcode, args)
<1>1. /\ sent' = sent + 1 /\ sent < MaxEvents
      /\ stream' = (stream \o header) \o payload /\ expected' = expected \o calls
      /\ UNCHANGED <<batch, called, floats, strayed, failure>>
  BY Zenon DEF Emit, HeaderOf, CallsOf
<1>2. sent \in Nat /\ sent + 1 \in 1 .. MaxEvents
  BY <1>1, EventWireAssumption DEF IInv
<1>3. IsEvent(interface, opcode, args)
  BY <1>2, Zenon DEF IsEvent
<1>4. /\ header \in Seq(Word) /\ payload \in Seq(Word) /\ words = header \o payload
      /\ calls \in Seq(Calls)
  BY <1>3, WordsLemma, CallsLemma DEF WordsOf
<1>5. PICK first, rest : /\ <<batch, first>> \in Cuts /\ <<stream, rest>> \in Cuts
                         /\ expected = first \o rest
  BY Zenon DEF IInv, Queued
<1>6. stream \in Seq(Word) /\ rest \in Seq(Calls) /\ first \in Seq(Calls)
  BY <1>5, PairLemma
<1>7. After(interface, opcode, args, <<stream, rest>>) \in Cuts
  BY <1>3, <1>5, CutLast, Zenon
<1>8. After(interface, opcode, args, <<stream, rest>>) = <<stream \o words, rest \o calls>>
  BY DEF After
<1> HIDE DEF words, calls, header, payload
<1>9. stream' = stream \o words
  <2>1. Rejoined(stream, header, payload)
    BY <1>4, <1>6, RejoinLemma, ZenonT(30)
  <2>2. QED
    BY <1>1, <1>4, <2>1, Zenon DEF Rejoined
<1>10. expected' = first \o (rest \o calls)
  <2>1. Rejoined(first, rest, calls)
    BY <1>4, <1>6, RejoinCalls, ZenonT(30)
  <2>2. QED
    BY <1>1, <1>5, <2>1, Zenon DEF Rejoined
<1>11. Queued'
  <2>1. <<batch', first>> \in Cuts
    BY <1>1, <1>5
  <2>2. <<stream', rest \o calls>> \in Cuts
    BY <1>7, <1>8, <1>9, Zenon
  <2>3. QED
    BY <1>10, <2>1, <2>2, Zenon DEF Queued
<1>12. IInv'
  <2>1. FixedNear' /\ ReadsInside'
    BY <1>1 DEF IInv, FixedNear, ReadsInside
  <2>2. sent' \in Nat
    BY <1>1, <1>2
  <2>3. QED
    BY <1>11, <2>1, <2>2 DEF IInv
<1>13. PathStep
  <2>1. expected \in Seq(Calls)
    BY <1>5, <1>6, ConcatProperties
  <2>2. calls = <<>> \/ \E call \in Calls : calls = <<call>>
    BY <1>3, <1>4, CallsLemma DEF calls
  <2>3. CASE calls = <<>>
    <3>1. expected \o <<>> = expected
      BY <2>1, ConcatEmptySeq
    <3>2. QED
      BY <1>1, <2>3, <3>1 DEF PathStep
  <2>4. ASSUME NEW call \in Calls, calls = <<call>> PROVE PathStep
    <3>1. expected \o <<call>> = Append(expected, call)
      BY <2>1
    <3>2. QED
      BY <1>1, <2>4, <3>1 DEF PathStep, Path!Next, Path!Compose
  <2>5. QED
    BY <2>2, <2>3, <2>4
<1>14. QED
  BY <1>12, <1>13

\* What is in the page when something is: an event, and what follows it.
IsPage(words, calls, interface, opcode, args, later, next) ==
  /\ IsEvent(interface, opcode, args)
  /\ words = WordsOf(interface, opcode, args) \o later
  /\ calls = CallsOf(interface, opcode, args) \o next
  /\ <<later, next>> \in Cuts

HasPage(words, calls) ==
  \E interface, opcode, args, later, next :
    IsPage(words, calls, interface, opcode, args, later, next)

IsEmptyPage(words, calls) == words = <<>> /\ calls = <<>>

LEMMA PageLemma ==
  ASSUME EventsFit, NEW words, NEW calls, <<words, calls>> \in Cuts
  PROVE  IsEmptyPage(words, calls) \/ (words # <<>> /\ HasPage(words, calls))
<1>1. CASE <<words, calls>> = <<<<>>, <<>>>>
  BY <1>1 DEF IsEmptyPage
<1>2. CASE IsFirst(<<words, calls>>)
  <2>1. PICK interface, opcode, args :
           /\ IsEvent(interface, opcode, args)
           /\ \E pair \in Cuts : <<words, calls>> = Before(interface, opcode, args, pair)
    BY <1>2, Zenon DEF IsFirst
  <2>2. PICK pair \in Cuts : <<words, calls>> = Before(interface, opcode, args, pair)
    BY <2>1, Zenon
  <2>3. PICK later, next : pair = <<later, next>>
    BY DEF Cuts, Pairs
  <2>4. /\ words = WordsOf(interface, opcode, args) \o later
        /\ calls = CallsOf(interface, opcode, args) \o next
    BY <2>2, <2>3 DEF Before
  <2>5. IsPage(words, calls, interface, opcode, args, later, next)
    BY <2>1, <2>2, <2>3, <2>4, Zenon DEF IsPage
  <2>6. words # <<>>
    <3> DEFINE header == HeaderOf(interface, opcode, args)
               payload == PayloadOf(interface, opcode, args)
    <3>1. /\ header \in Seq(Word) /\ Len(header) = 2 /\ payload \in Seq(Word)
          /\ words = (header \o payload) \o later
      BY <2>1, <2>4, WordsLemma DEF WordsOf
    <3>2. later \in Seq(Word)
      BY <2>2, <2>3, PairLemma
    <3> HIDE DEF header, payload
    <3>3. Pieces((header \o payload) \o later, header, payload, later)
      BY <3>1, <3>2, PiecesLemma, Zenon
    <3>4. QED
      BY <3>1, <3>3, Zenon DEF Pieces
  <2>7. QED
    BY <2>5, <2>6, Zenon DEF HasPage
<1>3. QED
  BY <1>1, <1>2, CutFirst, Zenon

LEMMA RecvLemma ==
  ASSUME EventsFit, IInv, Recv
  PROVE  IInv' /\ PathStep
<1>1. /\ batch = <<>> /\ batch' = stream /\ stream' = <<>>
      /\ UNCHANGED <<sent, expected, called, floats, strayed, failure>>
  BY DEF Recv
<1>2. PICK first, rest : /\ <<batch, first>> \in Cuts /\ <<stream, rest>> \in Cuts
                         /\ expected = first \o rest
  BY Zenon DEF IInv, Queued
<1>3. first = <<>>
  BY <1>1, <1>2, PageLemma, Zenon DEF IsEmptyPage
<1>4. rest \in Seq(Calls)
  BY <1>2, PairLemma
<1>5. expected' = rest \o <<>>
  BY <1>1, <1>2, <1>3, <1>4
<1>6. <<stream', <<>>>> \in Cuts
  BY <1>1, CutsClosed DEF Closed
<1>7. Queued'
  <2>1. <<batch', rest>> \in Cuts
    BY <1>1, <1>2, Zenon
  <2>2. QED
    BY <1>5, <1>6, <2>1, Zenon DEF Queued
<1>8. QED
  BY <1>1, <1>7 DEF IInv, FixedNear, ReadsInside, PathStep

LEMMA HandleLemma ==
  ASSUME EventsFit, IInv, Handle
  PROVE  IInv' /\ PathStep
<1>1. PICK first, rest : /\ <<batch, first>> \in Cuts /\ <<stream, rest>> \in Cuts
                         /\ expected = first \o rest
  BY Zenon DEF IInv, Queued
<1>2. batch # <<>>
  BY DEF Handle
<1>3. PICK interface, opcode, args, later, next :
         /\ IsEvent(interface, opcode, args)
         /\ batch = WordsOf(interface, opcode, args) \o later
         /\ first = CallsOf(interface, opcode, args) \o next
         /\ <<later, next>> \in Cuts
  <2>1. HasPage(batch, first)
    BY <1>1, <1>2, PageLemma, Zenon DEF IsEmptyPage
  <2>2. QED
    BY <2>1, Zenon DEF HasPage, IsPage
<1> DEFINE header == HeaderOf(interface, opcode, args)
           payload == PayloadOf(interface, opcode, args)
           calls == CallsOf(interface, opcode, args)
<1>4. /\ header \in Seq(Word) /\ Len(header) = 2 /\ payload \in Seq(Word)
      /\ header[1].value = Id[interface]
      /\ HeaderSize(header[2].value) \div WL_WORD_SIZE = Len(payload) + 2
      /\ HeaderOpcode(header[2].value) = opcode
      /\ batch = (header \o payload) \o later
  BY <1>3, WordsLemma DEF WordsOf
<1>5. later \in Seq(Word) /\ next \in Seq(Calls) /\ rest \in Seq(Calls) /\ calls \in Seq(Calls)
  BY <1>1, <1>3, PairLemma, CallsLemma
<1> HIDE DEF header, payload, calls
<1>6. /\ batch[1] = header[1] /\ WordAt(2) = header[2]
      /\ SubSeq(batch, (Len(payload) + 2) + 1, Len(batch)) = later
  <2>1. Pieces((header \o payload) \o later, header, payload, later)
    BY <1>4, <1>5, PiecesLemma, Zenon
  <2>2. Pieces(batch, header, payload, later)
    BY <1>4, <2>1, Zenon
  <2>3. QED
    BY <2>2, Zenon DEF Pieces, WordAt
<1>7. PICK i \in DOMAIN Id :
         /\ Id[i] = batch[1].value
         /\ Dispatch(i, {h \in Client[i].reads : h.opcode = opcode}, Len(payload) + 2)
         /\ batch' = SubSeq(batch, (Len(payload) + 2) + 1, Len(batch))
  BY <1>4, <1>6, Zenon DEF Handle
<1>8. i = interface
  BY <1>3, <1>4, <1>6, <1>7, IdLemma, EventLemma
<1>9. UNCHANGED <<sent, stream>>
  BY DEF Handle
<1>10. expected = calls \o (next \o rest) /\ next \o rest \in Seq(Calls)
  <2>1. Rejoined(calls, next, rest) /\ next \o rest \in Seq(Calls)
    BY <1>5, RejoinCalls, ConcatProperties
  <2>2. QED
    BY <1>1, <1>3, <2>1, Zenon DEF calls, Rejoined
<1>11. /\ expected' = next \o rest /\ ~strayed' /\ FixedNear'
       /\ \/ UNCHANGED <<expected, called>>
          \/ expected # <<>> /\ called' = Head(expected) /\ expected' = Tail(expected)
  <2>1. ~strayed /\ FixedNear
    BY DEF IInv, ReadsInside
  <2>2. Dispatch(interface, {h \in Client[interface].reads : h.opcode = opcode},
                 Len(PayloadOf(interface, opcode, args)) + 2)
    BY <1>7, <1>8, Zenon DEF payload
  <2>3. QED
    BY <1>3, <1>5, <1>10, <2>1, <2>2, DispatchLemma, Zenon DEF calls
<1>12. Queued'
  <2>1. <<batch', next>> \in Cuts
    BY <1>3, <1>6, <1>7, Zenon
  <2>2. <<stream', rest>> \in Cuts
    BY <1>1, <1>9
  <2>3. QED
    BY <1>11, <2>1, <2>2, Zenon DEF Queued
<1>13. IInv'
  BY <1>9, <1>11, <1>12 DEF IInv, ReadsInside
<1>14. PathStep
  BY <1>11 DEF PathStep, Path!Next, Path!Deliver
<1>15. QED
  BY <1>13, <1>14

LEMMA StepLemma ==
  ASSUME EventsFit, IInv, [Next]_vars
  PROVE  IInv' /\ PathStep
<1>1. ASSUME NEW interface \in Interfaces, NEW opcode \in Opcodes(interface),
             NEW args \in ArgsOf(sent + 1, interface, opcode), Emit(interface, opcode, args)
      PROVE  IInv' /\ PathStep
  BY <1>1, EmitLemma
<1>2. CASE Recv
  BY <1>2, RecvLemma
<1>3. CASE Handle
  BY <1>3, HandleLemma
<1>4. CASE UNCHANGED vars
  <2>1. UNCHANGED <<sent, expected, stream, batch, called, floats, strayed, failure>>
    BY <1>4, Zenon DEF vars
  <2>2. Queued' /\ FixedNear' /\ ReadsInside'
    <3>1. Queued'
      BY <2>1, Zenon DEF IInv, Queued
    <3>2. FixedNear' /\ ReadsInside'
      BY <2>1 DEF IInv, FixedNear, ReadsInside
    <3>3. QED
      BY <3>1, <3>2
  <2>3. IInv'
    BY <2>1, <2>2 DEF IInv
  <2>4. QED
    BY <2>1, <2>3 DEF PathStep
<1>5. QED
  BY <1>1, <1>2, <1>3, <1>4, Zenon DEF Next

\* No reader leaves its message.
THEOREM AlwaysReadsInside == Spec => []ReadsInside
<1>1. Init => IInv
  BY FitLemma, InitLemma
<1>2. IInv /\ [Next]_vars => IInv'
  BY FitLemma, StepLemma
<1>3. IInv => ReadsInside
  BY DEF IInv
<1>4. QED
  BY <1>1, <1>2, <1>3, PTL DEF Spec

\* A wl_fixed is read as it was sent, or at most 1/256 above.
THEOREM AlwaysFixedNear == Spec => []FixedNear
<1>1. Init => IInv
  BY FitLemma, InitLemma
<1>2. IInv /\ [Next]_vars => IInv'
  BY FitLemma, StepLemma
<1>3. IInv => FixedNear
  BY DEF IInv
<1>4. QED
  BY <1>1, <1>2, <1>3, PTL DEF Spec

\* Listeners are called once for every event they are declared for, in order and
\* with the values that were sent, but for the five that the tables of the client
\* list as uncalled: wl_pointer's axis_stop and those of wl_surface.
THEOREM AlwaysCalledAsSent == Spec => CalledAsSent
<1>1. Init => IInv /\ Path!Init
  BY FitLemma, InitLemma
<1>2. IInv /\ [Next]_vars => IInv' /\ PathStep
  BY FitLemma, StepLemma
<1>3. PathStep => [Path!Next]_<<expected, called>>
  BY DEF PathStep
<1>4. QED
  BY <1>1, <1>2, <1>3, PTL DEF Spec, CalledAsSent, Path!Spec

=============================================================================
