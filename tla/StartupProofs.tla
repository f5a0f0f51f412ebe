---------------------------- MODULE StartupProofs -----------------------------
(***************************************************************************)
(* What holds of the start-up for any lists of globals, any number of them *)
(* added or taken back at any time, any page and any capabilities.         *)
(*                                                                         *)
(* Two things are not in the state and are chosen with it: `kind', which   *)
(* both ends agree on for every id of the client, and `seen', the name of  *)
(* the last global handled.                                                *)
(***************************************************************************)
EXTENDS Startup, FiniteSetTheorems, FunctionTheorems, WellFoundedInduction, TLAPS

\* The window is there; so are the requests main made for it.
WindowBuilt == started \/ pc = "devices"
Built == IF started THEN 7 ELSE IF pc = "devices" THEN 3 ELSE 0

Several(interface) == \E a, b \in Names(interface) : a # b

\* The requests the compositor has not served, and the events not handled.
Unserved == socket \o queue
Unhandled == batch \o incoming

Makes(r) == r.op # "other"

\* Ids are given out in one row, one for a global at most, and seven by main.
IdsInv(seen) ==
  /\ seen \in 0 .. Len(globals)
  /\ Len(globals) <= MaxGlobals
  /\ \E top \in Nat :
       /\ ids = WL_NEW_ID_MIN .. (top - 1)
       /\ WL_NEW_ID_MIN < top /\ top <= WL_NEW_ID_MIN + 1 + seen + Built

\* Both ends have the kind of an id right.
KindsInv(kind) ==
  /\ \A id \in DOMAIN objects : objects[id] = kind[id]
  /\ \A id \in DOMAIN resources : resources[id] = kind[id]
  /\ kind[DISPLAY_OBJ_ID] = "wl_display" /\ kind[REGISTRY] = "wl_registry"
  /\ DISPLAY_OBJ_ID \in DOMAIN resources
  /\ DOMAIN resources \subseteq ids \cup {DISPLAY_OBJ_ID}
  /\ \A interface \in Bindable :
       bound[interface] # NULL_OBJ_ID =>
         /\ kind[bound[interface]] = interface
         /\ interface # "wl_compositor" => bound[interface] \in DOMAIN objects

\* Globals among the events come in the order of their names.
InOrder(events, seen, last) ==
  /\ \A k \in DOMAIN events :
       events[k].ev = "global" => events[k].name \in (seen + 1) .. last
  /\ \A j, k \in DOMAIN events :
       j < k /\ events[j].ev = "global" /\ events[k].ev = "global"
         => events[j].name < events[k].name

\* What is on its way to the client: the globals not seen yet, each once.
EventsInv(seen) ==
  /\ InOrder(Unhandled, seen, Len(globals))
  /\ \A k \in DOMAIN Unhandled :
       /\ Unhandled[k].ev = "global_remove" => gone # {}
       /\ Unhandled[k].ev = "event" => Unhandled[k].on \in DOMAIN resources
  /\ REGISTRY \notin DOMAIN resources => seen = 0

\* The requests in row make the ids known and not served, the lower ones
\* first, and none uses an id that it or a later one makes.
InTurn(row, known, served) ==
  /\ \A id \in known : id \in served \/ \E k \in DOMAIN row : Makes(row[k]) /\ row[k].id = id
  /\ \A k \in DOMAIN row : Makes(row[k]) => row[k].id \in known \ served
  /\ \A j, k \in DOMAIN row :
       /\ j < k /\ Makes(row[j]) /\ Makes(row[k]) => row[j].id < row[k].id
       /\ j <= k /\ Makes(row[k]) => row[k].id # row[j].on

\* A request the compositor can serve, when its turn has come.
Servable(kind, r) ==
  /\ Makes(r) => kind[r.id] = r.kind
  /\ r.op = "get_registry" => r.on = DISPLAY_OBJ_ID /\ r.id = REGISTRY
  /\ r.op = "bind" => /\ r.on = REGISTRY
                      /\ r.name \in DOMAIN globals /\ globals[r.name] = r.kind
  /\ r.op = "other" => r.on \in ids
  /\ r.op = "new" =>
       /\ r.kind \in DOMAIN Factory
       /\ \/ r.on \in ids /\ kind[r.on] = Factory[r.kind]
          \/ r.on = NULL_OBJ_ID /\ ~InFirstRecv("wl_compositor")

\* What is on its way to the compositor.
RequestsInv(kind) ==
  /\ InTurn(Unserved, ids, DOMAIN resources)
  /\ \A k \in DOMAIN Unserved : Servable(kind, Unserved[k])

\* The event of a global main needs was received, and is handled or about to be.
Received(name) ==
  \/ \E j \in DOMAIN batch : batch[j].ev = "global" /\ batch[j].name = name
  \/ globals[name] \notin Bindable
  \/ bound[globals[name]] # NULL_OBJ_ID

\* What main made and was given so far is all there.
Furnished ==
  /\ ~NullDereference
  /\ \E i \in DOMAIN objects : objects[i] = "wl_surface"

\* How far main is.
PhaseInv ==
  /\ pc # "handle" => batch = <<>>
  /\ pc \in {"window", "devices"} => ~started
  /\ WindowBuilt => Furnished
  /\ REGISTRY \notin DOMAIN resources =>
       /\ ~started /\ pc \in {"dispatch", "recv"}
       /\ incoming = <<>> /\ early = <<>>
       /\ ids = {REGISTRY}
       /\ failure = "none" /\ ~protocol_error
  /\ ~WindowBuilt =>
       /\ DOMAIN resources \subseteq {DISPLAY_OBJ_ID, REGISTRY}
       /\ \A k \in DOMAIN socket : socket[k].op = "get_registry"
       /\ pc = "dispatch" =>
            /\ REGISTRY \notin DOMAIN resources /\ socket = <<>>
            /\ \A k \in DOMAIN queue : queue[k].op = "get_registry"
       /\ pc = "recv" =>
            \A k \in DOMAIN early :
              k \in DOMAIN incoming /\ incoming[k] = E("global", REGISTRY, early[k])
       /\ pc \in {"handle", "window"} =>
            \A k \in DOMAIN early : k <= BatchMax => Received(early[k])

\* Objects that need a listener have one, but for a second seat or shm.
ListenersInv(seen) ==
  /\ \A interface \in {"wl_shm", "wl_seat"} : \A i \in DOMAIN objects :
       objects[i] = interface =>
         /\ \E name \in Names(interface) : name <= seen
         /\ \A j \in DOMAIN objects : i # j /\ objects[j] = interface => Several(interface)
  /\ \A interface \in NeedsListener : \A i \in DOMAIN objects :
       objects[i] = interface /\ i \notin listening =>
         interface \in {"wl_shm", "wl_seat"} /\ (WindowBuilt => Several(interface))

\* Why the client ended.
CausesInv ==
  /\ failure = "listener" => Several("wl_seat") \/ Several("wl_shm")
  /\ failure = "null" => \E i \in Required : ~InFirstRecv(i)
  /\ failure = "callback" => gone # {}
  /\ protocol_error => ~InFirstRecv("wl_compositor") \/ capable # Devices

Parts(kind, seen) ==
  /\ IdsInv(seen)
  /\ KindsInv(kind)
  /\ EventsInv(seen)
  /\ ~protocol_error => RequestsInv(kind)
  /\ PhaseInv
  /\ ListenersInv(seen)
  /\ CausesInv

\* The inductive invariant.
IInv == TypeOK /\ \E kind \in [Nat -> Kinds], seen \in Nat : Parts(kind, seen)
-----------------------------------------------------------------------------
(* Sequences. *)

LEMMA ConcatLemma ==
  ASSUME NEW S, NEW s \in Seq(S), NEW t \in Seq(S)
  PROVE  /\ s \o t \in Seq(S)
         /\ Len(s \o t) = Len(s) + Len(t)
         /\ DOMAIN (s \o t) = 1 .. (Len(s) + Len(t))
         /\ DOMAIN s = 1 .. Len(s) /\ DOMAIN t = 1 .. Len(t)
         /\ Len(s) \in Nat /\ Len(t) \in Nat
         /\ \A k \in 1 .. Len(s) : (s \o t)[k] = s[k]
         /\ \A k \in 1 .. Len(t) : (s \o t)[Len(s) + k] = t[k]
  OBVIOUS

LEMMA ConcatEmpty ==
  ASSUME NEW S, NEW s \in Seq(S)
  PROVE  s \o <<>> = s /\ <<>> \o s = s /\ <<>> \in Seq(S) /\ DOMAIN <<>> = {} /\ Len(<<>>) = 0
  OBVIOUS

LEMMA ConcatAppend ==
  ASSUME NEW S, NEW s \in Seq(S), NEW t \in Seq(S), NEW e \in S
  PROVE  s \o Append(t, e) = Append(s \o t, e) /\ Append(t, e) \in Seq(S)
  OBVIOUS

\* Four more elements, one after the other.
LEMMA ConcatFour ==
  ASSUME NEW S, NEW s \in Seq(S), NEW a \in S, NEW b \in S, NEW c \in S, NEW d \in S
  PROVE  s \o <<a, b, c, d>> = Append(Append(Append(Append(s, a), b), c), d)
  OBVIOUS

LEMMA ConcatAssociates ==
  ASSUME NEW S, NEW s \in Seq(S), NEW t \in Seq(S), NEW u \in Seq(S)
  PROVE  s \o (t \o u) = (s \o t) \o u
  OBVIOUS

LEMMA AppendLemma ==
  ASSUME NEW S, NEW s \in Seq(S), NEW e \in S
  PROVE  /\ Append(s, e) \in Seq(S) /\ Len(s) \in Nat
         /\ DOMAIN s = 1 .. Len(s) /\ DOMAIN Append(s, e) = 1 .. (Len(s) + 1)
         /\ \A k \in 1 .. Len(s) : Append(s, e)[k] = s[k]
         /\ Append(s, e)[Len(s) + 1] = e
         /\ \A k \in 1 .. (Len(s) + 1) : k \in 1 .. Len(s) \/ k = Len(s) + 1
  OBVIOUS

LEMMA TailLemma ==
  ASSUME NEW S, NEW s \in Seq(S), s # <<>>
  PROVE  /\ Len(s) \in Nat /\ Len(s) >= 1 /\ DOMAIN s = 1 .. Len(s) /\ 1 \in DOMAIN s
         /\ Head(s) = s[1] /\ Head(s) \in S
         /\ Tail(s) \in Seq(S) /\ DOMAIN Tail(s) = 1 .. (Len(s) - 1)
         /\ \A k \in DOMAIN Tail(s) : k + 1 \in DOMAIN s /\ Tail(s)[k] = s[k + 1]
         /\ \A k \in DOMAIN s : k # 1 => k - 1 \in DOMAIN Tail(s) /\ Tail(s)[k - 1] = s[k]
  OBVIOUS

LEMMA TailOfConcat ==
  ASSUME NEW S, NEW s \in Seq(S), NEW t \in Seq(S), s # <<>>
  PROVE  Tail(s) \o t = Tail(s \o t) /\ s \o t # <<>> /\ Head(s \o t) = Head(s)
  OBVIOUS

LEMMA SequenceEquality ==
  ASSUME NEW S, NEW s \in Seq(S), NEW t \in Seq(S), Len(s) = Len(t),
         \A k \in 1 .. Len(s) : s[k] = t[k]
  PROVE  s = t
  OBVIOUS

\* A sequence cut after n elements.
LEMMA CutLemma ==
  ASSUME NEW S, NEW s \in Seq(S), NEW n \in 0 .. Len(s)
  PROVE  /\ SubSeq(s, 1, n) \in Seq(S) /\ SubSeq(s, n + 1, Len(s)) \in Seq(S)
         /\ SubSeq(s, 1, n) \o SubSeq(s, n + 1, Len(s)) = s
         /\ DOMAIN SubSeq(s, 1, n) = 1 .. n
         /\ \A k \in 1 .. n : SubSeq(s, 1, n)[k] = s[k]
         /\ Len(s) \in Nat /\ DOMAIN s = 1 .. Len(s)
  <1> DEFINE a == SubSeq(s, 1, n)
             b == SubSeq(s, n + 1, Len(s))
             m == Len(s)
  <1>1. /\ a \in Seq(S) /\ Len(a) = n /\ DOMAIN a = 1 .. n /\ m \in Nat /\ DOMAIN s = 1 .. m
        /\ \A k \in 1 .. n : a[k] = s[k]
    OBVIOUS
  <1>2. /\ b \in Seq(S) /\ Len(b) = m - n
        /\ \A k \in 1 .. (m - n) : b[k] = s[n + k]
    OBVIOUS
  <1> HIDE DEF a, b, m
  <1> DEFINE ab == a \o b
  <1>3. /\ ab \in Seq(S) /\ Len(ab) = Len(a) + Len(b)
        /\ \A k \in 1 .. Len(a) : ab[k] = a[k]
        /\ \A k \in 1 .. Len(b) : ab[Len(a) + k] = b[k]
    <2>1. a \in Seq(S) /\ b \in Seq(S)
      BY <1>1, <1>2
    <2> QED BY <2>1, ConcatLemma
  <1> HIDE DEF ab
  <1>4. Len(ab) = m /\ n \in 0 .. m
    BY <1>1, <1>2, <1>3 DEF m
  <1>5. ASSUME NEW k \in 1 .. m PROVE ab[k] = s[k]
    <2>1. CASE k <= n
      BY <1>1, <1>3, <1>4, <2>1
    <2>2. CASE k > n
      <3> DEFINE j == k - n
      <3>1. j \in 1 .. (m - n) /\ n + j = k
        BY <1>1, <1>4, <2>2
      <3> HIDE DEF j
      <3> QED BY <1>1, <1>2, <1>3, <3>1
    <2> QED BY <1>1, <1>4, <2>1, <2>2
  <1>6. ab = s
    BY <1>3, <1>4, <1>5, SequenceEquality DEF m
  <1> QED BY <1>1, <1>2, <1>6 DEF ab, a, b, m

LEMMA ListType ==
  ASSUME NEW S, NEW n \in Nat, NEW f \in [1 .. n -> S]
  PROVE  f \in Seq(S) /\ Len(f) = n
  OBVIOUS
-----------------------------------------------------------------------------
(* The n lowest of a set. *)

\* The list of a set of numbers tells its n-th lowest member.
LEMMA LowestOfListed ==
  ASSUME NEW m \in Nat, NEW list \in [1 .. m -> Nat],
         \A j, k \in 1 .. m : j < k => list[j] < list[k]
  PROVE  LET S == {list[k] : k \in 1 .. m}
         IN Cardinality(S) = m /\ Lowest(S, m) = list
  <1> DEFINE S == {list[k] : k \in 1 .. m}
             Below(i) == {j \in S : j < i}
             nth(k) == CHOOSE i \in S : Cardinality(Below(i)) = k - 1
  <1>1. \A k \in 1 .. m : list[k] \in Nat /\ list[k] \in S
    OBVIOUS
  <1>2. ASSUME NEW n \in 0 .. m PROVE Cardinality({list[j] : j \in 1 .. n}) = n
    <2> DEFINE T == {list[j] : j \in 1 .. n}
               f == [j \in 1 .. n |-> list[j]]
    <2>1. n \in Nat /\ \A j \in 1 .. n : j \in 1 .. m
      OBVIOUS
    <2>2. \A i, j \in 1 .. n : f[i] = f[j] => i = j
      <3> TAKE i, j \in 1 .. n
      <3>1. i < j => list[i] < list[j]
        BY <2>1
      <3>2. j < i => list[j] < list[i]
        BY <2>1
      <3>3. list[i] \in Nat /\ list[j] \in Nat /\ f[i] = list[i] /\ f[j] = list[j]
        BY <2>1
      <3> HIDE DEF f
      <3> QED BY <3>1, <3>2, <3>3
    <2>3. f \in [1 .. n -> T] /\ \A t \in T : \E j \in 1 .. n : f[j] = t
      OBVIOUS
    <2> HIDE DEF T, f
    <2>4. f \in Bijection(1 .. n, T)
      BY <2>2, <2>3, Fun_IsBij
    <2>5. ExistsBijection(1 .. n, T)
      BY <2>4 DEF ExistsBijection
    <2>6. Cardinality(T) = n
      BY <2>1, <2>5, FS_CountingElements
    <2> QED BY <2>6 DEF T
  <1>3. ASSUME NEW k \in 1 .. m PROVE Below(list[k]) = {list[j] : j \in 1 .. (k - 1)}
    <2>1. \A j \in 1 .. m : list[j] < list[k] <=> j < k
      <3> TAKE j \in 1 .. m
      <3>1. j < k => list[j] < list[k]
        OBVIOUS
      <3>2. k < j => list[k] < list[j]
        OBVIOUS
      <3>3. list[j] \in Nat /\ list[k] \in Nat /\ (j = k => list[j] = list[k])
        OBVIOUS
      <3> HIDE DEF S, Below, nth
      <3> QED BY <3>1, <3>2, <3>3
    <2>2. \A j \in 1 .. (k - 1) : j \in 1 .. m /\ j < k
      OBVIOUS
    <2>3. \A j \in 1 .. m : j < k => j \in 1 .. (k - 1)
      OBVIOUS
    <2> QED BY <2>1, <2>2, <2>3
  <1>4. ASSUME NEW k \in 1 .. m PROVE Cardinality(Below(list[k])) = k - 1
    <2>1. k - 1 \in 0 .. m
      OBVIOUS
    <2> QED BY <1>2, <1>3, <2>1
  <1> HIDE DEF Below
  <1>5. ASSUME NEW k \in 1 .. m PROVE nth(k) = list[k]
    <2>1. list[k] \in S /\ Cardinality(Below(list[k])) = k - 1
      BY <1>4
    <2>2. \A i \in S : Cardinality(Below(i)) = k - 1 => i = list[k]
      BY <1>4
    <2> QED BY <2>1, <2>2
  <1>6. Cardinality(S) = m
    BY <1>2
  <1>7. Lowest(S, m) = [k \in 1 .. m |-> nth(k)]
    BY DEF Lowest, Below
  <1> HIDE DEF nth
  <1>8. Lowest(S, m) = list
    BY <1>5, <1>7
  <1> QED BY <1>6, <1>8

\* Every set of numbers has a list: the least n without one would have one.
LEMMA EverySetListed ==
  ASSUME NEW n \in Nat, NEW S, S \subseteq 1 .. n
  PROVE  \E m \in Nat : \E list \in [1 .. m -> 1 .. n] :
           /\ \A j, k \in 1 .. m : j < k => list[j] < list[k]
           /\ S = {list[k] : k \in 1 .. m}
  <1> DEFINE Listed(T, t) == \E m \in Nat : \E list \in [1 .. m -> 1 .. t] :
                               /\ \A j, k \in 1 .. m : j < k => list[j] < list[k]
                               /\ T = {list[k] : k \in 1 .. m}
             Less == {ss \in Nat \X Nat : ss[1] < ss[2]}
             Bad == {t \in Nat : \E T : T \subseteq 1 .. t /\ ~Listed(T, t)}
  <1>1. IsWellFoundedOn(Less, Nat)
    BY NatLessThanWellFounded DEF OpToRel
  <1>2. ASSUME NEW t \in Nat, NEW T, T \subseteq 1 .. t, t = 0 \/ t - 1 \notin Bad
        PROVE  Listed(T, t)
    <2>1. CASE T = {}
      <3> DEFINE none == [k \in 1 .. 0 |-> 1]
      <3>1. none \in [1 .. 0 -> 1 .. t] /\ 0 \in Nat /\ 1 .. 0 = {}
        OBVIOUS
      <3> HIDE DEF none
      <3> QED BY <2>1, <3>1
    <2>2. CASE T # {}
      <3> HIDE DEF Bad
      <3>1. t - 1 \in Nat /\ t - 1 \notin Bad /\ t \in 1 .. t
        <4>1. PICK x \in T : TRUE
          BY <2>2
        <4>2. x \in 1 .. t
          BY <1>2, <4>1
        <4>3. t # 0
          BY <4>2
        <4> QED BY <1>2, <4>3
      <3> DEFINE rest == T \ {t}
      <3>2. rest \subseteq 1 .. (t - 1)
        BY <1>2, <3>1
      <3>3. PICK m \in Nat : \E list \in [1 .. m -> 1 .. (t - 1)] :
              /\ \A j, k \in 1 .. m : j < k => list[j] < list[k]
              /\ rest = {list[k] : k \in 1 .. m}
        <4>1. Listed(rest, t - 1)
          <5> HIDE DEF Listed, rest
          <5> QED BY <3>1, <3>2 DEF Bad
        <4> QED BY <4>1
      <3>4. PICK list \in [1 .. m -> 1 .. (t - 1)] :
              /\ \A j, k \in 1 .. m : j < k => list[j] < list[k]
              /\ rest = {list[k] : k \in 1 .. m}
        BY <3>3
      <3>5. \A k \in 1 .. m : list[k] \in 1 .. t /\ list[k] < t /\ list[k] \in 1 .. (t - 1)
        BY <3>1
      <3>6. CASE t \notin T
        <4>1. rest = T
          BY <3>6
        <4>2. list \in [1 .. m -> 1 .. t]
          BY <3>5
        <4> QED BY <3>4, <4>1, <4>2
      <3>7. CASE t \in T
        <4> DEFINE longer == [k \in 1 .. (m + 1) |-> IF k = m + 1 THEN t ELSE list[k]]
        <4>1. \A k \in 1 .. (m + 1) : k # m + 1 => k \in 1 .. m
          OBVIOUS
        <4>2. \A k \in 1 .. m : k \in 1 .. (m + 1) /\ longer[k] = list[k]
          OBVIOUS
        <4>3. m + 1 \in 1 .. (m + 1) /\ longer[m + 1] = t /\ m + 1 \in Nat
          OBVIOUS
        <4>4. longer \in [1 .. (m + 1) -> 1 .. t]
          BY <3>1, <3>5, <4>1
        <4> HIDE DEF longer
        <4>5. ASSUME NEW j \in 1 .. (m + 1), NEW k \in 1 .. (m + 1), j < k
              PROVE  longer[j] < longer[k]
          <5>1. j \in 1 .. m
            BY <4>5
          <5>2. CASE k = m + 1
            BY <3>5, <4>2, <4>3, <5>1, <5>2
          <5>3. CASE k # m + 1
            BY <3>4, <4>1, <4>2, <4>5, <5>1, <5>3
          <5> QED BY <5>2, <5>3
        <4>6. T = {longer[k] : k \in 1 .. (m + 1)}
          <5>1. T = rest \cup {t}
            BY <3>7
          <5> HIDE DEF rest
          <5>2. {longer[k] : k \in 1 .. (m + 1)} = {list[k] : k \in 1 .. m} \cup {t}
            BY <4>1, <4>2, <4>3
          <5> QED BY <3>4, <5>1, <5>2
        <4> QED BY <4>3, <4>4, <4>5, <4>6
      <3> QED BY <3>6, <3>7
    <2> QED BY <2>1, <2>2
  <1> HIDE DEF Listed
  <1>3. Bad = {}
    <2> SUFFICES ASSUME Bad # {} PROVE FALSE
      OBVIOUS
    <2>1. Bad \subseteq Nat
      OBVIOUS
    <2> HIDE DEF Bad, Less
    <2>2. PICK t \in Bad : \A u \in Bad : ~(<<u, t>> \in Less)
      BY <1>1, <2>1, WFMin
    <2>3. t \in Nat /\ \E T : T \subseteq 1 .. t /\ ~Listed(T, t)
      BY <2>2 DEF Bad
    <2>4. t = 0 \/ t - 1 \notin Bad
      <3> SUFFICES ASSUME t # 0 PROVE t - 1 \notin Bad
        OBVIOUS
      <3>1. t - 1 \in Nat /\ t - 1 < t
        BY <2>3
      <3>2. <<t - 1, t>> \in Less
        BY <2>3, <3>1 DEF Less
      <3> QED BY <2>2, <3>2
    <2> QED BY <1>2, <2>3, <2>4
  <1>4. Listed(S, n)
    BY <1>3
  <1> QED BY <1>4 DEF Listed

\* The names of the globals there are, in order.
LEMMA LowestNames ==
  ASSUME NEW n \in Nat, NEW S, S \subseteq 1 .. n
  PROVE  LET list == Lowest(S, Cardinality(S))
         IN /\ list \in Seq(S) /\ list \in Seq(1 .. n)
            /\ \A k \in DOMAIN list : list[k] \in 1 .. n
            /\ \A j, k \in DOMAIN list : j < k => list[j] < list[k]
  <1>1. PICK m \in Nat : \E l \in [1 .. m -> 1 .. n] :
          /\ \A j, k \in 1 .. m : j < k => l[j] < l[k]
          /\ S = {l[k] : k \in 1 .. m}
    BY EverySetListed
  <1>2. PICK l \in [1 .. m -> 1 .. n] :
          /\ \A j, k \in 1 .. m : j < k => l[j] < l[k]
          /\ S = {l[k] : k \in 1 .. m}
    BY <1>1
  <1>3. l \in [1 .. m -> Nat] /\ l \in [1 .. m -> S]
    BY <1>2
  <1>4. Cardinality(S) = m /\ Lowest(S, m) = l
    BY <1>2, <1>3, LowestOfListed
  <1>5. l \in Seq(S) /\ l \in Seq(1 .. n) /\ DOMAIN l = 1 .. m
    BY <1>3, ListType
  <1> QED BY <1>2, <1>4, <1>5

\* Of a row of numbers the lowest come first.
LEMMA LowestOfRow ==
  ASSUME NEW a \in Nat, NEW b \in Nat, NEW n \in Nat, a + n <= b
  PROVE  Lowest(a .. (b - 1), n) = [k \in 1 .. n |-> (a + k) - 1]
  <1> DEFINE row == a .. (b - 1)
             Below(i) == {j \in row : j < i}
             nth(k) == CHOOSE i \in row : Cardinality(Below(i)) = k - 1
  <1>1. ASSUME NEW i \in row PROVE Cardinality(Below(i)) = i - a
    <2>1. Below(i) = a .. (i - 1)
      OBVIOUS
    <2>2. a \in Int /\ i - 1 \in Int
      OBVIOUS
    <2>3. Cardinality(a .. (i - 1)) = IF a > i - 1 THEN 0 ELSE (i - 1) - a + 1
      BY <2>2, FS_Interval
    <2>4. i \in Int /\ i >= a
      OBVIOUS
    <2> HIDE DEF row, Below
    <2> QED BY <2>1, <2>3, <2>4
  <1>2. ASSUME NEW k \in 1 .. n PROVE nth(k) = (a + k) - 1
    <2> DEFINE at == (a + k) - 1
    <2>1. at \in row /\ at - a = k - 1
      OBVIOUS
    <2>2. \A i \in row : i - a = k - 1 => i = at
      OBVIOUS
    <2> HIDE DEF row, at, Below
    <2>3. Cardinality(Below(at)) = k - 1
      BY <1>1, <2>1
    <2>4. \A i \in row : Cardinality(Below(i)) = k - 1 => i = at
      BY <1>1, <2>2
    <2> QED BY <2>1, <2>3, <2>4 DEF at
  <1>3. Lowest(row, n) = [k \in 1 .. n |-> nth(k)]
    BY DEF Lowest
  <1> HIDE DEF nth
  <1> QED BY <1>2, <1>3
-----------------------------------------------------------------------------
(* What is on its way, in either direction. *)

LEMMA EventsAppend ==
  ASSUME NEW events \in Seq(Events), NEW e \in Events, NEW seen \in Nat, NEW last \in Nat,
         NEW more \in Nat, last <= more,
         InOrder(events, seen, last),
         e.ev = "global" => e.name \in (seen + 1) .. more /\ e.name > last
  PROVE  InOrder(Append(events, e), seen, more)
  <1> DEFINE longer == Append(events, e)
             n == Len(events)
  <1>1. /\ n \in Nat /\ DOMAIN events = 1 .. n /\ DOMAIN longer = 1 .. (n + 1)
        /\ \A k \in 1 .. n : longer[k] = events[k]
        /\ longer[n + 1] = e
        /\ \A k \in 1 .. (n + 1) : k \in 1 .. n \/ k = n + 1
    BY AppendLemma
  <1> HIDE DEF longer, n
  <1>2. \A k \in 1 .. n : events[k].ev = "global" => events[k].name \in (seen + 1) .. last
    BY <1>1 DEF InOrder
  <1>3. ASSUME NEW k \in 1 .. (n + 1), longer[k].ev = "global"
        PROVE  longer[k].name \in (seen + 1) .. more
    BY <1>1, <1>2, <1>3
  <1>4. ASSUME NEW j \in 1 .. (n + 1), NEW k \in 1 .. (n + 1), j < k,
               longer[j].ev = "global", longer[k].ev = "global"
        PROVE  longer[j].name < longer[k].name
    <2>1. j \in 1 .. n
      BY <1>1, <1>4
    <2>2. events[j].ev = "global" /\ longer[j].name = events[j].name
      BY <1>1, <1>4, <2>1
    <2>3. CASE k \in 1 .. n
      BY <1>1, <1>4, <2>1, <2>3 DEF InOrder
    <2>4. CASE k = n + 1
      <3>1. events[j].name \in (seen + 1) .. last /\ e.ev = "global" /\ longer[k].name = e.name
        BY <1>1, <1>2, <1>4, <2>1, <2>2, <2>4
      <3> QED BY <2>2, <3>1
    <2> QED BY <1>1, <2>3, <2>4
  <1>5. InOrder(longer, seen, more)
    BY <1>1, <1>3, <1>4 DEF InOrder
  <1> QED BY <1>5 DEF longer

\* The head is handled; the globals behind it have higher names.
LEMMA EventsTail ==
  ASSUME NEW events \in Seq(Events), events # <<>>, NEW seen \in Nat, NEW last \in Nat,
         InOrder(events, seen, last)
  PROVE  LET now == IF Head(events).ev = "global" THEN Head(events).name ELSE seen
         IN /\ Head(events).ev = "global" => now \in (seen + 1) .. last
            /\ InOrder(Tail(events), now, last)
  <1> DEFINE now == IF Head(events).ev = "global" THEN Head(events).name ELSE seen
             rest == Tail(events)
             first == Head(events)
  <1>1. /\ DOMAIN events = 1 .. Len(events) /\ 1 \in DOMAIN events /\ first = events[1]
        /\ Len(events) \in Nat
        /\ \A k \in DOMAIN rest : k + 1 \in DOMAIN events /\ rest[k] = events[k + 1]
        /\ DOMAIN rest = 1 .. (Len(events) - 1)
    BY TailLemma
  <1> HIDE DEF rest, first
  <1>2. first.ev = "global" => now \in (seen + 1) .. last
    BY <1>1 DEF InOrder, first
  <1>3. ASSUME NEW k \in DOMAIN rest, rest[k].ev = "global"
        PROVE  rest[k].name \in (now + 1) .. last
    <2>1. /\ k + 1 \in DOMAIN events /\ rest[k] = events[k + 1] /\ 1 < k + 1
          /\ events[k + 1].ev = "global"
      BY <1>1, <1>3
    <2>2. events[k + 1].name \in (seen + 1) .. last
      BY <2>1 DEF InOrder
    <2>3. first.ev = "global" => first.name < events[k + 1].name
      BY <1>1, <2>1 DEF InOrder
    <2>4. CASE first.ev = "global"
      <3>1. now = first.name /\ now \in (seen + 1) .. last
        BY <1>2, <2>4 DEF first
      <3> HIDE DEF now
      <3> QED BY <2>1, <2>2, <2>3, <2>4, <3>1
    <2>5. CASE first.ev # "global"
      <3>1. now = seen
        BY <2>5 DEF first
      <3> QED BY <2>1, <2>2, <3>1
    <2> QED BY <2>4, <2>5
  <1>4. ASSUME NEW j \in DOMAIN rest, NEW k \in DOMAIN rest, j < k,
               rest[j].ev = "global", rest[k].ev = "global"
        PROVE  rest[j].name < rest[k].name
    <2>1. /\ j + 1 \in DOMAIN events /\ rest[j] = events[j + 1]
          /\ k + 1 \in DOMAIN events /\ rest[k] = events[k + 1]
          /\ j + 1 < k + 1
      BY <1>1, <1>4
    <2> QED BY <1>4, <2>1 DEF InOrder
  <1>5. InOrder(rest, now, last)
    BY <1>3, <1>4 DEF InOrder
  <1> QED BY <1>2, <1>5 DEF rest, first

\* A request more, with a new id above all others if it makes one.
LEMMA TurnAppend ==
  ASSUME NEW row \in Seq(Requests), NEW r \in Requests,
         NEW known, known \subseteq Nat, NEW served,
         InTurn(row, known, served),
         Makes(r) => r.id \notin served /\ \A id \in known : id < r.id,
         \A k \in DOMAIN row : Makes(r) => row[k].on # r.id,
         Makes(r) => r.on # r.id
  PROVE  InTurn(Append(row, r), IF Makes(r) THEN known \cup {r.id} ELSE known, served)
  <1> DEFINE longer == Append(row, r)
             more == IF Makes(r) THEN known \cup {r.id} ELSE known
             n == Len(row)
  <1>1. /\ n \in Nat /\ DOMAIN row = 1 .. n /\ DOMAIN longer = 1 .. (n + 1)
        /\ \A k \in 1 .. n : longer[k] = row[k]
        /\ longer[n + 1] = r
        /\ \A k \in 1 .. (n + 1) : k \in 1 .. n \/ k = n + 1
    BY AppendLemma
  <1> HIDE DEF longer, n
  <1>2. ASSUME NEW id \in more
        PROVE  id \in served \/ \E k \in DOMAIN longer : Makes(longer[k]) /\ longer[k].id = id
    <2>1. n + 1 \in 1 .. (n + 1) /\ \A k \in 1 .. n : k \in 1 .. (n + 1)
      BY <1>1
    <2>2. CASE id \in known
      <3>1. id \in served \/ \E k \in 1 .. n : Makes(row[k]) /\ row[k].id = id
        BY <1>1, <2>2 DEF InTurn
      <3> QED BY <1>1, <2>1, <3>1
    <2>3. CASE id \notin known
      <3>1. Makes(r) /\ id = r.id
        BY <1>2, <2>3
      <3> QED BY <1>1, <2>1, <3>1
    <2> QED BY <2>2, <2>3
  <1>3. \A k \in 1 .. n : Makes(row[k]) => row[k].id \in known \ served
    BY <1>1 DEF InTurn
  <1>4. ASSUME NEW k \in DOMAIN longer, Makes(longer[k])
        PROVE  longer[k].id \in more \ served
    BY <1>1, <1>3, <1>4
  <1>5. ASSUME NEW j \in DOMAIN longer, NEW k \in DOMAIN longer
        PROVE  /\ j < k /\ Makes(longer[j]) /\ Makes(longer[k]) => longer[j].id < longer[k].id
               /\ j <= k /\ Makes(longer[k]) => longer[k].id # longer[j].on
    <2>1. CASE k \in 1 .. n
      <3>1. j <= k => j \in 1 .. n
        BY <1>1, <1>5, <2>1
      <3>2. j < k => j <= k
        BY <1>1, <1>5
      <3> QED BY <1>1, <2>1, <3>1, <3>2 DEF InTurn
    <2>2. CASE k = n + 1
      <3>1. longer[k] = r
        BY <1>1, <2>2
      <3>2. j = n + 1 \/ j \in 1 .. n
        BY <1>1, <1>5
      <3>3. CASE j = n + 1
        BY <1>1, <2>2, <3>1, <3>3
      <3>4. CASE j \in 1 .. n
        <4>1. longer[j] = row[j] /\ j \in DOMAIN row
          BY <1>1, <3>4
        <4>2. Makes(row[j]) => row[j].id \in known
          BY <1>3, <3>4
        <4> QED BY <3>1, <4>1, <4>2
      <3> QED BY <3>2, <3>3, <3>4
    <2> QED BY <1>1, <1>5, <2>1, <2>2
  <1>6. InTurn(longer, more, served)
    BY <1>2, <1>4, <1>5 DEF InTurn
  <1> QED BY <1>6 DEF longer, more

\* Requests that make no object may follow whatever there is.
LEMMA TurnOthers ==
  ASSUME NEW row \in Seq(Requests), NEW more \in Seq(Requests),
         \A k \in DOMAIN more : ~Makes(more[k]),
         NEW known, NEW served, InTurn(row, known, served)
  PROVE  InTurn(row \o more, known, served)
  <1> DEFINE longer == row \o more
             n == Len(row)
  <1>1. /\ n \in Nat /\ DOMAIN row = 1 .. n
        /\ \A k \in 1 .. n : k \in DOMAIN longer /\ longer[k] = row[k]
        /\ \A k \in DOMAIN longer : k \in Nat /\ k > 0
        /\ \A k \in DOMAIN longer : k > n => k - n \in DOMAIN more /\ longer[k] = more[k - n]
    OBVIOUS
  <1> HIDE DEF longer, n
  <1>2. ASSUME NEW k \in DOMAIN longer, Makes(longer[k]) PROVE k \in 1 .. n /\ longer[k] = row[k]
    <2>1. ~(k > n)
      BY <1>1, <1>2
    <2>2. k \in 1 .. n
      BY <1>1, <2>1
    <2> QED BY <1>1, <2>2
  <1>3. \A id \in known : id \in served \/ \E k \in DOMAIN longer : Makes(longer[k]) /\ longer[k].id = id
    BY <1>1 DEF InTurn
  <1>4. \A k \in DOMAIN longer : Makes(longer[k]) => longer[k].id \in known \ served
    BY <1>1, <1>2 DEF InTurn
  <1>5. ASSUME NEW j \in DOMAIN longer, NEW k \in DOMAIN longer
        PROVE  /\ j < k /\ Makes(longer[j]) /\ Makes(longer[k]) => longer[j].id < longer[k].id
               /\ j <= k /\ Makes(longer[k]) => longer[k].id # longer[j].on
    <2>1. ASSUME j <= k, Makes(longer[k]) PROVE longer[k].id # longer[j].on
      <3>1. k \in DOMAIN row /\ longer[k] = row[k] /\ Makes(row[k])
        BY <1>1, <1>2, <2>1
      <3>2. j \in 1 .. n
        BY <1>1, <1>2, <2>1
      <3>3. j \in DOMAIN row /\ longer[j] = row[j]
        BY <1>1, <3>2
      <3>4. row[k].id # row[j].on
        BY <2>1, <3>1, <3>3 DEF InTurn
      <3> QED BY <3>1, <3>3, <3>4
    <2>2. ASSUME j < k, Makes(longer[j]), Makes(longer[k]) PROVE longer[j].id < longer[k].id
      <3>1. k \in DOMAIN row /\ longer[k] = row[k] /\ Makes(row[k])
        BY <1>1, <1>2, <2>2
      <3>2. j \in DOMAIN row /\ longer[j] = row[j] /\ Makes(row[j])
        BY <1>1, <1>2, <2>2
      <3>3. row[j].id < row[k].id
        BY <2>2, <3>1, <3>2 DEF InTurn
      <3> QED BY <3>1, <3>2, <3>3
    <2> QED BY <2>1, <2>2
  <1>6. InTurn(longer, known, served)
    BY <1>3, <1>4, <1>5 DEF InTurn
  <1> QED BY <1>6 DEF longer

\* The head can be served: its id is the lowest not served, and what it is
\* about was served before.
LEMMA TurnTail ==
  ASSUME NEW row \in Seq(Requests), row # <<>>,
         NEW known, known \subseteq Nat, NEW served,
         InTurn(row, known, served)
  PROVE  LET r == Head(row)
         IN /\ Makes(r) => /\ r.id \in known \ served
                           /\ \A id \in known : id < r.id => id \in served
            /\ r.on \in known => r.on \in served
            /\ InTurn(Tail(row), known, IF Makes(r) THEN served \cup {r.id} ELSE served)
  <1> DEFINE r == Head(row)
             rest == Tail(row)
             now == IF Makes(r) THEN served \cup {r.id} ELSE served
  <1>1. /\ DOMAIN row = 1 .. Len(row) /\ 1 \in DOMAIN row /\ r = row[1] /\ Len(row) \in Nat
        /\ \A k \in DOMAIN rest : k + 1 \in DOMAIN row /\ rest[k] = row[k + 1]
        /\ \A k \in DOMAIN row : k # 1 => k - 1 \in DOMAIN rest /\ rest[k - 1] = row[k]
        /\ DOMAIN rest = 1 .. (Len(row) - 1)
    BY TailLemma
  <1> HIDE DEF rest, r
  <1>2. \A k \in DOMAIN row : Makes(row[k]) => row[k].id \in known \ served
    BY DEF InTurn
  <1>3. \A id \in known : id \in served \/ \E k \in DOMAIN row : Makes(row[k]) /\ row[k].id = id
    BY DEF InTurn
  <1>4. \A k \in DOMAIN row : k # 1 /\ Makes(r) /\ Makes(row[k]) => r.id < row[k].id
    <2> SUFFICES ASSUME NEW k \in DOMAIN row, k # 1, Makes(r), Makes(row[k])
                 PROVE  r.id < row[k].id
      OBVIOUS
    <2>1. 1 \in DOMAIN row /\ 1 < k /\ r = row[1]
      BY <1>1
    <2> QED BY <2>1 DEF InTurn
  <1>5. ASSUME Makes(r), NEW id \in known, id < r.id
        PROVE  id \in served
    <2> SUFFICES ASSUME NEW k \in DOMAIN row, Makes(row[k]), row[k].id = id PROVE FALSE
      BY <1>3
    <2>1. k # 1 => r.id < id
      BY <1>4, <1>5
    <2>2. k = 1 => r.id = id
      BY <1>1
    <2>3. r.id \in Nat /\ id \in Nat
      BY <1>1, <1>2, <1>5
    <2> QED BY <1>5, <2>1, <2>2, <2>3
  <1>6. ASSUME r.on \in known PROVE r.on \in served
    <2> SUFFICES ASSUME NEW k \in DOMAIN row, Makes(row[k]), row[k].id = r.on PROVE FALSE
      BY <1>3, <1>6
    <2>1. 1 <= k
      BY <1>1
    <2> QED BY <1>1, <2>1 DEF InTurn
  <1>7. ASSUME NEW id \in known
        PROVE  id \in now \/ \E k \in DOMAIN rest : Makes(rest[k]) /\ rest[k].id = id
    <2> SUFFICES ASSUME NEW k \in DOMAIN row, Makes(row[k]), row[k].id = id
                 PROVE  id \in now \/ \E l \in DOMAIN rest : Makes(rest[l]) /\ rest[l].id = id
      BY <1>3, <1>7
    <2>1. CASE k = 1
      BY <1>1, <2>1
    <2>2. CASE k # 1
      <3>1. k - 1 \in DOMAIN rest /\ rest[k - 1] = row[k]
        BY <1>1, <2>2
      <3> QED BY <3>1
    <2> QED BY <2>1, <2>2
  <1>8. ASSUME NEW k \in DOMAIN rest, Makes(rest[k])
        PROVE  rest[k].id \in known \ now
    <2>1. k + 1 \in DOMAIN row /\ rest[k] = row[k + 1] /\ k + 1 # 1
      BY <1>1
    <2>2. rest[k].id \in known \ served /\ (Makes(r) => r.id < rest[k].id)
      BY <1>2, <1>4, <1>8, <2>1
    <2>3. Makes(r) => r.id \in Nat /\ rest[k].id # r.id
      <3> SUFFICES ASSUME Makes(r) PROVE r.id \in Nat /\ rest[k].id # r.id
        OBVIOUS
      <3>1. r.id \in Nat
        BY <1>1, <1>2
      <3>2. rest[k].id \in Nat /\ r.id < rest[k].id
        BY <2>2
      <3> DEFINE a == r.id
                 b == rest[k].id
      <3>3. a \in Nat /\ b \in Nat /\ a < b
        BY <3>1, <3>2
      <3> HIDE DEF a, b
      <3>4. b # a
        BY <3>3
      <3> QED BY <3>1, <3>4 DEF a, b
    <2> QED BY <2>2, <2>3
  <1>9. ASSUME NEW j \in DOMAIN rest, NEW k \in DOMAIN rest
        PROVE  /\ j < k /\ Makes(rest[j]) /\ Makes(rest[k]) => rest[j].id < rest[k].id
               /\ j <= k /\ Makes(rest[k]) => rest[k].id # rest[j].on
    <2>1. /\ j + 1 \in DOMAIN row /\ rest[j] = row[j + 1]
          /\ k + 1 \in DOMAIN row /\ rest[k] = row[k + 1]
          /\ (j < k => j + 1 < k + 1) /\ (j <= k => j + 1 <= k + 1)
      BY <1>1, <1>9
    <2> QED BY <2>1 DEF InTurn
  <1>10. InTurn(rest, known, now)
    BY <1>7, <1>8, <1>9 DEF InTurn
  <1> HIDE DEF now
  <1>11. Makes(r) => r.id \in known \ served
    BY <1>1, <1>2
  <1> QED BY <1>5, <1>6, <1>10, <1>11 DEF r, rest, now
-----------------------------------------------------------------------------
(* Values. *)

LEMMA Constants ==
  /\ WL_NEW_ID_MIN \in Nat /\ WL_NEW_ID_MIN >= 2 /\ WL_NEW_ID_MAX \in Nat
  /\ REGISTRY = WL_NEW_ID_MIN /\ DISPLAY_OBJ_ID = 1 /\ NULL_OBJ_ID = 0
  /\ BatchMax \in Nat /\ BatchMax >= 1 /\ MaxGlobals \in Nat /\ MaxEmits \in Nat
  /\ WL_NEW_ID_MAX >= WL_NEW_ID_MIN + MaxGlobals + 8
  BY IdRangeAssumption, StartupAssumption DEF REGISTRY, DISPLAY_OBJ_ID, NULL_OBJ_ID

LEMMA KindsLemma ==
  /\ DOMAIN Factory = {"wl_surface", "xdg_surface", "xdg_toplevel", "wl_pointer",
                       "wl_keyboard", "wl_shm_pool", "wl_buffer"}
  /\ Factory["wl_surface"] = "wl_compositor" /\ Factory["xdg_surface"] = "xdg_wm_base"
  /\ Factory["xdg_toplevel"] = "xdg_surface" /\ Factory["wl_pointer"] = "wl_seat"
  /\ Factory["wl_keyboard"] = "wl_seat" /\ Factory["wl_shm_pool"] = "wl_shm"
  /\ Factory["wl_buffer"] = "wl_shm_pool"
  /\ Bindable = {"wl_compositor", "wl_shm", "xdg_wm_base", "wl_seat", "wl_output"}
  /\ Bindable \subseteq Kinds /\ DOMAIN Factory \subseteq Kinds
  /\ "wl_registry" \in Kinds /\ "wl_display" \in Kinds
  BY DEF Factory, Bindable, Required, Kinds

LEMMA RequestType ==
  ASSUME NEW op \in {"get_registry", "bind", "new", "other"}, NEW on \in Nat, NEW id \in Nat,
         NEW name \in Nat, NEW k \in Kinds
  PROVE  LET r == R(op, on, id, name, k)
         IN /\ r \in Requests
            /\ r.op = op /\ r.on = on /\ r.id = id /\ r.name = name /\ r.kind = k
            /\ Makes(r) <=> op # "other"
  BY DEF R, Requests, Makes

LEMMA RequestFields ==
  ASSUME NEW r \in Requests
  PROVE  /\ r.op \in {"get_registry", "bind", "new", "other"} /\ r.on \in Nat /\ r.id \in Nat
         /\ r.name \in Nat /\ r.kind \in Kinds
  BY DEF Requests

LEMMA EventType ==
  ASSUME NEW ev \in {"global", "global_remove", "event", "error"}, NEW on \in Nat, NEW name \in Nat
  PROVE  /\ E(ev, on, name) \in Events
         /\ E(ev, on, name).ev = ev /\ E(ev, on, name).on = on /\ E(ev, on, name).name = name
  BY DEF E, Events

LEMMA QueueTypes ==
  ASSUME TypeOK
  PROVE  /\ socket \in Seq(Requests) /\ queue \in Seq(Requests) /\ Unserved \in Seq(Requests)
         /\ batch \in Seq(Events) /\ incoming \in Seq(Events) /\ Unhandled \in Seq(Events)
         /\ globals \in Seq(STRING) /\ Len(globals) \in Nat /\ DOMAIN globals = 1 .. Len(globals)
         /\ \A k \in DOMAIN Unserved : Unserved[k] \in Requests
         /\ \A k \in DOMAIN Unhandled : Unhandled[k] \in Events
         /\ ids \subseteq Nat
  <1>1. /\ socket \in Seq(Requests) /\ queue \in Seq(Requests)
        /\ batch \in Seq(Events) /\ incoming \in Seq(Events) /\ globals \in Seq(STRING)
    BY DEF TypeOK
  <1>2. Unserved \in Seq(Requests) /\ Unhandled \in Seq(Events)
    BY <1>1, ConcatLemma DEF Unserved, Unhandled
  <1>3. ids \subseteq Nat
    <2>1. Ids \subseteq Nat
      BY Constants DEF Ids
    <2>2. ids \subseteq Ids
      BY DEF TypeOK
    <2> QED BY <2>1, <2>2
  <1> QED BY <1>1, <1>2, <1>3

\* request_id() returns the next id of the row.
LEMMA LowestIdNext ==
  ASSUME NEW top \in Ids, ids = WL_NEW_ID_MIN .. (top - 1)
  PROVE  LowestId(ids) = top
  <1>1. WL_NEW_ID_MIN \in Nat /\ WL_NEW_ID_MAX \in Nat
    BY Constants
  <1>2. RequestId(ids, top)
    BY <1>1 DEF RequestId, Ids
  <1>3. ASSUME NEW i \in Ids, RequestId(ids, i) PROVE i = top
    <2>1. i \notin ids /\ \A lower \in WL_NEW_ID_MIN .. (i - 1) : lower \in ids
      BY <1>3 DEF RequestId
    <2>2. ~(i < top)
      BY <1>1, <2>1 DEF Ids
    <2>3. ~(top < i)
      <3> SUFFICES ASSUME top < i PROVE FALSE
        OBVIOUS
      <3>1. top \in WL_NEW_ID_MIN .. (i - 1)
        BY <1>1 DEF Ids
      <3>2. top \in ids
        BY <2>1, <3>1
      <3> QED BY <1>1, <3>2 DEF Ids
    <2> QED BY <1>1, <2>2, <2>3 DEF Ids
  <1> QED BY <1>2, <1>3 DEF LowestId

\* ... and so do the next n calls.
LEMMA NextIdsRow ==
  ASSUME NEW top \in Nat, ids = WL_NEW_ID_MIN .. (top - 1), WL_NEW_ID_MIN < top,
         NEW n \in Nat, top + n <= WL_NEW_ID_MAX
  PROVE  NextIds(n) = [k \in 1 .. n |-> (top + k) - 1]
  <1>1. Ids \ ids = top .. (WL_NEW_ID_MAX - 1)
    BY Constants DEF Ids
  <1>2. WL_NEW_ID_MAX \in Nat
    BY Constants
  <1>3. Lowest(top .. (WL_NEW_ID_MAX - 1), n) = [k \in 1 .. n |-> (top + k) - 1]
    BY <1>2, LowestOfRow
  <1> QED BY <1>1, <1>3 DEF NextIds

-----------------------------------------------------------------------------
(* What a step leaves alone. *)

LEMMA KeepIds ==
  ASSUME NEW seen, IdsInv(seen), UNCHANGED <<ids, globals>>, UNCHANGED Built
  PROVE  IdsInv(seen)'
  BY DEF IdsInv

LEMMA KeepKinds ==
  ASSUME NEW kind, KindsInv(kind), UNCHANGED <<objects, resources, ids, bound>>
  PROVE  KindsInv(kind)'
  BY DEF KindsInv

LEMMA KeepEvents ==
  ASSUME NEW seen, EventsInv(seen), UNCHANGED <<Unhandled, globals, gone, resources>>
  PROVE  EventsInv(seen)'
  BY DEF EventsInv

LEMMA KeepRequests ==
  ASSUME NEW kind, RequestsInv(kind), UNCHANGED <<Unserved, ids, globals, early, resources>>
  PROVE  RequestsInv(kind)'
  BY DEF RequestsInv, Servable, InFirstRecv

\* The invariant of the requests after a step, from the requests one by one.
LEMMA RequestsThere ==
  ASSUME NEW kind, InTurn(Unserved', ids', DOMAIN resources'),
         \A k \in DOMAIN Unserved' : \A q : q = Unserved'[k] => Servable(kind, q)'
  PROVE  RequestsInv(kind)'
  <1>1. \A k \in DOMAIN Unserved' : Servable(kind, Unserved[k])'
    <2> SUFFICES ASSUME NEW k \in DOMAIN Unserved' PROVE Servable(kind, Unserved[k])'
      OBVIOUS
    <2>1. PICK q : q = Unserved'[k]
      OBVIOUS
    <2>2. Servable(kind, q)'
      BY <2>1
    <2> QED BY <2>1, <2>2 DEF Servable
  <1> QED BY <1>1 DEF RequestsInv

\* More ids, and more to know of them, leave a request servable.
LEMMA ServableStays ==
  ASSUME NEW kind, NEW r, Servable(kind, r), Makes(r) => r.id \in ids,
         NEW better, \A id \in ids : better[id] = kind[id],
         ids \subseteq ids', UNCHANGED <<globals, early>>
  PROVE  Servable(better, r)'
  <1>1. InFirstRecv("wl_compositor")' = InFirstRecv("wl_compositor")
    BY DEF InFirstRecv
  <1> HIDE DEF InFirstRecv
  <1> QED BY <1>1 DEF Servable

\* The requests stay servable, and so are those that are added.
LEMMA RequestsMore ==
  ASSUME TypeOK, NEW kind, NEW better,
         RequestsInv(kind),
         \A id \in ids : better[id] = kind[id], ids \subseteq ids',
         UNCHANGED <<globals, early, resources>>,
         NEW added,
         \A k \in DOMAIN Unserved' :
           Unserved'[k] \in added \/ \E l \in DOMAIN Unserved : Unserved'[k] = Unserved[l],
         InTurn(Unserved', ids', DOMAIN resources),
         \A q \in added : Servable(better, q)'
  PROVE  RequestsInv(better)'
  <1>1. ASSUME NEW l \in DOMAIN Unserved, NEW q, q = Unserved[l] PROVE Servable(better, q)'
    <2>1. Servable(kind, q) /\ (Makes(q) => q.id \in ids)
      BY <1>1 DEF RequestsInv, InTurn
    <2> QED BY <2>1, ServableStays
  <1>2. ASSUME NEW k \in DOMAIN Unserved', NEW q, q = Unserved'[k] PROVE Servable(better, q)'
    BY <1>1, <1>2
  <1>3. InTurn(Unserved', ids', DOMAIN resources')
    OBVIOUS
  <1> QED BY <1>2, <1>3, RequestsThere

LEMMA KeepListeners ==
  ASSUME NEW seen, ListenersInv(seen), UNCHANGED <<objects, globals, listening>>,
         UNCHANGED WindowBuilt
  PROVE  ListenersInv(seen)'
  BY DEF ListenersInv, Several, Names

LEMMA KeepCauses ==
  ASSUME CausesInv, UNCHANGED <<failure, globals, early, gone, protocol_error, capable>>
  PROVE  CausesInv'
  BY DEF CausesInv, Several, Names, InFirstRecv

-----------------------------------------------------------------------------
(* Initially. *)

LEMMA InitTypes == Init => TypeOK
  <1> SUFFICES ASSUME Init PROVE TypeOK
    OBVIOUS
  <1>1. REGISTRY \in Ids /\ REGISTRY \in Nat /\ DISPLAY_OBJ_ID \in Nat /\ 0 \in Nat
    BY Constants DEF Ids
  <1>2. queue \in Seq(Requests)
    <2>1. R("get_registry", DISPLAY_OBJ_ID, REGISTRY, 0, "wl_registry") \in Requests
      BY <1>1, KindsLemma, RequestType
    <2> QED BY <2>1 DEF Init
  <1>3. /\ socket \in Seq(Requests) /\ batch \in Seq(Events) /\ incoming \in Seq(Events)
        /\ early \in Seq(DOMAIN globals)
    BY ConcatEmpty DEF Init
  <1>4. globals \in Seq(STRING) /\ capable \in Capabilities
    BY StartupAssumption DEF Init
  <1>5. /\ ids \subseteq Ids /\ DOMAIN objects \subseteq ids /\ listening \subseteq DOMAIN objects
        /\ objects \in [DOMAIN objects -> Kinds] /\ resources \in [DOMAIN resources -> Kinds]
    BY <1>1, KindsLemma DEF Init
  <1>6. bound \in [Bindable -> ids \cup {NULL_OBJ_ID}] /\ gone \subseteq DOMAIN globals
        /\ emits \in 0 .. MaxEmits
    BY Constants DEF Init
  <1>7. /\ pc \in {"dispatch", "recv", "handle", "window", "devices"} /\ started \in BOOLEAN
        /\ failure \in {"none", "listener", "null", "callback", "error"}
        /\ protocol_error \in BOOLEAN
    BY DEF Init
  <1> QED BY <1>2, <1>3, <1>4, <1>5, <1>6, <1>7 DEF TypeOK

LEMMA InitParts ==
  ASSUME Init, NEW kind \in [Nat -> Kinds],
         kind[DISPLAY_OBJ_ID] = "wl_display", kind[REGISTRY] = "wl_registry"
  PROVE  Parts(kind, 0)
  <1> DEFINE r == R("get_registry", DISPLAY_OBJ_ID, REGISTRY, 0, "wl_registry")
  <1>1. /\ r.op = "get_registry" /\ r.on = DISPLAY_OBJ_ID /\ r.id = REGISTRY
        /\ r.kind = "wl_registry" /\ Makes(r) /\ r \in Requests
    <2>1. DISPLAY_OBJ_ID \in Nat /\ REGISTRY \in Nat /\ "wl_registry" \in Kinds
      BY Constants, KindsLemma
    <2> QED BY <2>1 DEF R, Requests, Makes
  <1> HIDE DEF r
  <1>2. /\ ids = {REGISTRY} /\ DOMAIN objects = {REGISTRY} /\ objects[REGISTRY] = "wl_registry"
        /\ DOMAIN resources = {DISPLAY_OBJ_ID} /\ resources[DISPLAY_OBJ_ID] = "wl_display"
        /\ REGISTRY # DISPLAY_OBJ_ID
    BY Constants DEF Init
  <1>3. /\ Unserved = <<r>> /\ DOMAIN Unserved = {1} /\ Unserved[1] = r
        /\ Unhandled = <<>> /\ DOMAIN Unhandled = {}
    <2>1. Unserved = <<>> \o <<r>> /\ Unhandled = <<>> \o <<>>
      BY DEF Init, Unserved, Unhandled, r
    <2> QED BY <1>1, <2>1
  <1>4. IdsInv(0)
    <2>1. globals \in Seq(STRING) /\ Len(globals) \in Nat /\ Len(globals) <= MaxGlobals
      BY StartupAssumption DEF Init
    <2>2. ids = WL_NEW_ID_MIN .. ((WL_NEW_ID_MIN + 1) - 1)
      BY <1>2, Constants
    <2>3. Built = 0
      BY DEF Init, Built
    <2> DEFINE top == WL_NEW_ID_MIN + 1
    <2>4. top \in Nat /\ WL_NEW_ID_MIN < top /\ top <= WL_NEW_ID_MIN + 1 + 0 + Built
      BY <2>3, Constants
    <2> HIDE DEF top
    <2>5. ids = WL_NEW_ID_MIN .. (top - 1) /\ 0 \in 0 .. Len(globals)
      BY <2>1, <2>2 DEF top
    <2> QED BY <2>1, <2>4, <2>5 DEF IdsInv
  <1>5. KindsInv(kind)
    BY <1>2 DEF KindsInv, Init
  <1>6. EventsInv(0)
    BY <1>3 DEF EventsInv, InOrder
  <1>7. RequestsInv(kind)
    <2>1. InTurn(Unserved, ids, DOMAIN resources)
      BY <1>1, <1>2, <1>3 DEF InTurn
    <2>2. Servable(kind, r)
      BY <1>1 DEF Servable
    <2> QED BY <1>3, <2>1, <2>2 DEF RequestsInv
  <1>8. PhaseInv
    <2>1. \A k \in DOMAIN queue : queue[k].op = "get_registry"
      <3>1. queue = <<r>>
        BY DEF Init, r
      <3> QED BY <1>1, <3>1
    <2> QED BY <1>2, <2>1 DEF PhaseInv, Init, WindowBuilt
  <1>9. ListenersInv(0)
    BY <1>2 DEF ListenersInv, NeedsListener, Init
  <1>10. CausesInv
    BY DEF CausesInv, Init
  <1> QED BY <1>4, <1>5, <1>6, <1>7, <1>8, <1>9, <1>10 DEF Parts

LEMMA InitInv == Init => IInv
  <1> SUFFICES ASSUME Init PROVE IInv
    OBVIOUS
  <1> DEFINE kind == [i \in Nat |-> IF i = DISPLAY_OBJ_ID THEN "wl_display" ELSE "wl_registry"]
  <1>1. /\ kind \in [Nat -> Kinds]
        /\ kind[DISPLAY_OBJ_ID] = "wl_display" /\ kind[REGISTRY] = "wl_registry"
    BY Constants, KindsLemma
  <1> HIDE DEF kind
  <1>2. Parts(kind, 0)
    BY <1>1, InitParts
  <1> QED BY <1>1, <1>2, InitTypes DEF IInv
-----------------------------------------------------------------------------
(* roundtrip *)

LEMMA DispatchTypes ==
  ASSUME TypeOK, Dispatch
  PROVE  TypeOK'
  <1>1. socket' \in Seq(Requests) /\ queue' \in Seq(Requests)
    BY QueueTypes, ConcatEmpty DEF Dispatch, Unserved
  <1> QED BY <1>1 DEF TypeOK, Dispatch, compositor

LEMMA DispatchParts ==
  ASSUME TypeOK, NEW kind, NEW seen, Parts(kind, seen), Dispatch
  PROVE  Parts(kind, seen)'
  <1>1. /\ pc = "dispatch" /\ pc' = "recv" /\ socket' = Unserved /\ queue' = <<>>
        /\ UNCHANGED <<started, failure, ids, objects, bound, listening, batch, incoming,
                       globals, early, capable, gone, resources, protocol_error>>
    BY DEF Dispatch, Running, Unserved, compositor
  <1>2. UNCHANGED <<Unserved, Unhandled, Built, WindowBuilt>>
    <2>1. Unserved' = Unserved
      BY <1>1, QueueTypes, ConcatEmpty DEF Unserved
    <2> QED BY <1>1, <2>1 DEF Unhandled, Built, WindowBuilt
  <1>3. IdsInv(seen)'
    BY <1>1, <1>2, KeepIds DEF Parts
  <1>4. KindsInv(kind)'
    BY <1>1, KeepKinds DEF Parts
  <1>5. EventsInv(seen)'
    BY <1>1, <1>2, KeepEvents DEF Parts
  <1>6. ~protocol_error' => RequestsInv(kind)'
    BY <1>1, <1>2, KeepRequests DEF Parts
  <1>7. PhaseInv'
    <2>1. PhaseInv
      BY DEF Parts
    <2>2. UNCHANGED Furnished
      BY <1>1 DEF Furnished, NullDereference
    <2>3. ~WindowBuilt =>
            /\ REGISTRY \notin DOMAIN resources /\ socket = <<>> /\ early = <<>>
            /\ Unserved = queue
            /\ \A k \in DOMAIN queue : queue[k].op = "get_registry"
      BY <1>1, <2>1, QueueTypes, ConcatEmpty DEF PhaseInv, Unserved
    <2>4. ~WindowBuilt =>
            /\ \A k \in DOMAIN socket' : socket'[k].op = "get_registry"
            /\ DOMAIN early' = {}
      BY <1>1, <2>3
    <2> HIDE DEF WindowBuilt, Unserved, Furnished
    <2> QED BY <1>1, <1>2, <2>1, <2>2, <2>4 DEF PhaseInv
  <1>8. ListenersInv(seen)'
    BY <1>1, <1>2, KeepListeners DEF Parts
  <1>9. CausesInv'
    BY <1>1, KeepCauses DEF Parts
  <1> QED BY <1>3, <1>4, <1>5, <1>6, <1>7, <1>8, <1>9 DEF Parts

\* As many events as there are and a page holds.
LEMMA RecvCut ==
  ASSUME TypeOK, Recv
  PROVE  \E n \in 0 .. Len(incoming) :
           /\ n = Len(incoming) \/ n = BatchMax
           /\ batch' = SubSeq(incoming, 1, n)
           /\ incoming' = SubSeq(incoming, n + 1, Len(incoming))
  <1> DEFINE n == IF Len(incoming) < BatchMax THEN Len(incoming) ELSE BatchMax
  <1>1. Len(incoming) \in Nat
    BY QueueTypes
  <1>2. n \in 0 .. Len(incoming) /\ (n = Len(incoming) \/ n = BatchMax)
    BY <1>1, Constants
  <1>3. batch' = SubSeq(incoming, 1, n) /\ incoming' = SubSeq(incoming, n + 1, Len(incoming))
    BY DEF Recv
  <1> HIDE DEF n
  <1> QED BY <1>2, <1>3

LEMMA RecvTypes ==
  ASSUME TypeOK, Recv
  PROVE  TypeOK'
  <1>1. batch' \in Seq(Events) /\ incoming' \in Seq(Events)
    <2>1. PICK n \in 0 .. Len(incoming) :
            /\ batch' = SubSeq(incoming, 1, n)
            /\ incoming' = SubSeq(incoming, n + 1, Len(incoming))
      BY RecvCut
    <2> QED BY <2>1, QueueTypes, CutLemma
  <1> QED BY <1>1 DEF TypeOK, Recv, compositor

LEMMA RecvParts ==
  ASSUME TypeOK, NEW kind, NEW seen, Parts(kind, seen), Recv
  PROVE  Parts(kind, seen)'
  <1>1. /\ pc = "recv" /\ pc' = "handle" /\ incoming # <<>>
        /\ UNCHANGED <<started, failure, ids, objects, bound, listening, queue, socket,
                       globals, early, capable, gone, resources, protocol_error>>
    BY DEF Recv, Running, compositor
  <1>2. PICK n \in 0 .. Len(incoming) :
          /\ n = Len(incoming) \/ n = BatchMax
          /\ batch' = SubSeq(incoming, 1, n)
          /\ incoming' = SubSeq(incoming, n + 1, Len(incoming))
    BY RecvCut
  <1>3. /\ batch = <<>> /\ Unhandled = incoming /\ batch' \o incoming' = incoming
        /\ DOMAIN batch' = 1 .. n /\ \A k \in 1 .. n : batch'[k] = incoming[k]
        /\ DOMAIN incoming = 1 .. Len(incoming) /\ Len(incoming) \in Nat
    <2>1. batch = <<>>
      BY <1>1 DEF Parts, PhaseInv
    <2>2. incoming \in Seq(Events)
      BY QueueTypes
    <2>3. Unhandled = incoming
      BY <2>1, <2>2, ConcatEmpty DEF Unhandled
    <2> QED BY <1>2, <2>1, <2>2, <2>3, CutLemma
  <1>4. UNCHANGED <<Unserved, Unhandled, Built, WindowBuilt>>
    BY <1>1, <1>3 DEF Unserved, Unhandled, Built, WindowBuilt
  <1>5. IdsInv(seen)'
    BY <1>1, <1>4, KeepIds DEF Parts
  <1>6. KindsInv(kind)'
    BY <1>1, KeepKinds DEF Parts
  <1>7. EventsInv(seen)'
    BY <1>1, <1>4, KeepEvents DEF Parts
  <1>8. ~protocol_error' => RequestsInv(kind)'
    BY <1>1, <1>4, KeepRequests DEF Parts
  <1>9. PhaseInv'
    <2>1. PhaseInv
      BY DEF Parts
    <2>2. UNCHANGED Furnished
      BY <1>1 DEF Furnished, NullDereference
    <2>3. REGISTRY \in DOMAIN resources
      BY <1>1, <2>1 DEF PhaseInv
    <2>4. ASSUME ~WindowBuilt, NEW k \in DOMAIN early, k <= BatchMax
          PROVE  Received(early[k])'
      <3>1. k \in DOMAIN incoming /\ incoming[k] = E("global", REGISTRY, early[k])
        BY <1>1, <2>1, <2>4 DEF PhaseInv
      <3>2. k \in 1 .. n /\ batch'[k] = incoming[k]
        <4>1. k \in 1 .. Len(incoming)
          BY <1>3, <3>1
        <4>2. n = Len(incoming) \/ n = BatchMax
          BY <1>2
        <4>3. k \in 1 .. n
          BY <2>4, <4>1, <4>2, Constants
        <4> QED BY <1>3, <4>3
      <3>3. batch'[k].ev = "global" /\ batch'[k].name = early[k]
        BY <3>1, <3>2 DEF E
      <3> QED BY <1>1, <1>3, <3>2, <3>3 DEF Received
    <2>5. ~WindowBuilt => \A k \in DOMAIN early' : k <= BatchMax => Received(early[k])'
      BY <1>1, <2>4
    <2> HIDE DEF WindowBuilt, Furnished, Received
    <2> QED BY <1>1, <1>4, <2>1, <2>2, <2>3, <2>5 DEF PhaseInv
  <1>10. ListenersInv(seen)'
    BY <1>1, <1>4, KeepListeners DEF Parts
  <1>11. CausesInv'
    BY <1>1, KeepCauses DEF Parts
  <1> QED BY <1>5, <1>6, <1>7, <1>8, <1>9, <1>10, <1>11 DEF Parts

LEMMA RoundtripReturnsTypes ==
  ASSUME TypeOK, RoundtripReturns
  PROVE  TypeOK'
  BY DEF TypeOK, RoundtripReturns, compositor

LEMMA RoundtripReturnsParts ==
  ASSUME TypeOK, NEW kind, NEW seen, Parts(kind, seen), RoundtripReturns
  PROVE  Parts(kind, seen)'
  <1>1. /\ pc = "handle" /\ pc' = (IF started THEN "dispatch" ELSE "window") /\ batch = <<>>
        /\ UNCHANGED <<started, failure, ids, objects, bound, listening, batch, queue, socket,
                       incoming, globals, early, capable, gone, resources, protocol_error>>
    BY DEF RoundtripReturns, Running, compositor
  <1>2. UNCHANGED <<Unserved, Unhandled, Built, WindowBuilt>>
    BY <1>1 DEF Unserved, Unhandled, Built, WindowBuilt
  <1>3. IdsInv(seen)'
    BY <1>1, <1>2, KeepIds DEF Parts
  <1>4. KindsInv(kind)'
    BY <1>1, KeepKinds DEF Parts
  <1>5. EventsInv(seen)'
    BY <1>1, <1>2, KeepEvents DEF Parts
  <1>6. ~protocol_error' => RequestsInv(kind)'
    BY <1>1, <1>2, KeepRequests DEF Parts
  <1>7. PhaseInv'
    <2>1. PhaseInv
      BY DEF Parts
    <2>2. UNCHANGED Furnished /\ \A k \in DOMAIN early : Received(early[k])' = Received(early[k])
      BY <1>1 DEF Furnished, NullDereference, Received
    <2>3. REGISTRY \in DOMAIN resources
      BY <1>1, <2>1 DEF PhaseInv
    <2>4. started => WindowBuilt
      BY DEF WindowBuilt
    <2> HIDE DEF WindowBuilt, Furnished, Received
    <2> QED BY <1>1, <1>2, <2>1, <2>2, <2>3, <2>4 DEF PhaseInv
  <1>8. ListenersInv(seen)'
    BY <1>1, <1>2, KeepListeners DEF Parts
  <1>9. CausesInv'
    BY <1>1, KeepCauses DEF Parts
  <1> QED BY <1>3, <1>4, <1>5, <1>6, <1>7, <1>8, <1>9 DEF Parts
-----------------------------------------------------------------------------
(* handle_event *)

\* The event at the head of the batch is taken off.
LEMMA HandlesTail ==
  ASSUME TypeOK, NEW seen \in Nat, EventsInv(seen), PhaseInv, NEW ev, Handles(ev)
  PROVE  /\ Head(batch) \in Events /\ Head(batch).ev = ev
         /\ \E now \in Nat :
              /\ EventsInv(now)'
              /\ ev # "global" => now = seen
              /\ ev = "global" => now = Head(batch).name /\ now \in (seen + 1) .. Len(globals)
         /\ batch' \in Seq(Events)
         /\ ev = "event" => Head(batch).on \in DOMAIN resources
         /\ ev = "global_remove" => gone # {}
         /\ \A j \in DOMAIN batch :
              batch[j] = Head(batch) \/ \E k \in DOMAIN batch' : batch'[k] = batch[j]
  <1>1. PICK first \in Events : first = Head(batch)
    <2>1. batch \in Seq(Events) /\ batch # <<>>
      BY QueueTypes DEF Handles
    <2> QED BY <2>1, TailLemma
  <1>2. PICK now \in Nat : now = IF first.ev = "global" THEN first.name ELSE seen
    BY DEF Events
  <1>3. /\ pc = "handle" /\ batch # <<>> /\ first.ev = ev /\ batch' = Tail(batch)
        /\ UNCHANGED <<incoming, globals, gone, resources>>
    BY <1>1 DEF Handles, Running, compositor
  <1>4. batch \in Seq(Events) /\ incoming \in Seq(Events) /\ Unhandled \in Seq(Events)
        /\ Len(globals) \in Nat
    BY QueueTypes
  <1>5. /\ batch' \in Seq(Events)
        /\ \A j \in DOMAIN batch : batch[j] = first \/ \E k \in DOMAIN batch' : batch'[k] = batch[j]
    <2>1. /\ first = batch[1] /\ Tail(batch) \in Seq(Events)
          /\ \A k \in DOMAIN batch :
               k # 1 => k - 1 \in DOMAIN Tail(batch) /\ Tail(batch)[k - 1] = batch[k]
      BY <1>1, <1>3, <1>4, TailLemma
    <2> QED BY <1>3, <2>1
  <1>6. Unhandled' = Tail(Unhandled) /\ Unhandled # <<>> /\ Head(Unhandled) = first
    BY <1>1, <1>3, <1>4, TailOfConcat DEF Unhandled
  <1>7. /\ first.ev = "global" => now \in (seen + 1) .. Len(globals)
        /\ InOrder(Tail(Unhandled), now, Len(globals))
    BY <1>2, <1>4, <1>6, EventsTail DEF EventsInv
  <1>8. /\ Unhandled[1] = first /\ 1 \in DOMAIN Unhandled
        /\ \A k \in DOMAIN Tail(Unhandled) :
             k + 1 \in DOMAIN Unhandled /\ Tail(Unhandled)[k] = Unhandled[k + 1]
    BY <1>4, <1>6, TailLemma
  <1>9. EventsInv(now)'
    <2>1. REGISTRY \in DOMAIN resources
      BY <1>3 DEF PhaseInv
    <2>2. \A k \in DOMAIN Unhandled' :
            /\ Unhandled'[k].ev = "global_remove" => gone # {}
            /\ Unhandled'[k].ev = "event" => Unhandled'[k].on \in DOMAIN resources
      BY <1>6, <1>8 DEF EventsInv
    <2> QED BY <1>3, <1>6, <1>7, <2>1, <2>2 DEF EventsInv
  <1>10. /\ ev = "event" => first.on \in DOMAIN resources
         /\ ev = "global_remove" => gone # {}
    BY <1>3, <1>8 DEF EventsInv
  <1>11. /\ ev # "global" => now = seen
         /\ ev = "global" => now = first.name /\ now \in (seen + 1) .. Len(globals)
    BY <1>2, <1>3, <1>7
  <1> QED BY <1>1, <1>3, <1>5, <1>9, <1>10, <1>11

\* All events but wl_registry.global leave the tables alone.
LEMMA HandleOtherTypes ==
  ASSUME TypeOK, NEW kind, NEW seen \in Nat, Parts(kind, seen), NEW ev, Handles(ev),
         UNCHANGED <<ids, objects, bound, listening>>, queue' \in Seq(Requests),
         failure' \in {"none", "listener", "null", "callback", "error"}
  PROVE  TypeOK'
  <1>1. batch' \in Seq(Events)
    BY HandlesTail DEF Parts
  <1> QED BY <1>1 DEF TypeOK, Handles, compositor

LEMMA HandleOtherParts ==
  ASSUME TypeOK, NEW kind, NEW seen \in Nat, Parts(kind, seen),
         NEW ev, Handles(ev), ev # "global",
         UNCHANGED <<ids, objects, bound, listening>>,
         ~protocol_error => RequestsInv(kind)', CausesInv'
  PROVE  Parts(kind, seen)'
  <1>1. /\ pc = "handle"
        /\ UNCHANGED <<pc, started, socket, incoming, ids, objects, bound, listening,
                       globals, early, capable, gone, resources, protocol_error>>
    BY DEF Handles, Running, compositor
  <1>2. UNCHANGED <<Built, WindowBuilt>>
    BY <1>1 DEF Built, WindowBuilt
  <1>3. IdsInv(seen)'
    BY <1>1, <1>2, KeepIds DEF Parts
  <1>4. KindsInv(kind)'
    BY <1>1, KeepKinds DEF Parts
  <1>5. /\ EventsInv(seen)' /\ Head(batch).ev # "global"
        /\ \A j \in DOMAIN batch :
             batch[j] = Head(batch) \/ \E k \in DOMAIN batch' : batch'[k] = batch[j]
    BY HandlesTail DEF Parts
  <1>6. ~protocol_error' => RequestsInv(kind)'
    BY <1>1
  <1>7. PhaseInv'
    <2>1. PhaseInv
      BY DEF Parts
    <2>2. UNCHANGED Furnished
      BY <1>1 DEF Furnished, NullDereference
    <2>3. REGISTRY \in DOMAIN resources
      BY <1>1, <2>1 DEF PhaseInv
    <2>4. ASSUME NEW name, Received(name) PROVE Received(name)'
      <3>1. CASE \E j \in DOMAIN batch : batch[j].ev = "global" /\ batch[j].name = name
        BY <1>5, <3>1 DEF Received
      <3>2. CASE globals[name] \notin Bindable \/ bound[globals[name]] # NULL_OBJ_ID
        BY <1>1, <3>2 DEF Received
      <3> QED BY <2>4, <3>1, <3>2 DEF Received
    <2>5. \A name : Received(name) => Received(name)'
      BY <2>4
    <2> HIDE DEF WindowBuilt, Furnished, Received
    <2> QED BY <1>1, <1>2, <2>1, <2>2, <2>3, <2>5 DEF PhaseInv
  <1>8. ListenersInv(seen)'
    BY <1>1, <1>2, KeepListeners DEF Parts
  <1> QED BY <1>3, <1>4, <1>5, <1>6, <1>7, <1>8 DEF Parts

\* ... and most of them leave the requests alone too.
LEMMA NothingAnswered ==
  ASSUME TypeOK, NEW kind, NEW seen \in Nat, Parts(kind, seen), NEW ev, Handles(ev),
         UNCHANGED <<ids, queue>>
  PROVE  queue' \in Seq(Requests) /\ (~protocol_error => RequestsInv(kind)')
  <1>1. UNCHANGED <<socket, globals, early, resources>> /\ queue' = queue
    BY DEF Handles, compositor
  <1>2. UNCHANGED Unserved
    BY <1>1 DEF Unserved
  <1>3. queue' \in Seq(Requests)
    BY <1>1, QueueTypes
  <1> QED BY <1>1, <1>2, <1>3, KeepRequests DEF Parts

LEMMA HandleGlobalRemoveStep ==
  ASSUME TypeOK, NEW kind, NEW seen \in Nat, Parts(kind, seen), HandleGlobalRemove
  PROVE  TypeOK' /\ Parts(kind, seen)'
  <1>1. /\ Handles("global_remove") /\ failure' = "callback"
        /\ UNCHANGED <<ids, objects, bound, listening, queue>>
        /\ UNCHANGED <<globals, early, gone, protocol_error, capable>>
    BY DEF HandleGlobalRemove, Handles, compositor
  <1>2. gone # {}
    BY <1>1, HandlesTail DEF Parts
  <1>3. CausesInv'
    BY <1>1, <1>2 DEF Parts, CausesInv, InFirstRecv
  <1>4. queue' \in Seq(Requests) /\ (~protocol_error => RequestsInv(kind)')
    BY <1>1, NothingAnswered
  <1> QED BY <1>1, <1>3, <1>4, HandleOtherTypes, HandleOtherParts

LEMMA HandleErrorStep ==
  ASSUME TypeOK, NEW kind, NEW seen \in Nat, Parts(kind, seen), HandleError
  PROVE  TypeOK' /\ Parts(kind, seen)'
  <1>1. /\ Handles("error") /\ failure' = "error"
        /\ UNCHANGED <<ids, objects, bound, listening, queue>>
        /\ UNCHANGED <<globals, early, gone, protocol_error, capable>>
    BY DEF HandleError, Handles, compositor
  <1>2. CausesInv'
    BY <1>1 DEF Parts, CausesInv, InFirstRecv
  <1>3. queue' \in Seq(Requests) /\ (~protocol_error => RequestsInv(kind)')
    BY <1>1, NothingAnswered
  <1> QED BY <1>1, <1>2, <1>3, HandleOtherTypes, HandleOtherParts

\* Until main has sent its window's requests, the only object with events is
\* the registry.
LEMMA WindowFirst ==
  ASSUME TypeOK, NEW kind, NEW seen, Parts(kind, seen),
         NEW on \in DOMAIN objects, on \in DOMAIN resources, objects[on] # "wl_registry"
  PROVE  WindowBuilt
  <1> SUFFICES ASSUME ~WindowBuilt PROVE FALSE
    OBVIOUS
  <1>1. on = DISPLAY_OBJ_ID \/ on = REGISTRY
    <2> HIDE DEF WindowBuilt
    <2>1. DOMAIN resources \subseteq {DISPLAY_OBJ_ID, REGISTRY}
      BY DEF Parts, PhaseInv
    <2> QED BY <2>1
  <1>2. on \in ids /\ DISPLAY_OBJ_ID \notin ids
    <2>1. DOMAIN objects \subseteq ids /\ ids \subseteq Ids
      BY DEF TypeOK
    <2>2. DISPLAY_OBJ_ID \notin Ids
      BY Constants DEF Ids
    <2> QED BY <2>1, <2>2
  <1> QED BY <1>1, <1>2 DEF Parts, KindsInv

\* A listener's requests are about objects the client has.
LEMMA AnsweredKnown ==
  ASSUME TypeOK, NEW kind, NEW seen, Parts(kind, seen),
         NEW on \in DOMAIN objects, on \in DOMAIN resources
  PROVE  Answered(on) \in Seq(DOMAIN objects)
  <1>1. CASE objects[on] = "xdg_wm_base"
    <2>1. Answered(on) = <<on>>
      BY <1>1 DEF Answered
    <2> QED BY <2>1
  <1>2. CASE objects[on] = "xdg_surface"
    <2>1. WindowBuilt
      BY <1>2, WindowFirst
    <2>2. \E i \in DOMAIN objects : objects[i] = "wl_surface"
      <3> HIDE DEF WindowBuilt
      <3> QED BY <2>1 DEF Parts, PhaseInv, Furnished
    <2>3. PICK surface \in DOMAIN objects :
            surface = CHOOSE i \in DOMAIN objects : objects[i] = "wl_surface"
      BY <2>2
    <2>4. Answered(on) = <<on, surface, surface>>
      BY <1>2, <2>3 DEF Answered
    <2> QED BY <2>4
  <1>3. CASE objects[on] \notin {"xdg_wm_base", "xdg_surface"}
    <2>1. Answered(on) = <<>>
      BY <1>3 DEF Answered
    <2> QED BY <2>1
  <1> QED BY <1>1, <1>2, <1>3

\* ... and make no new one.
LEMMA AnswersAreOthers ==
  ASSUME TypeOK, NEW about \in Seq(DOMAIN objects)
  PROVE  /\ Answers(about) \in Seq(Requests)
         /\ \A k \in DOMAIN Answers(about) :
              LET r == Answers(about)[k]
              IN ~Makes(r) /\ r.op = "other" /\ r.on \in ids
  <1>1. DOMAIN objects \subseteq ids /\ ids \subseteq Nat /\ \A i \in DOMAIN objects : objects[i] \in Kinds
    BY QueueTypes DEF TypeOK
  <1>2. /\ DOMAIN about = 1 .. Len(about) /\ Len(about) \in Nat
        /\ \A k \in DOMAIN about : about[k] \in DOMAIN objects
    OBVIOUS
  <1>3. ASSUME NEW k \in DOMAIN about
        PROVE  LET r == R("other", about[k], 0, 0, objects[about[k]])
               IN r \in Requests /\ ~Makes(r) /\ r.op = "other" /\ r.on \in ids
    <2>1. PICK i \in DOMAIN objects : i = about[k]
      BY <1>2
    <2>2. i \in Nat /\ i \in ids /\ objects[i] \in Kinds
      BY <1>1
    <2>3. PICK r : r = R("other", i, 0, 0, objects[i])
      OBVIOUS
    <2>4. r \in Requests /\ ~Makes(r) /\ r.op = "other" /\ r.on = i
      BY <2>2, <2>3 DEF R, Requests, Makes
    <2> QED BY <2>1, <2>2, <2>3, <2>4
  <1>4. /\ DOMAIN Answers(about) = 1 .. Len(about)
        /\ \A k \in DOMAIN about : Answers(about)[k] = R("other", about[k], 0, 0, objects[about[k]])
    BY <1>2 DEF Answers
  <1>5. Answers(about) \in Seq(Requests)
    <2>1. Answers(about) = [k \in 1 .. Len(about) |-> R("other", about[k], 0, 0, objects[about[k]])]
      BY <1>2 DEF Answers
    <2> QED BY <1>2, <1>3, <2>1
  <1> QED BY <1>2, <1>3, <1>4, <1>5

\* The queue with the answers of a listener at its end.
LEMMA AnswerRequests ==
  ASSUME TypeOK, NEW kind, RequestsInv(kind), NEW about \in Seq(DOMAIN objects),
         queue' = queue \o Answers(about),
         UNCHANGED <<socket, ids, globals, early, resources>>
  PROVE  RequestsInv(kind)'
  <1>1. PICK more \in Seq(Requests) :
          /\ more = Answers(about)
          /\ \A k \in DOMAIN more : ~Makes(more[k]) /\ more[k].op = "other" /\ more[k].on \in ids
    BY AnswersAreOthers
  <1>2. Unserved' = Unserved \o more
    <2>1. queue \in Seq(Requests) /\ socket \in Seq(Requests)
      BY QueueTypes
    <2>2. socket \o (queue \o more) = (socket \o queue) \o more
      BY <2>1, ConcatAssociates
    <2>3. Unserved' = socket \o (queue \o more)
      BY <1>1 DEF Unserved
    <2> QED BY <2>2, <2>3 DEF Unserved
  <1>3. InTurn(Unserved', ids', DOMAIN resources)
    <2>1. InTurn(Unserved, ids, DOMAIN resources) /\ Unserved \in Seq(Requests)
      BY QueueTypes DEF RequestsInv
    <2>2. InTurn(Unserved \o more, ids, DOMAIN resources)
      BY <1>1, <2>1, TurnOthers
    <2> QED BY <1>2, <2>2
  <1> DEFINE added == {more[k] : k \in DOMAIN more}
  <1>4. \A k \in DOMAIN Unserved' :
          Unserved'[k] \in added \/ \E l \in DOMAIN Unserved : Unserved'[k] = Unserved[l]
    <2>1. Unserved \in Seq(Requests)
      BY QueueTypes
    <2> QED BY <1>2, <2>1
  <1>5. ASSUME NEW q \in added PROVE Servable(kind, q)'
    <2>1. q.op = "other" /\ q.on \in ids'
      BY <1>1
    <2> QED BY <2>1 DEF Servable, Makes
  <1> HIDE DEF added
  <1> QED BY <1>3, <1>4, <1>5, RequestsMore

\* An object the compositor sends an event to has its listener, or is one too many.
LEMMA HandleEventStep ==
  ASSUME TypeOK, NEW kind, NEW seen \in Nat, Parts(kind, seen), HandleEvent
  PROVE  TypeOK' /\ Parts(kind, seen)'
  <1> DEFINE on == Head(batch).on
             unheard == objects[on] \in NeedsListener /\ on \notin listening
  <1>1. /\ Handles("event")
        /\ on \notin DOMAIN objects => UNCHANGED <<failure, queue>>
        /\ on \in DOMAIN objects /\ unheard => failure' = "listener" /\ UNCHANGED queue
        /\ on \in DOMAIN objects /\ ~unheard =>
             queue' = queue \o Answers(Answered(on)) /\ UNCHANGED failure
        /\ UNCHANGED <<ids, objects, bound, listening>>
        /\ UNCHANGED <<socket, globals, early, gone, resources, protocol_error, capable>>
        /\ failure = "none"
    BY DEF HandleEvent, Handles, Running, compositor
  <1>2. on \in DOMAIN resources
    BY <1>1, HandlesTail DEF Parts
  <1> HIDE DEF on
  <1>3. ASSUME on \in DOMAIN objects, unheard PROVE Several("wl_seat") \/ Several("wl_shm")
    <2>1. PICK interface \in NeedsListener : interface = objects[on]
      BY <1>3
    <2>2. interface \in {"wl_shm", "wl_seat"} /\ (WindowBuilt => Several(interface))
      BY <1>3, <2>1 DEF Parts, ListenersInv
    <2>3. WindowBuilt
      BY <1>2, <1>3, <2>1, <2>2, WindowFirst
    <2> QED BY <2>2, <2>3
  <1>4. CausesInv'
    <2>1. failure' = "listener" => Several("wl_seat") \/ Several("wl_shm")
      BY <1>1, <1>3
    <2>2. failure' \in {"none", "listener"}
      BY <1>1
    <2>3. Several("wl_seat")' = Several("wl_seat") /\ Several("wl_shm")' = Several("wl_shm")
          /\ \A i : InFirstRecv(i)' = InFirstRecv(i)
      BY <1>1 DEF Several, Names, InFirstRecv
    <2> HIDE DEF Several, InFirstRecv, unheard
    <2> QED BY <1>1, <2>1, <2>2, <2>3 DEF Parts, CausesInv
  <1>5. failure' \in {"none", "listener", "null", "callback", "error"}
    BY <1>1
  <1>6. queue' \in Seq(Requests) /\ (~protocol_error => RequestsInv(kind)')
    <2>1. CASE on \in DOMAIN objects /\ ~unheard
      <3>1. PICK about \in Seq(DOMAIN objects) : about = Answered(on)
        BY <1>2, <2>1, AnsweredKnown
      <3>2. queue' = queue \o Answers(about)
        BY <1>1, <2>1, <3>1
      <3>3. queue' \in Seq(Requests)
        BY <3>2, AnswersAreOthers, QueueTypes, ConcatLemma
      <3>4. ASSUME ~protocol_error PROVE RequestsInv(kind)'
        <4>1. RequestsInv(kind)
          BY <3>4 DEF Parts
        <4> QED BY <1>1, <3>2, <4>1, AnswerRequests
      <3> QED BY <3>3, <3>4
    <2>2. CASE ~(on \in DOMAIN objects /\ ~unheard)
      <3>1. UNCHANGED <<ids, queue>>
        BY <1>1, <2>2
      <3> QED BY <1>1, <3>1, NothingAnswered
    <2> QED BY <2>1, <2>2
  <1> QED BY <1>1, <1>4, <1>5, <1>6, HandleOtherTypes, HandleOtherParts
-----------------------------------------------------------------------------
(* on_global_registered *)

\* The row of ids goes on, and is never used up.
LEMMA NextIdFree ==
  ASSUME TypeOK, NEW seen \in Nat, IdsInv(seen),
         NEW now \in (seen + 1) .. Len(globals)
  PROVE  \E top \in Ids :
           /\ ids = WL_NEW_ID_MIN .. (top - 1) /\ LowestId(ids) = top
           /\ top \notin ids /\ top > 2 /\ \A id \in ids : id < top
           /\ REGISTRY \in ids
           /\ top + 1 \in Nat /\ ids \cup {top} = WL_NEW_ID_MIN .. ((top + 1) - 1)
           /\ WL_NEW_ID_MIN < top + 1 /\ top + 1 <= WL_NEW_ID_MIN + 1 + now + Built
  <1>1. PICK top \in Nat : /\ ids = WL_NEW_ID_MIN .. (top - 1)
                           /\ WL_NEW_ID_MIN < top
                           /\ top <= WL_NEW_ID_MIN + 1 + seen + Built
    BY DEF IdsInv
  <1>2. Built \in {0, 3, 7} /\ Len(globals) <= MaxGlobals /\ Len(globals) \in Nat
    BY QueueTypes DEF Built, IdsInv
  <1>3. top \in Ids
    BY <1>1, <1>2, Constants DEF Ids
  <1>4. LowestId(ids) = top
    BY <1>1, <1>3, LowestIdNext
  <1>5. /\ top \notin ids /\ top > 2 /\ (\A id \in ids : id < top) /\ REGISTRY \in ids
        /\ top + 1 \in Nat /\ ids \cup {top} = WL_NEW_ID_MIN .. ((top + 1) - 1)
    BY <1>1, Constants
  <1>6. WL_NEW_ID_MIN < top + 1 /\ top + 1 <= WL_NEW_ID_MIN + 1 + now + Built
    BY <1>1, <1>2, Constants
  <1> QED BY <1>1, <1>3, <1>4, <1>5, <1>6

\* No request on its way is about an id not given out yet.
LEMMA OnKnown ==
  ASSUME NEW kind, NEW r \in Requests, Servable(kind, r), REGISTRY \in ids
  PROVE  r.on \in ids \cup {DISPLAY_OBJ_ID, NULL_OBJ_ID}
  BY DEF Servable, Requests

LEMMA HandleGlobalTypes ==
  ASSUME TypeOK, NEW kind, NEW seen \in Nat, Parts(kind, seen), HandleGlobal
  PROVE  TypeOK'
  <1>1. PICK name : name = Head(batch).name
    OBVIOUS
  <1>2. /\ Handles("global") /\ UNCHANGED <<failure, listening>>
        /\ IF globals[name] \in Bindable THEN Bind(name, globals[name])
           ELSE UNCHANGED <<ids, queue, bound, objects>>
    BY <1>1 DEF HandleGlobal
  <1>3. batch' \in Seq(Events) /\ name \in (seen + 1) .. Len(globals)
    BY <1>1, <1>2, HandlesTail DEF Parts
  <1>4. CASE globals[name] \notin Bindable
    BY <1>2, <1>3, <1>4 DEF TypeOK, Handles, compositor
  <1>5. CASE globals[name] \in Bindable
    <2>1. PICK interface \in Bindable : interface = globals[name]
      BY <1>5
    <2>2. PICK top \in Ids : LowestId(ids) = top /\ REGISTRY \in ids
      BY <1>3, NextIdFree DEF Parts
    <2>3. /\ ids' = ids \cup {top}
          /\ queue' = Append(queue, R("bind", REGISTRY, top, name, interface))
          /\ bound' = [bound EXCEPT ![interface] = top]
          /\ objects' = IF interface = "wl_compositor" THEN objects
                        ELSE MapCreate(objects, top, interface)
      BY <1>2, <1>5, <2>1, <2>2 DEF Bind
    <2>4. queue' \in Seq(Requests)
      <3>1. REGISTRY \in Nat /\ top \in Nat /\ name \in Nat /\ interface \in Kinds
        BY <1>3, <2>1, Constants, KindsLemma DEF Ids
      <3>2. R("bind", REGISTRY, top, name, interface) \in Requests
        BY <3>1, RequestType
      <3> QED BY <2>3, <3>2, QueueTypes, AppendLemma
    <2>5. ids' \subseteq Ids /\ bound' \in [Bindable -> ids' \cup {NULL_OBJ_ID}]
      BY <2>2, <2>3 DEF TypeOK
    <2>6. /\ DOMAIN objects' \subseteq ids' /\ objects' \in [DOMAIN objects' -> Kinds]
          /\ listening \subseteq DOMAIN objects'
      BY <2>1, <2>3, KindsLemma DEF TypeOK, MapCreate
    <2> QED BY <1>2, <1>3, <2>4, <2>5, <2>6 DEF TypeOK, Handles, compositor
  <1> QED BY <1>4, <1>5

LEMMA HandleUnknownParts ==
  ASSUME TypeOK, NEW kind, NEW seen \in Nat, Parts(kind, seen), HandleGlobal,
         NEW name, name = Head(batch).name, globals[name] \notin Bindable
  PROVE  Parts(kind, name)' /\ name \in Nat
  <1>1. /\ Handles("global")
        /\ pc = "handle"
        /\ UNCHANGED <<pc, started, failure, socket, incoming, ids, objects, bound, listening,
                       queue, globals, early, capable, gone, resources, protocol_error>>
    BY DEF HandleGlobal, Handles, Running, compositor
  <1>2. UNCHANGED <<Unserved, Built, WindowBuilt>>
    BY <1>1 DEF Unserved, Built, WindowBuilt
  <1>3. /\ EventsInv(name)' /\ name \in (seen + 1) .. Len(globals)
        /\ \A j \in DOMAIN batch :
             batch[j] = Head(batch) \/ \E k \in DOMAIN batch' : batch'[k] = batch[j]
    BY <1>1, HandlesTail DEF Parts
  <1>4. IdsInv(name)'
    <2>1. PICK top \in Nat : /\ ids = WL_NEW_ID_MIN .. (top - 1)
                             /\ WL_NEW_ID_MIN < top
                             /\ top <= WL_NEW_ID_MIN + 1 + seen + Built
      BY DEF Parts, IdsInv
    <2>2. Built \in {0, 3, 7} /\ Len(globals) <= MaxGlobals /\ Len(globals) \in Nat
      BY QueueTypes DEF Built, Parts, IdsInv
    <2>3. top <= WL_NEW_ID_MIN + 1 + name + Built /\ name \in 0 .. Len(globals)
      BY <1>3, <2>1, <2>2, Constants
    <2> HIDE DEF Built
    <2> QED BY <1>1, <1>2, <2>1, <2>2, <2>3 DEF IdsInv
  <1>5. KindsInv(kind)'
    BY <1>1, KeepKinds DEF Parts
  <1>6. ~protocol_error' => RequestsInv(kind)'
    BY <1>1, <1>2, KeepRequests DEF Parts
  <1>7. PhaseInv'
    <2>1. PhaseInv
      BY DEF Parts
    <2>2. UNCHANGED Furnished
      BY <1>1 DEF Furnished, NullDereference
    <2>3. REGISTRY \in DOMAIN resources
      BY <1>1, <2>1 DEF PhaseInv
    <2>4. ASSUME NEW n, Received(n) PROVE Received(n)'
      <3>1. CASE \E j \in DOMAIN batch : batch[j].ev = "global" /\ batch[j].name = n
        <4>1. PICK j \in DOMAIN batch : batch[j].ev = "global" /\ batch[j].name = n
          BY <3>1
        <4>2. CASE batch[j] = Head(batch)
          BY <1>1, <4>1, <4>2 DEF Received
        <4>3. CASE \E k \in DOMAIN batch' : batch'[k] = batch[j]
          BY <4>1, <4>3 DEF Received
        <4> QED BY <1>3, <4>2, <4>3
      <3>2. CASE globals[n] \notin Bindable \/ bound[globals[n]] # NULL_OBJ_ID
        BY <1>1, <3>2 DEF Received
      <3> QED BY <2>4, <3>1, <3>2 DEF Received
    <2>5. \A n : Received(n) => Received(n)'
      BY <2>4
    <2> HIDE DEF WindowBuilt, Furnished, Received
    <2> QED BY <1>1, <1>2, <2>1, <2>2, <2>3, <2>5 DEF PhaseInv
  <1>8. ListenersInv(name)'
    <2>1. \A n \in Nat : n <= seen => n <= name
      BY <1>3, QueueTypes
    <2>2. \A interface : Names(interface)' = Names(interface) /\ Names(interface) \subseteq Nat
      BY <1>1, QueueTypes DEF Names
    <2>3. \A interface : Several(interface)' = Several(interface)
      BY <2>2 DEF Several
    <2> HIDE DEF Several, Names, WindowBuilt
    <2> QED BY <1>1, <1>2, <2>1, <2>2, <2>3 DEF Parts, ListenersInv
  <1>9. CausesInv'
    BY <1>1, KeepCauses DEF Parts
  <1>10. name \in Nat
    BY <1>3, QueueTypes
  <1> QED BY <1>3, <1>4, <1>5, <1>6, <1>7, <1>8, <1>9, <1>10 DEF Parts

LEMMA BindParts ==
  ASSUME TypeOK, NEW kind \in [Nat -> Kinds], NEW seen \in Nat, Parts(kind, seen), HandleGlobal,
         NEW name, name = Head(batch).name, globals[name] \in Bindable
  PROVE  name \in Nat /\ \E better \in [Nat -> Kinds] : Parts(better, name)'
  <1>1. PICK interface \in Bindable : interface = globals[name]
    OBVIOUS
  <1>2. /\ Handles("global") /\ pc = "handle"
        /\ UNCHANGED <<pc, started, failure, socket, incoming, listening, globals, early,
                       capable, gone, resources, protocol_error>>
        /\ Bind(name, interface)
    BY <1>1 DEF HandleGlobal, Handles, Running, compositor
  <1>3. /\ EventsInv(name)' /\ name \in (seen + 1) .. Len(globals)
        /\ \A j \in DOMAIN batch :
             batch[j] = Head(batch) \/ \E k \in DOMAIN batch' : batch'[k] = batch[j]
    BY <1>2, HandlesTail DEF Parts
  <1>4. PICK top \in Ids :
          /\ ids = WL_NEW_ID_MIN .. (top - 1) /\ LowestId(ids) = top
          /\ top \notin ids /\ top > 2 /\ \A id \in ids : id < top
          /\ REGISTRY \in ids
          /\ top + 1 \in Nat /\ ids \cup {top} = WL_NEW_ID_MIN .. ((top + 1) - 1)
          /\ WL_NEW_ID_MIN < top + 1 /\ top + 1 <= WL_NEW_ID_MIN + 1 + name + Built
    BY <1>3, NextIdFree DEF Parts
  <1>5. PICK r : r = R("bind", REGISTRY, top, name, interface)
    OBVIOUS
  <1>6. /\ ids' = ids \cup {top}
        /\ queue' = Append(queue, r)
        /\ bound' = [bound EXCEPT ![interface] = top]
        /\ objects' = IF interface = "wl_compositor" THEN objects
                      ELSE MapCreate(objects, top, interface)
    BY <1>2, <1>4, <1>5 DEF Bind
  <1>7. /\ top \in Nat /\ interface \in Kinds /\ name \in Nat /\ REGISTRY \in Nat
        /\ r \in Requests /\ r.op = "bind" /\ r.on = REGISTRY /\ r.id = top /\ r.name = name
        /\ r.kind = interface /\ Makes(r)
    <2>1. top \in Nat /\ interface \in Kinds /\ name \in Nat /\ REGISTRY \in Nat
      BY <1>3, <1>1, QueueTypes, KindsLemma, Constants DEF Ids
    <2> QED BY <1>5, <2>1 DEF R, Requests, Makes
  <1>8. PICK better \in [Nat -> Kinds] :
          better[top] = interface /\ \A id \in Nat : id # top => better[id] = kind[id]
    <2> DEFINE new == [kind EXCEPT ![top] = interface]
    <2>1. new \in [Nat -> Kinds] /\ new[top] = interface
      BY <1>7
    <2>2. \A id \in Nat : id # top => new[id] = kind[id]
      BY <1>7
    <2> HIDE DEF new
    <2> QED BY <2>1, <2>2
  <1>9. /\ ids \subseteq Nat /\ \A id \in ids : better[id] = kind[id]
        /\ better[DISPLAY_OBJ_ID] = kind[DISPLAY_OBJ_ID]
        /\ top # DISPLAY_OBJ_ID /\ top # NULL_OBJ_ID
    <2>1. ids \subseteq Nat
      BY QueueTypes
    <2>2. top # DISPLAY_OBJ_ID /\ top # NULL_OBJ_ID /\ DISPLAY_OBJ_ID \in Nat
      BY <1>4, Constants
    <2>3. \A id \in ids : better[id] = kind[id]
      BY <1>4, <1>8, <2>1
    <2> QED BY <1>8, <2>1, <2>2, <2>3
  <1>10. UNCHANGED <<Built, WindowBuilt>> /\ Unserved' = Append(Unserved, r)
    <2>1. Unserved' = Append(Unserved, r)
      <3>1. socket \in Seq(Requests) /\ queue \in Seq(Requests) /\ r \in Requests
        BY <1>7, QueueTypes
      <3>2. socket \o Append(queue, r) = Append(socket \o queue, r)
        BY <3>1, ConcatAppend
      <3> QED BY <1>2, <1>6, <3>2 DEF Unserved
    <2> QED BY <1>2, <2>1 DEF Built, WindowBuilt
  <1>11. bound \in [Bindable -> ids \cup {NULL_OBJ_ID}] /\ DOMAIN objects \subseteq ids
         /\ bound' \in [Bindable -> ids' \cup {NULL_OBJ_ID}]
         /\ bound'[interface] = top
         /\ \A i \in Bindable : i # interface => bound'[i] = bound[i]
    BY <1>1, <1>6 DEF TypeOK
  <1>12. /\ \A i \in DOMAIN objects : i \in DOMAIN objects' /\ objects'[i] = objects[i]
         /\ interface # "wl_compositor" =>
              DOMAIN objects' = DOMAIN objects \cup {top} /\ objects'[top] = interface
         /\ interface = "wl_compositor" => objects' = objects
    BY <1>4, <1>6, <1>11 DEF MapCreate
  <1>13. IdsInv(name)'
    <2>1. Len(globals) <= MaxGlobals /\ Len(globals) \in Nat /\ name \in 0 .. Len(globals)
      BY <1>3, QueueTypes DEF Parts, IdsInv
    <2> HIDE DEF Built
    <2> QED BY <1>2, <1>4, <1>6, <1>10, <2>1 DEF IdsInv
  <1>14. KindsInv(better)'
    <2>1. /\ KindsInv(kind) /\ DOMAIN resources \subseteq ids \cup {DISPLAY_OBJ_ID}
      BY DEF Parts, KindsInv
    <2>2. \A id \in DOMAIN objects' : objects'[id] = better[id]
      <3>1. \A id \in DOMAIN objects : objects'[id] = better[id]
        BY <1>9, <1>11, <1>12, <2>1 DEF KindsInv
      <3> QED BY <1>8, <1>12, <3>1
    <2>3. \A id \in DOMAIN resources : resources[id] = better[id]
      BY <1>9, <2>1 DEF KindsInv
    <2>4. ASSUME NEW i \in Bindable, bound'[i] # NULL_OBJ_ID
          PROVE  better[bound'[i]] = i /\ (i # "wl_compositor" => bound'[i] \in DOMAIN objects')
      <3>1. CASE i = interface
        BY <1>8, <1>11, <1>12, <3>1
      <3>2. CASE i # interface
        <4>1. /\ bound'[i] = bound[i] /\ bound[i] \in ids /\ kind[bound[i]] = i
              /\ i # "wl_compositor" => bound[i] \in DOMAIN objects
          BY <1>11, <2>1, <2>4, <3>2 DEF KindsInv
        <4> QED BY <1>9, <1>12, <4>1
      <3> QED BY <3>1, <3>2
    <2>5. better[DISPLAY_OBJ_ID] = "wl_display" /\ better[REGISTRY] = "wl_registry"
      BY <1>4, <1>9, <2>1 DEF KindsInv
    <2> QED BY <1>2, <1>6, <2>1, <2>2, <2>3, <2>4, <2>5 DEF KindsInv
  <1>15. ~protocol_error' => RequestsInv(better)'
    <2> SUFFICES ASSUME ~protocol_error PROVE RequestsInv(better)'
      BY <1>2
    <2>1. RequestsInv(kind) /\ DOMAIN resources \subseteq ids \cup {DISPLAY_OBJ_ID}
      BY DEF Parts, KindsInv
    <2>2. Unserved \in Seq(Requests)
      BY QueueTypes
    <2>3. \A k \in DOMAIN Unserved :
            /\ Unserved[k] \in Requests /\ Servable(kind, Unserved[k])
            /\ Makes(Unserved[k]) => Unserved[k].id \in ids
            /\ Unserved[k].on \in ids \cup {DISPLAY_OBJ_ID, NULL_OBJ_ID}
      <3>1. \A k \in DOMAIN Unserved : Unserved[k] \in Requests /\ Servable(kind, Unserved[k])
        BY <2>1, QueueTypes DEF RequestsInv
      <3>2. \A k \in DOMAIN Unserved : Makes(Unserved[k]) => Unserved[k].id \in ids
        BY <2>1 DEF RequestsInv, InTurn
      <3> QED BY <1>4, <3>1, <3>2, OnKnown
    <2>4. InTurn(Append(Unserved, r), ids \cup {top}, DOMAIN resources)
      <3>1. top \notin DOMAIN resources /\ \A k \in DOMAIN Unserved : Unserved[k].on # top
        BY <1>4, <1>9, <2>1, <2>3
      <3>2. REGISTRY # top
        BY <1>4
      <3>3. InTurn(Unserved, ids, DOMAIN resources)
        BY <2>1 DEF RequestsInv
      <3>4. InTurn(Append(Unserved, r), IF Makes(r) THEN ids \cup {r.id} ELSE ids, DOMAIN resources)
        BY <1>4, <1>7, <1>9, <2>2, <3>1, <3>2, <3>3, TurnAppend
      <3> QED BY <1>7, <3>4
    <2>5. Servable(better, r)'
      <3>1. name \in DOMAIN globals
        BY <1>3, QueueTypes
      <3> QED BY <1>1, <1>2, <1>6, <1>7, <1>8, <3>1 DEF Servable
    <2>6. ASSUME NEW k \in DOMAIN Unserved, NEW q, q = Unserved[k]
          PROVE  Servable(better, q)'
      <3>1. ids \subseteq ids' /\ UNCHANGED <<globals, early>>
        BY <1>2, <1>6
      <3>2. Servable(kind, q) /\ (Makes(q) => q.id \in ids)
        BY <2>3, <2>6
      <3>3. \A id \in ids : better[id] = kind[id]
        BY <1>9
      <3> QED BY <3>1, <3>2, <3>3, ServableStays
    <2>7. ASSUME NEW k \in DOMAIN Unserved', NEW q, q = Unserved'[k]
          PROVE  Servable(better, q)'
      <3>1. /\ DOMAIN Unserved' = 1 .. (Len(Unserved) + 1) /\ DOMAIN Unserved = 1 .. Len(Unserved)
            /\ \A l \in 1 .. Len(Unserved) : Unserved'[l] = Unserved[l]
            /\ Unserved'[Len(Unserved) + 1] = r
            /\ \A l \in 1 .. (Len(Unserved) + 1) : l \in 1 .. Len(Unserved) \/ l = Len(Unserved) + 1
        BY <1>7, <1>10, <2>2, AppendLemma
      <3>2. q = r \/ \E l \in DOMAIN Unserved : q = Unserved[l]
        BY <2>7, <3>1
      <3> QED BY <2>5, <2>6, <3>2
    <2> QED BY <1>2, <1>6, <1>10, <2>4, <2>7, RequestsThere
  <1>16. PhaseInv'
    <2>1. PhaseInv
      BY DEF Parts
    <2>2. \A i \in Bindable : bound[i] # NULL_OBJ_ID => bound'[i] # NULL_OBJ_ID
      BY <1>9, <1>11
    <2>3. Furnished => Furnished'
      <3>1. ~NullDereference => ~NullDereference'
        BY <2>2, KindsLemma DEF NullDereference
      <3>2. \A i \in DOMAIN objects : i \in DOMAIN objects' /\ objects'[i] = objects[i]
        BY <1>12
      <3> QED BY <3>1, <3>2 DEF Furnished
    <2>4. REGISTRY \in DOMAIN resources
      BY <1>2, <2>1 DEF PhaseInv
    <2>5. ASSUME NEW n, Received(n) PROVE Received(n)'
      <3>1. CASE \E j \in DOMAIN batch : batch[j].ev = "global" /\ batch[j].name = n
        <4>1. PICK j \in DOMAIN batch : batch[j].ev = "global" /\ batch[j].name = n
          BY <3>1
        <4>2. CASE batch[j] = Head(batch)
          <5>1. n = name /\ globals'[n] = interface /\ bound'[interface] # NULL_OBJ_ID
            BY <1>1, <1>2, <1>9, <1>11, <4>1, <4>2
          <5> QED BY <5>1 DEF Received
        <4>3. CASE \E k \in DOMAIN batch' : batch'[k] = batch[j]
          BY <4>1, <4>3 DEF Received
        <4> QED BY <1>3, <4>2, <4>3
      <3>2. CASE globals[n] \notin Bindable
        BY <1>2, <3>2 DEF Received
      <3>3. CASE globals[n] \in Bindable /\ bound[globals[n]] # NULL_OBJ_ID
        BY <1>2, <2>2, <3>3 DEF Received
      <3> QED BY <2>5, <3>1, <3>2, <3>3 DEF Received
    <2>6. \A n : Received(n) => Received(n)'
      BY <2>5
    <2> HIDE DEF WindowBuilt, Furnished, Received
    <2> QED BY <1>2, <1>10, <2>1, <2>3, <2>4, <2>6 DEF PhaseInv
  <1>17. ListenersInv(name)'
    <2>1. /\ \A n \in Nat : n <= seen => n <= name /\ n # name
          /\ \A i : Names(i)' = Names(i) /\ Names(i) \subseteq Nat
          /\ name \in Names(interface) /\ name <= name
      BY <1>1, <1>2, <1>3, QueueTypes DEF Names
    <2>2. \A i : Several(i)' = Several(i)
      BY <2>1 DEF Several
    <2>3. ListenersInv(seen)
      BY DEF Parts
    <2>4. ASSUME interface \in {"wl_shm", "wl_seat"}, NEW j \in DOMAIN objects, objects[j] = interface
          PROVE  Several(interface)
      <3>1. PICK n \in Names(interface) : n <= seen
        BY <2>3, <2>4 DEF ListenersInv
      <3>2. n # name
        BY <2>1, <3>1
      <3> QED BY <2>1, <3>1, <3>2 DEF Several
    <2> HIDE DEF Several, Names
    <2>5. ASSUME NEW i \in {"wl_shm", "wl_seat"}, NEW id \in DOMAIN objects', objects'[id] = i
          PROVE  /\ \E n \in Names(i)' : n <= name
                 /\ \A j \in DOMAIN objects' : id # j /\ objects'[j] = i => Several(i)'
      <3>1. CASE id \in DOMAIN objects
        <4>1. objects[id] = i
          BY <1>12, <2>5, <3>1
        <4>2. \E n \in Names(i) : n <= seen
          BY <2>3, <3>1, <4>1 DEF ListenersInv
        <4>3. ASSUME NEW j \in DOMAIN objects', id # j, objects'[j] = i PROVE Several(i)
          <5>1. CASE j \in DOMAIN objects
            BY <1>12, <2>3, <3>1, <4>1, <4>3, <5>1 DEF ListenersInv
          <5>2. CASE j \notin DOMAIN objects
            <6>1. i = interface
              BY <1>12, <4>3, <5>2
            <6> QED BY <2>4, <3>1, <4>1, <6>1
          <5> QED BY <5>1, <5>2
        <4> QED BY <2>1, <2>2, <4>2, <4>3
      <3>2. CASE id \notin DOMAIN objects
        <4>1. i = interface /\ \A j \in DOMAIN objects' : id # j => j \in DOMAIN objects /\ objects[j] = objects'[j]
          BY <1>12, <2>5, <3>2
        <4> QED BY <2>1, <2>2, <2>4, <2>5, <4>1
      <3> QED BY <3>1, <3>2
    <2>6. ASSUME NEW i \in NeedsListener, NEW id \in DOMAIN objects', objects'[id] = i,
                 id \notin listening
          PROVE  i \in {"wl_shm", "wl_seat"} /\ (WindowBuilt => Several(i)')
      <3>1. CASE id \in DOMAIN objects
        BY <1>12, <2>2, <2>3, <2>6, <3>1 DEF ListenersInv
      <3>2. CASE id \notin DOMAIN objects
        <4>1. i = interface /\ interface \in {"wl_shm", "wl_seat"}
          BY <1>12, <2>6, <3>2, KindsLemma DEF NeedsListener
        <4>2. ASSUME WindowBuilt PROVE Several(interface)
          <5>1. bound[interface] # NULL_OBJ_ID
            BY <4>1, <4>2 DEF Parts, PhaseInv, Furnished, NullDereference
          <5>2. bound[interface] \in DOMAIN objects /\ objects[bound[interface]] = interface
            BY <4>1, <5>1 DEF Parts, KindsInv
          <5> QED BY <2>4, <4>1, <5>2
        <4> QED BY <2>2, <4>1, <4>2
      <3> QED BY <3>1, <3>2
    <2> HIDE DEF WindowBuilt
    <2> QED BY <1>2, <1>10, <2>5, <2>6 DEF ListenersInv
  <1>18. CausesInv'
    BY <1>2, KeepCauses DEF Parts
  <1> QED BY <1>3, <1>7, <1>13, <1>14, <1>15, <1>16, <1>17, <1>18 DEF Parts

-----------------------------------------------------------------------------
(* Requests and objects made by main itself. *)

\* All ids in the requests, known or served, are below the next one.
RowBelow(row, known, served, top) ==
  /\ InTurn(row, known, served)
  /\ \A id \in known \cup served : id < top
  /\ \A k \in DOMAIN row : row[k].on < top

LEMMA TurnMake ==
  ASSUME NEW row \in Seq(Requests), NEW r \in Requests, NEW top \in Nat,
         NEW known, known \subseteq Nat, NEW served, served \subseteq Nat,
         RowBelow(row, known, served, top),
         Makes(r), r.id = top, r.on < top
  PROVE  /\ RowBelow(Append(row, r), known \cup {top}, served, top + 1)
         /\ Append(row, r) \in Seq(Requests) /\ known \cup {top} \subseteq Nat
  <1>1. \A id \in known \cup served : id < top
    BY DEF RowBelow
  <1>2. InTurn(row, known, served)
    BY DEF RowBelow
  <1>3. top \notin served
    BY <1>1
  <1>4. \A k \in DOMAIN row : row[k].on < top
    BY DEF RowBelow
  <1>5. \A k \in DOMAIN row : row[k].on # r.id
    BY <1>4
  <1>6. r.on # r.id
    OBVIOUS
  <1>7. InTurn(Append(row, r), IF Makes(r) THEN known \cup {r.id} ELSE known, served)
    BY <1>1, <1>2, <1>3, <1>5, <1>6, TurnAppend
  <1>8. /\ Append(row, r) \in Seq(Requests) /\ DOMAIN Append(row, r) = 1 .. (Len(row) + 1)
        /\ DOMAIN row = 1 .. Len(row)
        /\ \A k \in 1 .. Len(row) : Append(row, r)[k] = row[k]
        /\ Append(row, r)[Len(row) + 1] = r
        /\ \A k \in 1 .. (Len(row) + 1) : k \in 1 .. Len(row) \/ k = Len(row) + 1
    BY AppendLemma
  <1>9. \A k \in DOMAIN Append(row, r) : Append(row, r)[k].on < top + 1
    <2> SUFFICES ASSUME NEW k \in DOMAIN Append(row, r) PROVE Append(row, r)[k].on < top + 1
      OBVIOUS
    <2>1. CASE k = Len(row) + 1
      BY <1>8, <2>1, RequestFields
    <2>2. CASE k \in 1 .. Len(row)
      <3>1. Append(row, r)[k] = row[k] /\ row[k] \in Requests /\ row[k].on < top
        BY <1>4, <1>8, <2>2
      <3>2. row[k].on \in Nat
        BY <3>1, RequestFields
      <3> QED BY <3>1, <3>2
    <2> QED BY <1>8, <2>1, <2>2
  <1>10. \A id \in known : id < top + 1
    <2> SUFFICES ASSUME NEW id \in known PROVE id < top + 1
      OBVIOUS
    <2>1. id \in Nat /\ id < top
      BY <1>1
    <2> QED BY <2>1
  <1>11. \A id \in served : id < top + 1
    <2> SUFFICES ASSUME NEW id \in served PROVE id < top + 1
      OBVIOUS
    <2>1. id \in Nat /\ id < top
      BY <1>1
    <2> QED BY <2>1
  <1>12. \A id \in (known \cup {top}) \cup served : id < top + 1
    BY <1>10, <1>11
  <1>13. InTurn(Append(row, r), known \cup {top}, served)
    BY <1>7
  <1> QED BY <1>8, <1>9, <1>12, <1>13 DEF RowBelow

\* The four requests of build_window, or of build_devices, lengthen a sequence of
\* requests.
LEMMA FourMore ==
  ASSUME NEW S, NEW s \in Seq(S), NEW a \in S, NEW b \in S, NEW c \in S, NEW d \in S
  PROVE  s \o <<a, b, c, d>> \in Seq(S)
  OBVIOUS

\* And each request of the longer sequence is one of the four or was there before.
LEMMA AmongFour ==
  ASSUME NEW S, NEW s \in Seq(S), NEW a \in S, NEW b \in S, NEW c \in S, NEW d \in S,
         NEW k \in DOMAIN (s \o <<a, b, c, d>>)
  PROVE  \/ (s \o <<a, b, c, d>>)[k] \in {a, b, c, d}
         \/ \E l \in DOMAIN s : (s \o <<a, b, c, d>>)[k] = s[l]
  OBVIOUS

\* Two or three ids more for requests that make them, and for the objects behind
\* them, leave what both ends know of the others as it was.
LEMMA ObjectsMore ==
  ASSUME TypeOK, NEW kind \in [Nat -> Kinds], NEW better, KindsInv(kind),
         ids \subseteq ids', REGISTRY \in ids,
         \A id \in ids \cup {DISPLAY_OBJ_ID} : better[id] = kind[id],
         DOMAIN objects \subseteq DOMAIN objects',
         \A id \in DOMAIN objects : objects'[id] = objects[id],
         \A id \in DOMAIN objects' \ DOMAIN objects : objects'[id] = better[id],
         UNCHANGED <<resources, bound>>
  PROVE  KindsInv(better)'
  <1>1. \A id \in DOMAIN objects' : objects'[id] = better[id]
    BY DEF TypeOK, KindsInv
  <1>2. \A id \in DOMAIN resources : resources[id] = better[id]
    BY DEF KindsInv
  <1>3. \A i \in Bindable : bound[i] # NULL_OBJ_ID =>
          better[bound[i]] = i /\ (i # "wl_compositor" => bound[i] \in DOMAIN objects')
    <2> SUFFICES ASSUME NEW i \in Bindable, bound[i] # NULL_OBJ_ID
                 PROVE  better[bound[i]] = i /\ (i # "wl_compositor" => bound[i] \in DOMAIN objects')
      OBVIOUS
    <2>1. bound[i] \in ids
      BY DEF TypeOK
    <2> QED BY <2>1 DEF KindsInv
  <1> QED BY <1>1, <1>2, <1>3 DEF KindsInv

\* Up to a page of globals is received before main goes on.
LEMMA NullIsMissing ==
  ASSUME PhaseInv, pc = "window", NEW interface \in Bindable, bound[interface] = NULL_OBJ_ID
  PROVE  ~InFirstRecv(interface)
  <1> SUFFICES ASSUME NEW k \in DOMAIN early, k <= BatchMax, globals[early[k]] = interface
               PROVE  FALSE
    BY DEF InFirstRecv
  <1>1. batch = <<>> /\ Received(early[k])
    BY DEF PhaseInv, WindowBuilt
  <1>2. DOMAIN batch = {}
    BY <1>1
  <1> QED BY <1>1, <1>2 DEF Received

\* The ids main asks for follow the others.
LEMMA IdsMore ==
  ASSUME TypeOK, NEW seen, IdsInv(seen), NEW n \in 1 .. 4, Built' = Built + n, Built + n <= 7
  PROVE  \E top \in Nat :
           /\ NextIds(n) = [k \in 1 .. n |-> (top + k) - 1]
           /\ ids = WL_NEW_ID_MIN .. (top - 1) /\ top > 2
           /\ (\A id \in ids : id < top) /\ REGISTRY \in ids
           /\ top .. (top + n - 1) \subseteq Ids
           /\ ids' = ids \cup top .. (top + n - 1) /\ UNCHANGED globals => IdsInv(seen)'
  <1>1. PICK top \in Nat : /\ ids = WL_NEW_ID_MIN .. (top - 1)
                           /\ WL_NEW_ID_MIN < top
                           /\ top <= WL_NEW_ID_MIN + 1 + seen + Built
    BY DEF IdsInv
  <1>2. /\ Built \in {0, 3, 7} /\ Len(globals) <= MaxGlobals /\ Len(globals) \in Nat
        /\ seen \in 0 .. Len(globals)
    BY QueueTypes DEF Built, IdsInv
  <1>3. top + n <= WL_NEW_ID_MAX
    BY <1>1, <1>2, Constants
  <1>4. NextIds(n) = [k \in 1 .. n |-> (top + k) - 1]
    BY <1>1, <1>3, NextIdsRow
  <1>5. /\ top > 2 /\ (\A id \in ids : id < top) /\ REGISTRY \in ids
        /\ top .. (top + n - 1) \subseteq Ids
    BY <1>1, <1>3, Constants DEF Ids
  <1>6. ASSUME ids' = ids \cup top .. (top + n - 1), UNCHANGED globals
        PROVE  IdsInv(seen)'
    <2> DEFINE after == top + n
    <2>1. after \in Nat /\ WL_NEW_ID_MIN < after /\ after <= WL_NEW_ID_MIN + 1 + seen + (Built + n)
      BY <1>1, <1>2, Constants
    <2>2. ids' = WL_NEW_ID_MIN .. (after - 1)
      BY <1>1, <1>6, Constants
    <2> HIDE DEF after, Built
    <2> QED BY <1>2, <1>6, <2>1, <2>2 DEF IdsInv
  <1> QED BY <1>1, <1>4, <1>5, <1>6
-----------------------------------------------------------------------------
(* main, between the first roundtrip and the loop *)

LEMMA BuildNullStep ==
  ASSUME TypeOK, NEW kind, NEW seen, Parts(kind, seen), BuildWindow, NullDereference
  PROVE  TypeOK' /\ Parts(kind, seen)'
  <1>1. /\ pc = "window" /\ failure' = "null"
        /\ UNCHANGED <<pc, started, ids, objects, bound, listening, batch, queue, socket, incoming>>
        /\ UNCHANGED compositor
    BY DEF BuildWindow, Running
  <1>2. UNCHANGED <<globals, early, capable, gone, resources, emits, protocol_error>>
    BY <1>1 DEF compositor
  <1>3. TypeOK'
    BY <1>1, <1>2 DEF TypeOK
  <1>4. UNCHANGED <<Unserved, Unhandled, Built, WindowBuilt, Furnished>>
    BY <1>1 DEF Unserved, Unhandled, Built, WindowBuilt, Furnished, NullDereference
  <1>5. IdsInv(seen)'
    BY <1>1, <1>2, <1>4, KeepIds DEF Parts
  <1>6. KindsInv(kind)'
    BY <1>1, <1>2, KeepKinds DEF Parts
  <1>7. EventsInv(seen)'
    BY <1>2, <1>4, KeepEvents DEF Parts
  <1>8. ~protocol_error' => RequestsInv(kind)'
    BY <1>1, <1>2, <1>4, KeepRequests DEF Parts
  <1>9. PhaseInv'
    <2>1. PhaseInv
      BY DEF Parts
    <2>2. \A n : Received(n)' = Received(n)
      BY <1>1, <1>2 DEF Received
    <2> HIDE DEF WindowBuilt, Furnished, Received
    <2> QED BY <1>1, <1>2, <1>4, <2>1, <2>2 DEF PhaseInv
  <1>10. ListenersInv(seen)'
    BY <1>1, <1>2, <1>4, KeepListeners DEF Parts
  <1>11. CausesInv'
    <2>1. PICK i \in {"wl_shm", "wl_seat", "xdg_wm_base"} : bound[i] = NULL_OBJ_ID
      BY DEF NullDereference
    <2>2. i \in Required /\ i \in Bindable
      BY DEF Required, Bindable
    <2>3. ~InFirstRecv(i)
      BY <1>1, <2>1, <2>2, NullIsMissing DEF Parts
    <2>4. \A j : InFirstRecv(j)' = InFirstRecv(j)
      BY <1>2 DEF InFirstRecv
    <2> HIDE DEF InFirstRecv
    <2> QED BY <1>1, <1>2, <2>2, <2>3, <2>4 DEF Parts, CausesInv
  <1> QED BY <1>3, <1>5, <1>6, <1>7, <1>8, <1>9, <1>10, <1>11 DEF Parts

\* The bound globals main uses, once it has seen that three of them are there.
LEMMA BoundKinds ==
  ASSUME TypeOK, NEW kind, KindsInv(kind), ~NullDereference
  PROVE  /\ \A i \in {"wl_shm", "wl_seat", "xdg_wm_base"} :
              /\ bound[i] \in ids /\ bound[i] \in DOMAIN objects
              /\ kind[bound[i]] = i /\ objects[bound[i]] = i
         /\ \/ bound["wl_compositor"] \in ids /\ kind[bound["wl_compositor"]] = "wl_compositor"
            \/ bound["wl_compositor"] = NULL_OBJ_ID
  <1>1. {"wl_shm", "wl_seat", "xdg_wm_base", "wl_compositor"} \subseteq Bindable
    BY KindsLemma
  <1>2. \A i \in Bindable : bound[i] \in ids \/ bound[i] = NULL_OBJ_ID
    BY DEF TypeOK
  <1>3. \A i \in Bindable : bound[i] # NULL_OBJ_ID =>
          /\ kind[bound[i]] = i
          /\ i # "wl_compositor" => bound[i] \in DOMAIN objects /\ objects[bound[i]] = i
    BY DEF KindsInv
  <1>4. \A i \in {"wl_shm", "wl_seat", "xdg_wm_base"} : bound[i] # NULL_OBJ_ID /\ i # "wl_compositor"
    BY DEF NullDereference
  <1> QED BY <1>1, <1>2, <1>3, <1>4

\* Before main adds to them.
LEMMA RowStart ==
  ASSUME TypeOK, NEW kind, RequestsInv(kind), KindsInv(kind), REGISTRY \in ids,
         NEW top \in Nat, top > 2, \A id \in ids : id < top
  PROVE  RowBelow(Unserved, ids, DOMAIN resources, top) /\ DOMAIN resources \subseteq Nat
  <1>1. DOMAIN resources \subseteq ids \cup {DISPLAY_OBJ_ID}
    BY DEF KindsInv
  <1>2. \A k \in DOMAIN Unserved : Unserved[k].on \in ids \cup {DISPLAY_OBJ_ID, NULL_OBJ_ID}
    BY OnKnown, QueueTypes DEF RequestsInv
  <1>3. DISPLAY_OBJ_ID < top /\ NULL_OBJ_ID < top /\ DISPLAY_OBJ_ID \in Nat
    BY Constants
  <1>4. ids \subseteq Nat
    BY QueueTypes
  <1> QED BY <1>1, <1>2, <1>3, <1>4 DEF RowBelow, RequestsInv

LEMMA BuildWindowStep ==
  ASSUME TypeOK, NEW kind \in [Nat -> Kinds], NEW seen \in Nat, Parts(kind, seen),
         BuildWindow, ~NullDereference
  PROVE  TypeOK' /\ \E better \in [Nat -> Kinds] : Parts(better, seen)'
  <1> DEFINE new == NextIds(3)
  <1>1. /\ pc = "window" /\ pc' = "devices" /\ queue' = <<>>
        /\ UNCHANGED <<started, failure, bound, batch, incoming, globals, early, capable, gone,
                       resources, emits, protocol_error>>
    BY DEF BuildWindow, Running, compositor
  <1>2. batch = <<>> /\ ~started /\ ~WindowBuilt /\ REGISTRY \in DOMAIN resources
    BY <1>1 DEF Parts, PhaseInv, WindowBuilt
  <1>3. Built = 0 /\ Built' = 3 /\ WindowBuilt'
    BY <1>1, <1>2 DEF Built, WindowBuilt
  <1>4. PICK top \in Nat :
          /\ NextIds(3) = [k \in 1 .. 3 |-> (top + k) - 1]
          /\ ids = WL_NEW_ID_MIN .. (top - 1) /\ top > 2
          /\ (\A id \in ids : id < top) /\ REGISTRY \in ids
          /\ top .. (top + 3 - 1) \subseteq Ids
          /\ ids' = ids \cup top .. (top + 3 - 1) /\ UNCHANGED globals => IdsInv(seen)'
    <2> HIDE DEF Built
    <2> QED BY <1>3, IdsMore DEF Parts
  <1>5. /\ new[1] = top /\ new[2] = top + 1 /\ new[3] = top + 2
        /\ ToSet(new) = {top, top + 1, top + 2}
        /\ top .. (top + 3 - 1) = {top, top + 1, top + 2}
        /\ top + 1 \in Nat /\ top + 2 \in Nat
    <2>1. new = [k \in 1 .. 3 |-> (top + k) - 1]
      BY <1>4
    <2> HIDE DEF new
    <2>2. new[1] = top /\ new[2] = top + 1 /\ new[3] = top + 2 /\ DOMAIN new = 1 .. 3
      BY <2>1
    <2>3. ToSet(new) = {new[1], new[2], new[3]}
      <3>1. 1 .. 3 = {1, 2, 3}
        OBVIOUS
      <3> QED BY <2>2, <3>1 DEF ToSet
    <2> QED BY <2>2, <2>3
  <1>6. PICK a, b, c, d :
          /\ a = R("new", bound["wl_compositor"], top, 0, "wl_surface")
          /\ b = R("new", bound["xdg_wm_base"], top + 1, 0, "xdg_surface")
          /\ c = R("new", top + 1, top + 2, 0, "xdg_toplevel")
          /\ d = R("other", top + 2, 0, 0, "xdg_toplevel")
    OBVIOUS
  <1>7. /\ ids' = ids \cup {top, top + 1, top + 2}
        /\ objects' = Create3(objects, top, "wl_surface", top + 1, "xdg_surface",
                              top + 2, "xdg_toplevel")
        /\ listening' = listening \cup {bound["wl_shm"], bound["wl_seat"], top + 1, top + 2}
        /\ socket' = socket \o queue \o <<a, b, c, d>>
    <2> HIDE DEF new
    <2> QED BY <1>5, <1>6 DEF BuildWindow, Listeners, new
  <1> HIDE DEF new
  <1>8. /\ \A i \in {"wl_shm", "wl_seat", "xdg_wm_base"} :
              /\ bound[i] \in ids /\ bound[i] \in DOMAIN objects
              /\ kind[bound[i]] = i /\ objects[bound[i]] = i
        /\ \/ bound["wl_compositor"] \in ids /\ kind[bound["wl_compositor"]] = "wl_compositor"
           \/ bound["wl_compositor"] = NULL_OBJ_ID
    BY BoundKinds DEF Parts
  <1>9. /\ ids \subseteq Nat /\ bound["wl_compositor"] \in Nat /\ bound["wl_compositor"] < top
        /\ bound["xdg_wm_base"] \in Nat /\ bound["xdg_wm_base"] < top
    <2>1. ids \subseteq Nat
      BY QueueTypes
    <2>2. NULL_OBJ_ID \in Nat /\ NULL_OBJ_ID < top
      BY <1>4, Constants
    <2>3. bound["xdg_wm_base"] \in ids
      BY <1>8
    <2> QED BY <1>4, <1>8, <2>1, <2>2, <2>3
  <1>10. /\ a \in Requests /\ Makes(a) /\ a.op = "new" /\ a.id = top /\ a.kind = "wl_surface"
         /\ a.on = bound["wl_compositor"]
    <2>1. "wl_surface" \in Kinds
      BY KindsLemma
    <2> QED BY <1>6, <1>9, <2>1 DEF R, Requests, Makes
  <1>11. /\ b \in Requests /\ Makes(b) /\ b.op = "new" /\ b.id = top + 1 /\ b.kind = "xdg_surface"
         /\ b.on = bound["xdg_wm_base"]
    <2>1. "xdg_surface" \in Kinds
      BY KindsLemma
    <2> QED BY <1>5, <1>6, <1>9, <2>1 DEF R, Requests, Makes
  <1>12. /\ c \in Requests /\ Makes(c) /\ c.op = "new" /\ c.id = top + 2 /\ c.kind = "xdg_toplevel"
         /\ c.on = top + 1
    <2>1. "xdg_toplevel" \in Kinds
      BY KindsLemma
    <2> QED BY <1>5, <1>6, <2>1 DEF R, Requests, Makes
  <1>13. d \in Requests /\ ~Makes(d) /\ d.op = "other" /\ d.on = top + 2
    <2>1. "xdg_toplevel" \in Kinds
      BY KindsLemma
    <2> QED BY <1>5, <1>6, <2>1 DEF R, Requests, Makes
  <1>14. PICK better \in [Nat -> Kinds] :
           /\ better[top] = "wl_surface" /\ better[top + 1] = "xdg_surface"
           /\ better[top + 2] = "xdg_toplevel"
           /\ \A id \in Nat : id < top => better[id] = kind[id]
    <2> DEFINE f == [id \in Nat |-> IF id = top THEN "wl_surface"
                                    ELSE IF id = top + 1 THEN "xdg_surface"
                                    ELSE IF id = top + 2 THEN "xdg_toplevel" ELSE kind[id]]
    <2>1. {"wl_surface", "xdg_surface", "xdg_toplevel"} \subseteq Kinds
      BY KindsLemma
    <2>2. f \in [Nat -> Kinds]
      BY <2>1
    <2>3. /\ f[top] = "wl_surface" /\ f[top + 1] = "xdg_surface" /\ f[top + 2] = "xdg_toplevel"
          /\ \A id \in Nat : id < top => f[id] = kind[id]
      BY <1>5
    <2> HIDE DEF f
    <2> QED BY <2>2, <2>3
  <1>15. \A id \in ids \cup {DISPLAY_OBJ_ID} : better[id] = kind[id]
    BY <1>4, <1>9, <1>14, Constants
  <1>16. /\ DOMAIN objects' = DOMAIN objects \cup {top, top + 1, top + 2}
         /\ objects'[top] = "wl_surface" /\ objects'[top + 1] = "xdg_surface"
         /\ objects'[top + 2] = "xdg_toplevel"
         /\ \A i \in DOMAIN objects : objects'[i] = objects[i]
    <2>1. DOMAIN objects \subseteq ids /\ ids \subseteq Nat
      BY <1>9 DEF TypeOK
    <2>2. \A i \in DOMAIN objects : i \notin {top, top + 1, top + 2}
      BY <1>4, <2>1
    <2>3. top # top + 1 /\ top + 1 # top + 2 /\ top # top + 2
      OBVIOUS
    <2>4. objects' = Create3(objects, top, "wl_surface", top + 1, "xdg_surface",
                            top + 2, "xdg_toplevel")
      BY <1>7
    <2> QED BY <2>2, <2>3, <2>4 DEF Create3, MapCreate
  <1>17. Unserved' = Unserved \o <<a, b, c, d>>
         /\ Unserved' = Append(Append(Append(Append(Unserved, a), b), c), d)
         /\ Unserved' \in Seq(Requests)
    <2>1. Unserved \in Seq(Requests)
      BY QueueTypes
    <2>2. socket' = Unserved \o <<a, b, c, d>>
      BY <1>7 DEF Unserved
    <2>3. socket' \in Seq(Requests)
      BY <1>10, <1>11, <1>12, <1>13, <2>1, <2>2, FourMore
    <2>4. Unserved' = socket'
      BY <1>1, <2>3, ConcatEmpty DEF Unserved
    <2>5. Unserved \o <<a, b, c, d>> = Append(Append(Append(Append(Unserved, a), b), c), d)
      BY <1>10, <1>11, <1>12, <1>13, <2>1, ConcatFour, SMTT(30)
    <2> QED BY <2>2, <2>3, <2>4, <2>5
  <1>18. TypeOK'
    <2>1. socket' \in Seq(Requests) /\ queue' \in Seq(Requests)
      <3>1. Unserved' = socket' \o <<>> /\ socket' = Unserved \o <<a, b, c, d>>
        BY <1>1, <1>7 DEF Unserved
      <3> QED BY <1>1, <1>17, <3>1, ConcatEmpty
    <2>2. ids' \subseteq Ids /\ DOMAIN objects' \subseteq ids'
      BY <1>4, <1>5, <1>7, <1>16 DEF TypeOK
    <2>3. objects' \in [DOMAIN objects' -> Kinds]
      <3>1. \A i \in DOMAIN objects' : objects'[i] \in Kinds
        BY <1>16, KindsLemma DEF TypeOK
      <3>2. objects' = [i \in DOMAIN objects' |-> objects'[i]]
        BY <1>7 DEF Create3, MapCreate
      <3> QED BY <3>1, <3>2
    <2>4. listening' \subseteq DOMAIN objects'
      BY <1>7, <1>8, <1>16 DEF TypeOK
    <2>5. bound' \in [Bindable -> ids' \cup {NULL_OBJ_ID}]
      BY <1>1, <1>7 DEF TypeOK
    <2>6. pc' \in {"dispatch", "recv", "handle", "window", "devices"}
      BY <1>1
    <2> QED BY <1>1, <2>1, <2>2, <2>3, <2>4, <2>5, <2>6 DEF TypeOK
  <1>19. IdsInv(seen)'
    BY <1>1, <1>4, <1>5, <1>7
  <1>20. KindsInv(better)'
    <2>1. \A id \in DOMAIN objects' \ DOMAIN objects : objects'[id] = better[id]
      BY <1>14, <1>16
    <2>2. /\ ids \subseteq ids' /\ DOMAIN objects \subseteq DOMAIN objects'
          /\ UNCHANGED <<resources, bound>> /\ KindsInv(kind)
      BY <1>1, <1>7, <1>16 DEF Parts
    <2> QED BY <1>4, <1>15, <1>16, <2>1, <2>2, ObjectsMore
  <1>21. EventsInv(seen)'
    <2>1. Unhandled' = Unhandled
      BY <1>1 DEF Unhandled
    <2> QED BY <1>1, <2>1, KeepEvents DEF Parts
  <1>22. ~protocol_error' => RequestsInv(better)'
    <2> SUFFICES ASSUME ~protocol_error PROVE RequestsInv(better)'
      BY <1>1
    <2>1. RequestsInv(kind) /\ KindsInv(kind)
      BY DEF Parts
    <2>2. RowBelow(Unserved, ids, DOMAIN resources, top) /\ DOMAIN resources \subseteq Nat
          /\ Unserved \in Seq(Requests)
      BY <1>4, <2>1, RowStart, QueueTypes
    <2>3. /\ RowBelow(Append(Unserved, a), ids \cup {top}, DOMAIN resources, top + 1)
          /\ Append(Unserved, a) \in Seq(Requests) /\ ids \cup {top} \subseteq Nat
      BY <1>9, <1>10, <2>2, TurnMake
    <2> DEFINE s2 == Append(Append(Unserved, a), b)
               k2 == (ids \cup {top}) \cup {top + 1}
    <2>4. /\ RowBelow(s2, k2, DOMAIN resources, (top + 1) + 1)
          /\ s2 \in Seq(Requests) /\ k2 \subseteq Nat
      <3>1. b.on < top + 1 /\ top + 1 \in Nat
        BY <1>5, <1>9, <1>11
      <3> QED BY <1>11, <2>2, <2>3, <3>1, TurnMake
    <2> HIDE DEF s2, k2
    <2> DEFINE s3 == Append(s2, c)
               k3 == k2 \cup {top + 2}
    <2>5. /\ RowBelow(s3, k3, DOMAIN resources, (top + 2) + 1)
          /\ s3 \in Seq(Requests) /\ k3 \subseteq Nat
      <3>1. c.on < top + 2 /\ top + 2 \in Nat /\ (top + 1) + 1 = top + 2
        BY <1>5, <1>12
      <3>2. RowBelow(s2, k2, DOMAIN resources, top + 2)
        BY <2>4, <3>1
      <3> QED BY <1>12, <2>2, <2>4, <3>1, <3>2, TurnMake
    <2> HIDE DEF s3, k3
    <2>6. InTurn(Append(s3, d), k3, DOMAIN resources)
      <3>1. InTurn(s3, k3, DOMAIN resources)
        BY <2>5 DEF RowBelow
      <3>2. InTurn(Append(s3, d), IF Makes(d) THEN k3 \cup {d.id} ELSE k3, DOMAIN resources)
        BY <1>13, <2>5, <3>1, TurnAppend
      <3> QED BY <1>13, <3>2
    <2>7. Append(s3, d) = Unserved' /\ k3 = ids'
      BY <1>7, <1>17 DEF s2, s3, k2, k3
    <2>8. InTurn(Unserved', ids', DOMAIN resources)
      BY <2>6, <2>7
    <2>9. /\ \A id \in ids : better[id] = kind[id]
          /\ ids \subseteq ids' /\ UNCHANGED <<globals, early, resources>>
      BY <1>1, <1>7, <1>15
    <2>10. top \in ids' /\ top + 1 \in ids' /\ top + 2 \in ids' /\ ids \subseteq ids'
      BY <1>7
    <2>11. Servable(better, a)'
      <3>1. CASE bound["wl_compositor"] \in ids
        <4>1. NULL_OBJ_ID \notin ids
          BY <1>4, Constants
        <4>2. kind[bound["wl_compositor"]] = "wl_compositor"
          BY <1>8, <3>1, <4>1
        <4> QED BY <1>10, <1>14, <1>15, <2>10, <3>1, <4>2, KindsLemma DEF Servable
      <3>2. CASE bound["wl_compositor"] = NULL_OBJ_ID
        <4>1. ~InFirstRecv("wl_compositor")
          BY <1>1, <3>2, NullIsMissing, KindsLemma DEF Parts
        <4>2. ~InFirstRecv("wl_compositor")'
          BY <1>1, <4>1 DEF InFirstRecv
        <4> HIDE DEF InFirstRecv
        <4> QED BY <1>10, <1>14, <3>2, <4>2, KindsLemma DEF Servable
      <3> QED BY <1>8, <3>1, <3>2
    <2>12. Servable(better, b)'
      <3>1. bound["xdg_wm_base"] \in ids /\ kind[bound["xdg_wm_base"]] = "xdg_wm_base"
        BY <1>8
      <3> QED BY <1>11, <1>14, <1>15, <2>10, <3>1, KindsLemma DEF Servable
    <2>13. Servable(better, c)'
      BY <1>12, <1>14, <2>10, KindsLemma DEF Servable
    <2>14. Servable(better, d)'
      BY <1>13, <2>10 DEF Servable
    <2> DEFINE added == {a, b, c, d}
    <2>15. \A q \in added : Servable(better, q)'
      <3> SUFFICES ASSUME NEW q \in added PROVE Servable(better, q)'
        OBVIOUS
      <3> QED BY <2>11, <2>12, <2>13, <2>14
    <2>16. \A k \in DOMAIN Unserved' :
             Unserved'[k] \in added \/ \E l \in DOMAIN Unserved : Unserved'[k] = Unserved[l]
      <3>1. Unserved \in Seq(Requests) /\ Unserved' = Unserved \o <<a, b, c, d>>
        BY <1>17, QueueTypes
      <3>2. a \in Requests /\ b \in Requests /\ c \in Requests /\ d \in Requests
        BY <1>10, <1>11, <1>12, <1>13
      <3> SUFFICES ASSUME NEW k \in DOMAIN (Unserved \o <<a, b, c, d>>)
                   PROVE  \/ (Unserved \o <<a, b, c, d>>)[k] \in {a, b, c, d}
                          \/ \E l \in DOMAIN Unserved :
                               (Unserved \o <<a, b, c, d>>)[k] = Unserved[l]
        BY <3>1
      <3> QED BY <3>1, <3>2, AmongFour, SMTT(30)
    <2> HIDE DEF added
    <2> QED BY <2>1, <2>8, <2>9, <2>15, <2>16, RequestsMore
  <1>23. PhaseInv'
    <2>1. Furnished'
      <3>1. ~NullDereference'
        BY <1>1 DEF NullDereference
      <3>2. top \in DOMAIN objects' /\ objects'[top] = "wl_surface"
        BY <1>16
      <3> QED BY <3>1, <3>2 DEF Furnished
    <2> HIDE DEF Furnished, WindowBuilt
    <2> QED BY <1>1, <1>2, <1>3, <2>1 DEF PhaseInv
  <1>24. ListenersInv(seen)'
    <2>1. \A i : Names(i)' = Names(i) /\ Several(i)' = Several(i)
      BY <1>1 DEF Names, Several
    <2>2. ListenersInv(seen)
      BY DEF Parts
    <2>3. \A i \in DOMAIN objects' : objects'[i] \in {"wl_shm", "wl_seat"} => i \in DOMAIN objects
      BY <1>16
    <2> HIDE DEF Names, Several, WindowBuilt
    <2>4. ASSUME NEW interface \in {"wl_shm", "wl_seat"}, NEW i \in DOMAIN objects',
                 objects'[i] = interface
          PROVE  /\ \E name \in Names(interface)' : name <= seen
                 /\ \A j \in DOMAIN objects' : i # j /\ objects'[j] = interface => Several(interface)'
      BY <1>16, <2>1, <2>2, <2>3, <2>4 DEF ListenersInv
    <2>5. ASSUME NEW interface \in NeedsListener, NEW i \in DOMAIN objects',
                 objects'[i] = interface, i \notin listening'
          PROVE  interface \in {"wl_shm", "wl_seat"} /\ Several(interface)'
      <3>1. i \notin {top + 1, top + 2} /\ i \notin listening
            /\ i # bound["wl_shm"] /\ i # bound["wl_seat"]
        BY <1>7, <2>5
      <3>2. i # top
        BY <1>16, <2>5 DEF NeedsListener
      <3>3. i \in DOMAIN objects /\ objects[i] = interface
        BY <1>16, <2>5, <3>1, <3>2
      <3>4. interface \in {"wl_shm", "wl_seat"}
        BY <2>2, <2>5, <3>1, <3>3 DEF ListenersInv
      <3>5. bound[interface] \in DOMAIN objects /\ objects[bound[interface]] = interface
            /\ i # bound[interface]
        BY <1>8, <3>1, <3>4
      <3> QED BY <2>1, <2>2, <3>3, <3>4, <3>5 DEF ListenersInv
    <2> QED BY <2>4, <2>5 DEF ListenersInv
  <1>25. CausesInv'
    BY <1>1, KeepCauses DEF Parts
  <1> QED BY <1>14, <1>18, <1>19, <1>20, <1>21, <1>22, <1>23, <1>24, <1>25 DEF Parts

LEMMA BuildDevicesStep ==
  ASSUME TypeOK, NEW kind \in [Nat -> Kinds], NEW seen \in Nat, Parts(kind, seen), BuildDevices
  PROVE  TypeOK' /\ \E better \in [Nat -> Kinds] : Parts(better, seen)'
  <1> DEFINE new == NextIds(4)
  <1>1. /\ pc = "devices" /\ pc' = "dispatch" /\ started'
        /\ UNCHANGED <<failure, bound, batch, socket, incoming, globals, early, capable, gone,
                       resources, emits, protocol_error>>
    BY DEF BuildDevices, Running, compositor
  <1>2. /\ batch = <<>> /\ ~started /\ WindowBuilt /\ Furnished /\ ~NullDereference
        /\ REGISTRY \in DOMAIN resources
    BY <1>1 DEF Parts, PhaseInv, WindowBuilt, Furnished
  <1>3. Built = 3 /\ Built' = 7 /\ WindowBuilt'
    BY <1>1, <1>2 DEF Built, WindowBuilt
  <1>4. PICK top \in Nat :
          /\ NextIds(4) = [k \in 1 .. 4 |-> (top + k) - 1]
          /\ ids = WL_NEW_ID_MIN .. (top - 1) /\ top > 2
          /\ (\A id \in ids : id < top) /\ REGISTRY \in ids
          /\ top .. (top + 4 - 1) \subseteq Ids
          /\ ids' = ids \cup top .. (top + 4 - 1) /\ UNCHANGED globals => IdsInv(seen)'
    <2> HIDE DEF Built
    <2> QED BY <1>3, IdsMore DEF Parts
  <1>5. /\ new[1] = top /\ new[2] = top + 1 /\ new[3] = top + 2 /\ new[4] = top + 3
        /\ ToSet(new) = {top, top + 1, top + 2, top + 3}
        /\ top .. (top + 4 - 1) = {top, top + 1, top + 2, top + 3}
        /\ top + 1 \in Nat /\ top + 2 \in Nat /\ top + 3 \in Nat
    <2>1. new = [k \in 1 .. 4 |-> (top + k) - 1]
      BY <1>4
    <2> HIDE DEF new
    <2>2. new[1] = top /\ new[2] = top + 1 /\ new[3] = top + 2 /\ new[4] = top + 3
          /\ DOMAIN new = 1 .. 4
      BY <2>1
    <2>3. ToSet(new) = {new[1], new[2], new[3], new[4]}
      <3>1. 1 .. 4 = {1, 2, 3, 4}
        OBVIOUS
      <3> QED BY <2>2, <3>1 DEF ToSet
    <2> QED BY <2>2, <2>3
  <1>6. PICK a, b, c, d :
          /\ a = R("new", bound["wl_seat"], top, 0, "wl_pointer")
          /\ b = R("new", bound["wl_seat"], top + 1, 0, "wl_keyboard")
          /\ c = R("new", bound["wl_shm"], top + 2, 0, "wl_shm_pool")
          /\ d = R("new", top + 2, top + 3, 0, "wl_buffer")
    OBVIOUS
  <1>7. /\ ids' = ids \cup {top, top + 1, top + 2, top + 3}
        /\ objects' = Create3(objects, top, "wl_pointer", top + 1, "wl_keyboard",
                              top + 3, "wl_buffer")
        /\ listening' = listening \cup {top, top + 1}
        /\ queue' = queue \o <<a, b, c, d>>
    <2> HIDE DEF new
    <2> QED BY <1>5, <1>6 DEF BuildDevices, new
  <1> HIDE DEF new
  <1>8. \A i \in {"wl_shm", "wl_seat"} :
          /\ bound[i] \in ids /\ bound[i] \in DOMAIN objects
          /\ kind[bound[i]] = i /\ objects[bound[i]] = i
    BY <1>2, BoundKinds DEF Parts
  <1>9. /\ ids \subseteq Nat /\ bound["wl_seat"] \in Nat /\ bound["wl_seat"] < top
        /\ bound["wl_shm"] \in Nat /\ bound["wl_shm"] < top
    <2>1. ids \subseteq Nat
      BY QueueTypes
    <2> QED BY <1>4, <1>8, <2>1
  <1>10. {"wl_pointer", "wl_keyboard", "wl_shm_pool", "wl_buffer"} \subseteq Kinds
    BY KindsLemma
  <1>11. /\ a \in Requests /\ Makes(a) /\ a.op = "new" /\ a.id = top /\ a.kind = "wl_pointer"
         /\ a.on = bound["wl_seat"]
    BY <1>6, <1>9, <1>10 DEF R, Requests, Makes
  <1>12. /\ b \in Requests /\ Makes(b) /\ b.op = "new" /\ b.id = top + 1 /\ b.kind = "wl_keyboard"
         /\ b.on = bound["wl_seat"]
    BY <1>5, <1>6, <1>9, <1>10 DEF R, Requests, Makes
  <1>13. /\ c \in Requests /\ Makes(c) /\ c.op = "new" /\ c.id = top + 2 /\ c.kind = "wl_shm_pool"
         /\ c.on = bound["wl_shm"]
    BY <1>5, <1>6, <1>9, <1>10 DEF R, Requests, Makes
  <1>14. /\ d \in Requests /\ Makes(d) /\ d.op = "new" /\ d.id = top + 3 /\ d.kind = "wl_buffer"
         /\ d.on = top + 2
    BY <1>5, <1>6, <1>10 DEF R, Requests, Makes
  <1>15. PICK better \in [Nat -> Kinds] :
           /\ better[top] = "wl_pointer" /\ better[top + 1] = "wl_keyboard"
           /\ better[top + 2] = "wl_shm_pool" /\ better[top + 3] = "wl_buffer"
           /\ \A id \in Nat : id < top => better[id] = kind[id]
    <2> DEFINE f == [id \in Nat |-> IF id = top THEN "wl_pointer"
                                    ELSE IF id = top + 1 THEN "wl_keyboard"
                                    ELSE IF id = top + 2 THEN "wl_shm_pool"
                                    ELSE IF id = top + 3 THEN "wl_buffer" ELSE kind[id]]
    <2>1. f \in [Nat -> Kinds]
      BY <1>10
    <2>2. /\ f[top] = "wl_pointer" /\ f[top + 1] = "wl_keyboard" /\ f[top + 2] = "wl_shm_pool"
          /\ f[top + 3] = "wl_buffer"
          /\ \A id \in Nat : id < top => f[id] = kind[id]
      BY <1>5
    <2> HIDE DEF f
    <2> QED BY <2>1, <2>2
  <1>16. \A id \in ids \cup {DISPLAY_OBJ_ID} : better[id] = kind[id]
    BY <1>4, <1>9, <1>15, Constants
  <1>17. /\ DOMAIN objects' = DOMAIN objects \cup {top, top + 1, top + 3}
         /\ objects'[top] = "wl_pointer" /\ objects'[top + 1] = "wl_keyboard"
         /\ objects'[top + 3] = "wl_buffer"
         /\ \A i \in DOMAIN objects : objects'[i] = objects[i]
    <2>1. DOMAIN objects \subseteq ids /\ ids \subseteq Nat
      BY <1>9 DEF TypeOK
    <2>2. \A i \in DOMAIN objects : i \notin {top, top + 1, top + 3}
      BY <1>4, <2>1
    <2>3. top # top + 1 /\ top + 1 # top + 3 /\ top # top + 3
      OBVIOUS
    <2>4. objects' = Create3(objects, top, "wl_pointer", top + 1, "wl_keyboard",
                            top + 3, "wl_buffer")
      BY <1>7
    <2> QED BY <2>2, <2>3, <2>4 DEF Create3, MapCreate
  <1>18. /\ Unserved' = Unserved \o <<a, b, c, d>>
         /\ Unserved' = Append(Append(Append(Append(Unserved, a), b), c), d)
         /\ queue' \in Seq(Requests)
    <2>1. /\ socket \in Seq(Requests) /\ queue \in Seq(Requests) /\ Unserved \in Seq(Requests)
          /\ a \in Requests /\ b \in Requests /\ c \in Requests /\ d \in Requests
      BY <1>11, <1>12, <1>13, <1>14, QueueTypes
    <2>2. socket \o (queue \o <<a, b, c, d>>) = (socket \o queue) \o <<a, b, c, d>>
      <3> DEFINE u == <<a, b, c, d>>
      <3>1. u \in Seq(Requests)
        BY <2>1
      <3> HIDE DEF u
      <3>2. socket \o (queue \o u) = (socket \o queue) \o u
        BY <2>1, <3>1, ConcatAssociates
      <3> QED BY <3>2 DEF u
    <2>3. Unserved \o <<a, b, c, d>> = Append(Append(Append(Append(Unserved, a), b), c), d)
      BY <2>1, ConcatFour
    <2>4. queue \o <<a, b, c, d>> \in Seq(Requests)
      BY <2>1, FourMore
    <2> QED BY <1>1, <1>7, <2>2, <2>3, <2>4 DEF Unserved
  <1>19. TypeOK'
    <2>1. ids' \subseteq Ids /\ DOMAIN objects' \subseteq ids'
      BY <1>4, <1>5, <1>7, <1>17 DEF TypeOK
    <2>2. objects' \in [DOMAIN objects' -> Kinds]
      <3>1. \A i \in DOMAIN objects' : objects'[i] \in Kinds
        BY <1>10, <1>17 DEF TypeOK
      <3>2. objects' = [i \in DOMAIN objects' |-> objects'[i]]
        BY <1>7 DEF Create3, MapCreate
      <3> QED BY <3>1, <3>2
    <2>3. listening' \subseteq DOMAIN objects'
      BY <1>7, <1>17 DEF TypeOK
    <2>4. bound' \in [Bindable -> ids' \cup {NULL_OBJ_ID}]
      BY <1>1, <1>7 DEF TypeOK
    <2>5. pc' \in {"dispatch", "recv", "handle", "window", "devices"} /\ started' \in BOOLEAN
      BY <1>1 DEF BuildDevices
    <2> QED BY <1>1, <1>18, <2>1, <2>2, <2>3, <2>4, <2>5 DEF TypeOK
  <1>20. IdsInv(seen)'
    BY <1>1, <1>4, <1>5, <1>7
  <1>21. KindsInv(better)'
    <2>1. \A id \in DOMAIN objects' \ DOMAIN objects : objects'[id] = better[id]
      BY <1>15, <1>17
    <2>2. /\ ids \subseteq ids' /\ DOMAIN objects \subseteq DOMAIN objects'
          /\ UNCHANGED <<resources, bound>> /\ KindsInv(kind)
      BY <1>1, <1>7, <1>17 DEF Parts
    <2> QED BY <1>4, <1>16, <1>17, <2>1, <2>2, ObjectsMore
  <1>22. EventsInv(seen)'
    <2>1. Unhandled' = Unhandled
      BY <1>1 DEF Unhandled
    <2> QED BY <1>1, <2>1, KeepEvents DEF Parts
  <1>23. ~protocol_error' => RequestsInv(better)'
    <2> SUFFICES ASSUME ~protocol_error PROVE RequestsInv(better)'
      BY <1>1
    <2>1. RequestsInv(kind) /\ KindsInv(kind)
      BY DEF Parts
    <2>2. RowBelow(Unserved, ids, DOMAIN resources, top) /\ DOMAIN resources \subseteq Nat
          /\ Unserved \in Seq(Requests)
      BY <1>4, <2>1, RowStart, QueueTypes
    <2>3. /\ RowBelow(Append(Unserved, a), ids \cup {top}, DOMAIN resources, top + 1)
          /\ Append(Unserved, a) \in Seq(Requests) /\ ids \cup {top} \subseteq Nat
      BY <1>9, <1>11, <2>2, TurnMake
    <2> DEFINE s2 == Append(Append(Unserved, a), b)
               k2 == (ids \cup {top}) \cup {top + 1}
    <2>4. /\ RowBelow(s2, k2, DOMAIN resources, (top + 1) + 1)
          /\ s2 \in Seq(Requests) /\ k2 \subseteq Nat
      <3>1. b.on < top + 1 /\ top + 1 \in Nat
        BY <1>5, <1>9, <1>12
      <3> QED BY <1>12, <2>2, <2>3, <3>1, TurnMake
    <2> HIDE DEF s2, k2
    <2> DEFINE s3 == Append(s2, c)
               k3 == k2 \cup {top + 2}
    <2>5. /\ RowBelow(s3, k3, DOMAIN resources, (top + 2) + 1)
          /\ s3 \in Seq(Requests) /\ k3 \subseteq Nat
      <3>1. c.on < top + 2 /\ top + 2 \in Nat /\ (top + 1) + 1 = top + 2
        BY <1>5, <1>9, <1>13
      <3>2. RowBelow(s2, k2, DOMAIN resources, top + 2)
        BY <2>4, <3>1
      <3> QED BY <1>13, <2>2, <2>4, <3>1, <3>2, TurnMake
    <2> HIDE DEF s3, k3
    <2>6. RowBelow(Append(s3, d), k3 \cup {top + 3}, DOMAIN resources, (top + 3) + 1)
      <3>1. d.on < top + 3 /\ top + 3 \in Nat /\ (top + 2) + 1 = top + 3
        BY <1>5, <1>14
      <3>2. RowBelow(s3, k3, DOMAIN resources, top + 3)
        BY <2>5, <3>1
      <3> QED BY <1>14, <2>2, <2>5, <3>1, <3>2, TurnMake
    <2>7. Append(s3, d) = Unserved' /\ k3 \cup {top + 3} = ids'
      BY <1>7, <1>18 DEF s2, s3, k2, k3
    <2>8. InTurn(Unserved', ids', DOMAIN resources)
      BY <2>6, <2>7 DEF RowBelow
    <2>9. /\ \A id \in ids : better[id] = kind[id]
          /\ ids \subseteq ids' /\ UNCHANGED <<globals, early, resources>>
      BY <1>1, <1>7, <1>16
    <2>10. top + 2 \in ids' /\ bound["wl_seat"] \in ids' /\ bound["wl_shm"] \in ids'
      BY <1>7, <1>8
    <2>11. better[bound["wl_seat"]] = "wl_seat" /\ better[bound["wl_shm"]] = "wl_shm"
      BY <1>8, <1>16
    <2>12. Servable(better, a)'
      BY <1>11, <1>15, <2>10, <2>11, KindsLemma DEF Servable
    <2>13. Servable(better, b)'
      BY <1>12, <1>15, <2>10, <2>11, KindsLemma DEF Servable
    <2>14. Servable(better, c)'
      BY <1>13, <1>15, <2>10, <2>11, KindsLemma DEF Servable
    <2>15. Servable(better, d)'
      BY <1>14, <1>15, <2>10, KindsLemma DEF Servable
    <2> DEFINE added == {a, b, c, d}
    <2>16. \A q \in added : Servable(better, q)'
      <3> SUFFICES ASSUME NEW q \in added PROVE Servable(better, q)'
        OBVIOUS
      <3> QED BY <2>12, <2>13, <2>14, <2>15
    <2>17. \A k \in DOMAIN Unserved' :
             Unserved'[k] \in added \/ \E l \in DOMAIN Unserved : Unserved'[k] = Unserved[l]
      <3>1. Unserved \in Seq(Requests) /\ Unserved' = Unserved \o <<a, b, c, d>>
        BY <1>18, QueueTypes
      <3>2. a \in Requests /\ b \in Requests /\ c \in Requests /\ d \in Requests
        BY <1>11, <1>12, <1>13, <1>14
      <3> SUFFICES ASSUME NEW k \in DOMAIN (Unserved \o <<a, b, c, d>>)
                   PROVE  \/ (Unserved \o <<a, b, c, d>>)[k] \in {a, b, c, d}
                          \/ \E l \in DOMAIN Unserved :
                               (Unserved \o <<a, b, c, d>>)[k] = Unserved[l]
        BY <3>1
      <3> QED BY <3>1, <3>2, AmongFour, SMTT(30)
    <2> HIDE DEF added
    <2> QED BY <2>1, <2>8, <2>9, <2>16, <2>17, RequestsMore
  <1>24. PhaseInv'
    <2>1. Furnished'
      <3>1. ~NullDereference'
        BY <1>1, <1>2 DEF NullDereference
      <3>2. \A i \in DOMAIN objects : i \in DOMAIN objects' /\ objects'[i] = objects[i]
        BY <1>17
      <3> QED BY <1>2, <3>1, <3>2 DEF Furnished
    <2> HIDE DEF Furnished, WindowBuilt
    <2> QED BY <1>1, <1>2, <1>3, <2>1 DEF PhaseInv
  <1>25. ListenersInv(seen)'
    <2>1. \A i : Names(i)' = Names(i) /\ Several(i)' = Several(i)
      BY <1>1 DEF Names, Several
    <2>2. ListenersInv(seen)
      BY DEF Parts
    <2>3. \A i \in DOMAIN objects' : objects'[i] \in {"wl_shm", "wl_seat"} => i \in DOMAIN objects
      BY <1>17
    <2> HIDE DEF Names, Several, WindowBuilt
    <2>4. ASSUME NEW interface \in {"wl_shm", "wl_seat"}, NEW i \in DOMAIN objects',
                 objects'[i] = interface
          PROVE  /\ \E name \in Names(interface)' : name <= seen
                 /\ \A j \in DOMAIN objects' : i # j /\ objects'[j] = interface => Several(interface)'
      BY <1>17, <2>1, <2>2, <2>3, <2>4 DEF ListenersInv
    <2>5. ASSUME NEW interface \in NeedsListener, NEW i \in DOMAIN objects',
                 objects'[i] = interface, i \notin listening'
          PROVE  interface \in {"wl_shm", "wl_seat"} /\ Several(interface)'
      <3>1. i \notin {top, top + 1} /\ i \notin listening
        BY <1>7, <2>5
      <3>2. i # top + 3
        BY <1>17, <2>5 DEF NeedsListener
      <3>3. i \in DOMAIN objects /\ objects[i] = interface
        BY <1>17, <2>5, <3>1, <3>2
      <3> QED BY <1>2, <2>1, <2>2, <3>1, <3>3 DEF ListenersInv
    <2> QED BY <2>4, <2>5 DEF ListenersInv
  <1>26. CausesInv'
    BY <1>1, KeepCauses DEF Parts
  <1> QED BY <1>15, <1>19, <1>20, <1>21, <1>22, <1>23, <1>24, <1>25, <1>26 DEF Parts
-----------------------------------------------------------------------------
(* The compositor *)

\* One event more for the client.
LEMMA EventsMore ==
  ASSUME TypeOK, NEW seen \in Nat, EventsInv(seen), NEW e \in Events,
         incoming' = Append(incoming, e), UNCHANGED batch,
         NEW more \in Nat, more = Len(globals'), Len(globals) <= more,
         gone # {} => gone' # {},
         DOMAIN resources \subseteq DOMAIN resources', REGISTRY \in DOMAIN resources',
         e.ev = "global" => e.name \in (seen + 1) .. more /\ e.name > Len(globals),
         e.ev = "global_remove" => gone' # {},
         e.ev = "event" => e.on \in DOMAIN resources'
  PROVE  EventsInv(seen)' /\ incoming' \in Seq(Events)
  <1>1. /\ batch \in Seq(Events) /\ incoming \in Seq(Events) /\ Unhandled \in Seq(Events)
        /\ Len(globals) \in Nat
    BY QueueTypes
  <1>2. batch \o Append(incoming, e) = Append(batch \o incoming, e)
        /\ Append(incoming, e) \in Seq(Events)
    BY <1>1, ConcatAppend
  <1>3. Unhandled' = Append(Unhandled, e)
    BY <1>2 DEF Unhandled
  <1>4. InOrder(Append(Unhandled, e), seen, more)
    BY <1>1, EventsAppend DEF EventsInv
  <1>5. /\ DOMAIN Unhandled = 1 .. Len(Unhandled)
        /\ DOMAIN Append(Unhandled, e) = 1 .. (Len(Unhandled) + 1)
        /\ \A k \in 1 .. Len(Unhandled) : Append(Unhandled, e)[k] = Unhandled[k]
        /\ Append(Unhandled, e)[Len(Unhandled) + 1] = e
        /\ \A k \in 1 .. (Len(Unhandled) + 1) : k \in 1 .. Len(Unhandled) \/ k = Len(Unhandled) + 1
    BY <1>1, AppendLemma
  <1>6. ASSUME NEW k \in DOMAIN Unhandled'
        PROVE  /\ Unhandled'[k].ev = "global_remove" => gone' # {}
               /\ Unhandled'[k].ev = "event" => Unhandled'[k].on \in DOMAIN resources'
    <2>1. CASE Unhandled'[k] = e
      BY <2>1
    <2>2. CASE k \in DOMAIN Unhandled /\ Unhandled'[k] = Unhandled[k]
      BY <2>2 DEF EventsInv
    <2> QED BY <1>3, <1>5, <2>1, <2>2
  <1> QED BY <1>2, <1>3, <1>4, <1>6 DEF EventsInv

\* Where main waits, what else arrives comes behind the globals.
LEMMA PhaseMore ==
  ASSUME TypeOK, PhaseInv, REGISTRY \in DOMAIN resources,
         NEW e \in Events, incoming' = Append(incoming, e),
         NEW left, left = socket', \A k \in DOMAIN left : \E l \in DOMAIN socket : left[k] = socket[l],
         UNCHANGED <<client, early, resources>>,
         \A k \in DOMAIN early : globals'[early[k]] = globals[early[k]]
  PROVE  PhaseInv'
  <1>1. UNCHANGED <<pc, started, failure, ids, objects, bound, batch, queue>>
    BY DEF client
  <1>2. UNCHANGED <<WindowBuilt, Furnished>>
    BY <1>1 DEF WindowBuilt, Furnished, NullDereference
  <1>3. \A k \in DOMAIN early : Received(early[k]) => Received(early[k])'
    BY <1>1 DEF Received
  <1>4. /\ DOMAIN incoming = 1 .. Len(incoming) /\ DOMAIN incoming' = 1 .. (Len(incoming) + 1)
        /\ \A k \in 1 .. Len(incoming) : incoming'[k] = incoming[k]
        /\ Len(incoming) \in Nat
    BY QueueTypes, AppendLemma
  <1>5. \A k \in DOMAIN incoming : k \in DOMAIN incoming' /\ incoming'[k] = incoming[k]
    BY <1>4
  <1> HIDE DEF WindowBuilt, Furnished, Received
  <1>6. ~WindowBuilt => \A k \in DOMAIN socket' : socket'[k].op = "get_registry"
    BY DEF PhaseInv
  <1> QED BY <1>1, <1>2, <1>3, <1>5, <1>6 DEF PhaseInv

\* An event of an object.
LEMMA EmitStep ==
  ASSUME TypeOK, NEW kind \in [Nat -> Kinds], NEW seen \in Nat, Parts(kind, seen),
         NEW id \in DOMAIN resources, Emit(id)
  PROVE  TypeOK' /\ Parts(kind, seen)'
  <1>1. /\ incoming' = Append(incoming, E("event", id, 0)) /\ emits < MaxEmits /\ emits' = emits + 1
        /\ UNCHANGED <<client, socket, globals, early, capable, gone, resources, protocol_error>>
    BY DEF Emit
  <1>2. UNCHANGED <<pc, started, failure, ids, objects, bound, listening, batch, queue>>
    BY <1>1 DEF client
  <1>3. REGISTRY \in DOMAIN resources
    <2> SUFFICES ASSUME REGISTRY \notin DOMAIN resources PROVE FALSE
      OBVIOUS
    <2>1. ids = {REGISTRY}
      BY DEF Parts, PhaseInv
    <2>2. resources[id] = "wl_display"
      BY <2>1 DEF Parts, KindsInv
    <2>3. resources[id] # "wl_display"
      BY DEF Emit
    <2> QED BY <2>2, <2>3
  <1>4. PICK e \in Events : e = E("event", id, 0) /\ e.ev = "event" /\ e.on = id
    <2>1. id \in Nat
      BY QueueTypes, Constants DEF Parts, KindsInv
    <2> QED BY <2>1, EventType
  <1>5. EventsInv(seen)' /\ incoming' \in Seq(Events)
    <2>1. incoming' = Append(incoming, e)
      BY <1>1, <1>4
    <2>2. Len(globals) \in Nat /\ UNCHANGED <<batch, globals, gone, resources>>
      BY <1>1, <1>2, QueueTypes
    <2>3. EventsInv(seen)
      BY DEF Parts
    <2> QED BY <1>3, <1>4, <2>1, <2>2, <2>3, EventsMore
  <1>6. UNCHANGED <<Unserved, Built, WindowBuilt>>
    BY <1>1, <1>2 DEF Unserved, Built, WindowBuilt
  <1>7. TypeOK'
    <2>1. emits' \in 0 .. MaxEmits
      <3>1. emits \in 0 .. MaxEmits /\ MaxEmits \in Nat
        BY Constants DEF TypeOK
      <3> QED BY <1>1, <3>1
    <2> QED BY <1>1, <1>2, <1>5, <2>1 DEF TypeOK
  <1>8. IdsInv(seen)'
    BY <1>1, <1>2, <1>6, KeepIds DEF Parts
  <1>9. KindsInv(kind)'
    BY <1>1, <1>2, KeepKinds DEF Parts
  <1>10. ~protocol_error' => RequestsInv(kind)'
    BY <1>1, <1>2, <1>6, KeepRequests DEF Parts
  <1>11. PhaseInv'
    <2>1. \A k \in DOMAIN socket : \E l \in DOMAIN socket : socket[k] = socket[l]
      OBVIOUS
    <2>2. incoming' = Append(incoming, e)
      BY <1>1, <1>4
    <2>3. UNCHANGED <<client, early, resources>> /\ socket' = socket /\ globals' = globals
      BY <1>1
    <2>4. PhaseInv
      BY DEF Parts
    <2> QED BY <1>3, <2>1, <2>2, <2>3, <2>4, PhaseMore
  <1>12. ListenersInv(seen)'
    BY <1>1, <1>2, <1>6, KeepListeners DEF Parts
  <1>13. CausesInv'
    BY <1>1, <1>2, KeepCauses DEF Parts
  <1> QED BY <1>5, <1>7, <1>8, <1>9, <1>10, <1>11, <1>12, <1>13 DEF Parts

\* A client without its registry is told nothing, and has nothing to read.
LEMMA NothingYet ==
  ASSUME TypeOK, PhaseInv, REGISTRY \notin DOMAIN resources
  PROVE  Unhandled = <<>> /\ incoming = <<>> /\ early = <<>> /\ DOMAIN Unhandled = {}
  <1>1. incoming = <<>> /\ early = <<>> /\ batch = <<>>
    BY DEF PhaseInv
  <1>2. batch \in Seq(Events)
    BY QueueTypes
  <1> QED BY <1>1, <1>2, ConcatEmpty DEF Unhandled

\* What main made of the globals stays what it was when there are other globals.
LEMMA PhaseQuiet ==
  ASSUME TypeOK, PhaseInv, UNCHANGED <<client, socket, early, incoming, resources, protocol_error>>,
         \A k \in DOMAIN early : globals'[early[k]] = globals[early[k]]
  PROVE  PhaseInv'
  <1>1. UNCHANGED <<pc, started, failure, ids, objects, bound, batch, queue>>
    BY DEF client
  <1>2. UNCHANGED <<WindowBuilt, Furnished>>
    BY <1>1 DEF WindowBuilt, Furnished, NullDereference
  <1>3. \A k \in DOMAIN early : Received(early[k]) => Received(early[k])'
    BY <1>1 DEF Received
  <1> HIDE DEF WindowBuilt, Furnished, Received
  <1> QED BY <1>1, <1>2, <1>3 DEF PhaseInv

LEMMA RemoveGlobalStep ==
  ASSUME TypeOK, NEW kind \in [Nat -> Kinds], NEW seen \in Nat, Parts(kind, seen),
         NEW name \in DOMAIN globals, RemoveGlobal(name)
  PROVE  TypeOK' /\ Parts(kind, seen)'
  <1>1. /\ gone' = gone \cup {name}
        /\ incoming' = IF REGISTRY \in DOMAIN resources
                       THEN Append(incoming, E("global_remove", REGISTRY, name)) ELSE incoming
        /\ UNCHANGED <<client, socket, globals, early, capable, resources, emits, protocol_error>>
    BY DEF RemoveGlobal, HasRegistry
  <1>2. UNCHANGED <<pc, started, failure, ids, objects, bound, listening, batch, queue>>
    BY <1>1 DEF client
  <1>3. UNCHANGED <<Unserved, Built, WindowBuilt>>
    BY <1>1, <1>2 DEF Unserved, Built, WindowBuilt
  <1>4. PICK e \in Events : e = E("global_remove", REGISTRY, name) /\ e.ev = "global_remove"
    <2>1. name \in Nat /\ REGISTRY \in Nat
      BY QueueTypes, Constants
    <2> QED BY <2>1, EventType
  <1>5. EventsInv(seen) /\ PhaseInv
    BY DEF Parts
  <1>6. CASE REGISTRY \in DOMAIN resources
    <2>1. incoming' = Append(incoming, e)
      BY <1>1, <1>4, <1>6
    <2>2. Len(globals) \in Nat /\ UNCHANGED <<batch, globals, resources>> /\ gone' # {}
      BY <1>1, <1>2, QueueTypes
    <2>3. EventsInv(seen)' /\ incoming' \in Seq(Events)
      BY <1>4, <1>5, <1>6, <2>1, <2>2, EventsMore
    <2>4. \A k \in DOMAIN socket : \E l \in DOMAIN socket : socket[k] = socket[l]
      OBVIOUS
    <2>5. UNCHANGED <<client, early, resources>> /\ socket' = socket /\ globals' = globals
      BY <1>1
    <2>6. PhaseInv'
      BY <1>5, <1>6, <2>1, <2>4, <2>5, PhaseMore
    <2>7. TypeOK'
      BY <1>1, <1>2, <2>3 DEF TypeOK
    <2>8. /\ IdsInv(seen)' /\ KindsInv(kind)' /\ ListenersInv(seen)'
          /\ ~protocol_error' => RequestsInv(kind)'
      BY <1>1, <1>2, <1>3, KeepIds, KeepKinds, KeepListeners, KeepRequests DEF Parts
    <2>9. CausesInv'
      BY <1>1, <1>2, <2>2 DEF Parts, CausesInv, Several, Names, InFirstRecv
    <2> QED BY <2>3, <2>6, <2>7, <2>8, <2>9 DEF Parts
  <1>7. CASE REGISTRY \notin DOMAIN resources
    <2>1. incoming' = incoming
      BY <1>1, <1>7
    <2>2. Unhandled' = <<>> /\ DOMAIN Unhandled' = {} /\ seen = 0
      <3>1. Unhandled = <<>> /\ DOMAIN Unhandled = {} /\ seen = 0
        BY <1>5, <1>7, NothingYet DEF EventsInv
      <3>2. Unhandled' = Unhandled
        BY <1>2, <2>1 DEF Unhandled
      <3> QED BY <3>1, <3>2
    <2>3. EventsInv(seen)'
      BY <2>2 DEF EventsInv, InOrder
    <2>4. PhaseInv'
      BY <1>1, <1>5, <2>1, PhaseQuiet
    <2>5. TypeOK'
      BY <1>1, <1>2, <2>1 DEF TypeOK
    <2>6. /\ IdsInv(seen)' /\ KindsInv(kind)' /\ ListenersInv(seen)'
          /\ ~protocol_error' => RequestsInv(kind)'
      BY <1>1, <1>2, <1>3, KeepIds, KeepKinds, KeepListeners, KeepRequests DEF Parts
    <2>7. CausesInv'
      BY <1>1, <1>2 DEF Parts, CausesInv, Several, Names, InFirstRecv
    <2> QED BY <2>3, <2>4, <2>5, <2>6, <2>7 DEF Parts
  <1> QED BY <1>6, <1>7

LEMMA AddGlobalStep ==
  ASSUME TypeOK, NEW kind \in [Nat -> Kinds], NEW seen \in Nat, Parts(kind, seen),
         NEW interface \in Hotplugged, AddGlobal(interface)
  PROVE  TypeOK' /\ Parts(kind, seen)'
  <1> DEFINE n == Len(globals)
  <1>1. /\ n < MaxGlobals /\ globals' = Append(globals, interface)
        /\ incoming' = IF REGISTRY \in DOMAIN resources
                       THEN Append(incoming, E("global", REGISTRY, n + 1)) ELSE incoming
        /\ UNCHANGED <<client, socket, early, capable, gone, resources, emits, protocol_error>>
    BY DEF AddGlobal, HasRegistry
  <1>2. UNCHANGED <<pc, started, failure, ids, objects, bound, listening, batch, queue>>
    BY <1>1 DEF client
  <1>3. UNCHANGED <<Unserved, Built, WindowBuilt, Furnished>>
    BY <1>1, <1>2 DEF Unserved, Built, WindowBuilt, Furnished, NullDereference
  <1>4. /\ globals' \in Seq(STRING) /\ Len(globals') = n + 1 /\ n \in Nat
        /\ DOMAIN globals = 1 .. n /\ DOMAIN globals' = 1 .. (n + 1)
        /\ \A k \in 1 .. n : globals'[k] = globals[k]
    <2>1. globals \in Seq(STRING) /\ interface \in STRING
      BY QueueTypes, StartupAssumption
    <2> HIDE DEF n
    <2> QED BY <1>1, <2>1 DEF n
  <1> HIDE DEF n
  <1>5. \A k \in DOMAIN globals : k \in DOMAIN globals' /\ globals'[k] = globals[k]
    BY <1>4
  <1>6. early \in Seq(DOMAIN globals) /\ \A k \in DOMAIN early : early[k] \in DOMAIN globals
    BY DEF TypeOK
  <1>7. early' \in Seq(DOMAIN globals')
    <2>1. DOMAIN globals \subseteq DOMAIN globals'
      BY <1>5
    <2>2. early \in Seq(DOMAIN globals')
      BY <1>6, <2>1
    <2> QED BY <1>1, <2>2
  <1>8. \A i : InFirstRecv(i)' = InFirstRecv(i)
    BY <1>1, <1>5, <1>6 DEF InFirstRecv
  <1>9. \A i : Names(i) \subseteq Names(i)'
    BY <1>5 DEF Names
  <1>10. \A i : Several(i) => Several(i)'
    BY <1>9 DEF Several
  <1>11. EventsInv(seen) /\ PhaseInv /\ seen \in 0 .. n
    BY DEF Parts, IdsInv, n
  <1>12. EventsInv(seen)' /\ incoming' \in Seq(Events) /\ PhaseInv'
    <2>1. CASE REGISTRY \in DOMAIN resources
      <3>1. PICK e \in Events : e = E("global", REGISTRY, n + 1) /\ e.ev = "global" /\ e.name = n + 1
        <4>1. n + 1 \in Nat /\ REGISTRY \in Nat
          BY <1>4, Constants
        <4> QED BY <4>1, EventType
      <3>2. incoming' = Append(incoming, e) /\ UNCHANGED <<batch, gone, resources>>
        BY <1>1, <1>2, <2>1, <3>1
      <3>3. e.name \in (seen + 1) .. (n + 1) /\ e.name > Len(globals) /\ Len(globals) <= n + 1
            /\ n + 1 \in Nat
        BY <1>4, <1>11, <3>1 DEF n
      <3>4. EventsInv(seen)' /\ incoming' \in Seq(Events)
        BY <1>4, <1>11, <2>1, <3>1, <3>2, <3>3, EventsMore
      <3>5. \A k \in DOMAIN socket : \E l \in DOMAIN socket : socket[k] = socket[l]
        OBVIOUS
      <3>6. UNCHANGED <<client, early, resources>> /\ socket' = socket
            /\ \A k \in DOMAIN early : globals'[early[k]] = globals[early[k]]
        BY <1>1, <1>5, <1>6
      <3>7. PhaseInv'
        BY <1>11, <2>1, <3>2, <3>5, <3>6, PhaseMore
      <3> QED BY <3>4, <3>7
    <2>2. CASE REGISTRY \notin DOMAIN resources
      <3>1. incoming' = incoming /\ UNCHANGED <<client, socket, early, resources, protocol_error>>
            /\ \A k \in DOMAIN early : globals'[early[k]] = globals[early[k]]
        BY <1>1, <1>5, <1>6, <2>2
      <3>2. DOMAIN Unhandled' = {} /\ seen = 0
        <4>1. Unhandled = <<>> /\ DOMAIN Unhandled = {} /\ seen = 0
          BY <1>11, <2>2, NothingYet DEF EventsInv
        <4>2. Unhandled' = Unhandled
          BY <1>2, <3>1 DEF Unhandled
        <4> QED BY <4>1, <4>2
      <3>3. EventsInv(seen)'
        BY <3>2 DEF EventsInv, InOrder
      <3>4. PhaseInv'
        BY <1>11, <3>1, PhaseQuiet
      <3> QED BY <3>1, <3>3, <3>4, QueueTypes
    <2> QED BY <2>1, <2>2
  <1>13. TypeOK'
    <2>1. gone' \subseteq DOMAIN globals'
      BY <1>1, <1>5 DEF TypeOK
    <2> QED BY <1>1, <1>2, <1>4, <1>7, <1>12, <2>1 DEF TypeOK
  <1>14. IdsInv(seen)'
    <2>1. seen \in 0 .. (n + 1) /\ n + 1 <= MaxGlobals
      BY <1>1, <1>4, <1>11, Constants
    <2> HIDE DEF Built
    <2> QED BY <1>2, <1>3, <1>4, <2>1 DEF Parts, IdsInv
  <1>15. KindsInv(kind)'
    BY <1>1, <1>2, KeepKinds DEF Parts
  <1>16. ~protocol_error' => RequestsInv(kind)'
    <2> SUFFICES ASSUME ~protocol_error PROVE RequestsInv(kind)'
      BY <1>1
    <2>1. RequestsInv(kind)
      BY DEF Parts
    <2>2. InTurn(Unserved', ids', DOMAIN resources')
      BY <1>1, <1>2, <1>3, <2>1 DEF RequestsInv
    <2>3. ASSUME NEW k \in DOMAIN Unserved', NEW q, q = Unserved'[k] PROVE Servable(kind, q)'
      <3>1. Servable(kind, q)
        BY <1>3, <2>1, <2>3 DEF RequestsInv
      <3> HIDE DEF InFirstRecv
      <3> QED BY <1>2, <1>5, <1>8, <3>1 DEF Servable
    <2> QED BY <2>2, <2>3, RequestsThere
  <1>17. ListenersInv(seen)'
    <2>1. ListenersInv(seen)
      BY DEF Parts
    <2> HIDE DEF Several, Names, WindowBuilt
    <2>2. ASSUME NEW i \in {"wl_shm", "wl_seat"}, NEW id \in DOMAIN objects', objects'[id] = i
          PROVE  /\ \E name \in Names(i)' : name <= seen
                 /\ \A j \in DOMAIN objects' : id # j /\ objects'[j] = i => Several(i)'
      BY <1>2, <1>9, <1>10, <2>1, <2>2 DEF ListenersInv
    <2>3. ASSUME NEW i \in NeedsListener, NEW id \in DOMAIN objects', objects'[id] = i,
                 id \notin listening'
          PROVE  i \in {"wl_shm", "wl_seat"} /\ (WindowBuilt' => Several(i)')
      BY <1>2, <1>3, <1>10, <2>1, <2>3 DEF ListenersInv
    <2> QED BY <2>2, <2>3 DEF ListenersInv
  <1>18. CausesInv'
    <2> HIDE DEF Several, InFirstRecv
    <2> QED BY <1>1, <1>2, <1>8, <1>10 DEF Parts, CausesInv
  <1> QED BY <1>12, <1>13, <1>14, <1>15, <1>16, <1>17, <1>18 DEF Parts

\* The request at the head of the connection, when its turn has come.
LEMMA ServeHead ==
  ASSUME TypeOK, NEW kind \in [Nat -> Kinds], NEW seen \in Nat, Parts(kind, seen), Serve
  PROVE  \E r \in Requests :
           /\ r = Head(socket) /\ Servable(kind, r)
           /\ \E k \in DOMAIN socket : socket[k] = r
           /\ Makes(r) => /\ r.id \in ids /\ r.id \notin DOMAIN resources
                          /\ \A id \in ids : id < r.id => id \in DOMAIN resources
           /\ r.on \in ids => r.on \in DOMAIN resources
           /\ Unserved' = Tail(Unserved)
           /\ InTurn(Unserved', ids,
                     IF Makes(r) THEN DOMAIN resources \cup {r.id} ELSE DOMAIN resources)
           /\ \A k \in DOMAIN Unserved' :
                /\ Servable(kind, Unserved'[k])
                /\ Makes(Unserved'[k]) => Unserved'[k].id \in ids
           /\ socket' \in Seq(Requests)
           /\ \A k \in DOMAIN socket' : \E l \in DOMAIN socket : socket'[k] = socket[l]
  <1>1. /\ socket # <<>> /\ socket' = Tail(socket) /\ queue' = queue /\ RequestsInv(kind)
    BY DEF Serve, client, Parts
  <1>2. /\ socket \in Seq(Requests) /\ queue \in Seq(Requests) /\ Unserved \in Seq(Requests)
        /\ ids \subseteq Nat
    BY QueueTypes
  <1>3. PICK r \in Requests : r = Head(socket)
    BY <1>1, <1>2, TailLemma
  <1>4. Unserved' = Tail(Unserved) /\ Unserved # <<>> /\ Head(Unserved) = r
    BY <1>1, <1>2, <1>3, TailOfConcat DEF Unserved
  <1>5. /\ 1 \in DOMAIN Unserved /\ Unserved[1] = r
        /\ \A k \in DOMAIN Tail(Unserved) :
             k + 1 \in DOMAIN Unserved /\ Tail(Unserved)[k] = Unserved[k + 1]
    BY <1>2, <1>4, TailLemma
  <1>6. /\ 1 \in DOMAIN socket /\ socket[1] = r /\ Tail(socket) \in Seq(Requests)
        /\ \A k \in DOMAIN Tail(socket) : k + 1 \in DOMAIN socket /\ Tail(socket)[k] = socket[k + 1]
    BY <1>1, <1>2, <1>3, TailLemma
  <1>7. InTurn(Unserved, ids, DOMAIN resources)
    BY <1>1 DEF RequestsInv
  <1>8. /\ Makes(r) => /\ r.id \in ids \ DOMAIN resources
                       /\ \A id \in ids : id < r.id => id \in DOMAIN resources
        /\ r.on \in ids => r.on \in DOMAIN resources
        /\ InTurn(Tail(Unserved), ids,
                  IF Makes(r) THEN DOMAIN resources \cup {r.id} ELSE DOMAIN resources)
    BY <1>2, <1>4, <1>7, TurnTail
  <1>9. \A k \in DOMAIN Unserved :
          Servable(kind, Unserved[k]) /\ (Makes(Unserved[k]) => Unserved[k].id \in ids)
    BY <1>1, <1>7 DEF RequestsInv, InTurn
  <1>10. Servable(kind, r)
    BY <1>5, <1>9
  <1> QED BY <1>1, <1>3, <1>4, <1>5, <1>6, <1>8, <1>9, <1>10

\* Before the registry is served no other request is sent.
LEMMA RegistryFirst ==
  ASSUME PhaseInv, NEW r, \E k \in DOMAIN socket : socket[k] = r, r.op # "get_registry"
  PROVE  REGISTRY \in DOMAIN resources /\ WindowBuilt
  <1>1. WindowBuilt
    BY DEF PhaseInv
  <1>2. REGISTRY \notin DOMAIN resources => ~WindowBuilt
    BY DEF PhaseInv, WindowBuilt
  <1> QED BY <1>1, <1>2

\* A request main should not have made: on the null object, or for a device
\* that the seat does not have.
LEMMA IllegalForCause ==
  ASSUME TypeOK, NEW kind \in [Nat -> Kinds], KindsInv(kind), NEW seen, IdsInv(seen),
         NEW r \in Requests, Servable(kind, r),
         Makes(r) => /\ r.id \in ids /\ r.id \notin DOMAIN resources
                     /\ \A id \in ids : id < r.id => id \in DOMAIN resources,
         r.on \in ids => r.on \in DOMAIN resources,
         REGISTRY \in ids, ~Legal(r)
  PROVE  /\ r.op # "get_registry"
         /\ ~InFirstRecv("wl_compositor") \/ capable # Devices
  <1>1. PICK top \in Nat : ids = WL_NEW_ID_MIN .. (top - 1)
    BY DEF IdsInv
  <1>2. Makes(r) => Acceptable(r.id)
    <2> SUFFICES ASSUME Makes(r), NEW lower \in WL_NEW_ID_MIN .. (r.id - 1)
                 PROVE  lower \in DOMAIN resources
      BY DEF Acceptable
    <2>1. lower \in ids /\ lower < r.id
      BY <1>1, RequestFields, Constants
    <2> QED BY <2>1
  <1>3. CASE r.op = "get_registry"
    BY <1>2, <1>3 DEF Servable, Makes, Legal, KindsInv
  <1>4. CASE r.op = "bind"
    BY <1>2, <1>4 DEF Servable, Makes, Legal
  <1>5. CASE r.op = "other"
    BY <1>5 DEF Servable, Legal
  <1>6. CASE r.op = "new"
    <2>1. Makes(r) /\ r.kind \in DOMAIN Factory
      BY <1>6 DEF Makes, Servable
    <2>2. SUFFICES ASSUME InFirstRecv("wl_compositor") PROVE capable # Devices
      BY <1>6
    <2>3. r.on \in ids /\ kind[r.on] = Factory[r.kind]
      BY <1>6, <2>2 DEF Servable
    <2>4. r.on \in DOMAIN resources /\ resources[r.on] = Factory[r.kind]
      BY <2>3 DEF KindsInv
    <2>5. r.kind \in Devices /\ r.kind \notin capable
      BY <1>2, <1>6, <2>1, <2>4 DEF Legal
    <2> QED BY <2>5
  <1> QED BY <1>3, <1>4, <1>5, <1>6, RequestFields

LEMMA ServeIllegalStep ==
  ASSUME TypeOK, NEW kind \in [Nat -> Kinds], NEW seen \in Nat, Parts(kind, seen), Serve,
         ~Legal(Head(socket))
  PROVE  TypeOK' /\ Parts(kind, seen)'
  <1>1. PICK r \in Requests :
          /\ r = Head(socket) /\ Servable(kind, r)
          /\ \E k \in DOMAIN socket : socket[k] = r
          /\ Makes(r) => /\ r.id \in ids /\ r.id \notin DOMAIN resources
                         /\ \A id \in ids : id < r.id => id \in DOMAIN resources
          /\ r.on \in ids => r.on \in DOMAIN resources
          /\ socket' \in Seq(Requests)
          /\ \A k \in DOMAIN socket' : \E l \in DOMAIN socket : socket'[k] = socket[l]
    BY ServeHead
  <1>2. /\ protocol_error' = TRUE
        /\ incoming' = Append(incoming, E("error", DISPLAY_OBJ_ID, 0))
        /\ UNCHANGED <<client, resources, early, globals, capable, gone, emits>>
    BY DEF Serve
  <1>3. UNCHANGED <<pc, started, failure, ids, objects, bound, listening, batch, queue>>
    BY <1>2 DEF client
  <1>4. PICK e \in Events : e = E("error", DISPLAY_OBJ_ID, 0) /\ e.ev = "error"
    <2>1. DISPLAY_OBJ_ID \in Nat
      BY Constants
    <2> QED BY <2>1, EventType
  <1>5. r.op # "get_registry" /\ (~InFirstRecv("wl_compositor") \/ capable # Devices)
    <2>1. REGISTRY \in ids
      BY Constants DEF Parts, IdsInv
    <2>2. KindsInv(kind) /\ IdsInv(seen)
      BY DEF Parts
    <2> QED BY <1>1, <2>1, <2>2, IllegalForCause
  <1>6. REGISTRY \in DOMAIN resources
    BY <1>1, <1>5, RegistryFirst DEF Parts
  <1>7. incoming' = Append(incoming, e)
    BY <1>2, <1>4
  <1>8. EventsInv(seen)' /\ incoming' \in Seq(Events)
    <2>1. Len(globals) \in Nat /\ UNCHANGED <<batch, globals, gone, resources>>
      BY <1>2, <1>3, QueueTypes
    <2>2. EventsInv(seen)
      BY DEF Parts
    <2> QED BY <1>4, <1>6, <1>7, <2>1, <2>2, EventsMore
  <1>9. UNCHANGED <<Built, WindowBuilt>>
    BY <1>3 DEF Built, WindowBuilt
  <1>10. TypeOK'
    BY <1>1, <1>2, <1>3, <1>8 DEF TypeOK
  <1>11. IdsInv(seen)'
    BY <1>2, <1>3, <1>9, KeepIds DEF Parts
  <1>12. KindsInv(kind)'
    BY <1>2, <1>3, KeepKinds DEF Parts
  <1>13. PhaseInv'
    <2>1. /\ UNCHANGED <<client, early, resources>> /\ PhaseInv
          /\ \A k \in DOMAIN early : globals'[early[k]] = globals[early[k]]
      BY <1>2 DEF Parts
    <2>2. PICK left : left = socket'
      OBVIOUS
    <2>3. \A k \in DOMAIN left : \E l \in DOMAIN socket : left[k] = socket[l]
      BY <1>1, <2>2
    <2> QED BY <1>6, <1>7, <2>1, <2>2, <2>3, PhaseMore
  <1>14. ListenersInv(seen)'
    BY <1>2, <1>3, <1>9, KeepListeners DEF Parts
  <1>15. CausesInv'
    <2>1. \A i : InFirstRecv(i)' = InFirstRecv(i) /\ Several(i)' = Several(i)
      BY <1>2 DEF InFirstRecv, Several, Names
    <2> HIDE DEF InFirstRecv, Several
    <2> QED BY <1>2, <1>3, <1>5, <2>1 DEF Parts, CausesInv
  <1> QED BY <1>2, <1>8, <1>10, <1>11, <1>12, <1>13, <1>14, <1>15 DEF Parts

\* The globals there are, offered in the order of their names.
LEMMA OffersLemma ==
  ASSUME NEW n \in Nat, NEW names \in Seq(1 .. n),
         \A j, k \in DOMAIN names : j < k => names[j] < names[k]
  PROVE  /\ Offers(names) \in Seq(Events) /\ DOMAIN Offers(names) = DOMAIN names
         /\ InOrder(Offers(names), 0, n)
         /\ \A k \in DOMAIN names : Offers(names)[k] = E("global", REGISTRY, names[k])
         /\ \A k \in DOMAIN names : Offers(names)[k].ev = "global"
  <1> DEFINE m == Len(names)
             offers == [k \in 1 .. m |-> E("global", REGISTRY, names[k])]
  <1>1. m \in Nat /\ DOMAIN names = 1 .. m /\ \A k \in 1 .. m : names[k] \in 1 .. n
    OBVIOUS
  <1> HIDE DEF m
  <1>2. \A k \in 1 .. m : /\ E("global", REGISTRY, names[k]) \in Events
                          /\ E("global", REGISTRY, names[k]).ev = "global"
                          /\ E("global", REGISTRY, names[k]).name = names[k]
    <2> SUFFICES ASSUME NEW k \in 1 .. m
                 PROVE  /\ E("global", REGISTRY, names[k]) \in Events
                        /\ E("global", REGISTRY, names[k]).ev = "global"
                        /\ E("global", REGISTRY, names[k]).name = names[k]
      OBVIOUS
    <2>1. names[k] \in Nat /\ REGISTRY \in Nat
      BY <1>1, Constants
    <2> QED BY <2>1 DEF E, Events
  <1>3. /\ DOMAIN offers = 1 .. m /\ offers \in [1 .. m -> Events]
        /\ \A k \in 1 .. m : offers[k] = E("global", REGISTRY, names[k])
    BY <1>2
  <1> HIDE DEF offers
  <1>4. offers \in Seq(Events)
    BY <1>1, <1>3, ListType
  <1>5. \A k \in DOMAIN offers : offers[k].ev = "global" /\ offers[k].name = names[k]
    BY <1>2, <1>3
  <1>6. InOrder(offers, 0, n)
    <2>1. \A k \in DOMAIN offers : offers[k].name \in (0 + 1) .. n
      BY <1>1, <1>3, <1>5
    <2>2. \A j, k \in DOMAIN offers : j < k => offers[j].name < offers[k].name
      BY <1>1, <1>3, <1>5
    <2> QED BY <2>1, <2>2 DEF InOrder
  <1>7. Offers(names) = offers
    BY DEF Offers, offers, m
  <1> QED BY <1>1, <1>3, <1>4, <1>5, <1>6, <1>7

LEMMA ServeRegistryStep ==
  ASSUME TypeOK, NEW kind \in [Nat -> Kinds], NEW seen \in Nat, Parts(kind, seen), Serve,
         Legal(Head(socket)), Head(socket).op = "get_registry"
  PROVE  TypeOK' /\ Parts(kind, seen)'
  <1>1. PICK r \in Requests :
          /\ r = Head(socket) /\ Servable(kind, r)
          /\ \E k \in DOMAIN socket : socket[k] = r
          /\ Makes(r) => r.id \in ids /\ r.id \notin DOMAIN resources
          /\ InTurn(Unserved', ids,
                    IF Makes(r) THEN DOMAIN resources \cup {r.id} ELSE DOMAIN resources)
          /\ \A k \in DOMAIN Unserved' :
               /\ Servable(kind, Unserved'[k])
               /\ Makes(Unserved'[k]) => Unserved'[k].id \in ids
          /\ socket' \in Seq(Requests)
          /\ \A k \in DOMAIN socket' : \E l \in DOMAIN socket : socket'[k] = socket[l]
    BY ServeHead
  <1>2. r.id = REGISTRY /\ Makes(r) /\ kind[REGISTRY] = r.kind /\ r.op = "get_registry"
    BY <1>1 DEF Servable, Makes
  <1> DEFINE names == DOMAIN globals \ gone
             present == Lowest(names, Cardinality(names))
  <1>3. /\ resources' = MapCreate(resources, REGISTRY, r.kind)
        /\ incoming' = incoming \o Offers(present) /\ early' = present
        /\ UNCHANGED <<client, protocol_error, globals, capable, gone, emits>>
    BY <1>1, <1>2 DEF Serve
  <1>4. /\ REGISTRY \notin DOMAIN resources /\ ~started /\ pc = "recv" /\ incoming = <<>>
        /\ batch = <<>> /\ ids = {REGISTRY} /\ failure = "none" /\ ~protocol_error /\ ~WindowBuilt
        /\ seen = 0
    <2>1. REGISTRY \notin DOMAIN resources /\ PhaseInv /\ EventsInv(seen)
      BY <1>1, <1>2 DEF Parts
    <2>2. socket # <<>>
      BY DEF Serve
    <2> QED BY <2>1, <2>2 DEF PhaseInv, WindowBuilt, EventsInv
  <1>5. UNCHANGED <<pc, started, failure, ids, objects, bound, listening, batch, queue>>
    BY <1>3 DEF client
  <1>6. UNCHANGED <<Built, WindowBuilt, Furnished>>
    BY <1>5 DEF Built, WindowBuilt, Furnished, NullDereference
  <1>7. PICK n \in Nat : n = Len(globals) /\ DOMAIN globals = 1 .. n
    BY QueueTypes
  <1>8. /\ present \in Seq(names) /\ present \in Seq(1 .. n)
        /\ \A j, k \in DOMAIN present : j < k => present[j] < present[k]
    <2>1. names \subseteq 1 .. n
      BY <1>7
    <2> HIDE DEF names
    <2>2. /\ present \in Seq(names) /\ present \in Seq(1 .. n)
          /\ \A j, k \in DOMAIN present : j < k => present[j] < present[k]
      BY <2>1, LowestNames
    <2> HIDE DEF present
    <2> QED BY <2>2
  <1> HIDE DEF names, present
  <1>9. /\ Offers(present) \in Seq(Events) /\ DOMAIN Offers(present) = DOMAIN present
        /\ InOrder(Offers(present), 0, n)
        /\ \A k \in DOMAIN present : Offers(present)[k] = E("global", REGISTRY, present[k])
        /\ \A k \in DOMAIN present : Offers(present)[k].ev = "global"
    BY <1>8, OffersLemma
  <1>10. incoming' = Offers(present) /\ Unhandled' = Offers(present)
    BY <1>3, <1>4, <1>5, <1>9, ConcatEmpty DEF Unhandled
  <1>11. /\ DOMAIN resources' = DOMAIN resources \cup {REGISTRY}
         /\ resources'[REGISTRY] = kind[REGISTRY]
         /\ \A i \in DOMAIN resources : resources'[i] = resources[i]
         /\ resources' \in [DOMAIN resources' -> Kinds]
    BY <1>2, <1>3, <1>4, RequestFields DEF MapCreate, TypeOK
  <1>12. TypeOK'
    <2>1. early' \in Seq(DOMAIN globals')
      BY <1>3, <1>7, <1>8
    <2> QED BY <1>1, <1>3, <1>5, <1>9, <1>10, <1>11, <2>1 DEF TypeOK
  <1>13. IdsInv(seen)'
    BY <1>3, <1>5, <1>6, KeepIds DEF Parts
  <1>14. KindsInv(kind)'
    <2>1. KindsInv(kind)
      BY DEF Parts
    <2>2. \A id \in DOMAIN resources' : resources'[id] = kind[id]
      BY <1>11, <2>1 DEF KindsInv
    <2>3. DISPLAY_OBJ_ID \in DOMAIN resources' /\ DOMAIN resources' \subseteq ids' \cup {DISPLAY_OBJ_ID}
      BY <1>4, <1>5, <1>11, <2>1 DEF KindsInv
    <2> QED BY <1>5, <2>1, <2>2, <2>3 DEF KindsInv
  <1>15. EventsInv(seen)'
    <2>1. InOrder(Unhandled', 0, Len(globals'))
      BY <1>3, <1>7, <1>9, <1>10
    <2>2. \A k \in DOMAIN Unhandled' : Unhandled'[k].ev = "global"
      BY <1>9, <1>10
    <2> QED BY <1>4, <1>11, <2>1, <2>2 DEF EventsInv
  <1>16. ~protocol_error' => RequestsInv(kind)'
    <2>1. InTurn(Unserved', ids', DOMAIN resources')
      BY <1>1, <1>2, <1>5, <1>11
    <2>2. ASSUME NEW k \in DOMAIN Unserved', NEW q, q = Unserved'[k] PROVE Servable(kind, q)'
      <3>1. ~Makes(q)
        BY <1>1, <1>4, <1>5, <1>11, <2>1, <2>2 DEF InTurn
      <3>2. Servable(kind, q)
        BY <1>1, <2>2
      <3> QED BY <1>5, <3>1, <3>2 DEF Servable, Makes
    <2> QED BY <2>1, <2>2, RequestsThere
  <1>17. PhaseInv'
    <2>1. DOMAIN resources' \subseteq {DISPLAY_OBJ_ID, REGISTRY} /\ REGISTRY \in DOMAIN resources'
      BY <1>4, <1>11 DEF Parts, KindsInv
    <2>2. \A k \in DOMAIN socket' : socket'[k].op = "get_registry"
      BY <1>1, <1>4 DEF Parts, PhaseInv
    <2>3. \A k \in DOMAIN early' : k \in DOMAIN incoming' /\ incoming'[k] = E("global", REGISTRY, early'[k])
      BY <1>3, <1>9, <1>10
    <2> HIDE DEF WindowBuilt, Furnished
    <2> QED BY <1>4, <1>5, <1>6, <2>1, <2>2, <2>3 DEF PhaseInv
  <1>18. ListenersInv(seen)'
    BY <1>3, <1>5, <1>6, KeepListeners DEF Parts
  <1>19. CausesInv'
    BY <1>3, <1>4, <1>5 DEF CausesInv
  <1> QED BY <1>12, <1>13, <1>14, <1>15, <1>16, <1>17, <1>18, <1>19 DEF Parts

\* Any other request: main's, on what its first recv brought.
LEMMA ServeOtherStep ==
  ASSUME TypeOK, NEW kind \in [Nat -> Kinds], NEW seen \in Nat, Parts(kind, seen), Serve,
         Legal(Head(socket)), Head(socket).op # "get_registry"
  PROVE  TypeOK' /\ Parts(kind, seen)'
  <1>1. PICK r \in Requests :
          /\ r = Head(socket) /\ Servable(kind, r)
          /\ \E k \in DOMAIN socket : socket[k] = r
          /\ Makes(r) => r.id \in ids /\ r.id \notin DOMAIN resources
          /\ InTurn(Unserved', ids,
                    IF Makes(r) THEN DOMAIN resources \cup {r.id} ELSE DOMAIN resources)
          /\ \A k \in DOMAIN Unserved' :
               /\ Servable(kind, Unserved'[k])
               /\ Makes(Unserved'[k]) => Unserved'[k].id \in ids
          /\ socket' \in Seq(Requests)
    BY ServeHead
  <1>2. /\ resources' = IF Makes(r) THEN MapCreate(resources, r.id, r.kind) ELSE resources
        /\ UNCHANGED <<client, incoming, early, protocol_error, globals, capable, gone, emits>>
    BY <1>1 DEF Serve, Makes
  <1>3. UNCHANGED <<pc, started, failure, ids, objects, bound, listening, batch, queue>>
    BY <1>2 DEF client
  <1>4. REGISTRY \in DOMAIN resources /\ WindowBuilt
    BY <1>1, RegistryFirst DEF Parts
  <1>5. UNCHANGED <<Unhandled, Built, WindowBuilt, Furnished>>
    BY <1>2, <1>3 DEF Unhandled, Built, WindowBuilt, Furnished, NullDereference
  <1>6. /\ DOMAIN resources' = IF Makes(r) THEN DOMAIN resources \cup {r.id} ELSE DOMAIN resources
        /\ Makes(r) => resources'[r.id] = kind[r.id]
        /\ \A i \in DOMAIN resources : i \in DOMAIN resources' /\ resources'[i] = resources[i]
        /\ \A i \in DOMAIN resources' : i \in DOMAIN resources \/ (Makes(r) /\ i = r.id)
        /\ resources' \in [DOMAIN resources' -> Kinds]
    <2>1. CASE Makes(r)
      <3>1. kind[r.id] = r.kind /\ r.kind \in Kinds
        BY <1>1, <2>1, RequestFields DEF Servable
      <3>2. PICK id, k : id = r.id /\ k = r.kind
        OBVIOUS
      <3>3. resources' = [i \in DOMAIN resources \cup {id} |-> IF i = id THEN k ELSE resources[i]]
        BY <1>2, <2>1, <3>2 DEF MapCreate
      <3>4. resources \in [DOMAIN resources -> Kinds] /\ id \notin DOMAIN resources /\ k \in Kinds
        BY <1>1, <2>1, <3>1, <3>2 DEF TypeOK
      <3>5. /\ DOMAIN resources' = DOMAIN resources \cup {id} /\ resources'[id] = k
            /\ \A i \in DOMAIN resources : i \in DOMAIN resources' /\ resources'[i] = resources[i]
            /\ resources' \in [DOMAIN resources' -> Kinds]
        BY <3>3, <3>4
      <3> QED BY <2>1, <3>1, <3>2, <3>5
    <2>2. CASE ~Makes(r)
      BY <1>2, <2>2 DEF TypeOK
    <2> QED BY <2>1, <2>2
  <1>7. TypeOK'
    BY <1>1, <1>2, <1>3, <1>6 DEF TypeOK
  <1>8. IdsInv(seen)'
    BY <1>2, <1>3, <1>5, KeepIds DEF Parts
  <1>9. KindsInv(kind)'
    <2>1. KindsInv(kind)
      BY DEF Parts
    <2>2. \A id \in DOMAIN resources' : resources'[id] = kind[id]
      BY <1>6, <2>1 DEF KindsInv
    <2>3. DISPLAY_OBJ_ID \in DOMAIN resources' /\ DOMAIN resources' \subseteq ids' \cup {DISPLAY_OBJ_ID}
      BY <1>1, <1>3, <1>6, <2>1 DEF KindsInv
    <2> QED BY <1>3, <2>1, <2>2, <2>3 DEF KindsInv
  <1>10. EventsInv(seen)'
    BY <1>2, <1>4, <1>5, <1>6 DEF Parts, EventsInv
  <1>11. ~protocol_error' => RequestsInv(kind)'
    <2>1. InTurn(Unserved', ids', DOMAIN resources')
      BY <1>1, <1>3, <1>6
    <2>2. ASSUME NEW k \in DOMAIN Unserved', NEW q, q = Unserved'[k] PROVE Servable(kind, q)'
      <3>1. Servable(kind, q)
        BY <1>1, <2>2
      <3>2. InFirstRecv("wl_compositor")' = InFirstRecv("wl_compositor")
        BY <1>2 DEF InFirstRecv
      <3> HIDE DEF InFirstRecv
      <3> QED BY <1>2, <1>3, <3>1, <3>2 DEF Servable
    <2> QED BY <2>1, <2>2, RequestsThere
  <1>12. PhaseInv'
    <2>1. REGISTRY \in DOMAIN resources'
      BY <1>4, <1>6
    <2> HIDE DEF WindowBuilt, Furnished
    <2> QED BY <1>3, <1>4, <1>5, <2>1 DEF Parts, PhaseInv
  <1>13. ListenersInv(seen)'
    BY <1>2, <1>3, <1>5, KeepListeners DEF Parts
  <1>14. CausesInv'
    BY <1>2, <1>3, KeepCauses DEF Parts
  <1> QED BY <1>7, <1>8, <1>9, <1>10, <1>11, <1>12, <1>13, <1>14 DEF Parts
-----------------------------------------------------------------------------
(* Every step, and what follows. *)

LEMMA WindowStep ==
  ASSUME TypeOK, NEW kind \in [Nat -> Kinds], NEW seen \in Nat, Parts(kind, seen), BuildWindow
  PROVE  TypeOK' /\ \E better \in [Nat -> Kinds] : Parts(better, seen)'
  BY BuildNullStep, BuildWindowStep

LEMMA GlobalStep ==
  ASSUME TypeOK, NEW kind \in [Nat -> Kinds], NEW seen \in Nat, Parts(kind, seen), HandleGlobal
  PROVE  \E better \in [Nat -> Kinds], now \in Nat : Parts(better, now)'
  <1>1. PICK name : name = Head(batch).name
    OBVIOUS
  <1>2. CASE globals[name] \in Bindable
    BY <1>1, <1>2, BindParts
  <1>3. CASE globals[name] \notin Bindable
    BY <1>1, <1>3, HandleUnknownParts
  <1> QED BY <1>2, <1>3

LEMMA ServeStep ==
  ASSUME TypeOK, NEW kind \in [Nat -> Kinds], NEW seen \in Nat, Parts(kind, seen), Serve
  PROVE  TypeOK' /\ Parts(kind, seen)'
  BY ServeIllegalStep, ServeRegistryStep, ServeOtherStep

LEMMA StutterStep ==
  ASSUME TypeOK, NEW kind, NEW seen, Parts(kind, seen), UNCHANGED vars
  PROVE  TypeOK' /\ Parts(kind, seen)'
  <1>1. /\ UNCHANGED <<pc, started, failure, ids, objects, bound, listening, batch, queue,
                       socket, incoming>>
        /\ UNCHANGED <<globals, early, capable, gone, resources, emits, protocol_error>>
    BY DEF vars, client, compositor
  <1>2. TypeOK'
    BY <1>1 DEF TypeOK
  <1>3. UNCHANGED <<Unserved, Unhandled, Built, WindowBuilt, Furnished>>
    BY <1>1 DEF Unserved, Unhandled, Built, WindowBuilt, Furnished, NullDereference
  <1>4. /\ IdsInv(seen)' /\ KindsInv(kind)' /\ EventsInv(seen)' /\ ListenersInv(seen)' /\ CausesInv'
        /\ ~protocol_error' => RequestsInv(kind)'
    BY <1>1, <1>3, KeepIds, KeepKinds, KeepEvents, KeepListeners, KeepCauses, KeepRequests DEF Parts
  <1>5. PhaseInv'
    <2>1. \A n : Received(n)' = Received(n)
      BY <1>1 DEF Received
    <2> HIDE DEF WindowBuilt, Furnished, Received
    <2> QED BY <1>1, <1>3, <2>1 DEF Parts, PhaseInv
  <1> QED BY <1>2, <1>4, <1>5 DEF Parts

LEMMA StepInv == IInv /\ [Next]_vars => IInv'
  <1> SUFFICES ASSUME IInv, [Next]_vars PROVE IInv'
    OBVIOUS
  <1>1. PICK kind \in [Nat -> Kinds], seen \in Nat : Parts(kind, seen)
    BY DEF IInv
  <1>2. TypeOK
    BY DEF IInv
  <1>3. SUFFICES TypeOK' /\ \E better \in [Nat -> Kinds], now \in Nat : Parts(better, now)'
    BY DEF IInv
  <1>4. CASE Dispatch
    BY <1>1, <1>2, <1>4, DispatchTypes, DispatchParts
  <1>5. CASE Recv
    BY <1>1, <1>2, <1>5, RecvTypes, RecvParts
  <1>6. CASE HandleGlobal
    BY <1>1, <1>2, <1>6, HandleGlobalTypes, GlobalStep
  <1>7. CASE HandleGlobalRemove
    BY <1>1, <1>2, <1>7, HandleGlobalRemoveStep
  <1>8. CASE HandleError
    BY <1>1, <1>2, <1>8, HandleErrorStep
  <1>9. CASE HandleEvent
    BY <1>1, <1>2, <1>9, HandleEventStep
  <1>10. CASE RoundtripReturns
    BY <1>1, <1>2, <1>10, RoundtripReturnsTypes, RoundtripReturnsParts
  <1>11. CASE BuildWindow
    BY <1>1, <1>2, <1>11, WindowStep
  <1>12. CASE BuildDevices
    BY <1>1, <1>2, <1>12, BuildDevicesStep
  <1>13. CASE Serve
    BY <1>1, <1>2, <1>13, ServeStep
  <1>14. CASE \E id \in DOMAIN resources : Emit(id)
    BY <1>1, <1>2, <1>14, EmitStep
  <1>15. CASE \E interface \in Hotplugged : AddGlobal(interface)
    BY <1>1, <1>2, <1>15, AddGlobalStep
  <1>16. CASE \E name \in DOMAIN globals : RemoveGlobal(name)
    BY <1>1, <1>2, <1>16, RemoveGlobalStep
  <1>17. CASE UNCHANGED vars
    BY <1>1, <1>2, <1>17, StutterStep
  <1> QED BY <1>4, <1>5, <1>6, <1>7, <1>8, <1>9, <1>10, <1>11, <1>12, <1>13, <1>14, <1>15, <1>16,
             <1>17 DEF Next, Client

\* The invariant holds in every state the client and the compositor reach.
THEOREM Invariant == Spec => []IInv
  BY InitInv, StepInv, PTL DEF Spec

\* The variables have their types, the tables of ids and objects among them: an
\* id is given out before anything is entered or bound under it.
THEOREM TypeCorrect == Spec => []TypeOK
  <1>1. IInv => TypeOK
    BY DEF IInv
  <1> QED BY <1>1, Invariant, PTL

\* An object of wl_id_map has the interface the compositor's resource has, for
\* any lists of globals, also those that come and go while main binds them.
THEOREM BothEndsAgree == Spec => []KindsAgree
  <1>1. IInv => KindsAgree
    <2> SUFFICES ASSUME IInv PROVE KindsAgree
      OBVIOUS
    <2>1. PICK kind \in [Nat -> Kinds], seen \in Nat : Parts(kind, seen)
      BY DEF IInv
    <2> QED BY <2>1 DEF Parts, KindsInv, KindsAgree
  <1> QED BY <1>1, Invariant, PTL

LEMMA SeveralNames ==
  ASSUME TypeOK, NEW interface, Several(interface)
  PROVE  Cardinality(Names(interface)) > 1
  <1>1. PICK a \in Names(interface), b \in Names(interface) : a # b
    BY DEF Several
  <1>2. IsFiniteSet(Names(interface)) /\ Cardinality(Names(interface)) \in Nat
    <2>1. IsFiniteSet(1 .. Len(globals))
      BY QueueTypes, FS_Interval
    <2>2. Names(interface) \in SUBSET (1 .. Len(globals))
      BY QueueTypes DEF Names
    <2>3. IsFiniteSet(Names(interface))
      BY <2>1, <2>2, FS_Subset
    <2> QED BY <2>3, FS_CardinalityType
  <1>3. Cardinality({a} \cup {b}) = 2
    <2>1. IsFiniteSet({a}) /\ Cardinality({a}) = 1
      BY FS_Singleton
    <2>2. Cardinality({a} \cup {b}) = IF b \in {a} THEN Cardinality({a}) ELSE Cardinality({a}) + 1
      BY <2>1, FS_AddElement
    <2> QED BY <1>1, <2>1, <2>2
  <1>4. {a} \cup {b} \in SUBSET Names(interface)
    BY <1>1
  <1>5. Cardinality({a} \cup {b}) <= Cardinality(Names(interface))
    BY <1>2, <1>4, FS_Subset
  <1> QED BY <1>2, <1>3, <1>5

\* The start-up fails for the named causes only, whatever the compositor offers,
\* however much of it comes in the first recv and whatever is added later.
THEOREM FailsForCause == Spec => []FailsOnlyForCause
  <1>1. IInv => FailsOnlyForCause
    <2> SUFFICES ASSUME IInv PROVE FailsOnlyForCause
      OBVIOUS
    <2>1. TypeOK /\ CausesInv
      BY DEF IInv, Parts
    <2>2. \A i : Several(i) => Cardinality(Names(i)) > 1
      BY <2>1, SeveralNames
    <2> HIDE DEF Several, Names, InFirstRecv
    <2> QED BY <2>1, <2>2 DEF CausesInv, FailsOnlyForCause
  <1> QED BY <1>1, Invariant, PTL

=============================================================================
