---------------------------- MODULE StringsProofs -----------------------------
(***************************************************************************)
(* What holds of wl_string for any set of variables, addresses and texts.  *)
(*                                                                         *)
(* The three invariants are inductive together: ownership says why no      *)
(* operation of strings that were never copied can meet a freed block, and *)
(* the reason of a fault stays true because the first fault is the last.   *)
(***************************************************************************)
EXTENDS Strings, TLAPS

\* The inductive invariant.
IInv == TypeOK /\ EachOwnsItsBytes /\ FaultsOnlyForCause

\* The bytes of a string have a length: memcpy copies size_n of them.
LEMMA BytesHaveLength ==
  ASSUME NEW bytes \in Bytes
  PROVE  Len(bytes) \in Nat
  <1>1. CASE bytes \in Texts
    BY <1>1, StringsAssumption
  <1>2. ASSUME NEW text \in Texts, bytes = Terminated(text)
        PROVE  Len(bytes) \in Nat
    <2>1. text \in Seq(STRING \cup {NUL})
      BY StringsAssumption
    <2>2. Append(text, NUL) \in Seq(STRING \cup {NUL})
      BY <2>1
    <2> QED BY <1>2, <2>2 DEF Terminated
  <1> QED BY <1>1, <1>2 DEF Bytes

\* A string made or assigned gets a block that nobody owns.  Stated for any heap
\* that holds exactly the blocks of the other strings, which is what there is
\* before a constructor, and after operator= has freed the old block.
LEMMA FillLemma ==
  ASSUME IInv, NEW s \in Names, NEW memory, NEW bytes \in Bytes,
         Fill(s, memory, bytes),
         DOMAIN memory \subseteq DOMAIN heap,
         \A b \in DOMAIN memory : memory[b] = heap[b],
         given' = With(given, s, bytes),
         UNCHANGED <<copied, fault>>,
         fault = "none",
         ~copied => DOMAIN memory = {strings[t].str : t \in InScope \ {s}}
  PROVE  IInv'
  <1> PICK b \in Blocks \ DOMAIN memory :
        /\ heap' = With(memory, b, bytes)
        /\ strings' = With(strings, s, [size_n |-> Len(bytes), str |-> b])
    BY DEF Fill
  <1> DEFINE block == [size_n |-> Len(bytes), str |-> b]
  <1>1. /\ DOMAIN heap' = DOMAIN memory \cup {b} /\ heap'[b] = bytes
        /\ \A c \in DOMAIN memory : c # b => heap'[c] = memory[c]
    BY DEF With
  <1>2. /\ InScope' = InScope \cup {s} /\ strings'[s] = block
        /\ \A t \in InScope : t # s => strings'[t] = strings[t]
    BY DEF With, InScope
  <1>3. /\ DOMAIN given' = InScope \cup {s} /\ given'[s] = bytes
        /\ \A t \in InScope : t # s => given'[t] = given[t]
    <2>1. DOMAIN given = InScope
      BY DEF IInv, TypeOK
    <2> QED BY <2>1 DEF With
  <1>4. TypeOK'
    <2>1. DOMAIN heap' \subseteq Blocks /\ \A c \in DOMAIN heap' : heap'[c] \in Bytes
      BY <1>1 DEF IInv, TypeOK
    <2>2. /\ InScope' \subseteq Names
          /\ strings' \in [InScope' -> [size_n : Nat, str : Blocks]]
      <3>1. block \in [size_n : Nat, str : Blocks]
        BY BytesHaveLength
      <3>2. strings' = [t \in InScope' |-> strings'[t]]
        BY DEF With, InScope
      <3>3. \A t \in InScope' : strings'[t] \in [size_n : Nat, str : Blocks]
        BY <1>2, <3>1 DEF IInv, TypeOK
      <3> QED BY <1>2, <3>2, <3>3 DEF IInv, TypeOK
    <2>3. given' \in [InScope' -> Bytes]
      <3>1. given' = [t \in InScope' |-> given'[t]]
        BY <1>2, <1>3 DEF With
      <3>2. \A t \in InScope' : given'[t] \in Bytes
        BY <1>2, <1>3 DEF IInv, TypeOK
      <3> QED BY <3>1, <3>2
    <2> QED BY <2>1, <2>2, <2>3 DEF IInv, TypeOK
  <1>5. EachOwnsItsBytes'
    <2> SUFFICES ASSUME ~copied
                 PROVE  /\ \A t, u \in InScope' : strings'[t].str = strings'[u].str => t = u
                        /\ DOMAIN heap' = {strings'[t].str : t \in InScope'}
                        /\ \A t \in InScope' : /\ heap'[strings'[t].str] = given'[t]
                                               /\ strings'[t].size_n = Len(given'[t])
      BY DEF EachOwnsItsBytes
    <2>1. \A t \in InScope \ {s} : /\ strings'[t] = strings[t]
                                   /\ strings[t].str \in DOMAIN memory
                                   /\ strings[t].str # b
      BY <1>2
    <2>2. \A t, u \in InScope' : strings'[t].str = strings'[u].str => t = u
      BY <1>2, <2>1 DEF IInv, EachOwnsItsBytes
    <2>3. DOMAIN heap' = {strings'[t].str : t \in InScope'}
      BY <1>1, <1>2, <2>1
    <2>4. \A t \in InScope' : /\ heap'[strings'[t].str] = given'[t]
                              /\ strings'[t].size_n = Len(given'[t])
      BY <1>1, <1>2, <1>3, <2>1 DEF IInv, EachOwnsItsBytes
    <2> QED BY <2>2, <2>3, <2>4
  <1>6. FaultsOnlyForCause'
    BY DEF FaultsOnlyForCause
  <1> QED BY <1>4, <1>5, <1>6 DEF IInv

\* A fault is the last thing that happens to the memory.
LEMMA FaultLemma ==
  ASSUME IInv, NEW error, Faults(error),
         error \in {"double free", "use after free", "overread"},
         error \in {"double free", "use after free"} => copied,
         error = "overread" => copied \/ \E s \in InScope : ~Contains(given[s], NUL)
  PROVE  IInv'
  BY DEF IInv, TypeOK, EachOwnsItsBytes, FaultsOnlyForCause, Faults, InScope

\* No string has a block yet.
LEMMA InitInv == Init => IInv
  <1> SUFFICES ASSUME Init PROVE IInv
    OBVIOUS
  <1>1. DOMAIN heap = {} /\ InScope = {} /\ DOMAIN given = {}
    BY DEF Init, InScope
  <1>2. TypeOK
    <2>1. strings \in [InScope -> [size_n : Nat, str : Blocks]] /\ given \in [InScope -> Bytes]
      BY <1>1 DEF Init
    <2> QED BY <1>1, <2>1 DEF Init, TypeOK
  <1> QED BY <1>1, <1>2 DEF Init, IInv, EachOwnsItsBytes, FaultsOnlyForCause

\* Every operation of strings keeps the invariant.
LEMMA NextInv == IInv /\ [Next]_vars => IInv'
  <1> SUFFICES ASSUME IInv, [Next]_vars PROVE IInv'
    OBVIOUS
  <1>1. ASSUME NEW s \in Names, NEW bytes \in Bytes, Construct(s, bytes)
        PROVE  IInv'
    <2>1. ~copied => DOMAIN heap = {strings[t].str : t \in InScope \ {s}}
      BY <1>1 DEF Construct, IInv, EachOwnsItsBytes
    <2> QED BY <1>1, <2>1, FillLemma DEF Construct
  <1>2. ASSUME NEW s \in Names, NEW other \in Names, CopyConstruct(s, other)
        PROVE  IInv'
    <2>1. /\ InScope' = InScope \cup {s}
          /\ \A t \in InScope' : strings'[t] = strings[IF t = s THEN other ELSE t]
      BY <1>2 DEF CopyConstruct, InScope, With
    <2>2. given' = [t \in InScope' |-> given[IF t = s THEN other ELSE t]]
      <3>1. DOMAIN given = InScope
        BY DEF IInv, TypeOK
      <3> QED BY <1>2, <2>1, <3>1 DEF CopyConstruct, With
    <2>3. strings' = [t \in InScope' |-> strings[IF t = s THEN other ELSE t]]
      BY <1>2 DEF CopyConstruct, InScope, With
    <2>4. \A t \in InScope' : (IF t = s THEN other ELSE t) \in InScope
      BY <1>2, <2>1 DEF CopyConstruct
    <2>5. TypeOK'
      BY <1>2, <2>1, <2>2, <2>3, <2>4 DEF CopyConstruct, IInv, TypeOK
    <2> QED BY <1>2, <2>5 DEF CopyConstruct, IInv, EachOwnsItsBytes, FaultsOnlyForCause
  <1>3. ASSUME NEW s \in Names, NEW other \in Names, Assign(s, other)
        PROVE  IInv'
    <2>0. s \in InScope /\ other \in InScope /\ fault = "none"
      BY <1>3 DEF Assign
    <2>1. CASE s = other
      BY <1>3, <2>1 DEF Assign, vars, IInv, TypeOK, EachOwnsItsBytes, FaultsOnlyForCause, InScope
    <2>2. CASE s # other /\ strings[s].str \notin DOMAIN heap
      <3>1. copied
        BY <2>0, <2>2 DEF IInv, EachOwnsItsBytes
      <3> QED BY <1>3, <2>2, <3>1, FaultLemma DEF Assign
    <2>3. CASE s # other /\ strings[s].str \in DOMAIN heap
      <3>1. /\ DOMAIN Freed(s) = DOMAIN heap \ {strings[s].str}
            /\ \A b \in DOMAIN Freed(s) : Freed(s)[b] = heap[b]
        BY DEF Without, Freed
      <3>2. CASE strings[other].str \notin DOMAIN Freed(s)
        <4>1. copied
          BY <2>0, <2>3, <3>1, <3>2 DEF IInv, EachOwnsItsBytes
        <4> QED BY <1>3, <2>3, <3>2, <4>1, FaultLemma DEF Assign
      <3>3. CASE strings[other].str \in DOMAIN Freed(s)
        <4> DEFINE bytes == heap[strings[other].str]
        <4>1. bytes \in Bytes
          BY <3>1, <3>3 DEF IInv, TypeOK
        <4>2. CASE copied
          <5>1. PICK b \in Blocks \ DOMAIN Freed(s) :
                  /\ heap' = With(Freed(s), b, bytes)
                  /\ strings' = With(strings, s, [size_n |-> Len(bytes), str |-> b])
            BY <1>3, <2>3, <3>3 DEF Assign, Fill
          <5>2. /\ DOMAIN heap' \subseteq Blocks
                /\ \A c \in DOMAIN heap' : heap'[c] \in Bytes
            <6>1. /\ DOMAIN heap' = DOMAIN Freed(s) \cup {b} /\ heap'[b] = bytes
                  /\ \A c \in DOMAIN Freed(s) : c # b => heap'[c] = Freed(s)[c]
              BY <5>1 DEF With
            <6> QED BY <3>1, <4>1, <6>1 DEF IInv, TypeOK
          <5>3. /\ InScope' = InScope
                /\ strings' \in [InScope' -> [size_n : Nat, str : Blocks]]
            BY <2>0, <4>1, <5>1, BytesHaveLength DEF With, InScope, IInv, TypeOK
          <5>4. given' \in [InScope' -> Bytes] /\ UNCHANGED <<copied, fault>>
            BY <1>3, <2>0, <2>3, <3>3, <5>3 DEF Assign, IInv, TypeOK
          <5>5. TypeOK'
            BY <5>2, <5>3, <5>4 DEF IInv, TypeOK
          <5> QED BY <2>0, <4>2, <5>4, <5>5 DEF IInv, EachOwnsItsBytes, FaultsOnlyForCause
        <4>3. CASE ~copied
          <5>1. Fill(s, Freed(s), bytes) /\ given' = [given EXCEPT ![s] = given[other]]
                /\ UNCHANGED <<copied, fault>>
            BY <1>3, <2>3, <3>3 DEF Assign
          <5>2. given[other] = bytes
            BY <2>0, <4>3 DEF IInv, EachOwnsItsBytes
          <5>3. given' = With(given, s, bytes)
            BY <2>0, <5>1, <5>2 DEF With, IInv, TypeOK
          <5>4. DOMAIN Freed(s) = {strings[t].str : t \in InScope \ {s}}
            BY <2>0, <3>1, <4>3 DEF IInv, EachOwnsItsBytes
          <5> HIDE DEF bytes
          <5> QED BY <2>0, <3>1, <4>1, <5>1, <5>3, <5>4, FillLemma
        <4> QED BY <4>2, <4>3 DEF IInv, TypeOK
      <3> QED BY <3>2, <3>3
    <2> QED BY <2>1, <2>2, <2>3
  <1>4. ASSUME NEW s \in Names, Destroy(s)
        PROVE  IInv'
    <2>0. s \in InScope /\ fault = "none"
      BY <1>4 DEF Destroy
    <2>1. CASE strings[s].str \notin DOMAIN heap
      <3>1. copied
        BY <2>0, <2>1 DEF IInv, EachOwnsItsBytes
      <3> QED BY <1>4, <2>1, <3>1, FaultLemma DEF Destroy
    <2>2. CASE strings[s].str \in DOMAIN heap
      <3>1. /\ DOMAIN heap' = DOMAIN heap \ {strings[s].str}
            /\ \A b \in DOMAIN heap' : heap'[b] = heap[b]
        BY <1>4, <2>2 DEF Destroy, Without, Freed
      <3>2. /\ InScope' = InScope \ {s}
            /\ strings' = [t \in InScope' |-> strings[t]]
        BY <1>4, <2>2 DEF Destroy, Without, InScope
      <3>3. given' = [t \in InScope' |-> given[t]]
        <4>1. DOMAIN given = InScope
          BY DEF IInv, TypeOK
        <4> QED BY <1>4, <2>2, <3>2, <4>1 DEF Destroy, Without
      <3>4. UNCHANGED <<copied, fault>>
        BY <1>4, <2>2 DEF Destroy
      <3>5. TypeOK'
        BY <3>1, <3>2, <3>3, <3>4 DEF IInv, TypeOK
      <3>6. EachOwnsItsBytes'
        BY <2>0, <3>1, <3>2, <3>3, <3>4 DEF IInv, EachOwnsItsBytes
      <3> QED BY <2>0, <3>4, <3>5, <3>6 DEF IInv, FaultsOnlyForCause
    <2> QED BY <2>1, <2>2
  <1>5. ASSUME NEW s \in Names, Compare(s)
        PROVE  IInv'
    <2> DEFINE b == strings[s].str
    <2>0. s \in InScope /\ fault = "none"
      BY <1>5 DEF Compare
    <2>1. CASE b \notin DOMAIN heap
      <3>1. copied
        BY <2>0, <2>1 DEF IInv, EachOwnsItsBytes
      <3> QED BY <1>5, <2>1, <3>1, FaultLemma DEF Compare
    <2>2. CASE b \in DOMAIN heap /\ ~Contains(heap[b], NUL)
      <3>1. copied \/ ~Contains(given[s], NUL)
        BY <2>0, <2>2 DEF IInv, EachOwnsItsBytes
      <3> QED BY <1>5, <2>0, <2>2, <3>1, FaultLemma DEF Compare
    <2>3. CASE b \in DOMAIN heap /\ Contains(heap[b], NUL)
      BY <1>5, <2>3
      DEF Compare, vars, IInv, TypeOK, EachOwnsItsBytes, FaultsOnlyForCause, InScope
    <2> QED BY <2>1, <2>2, <2>3
  <1>6. CASE UNCHANGED vars
    BY <1>6 DEF vars, IInv, TypeOK, EachOwnsItsBytes, FaultsOnlyForCause, InScope
  <1> QED BY <1>1, <1>2, <1>3, <1>4, <1>5, <1>6 DEF Next

\* The inductive invariant holds in every state the strings reach.
THEOREM Invariant == Spec => []IInv
  BY InitInv, NextInv, PTL DEF Spec

\* wl_string: the blocks and the sizes of the strings in scope are what the
\* operations made them, whatever the caller does.
THEOREM TypeCorrect == Spec => []TypeOK
  <1>1. IInv => TypeOK
    BY DEF IInv
  <1> QED BY <1>1, Invariant, PTL

\* Strings that are never copy-constructed never share, change or leak a block:
\* operator= and the destructor free what their own string was given.
THEOREM StringsOwnTheirBytes == Spec => []EachOwnsItsBytes
  <1>1. IInv => EachOwnsItsBytes
    BY DEF IInv
  <1> QED BY <1>1, Invariant, PTL

\* The memory is misused only after a copy construction, or by a reader of c_str()
\* on a string made without the byte that ends a C string.
THEOREM FaultsHaveCause == Spec => []FaultsOnlyForCause
  <1>1. IInv => FaultsOnlyForCause
    BY DEF IInv
  <1> QED BY <1>1, Invariant, PTL

=============================================================================
