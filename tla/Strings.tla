------------------------------- MODULE Strings --------------------------------
(***************************************************************************)
(* The memory of wl_string.                                                *)
(*                                                                         *)
(* A wl_string owns a block of the heap: constructors and operator= make a *)
(* block and copy bytes into it, the destructor frees it.  The class says  *)
(* nothing of copy construction, so that the compiler's own copies the     *)
(* pointer; and c_str() hands out the block as it is, with or without a    *)
(* byte that ends it.                                                      *)
(*                                                                         *)
(* All of this is for any caller.  The program itself builds strings from  *)
(* events and from the title of its window, compares and writes them, and  *)
(* lets them go out of scope.                                              *)
(***************************************************************************)
EXTENDS Integers, Sequences, SequencesExt, FiniteSets

CONSTANTS
  Names,     \* the variables of type wl_string
  Blocks,    \* bound: addresses malloc returns
  NUL,       \* the byte that ends a C string
  Texts      \* sequences of other bytes

ASSUME StringsAssumption ==
  \A text \in Texts : text \in Seq(STRING \ {NUL})

VARIABLES
  heap,      \* the bytes of each allocated block
  strings,   \* size_n and str of each variable in scope
  given,     \* the bytes each was made from or assigned (history)
  copied,    \* whether one was ever copy-constructed (history)
  fault      \* the first memory error

vars == <<heap, strings, given, copied, fault>>

Terminated(text) == Append(text, NUL)
Bytes == Texts \cup {Terminated(text) : text \in Texts}
InScope == DOMAIN strings

\* What malloc leaves in a new block.
Indeterminate == "indeterminate"

TypeOK ==
  /\ DOMAIN heap \subseteq Blocks /\ \A b \in DOMAIN heap : heap[b] \in Bytes
  /\ InScope \subseteq Names /\ strings \in [InScope -> [size_n : Nat, str : Blocks]]
  /\ given \in [InScope -> Bytes]
  /\ copied \in BOOLEAN
  /\ fault \in {"none", "double free", "use after free", "overread"}

Init ==
  /\ heap = [b \in {} |-> <<>>]
  /\ strings = [s \in {} |-> 0] /\ given = [s \in {} |-> <<>>]
  /\ copied = FALSE
  /\ fault = "none"

-----------------------------------------------------------------------------
With(f, x, y) == [z \in DOMAIN f \cup {x} |-> IF z = x THEN y ELSE f[z]]
Without(f, x) == [z \in DOMAIN f \ {x} |-> f[z]]

\* malloc and memcpy, into the string s.
Fill(s, memory, bytes) ==
  \E b \in Blocks \ DOMAIN memory :
    /\ heap' = With(memory, b, bytes)
    /\ strings' = With(strings, s, [size_n |-> Len(bytes), str |-> b])

\* The constructors: the default one, from_c_str, which leaves out the byte that
\* ends the C string, set_title's, which counts it, and read_string, whose size
\* is on the wire: 0 for a null string, else the byte that ends it counts.
\* (read_string's local variable is the caller's; g++ makes no copy there.)
Construct(s, bytes) ==
  /\ fault = "none" /\ s \notin InScope
  /\ Fill(s, heap, bytes)
  /\ given' = With(given, s, bytes)
  /\ UNCHANGED <<copied, fault>>

\* The copy constructor nobody wrote.
CopyConstruct(s, other) ==
  /\ fault = "none" /\ s \notin InScope /\ other \in InScope
  /\ strings' = With(strings, s, strings[other])
  /\ given' = With(given, s, given[other])
  /\ copied' = TRUE
  /\ UNCHANGED <<heap, fault>>

Faults(error) == fault' = error /\ UNCHANGED <<heap, strings, given, copied>>

\* str_free(), as far as the heap is concerned.
Freed(s) == Without(heap, strings[s].str)

\* Plausible bug: no guard, so that a string frees its bytes before it copies them.
AssignUnguarded(s, other) ==
  /\ fault = "none" /\ {s, other} \subseteq InScope
  /\ IF strings[s].str \notin DOMAIN heap THEN Faults("double free")
     ELSE /\ Fill(s, Freed(s), IF s = other THEN <<Indeterminate>> ELSE heap[strings[other].str])
          /\ given' = [given EXCEPT ![s] = given[other]]
          /\ UNCHANGED <<copied, fault>>

\* Plausible bug: the old bytes are not freed.
AssignWithoutFree(s, other) ==
  /\ fault = "none" /\ {s, other} \subseteq InScope
  /\ IF s = other THEN UNCHANGED vars
     ELSE /\ strings[other].str \in DOMAIN heap
          /\ Fill(s, heap, heap[strings[other].str])
          /\ given' = [given EXCEPT ![s] = given[other]]
          /\ UNCHANGED <<copied, fault>>

\* Plausible bug: operator= takes the other's pointer.
AssignPointer(s, other) ==
  /\ fault = "none" /\ {s, other} \subseteq InScope
  /\ IF s = other THEN UNCHANGED vars
     ELSE IF strings[s].str \notin DOMAIN heap THEN Faults("double free")
     ELSE /\ heap' = Freed(s)
          /\ strings' = [strings EXCEPT ![s] = strings[other]]
          /\ given' = [given EXCEPT ![s] = given[other]]
          /\ UNCHANGED <<copied, fault>>

\* operator=: with itself nothing, else free, malloc and memcpy of size_n bytes.
Assign(s, other) ==
  /\ fault = "none" /\ {s, other} \subseteq InScope
  /\ IF s = other THEN UNCHANGED vars
     ELSE IF strings[s].str \notin DOMAIN heap THEN Faults("double free")
     ELSE IF strings[other].str \notin DOMAIN Freed(s) THEN Faults("use after free")
     ELSE /\ Fill(s, Freed(s), heap[strings[other].str])
          /\ given' = [given EXCEPT ![s] = given[other]]
          /\ UNCHANGED <<copied, fault>>

Destroy(s) ==
  /\ fault = "none" /\ s \in InScope
  /\ IF strings[s].str \notin DOMAIN heap THEN Faults("double free")
     ELSE /\ heap' = Freed(s)
          /\ strings' = Without(strings, s) /\ given' = Without(given, s)
          /\ UNCHANGED <<copied, fault>>

\* compare, and whatever else takes c_str() for a C string: reads up to a NUL.
\* (size_n is not looked at; at() alone checks it.)
Compare(s) ==
  /\ fault = "none" /\ s \in InScope
  /\ LET b == strings[s].str IN
       IF b \notin DOMAIN heap THEN Faults("use after free")
       ELSE IF ~Contains(heap[b], NUL) THEN Faults("overread")
       ELSE UNCHANGED vars

Next ==
  \/ \E s \in Names, bytes \in Bytes : Construct(s, bytes)
  \/ \E s, other \in Names : CopyConstruct(s, other) \/ Assign(s, other)
  \/ \E s \in Names : Destroy(s) \/ Compare(s)

Spec == Init /\ [][Next]_vars

-----------------------------------------------------------------------------
(* Properties. *)

\* As long as no string is copy-constructed, each in scope owns a block of its
\* own with the bytes it was given, and every block has an owner: whatever strings
\* are made, assigned and destroyed around it, none is shared, changed or leaked.
EachOwnsItsBytes ==
  ~copied =>
    /\ \A s, t \in InScope : strings[s].str = strings[t].str => s = t
    /\ DOMAIN heap = {strings[s].str : s \in InScope}
    /\ \A s \in InScope : /\ heap[strings[s].str] = given[s]
                          /\ strings[s].size_n = Len(given[s])

\* Memory is misused for one of two reasons: a copy, or a string used as a C
\* string that was made without the byte that ends one.
FaultsOnlyForCause ==
  /\ fault \in {"double free", "use after free"} => copied
  /\ fault = "overread" => copied \/ \E s \in InScope : ~Contains(given[s], NUL)

=============================================================================
