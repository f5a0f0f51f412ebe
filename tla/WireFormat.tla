------------------------------ MODULE WireFormat -----------------------------
(***************************************************************************)
(* Sizes, headers and numbers of the wire format, as wl_utils computes     *)
(* them.  Addresses and sizes count bytes, and a word is 4 bytes.          *)
(***************************************************************************)
EXTENDS Integers

CONSTANT UINT16_MOD   \* 2^16: one more than the largest wl_uint16

ASSUME WireFormatAssumption ==
  UINT16_MOD \in Nat /\ UINT16_MOD > 8 /\ UINT16_MOD % 4 = 0

UINT_MOD == UINT16_MOD * UINT16_MOD

WL_WORD_SIZE == 4
WL_EVENT_HEADER_SIZE == 2 * WL_WORD_SIZE

\* Plausible bug: a multiple of the word is rounded up to the next one.
AlignUp(addr) == addr - (addr % WL_WORD_SIZE) + WL_WORD_SIZE

\* The next multiple of the word; 0 passes below 0 and comes back.
wl_align(addr) ==
  LET before == (addr - 1) % UINT_MOD
  IN (before - (before % WL_WORD_SIZE) + WL_WORD_SIZE) % UINT_MOD

\* wl_string: words of its bytes, and bytes of these with the length before them.
word_size(n) == wl_align(n) \div WL_WORD_SIZE
serialised_size(n) == wl_align(n) + WL_WORD_SIZE

\* The size a wl_message computes from the words it is told; a wl_uint16, too.
MessageSize(words) == ((words % UINT16_MOD) * WL_WORD_SIZE + WL_EVENT_HEADER_SIZE) % UINT16_MOD

\* The second word of a header, as new_writer packs it and operator* reads it.
PackHeader(size, opcode) == size * UINT16_MOD + opcode
HeaderSize(word) == word \div UINT16_MOD
HeaderOpcode(word) == word % UINT16_MOD

-----------------------------------------------------------------------------
(* wl_fixed: 24 bits of integer, 8 bits of fraction. *)

UINT8_MAX == 255
FIXED_INT_MOD == 8388608   \* 2^23

\* Plausible bug: the fraction of a negative number points away from 0.
FixedMirrored(bits) ==
  LET low == (bits \div 256) % FIXED_INT_MOD
  IN [integer |-> IF bits < 0 THEN -(FIXED_INT_MOD - low) ELSE low,
      fraction |-> IF bits < 0 THEN -(bits % 256) ELSE bits % 256]

\* read_wl_fixed of a word, taken as a signed one.  The float is the integer
\* and the fraction, in units of 1 / UINT8_MAX; its rounding is left out.
read_wl_fixed(bits) ==
  LET low == (bits \div 256) % FIXED_INT_MOD
  IN [integer |-> IF bits < 0 THEN -(FIXED_INT_MOD - low) ELSE low, fraction |-> bits % 256]

\* The float, times UINT8_MAX.
FixedTimes255(fixed) == UINT8_MAX * fixed.integer + fixed.fraction

=============================================================================
