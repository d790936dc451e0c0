----------------------------- MODULE Instruction -----------------------------
(***************************************************************************)
(* The encoding of an instruction, bit by bit.  A 32-bit word is the set   *)
(* of the positions of its 1 bits, so an OR of shifted ranges is a union   *)
(* of shifted sets and no arithmetic on 32-bit numbers is needed.          *)
(***************************************************************************)
EXTENDS Integers

BitPosition == 0 .. 31
Raw == SUBSET BitPosition

InstructionFormat == {"R_TYPE", "I_TYPE", "S_TYPE", "B_TYPE", "U_TYPE", "J_TYPE"}

\* The opcodes 0x33, 0x13, 0x23, 0x63, 0x37 and 0x6F.
OpcodeOf ==
  [R_TYPE |-> {0, 1, 4, 5}, I_TYPE |-> {0, 1, 4},       S_TYPE |-> {0, 1, 5},
   B_TYPE |-> {0, 1, 5, 6}, U_TYPE |-> {0, 1, 2, 4, 5}, J_TYPE |-> {0, 1, 2, 3, 5, 6}]

\* Bits start down to end of raw, moved so that bit end lands on bit low.
Placed(raw, start, end, low) == {b - end + low : b \in {c \in raw : end <= c /\ c <= start}}

get_opcode(raw) == Placed(raw, 6, 0, 0)

\* Mutant: the high bit of every range is left out.
CombinedWithoutStart(raw, ranges) == UNION {Placed(raw, r[1] - 1, r[2], 0) : r \in ranges}

\* Mutant: the ranges stay where they are in the word.
CombinedInPlace(raw, ranges) == UNION {Placed(raw, r[1], r[2], r[2]) : r \in ranges}

\* Every range <<start, end>> is aligned to bit 0 and ORed into the result.
get_combined_immediate(raw, ranges) == UNION {Placed(raw, r[1], r[2], 0) : r \in ranges}

\* Mutant: no sign extension.
ZeroExtend(bits, bit_width) == bits \cap (0 .. bit_width - 1)

\* bits is a value of bit_width bits: its top bit is copied upwards.
sign_extend(bits, bit_width) ==
  IF bit_width - 1 \in bits THEN bits \cup (bit_width .. 31) ELSE bits

-----------------------------------------------------------------------------
\* get_immediate of the format that has one, as a 32-bit pattern.
get_immediate(format, raw) ==
  CASE format = "I_TYPE" -> sign_extend(get_combined_immediate(raw, {<<31, 20>>}), 12)
    [] format = "S_TYPE" -> sign_extend(get_combined_immediate(raw, {<<31, 25>>, <<11, 7>>}), 12)
    [] format = "B_TYPE" -> sign_extend(get_combined_immediate(raw,
                              {<<31, 31>>, <<30, 25>>, <<11, 8>>, <<7, 7>>}), 13)
    [] format = "U_TYPE" -> {b + 12 : b \in get_combined_immediate(raw, {<<31, 12>>})}
    [] format = "J_TYPE" -> sign_extend(get_combined_immediate(raw,
                              {<<31, 31>>, <<30, 21>>, <<20, 20>>, <<19, 12>>}), 21)
    [] OTHER -> {}

\* Reference: the immediate with every range where its comment puts it, [11:5]
\* and [4:0] for S; imm[12], [10:5], [4:1] and [11] for B; imm[20], [10:1],
\* [11] and [19:12] for J.  Bit 31 of the word is the sign in every format.
SignFrom(raw, bit) == IF 31 \in raw THEN bit .. 31 ELSE {}

commented_immediate(format, raw) ==
  CASE format = "I_TYPE" -> Placed(raw, 31, 20, 0) \cup SignFrom(raw, 11)
    [] format = "S_TYPE" -> Placed(raw, 31, 25, 5) \cup Placed(raw, 11, 7, 0) \cup SignFrom(raw, 11)
    [] format = "B_TYPE" -> Placed(raw, 30, 25, 5) \cup Placed(raw, 11, 8, 1)
                              \cup Placed(raw, 7, 7, 11) \cup SignFrom(raw, 12)
    [] format = "U_TYPE" -> Placed(raw, 31, 12, 12)
    [] format = "J_TYPE" -> Placed(raw, 30, 21, 1) \cup Placed(raw, 20, 20, 11)
                              \cup Placed(raw, 19, 12, 12) \cup SignFrom(raw, 20)
    [] OTHER -> {}

-----------------------------------------------------------------------------
\* Mutant: a width too small moves every later field of the I format.
NarrowFunct3(format) ==
  CASE format = "I_TYPE" -> {<<0, 6>>, <<7, 11>>, <<12, 13>>, <<14, 18>>, <<19, 30>>}
    [] OTHER -> {<<0, 31>>}

\* The bit-fields of the union, as <<lowest bit, highest bit>>.
BitFields(format) ==
  CASE format = "R_TYPE" -> {<<0, 6>>, <<7, 11>>, <<12, 14>>, <<15, 19>>, <<20, 24>>, <<25, 31>>}
    [] format = "I_TYPE" -> {<<0, 6>>, <<7, 11>>, <<12, 14>>, <<15, 19>>, <<20, 31>>}
    [] format = "S_TYPE" -> {<<0, 6>>, <<7, 11>>, <<12, 14>>, <<15, 19>>, <<20, 24>>, <<25, 31>>}
    [] format = "B_TYPE" -> {<<0, 6>>, <<7, 7>>, <<8, 11>>, <<12, 14>>, <<15, 19>>, <<20, 24>>,
                             <<25, 30>>, <<31, 31>>}
    [] format = "U_TYPE" -> {<<0, 6>>, <<7, 11>>, <<12, 31>>}
    [] format = "J_TYPE" -> {<<0, 6>>, <<7, 11>>, <<12, 19>>, <<20, 20>>, <<21, 30>>, <<31, 31>>}
    [] OTHER -> {}
=============================================================================
