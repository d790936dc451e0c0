--------------------------------- MODULE ALU ---------------------------------
(***************************************************************************)
(* The arithmetic of the execute stage.  As in Instruction, a register is  *)
(* the set of the positions of its 1 bits, so logic is set algebra and a   *)
(* sum is found from the positions a carry reaches.  The code has          *)
(* Width = 32.                                                             *)
(***************************************************************************)
EXTENDS Integers

CONSTANT Width
ASSUME WidthAssumption == Width \in Nat \ {0}

Position == 0 .. Width - 1
Register == SUBSET Position

exclusive_or(a, b) == (a \ b) \cup (b \ a)

\* A carry into position i starts below it, where both have a 1, and is passed
\* on by every position between that has a 1.
carry(a, b, i) == \E j \in a \cap b : j < i /\ \A k \in j + 1 .. i - 1 : k \in a \cup b
Carries(a, b) == {i \in Position : carry(a, b, i)}

add(a, b) == exclusive_or(exclusive_or(a, b), Carries(a, b))

\* a borrows where its complement would carry.
sub(a, b) == exclusive_or(exclusive_or(a, b), Carries(Position \ a, b))

\* Mutant: equal registers compare as less.
NotGreater(a, b) == ~ \E i \in a \ b : \A k \in i + 1 .. Width - 1 : k \in a <=> k \in b

\* The highest position where they differ is a 1 of b.
less(a, b) == \E i \in b \ a : \A k \in i + 1 .. Width - 1 : k \in a <=> k \in b

negative(a) == Width - 1 \in a
less_signed(a, b) == IF negative(a) <=> negative(b) THEN less(a, b) ELSE negative(a)

Weight(imm, bit, n) == IF bit \in imm THEN n ELSE 0

\* Mutant: the shift amount has six bits.
SixBitShamt(imm) ==
  Weight(imm, 0, 1) + Weight(imm, 1, 2) + Weight(imm, 2, 4) + Weight(imm, 3, 8)
    + Weight(imm, 4, 16) + Weight(imm, 5, 32)

\* The shift amount: the low five bits.
shamt(imm) ==
  Weight(imm, 0, 1) + Weight(imm, 1, 2) + Weight(imm, 2, 4) + Weight(imm, 3, 8)
    + Weight(imm, 4, 16)

\* Mutant: what is shifted out at the top is kept.
UncutShift(a, n) == {b + n : b \in a}

shift_left(a, n) == {b + n : b \in a} \cap Position
shift_right(a, n) == {b - n : b \in a} \cap Position

Flag(condition) == IF condition THEN {0} ELSE {}

\* Mutant: both comparisons are unsigned.
SltAlwaysUnsigned(funct3, a, imm) == Flag(less(a, imm))
\* Mutant: XORI computes what ORI does.
XoriAsOri(funct3, a, imm) == IF funct3 \in {4, 6} THEN a \cup imm ELSE a \cap imm

\* The I-format operation of funct3 on a and the sign-extended immediate.
immediate_op(funct3, a, imm) ==
  CASE funct3 = 0 -> add(a, imm)
    [] funct3 = 1 -> shift_left(a, shamt(imm))
    [] funct3 = 2 -> Flag(less_signed(a, imm))
    [] funct3 = 3 -> Flag(less(a, imm))
    [] funct3 = 4 -> exclusive_or(a, imm)
    [] funct3 = 5 -> shift_right(a, shamt(imm))
    [] funct3 = 6 -> a \cup imm
    [] funct3 = 7 -> a \cap imm
-----------------------------------------------------------------------------
\* The numbers that the bits of a from each position up stand for.
NumberFrom(a) ==
  LET number[i \in 0 .. Width] ==
        IF i = Width THEN 0 ELSE Weight(a, i, 1) + 2 * number[i + 1]
  IN  number

\* The number a register holds as uint32_t, and as int32_t.
Unsigned(a) == NumberFrom(a)[0]
Modulus == Unsigned(Position) + 1
Signed(a) == IF negative(a) THEN Unsigned(a) - Modulus ELSE Unsigned(a)
=============================================================================
