------------------------------ MODULE ALUWalk ------------------------------
(***************************************************************************)
(* A program of ADDI, ... ANDI instructions on one register, which takes   *)
(* the register through the values the operations reach; and what the      *)
(* operations owe each other, and the numbers a program computes with, on  *)
(* every value reached.                                                    *)
(***************************************************************************)
EXTENDS ALU

CONSTANT Immediates    \* sign-extended immediates of the program
ASSUME ImmediatesAssumption == Immediates \subseteq Register

VARIABLE rd

Init == rd = {}

Execute(funct3, imm) == rd' = immediate_op(funct3, rd, imm)

Next == \E funct3 \in 0 .. 7, imm \in Immediates : Execute(funct3, imm)

Spec == Init /\ [][Next]_rd

-----------------------------------------------------------------------------
\* Every operation gives a register: nothing outgrows uint32_t.
TypeOK == rd \in Register

\* The operations are those of C++ on uint32_t and int32_t: sums and
\* differences modulo 2^Width, the two orders of the numbers, and shifts that
\* double modulo 2^Width and halve with every position.
NumbersAgree ==
  /\ \A imm \in Immediates :
       /\ Unsigned(immediate_op(0, rd, imm)) = (Unsigned(rd) + Unsigned(imm)) % Modulus
       /\ Unsigned(sub(rd, imm)) = (Unsigned(rd) - Unsigned(imm)) % Modulus
       /\ immediate_op(3, rd, imm) = Flag(Unsigned(rd) < Unsigned(imm))
       /\ immediate_op(2, rd, imm) = Flag(Signed(rd) < Signed(imm))
  /\ shift_left(rd, 0) = rd /\ shift_right(rd, 0) = rd
  /\ \A n \in 0 .. 30 :
       /\ Unsigned(shift_left(rd, n + 1)) = (2 * Unsigned(shift_left(rd, n))) % Modulus
       /\ Unsigned(shift_right(rd, n + 1)) = Unsigned(shift_right(rd, n)) \div 2

\* ANDI, ORI and XORI split a sum as a half adder does, whatever the sign of
\* the immediate: a + b is the exclusive or plus twice the and, and the
\* inclusive or is the exclusive or plus the and.
LogicSplitsSum ==
  \A imm \in Immediates :
    LET both == immediate_op(7, rd, imm)
        either == immediate_op(4, rd, imm)
    IN  /\ add(either, shift_left(both, 1)) = add(rd, imm)
        /\ immediate_op(6, rd, imm) = add(either, both)

\* SLTI is SLTIU of the operands with their sign bits flipped, at the extremes
\* of the signed range too.
SignedOrder ==
  \A imm \in Immediates :
    immediate_op(2, rd, imm) =
      immediate_op(3, add(rd, {Width - 1}), add(imm, {Width - 1}))

\* The funct7 part of the immediate of a shift: 0x20 stands for SRAI.
SelectsArithmetic(imm) == imm \cap (5 .. 11) = {10}

\* Shifting out and back keeps the bits that stayed inside in their places,
\* and only the low five bits of the immediate say how far.  What comes in at
\* the top is zero, unless the immediate selects the arithmetic shift: what
\* that brings in is the question of RightShiftByFunct7.
ShiftsKeepInside ==
  \A imm \in Immediates :
    LET n == Unsigned(imm) % 32
        back == immediate_op(5, immediate_op(1, rd, imm), imm)
        inside == {b \in rd : b + n < Width}
    IN  /\ back \cap (0 .. Width - 1 - n) = inside
        /\ ~SelectsArithmetic(imm) => back = inside

-----------------------------------------------------------------------------
\* ExecuteStage.cpp says above the right shift "Determine shift type based on
\* funct7 field": where funct7 selects the arithmetic shift, the positions that
\* become free are filled with the sign.
RightShiftByFunct7 ==
  \A imm \in Immediates :
    SelectsArithmetic(imm) =>
      LET n == Unsigned(imm) % 32 IN
      immediate_op(5, rd, imm) =
        {i \in Position : IF i + n < Width THEN i + n \in rd ELSE negative(rd)}
=============================================================================
