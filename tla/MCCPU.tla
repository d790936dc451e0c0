------------------------------- MODULE MCCPU -------------------------------
(* A CPU with bytes of two bits, so 256 words and addresses, pages of 16   *)
(* bytes and three registers.  A word stands for the instruction its       *)
(* number selects; every other word is illegal.                            *)
EXTENDS CPU, Sequences

W(n) == [i \in 0 .. 3 |-> (n \div (4 ^ i)) % 4]

A == INSTANCE ALU WITH Width <- 8
Bits == [w \in Word |-> {i \in A!Position : (Value(w) \div 2 ^ i) % 2 = 1}]
Holds == [a \in A!Register |-> W(A!Unsigned(a))]
MCAdd(a, b) == Holds[A!add(Bits[a], Bits[b])]
MCSub(a, b) == Holds[A!sub(Bits[a], Bits[b])]
MCImmOp(funct3, a, imm) == Holds[A!immediate_op(funct3, Bits[a], Bits[imm])]

Encode(opcode, rd, rs1, rs2, funct3, funct7, imm) ==
  [opcode |-> opcode, rd |-> rd, rs1 |-> rs1, rs2 |-> rs2,
   funct3 |-> funct3, funct7 |-> funct7, imm |-> W(imm)]

Encodings ==
  <<Encode("J_TYPE", 0, 0, 0, 0, 0, 0),     \* 1: j self
    Encode("I_TYPE", 1, 1, 0, 0, 0, 5),     \* 2: addi x1, x1, 5
    Encode("U_TYPE", 2, 0, 0, 0, 0, 1),     \* 3: lui x2, the word of j self
    Encode("R_TYPE", 2, 1, 2, 0, 32, 0),    \* 4: sub x2, x1, x2
    Encode("S_TYPE", 0, 0, 2, 2, 0, 8),     \* 5: sw x2, 8(x0), into the program
    Encode("S_TYPE", 0, 1, 1, 2, 0, 9),     \* 6: sw x1, 9(x1), across the end of the page
    Encode("J_TYPE", 1, 0, 0, 0, 0, 4),     \* 7: jal x1, 4
    Encode("B_TYPE", 0, 1, 2, 0, 0, 4),     \* 8: beq x1, x2, 4
    Encode("I_TYPE", 0, 1, 0, 0, 0, 1),     \* 9: addi x0, x1, 1
    Encode("R_TYPE", 1, 1, 2, 1, 0, 0),     \* 10: sll, unsupported
    Encode("LOAD", 1, 0, 0, 2, 0, 4),       \* 11: lw, unsupported
    Encode("B_TYPE", 0, 1, 2, 4, 0, 4),     \* 12: blt, unsupported
    Encode("R_TYPE", 1, 1, 2, 0, 0, 0),     \* 13: add x1, x1, x2
    Encode("J_TYPE", 0, 0, 0, 0, 0, 8)>>    \* 14: j 8

Illegal == Encode("OTHER", 0, 0, 0, 0, 0, 0)

MCFields ==
  [w \in Word |-> IF Value(w) \in DOMAIN Encodings THEN Encodings[Value(w)] ELSE Illegal]

\* The file that holds the instructions numbered by the sequence s.
Image(s) == [i \in 0 .. 4 * Len(s) - 1 |-> W(s[i \div 4 + 1])[i % 4]]

\* Programs that end, compute, rewrite themselves, fill the page and do not fit
\* it, an empty file, and one cut inside its last instruction.
SomePrograms ==
  {Image(<<2, 2, 1>>), Image(<<3, 5, 14>>), Image(<<2, 6, 7, 1>>), Image(<<2, 3, 4, 7, 1>>),
   [i \in {} |-> 0], [i \in 0 .. 5 |-> Image(<<9, 7>>)[i]]}

\* With every program of one or two instructions, addi x0 apart.
Programs ==
  SomePrograms \cup
    {Image(s) : s \in UNION {[1 .. n -> DOMAIN Encodings \ {9}] : n \in 1 .. 2}}

OneGarbage == {W(77)}
TwoGarbage == {W(0), W(77)}
=============================================================================
