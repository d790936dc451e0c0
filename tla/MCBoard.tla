------------------------------ MODULE MCBoard ------------------------------
(* A board with bytes of one bit, so 16 words and addresses, four pages of *)
(* four bytes and ten bytes of memory.  A word stands for the instruction  *)
(* its number selects.                                                     *)
EXTENDS Board, Sequences

W(n) == [i \in 0 .. 3 |-> (n \div (2 ^ i)) % 2]

A == INSTANCE ALU WITH Width <- 4
Bits == [w \in Word |-> {i \in A!Position : (Value(w) \div 2 ^ i) % 2 = 1}]
Holds == [a \in A!Register |-> W(A!Unsigned(a))]
MCAdd(a, b) == Holds[A!add(Bits[a], Bits[b])]
MCSub(a, b) == Holds[A!sub(Bits[a], Bits[b])]
MCImmOp(funct3, a, imm) == Holds[A!immediate_op(funct3, Bits[a], Bits[imm])]

Encode(opcode, rd, rs1, rs2, funct3, funct7, imm) ==
  [opcode |-> opcode, rd |-> rd, rs1 |-> rs1, rs2 |-> rs2,
   funct3 |-> funct3, funct7 |-> funct7, imm |-> W(imm)]

Encodings ==
  <<Encode("J_TYPE", 0, 0, 0, 0, 0, 0),     \* 1: j self
    Encode("I_TYPE", 1, 1, 0, 0, 0, 3),     \* 2: addi x1, x1, 3
    Encode("S_TYPE", 0, 1, 2, 2, 0, 0),     \* 3: sw x2, 0(x1)
    Encode("S_TYPE", 0, 0, 1, 2, 0, 14),    \* 4: sw x1, 14(x0), from the last page to page 0
    Encode("J_TYPE", 1, 0, 0, 0, 0, 12),    \* 5: jal x1, 12
    Encode("B_TYPE", 0, 1, 2, 1, 0, 8),     \* 6: bne x1, x2, 8
    Encode("U_TYPE", 2, 0, 0, 0, 0, 12),    \* 7: lui x2
    Encode("R_TYPE", 2, 1, 2, 0, 32, 0),    \* 8: sub x2, x1, x2
    Encode("LOAD", 1, 0, 0, 2, 0, 4),       \* 9: lw, unsupported
    Encode("R_TYPE", 1, 1, 2, 7, 0, 0),     \* 10: and, unsupported
    Encode("S_TYPE", 0, 2, 2, 2, 0, 1)>>    \* 11: sw x2, 1(x2)

MCFields ==
  [w \in Word |-> IF Value(w) \in DOMAIN Encodings THEN Encodings[Value(w)]
                  ELSE Encode("OTHER", 0, 0, 0, 0, 0, 0)]

-----------------------------------------------------------------------------
P(frame, bits) == [frame |-> frame, bits |-> bits]
Kernel == {"VALID", "READ", "WRITE", "EXECUTE"}
Text == {"VALID", "READ", "EXECUTE", "USER_ACCESSIBLE"}
Plain == {"VALID", "READ", "WRITE", "USER_ACCESSIBLE"}

\* Identity for everybody on two pages, and the neighbour by wrap-around on a
\* kernel frame partly beyond the memory; read-only text with writable data
\* behind it; every page on frame 0.
Tables ==
  {[va \in {0, 4, 12} |-> IF va = 12 THEN P(8, Kernel) ELSE P(va, PteBit)],
   [va \in {0, 4} |-> IF va = 0 THEN P(0, Text) ELSE P(4, Plain)],
   [va \in {0, 4, 12} |-> IF va = 12 THEN P(0, Kernel) ELSE P(0, Plain)]}

\* Two instructions, at frames 0 and 4, and half a frame.
Memories ==
  {[pa \in 0 .. 9 |-> IF pa < 4 THEN W(n)[pa] ELSE IF pa < 8 THEN W(m)[pa - 4] ELSE 0] :
     n \in 1 .. 12, m \in {2, 3}}

MCSetUps ==
  {<<[memory |-> mem, privilege_mode |-> mode, pc |-> start,
      registers |-> [r \in Reg |-> CASE r = 0 -> W(0) [] r = 1 -> W(2) [] OTHER -> W(5)]],
     table>> : mem \in Memories, mode \in {"USER", "MACHINE"}, start \in {0, 14}, table \in Tables}

MCAdditions == {<<0, P(4, PteBit)>>, <<4, P(0, Plain)>>, <<5, P(0, PteBit)>>}
MCAddresses == {0, 2, 13}
MCData == {W(3), W(13)}
TwoGarbage == {W(0), W(9)}
=============================================================================
