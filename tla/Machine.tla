------------------------------- MODULE Machine -------------------------------
(***************************************************************************)
(* What an instruction means, apart from the order in which the pipeline   *)
(* carries it out: its fields, the value the ALU gives, where a store      *)
(* goes.  The detailed Pipeline and the abstract ISA share this module.    *)
(*                                                                         *)
(* The fields of a word and the arithmetic on words are constants: their   *)
(* definitions are those of Instruction and ALU, and nothing here depends  *)
(* on them beyond the assumptions.                                         *)
(***************************************************************************)
EXTENDS VirtualMemory

CONSTANTS
  NReg,              \* number of registers; 32 in the code
  Fields,            \* the instruction a word encodes
  Add(_, _),         \* uint32_t addition
  Sub(_, _),         \* uint32_t subtraction
  ImmOp(_, _, _)     \* the I-format operation of a funct3

Reg == 0 .. NReg - 1
Format == {"R_TYPE", "I_TYPE", "S_TYPE", "B_TYPE", "U_TYPE", "J_TYPE"}

\* The opcodes the code tells apart.  LOAD is looked for by two stages but is
\* no format, OTHER stands for the rest.
Opcode == Format \cup {"LOAD", "OTHER"}

Instruction == [opcode : Opcode, rd : Reg, rs1 : Reg, rs2 : Reg,
                funct3 : 0 .. 7, funct7 : 0 .. 127, imm : Word]

ASSUME NRegAssumption == NReg \in Nat \ {0}
ASSUME FieldsAssumption == Fields \in [Word -> Instruction]
ASSUME ArithmeticAssumption ==
  /\ \A a, b \in Word : Add(a, b) \in Word /\ Sub(a, b) \in Word
  /\ \A funct3 \in 0 .. 7 : \A a, b \in Word : ImmOp(funct3, a, b) \in Word

VARIABLES
  registers,   \* RegisterBank::registers
  pc,          \* RegisterBank::pc
  thrown       \* the exception the last instruction ended with, or "none"

-----------------------------------------------------------------------------
\* alu_result, for the formats that compute one.
AluOf(i, regs) ==
  CASE i.opcode = "R_TYPE" -> IF i.funct7 = 32 THEN Sub(regs[i.rs1], regs[i.rs2])
                                               ELSE Add(regs[i.rs1], regs[i.rs2])
    [] i.opcode = "I_TYPE" -> ImmOp(i.funct3, regs[i.rs1], i.imm)
    [] i.opcode = "S_TYPE" -> Add(regs[i.rs1], i.imm)
    [] OTHER -> i.imm

ComputesAlu(i) ==
  \/ i.opcode = "R_TYPE" /\ i.funct3 = 0
  \/ i.opcode \in {"I_TYPE", "S_TYPE", "U_TYPE"}

Branches(i) == i.opcode = "B_TYPE" /\ i.funct3 \in {0, 1}

BranchTaken(i, regs) == (i.funct3 = 0) <=> (regs[i.rs1] = regs[i.rs2])

\* What the execute stage refuses: the R and B operations it does not have.
Unsupported(i) ==
  \/ i.opcode = "R_TYPE" /\ i.funct3 # 0
  \/ i.opcode = "B_TYPE" /\ i.funct3 \notin {0, 1}

\* Mutant: the pc stays.
SamePc(p) == p
\* Mutant: the pc counts words.
NextWordPc(p) == Wrap(p + 1)
NextPc(p) == Wrap(p + 4)

\* Mutant: x0 is written like any other register.
WithAnyRegister(rd, v) == [registers EXCEPT ![rd] = v]

\* The register bank after v has been written to rd, which x0 refuses.
WithRegister(rd, v) == IF rd = 0 THEN registers ELSE [registers EXCEPT ![rd] = v]

\* How that write ends.
WriteThrows(rd) == IF rd = 0 THEN "invalid_argument" ELSE "none"

MachineTypeOK ==
  /\ MemoryTypeOK
  /\ registers \in [Reg -> Word]
  /\ pc \in Address
=============================================================================
