--------------------------- MODULE PipelineProofs ---------------------------
(***************************************************************************)
(* What a step of run_cycle preserves, whoever calls it: the CPU's run()   *)
(* and a Python session use these facts alike.                             *)
(***************************************************************************)
EXTENDS Pipeline, VirtualMemoryLemmas

\* Every instruction's fields are registers and words of the machine.
LEMMA FieldsType == ASSUME NEW w \in Word PROVE Fields[w] \in Instruction
BY FieldsAssumption

\* The ALU yields a word for every instruction, whatever its format.
LEMMA AluType ==
  ASSUME NEW i \in Instruction, NEW regs \in [Reg -> Word]
  PROVE  AluOf(i, regs) \in Word
<1>1. regs[i.rs1] \in Word /\ regs[i.rs2] \in Word /\ i.imm \in Word /\ i.funct3 \in 0 .. 7
  BY DEF Instruction
<1> QED
  BY <1>1, ArithmeticAssumption DEF AluOf

LEMMA WithRegisterType ==
  ASSUME registers \in [Reg -> Word], NEW rd \in Reg, NEW v \in Word
  PROVE  WithRegister(rd, v) \in [Reg -> Word]
BY DEF WithRegister

\* The register bank never refuses what write back writes: a cycle that gets so
\* far ends without an exception.
LEMMA WriteBackEffect ==
  ASSUME WriteBack
  PROVE  /\ stage = "write_back" /\ stage' = "fetch" /\ thrown = "none" /\ thrown' = "none"
         /\ UNCHANGED <<memoryVars, pc, latches>>
         /\ \/ registers' = registers
            \/ \E w \in Results : registers' = WithRegister(inst.rd, w)
<1>1. /\ stage = "write_back" /\ stage' = "fetch" /\ thrown = "none"
      /\ UNCHANGED <<memoryVars, pc, latches>>
  BY DEF WriteBack, At
<1>2. CASE WritesRegister
  <2>1. (CHOOSE w \in Results : TRUE) \in Results /\ inst.rd # 0
    BY <1>2 DEF WritesRegister
  <2> QED
    BY <1>1, <1>2, <2>1 DEF WriteBack, WriteThrows
<1>3. CASE ~WritesRegister
  BY <1>1, <1>3 DEF WriteBack
<1> QED
  BY <1>2, <1>3

\* What is written if it was not loaded.
LEMMA WriteBackAlu ==
  ASSUME WriteBack, ~IsLoad
  PROVE  registers' = IF decoded_instruction.format \in WritingFormats
                      THEN WithRegister(inst.rd, exec_result.alu_result) ELSE registers
<1>1. CASE decoded_instruction.format \in WritingFormats
  <2>1. Results = {exec_result.alu_result}
    BY <1>1 DEF Results
  <2>2. (CHOOSE w \in Results : TRUE) = exec_result.alu_result
    BY <2>1
  <2>3. inst.rd = 0 => WithRegister(inst.rd, exec_result.alu_result) = registers
    BY DEF WithRegister
  <2> QED
    BY <1>1, <2>1, <2>2, <2>3 DEF WriteBack, WritesRegister
<1>2. CASE decoded_instruction.format \notin WritingFormats
  <2>1. Results = {}
    BY <1>2 DEF Results
  <2> QED
    BY <1>2, <2>1 DEF WriteBack, WritesRegister
<1> QED
  BY <1>1, <1>2

\* Every way a stage can end keeps the types.
LEMMA CycleType == ASSUME PipelineTypeOK, run_cycle PROVE PipelineTypeOK'
<1> USE DEF PipelineTypeOK, MachineTypeOK, MemoryTypeOK
<1> DEFINE i == Fields[decoded_instruction.word]
<1>0. /\ i \in Instruction
      /\ inst = i
      /\ AluOf(i, registers) \in Word
      /\ Value(i.imm) \in Address
      /\ exec_result.alu_result \in Word
      /\ EffectiveAddress \in Address
      /\ registers[i.rs2] \in Word
      /\ i.rd \in Reg
  <2>1. i \in Instruction /\ inst = i
    BY FieldsType DEF inst
  <2>2. i.imm \in Word /\ i.rs2 \in Reg /\ i.rd \in Reg
    BY <2>1 DEF Instruction
  <2> QED
    BY <2>1, <2>2, AluType, ValueType DEF ExecutionResult, EffectiveAddress
<1> HIDE DEF i
<1>1. 0 \in Address /\ pc \in Int
  BY WordModPositive DEF Address
<1>2. ASSUME Fetch PROVE PipelineTypeOK'
  <2>1. WordAt(pc) \in Word
    BY <1>2, WordAtType DEF Fetch
  <2>2. NextPc(pc) \in Address
    BY <1>1, WrapType DEF NextPc
  <2> QED
    BY <1>2, <2>1, <2>2 DEF Fetch, memoryVars, Goto, Stage
<1>3. ASSUME FetchFault PROVE PipelineTypeOK'
  BY <1>3, WordOutcomeType DEF FetchFault, memoryVars, latches, Throw, Stage, Outcome, Exception
<1>4. ASSUME Decode PROVE PipelineTypeOK'
  BY <1>4 DEF Decode, memoryVars, Goto, Stage
<1>5. ASSUME DecodeUnsupported PROVE PipelineTypeOK'
  BY <1>5 DEF DecodeUnsupported, memoryVars, latches, Throw, Stage, Exception
<1>6. ASSUME ExecuteAlu PROVE PipelineTypeOK'
  BY <1>6, <1>0 DEF ExecuteAlu, ExecuteOnly, memoryVars, Goto, Stage, ExecutionResult
<1>7. ASSUME ExecuteBranch PROVE PipelineTypeOK'
  <2>1. BranchTaken(inst, registers) \in BOOLEAN
    BY DEF BranchTaken
  <2> QED
    BY <1>7, <1>0, <1>1, <2>1
    DEF ExecuteBranch, ExecuteOnly, memoryVars, Goto, Stage, ExecutionResult
<1>8. Jumped \in ExecutionResult
  <2>1. Wrap(pc + Value(inst.imm)) \in Address
    BY <1>0, <1>1, WrapType DEF Address
  <2> QED
    BY <2>1 DEF Jumped, ExecutionResult
<1>9. ASSUME ExecuteJump PROVE PipelineTypeOK'
  BY <1>8, <1>9 DEF ExecuteJump, ExecuteOnly, memoryVars, Goto, Stage
<1>10. ASSUME ExecuteEnd PROVE PipelineTypeOK'
  BY <1>8, <1>10 DEF ExecuteEnd, ExecuteOnly, memoryVars, Throw, Stage, Exception
<1>11. ASSUME ExecuteUnsupported PROVE PipelineTypeOK'
  BY <1>11 DEF ExecuteUnsupported, memoryVars, latches, Throw, Stage, Exception
<1>12. ASSUME Store PROVE memory' \in [0 .. MemorySize - 1 -> Byte]
  <2>1. \A b \in DOMAIN registers[inst.rs2] : registers[inst.rs2][b] \in Byte
    BY <1>0 DEF Word
  <2> QED
    BY <1>12, <2>1, WrittenType DEF Store
<1>13. ASSUME MemoryAccess PROVE PipelineTypeOK'
  <2>1. IsLoad => WordAt(EffectiveAddress) \in Word
    <3>1. IsStore \in BOOLEAN
      BY DEF IsStore
    <3> QED
      BY <1>13, <3>1, WordAtType DEF MemoryAccess, AccessOutcome
  <2>2. mem_result' \in MemoryAccessResult
    BY <1>13, <2>1 DEF MemoryAccess, MemoryAccessResult, IsStore
  <2> QED
    BY <1>12, <1>13, <2>2 DEF MemoryAccess, Goto, Stage
<1>14. ASSUME MemoryAccessFault PROVE PipelineTypeOK'
  <2>1. AccessOutcome \in Exception
    <3>1. IsStore \in BOOLEAN
      BY DEF IsStore
    <3> QED
      BY <1>14, <3>1, WordOutcomeType DEF MemoryAccessFault, AccessOutcome, Outcome, Exception
  <2> QED
    BY <1>12, <1>14, <2>1
    DEF MemoryAccessFault, MemoryAccessResult, NoMemoryAccess, Throw, Stage
<1>15. ASSUME WriteBack PROVE PipelineTypeOK'
  <2>1. Results \subseteq Word
    BY <1>0 DEF Results, MemoryAccessResult
  <2>2. registers' \in [Reg -> Word]
    BY <1>0, <1>15, <2>1, WriteBackEffect, WithRegisterType
  <2> QED
    BY <1>15, <2>2, WriteBackEffect DEF memoryVars, latches, Stage
<1> QED
  BY <1>2, <1>3, <1>4, <1>5, <1>6, <1>7, <1>9, <1>10, <1>11, <1>13, <1>14, <1>15 DEF run_cycle

\* A cycle that throws, or retires, is back at fetch.
LEMMA CycleEnds ==
  ASSUME run_cycle
  PROVE  thrown = "none" /\ (thrown' = "none" \/ stage' = "fetch")
BY WriteBackEffect
DEF run_cycle, Fetch, FetchFault, Decode, DecodeUnsupported, ExecuteAlu, ExecuteBranch,
    ExecuteJump, ExecuteEnd, ExecuteUnsupported, MemoryAccess, MemoryAccessFault, At, Goto, Throw

\* The pc of a fetched instruction is four less than the pc after the fetch,
\* also where the pc wrapped.
LEMMA BackFour ==
  ASSUME pc \in Address, pc' = NextPc(pc)
  PROVE  Wrap(pc' - 4) = pc
<1>1. \A m \in Nat : m >= 4 => \A p \in 0 .. m - 1 : (((p + 4) % m) - 4) % m = p
  <2> SUFFICES ASSUME NEW m \in Nat, m >= 4, NEW p \in 0 .. m - 1
               PROVE  (((p + 4) % m) - 4) % m = p
    OBVIOUS
  <2>1. CASE p + 4 < m
    BY <2>1
  <2>2. CASE p + 4 >= m
    <3>1. (p + 4) % m = p + 4 - m
      BY <2>2
    <3>2. (p - m) % m = p
      OBVIOUS
    <3> QED
      BY <3>1, <3>2
  <2> QED
    BY <2>1, <2>2
<1>2. WordMod \in Nat /\ WordMod >= 4
  BY WordModPositive, PageSizeAssumption
<1> QED
  BY <1>1, <1>2 DEF Wrap, NextPc, Address

\* A target equal to the pc means an offset of zero.
LEMMA SelfOffset ==
  ASSUME NEW p \in Address, NEW w \in Word, Wrap(p + Value(w)) = p
  PROVE  w = ZeroWord
<1> DEFINE v == Value(w)
<1>1. v \in Address
  BY ValueType
<1>2. v = 0
  <2>1. \A m \in Nat \ {0} : \A a, b \in 0 .. m - 1 : (a + b) % m = a => b = 0
    <3> SUFFICES ASSUME NEW m \in Nat \ {0}, NEW a \in 0 .. m - 1, NEW b \in 0 .. m - 1,
                        (a + b) % m = a, b # 0
                 PROVE  FALSE
      OBVIOUS
    <3>1. a + b < m => (a + b) % m = a + b
      OBVIOUS
    <3>2. a + b >= m => (a + b) % m = a + b - m
      OBVIOUS
    <3> QED
      BY <3>1, <3>2
  <2> HIDE DEF v
  <2> QED
    BY <1>1, <2>1, WordModPositive DEF Wrap, Address, v
<1>3. /\ ByteMod \in Nat \ {0}
      /\ w[0] \in Nat /\ w[1] \in Nat /\ w[2] \in Nat /\ w[3] \in Nat
  BY ByteModAssumption DEF Word, ByteIndex, Byte
<1>4. \A d, r \in Nat : d + (ByteMod * r) = 0 => d = 0 /\ r = 0
  BY <1>3
<1>5. \A d, r \in Nat : d + (ByteMod * r) \in Nat
  BY <1>3
<1>6. w[0] = 0 /\ w[1] = 0 /\ w[2] = 0 /\ w[3] = 0
  <2>1. w[2] + (ByteMod * w[3]) \in Nat
    BY <1>3, <1>5
  <2>2. w[1] + (ByteMod * (w[2] + (ByteMod * w[3]))) \in Nat
    BY <1>3, <1>5, <2>1
  <2>3. w[0] + (ByteMod * (w[1] + (ByteMod * (w[2] + (ByteMod * w[3]))))) = 0
    BY <1>2 DEF Value
  <2>4. w[0] = 0 /\ w[1] + (ByteMod * (w[2] + (ByteMod * w[3]))) = 0
    BY <1>3, <1>4, <2>2, <2>3
  <2>5. w[1] = 0 /\ w[2] + (ByteMod * w[3]) = 0
    BY <1>3, <1>4, <2>1, <2>4
  <2> QED
    BY <1>3, <1>4, <2>4, <2>5
<1> QED
  BY <1>6 DEF Word, ByteIndex, ZeroWord

\* What a step of the cycle hands from stage to stage.
LEMMA CycleLatches ==
  ASSUME PipelineTypeOK, LatchesAgree, run_cycle
  PROVE  LatchesAgree'
<1>1. CASE stage' = "fetch"
  BY <1>1 DEF LatchesAgree
<1>2. CASE Fetch
  <2>1. Wrap(pc' - 4) = pc
    BY <1>2, BackFour DEF Fetch, PipelineTypeOK, MachineTypeOK
  <2>2. fetched_instruction' = WordAt(Wrap(pc - 4))' /\ stage' = "decode"
    BY <1>2, <2>1 DEF Fetch, Goto, WordAt, memoryVars, PhysicalAddress, get_entry
  <2> QED
    BY <2>2 DEF LatchesAgree
<1>3. ASSUME UNCHANGED <<memoryVars, pc>> PROVE WordAt(Wrap(pc - 4))' = WordAt(Wrap(pc - 4))
  BY <1>3 DEF memoryVars, WordAt, PhysicalAddress, get_entry
<1>4. CASE Decode
  <2>1. /\ fetched_instruction' = WordAt(Wrap(pc - 4))'
        /\ stage' = "execute"
    BY <1>3, <1>4 DEF Decode, At, Goto, LatchesAgree
  <2>2. /\ decoded_instruction'.word = fetched_instruction'
        /\ decoded_instruction'.format = Fields[fetched_instruction].opcode
        /\ Fields[fetched_instruction].opcode \in Format
        /\ inst' = Fields[fetched_instruction]
    BY <1>4 DEF Decode, inst
  <2>3. ~IsLoad'
    BY <2>2 DEF IsLoad, Format
  <2> QED
    BY <2>1, <2>2, <2>3 DEF LatchesAgree
<1>5. ASSUME ExecuteAlu \/ ExecuteBranch \/ ExecuteJump PROVE LatchesAgree'
  <2>1. /\ UNCHANGED <<memoryVars, registers, pc, fetched_instruction, decoded_instruction>>
        /\ stage = "execute" /\ stage' = "memory_access"
        /\ inst' = inst /\ IsLoad' = IsLoad
    BY <1>5 DEF ExecuteAlu, ExecuteBranch, ExecuteJump, ExecuteOnly, At, Goto, inst, IsLoad
  <2>2. ~Unsupported(inst)
    BY <1>5 DEF ExecuteAlu, ExecuteBranch, ExecuteJump, ComputesAlu, Branches, Unsupported
  <2>3. ComputesAlu(inst) => exec_result'.alu_result = AluOf(inst, registers)
    <3>1. CASE ExecuteAlu
      BY <3>1 DEF ExecuteAlu, PipelineTypeOK, ExecutionResult
    <3>2. CASE ExecuteBranch \/ ExecuteJump
      BY <3>2 DEF ExecuteBranch, ExecuteJump, Branches, ComputesAlu
    <3> QED
      BY <1>5, <3>1, <3>2
  <2>4. Branches(inst) => exec_result'.branch_taken = BranchTaken(inst, registers)
    <3>1. CASE ExecuteBranch
      BY <3>1 DEF ExecuteBranch, PipelineTypeOK, ExecutionResult
    <3>2. CASE ExecuteAlu \/ ExecuteJump
      BY <3>2 DEF ExecuteAlu, ExecuteJump, Branches, ComputesAlu
    <3> QED
      BY <1>5, <3>1, <3>2
  <2>5. inst.opcode = "J_TYPE" => exec_result' = Jumped'
    <3>1. CASE ExecuteJump
      <4>1. exec_result' = Jumped
        BY <3>1 DEF ExecuteJump
      <4>2. Jumped' = Jumped
        BY <2>1, <4>1 DEF Jumped, PipelineTypeOK, ExecutionResult
      <4> QED
        BY <4>1, <4>2
    <3>2. CASE ExecuteAlu \/ ExecuteBranch
      BY <3>2 DEF ExecuteAlu, ExecuteBranch, Branches, ComputesAlu
    <3> QED
      BY <1>5, <3>1, <3>2
  <2>6. BranchTaken(inst, registers)' = BranchTaken(inst, registers)
    BY <2>1 DEF BranchTaken
  <2> QED
    BY <1>3, <2>1, <2>2, <2>3, <2>4, <2>5, <2>6 DEF LatchesAgree
<1>6. CASE MemoryAccess
  <2>1. /\ UNCHANGED <<registers, fetched_instruction, decoded_instruction, exec_result>>
        /\ stage = "memory_access" /\ stage' = "write_back"
        /\ inst' = inst /\ IsLoad' = IsLoad /\ Jumped' = Jumped
    BY <1>6 DEF MemoryAccess, At, Goto, inst, IsLoad, Jumped
  <2> QED
    BY <2>1 DEF LatchesAgree
<1> QED
  BY <1>1, <1>2, <1>4, <1>5, <1>6
  DEF run_cycle, FetchFault, DecodeUnsupported, ExecuteEnd, ExecuteUnsupported,
      MemoryAccessFault, WriteBack, Goto, Throw

\* Whoever leaves the pipeline and its machine alone leaves them in agreement.
LEMMA SameLatches ==
  ASSUME LatchesAgree, UNCHANGED pipelineVars
  PROVE  LatchesAgree'
<1>1. UNCHANGED <<memoryVars, registers, pc, stage, fetched_instruction,
                  decoded_instruction, exec_result>>
  BY DEF pipelineVars, latches
<1>2. inst' = inst /\ IsLoad' = IsLoad /\ Jumped' = Jumped
  BY <1>1 DEF inst, IsLoad, Jumped
<1>3. WordAt(Wrap(pc - 4))' = WordAt(Wrap(pc - 4))
  BY <1>1 DEF memoryVars, WordAt, PhysicalAddress, get_entry
<1> QED
  BY <1>1, <1>2, <1>3 DEF LatchesAgree

-----------------------------------------------------------------------------
(* A cycle is one instruction: the pipeline seen under InstructionPc takes *)
(* the step of InstructionSet once, and shows nothing of its other stages. *)

\* An instruction that has yet to take effect is still at its address, where
\* it can still be read, and a jump past the execute stage does not jump to
\* itself.
Fetched ==
  stage # "fetch" /\ ~StoreDone =>
    /\ ReachesByte(Wrap(pc - 4), 3, FALSE)
    /\ fetched_instruction = WordAt(Wrap(pc - 4))
    /\ stage \in {"memory_access", "write_back"} => ~JumpsToSelf

(* The operators of InstructionSet do not depend on the pc it is given.    *)

LEMMA SameWordOutcome ==
  \A va, is_write : single!WordOutcome(va, is_write) = WordOutcome(va, is_write)
BY DEF single!WordOutcome, single!ReachesByte, single!ByteOutcome, single!translate_address, single!HasEntry,
       single!get_entry, single!is_valid, single!Grants, single!Right, single!PhysicalAddress,
       single!get_physical_address, single!PageNumber, single!Wrap, single!WordMod, single!ByteIndex,
       WordOutcome, ReachesByte, ByteOutcome, translate_address, HasEntry, get_entry,
       is_valid, Grants, Right, PhysicalAddress, get_physical_address, PageNumber, Wrap,
       WordMod, ByteIndex

LEMMA SameWordAt == \A va : single!WordAt(va) = WordAt(va)
BY DEF single!WordAt, single!get_entry, single!PhysicalAddress, single!get_physical_address,
       single!PageNumber, single!Wrap, single!WordMod, single!ByteIndex,
       WordAt, get_entry, PhysicalAddress, get_physical_address, PageNumber, Wrap, WordMod,
       ByteIndex

LEMMA SameWritten == \A va, bytes : single!Written(va, bytes) = Written(va, bytes)
BY DEF single!Written, single!ReachesByte, single!ByteOutcome, single!translate_address, single!HasEntry,
       single!get_entry, single!is_valid, single!Grants, single!Right, single!PhysicalAddress,
       single!get_physical_address, single!PageNumber, single!Wrap, single!WordMod,
       Written, ReachesByte, ByteOutcome, translate_address, HasEntry, get_entry, is_valid,
       Grants, Right, PhysicalAddress, get_physical_address, PageNumber, Wrap, WordMod

LEMMA SameMachine ==
  /\ single!ZeroWord = ZeroWord /\ single!Word = Word /\ single!Reg = Reg /\ single!Format = Format
  /\ \A p : single!NextPc(p) = NextPc(p)
  /\ \A w : single!Value(w) = Value(w)
  /\ \A i : /\ single!ComputesAlu(i) = ComputesAlu(i)
            /\ single!Branches(i) = Branches(i)
            /\ single!Unsupported(i) = Unsupported(i)
  /\ \A i, regs : single!AluOf(i, regs) = AluOf(i, regs)
  /\ \A rd, v : single!WithRegister(rd, v) = WithRegister(rd, v)
BY DEF single!ZeroWord, single!Word, single!Reg, single!Format, single!NextPc, single!Value,
       single!ComputesAlu, single!Branches, single!Unsupported, single!AluOf, single!WithRegister,
       single!Wrap, single!WordMod, single!ByteIndex, single!Byte,
       ZeroWord, Word, Reg, Format, NextPc, Value, ComputesAlu, Branches,
       Unsupported, AluOf, WithRegister, Wrap, WordMod, ByteIndex, Byte

\* Going back from the pc and on again leads to the pc.
LEMMA ForthFour ==
  ASSUME pc \in Address
  PROVE  NextPc(Wrap(pc - 4)) = pc
<1>1. \A m \in Nat \ {0} : \A p \in 0 .. m - 1 : (((p - 4) % m) + 4) % m = p
  <2> SUFFICES ASSUME NEW m \in Nat \ {0}, NEW p \in 0 .. m - 1
               PROVE  (((p - 4) % m) + 4) % m = p
    OBVIOUS
  <2> DEFINE r == (p - 4) % m
             q == (p - 4) \div m
             s == (r + 4) % m
             t == (r + 4) \div m
  <2>1. r \in 0 .. m - 1 /\ q \in Int /\ p - 4 = (m * q) + r
    OBVIOUS
  <2>2. s \in 0 .. m - 1 /\ t \in Int /\ r + 4 = (m * t) + s
    BY <2>1
  <2> HIDE DEF r, q, s, t
  <2>3. p - s = m * (q + t)
    BY <2>1, <2>2
  <2>4. q + t \in Int /\ p - s < m /\ p - s > 0 - m
    BY <2>1, <2>2
  <2>5. q + t = 0
    <3> DEFINE k == q + t
    <3>1. k \in Int /\ m * k < m /\ m * k > 0 - m
      BY <2>3, <2>4
    <3> HIDE DEF k
    <3>2. CASE k >= 1
      <4>1. m * k >= m
        BY <3>1, <3>2
      <4> QED
        BY <3>1, <4>1
    <3>3. CASE k <= 0 - 1
      <4>1. m * k <= 0 - m
        BY <3>1, <3>3
      <4> QED
        BY <3>1, <4>1
    <3> QED
      BY <3>1, <3>2, <3>3 DEF k
  <2>6. s = p
    BY <2>2, <2>3, <2>5
  <2> QED
    BY <2>6 DEF r, s
<1> QED
  BY <1>1, WordModPositive DEF NextPc, Wrap, Address

\* A jump ends the program exactly when its offset is zero.
LEMMA SelfJump ==
  ASSUME PipelineTypeOK, inst.opcode = "J_TYPE"
  PROVE  JumpsToSelf <=> inst.imm = ZeroWord
<1>1. pc \in Address /\ inst.imm \in Word /\ exec_result \in ExecutionResult
  BY FieldsType DEF PipelineTypeOK, MachineTypeOK, inst, Instruction
<1>2. Jumped.branch_target = Wrap(pc + Value(inst.imm))
  BY <1>1 DEF Jumped, ExecutionResult
<1>3. JumpsToSelf <=> Wrap(pc + Value(inst.imm)) = pc
  BY <1>2 DEF JumpsToSelf
<1>4. ASSUME inst.imm = ZeroWord PROVE Wrap(pc + Value(inst.imm)) = pc
  <2>1. Value(ZeroWord) = 0
    BY ByteModAssumption DEF Value, ZeroWord, ByteIndex
  <2>2. pc + Value(inst.imm) = pc
    BY <1>1, <1>4, <2>1, WordModPositive DEF Address
  <2>3. pc % WordMod = pc
    BY <1>1, WordModPositive DEF Address
  <2> QED
    BY <2>2, <2>3 DEF Wrap
<1> QED
  BY <1>1, <1>3, <1>4, SelfOffset

\* Reading depends on memory, page table and mode alone.
LEMMA SameReach ==
  ASSUME UNCHANGED memoryVars
  PROVE  \A a : /\ ReachesByte(a, 3, FALSE)' = ReachesByte(a, 3, FALSE)
                /\ WordAt(a)' = WordAt(a)
BY DEF memoryVars, ReachesByte, ByteOutcome, translate_address, HasEntry, get_entry, Grants,
       Right, PhysicalAddress, WordAt

\* Until it takes effect nothing overwrites an instruction under way or maps it
\* away.
LEMMA CycleFetched ==
  ASSUME PipelineTypeOK, LatchesAgree, Fetched, run_cycle
  PROVE  Fetched'
<1>1. CASE Fetch
  <2>1. Wrap(pc' - 4) = pc
    BY <1>1, BackFour DEF Fetch, PipelineTypeOK, MachineTypeOK
  <2>2. ReachesByte(pc, 3, FALSE)
    BY <1>1, WordReached DEF Fetch
  <2>3. UNCHANGED memoryVars /\ fetched_instruction' = WordAt(pc) /\ stage' = "decode"
    BY <1>1 DEF Fetch, Goto
  <2> QED
    BY <2>1, <2>2, <2>3, SameReach DEF Fetched
<1>2. CASE Decode
  <2>1. /\ UNCHANGED <<memoryVars, pc, fetched_instruction>>
        /\ stage = "decode" /\ stage' = "execute"
    BY <1>2 DEF Decode, Goto, At
  <2> QED
    BY <2>1, SameReach DEF Fetched, StoreDone
<1>3. CASE ExecuteAlu \/ ExecuteBranch \/ ExecuteJump
  <2>1. /\ UNCHANGED <<memoryVars, pc, fetched_instruction, decoded_instruction>>
        /\ stage = "execute" /\ stage' = "memory_access"
    BY <1>3 DEF ExecuteAlu, ExecuteBranch, ExecuteJump, ExecuteOnly, Goto, At
  <2>2. inst' = inst
    BY <2>1 DEF inst
  <2>3. ~JumpsToSelf'
    <3>1. CASE inst.opcode # "J_TYPE"
      BY <2>2, <3>1 DEF JumpsToSelf
    <3>2. CASE inst.opcode = "J_TYPE"
      <4>1. ExecuteJump
        BY <1>3, <3>2 DEF ExecuteAlu, ExecuteBranch, ComputesAlu, Branches
      <4>2. inst.imm # ZeroWord
        BY <3>2, <4>1, SelfJump DEF ExecuteJump
      <4>3. Jumped' = Jumped
        BY <2>1, <2>2, <4>1 DEF ExecuteJump, Jumped, Value
      <4> QED
        BY <2>1, <4>1, <4>3 DEF ExecuteJump, JumpsToSelf
    <3> QED
      BY <3>1, <3>2
  <2> QED
    BY <2>1, <2>3, SameReach DEF Fetched, StoreDone
<1>4. CASE MemoryAccess
  <2> SUFFICES ASSUME ~StoreDone' PROVE Fetched'
    BY DEF Fetched
  <2>1. /\ UNCHANGED <<memoryVars, pc, fetched_instruction, decoded_instruction, exec_result>>
        /\ stage = "memory_access" /\ stage' = "write_back"
    BY <1>4 DEF MemoryAccess, Store, Goto, At, StoreDone, IsStore, memoryVars
  <2>2. JumpsToSelf' = JumpsToSelf
    BY <2>1 DEF JumpsToSelf, Jumped, inst, Value
  <2> QED
    BY <2>1, <2>2, SameReach DEF Fetched, StoreDone
<1>5. CASE stage' = "fetch"
  BY <1>5 DEF Fetched
<1> QED
  BY <1>1, <1>2, <1>3, <1>4, <1>5
  DEF run_cycle, FetchFault, DecodeUnsupported, ExecuteEnd, ExecuteUnsupported,
      MemoryAccessFault, WriteBack, Goto, Throw

\* Whoever leaves the pipeline and its machine alone keeps it fetched.
LEMMA SameFetched ==
  ASSUME Fetched, UNCHANGED pipelineVars
  PROVE  Fetched'
<1>1. UNCHANGED <<memoryVars, pc, stage, fetched_instruction, decoded_instruction, exec_result>>
  BY DEF pipelineVars, latches
<1>2. JumpsToSelf' = JumpsToSelf /\ StoreDone' = StoreDone
  BY <1>1 DEF JumpsToSelf, Jumped, inst, Value, StoreDone, IsStore
<1> QED
  BY <1>1, <1>2, SameReach DEF Fetched

-----------------------------------------------------------------------------
\* What the abstract machine sees of an instruction that has yet to take
\* effect.
LEMMA Seen ==
  ASSUME PipelineTypeOK, Fetched, stage # "fetch", ~StoreDone
  PROVE  /\ InstructionPc = Wrap(pc - 4)
         /\ single!NextPc(InstructionPc) = pc
         /\ single!Fetchable
         /\ single!here = Fields[fetched_instruction]
<1>1. InstructionPc = Wrap(pc - 4)
  BY DEF InstructionPc
<1>2. NextPc(Wrap(pc - 4)) = pc
  BY ForthFour DEF PipelineTypeOK, MachineTypeOK
<1>3. WordOutcome(Wrap(pc - 4), FALSE) = "ok"
  BY DEF Fetched, WordOutcome
<1>4. single!WordAt(InstructionPc) = fetched_instruction
  BY <1>1, SameWordAt DEF Fetched
<1> QED
  BY <1>1, <1>2, <1>3, <1>4, SameWordOutcome, SameMachine DEF single!Fetchable, single!here

\* The step at which an instruction takes effect.
TakesEffect == ~StoreDone /\ (stage' = "fetch" \/ StoreDone')

\* What remains to be shown of each way an instruction takes effect.
LEMMA Effect ==
  ASSUME PipelineTypeOK, Fetched, stage # "fetch", ~StoreDone, run_cycle,
         InstructionPc' = pc, UNCHANGED <<entries, privilege_mode>>,
         \/ single!Compute \/ single!Jump \/ single!Branch \/ single!StoreWord
         \/ single!EndOfProgram \/ single!Illegal
  PROVE  single!Instruct
<1>1. thrown = "none"
  BY CycleEnds
<1>2. single!Retire
  BY Seen DEF single!Retire
<1> QED
  BY <1>1, <1>2 DEF single!Instruct

\* Instructions that throw before they reach memory.
LEMMA ThrowImplements ==
  ASSUME PipelineTypeOK, LatchesAgree, Fetched, run_cycle,
         DecodeUnsupported \/ ExecuteUnsupported \/ ExecuteEnd
  PROVE  TakesEffect /\ single!Instruct
<1>1. /\ stage # "fetch" /\ ~StoreDone /\ stage' = "fetch"
      /\ UNCHANGED <<memory, entries, privilege_mode, registers, pc>>
  BY DEF DecodeUnsupported, ExecuteUnsupported, ExecuteEnd, ExecuteOnly, At, Throw, StoreDone,
         memoryVars
<1>2. TakesEffect /\ InstructionPc' = pc
  BY <1>1 DEF TakesEffect, InstructionPc
<1>3. ASSUME DecodeUnsupported PROVE single!Illegal
  <2>1. stage # "fetch" /\ single!here.opcode \notin single!Format
    BY <1>1, <1>3, Seen, SameMachine DEF DecodeUnsupported
  <2> QED
    BY <1>1, <1>3, <2>1 DEF DecodeUnsupported, Throw, single!Illegal
<1>4. ASSUME ExecuteUnsupported \/ ExecuteEnd PROVE inst = single!here
  BY <1>1, <1>4, Seen DEF LatchesAgree, ExecuteUnsupported, ExecuteEnd, At, inst
<1>5. ASSUME ExecuteUnsupported PROVE single!Illegal
  <2>1. single!Unsupported(single!here)
    BY <1>4, <1>5, SameMachine DEF ExecuteUnsupported
  <2> QED
    BY <1>1, <1>5, <2>1 DEF ExecuteUnsupported, Throw, single!Illegal
<1>6. ASSUME ExecuteEnd PROVE single!EndOfProgram
  <2>1. inst.opcode = "J_TYPE" /\ inst.imm = ZeroWord
    BY <1>6, SelfJump DEF ExecuteEnd, JumpsToSelf
  <2>2. single!here.opcode = "J_TYPE" /\ single!here.imm = single!ZeroWord
    BY <1>4, <1>6, <2>1, SameMachine
  <2> QED
    BY <1>1, <1>6, <2>2 DEF ExecuteEnd, Throw, single!EndOfProgram
<1> QED
  BY <1>1, <1>2, <1>3, <1>5, <1>6, Effect

\* A store takes effect when the memory stage writes, whether it throws or not.
LEMMA StoreImplements ==
  ASSUME PipelineTypeOK, LatchesAgree, Fetched, run_cycle,
         (MemoryAccess /\ IsStore) \/ MemoryAccessFault
  PROVE  TakesEffect /\ single!Instruct
<1>1. /\ stage = "memory_access" /\ ~StoreDone
      /\ UNCHANGED <<entries, privilege_mode, registers, pc, decoded_instruction>>
  BY DEF MemoryAccess, MemoryAccessFault, At, StoreDone
<1>2. /\ inst = Fields[fetched_instruction] /\ decoded_instruction.format = inst.opcode
      /\ ~IsLoad
  BY <1>1 DEF LatchesAgree, inst
<1>3. IsStore /\ inst.opcode = "S_TYPE"
  BY <1>2 DEF MemoryAccessFault, AccessOutcome, IsStore
<1>4. EffectiveAddress = Value(AluOf(inst, registers))
  BY <1>1, <1>3 DEF LatchesAgree, ComputesAlu, EffectiveAddress
<1>5. single!here = inst
  BY <1>1, <1>2, Seen
<1>6. AccessOutcome = WordOutcome(EffectiveAddress, TRUE)
  BY <1>3 DEF AccessOutcome, IsStore
<1>7. memory' = Written(EffectiveAddress, registers[inst.rs2])
  BY <1>3 DEF MemoryAccess, MemoryAccessFault, Store
<1>8. thrown' = IF WordOutcome(EffectiveAddress, TRUE) = "ok" THEN "none"
                ELSE WordOutcome(EffectiveAddress, TRUE)
  BY <1>6 DEF MemoryAccess, MemoryAccessFault, At, Goto, Throw
<1>9. single!StoreWord
  <2>1. single!here.opcode = "S_TYPE" /\ single!here.rs2 = inst.rs2
    BY <1>3, <1>5
  <2>2. single!Value(single!AluOf(single!here, registers)) = EffectiveAddress
    BY <1>4, <1>5, SameMachine
  <2> QED
    BY <1>1, <1>7, <1>8, <2>1, <2>2, SameWritten, SameWordOutcome DEF single!StoreWord
<1>10. TakesEffect /\ InstructionPc' = pc
  <2>1. CASE MemoryAccess
    <3>1. StoreDone'
      BY <1>1, <1>3, <2>1 DEF MemoryAccess, Goto, StoreDone, IsStore
    <3> QED
      BY <1>1, <3>1 DEF TakesEffect, InstructionPc
  <2>2. CASE MemoryAccessFault
    <3>1. stage' = "fetch"
      BY <2>2 DEF MemoryAccessFault, Throw
    <3> QED
      BY <1>1, <3>1 DEF TakesEffect, InstructionPc
  <2> QED
    BY <2>1, <2>2
<1> QED
  BY <1>1, <1>9, <1>10, Effect

\* Everything else takes effect at write back.
LEMMA RetireImplements ==
  ASSUME PipelineTypeOK, LatchesAgree, Fetched, run_cycle, WriteBack, ~IsStore
  PROVE  TakesEffect /\ single!Instruct
<1>1. /\ stage = "write_back" /\ stage' = "fetch" /\ ~StoreDone
      /\ UNCHANGED <<memory, entries, privilege_mode, pc, thrown>>
  BY WriteBackEffect DEF StoreDone, memoryVars
<1>2. TakesEffect /\ InstructionPc' = pc
  BY <1>1 DEF TakesEffect, InstructionPc
<1>3. /\ inst = single!here /\ decoded_instruction.format = inst.opcode /\ ~IsLoad
      /\ ~Unsupported(inst)
      /\ ComputesAlu(inst) => exec_result.alu_result = AluOf(inst, registers)
  BY <1>1, Seen DEF LatchesAgree, inst
<1>4. inst.opcode \in Format \ {"S_TYPE"}
  <2>1. inst.opcode \in Opcode
    BY FieldsType DEF PipelineTypeOK, inst, Instruction
  <2>2. decoded_instruction.format \in Format \cup {"INIVALID_TYPE"}
    BY DEF PipelineTypeOK
  <2> QED
    BY <1>3, <2>1, <2>2 DEF IsStore, Opcode, Format
<1>5. registers' = IF inst.opcode \in WritingFormats
                   THEN WithRegister(inst.rd, exec_result.alu_result) ELSE registers
  BY <1>3, WriteBackAlu
<1>6. ASSUME inst.opcode \in {"R_TYPE", "I_TYPE", "U_TYPE"} PROVE single!Compute
  <2>1. ComputesAlu(inst)
    BY <1>3, <1>6 DEF ComputesAlu, Unsupported
  <2>2. registers' = WithRegister(inst.rd, AluOf(inst, registers))
    BY <1>3, <1>5, <1>6, <2>1 DEF WritingFormats
  <2>3. registers' = single!WithRegister(single!here.rd, single!AluOf(single!here, registers))
    BY <1>3, <2>2, SameMachine
  <2>4. single!ComputesAlu(single!here)
    BY <1>3, <2>1, SameMachine
  <2> QED
    BY <1>1, <1>3, <1>6, <2>3, <2>4 DEF single!Compute
<1>7. ASSUME inst.opcode = "J_TYPE" PROVE single!Jump
  <2>1. inst.imm # ZeroWord
    BY <1>1, <1>7, SelfJump DEF Fetched
  <2>2. exec_result.alu_result \in Word
    BY DEF PipelineTypeOK, ExecutionResult
  <2>3. registers' = single!WithRegister(single!here.rd, exec_result.alu_result)
    BY <1>3, <1>5, <1>7, SameMachine DEF WritingFormats
  <2>4. single!here.imm # single!ZeroWord /\ exec_result.alu_result \in single!Word
    BY <1>3, <2>1, <2>2, SameMachine
  <2> QED
    BY <1>1, <1>3, <1>7, <2>3, <2>4 DEF single!Jump
<1>8. ASSUME inst.opcode = "B_TYPE" PROVE single!Branch
  <2>1. registers' = registers
    BY <1>5, <1>8 DEF WritingFormats
  <2>2. single!Branches(single!here)
    BY <1>3, <1>8, SameMachine DEF Unsupported, Branches
  <2> QED
    BY <1>1, <2>1, <2>2 DEF single!Branch
<1> QED
  BY <1>1, <1>2, <1>4, <1>6, <1>7, <1>8, Effect DEF Format

\* A fetch that throws leaves the pc where it is.
LEMMA FetchFaultImplements ==
  ASSUME FetchFault
  PROVE  TakesEffect /\ single!Instruct
<1>1. /\ stage = "fetch" /\ stage' = "fetch" /\ thrown = "none"
      /\ UNCHANGED <<memoryVars, registers, pc>>
      /\ WordOutcome(pc, FALSE) # "ok" /\ thrown' = WordOutcome(pc, FALSE)
  BY DEF FetchFault, At, Throw
<1>2. InstructionPc = pc /\ InstructionPc' = pc /\ TakesEffect
  BY <1>1 DEF InstructionPc, TakesEffect, StoreDone
<1>3. single!FetchTrap
  BY <1>1, <1>2, SameWordOutcome DEF single!FetchTrap, single!Fetchable, memoryVars, single!memoryVars
<1> QED
  BY <1>1, <1>2, <1>3 DEF single!Instruct

\* No other stage shows.
LEMMA StageStutters ==
  ASSUME PipelineTypeOK, LatchesAgree, Fetched, run_cycle,
         \/ Fetch \/ Decode \/ ExecuteAlu \/ ExecuteBranch \/ ExecuteJump
         \/ MemoryAccess /\ ~IsStore
         \/ WriteBack /\ IsStore
  PROVE  ~TakesEffect /\ UNCHANGED <<memoryVars, registers, InstructionPc, thrown>>
<1>1. UNCHANGED thrown
  BY WriteBackEffect DEF Fetch, Decode, ExecuteAlu, ExecuteBranch, ExecuteJump, MemoryAccess, Goto
<1>2. UNCHANGED <<memoryVars, registers>>
  <2>1. CASE WriteBack /\ IsStore
    <3>1. ~IsLoad /\ decoded_instruction.format \notin WritingFormats
      BY <2>1 DEF IsLoad, IsStore, WritingFormats
    <3> QED
      BY <2>1, <3>1, WriteBackEffect, WriteBackAlu
  <2>2. CASE MemoryAccess /\ ~IsStore
    BY <2>2 DEF MemoryAccess, Store, memoryVars
  <2> QED
    BY <2>1, <2>2 DEF Fetch, Decode, ExecuteAlu, ExecuteBranch, ExecuteJump, ExecuteOnly
<1>3. InstructionPc' = InstructionPc
  <2>1. CASE Fetch
    <3>1. Wrap(pc' - 4) = pc
      BY <2>1, BackFour DEF Fetch, PipelineTypeOK, MachineTypeOK
    <3>2. stage = "fetch" /\ stage' = "decode"
      BY <2>1 DEF Fetch, At, Goto
    <3> QED
      BY <3>1, <3>2 DEF InstructionPc, StoreDone
  <2>2. CASE WriteBack /\ IsStore
    BY <2>2, WriteBackEffect DEF InstructionPc, StoreDone
  <2>3. CASE Decode \/ ExecuteAlu \/ ExecuteBranch \/ ExecuteJump \/ (MemoryAccess /\ ~IsStore)
    <3>1. /\ pc' = pc /\ stage # "fetch" /\ stage' # "fetch" /\ ~StoreDone /\ ~StoreDone'
      BY <2>3 DEF Decode, ExecuteAlu, ExecuteBranch, ExecuteJump, ExecuteOnly, MemoryAccess,
                  At, Goto, StoreDone, IsStore
    <3> QED
      BY <3>1 DEF InstructionPc
  <2> QED
    BY <2>1, <2>2, <2>3
<1>4. ~TakesEffect
  BY DEF Fetch, Decode, ExecuteAlu, ExecuteBranch, ExecuteJump, MemoryAccess, WriteBack, At, Goto,
         TakesEffect, StoreDone, IsStore
<1> QED
  BY <1>1, <1>2, <1>3, <1>4

\* Every step of run_cycle, thrown exceptions included, is one whole
\* instruction or trap at the stage where it takes effect, and shows a
\* programmer nothing otherwise.
THEOREM CycleImplements ==
  ASSUME PipelineTypeOK, LatchesAgree, Fetched, run_cycle
  PROVE  IF TakesEffect THEN single!Instruct
         ELSE UNCHANGED <<memoryVars, registers, InstructionPc, thrown>>
<1>1. CASE FetchFault
  BY <1>1, FetchFaultImplements
<1>2. CASE DecodeUnsupported \/ ExecuteUnsupported \/ ExecuteEnd
  BY <1>2, ThrowImplements
<1>3. CASE (MemoryAccess /\ IsStore) \/ MemoryAccessFault
  BY <1>3, StoreImplements
<1>4. CASE WriteBack /\ ~IsStore
  BY <1>4, RetireImplements
<1>5. CASE \/ Fetch \/ Decode \/ ExecuteAlu \/ ExecuteBranch \/ ExecuteJump
           \/ MemoryAccess /\ ~IsStore
           \/ WriteBack /\ IsStore
  BY <1>5, StageStutters
<1> QED
  BY <1>1, <1>2, <1>3, <1>4, <1>5 DEF run_cycle
=============================================================================
