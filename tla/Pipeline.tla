------------------------------ MODULE Pipeline ------------------------------
(***************************************************************************)
(* Pipeline::run_cycle, one action per stage and per way the stage ends.   *)
(* The stages of a cycle run one after the other; what they hand on is     *)
(* kept in the stage objects, and survives a cycle that throws.  Each      *)
(* latch stands for the producer's result and the copies set_... makes of  *)
(* it just before a consumer runs.                                         *)
(***************************************************************************)
EXTENDS Machine

VARIABLES
  stage,                 \* the stage run_cycle calls next
  fetched_instruction,
  decoded_instruction,   \* the variant: its format and its word
  exec_result,           \* ExecutionResult
  mem_result             \* MemoryAccessResult; load_data is an optional, a set here

latches == <<fetched_instruction, decoded_instruction, exec_result, mem_result>>
pipelineVars == <<memoryVars, registers, pc, stage, latches, thrown>>

Stage == {"fetch", "decode", "execute", "memory_access", "write_back"}
Exception == {"PageFault", "AccessViolation", "OutOfRange", "invalid_argument",
              "EndOfProgram"}

ExecutionResult == [alu_result : Word, branch_taken : BOOLEAN, branch_target : Address]
MemoryAccessResult == [load_data : SUBSET Word, store_success : BOOLEAN]
NoMemoryAccess == [load_data |-> {}, store_success |-> FALSE]

\* alu_result has no initializer: garbage is what the build leaves there.
PipelineInit(garbage) ==
  /\ stage = "fetch"
  /\ fetched_instruction = ZeroWord
  /\ decoded_instruction = [format |-> "INIVALID_TYPE", word |-> ZeroWord]
  /\ exec_result = [alu_result |-> garbage, branch_taken |-> FALSE, branch_target |-> 0]
  /\ mem_result = NoMemoryAccess
  /\ thrown = "none"

At(s) == stage = s /\ thrown = "none"
Goto(s) == stage' = s /\ UNCHANGED thrown
Throw(e) == thrown' = e /\ stage' = "fetch"

inst == Fields[decoded_instruction.word]
EffectiveAddress == Value(exec_result.alu_result)

-----------------------------------------------------------------------------
Fetch ==
  /\ At("fetch")
  /\ WordOutcome(pc, FALSE) = "ok"
  /\ fetched_instruction' = WordAt(pc)
  /\ pc' = NextPc(pc)
  /\ Goto("decode")
  /\ UNCHANGED <<memoryVars, registers, decoded_instruction, exec_result, mem_result>>

\* Mutant: the pc moves on although nothing was fetched.
FetchFaultAdvancing ==
  /\ At("fetch")
  /\ WordOutcome(pc, FALSE) # "ok"
  /\ pc' = NextPc(pc)
  /\ Throw(WordOutcome(pc, FALSE))
  /\ UNCHANGED <<memoryVars, registers, latches>>

FetchFault ==
  /\ At("fetch")
  /\ WordOutcome(pc, FALSE) # "ok"
  /\ Throw(WordOutcome(pc, FALSE))
  /\ UNCHANGED <<memoryVars, registers, pc, latches>>

\* Mutant: the variant is only replaced when the format changes.
DecodeNewFormat ==
  /\ At("decode")
  /\ Fields[fetched_instruction].opcode \in Format
  /\ decoded_instruction' =
       IF decoded_instruction.format = Fields[fetched_instruction].opcode
       THEN decoded_instruction
       ELSE [format |-> Fields[fetched_instruction].opcode, word |-> fetched_instruction]
  /\ Goto("execute")
  /\ UNCHANGED <<memoryVars, registers, pc, fetched_instruction, exec_result, mem_result>>

Decode ==
  /\ At("decode")
  /\ Fields[fetched_instruction].opcode \in Format
  /\ decoded_instruction' =
       [format |-> Fields[fetched_instruction].opcode, word |-> fetched_instruction]
  /\ Goto("execute")
  /\ UNCHANGED <<memoryVars, registers, pc, fetched_instruction, exec_result, mem_result>>

DecodeUnsupported ==
  /\ At("decode")
  /\ Fields[fetched_instruction].opcode \notin Format
  /\ Throw("invalid_argument")
  /\ UNCHANGED <<memoryVars, registers, pc, latches>>

-----------------------------------------------------------------------------
\* The execute stage updates only the fields of its result that the format
\* sets; the others keep what an earlier instruction left.
ExecuteOnly == UNCHANGED <<memoryVars, registers, pc, fetched_instruction,
                           decoded_instruction, mem_result>>

ExecuteAlu ==
  /\ At("execute")
  /\ ComputesAlu(inst)
  /\ exec_result' = [exec_result EXCEPT !.alu_result = AluOf(inst, registers)]
  /\ Goto("memory_access")
  /\ ExecuteOnly

ExecuteBranch ==
  /\ At("execute")
  /\ Branches(inst)
  /\ LET taken == BranchTaken(inst, registers) IN
     exec_result' = [exec_result EXCEPT !.branch_taken = taken,
                       !.branch_target = IF taken THEN Value(inst.imm) ELSE 0]
  /\ Goto("memory_access")
  /\ ExecuteOnly

\* Mutant: the target is a signed difference.
JumpedBack == [exec_result EXCEPT !.branch_taken = TRUE,
                                  !.branch_target = pc - Value(inst.imm)]

Jumped == [exec_result EXCEPT !.branch_taken = TRUE,
                              !.branch_target = Wrap(pc + Value(inst.imm))]

\* Mutant: every jump that links nothing ends the program.
JumpsPlainly == inst.opcode = "J_TYPE" /\ inst.rd = 0

\* The target equals the pc, which the fetch has already advanced.
JumpsToSelf == inst.opcode = "J_TYPE" /\ Jumped.branch_target = pc

ExecuteJump ==
  /\ At("execute")
  /\ inst.opcode = "J_TYPE"
  /\ ~JumpsToSelf
  /\ exec_result' = Jumped
  /\ Goto("memory_access")
  /\ ExecuteOnly

ExecuteEnd ==
  /\ At("execute")
  /\ JumpsToSelf
  /\ exec_result' = Jumped
  /\ Throw("EndOfProgram")
  /\ ExecuteOnly

ExecuteUnsupported ==
  /\ At("execute")
  /\ Unsupported(inst)
  /\ Throw("invalid_argument")
  /\ UNCHANGED <<memoryVars, registers, pc, latches>>

-----------------------------------------------------------------------------
\* A load asks for the I format with opcode LOAD, a store for the S format.
\* Both access a word whatever funct3 says.
IsLoad == decoded_instruction.format = "I_TYPE" /\ inst.opcode = "LOAD"
IsStore == decoded_instruction.format = "S_TYPE"

\* Mutant: a fault is swallowed.
NeverFaults == "ok"

AccessOutcome ==
  IF IsLoad \/ IsStore THEN WordOutcome(EffectiveAddress, IsStore) ELSE "ok"

Store == memory' = IF IsStore THEN Written(EffectiveAddress, registers[inst.rs2]) ELSE memory

MemoryAccess ==
  /\ At("memory_access")
  /\ AccessOutcome = "ok"
  /\ Store
  /\ mem_result' = [load_data |-> IF IsLoad THEN {WordAt(EffectiveAddress)} ELSE {},
                    store_success |-> IsStore]
  /\ Goto("write_back")
  /\ UNCHANGED <<entries, privilege_mode, registers, pc, fetched_instruction,
                 decoded_instruction, exec_result>>

MemoryAccessFault ==
  /\ At("memory_access")
  /\ AccessOutcome # "ok"
  /\ Store
  /\ mem_result' = NoMemoryAccess
  /\ Throw(AccessOutcome)
  /\ UNCHANGED <<entries, privilege_mode, registers, pc, fetched_instruction,
                 decoded_instruction, exec_result>>

\* Mutant: the U format is forgotten.
WritingWithoutUpper == {"R_TYPE", "I_TYPE", "J_TYPE"}
WritingFormats == {"R_TYPE", "I_TYPE", "U_TYPE", "J_TYPE"}

\* What there is for rd: the word a load has found, if any, or alu_result, for
\* jumps too, although the execute stage gave them none.
Results ==
  IF IsLoad THEN mem_result.load_data
  ELSE IF decoded_instruction.format \in WritingFormats THEN {exec_result.alu_result}
  ELSE {}

\* Mutant: x0 is not excepted, and the register bank refuses it.
WritesAnyRegister == Results # {}

\* No format hands x0 to the register bank.
WritesRegister == Results # {} /\ inst.rd # 0

WriteBack ==
  /\ At("write_back")
  /\ registers' = IF WritesRegister THEN WithRegister(inst.rd, CHOOSE w \in Results : TRUE)
                                    ELSE registers
  /\ thrown' = IF WritesRegister THEN WriteThrows(inst.rd) ELSE "none"
  /\ stage' = "fetch"
  /\ UNCHANGED <<memoryVars, pc, latches>>

run_cycle ==
  \/ Fetch \/ FetchFault
  \/ Decode \/ DecodeUnsupported
  \/ ExecuteAlu \/ ExecuteBranch \/ ExecuteJump \/ ExecuteEnd \/ ExecuteUnsupported
  \/ MemoryAccess \/ MemoryAccessFault
  \/ WriteBack

PipelineTypeOK ==
  /\ MachineTypeOK
  /\ stage \in Stage
  /\ fetched_instruction \in Word
  /\ decoded_instruction \in [format : Format \cup {"INIVALID_TYPE"}, word : Word]
  /\ exec_result \in ExecutionResult
  /\ mem_result \in MemoryAccessResult
  /\ thrown \in Exception \cup {"none"}

-----------------------------------------------------------------------------
\* The stages of a cycle speak of one instruction: what was fetched is still
\* what memory holds before the pc, what was decoded is what was fetched, and
\* the result handed on, branch fields of a branch or jump included, is this
\* instruction's, computed from registers nobody has changed since.  Latches
\* that outlive a cycle never leak into the next.
LatchesAgree ==
  /\ stage \in {"decode", "execute", "memory_access"} =>
       fetched_instruction = WordAt(Wrap(pc - 4))
  /\ stage \in {"execute", "memory_access", "write_back"} =>
       /\ decoded_instruction.word = fetched_instruction
       /\ decoded_instruction.format = inst.opcode
       /\ ~IsLoad
  /\ stage \in {"memory_access", "write_back"} =>
       /\ ~Unsupported(inst)
       /\ ComputesAlu(inst) => exec_result.alu_result = AluOf(inst, registers)
       /\ Branches(inst) => exec_result.branch_taken = BranchTaken(inst, registers)
       /\ inst.opcode = "J_TYPE" => exec_result = Jumped

-----------------------------------------------------------------------------
(* The pipeline seen as a machine that carries out an instruction in one   *)
(* step.  Its pc runs ahead of the instruction from the fetch on; a store  *)
(* takes effect when the memory stage writes it, everything else at write  *)
(* back or where it throws.                                                *)

StoreDone == stage = "write_back" /\ IsStore

\* Where the instruction under way was fetched, until it has taken effect.
InstructionPc == IF stage = "fetch" \/ StoreDone THEN pc ELSE Wrap(pc - 4)

single == INSTANCE InstructionSet WITH pc <- InstructionPc
=============================================================================
