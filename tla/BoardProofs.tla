----------------------------- MODULE BoardProofs -----------------------------
(***************************************************************************)
(* The board for every machine a session can build, every page table and   *)
(* mode, and every order of its calls.  While no cycle is under way the    *)
(* pipeline rests at fetch, so what the session changes between cycles     *)
(* never meets an instruction half done; during a cycle only run_cycle     *)
(* steps.                                                                  *)
(***************************************************************************)
EXTENDS Board, PipelineProofs

\* The machines a session starts with have the types.
LEMMA InitType == Init => TypeOK
<1> SUFFICES ASSUME Init PROVE TypeOK
  OBVIOUS
<1>1. PICK s \in SetUps : /\ memory = s[1].memory
                          /\ entries = s[2]
                          /\ privilege_mode = s[1].privilege_mode
                          /\ registers = s[1].registers
                          /\ pc = s[1].pc
  BY DEF Init, HostInit
<1>2. MachineTypeOK
  BY <1>1, SetUpsAssumption DEF SetUp, MachineTypeOK, MemoryTypeOK
<1>3. PICK garbage \in Garbage : PipelineInit(garbage)
  BY DEF Init
<1>4. 0 \in Address
  BY WordModPositive DEF Address
<1>5. PipelineTypeOK
  BY <1>2, <1>3, <1>4, ZeroWordType, BoardGarbageAssumption
  DEF PipelineInit, PipelineTypeOK, Stage, ExecutionResult, MemoryAccessResult, NoMemoryAccess
<1>6. cycling = FALSE /\ calls = 0 /\ thrown = "none"
  BY DEF Init, HostInit
<1>7. calls \in 0 .. MaxCalls
  BY <1>6, BoardHostAssumption
<1>8. stage = "fetch"
  BY <1>3 DEF PipelineInit
<1> QED
  BY <1>5, <1>6, <1>7, <1>8 DEF TypeOK

LEMMA HostCallType ==
  ASSUME TypeOK, HostCall, UNCHANGED <<stage, latches>>
  PROVE  TypeOK'
<1> USE DEF TypeOK, PipelineTypeOK, MachineTypeOK, MemoryTypeOK, Between, latches
<1>0. /\ calls < MaxCalls => calls + 1 \in 0 .. MaxCalls
      /\ \A w \in Data : w \in Word /\ w[0] \in Byte
  BY BoardHostAssumption DEF Word, ByteIndex
<1>1. ASSUME NEW addition \in Additions, AddEntry(addition[1], addition[2]) PROVE TypeOK'
  <2>1. addition[1] \in Address /\ addition[2] \in PageTableEntry
    BY BoardHostAssumption
  <2>2. entries' \in [DOMAIN entries' -> PageTableEntry] /\ DOMAIN entries' \subseteq Address
    BY <1>1, <2>1 DEF AddEntry
  <2> QED
    BY <1>0, <1>1, <2>2 DEF AddEntry
<1>2. ASSUME NEW mode \in PrivilegeMode, SetPrivilegeMode(mode) PROVE TypeOK'
  BY <1>0, <1>2 DEF SetPrivilegeMode
<1>3. ASSUME NEW va \in Addresses, SetPc(va) PROVE TypeOK'
  BY <1>0, <1>3, BoardHostAssumption DEF SetPc, memoryVars
<1>4. ASSUME NEW reg \in Reg, NEW w \in Data, WriteRegister(reg, w) PROVE TypeOK'
  BY <1>0, <1>4, WithRegisterType DEF WriteRegister, memoryVars
<1>5. ASSUME NEW va \in Addresses, NEW w \in Data, WriteWord(va, w) PROVE TypeOK'
  <2>1. memory' \in [0 .. MemorySize - 1 -> Byte]
    BY <1>0, <1>5, WrittenType DEF WriteWord, Word
  <2> QED
    BY <1>0, <1>5, <2>1 DEF WriteWord
<1>6. ASSUME NEW pa \in Addresses, NEW w \in Data, WritePhysical(pa, w[0]) PROVE TypeOK'
  <2>1. memory' \in [0 .. MemorySize - 1 -> Byte]
    BY <1>0, <1>6 DEF WritePhysical
  <2> QED
    BY <1>0, <1>6, <2>1 DEF WritePhysical
<1> QED
  BY <1>1, <1>2, <1>3, <1>4, <1>5, <1>6 DEF HostCall

LEMMA NextType == TypeOK /\ [Next]_vars => TypeOK'
<1> SUFFICES ASSUME TypeOK, [Next]_vars PROVE TypeOK'
  OBVIOUS
<1>1. CASE HostCall /\ UNCHANGED <<stage, latches>>
  BY <1>1, HostCallType
<1>2. CASE RunCycle /\ UNCHANGED <<stage, latches>>
  BY <1>2
  DEF RunCycle, TypeOK, PipelineTypeOK, MachineTypeOK, MemoryTypeOK, memoryVars, latches
<1>3. CASE Cycle
  <2>1. PipelineTypeOK'
    BY <1>3, CycleType DEF Cycle, TypeOK
  <2> QED
    BY <1>3, <2>1, CycleEnds DEF Cycle, TypeOK
<1>4. CASE UNCHANGED vars
  BY <1>4
  DEF vars, pipelineVars, memoryVars, latches, TypeOK, PipelineTypeOK, MachineTypeOK, MemoryTypeOK
<1> QED
  BY <1>1, <1>2, <1>3, <1>4 DEF Next, Session

\* No session, and no program it runs, leaves the types.
THEOREM TypeCorrect == Spec => []TypeOK
BY InitType, NextType, PTL DEF Spec

-----------------------------------------------------------------------------
\* The session moves the pc, maps pages and writes memory only between
\* instructions.
LEMMA SessionRests ==
  ASSUME TypeOK, Session
  PROVE  stage = "fetch" /\ stage' = "fetch" /\ ~cycling
BY DEF TypeOK, Session, HostCall, RunCycle, Between, AddEntry, SetPrivilegeMode, SetPc,
       WriteRegister, WriteWord, WritePhysical

\* All stages of a cycle work on one instruction, under any mapping and mode
\* and from any pc.
THEOREM OneInstruction == Spec => []LatchesAgree
<1>1. Init => LatchesAgree
  BY DEF Init, PipelineInit, LatchesAgree
<1>2. TypeOK /\ LatchesAgree /\ [Next]_vars => LatchesAgree'
  <2> SUFFICES ASSUME TypeOK, LatchesAgree, [Next]_vars PROVE LatchesAgree'
    OBVIOUS
  <2>1. CASE Session
    BY <2>1, SessionRests DEF LatchesAgree
  <2>2. CASE Cycle
    BY <2>2, CycleLatches DEF Cycle, TypeOK
  <2>3. CASE UNCHANGED vars
    BY <2>3, SameLatches DEF vars
  <2> QED
    BY <2>1, <2>2, <2>3 DEF Next
<1> QED
  BY <1>1, <1>2, TypeCorrect, PTL DEF Spec

-----------------------------------------------------------------------------
\* A write of a register leaves x0 alone.
LEMMA WithRegisterZero == \A rd, v : WithRegister(rd, v)[0] = registers[0]
BY DEF WithRegister

\* x0 reads as zero, whoever wrote to it.
THEOREM ZeroRegister == Spec => []X0Zero
<1>1. Init => X0Zero
  BY SetUpsAssumption DEF Init, HostInit, X0Zero
<1>2. X0Zero /\ [Next]_vars => X0Zero'
  <2> SUFFICES ASSUME X0Zero, [Next]_vars PROVE X0Zero'
    OBVIOUS
  <2>1. CASE Session
    BY <2>1, WithRegisterZero
    DEF X0Zero, Session, HostCall, RunCycle, AddEntry, SetPrivilegeMode, SetPc, WriteRegister,
        WriteWord, WritePhysical
  <2>2. CASE WriteBack
    BY <2>2, WriteBackEffect, WithRegisterZero DEF X0Zero
  <2>3. CASE UNCHANGED registers
    BY <2>3 DEF X0Zero
  <2> QED
    BY <2>1, <2>2, <2>3
    DEF Next, Cycle, run_cycle, Fetch, FetchFault, Decode, DecodeUnsupported, ExecuteAlu,
        ExecuteBranch, ExecuteJump, ExecuteEnd, ExecuteUnsupported, ExecuteOnly, MemoryAccess,
        MemoryAccessFault, vars, pipelineVars
<1> QED
  BY <1>1, <1>2, PTL DEF Spec

-----------------------------------------------------------------------------
\* What the memory stage stores, and where.
LEMMA StoreOperands ==
  ASSUME PipelineTypeOK
  PROVE  /\ EffectiveAddress \in Address
         /\ registers[inst.rs2] \in Word
         /\ DOMAIN registers[inst.rs2] \subseteq ByteIndex
<1>1. exec_result.alu_result \in Word /\ inst.rs2 \in Reg
  BY FieldsType DEF PipelineTypeOK, ExecutionResult, inst, Instruction
<1>2. registers[inst.rs2] \in Word
  BY <1>1 DEF PipelineTypeOK, MachineTypeOK
<1> QED
  BY <1>1, <1>2, ValueType DEF EffectiveAddress, Word

\* Only a store changes memory during a cycle.
LEMMA CycleMemory ==
  ASSUME TypeOK, [Next]_vars, cycling, memory' # memory
  PROVE  /\ IsStore
         /\ memory' = Written(EffectiveAddress, registers[inst.rs2])
         /\ MemoryAccess \/ MemoryAccessFault
<1>1. ~Session
  BY SessionRests
<1>2. MemoryAccess \/ MemoryAccessFault
  BY <1>1, WriteBackEffect
  DEF Next, Cycle, run_cycle, Fetch, FetchFault, Decode, DecodeUnsupported, ExecuteAlu,
      ExecuteBranch, ExecuteJump, ExecuteEnd, ExecuteUnsupported, ExecuteOnly,
      vars, pipelineVars, memoryVars
<1> QED
  BY <1>2 DEF MemoryAccess, MemoryAccessFault, Store

\* No program writes outside what the mode of the moment may write, however
\* the session remaps pages between its instructions.
THEOREM Isolation == Spec => CyclesStayInside
<1> DEFINE Inside == cycling => \A pa \in DOMAIN memory : memory'[pa] # memory[pa] => WritableAt(pa)
<1>1. TypeOK /\ [Next]_vars => [Inside]_vars
  <2> SUFFICES ASSUME TypeOK, [Next]_vars, cycling,
                      NEW pa \in DOMAIN memory, memory'[pa] # memory[pa]
               PROVE  WritableAt(pa)
    OBVIOUS
  <2> QED
    BY CycleMemory, StoreOperands, WrittenInside DEF TypeOK, PipelineTypeOK, MachineTypeOK
<1> QED
  BY <1>1, TypeCorrect, PTL DEF Spec, CyclesStayInside

\* A store that throws is whole or absent, unless its word leaves its page or
\* memory ends.
THEOREM TornStores == Spec => TornStoreAtBoundary
<1> DEFINE Torn == cycling /\ thrown' # "none" /\ memory' # memory =>
                     \/ PageNumber(EffectiveAddress) # PageNumber(Wrap(EffectiveAddress + 3))
                     \/ PhysicalAddress(EffectiveAddress) + 3 \notin DOMAIN memory
<1>1. TypeOK /\ [Next]_vars => [Torn]_vars
  <2> SUFFICES ASSUME TypeOK, [Next]_vars, cycling, thrown' # "none", memory' # memory,
                      PageNumber(EffectiveAddress) = PageNumber(Wrap(EffectiveAddress + 3))
               PROVE  PhysicalAddress(EffectiveAddress) + 3 \notin DOMAIN memory
    OBVIOUS
  <2>1. IsStore /\ Written(EffectiveAddress, registers[inst.rs2]) # memory /\ MemoryAccessFault
    BY CycleMemory DEF MemoryAccess, At, Goto
  <2>2. WordOutcome(EffectiveAddress, TRUE) # "ok"
    BY <2>1 DEF MemoryAccessFault, AccessOutcome
  <2> QED
    BY <2>1, <2>2, StoreOperands, TornWord DEF TypeOK, PipelineTypeOK, MachineTypeOK
<1> QED
  BY <1>1, TypeCorrect, PTL DEF Spec, TornStoreAtBoundary

\* A store that retires can be read back.
THEOREM StoresReadBack == Spec => []StoreReadsBack
<1>1. Init => StoreReadsBack
  BY DEF Init, PipelineInit, StoreReadsBack
<1>2. TypeOK /\ StoreReadsBack /\ [Next]_vars => StoreReadsBack'
  <2> SUFFICES ASSUME TypeOK, StoreReadsBack, [Next]_vars PROVE StoreReadsBack'
    OBVIOUS
  <2>1. CASE Session
    BY <2>1, SessionRests DEF StoreReadsBack
  <2>2. CASE MemoryAccess
    <3>1. /\ UNCHANGED <<entries, registers, exec_result, decoded_instruction>>
          /\ inst' = inst /\ IsStore' = IsStore /\ EffectiveAddress' = EffectiveAddress
      BY <2>2 DEF MemoryAccess, inst, IsStore, EffectiveAddress
    <3> SUFFICES ASSUME IsStore
                 PROVE  /\ mem_result'.store_success
                        /\ \A i \in ByteIndex :
                             memory'[PhysicalAddress(Wrap(EffectiveAddress + i))]
                               = registers[inst.rs2][i]
      BY <3>1 DEF StoreReadsBack, PhysicalAddress, get_entry
    <3>2. /\ mem_result'.store_success
          /\ memory' = Written(EffectiveAddress, registers[inst.rs2])
          /\ WordOutcome(EffectiveAddress, TRUE) = "ok"
      BY <2>2 DEF MemoryAccess, Store, AccessOutcome
    <3> QED
      BY <3>2, StoreOperands, WrittenLands DEF TypeOK, PipelineTypeOK, MachineTypeOK
  <2>3. CASE Cycle /\ ~MemoryAccess
    <3>1. stage' # "write_back"
      BY <2>3, WriteBackEffect
      DEF Cycle, run_cycle, Fetch, FetchFault, Decode, DecodeUnsupported, ExecuteAlu,
          ExecuteBranch, ExecuteJump, ExecuteEnd, ExecuteUnsupported, MemoryAccessFault,
          Goto, Throw
    <3> QED
      BY <3>1 DEF StoreReadsBack
  <2>4. CASE UNCHANGED vars
    <3>1. /\ UNCHANGED <<memoryVars, registers, stage, exec_result, mem_result>>
          /\ inst' = inst /\ IsStore' = IsStore /\ EffectiveAddress' = EffectiveAddress
      BY <2>4 DEF vars, pipelineVars, latches, inst, IsStore, EffectiveAddress
    <3>2. \A a : /\ ByteOutcome(a, FALSE)' = ByteOutcome(a, FALSE)
                 /\ PhysicalAddress(a)' = PhysicalAddress(a)
      BY <3>1 DEF memoryVars, ByteOutcome, translate_address, HasEntry, get_entry, Grants,
                  Right, PhysicalAddress
    <3> QED
      BY <3>1, <3>2 DEF StoreReadsBack, memoryVars
  <2> QED
    BY <2>1, <2>2, <2>3, <2>4 DEF Next, Cycle, run_cycle
<1> QED
  BY <1>1, <1>2, TypeCorrect, PTL DEF Spec

-----------------------------------------------------------------------------
(* Board implements BoardISA.                                              *)

\* An instruction under way stays fetched, since the session changes memory
\* and page table only between instructions.
LEMMA FetchedAlways == Spec => []Fetched
<1>1. Init => Fetched
  BY DEF Init, PipelineInit, Fetched
<1>2. TypeOK /\ LatchesAgree /\ Fetched /\ [Next]_vars => Fetched'
  <2> SUFFICES ASSUME TypeOK, LatchesAgree, Fetched, [Next]_vars PROVE Fetched'
    OBVIOUS
  <2>1. CASE Session
    BY <2>1, SessionRests DEF Fetched
  <2>2. CASE Cycle
    BY <2>2, CycleFetched DEF Cycle, TypeOK
  <2>3. CASE UNCHANGED vars
    BY <2>3, SameFetched DEF vars
  <2> QED
    BY <2>1, <2>2, <2>3 DEF Next
<1> QED
  BY <1>1, <1>2, TypeCorrect, OneInstruction, PTL DEF Spec

\* The machine under BoardISA is the one the pipeline is seen as: the operators
\* of the two instances have the same definitions.
LEMMA SameInstruct == single!Instruct => isa!Instruct
<1>1. \A a, w : isa!WordOutcome(a, w) = single!WordOutcome(a, w)
  BY DEF single!WordOutcome, isa!WordOutcome, single!ReachesByte, isa!ReachesByte,
         single!ByteOutcome, isa!ByteOutcome, single!translate_address, isa!translate_address,
         single!HasEntry, isa!HasEntry, single!get_entry, isa!get_entry, single!is_valid,
         isa!is_valid, single!Grants, isa!Grants, single!Right, isa!Right,
         single!PhysicalAddress, isa!PhysicalAddress, single!get_physical_address,
         isa!get_physical_address, single!PageNumber, isa!PageNumber, single!Wrap, isa!Wrap,
         single!WordMod, isa!WordMod, single!ByteIndex, isa!ByteIndex
<1>2. \A a : isa!WordAt(a) = single!WordAt(a)
  BY DEF single!WordAt, isa!WordAt, single!get_entry, isa!get_entry,
         single!PhysicalAddress, isa!PhysicalAddress, single!get_physical_address,
         isa!get_physical_address, single!PageNumber, isa!PageNumber, single!Wrap, isa!Wrap,
         single!WordMod, isa!WordMod, single!ByteIndex, isa!ByteIndex
<1>3. \A a, bytes : isa!Written(a, bytes) = single!Written(a, bytes)
  BY DEF single!Written, isa!Written, single!ReachesByte, isa!ReachesByte,
         single!ByteOutcome, isa!ByteOutcome, single!translate_address, isa!translate_address,
         single!HasEntry, isa!HasEntry, single!get_entry, isa!get_entry, single!is_valid,
         isa!is_valid, single!Grants, isa!Grants, single!Right, isa!Right,
         single!PhysicalAddress, isa!PhysicalAddress, single!get_physical_address,
         isa!get_physical_address, single!PageNumber, isa!PageNumber, single!Wrap, isa!Wrap,
         single!WordMod, isa!WordMod
<1>4. /\ isa!ZeroWord = single!ZeroWord /\ isa!Word = single!Word /\ isa!Format = single!Format
      /\ \A p : isa!NextPc(p) = single!NextPc(p)
      /\ \A w : isa!Value(w) = single!Value(w)
      /\ \A i : /\ isa!ComputesAlu(i) = single!ComputesAlu(i)
                /\ isa!Branches(i) = single!Branches(i)
                /\ isa!Unsupported(i) = single!Unsupported(i)
      /\ \A i, regs : isa!AluOf(i, regs) = single!AluOf(i, regs)
      /\ \A rd, v : isa!WithRegister(rd, v) = single!WithRegister(rd, v)
  BY DEF single!ZeroWord, isa!ZeroWord, single!Word, isa!Word, single!Format,
         isa!Format, single!NextPc, isa!NextPc, single!Value, isa!Value, single!ComputesAlu,
         isa!ComputesAlu, single!Branches, isa!Branches, single!Unsupported, isa!Unsupported,
         single!AluOf, isa!AluOf, single!WithRegister, isa!WithRegister, single!Wrap, isa!Wrap,
         single!WordMod, isa!WordMod, single!ByteIndex, isa!ByteIndex, single!Byte, isa!Byte
<1>5. isa!here = single!here /\ isa!Fetchable = single!Fetchable
  BY <1>1, <1>2 DEF single!here, isa!here, single!Fetchable, isa!Fetchable
<1>6. /\ single!Compute => isa!Compute
      /\ single!Jump => isa!Jump
      /\ single!Branch => isa!Branch
      /\ single!EndOfProgram => isa!EndOfProgram
      /\ single!Illegal => isa!Illegal
  BY <1>4, <1>5
  DEF single!Compute, isa!Compute, single!Jump, isa!Jump, single!Branch, isa!Branch,
      single!EndOfProgram, isa!EndOfProgram, single!Illegal, isa!Illegal
<1>7. single!StoreWord => isa!StoreWord
  BY <1>1, <1>3, <1>4, <1>5 DEF single!StoreWord, isa!StoreWord
<1>8. single!FetchTrap => isa!FetchTrap
  BY <1>1, <1>5 DEF single!FetchTrap, isa!FetchTrap, single!memoryVars, isa!memoryVars
<1>9. single!Retire => isa!Retire
  BY <1>4, <1>5, <1>6, <1>7 DEF single!Retire, isa!Retire
<1> QED
  BY <1>8, <1>9 DEF single!Instruct, isa!Instruct

LEMMA HostWritten == \A va, bytes : isa!Written(va, bytes) = Written(va, bytes)
BY DEF isa!Written, isa!ReachesByte, isa!ByteOutcome, isa!translate_address, isa!HasEntry,
       isa!get_entry, isa!is_valid, isa!Grants, isa!Right, isa!PhysicalAddress,
       isa!get_physical_address, isa!PageNumber, isa!Wrap, isa!WordMod,
       Written, ReachesByte, ByteOutcome, translate_address, HasEntry, get_entry, is_valid,
       Grants, Right, PhysicalAddress, get_physical_address, PageNumber, Wrap, WordMod

LEMMA SameModes == isa!PrivilegeMode = PrivilegeMode /\ isa!Reg = Reg
BY DEF isa!PrivilegeMode, isa!Reg, PrivilegeMode, Reg

LEMMA SameWithRegister == \A rd, v : isa!WithRegister(rd, v) = WithRegister(rd, v)
BY DEF isa!WithRegister, WithRegister

\* The session's calls are the abstract session's.
LEMMA SessionImplements ==
  ASSUME TypeOK, Session
  PROVE  isa!HostCall \/ isa!RunCycle
<1>1. /\ InstructionPc = pc /\ InstructionPc' = pc'
      /\ Pending = cycling /\ Pending' = cycling'
  <2>1. stage = "fetch" /\ stage' = "fetch"
    BY SessionRests
  <2>2. ~StoreDone /\ ~StoreDone'
    BY <2>1 DEF StoreDone
  <2>3. cycling \in BOOLEAN /\ cycling' \in BOOLEAN
    BY NextType DEF TypeOK, Next
  <2>4. Pending = cycling /\ Pending' = cycling'
    BY <2>2, <2>3 DEF Pending
  <2> QED
    BY <2>1, <2>4 DEF InstructionPc
<1>2. CASE RunCycle
  BY <1>1, <1>2 DEF RunCycle, isa!RunCycle, memoryVars, isa!memoryVars
<1>3. CASE HostCall
  <2> USE DEF Between, isa!Between, memoryVars, isa!memoryVars
  <2>1. ASSUME NEW addition \in Additions, AddEntry(addition[1], addition[2])
        PROVE  isa!HostCall
    <3>1. isa!AddEntry(addition[1], addition[2])
      BY <1>1, <2>1 DEF AddEntry, isa!AddEntry
    <3> QED
      BY <3>1 DEF isa!HostCall
  <2>2. ASSUME NEW mode \in PrivilegeMode, SetPrivilegeMode(mode) PROVE isa!HostCall
    <3>1. isa!SetPrivilegeMode(mode)
      BY <1>1, <2>2 DEF SetPrivilegeMode, isa!SetPrivilegeMode
    <3> QED
      BY <3>1, SameModes DEF isa!HostCall
  <2>3. ASSUME NEW va \in Addresses, SetPc(va) PROVE isa!HostCall
    <3>1. isa!SetPc(va)
      BY <1>1, <2>3 DEF SetPc, isa!SetPc
    <3> QED
      BY <3>1 DEF isa!HostCall
  <2>4. ASSUME NEW reg \in Reg, NEW w \in Data, WriteRegister(reg, w) PROVE isa!HostCall
    <3>1. isa!WriteRegister(reg, w)
      BY <1>1, <2>4, SameWithRegister DEF WriteRegister, isa!WriteRegister
    <3> QED
      BY <3>1, SameModes DEF isa!HostCall
  <2>5. ASSUME NEW va \in Addresses, NEW w \in Data, WriteWord(va, w) PROVE isa!HostCall
    <3>1. isa!WriteWord(va, w)
      BY <1>1, <2>5, HostWritten DEF WriteWord, isa!WriteWord
    <3> QED
      BY <3>1 DEF isa!HostCall
  <2>6. ASSUME NEW pa \in Addresses, NEW w \in Data, WritePhysical(pa, w[0])
        PROVE  isa!HostCall
    <3>1. isa!WritePhysical(pa, w[0])
      BY <1>1, <2>6 DEF WritePhysical, isa!WritePhysical
    <3> QED
      BY <3>1 DEF isa!HostCall
  <2> QED
    BY <1>3, <2>1, <2>2, <2>3, <2>4, <2>5, <2>6 DEF HostCall
<1> QED
  BY <1>2, <1>3 DEF Session

\* The step at which an instruction takes effect is the abstract step; the
\* others do not show.
LEMMA CycleStep ==
  ASSUME TypeOK, LatchesAgree, Fetched, Cycle
  PROVE  isa!Step \/ UNCHANGED isa!hostVars
<1>1. cycling /\ UNCHANGED calls /\ (Pending' <=> stage' # "fetch" /\ ~StoreDone')
  BY DEF Cycle, Pending
<1>2. CASE TakesEffect
  <2>1. isa!Instruct
    BY <1>2, CycleImplements, SameInstruct DEF Cycle, TypeOK
  <2>2. Pending /\ Pending' = FALSE
    BY <1>1, <1>2 DEF TakesEffect, Pending
  <2> QED
    BY <1>1, <2>1, <2>2 DEF isa!Step
<1>3. CASE ~TakesEffect
  <2>1. UNCHANGED <<memoryVars, registers, InstructionPc, thrown>>
    BY <1>3, CycleImplements DEF Cycle, TypeOK
  <2>2. StoreDone => stage' = "fetch"
    BY WriteBackEffect
       DEF StoreDone, Cycle, run_cycle, Fetch, FetchFault, Decode, DecodeUnsupported, ExecuteAlu,
           ExecuteBranch, ExecuteJump, ExecuteEnd, ExecuteUnsupported, MemoryAccess,
           MemoryAccessFault, At, Goto
  <2>3. Pending' = Pending
    BY <1>1, <1>3, <2>2 DEF TakesEffect, Pending
  <2> QED
    BY <1>1, <2>1, <2>3 DEF isa!hostVars, memoryVars, isa!memoryVars
<1> QED
  BY <1>2, <1>3

\* The pipeline carries out one instruction per run_cycle, with the page table,
\* the mode, the registers and the memory the session left, and shows nothing
\* of its stages.
THEOREM Refinement == Spec => Implements
<1>1. Init => isa!HostInit
  BY DEF Init, isa!HostInit, HostInit, PipelineInit, InstructionPc, Pending, StoreDone
<1>2. TypeOK /\ LatchesAgree /\ Fetched /\ [Next]_vars => [isa!Next]_(isa!hostVars)
  <2> SUFFICES ASSUME TypeOK, LatchesAgree, Fetched, [Next]_vars
               PROVE  isa!Next \/ UNCHANGED isa!hostVars
    OBVIOUS
  <2>1. CASE Session
    BY <2>1, SessionImplements DEF isa!Next
  <2>2. CASE Cycle
    BY <2>2, CycleStep DEF isa!Next
  <2>3. CASE UNCHANGED vars
    BY <2>3 DEF vars, pipelineVars, latches, memoryVars, isa!hostVars, isa!memoryVars,
                InstructionPc, Pending, StoreDone, IsStore
  <2> QED
    BY <2>1, <2>2, <2>3 DEF Next
<1> QED
  BY <1>1, <1>2, TypeCorrect, OneInstruction, FetchedAlways, PTL DEF Spec, Implements, isa!Spec
=============================================================================
