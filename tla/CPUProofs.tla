------------------------------ MODULE CPUProofs ------------------------------
(***************************************************************************)
(* The CPU for every memory size, page size, register count, instruction   *)
(* encoding, arithmetic, set of program files and initial garbage: types,  *)
(* safety and the refinement of ISA.                                       *)
(*                                                                         *)
(* The inductive invariant IInv says, beside the safety properties         *)
(* themselves, that the page table is the constructor's, that the pipeline *)
(* rests at fetch whenever run() is not cycling, that a fetched word is    *)
(* readable, that an end of program was found at a jump to itself and an   *)
(* invalid_argument at an illegal word, and that a store about to retire   *)
(* can be read back.                                                       *)
(***************************************************************************)
EXTENDS CPU, PipelineProofs

\* After construction every variable has its type; the initial content of
\* alu_result is any word.
LEMMA InitType == Init => TypeOK
<1> SUFFICES ASSUME Init PROVE TypeOK
  OBVIOUS
<1>1. 0 \in Byte /\ 0 \in Address /\ ZeroWord \in Word
  BY ByteModAssumption, WordModPositive, ZeroWordType DEF Byte, Address
<1>2. 0 % PageSize = 0
  BY PageSizeAssumption
<1>3. MachineTypeOK
  BY <1>1, <1>2 DEF Init, MachineTypeOK, MemoryTypeOK, PrivilegeMode, PageTableEntry, Frame, Page0
<1>4. PICK garbage \in Garbage : PipelineInit(garbage)
  BY DEF Init
<1>5. PipelineTypeOK
  BY <1>1, <1>3, <1>4, GarbageAssumption
  DEF PipelineInit, PipelineTypeOK, Stage, ExecutionResult, MemoryAccessResult, NoMemoryAccess
<1>6. \A i \in DOMAIN file : file[i] \in Byte
  BY DEF Init, NoFile
<1>7. running \in BOOLEAN /\ reply \in Reply
  BY DEF Init, Reply
<1>8. loads \in 0 .. MaxLoads
  BY MaxLoadsAssumption DEF Init
<1> QED
  BY <1>5, <1>6, <1>7, <1>8 DEF TypeOK

LEMMA NextType == TypeOK /\ [Next]_vars => TypeOK'
<1> SUFFICES ASSUME TypeOK, [Next]_vars PROVE TypeOK'
  OBVIOUS
<1>0. PipelineTypeOK
  BY DEF TypeOK
<1> USE DEF TypeOK, PipelineTypeOK, MachineTypeOK, MemoryTypeOK
<1>1. ASSUME NEW image \in Files, load_program(image) PROVE TypeOK'
  <2>1. \A b \in DOMAIN image : image[b] \in Byte
    BY FilesAssumption
  <2>2. memory' \in [0 .. MemorySize - 1 -> Byte]
    BY <1>1, <2>1, WrittenType DEF load_program
  <2>3. pc' \in Address
    <3>1. 0 \in Address /\ pc \in Address
      BY WordModPositive DEF Address
    <3>2. PcAfterLoad(image) \in {0, pc}
      BY DEF PcAfterLoad
    <3> QED
      BY <1>1, <3>1, <3>2 DEF load_program
  <2> QED
    BY <1>1, <2>1, <2>2, <2>3, MaxLoadsAssumption DEF load_program, latches, Reply
<1>2. CASE load_unreadable
  BY <1>2, MaxLoadsAssumption DEF load_unreadable, pipelineVars, memoryVars, latches, Reply
<1>3. CASE run
  BY <1>3 DEF run, pipelineVars, memoryVars, latches, Reply
<1>4. CASE Cycle
  BY <1>4, CycleType DEF Cycle
<1>5. CASE ReturnAtEnd \/ Rethrow
  BY <1>5 DEF ReturnAtEnd, Rethrow, Leave, memoryVars, latches, Reply
<1>6. CASE UNCHANGED vars
  BY <1>6 DEF vars, pipelineVars, memoryVars, latches
<1> QED
  BY <1>1, <1>2, <1>3, <1>4, <1>5, <1>6 DEF Next

\* No sequence of loads, runs, exceptions and cycles leaves the types.
THEOREM TypeCorrect == Spec => []TypeOK
BY InitType, NextType, PTL DEF Spec

-----------------------------------------------------------------------------
OnlyPage0 == entries = [page \in {0} |-> Page0] /\ privilege_mode = "MACHINE"

Resting ==
  /\ ~running => thrown = "none"
  /\ ~running \/ thrown # "none" => stage = "fetch"

Readable(va) == ReachesByte(va, 3, FALSE)

FetchedReadable == stage # "fetch" => Readable(pc - 4)

EndFound ==
  thrown = "EndOfProgram" \/ reply = "returned" =>
    /\ pc >= 4
    /\ Readable(pc - 4)
    /\ Fields[WordAt(pc - 4)].opcode = "J_TYPE"
    /\ Fields[WordAt(pc - 4)].imm = ZeroWord

IllegalFound ==
  thrown = "invalid_argument" =>
    /\ pc >= 4
    /\ Readable(pc - 4)
    /\ \/ Fields[WordAt(pc - 4)].opcode \notin Format
       \/ Unsupported(Fields[WordAt(pc - 4)])

StoreWritten ==
  stage = "write_back" /\ IsStore =>
    /\ mem_result.store_success
    /\ Readable(EffectiveAddress)
    /\ WordAt(EffectiveAddress) = registers[inst.rs2]

ReplyAgrees == running => reply = "running"

IInv ==
  /\ TypeOK
  /\ OnlyPage0
  /\ Resting
  /\ ReplyAgrees
  /\ OutsidePageUntouched
  /\ PcInPage
  /\ FetchedReadable
  /\ LatchesAgree
  /\ EndFound
  /\ IllegalFound
  /\ StoreWritten
  /\ LoadedWhole

-----------------------------------------------------------------------------
\* With the constructor's page table an access succeeds only below the page
\* size, and its physical address is the virtual one.
LEMMA Page0Byte ==
  ASSUME OnlyPage0, NEW a \in Address, NEW is_write \in BOOLEAN,
         ByteOutcome(a, is_write) = "ok"
  PROVE  a < PageSize /\ PhysicalAddress(a) = a /\ a \in DOMAIN memory
<1>1. PageNumber(a) = 0
  BY OkByte DEF OnlyPage0
<1>2. a \in Nat
  BY WordModPositive DEF Address
<1>3. a < PageSize /\ a % PageSize = a
  BY <1>1, <1>2, PageArithmetic
<1>4. PhysicalAddress(a) = 0 + (a % PageSize)
  BY <1>1 DEF PhysicalAddress, get_entry, get_physical_address, OnlyPage0, Page0
<1> QED
  BY <1>2, <1>3, <1>4, OkByte

\* The constructor's page can be read wherever it can be written.
LEMMA Page0Symmetric ==
  ASSUME OnlyPage0, NEW a, ByteOutcome(a, TRUE) = "ok"
  PROVE  ByteOutcome(a, FALSE) = "ok"
<1>1. PageNumber(a) = 0 /\ PhysicalAddress(a) \in DOMAIN memory
  BY OkByte DEF OnlyPage0
<1>2. entries[0] = Page0 /\ 0 \in DOMAIN entries
  BY DEF OnlyPage0
<1> QED
  BY <1>1, <1>2
  DEF OnlyPage0, ByteOutcome, translate_address, HasEntry, get_entry, Grants, Right, is_valid,
      Page0, PteBit

\* A word that can be fetched lies inside page 0 and inside memory.
LEMMA FetchInside ==
  ASSUME TypeOK, OnlyPage0, pc <= PageSize, WordOutcome(pc, FALSE) = "ok"
  PROVE  /\ pc + 4 <= PageSize
         /\ pc + 4 <= MemorySize
         /\ NextPc(pc) = pc + 4
<1>1. pc \in Nat /\ pc \in Address
  BY WordModPositive DEF TypeOK, PipelineTypeOK, MachineTypeOK, Address
<1>2. ByteOutcome(Wrap(pc + 0), FALSE) = "ok" /\ ByteOutcome(Wrap(pc + 3), FALSE) = "ok"
  <2>1. 0 \in 0 .. 3 /\ 3 \in 0 .. 3
    OBVIOUS
  <2>2. ReachesByte(pc, 3, FALSE)
    BY WordReached
  <2> QED
    BY <2>1, <2>2 DEF ReachesByte
<1>3. PageSize \in Nat /\ PageSize >= 4
  BY PageSizeAssumption
<1>4. pc < PageSize
  <2>1. pc + 0 \in 0 .. PageSize + PageSize - 1
    BY <1>1, <1>3
  <2>2. Wrap(pc + 0) = pc + 0
    BY <2>1, WrapSmall
  <2>3. Wrap(pc + 0) = pc
    BY <1>1, <2>2
  <2> QED
    BY <1>1, <1>2, <2>3, Page0Byte
<1>5. Wrap(pc + 3) = pc + 3 /\ NextPc(pc) = pc + 4
  <2>1. pc + 3 \in 0 .. PageSize + PageSize - 1 /\ pc + 4 \in 0 .. PageSize + PageSize - 1
    BY <1>1, <1>3, <1>4
  <2> QED
    BY <2>1, WrapSmall DEF NextPc
<1>6. pc + 3 < PageSize /\ pc + 3 \in DOMAIN memory
  <2>1. pc + 3 \in Address
    BY <1>1, <1>5, WrapType
  <2> QED
    BY <1>2, <1>5, <2>1, Page0Byte
<1> QED
  BY <1>1, <1>3, <1>5, <1>6, MemorySizeAssumption
  DEF TypeOK, PipelineTypeOK, MachineTypeOK, MemoryTypeOK

\* Writing through page 0 never touches a byte beyond it.
LEMMA WrittenInPage ==
  ASSUME OnlyPage0, NEW va \in Int, NEW bytes, DOMAIN bytes \subseteq Nat,
         NEW pa \in DOMAIN memory, pa \in Int, pa >= PageSize
  PROVE  Written(va, bytes)[pa] = memory[pa]
<1> SUFFICES ASSUME Written(va, bytes)[pa] # memory[pa] PROVE FALSE
  OBVIOUS
<1>1. PICK i \in DOMAIN bytes : /\ ByteOutcome(Wrap(va + i), TRUE) = "ok"
                                /\ PhysicalAddress(Wrap(va + i)) = pa
  BY WrittenOnlyReached
<1>2. Wrap(va + i) \in Address
  BY WrapType
<1>3. pa < PageSize
  BY <1>1, <1>2, Page0Byte
<1> QED
  BY <1>3, PageSizeAssumption

\* A program file that is written without a fault is in memory from address 0
\* on: it does not reach the end of the page, so no byte of it lands twice.
LEMMA ImageLands ==
  ASSUME TypeOK, OnlyPage0, NEW image \in Files,
         \A i \in DOMAIN image : ReachesByte(0, i, TRUE),
         NEW i \in DOMAIN image
  PROVE  Written(0, image)[i] = image[i]
<1>1. PageSize \in Nat /\ PageSize >= 4
  BY PageSizeAssumption
<1>2. \A k \in DOMAIN image : k \in Nat /\ 0 .. k \subseteq DOMAIN image
  BY FilesAssumption
<1>3. \A k \in DOMAIN image : ByteOutcome(Wrap(0 + k), TRUE) = "ok"
  <2>1. \A k \in Nat : k \in 0 .. k
    OBVIOUS
  <2> QED
    BY <1>2, <2>1 DEF ReachesByte
<1>4. \A k \in DOMAIN image : k < PageSize
  <2> SUFFICES ASSUME NEW k \in DOMAIN image, k >= PageSize PROVE FALSE
    BY <1>1, <1>2
  <2>1. PageSize \in 0 .. k
    BY <1>1, <1>2
  <2>2. PageSize \in DOMAIN image
    BY <1>2, <2>1
  <2>3. 0 + PageSize = PageSize /\ PageSize \in 0 .. PageSize + PageSize - 1
    BY <1>1
  <2>4. Wrap(0 + PageSize) = PageSize
    BY <2>3, WrapSmall
  <2>5. PageSize \in Address
    BY <1>1, <2>4, WrapType
  <2> QED
    <3>1. ByteOutcome(Wrap(0 + PageSize), TRUE) = "ok"
      BY <1>3, <2>2
    <3>2. ByteOutcome(PageSize, TRUE) = "ok"
      BY <2>4, <3>1
    <3>3. PageSize < PageSize
      BY <2>5, <3>2, Page0Byte
    <3> QED
      BY <1>1, <3>3
<1>5. \A k \in DOMAIN image : PhysicalAddress(Wrap(0 + k)) = k /\ k \in DOMAIN memory
  <2> SUFFICES ASSUME NEW k \in DOMAIN image
               PROVE  PhysicalAddress(Wrap(0 + k)) = k /\ k \in DOMAIN memory
    OBVIOUS
  <2>1. 0 + k = k /\ k \in 0 .. PageSize + PageSize - 1
    BY <1>1, <1>2, <1>4
  <2>2. Wrap(0 + k) = k
    BY <2>1, WrapSmall
  <2>3. k \in Address
    BY <1>2, <2>2, WrapType
  <2> QED
    BY <1>3, <2>2, <2>3, Page0Byte
<1> DEFINE reached == {k \in DOMAIN image : ReachesByte(0, k, TRUE)}
           landing == {k \in reached : PhysicalAddress(Wrap(0 + k)) = i}
<1>6. landing = {i}
  BY <1>5
<1>7. Written(0, image)[i] = IF landing = {} THEN memory[i] ELSE image[CHOOSE k \in landing : TRUE]
  BY <1>5 DEF Written
<1> QED
  BY <1>6, <1>7

-----------------------------------------------------------------------------
LEMMA InitSafe == Init => IInv
<1> SUFFICES ASSUME Init PROVE IInv
  OBVIOUS
<1>1. TypeOK
  BY InitType
<1>2. PICK garbage \in Garbage : PipelineInit(garbage)
  BY DEF Init
<1>3. /\ stage = "fetch" /\ thrown = "none" /\ pc = 0 /\ running = FALSE
      /\ reply = "constructed"
      /\ memory = [pa \in 0 .. MemorySize - 1 |-> 0]
  BY <1>2 DEF Init, PipelineInit
<1>4. /\ OnlyPage0 /\ Resting /\ ReplyAgrees /\ FetchedReadable /\ EndFound /\ IllegalFound
      /\ LatchesAgree /\ StoreWritten /\ LoadedWhole
  BY <1>3 DEF Init, OnlyPage0, Resting, ReplyAgrees, FetchedReadable, EndFound, IllegalFound,
              LatchesAgree, StoreWritten, LoadedWhole
<1>5. OutsidePageUntouched
  BY <1>3 DEF OutsidePageUntouched
<1>6. PcInPage
  BY <1>3, PageSizeAssumption DEF PcInPage
<1> QED
  BY <1>1, <1>4, <1>5, <1>6 DEF IInv

\* Nothing maps a second page or changes the mode.
LEMMA Page0Step == OnlyPage0 /\ [Next]_vars => OnlyPage0'
BY WriteBackEffect
   DEF OnlyPage0, Page0, Next, load_program, load_unreadable, run, Cycle, run_cycle,
       ReturnAtEnd, Rethrow, Leave, Fetch, FetchFault, Decode, DecodeUnsupported,
       ExecuteAlu, ExecuteBranch, ExecuteJump, ExecuteEnd, ExecuteUnsupported, ExecuteOnly,
       MemoryAccess, MemoryAccessFault, vars, pipelineVars, memoryVars

\* Between two calls of run(), and once something was thrown, no cycle is
\* under way.
LEMMA RestingStep == Resting /\ ReplyAgrees /\ [Next]_vars => Resting' /\ ReplyAgrees'
<1> SUFFICES ASSUME Resting, ReplyAgrees, [Next]_vars PROVE Resting' /\ ReplyAgrees'
  OBVIOUS
<1> USE DEF Resting, ReplyAgrees
<1>1. ASSUME NEW image \in Files, load_program(image) PROVE Resting' /\ ReplyAgrees'
  BY <1>1 DEF load_program
<1>2. CASE load_unreadable
  BY <1>2 DEF load_unreadable, pipelineVars
<1>3. CASE run
  BY <1>3 DEF run, pipelineVars
<1>4. CASE Cycle
  <2>1. thrown = "none" /\ (thrown' = "none" \/ stage' = "fetch")
    BY <1>4, CycleEnds DEF Cycle
  <2> QED
    BY <1>4, <2>1 DEF Cycle
<1>5. CASE ReturnAtEnd \/ Rethrow
  BY <1>5 DEF ReturnAtEnd, Rethrow, Leave
<1>6. CASE UNCHANGED vars
  BY <1>6 DEF vars, pipelineVars
<1> QED
  BY <1>1, <1>2, <1>3, <1>4, <1>5, <1>6 DEF Next

\* Memory changes by Written alone, and that stays in page 0.
LEMMA OutsideStep ==
  TypeOK /\ OnlyPage0 /\ OutsidePageUntouched /\ [Next]_vars => OutsidePageUntouched'
<1> SUFFICES ASSUME TypeOK, OnlyPage0, OutsidePageUntouched, [Next]_vars
             PROVE  OutsidePageUntouched'
  OBVIOUS
<1>1. DOMAIN memory = 0 .. MemorySize - 1
  BY DEF TypeOK, PipelineTypeOK, MachineTypeOK, MemoryTypeOK
<1>2. ASSUME NEW va \in Int, NEW bytes, DOMAIN bytes \subseteq Nat, memory' = Written(va, bytes)
      PROVE  OutsidePageUntouched'
  <2>1. DOMAIN memory' = DOMAIN memory
    BY <1>2 DEF Written
  <2> SUFFICES ASSUME NEW pa \in DOMAIN memory, pa >= PageSize PROVE memory'[pa] = 0
    BY <2>1 DEF OutsidePageUntouched
  <2>2. memory'[pa] = memory[pa]
    BY <1>1, <1>2, WrittenInPage, MemorySizeAssumption
  <2> QED
    BY <2>2 DEF OutsidePageUntouched
<1>3. ASSUME NEW image \in Files, load_program(image) PROVE OutsidePageUntouched'
  <2>1. DOMAIN image \subseteq Nat
    BY FilesAssumption
  <2> QED
    BY <1>2, <1>3, <2>1 DEF load_program
<1>4. CASE UNCHANGED memory
  BY <1>4 DEF OutsidePageUntouched
<1>5. CASE Store
  <2>1. exec_result.alu_result \in Word
    BY DEF TypeOK, PipelineTypeOK, ExecutionResult
  <2>2. EffectiveAddress \in Int
    BY <2>1, ValueType, WordModPositive DEF EffectiveAddress, Address
  <2>3. DOMAIN registers[inst.rs2] \subseteq Nat
    <3>1. inst.rs2 \in Reg
      BY FieldsType DEF TypeOK, PipelineTypeOK, inst, Instruction
    <3>2. registers[inst.rs2] \in Word
      BY <3>1 DEF TypeOK, PipelineTypeOK, MachineTypeOK
    <3> QED
      BY <3>2 DEF Word, ByteIndex
  <2>4. CASE IsStore
    BY <1>2, <1>5, <2>2, <2>3, <2>4 DEF Store
  <2>5. CASE ~IsStore
    BY <1>4, <1>5, <2>5 DEF Store
  <2> QED
    BY <2>4, <2>5
<1> QED
  BY <1>3, <1>4, <1>5, WriteBackEffect
  DEF Next, load_unreadable, run, Cycle, run_cycle,
       ReturnAtEnd, Rethrow, Leave, Fetch, FetchFault, Decode, DecodeUnsupported,
       ExecuteAlu, ExecuteBranch, ExecuteJump, ExecuteEnd, ExecuteUnsupported, ExecuteOnly,
       MemoryAccess, MemoryAccessFault, vars, pipelineVars, memoryVars

\* The pc moves by a fetch from inside the page, or back to 0.
LEMMA PcStep ==
  TypeOK /\ OnlyPage0 /\ Resting /\ PcInPage /\ [Next]_vars => PcInPage'
<1> SUFFICES ASSUME TypeOK, OnlyPage0, Resting, PcInPage, [Next]_vars PROVE PcInPage'
  OBVIOUS
<1>1. pc \in Nat
  BY WordModPositive DEF TypeOK, PipelineTypeOK, MachineTypeOK, Address
<1>2. ASSUME NEW image \in Files, load_program(image) PROVE PcInPage'
  <2>1. pc' \in {0, pc}
    BY <1>2 DEF load_program, PcAfterLoad
  <2>2. stage' = "fetch"
    BY <1>2 DEF load_program, Resting
  <2>3. 0 % 4 = 0 /\ 0 <= PageSize
    BY PageSizeAssumption
  <2>4. (pc' % 4 = 0) /\ pc' <= PageSize
    BY <2>1, <2>3 DEF PcInPage
  <2> QED
    BY <2>2, <2>4 DEF PcInPage
<1>3. CASE Fetch
  <2>1. /\ pc + 4 <= PageSize
        /\ pc + 4 <= MemorySize
        /\ pc' = pc + 4
    BY <1>3, FetchInside DEF Fetch, PcInPage
  <2>2. (pc + 4) % 4 = 0
    BY <1>1 DEF PcInPage
  <2> QED
    BY <1>1, <2>1, <2>2 DEF PcInPage
<1>4. CASE pc' = pc /\ (stage' # "fetch" => stage # "fetch")
  BY <1>4 DEF PcInPage
<1> QED
  BY <1>2, <1>3, <1>4, WriteBackEffect
  DEF Next, load_unreadable, run, Cycle, run_cycle,
       ReturnAtEnd, Rethrow, Leave, FetchFault, Decode, DecodeUnsupported,
       ExecuteAlu, ExecuteBranch, ExecuteJump, ExecuteEnd, ExecuteUnsupported, ExecuteOnly,
       MemoryAccess, MemoryAccessFault, At, Goto, Throw, vars, pipelineVars, memoryVars

\* Which bytes can be reached depends on the page table and on the size of
\* memory, never on its contents.
LEMMA SameReadable ==
  ASSUME NEW va, UNCHANGED <<entries, privilege_mode>>, DOMAIN memory' = DOMAIN memory
  PROVE  Readable(va)' <=> Readable(va)
<1>1. \A a : ByteOutcome(a, FALSE)' = ByteOutcome(a, FALSE)
  BY DEF ByteOutcome, translate_address, HasEntry, get_entry, Grants, Right,
         PhysicalAddress
<1> QED
  BY <1>1 DEF Readable, ReachesByte

LEMMA SameDomain == TypeOK /\ [Next]_vars => DOMAIN memory' = DOMAIN memory
<1>1. TypeOK => DOMAIN memory = 0 .. MemorySize - 1
  BY DEF TypeOK, PipelineTypeOK, MachineTypeOK, MemoryTypeOK
<1>2. TypeOK' => DOMAIN memory' = 0 .. MemorySize - 1
  BY DEF TypeOK, PipelineTypeOK, MachineTypeOK, MemoryTypeOK
<1> QED
  BY <1>1, <1>2, NextType

LEMMA ReadableStep ==
  TypeOK /\ OnlyPage0 /\ Resting /\ FetchedReadable /\ PcInPage /\ [Next]_vars
    => FetchedReadable'
<1> SUFFICES ASSUME TypeOK, OnlyPage0, Resting, FetchedReadable, PcInPage, [Next]_vars
             PROVE  FetchedReadable'
  OBVIOUS
<1>1. \A va : Readable(va)' <=> Readable(va)
  <2>1. UNCHANGED <<entries, privilege_mode>>
    BY Page0Step DEF OnlyPage0
  <2> QED
    BY <2>1, SameDomain, SameReadable
<1>2. pc \in Nat
  BY WordModPositive DEF TypeOK, PipelineTypeOK, MachineTypeOK, Address
<1>3. ASSUME NEW image \in Files, load_program(image) PROVE FetchedReadable'
  BY <1>3 DEF load_program, Resting, FetchedReadable
<1>4. CASE Fetch
  <2>1. pc' = pc + 4
    BY <1>4, FetchInside DEF Fetch, PcInPage
  <2>2. Readable(pc)
    BY <1>4, WordReached DEF Fetch, Readable
  <2>3. pc' - 4 = pc
    BY <1>2, <2>1
  <2> QED
    BY <1>1, <2>2, <2>3 DEF FetchedReadable
<1>5. CASE pc' = pc /\ (stage' # "fetch" => stage # "fetch")
  BY <1>1, <1>5 DEF FetchedReadable
<1> QED
  BY <1>3, <1>4, <1>5, WriteBackEffect
  DEF Next, load_unreadable, run, Cycle, run_cycle,
       ReturnAtEnd, Rethrow, Leave, FetchFault, Decode, DecodeUnsupported,
       ExecuteAlu, ExecuteBranch, ExecuteJump, ExecuteEnd, ExecuteUnsupported, ExecuteOnly,
       MemoryAccess, MemoryAccessFault, At, Goto, Throw, vars, pipelineVars, memoryVars

LEMMA LatchesStep ==
  TypeOK /\ Resting /\ LatchesAgree /\ [Next]_vars => LatchesAgree'
<1> SUFFICES ASSUME TypeOK, Resting, LatchesAgree, [Next]_vars
             PROVE  LatchesAgree'
  OBVIOUS
<1>1. PipelineTypeOK
  BY DEF TypeOK
<1>2. CASE Cycle
  BY <1>1, <1>2, CycleLatches DEF Cycle
<1>3. CASE UNCHANGED pipelineVars
  BY <1>3, SameLatches
<1>4. CASE stage' = "fetch"
  BY <1>4 DEF LatchesAgree
<1> QED
  BY <1>2, <1>3, <1>4
  DEF Next, load_program, load_unreadable, run, Resting, ReturnAtEnd, Rethrow, Leave, vars,
      pipelineVars

\* The instruction under way is the word before the pc, which can be read.
LEMMA UnderWay ==
  ASSUME TypeOK, PcInPage, FetchedReadable, LatchesAgree, stage \in {"decode", "execute"}
  PROVE  /\ pc >= 4 /\ Readable(pc - 4)
         /\ fetched_instruction = WordAt(pc - 4)
         /\ stage = "execute" => inst = Fields[WordAt(pc - 4)]
<1>1. pc >= 4 /\ Readable(pc - 4) /\ fetched_instruction = WordAt(Wrap(pc - 4))
  BY DEF PcInPage, FetchedReadable, LatchesAgree
<1>2. pc - 4 \in 0 .. PageSize + PageSize - 1
  BY <1>1, WordModPositive, PageSizeAssumption
  DEF PcInPage, TypeOK, PipelineTypeOK, MachineTypeOK, Address
<1>3. fetched_instruction = WordAt(pc - 4)
  BY <1>1, <1>2, WrapSmall
<1> QED
  BY <1>1, <1>3 DEF LatchesAgree, inst

\* The end of a program is found at a jump to itself, which stays where it is
\* until the host loads or runs again.
LEMMA EndStep ==
  TypeOK /\ OnlyPage0 /\ Resting /\ ReplyAgrees /\ PcInPage /\ FetchedReadable
  /\ LatchesAgree /\ EndFound /\ [Next]_vars => EndFound'
<1> SUFFICES ASSUME TypeOK, OnlyPage0, Resting, ReplyAgrees, PcInPage, FetchedReadable,
                    LatchesAgree, EndFound, [Next]_vars
             PROVE  EndFound'
  OBVIOUS
<1>1. \A va : Readable(va)' <=> Readable(va)
  <2>1. UNCHANGED <<entries, privilege_mode>>
    BY Page0Step DEF OnlyPage0
  <2> QED
    BY <2>1, SameDomain, SameReadable
<1>2. ASSUME UNCHANGED <<memoryVars, pc>> PROVE WordAt(pc - 4)' = WordAt(pc - 4)
  BY <1>2 DEF memoryVars, WordAt, PhysicalAddress, get_entry
<1>3. CASE ExecuteEnd
  <2>1. /\ inst = Fields[WordAt(pc - 4)]
        /\ pc >= 4 /\ Readable(pc - 4)
    BY <1>3, UnderWay DEF ExecuteEnd, At
  <2>2. /\ UNCHANGED <<memoryVars, pc>>
        /\ inst.opcode = "J_TYPE"
        /\ Wrap(pc + Value(inst.imm)) = pc
    BY <1>3 DEF ExecuteEnd, ExecuteOnly, JumpsToSelf, Jumped, TypeOK, PipelineTypeOK,
                ExecutionResult
  <2>3. inst.imm = ZeroWord
    <3>1. inst.imm \in Word /\ pc \in Address
      BY FieldsType DEF TypeOK, PipelineTypeOK, MachineTypeOK, inst, Instruction
    <3> QED
      BY <2>2, <3>1, SelfOffset
  <2> QED
    BY <1>1, <1>2, <2>1, <2>2, <2>3 DEF EndFound
<1>4. CASE (thrown' = "EndOfProgram" \/ reply' = "returned") /\ ~ExecuteEnd
  <2>1. /\ thrown = "EndOfProgram" \/ reply = "returned"
        /\ UNCHANGED <<memoryVars, pc>>
    <3>1. ASSUME NEW image \in Files, load_program(image) PROVE FALSE
      BY <1>4, <3>1 DEF load_program, Resting
    <3>2. CASE Cycle
      BY <1>4, <3>2, WordOutcomeType, WriteBackEffect
      DEF Cycle, run_cycle, Fetch, FetchFault, Decode, DecodeUnsupported,
          ExecuteAlu, ExecuteBranch, ExecuteJump, ExecuteUnsupported,
          MemoryAccess, MemoryAccessFault, At, Goto, Throw, ReplyAgrees,
          AccessOutcome, IsStore, Outcome
    <3>3. CASE load_unreadable \/ run
      BY <1>4, <3>3 DEF load_unreadable, run, Resting, pipelineVars
    <3>4. CASE ReturnAtEnd \/ Rethrow
      BY <1>4, <3>4 DEF ReturnAtEnd, Rethrow, Leave
    <3>5. CASE UNCHANGED vars
      BY <1>4, <3>5 DEF vars, pipelineVars
    <3> QED
      BY <3>1, <3>2, <3>3, <3>4, <3>5 DEF Next
  <2> QED
    BY <1>1, <1>2, <2>1 DEF EndFound
<1>5. CASE ~(thrown' = "EndOfProgram" \/ reply' = "returned")
  BY <1>5 DEF EndFound
<1> QED
  BY <1>3, <1>4, <1>5

\* Nothing but the decode and the execute stage throws invalid_argument, both
\* at a word they do not know: write back, which could, never does.
LEMMA IllegalStep ==
  TypeOK /\ OnlyPage0 /\ PcInPage /\ FetchedReadable /\ LatchesAgree /\ Resting
  /\ IllegalFound /\ [Next]_vars => IllegalFound'
<1> SUFFICES ASSUME TypeOK, OnlyPage0, PcInPage, FetchedReadable, LatchesAgree, Resting,
                    IllegalFound, [Next]_vars, thrown' = "invalid_argument"
             PROVE  IllegalFound'
  BY DEF IllegalFound
<1>1. \A va : Readable(va)' <=> Readable(va)
  <2>1. UNCHANGED <<entries, privilege_mode>>
    BY Page0Step DEF OnlyPage0
  <2> QED
    BY <2>1, SameDomain, SameReadable
<1>2. ASSUME UNCHANGED <<memoryVars, pc>> PROVE WordAt(pc - 4)' = WordAt(pc - 4)
  BY <1>2 DEF memoryVars, WordAt, PhysicalAddress, get_entry
<1>3. CASE DecodeUnsupported
  <2>1. /\ pc >= 4 /\ Readable(pc - 4)
        /\ fetched_instruction = WordAt(pc - 4)
    BY <1>3, UnderWay DEF DecodeUnsupported, At
  <2>2. UNCHANGED <<memoryVars, pc>> /\ Fields[fetched_instruction].opcode \notin Format
    BY <1>3 DEF DecodeUnsupported
  <2> QED
    BY <1>1, <1>2, <2>1, <2>2 DEF IllegalFound
<1>4. CASE ExecuteUnsupported
  <2>1. /\ pc >= 4 /\ Readable(pc - 4)
        /\ inst = Fields[WordAt(pc - 4)]
    BY <1>4, UnderWay DEF ExecuteUnsupported, At
  <2>2. UNCHANGED <<memoryVars, pc>> /\ Unsupported(inst)
    BY <1>4 DEF ExecuteUnsupported
  <2> QED
    BY <1>1, <1>2, <2>1, <2>2 DEF IllegalFound, Unsupported
<1>5. CASE Cycle /\ ~DecodeUnsupported /\ ~ExecuteUnsupported
  <2>1. \A a : \A is_write \in BOOLEAN : WordOutcome(a, is_write) # "invalid_argument"
    BY WordOutcomeType DEF Outcome
  <2>2. AccessOutcome # "invalid_argument"
    BY <2>1 DEF AccessOutcome, IsStore
  <2> QED
    BY <1>5, <2>1, <2>2, WriteBackEffect
    DEF Cycle, run_cycle, Fetch, FetchFault, Decode, ExecuteAlu, ExecuteBranch, ExecuteJump,
        ExecuteEnd, MemoryAccess, MemoryAccessFault, At, Goto, Throw
<1>6. CASE UNCHANGED pipelineVars
  BY <1>1, <1>2, <1>6 DEF pipelineVars, IllegalFound
<1>7. CASE \E image \in Files : load_program(image)
  BY <1>7 DEF load_program, Resting
<1> QED
  BY <1>3, <1>4, <1>5, <1>6, <1>7
  DEF Next, load_unreadable, run, ReturnAtEnd, Rethrow, Leave, vars

\* The word a store has written is the word its address reads.
LEMMA StoreStep ==
  TypeOK /\ OnlyPage0 /\ Resting /\ StoreWritten /\ [Next]_vars => StoreWritten'
<1> SUFFICES ASSUME TypeOK, OnlyPage0, Resting, StoreWritten, [Next]_vars
             PROVE  StoreWritten'
  OBVIOUS
<1>1. CASE MemoryAccess
  <2> SUFFICES ASSUME IsStore
               PROVE  mem_result'.store_success
                        /\ Readable(EffectiveAddress)'
                        /\ WordAt(EffectiveAddress)' = registers[inst.rs2]
    BY <1>1 DEF MemoryAccess, StoreWritten, IsStore, inst
  <2>1. /\ EffectiveAddress' = EffectiveAddress
        /\ memory' = Written(EffectiveAddress, registers[inst.rs2])
        /\ WordOutcome(EffectiveAddress, TRUE) = "ok"
        /\ mem_result'.store_success
    BY <1>1 DEF MemoryAccess, Store, AccessOutcome, EffectiveAddress
  <2>2. EffectiveAddress \in Address /\ registers[inst.rs2] \in Word
    <3>1. exec_result.alu_result \in Word /\ inst.rs2 \in Reg
      BY FieldsType DEF TypeOK, PipelineTypeOK, ExecutionResult, inst, Instruction
    <3> QED
      BY <3>1, ValueType DEF EffectiveAddress, TypeOK, PipelineTypeOK, MachineTypeOK
  <2>3. Readable(EffectiveAddress)'
    <3>1. ReachesByte(EffectiveAddress, 3, TRUE)
      BY <2>1, WordReached
    <3>2. Readable(EffectiveAddress)
      BY <3>1, Page0Symmetric DEF Readable, ReachesByte
    <3>3. UNCHANGED <<entries, privilege_mode>> /\ DOMAIN memory' = DOMAIN memory
      BY SameDomain, Page0Step DEF OnlyPage0
    <3>4. Readable(EffectiveAddress)' <=> Readable(EffectiveAddress)
      BY <2>1, <3>3, SameReadable
    <3> QED
      BY <3>2, <3>4
  <2>4. WordAt(EffectiveAddress)' = registers[inst.rs2]
    <3>1. \A i \in ByteIndex : memory'[PhysicalAddress(Wrap(EffectiveAddress + i))]
                                = registers[inst.rs2][i]
      BY <2>1, <2>2, WrittenLands DEF TypeOK, PipelineTypeOK, MachineTypeOK
    <3>2. WordAt(EffectiveAddress)' =
            [i \in ByteIndex |-> memory'[PhysicalAddress(Wrap(EffectiveAddress + i))]]
      BY <1>1, <2>1 DEF MemoryAccess, WordAt, PhysicalAddress, get_entry
    <3> QED
      BY <2>2, <3>1, <3>2 DEF Word
  <2> QED
    BY <2>1, <2>3, <2>4
<1>2. CASE UNCHANGED pipelineVars
  <2>1. /\ UNCHANGED <<memoryVars, registers, stage, exec_result, mem_result>>
        /\ inst' = inst /\ IsStore' = IsStore /\ EffectiveAddress' = EffectiveAddress
    BY <1>2 DEF pipelineVars, latches, inst, IsStore, EffectiveAddress
  <2>2. Readable(EffectiveAddress)' <=> Readable(EffectiveAddress)
    BY <2>1, SameReadable DEF memoryVars
  <2>3. WordAt(EffectiveAddress)' = WordAt(EffectiveAddress)
    BY <2>1 DEF memoryVars, WordAt, PhysicalAddress, get_entry
  <2> QED
    BY <2>1, <2>2, <2>3 DEF StoreWritten
<1>3. CASE stage' # "write_back"
  BY <1>3 DEF StoreWritten
<1> QED
  BY <1>1, <1>2, <1>3, WriteBackEffect
  DEF Next, load_program, load_unreadable, run, Cycle, run_cycle, Resting,
      ReturnAtEnd, Rethrow, Leave, Fetch, FetchFault, Decode, DecodeUnsupported,
      ExecuteAlu, ExecuteBranch, ExecuteJump, ExecuteEnd, ExecuteUnsupported,
      MemoryAccessFault, At, Goto, Throw, vars

\* After a load that returned 0 only another load or a run changes anything.
LEMMA LoadStep ==
  TypeOK /\ OnlyPage0 /\ Resting /\ ReplyAgrees /\ LoadedWhole /\ [Next]_vars => LoadedWhole'
<1> SUFFICES ASSUME TypeOK, OnlyPage0, Resting, ReplyAgrees, LoadedWhole, [Next]_vars
             PROVE  LoadedWhole'
  OBVIOUS
<1>1. ASSUME NEW image \in Files, load_program(image) PROVE LoadedWhole'
  <2> SUFFICES ASSUME reply' = "loaded"
               PROVE  pc' = 0 /\ stage' = "fetch" /\ \A i \in DOMAIN image : memory'[i] = image[i]
    BY <1>1 DEF load_program, LoadedWhole
  <2>1. \A i \in DOMAIN image : ReachesByte(0, i, TRUE)
    BY <1>1 DEF load_program
  <2> QED
    BY <1>1, <2>1, ImageLands DEF load_program, PcAfterLoad, Resting
<1>2. CASE load_unreadable \/ run \/ ReturnAtEnd \/ Rethrow
  BY <1>2 DEF load_unreadable, run, ReturnAtEnd, Rethrow, Leave, LoadedWhole
<1>3. CASE Cycle
  BY <1>3 DEF Cycle, ReplyAgrees, LoadedWhole
<1>4. CASE UNCHANGED vars
  BY <1>4 DEF vars, pipelineVars, memoryVars, LoadedWhole
<1> QED
  BY <1>1, <1>2, <1>3, <1>4 DEF Next

-----------------------------------------------------------------------------
LEMMA InvStep == IInv /\ [Next]_vars => IInv'
BY NextType, Page0Step, RestingStep, OutsideStep, PcStep, ReadableStep,
   LatchesStep, EndStep, IllegalStep, StoreStep, LoadStep DEF IInv

LEMMA InvAlways == Spec => []IInv
BY InitSafe, InvStep, PTL DEF Spec

\* No program and no file reaches a byte of memory beyond the constructor's
\* page.
THEOREM PageConfinement == Spec => []OutsidePageUntouched
<1>1. IInv => OutsidePageUntouched
  BY DEF IInv
<1> QED
  BY <1>1, InvAlways, PTL

\* The pc stays aligned and inside the page.
THEOREM PcConfinement == Spec => []PcInPage
<1>1. IInv => PcInPage
  BY DEF IInv
<1> QED
  BY <1>1, InvAlways, PTL

\* The stages of a cycle work on one and the same instruction, although their
\* latches outlive cycles that throw and programs that are replaced.
THEOREM OneInstruction == Spec => []LatchesAgree
<1>1. IInv => LatchesAgree
  BY DEF IInv
<1> QED
  BY <1>1, InvAlways, PTL

\* What is left of a run is a natural number, because the pc stays in the page,
\* and every stage and every fetch takes something off it.
LEMMA ShrinkStep == IInv /\ [Next]_vars =>
                      [running /\ running' => WorkLeft' \in 0 .. WorkLeft - 1]_vars
<1> SUFFICES ASSUME IInv, Next, running, running'
             PROVE  WorkLeft' \in 0 .. WorkLeft - 1
  OBVIOUS
<1>1. Cycle
  BY DEF Next, load_program, load_unreadable, run, Leave, ReturnAtEnd, Rethrow
<1>2. /\ pc \in Nat /\ PageSize \in Nat /\ pc <= PageSize /\ stage \in Stage
  BY PageSizeAssumption DEF IInv, TypeOK, PipelineTypeOK, MachineTypeOK, Address, PcInPage
<1>3. /\ StagesLeft["fetch"] = 0 /\ StagesLeft["decode"] = 4 /\ StagesLeft["execute"] = 3
      /\ StagesLeft["memory_access"] = 2 /\ StagesLeft["write_back"] = 1
  BY DEF StagesLeft
<1>4. thrown = "none" => WorkLeft = 2 + 2 * (PageSize - pc) + StagesLeft[stage]
  BY DEF WorkLeft
<1>5. thrown' # "none" => WorkLeft' = 1
  BY DEF WorkLeft
<1>6. thrown' = "none" => WorkLeft' = 2 + 2 * (PageSize - pc') + StagesLeft[stage']
  BY DEF WorkLeft
<1>7. CASE Fetch
  <2>1. /\ thrown = "none" /\ thrown' = "none" /\ stage = "fetch" /\ stage' = "decode"
        /\ pc' = NextPc(pc) /\ WordOutcome(pc, FALSE) = "ok"
    BY <1>7 DEF Fetch, At, Goto
  <2>2. pc' = pc + 4 /\ pc + 4 <= PageSize
    BY <1>2, <2>1, FetchInside DEF IInv
  <2> QED
    BY <1>2, <1>3, <1>4, <1>6, <2>1, <2>2
<1>8. CASE \/ FetchFault \/ DecodeUnsupported \/ ExecuteEnd \/ ExecuteUnsupported
           \/ MemoryAccessFault
  <2>1. \A a : \A is_write \in BOOLEAN : WordOutcome(a, is_write) # "none"
    BY WordOutcomeType DEF Outcome
  <2>2. AccessOutcome # "none"
    BY <2>1 DEF AccessOutcome, IsStore
  <2>3. thrown = "none" /\ thrown' # "none"
    BY <1>8, <2>1, <2>2
    DEF FetchFault, DecodeUnsupported, ExecuteEnd, ExecuteUnsupported, MemoryAccessFault, At, Throw
  <2> QED
    BY <1>2, <1>3, <1>4, <1>5, <2>3 DEF Stage
<1>9. CASE Decode \/ ExecuteAlu \/ ExecuteBranch \/ ExecuteJump \/ MemoryAccess \/ WriteBack
  <2>1. /\ thrown = "none" /\ thrown' = "none" /\ pc' = pc
        /\ <<stage, stage'>> \in {<<"decode", "execute">>, <<"execute", "memory_access">>,
                                  <<"memory_access", "write_back">>, <<"write_back", "fetch">>}
    BY <1>9, WriteBackEffect
    DEF Decode, ExecuteAlu, ExecuteBranch, ExecuteJump, ExecuteOnly, MemoryAccess, At, Goto
  <2> QED
    BY <1>2, <1>3, <1>4, <1>6, <2>1
<1> QED
  BY <1>1, <1>7, <1>8, <1>9 DEF Cycle, run_cycle

\* Every run() is finite, whatever the program: the safety half of its
\* termination, for every page and every memory.
THEOREM FiniteRuns == Spec => RunShrinks
BY ShrinkStep, InvAlways, PTL DEF Spec, RunShrinks

\* run() returns only with a jump to itself in memory before the pc.
THEOREM EndIsJumpToSelf == Spec => []EndedAtJumpToSelf
<1>1. IInv => EndedAtJumpToSelf
  BY DEF IInv, EndFound, EndedAtJumpToSelf, LastReadable, Last, read_word_from_memory,
         WordOutcome, Readable
<1> QED
  BY <1>1, InvAlways, PTL

\* invalid_argument means an illegal word: neither a store nor a register write
\* of a legal instruction ends a cycle with it.
THEOREM OnlyIllegal == Spec => []OnlyIllegalRefused
<1>1. IInv => OnlyIllegalRefused
  BY DEF IInv, IllegalFound, OnlyIllegalRefused, LastReadable, Last, read_word_from_memory,
         WordOutcome, Readable
<1> QED
  BY <1>1, InvAlways, PTL

\* What a store reports as written is what the host reads at its address.
THEOREM StoresLand == Spec => []StoreAcknowledged
<1>1. IInv => StoreAcknowledged
  BY DEF IInv, StoreWritten, StoreAcknowledged, read_word_from_memory, WordOutcome, Readable
<1> QED
  BY <1>1, InvAlways, PTL

\* A load that returns 0 has put the whole file where the next run starts.
THEOREM LoadsWhole == Spec => []LoadedWhole
<1>1. IInv => LoadedWhole
  BY DEF IInv
<1> QED
  BY <1>1, InvAlways, PTL

-----------------------------------------------------------------------------
(* CPU implements ISA.                                                     *)

\* Outside a cycle nothing is under way, so a load never overwrites an
\* instruction that has yet to take effect.
LEMMA FetchedStep == IInv /\ Fetched /\ [Next]_vars => Fetched'
<1> SUFFICES ASSUME IInv, Fetched, [Next]_vars PROVE Fetched'
  OBVIOUS
<1>1. CASE Cycle
  BY <1>1, CycleFetched DEF Cycle, IInv, TypeOK
<1>2. CASE UNCHANGED pipelineVars
  BY <1>2, SameFetched
<1>3. CASE stage' = "fetch"
  BY <1>3 DEF Fetched
<1> QED
  BY <1>1, <1>2, <1>3
  DEF Next, load_program, load_unreadable, run, ReturnAtEnd, Rethrow, Leave, IInv, Resting, vars

\* The machine under ISA is the one the pipeline is seen as: the operators
\* of the two instances have the same definitions.
LEMMA SameInstruct == single!Instruct => isa!Instruct
<1>1. \A a, w : isa!WordOutcome(a, w) = single!WordOutcome(a, w)
  BY DEF single!WordOutcome, isa!WordOutcome, single!ReachesByte, isa!ReachesByte,
         single!ByteOutcome, isa!ByteOutcome, single!translate_address, isa!translate_address,
         single!HasEntry, isa!HasEntry, single!get_entry, isa!get_entry, single!is_valid,
         isa!is_valid, single!Grants, isa!Grants, single!Right, isa!Right,
         single!PhysicalAddress, isa!PhysicalAddress, single!get_physical_address,
         isa!get_physical_address, single!PageNumber, isa!PageNumber, single!Wrap, isa!Wrap,
         single!WordMod, isa!WordMod, single!ByteIndex, isa!ByteIndex
<1>2. \A a : isa!WordAt(a) = single!WordAt(a)
  BY DEF single!WordAt, isa!WordAt, single!get_entry, isa!get_entry,
         single!PhysicalAddress, isa!PhysicalAddress, single!get_physical_address,
         isa!get_physical_address, single!PageNumber, isa!PageNumber, single!Wrap, isa!Wrap,
         single!WordMod, isa!WordMod, single!ByteIndex, isa!ByteIndex
<1>3. \A a, bytes : isa!Written(a, bytes) = single!Written(a, bytes)
  BY DEF single!Written, isa!Written, single!ReachesByte, isa!ReachesByte,
         single!ByteOutcome, isa!ByteOutcome, single!translate_address, isa!translate_address,
         single!HasEntry, isa!HasEntry, single!get_entry, isa!get_entry, single!is_valid,
         isa!is_valid, single!Grants, isa!Grants, single!Right, isa!Right,
         single!PhysicalAddress, isa!PhysicalAddress, single!get_physical_address,
         isa!get_physical_address, single!PageNumber, isa!PageNumber, single!Wrap, isa!Wrap,
         single!WordMod, isa!WordMod
<1>4. /\ isa!ZeroWord = single!ZeroWord /\ isa!Word = single!Word /\ isa!Format = single!Format
      /\ \A p : isa!NextPc(p) = single!NextPc(p)
      /\ \A w : isa!Value(w) = single!Value(w)
      /\ \A i : /\ isa!ComputesAlu(i) = single!ComputesAlu(i)
                /\ isa!Branches(i) = single!Branches(i)
                /\ isa!Unsupported(i) = single!Unsupported(i)
      /\ \A i, regs : isa!AluOf(i, regs) = single!AluOf(i, regs)
      /\ \A rd, v : isa!WithRegister(rd, v) = single!WithRegister(rd, v)
  BY DEF single!ZeroWord, isa!ZeroWord, single!Word, isa!Word, single!Format,
         isa!Format, single!NextPc, isa!NextPc, single!Value, isa!Value, single!ComputesAlu,
         isa!ComputesAlu, single!Branches, isa!Branches, single!Unsupported, isa!Unsupported,
         single!AluOf, isa!AluOf, single!WithRegister, isa!WithRegister, single!Wrap, isa!Wrap,
         single!WordMod, isa!WordMod, single!ByteIndex, isa!ByteIndex, single!Byte, isa!Byte
<1>5. isa!here = single!here /\ isa!Fetchable = single!Fetchable
  BY <1>1, <1>2 DEF single!here, isa!here, single!Fetchable, isa!Fetchable
<1>6. /\ single!Compute => isa!Compute
      /\ single!Jump => isa!Jump
      /\ single!Branch => isa!Branch
      /\ single!EndOfProgram => isa!EndOfProgram
      /\ single!Illegal => isa!Illegal
  BY <1>4, <1>5
  DEF single!Compute, isa!Compute, single!Jump, isa!Jump, single!Branch, isa!Branch,
      single!EndOfProgram, isa!EndOfProgram, single!Illegal, isa!Illegal
<1>7. single!StoreWord => isa!StoreWord
  BY <1>1, <1>3, <1>4, <1>5 DEF single!StoreWord, isa!StoreWord
<1>8. single!FetchTrap => isa!FetchTrap
  BY <1>1, <1>5 DEF single!FetchTrap, isa!FetchTrap, single!memoryVars, isa!memoryVars
<1>9. single!Retire => isa!Retire
  BY <1>4, <1>5, <1>6, <1>7 DEF single!Retire, isa!Retire
<1> QED
  BY <1>8, <1>9 DEF single!Instruct, isa!Instruct

LEMMA LoadOperators ==
  /\ \A va, bytes : isa!Written(va, bytes) = Written(va, bytes)
  /\ \A va, i, is_write : isa!ReachesByte(va, i, is_write) = ReachesByte(va, i, is_write)
<1> USE DEF isa!ReachesByte, isa!ByteOutcome, isa!translate_address, isa!HasEntry, isa!get_entry,
            isa!is_valid, isa!Grants, isa!Right, isa!PhysicalAddress,
            isa!get_physical_address, isa!PageNumber, isa!Wrap, isa!WordMod,
            ReachesByte, ByteOutcome, translate_address, HasEntry, get_entry, is_valid,
            Grants, Right, PhysicalAddress, get_physical_address, PageNumber, Wrap, WordMod
<1>1. \A va, bytes : isa!Written(va, bytes) = Written(va, bytes)
  BY DEF isa!Written, Written
<1>2. \A va, i, is_write : isa!ReachesByte(va, i, is_write) = ReachesByte(va, i, is_write)
  OBVIOUS
<1> QED
  BY <1>1, <1>2

\* The host's calls and the exits of run() are those of the abstract machine,
\* whose pc they find where the pipeline's is.
LEMMA HostImplements ==
  ASSUME IInv, [Next]_vars,
         \/ \E image \in Files : load_program(image)
         \/ load_unreadable \/ run \/ ReturnAtEnd \/ Rethrow
  PROVE  isa!Next
<1>1. stage = "fetch" /\ stage' = "fetch" /\ InstructionPc = pc /\ InstructionPc' = pc'
  BY DEF IInv, Resting, load_program, load_unreadable, run, ReturnAtEnd, Rethrow, Leave,
         pipelineVars, InstructionPc
<1>2. ASSUME NEW image \in Files, load_program(image) PROVE isa!Load
  BY <1>1, <1>2, LoadOperators DEF load_program, PcAfterLoad, isa!Load
<1>3. load_unreadable => isa!LoadNothing
  BY <1>1 DEF load_unreadable, isa!LoadNothing, pipelineVars, memoryVars, isa!memoryVars
<1>4. run => isa!Start
  BY <1>1 DEF run, isa!Start, pipelineVars, memoryVars, isa!memoryVars, IInv, Resting
<1>5. ReturnAtEnd \/ Rethrow => isa!Stop
  BY <1>1 DEF ReturnAtEnd, Rethrow, Leave, isa!Stop, memoryVars, isa!memoryVars
<1> QED
  BY <1>2, <1>3, <1>4, <1>5 DEF isa!Next

\* To the host a run is a sequence of whole instructions of a machine without
\* stages and latches, whatever the pipeline kept from earlier ones.
THEOREM Refinement == Spec => Implements
<1>1. Init => isa!Init /\ Fetched
  BY DEF Init, isa!Init, PipelineInit, InstructionPc, Fetched, isa!ZeroWord, ZeroWord, isa!ByteIndex,
         ByteIndex, isa!Reg, Reg, NoFile, isa!NoFile, Page0, isa!Page0, PteBit, isa!PteBit
<1>2. IInv /\ Fetched /\ [Next]_vars => [isa!Next]_(isa!vars)
  <2> SUFFICES ASSUME IInv, Fetched, [Next]_vars PROVE isa!Next \/ UNCHANGED isa!vars
    OBVIOUS
  <2>1. CASE \/ \E image \in Files : load_program(image)
             \/ load_unreadable \/ run \/ ReturnAtEnd \/ Rethrow
    BY <2>1, HostImplements
  <2>2. CASE Cycle
    <3>1. IF TakesEffect THEN single!Instruct
          ELSE UNCHANGED <<memoryVars, registers, InstructionPc, thrown>>
      BY <2>2, CycleImplements DEF Cycle, IInv, TypeOK
    <3>2. CASE TakesEffect
      BY <2>2, <3>1, <3>2, SameInstruct DEF Cycle, isa!Step, isa!Next
    <3>3. CASE ~TakesEffect
      BY <2>2, <3>1, <3>3 DEF Cycle, isa!vars, memoryVars, isa!memoryVars
    <3> QED
      BY <3>2, <3>3
  <2>3. CASE UNCHANGED vars
    BY <2>3 DEF vars, pipelineVars, latches, memoryVars, isa!vars, isa!memoryVars,
                InstructionPc, StoreDone, IsStore
  <2> QED
    BY <2>1, <2>2, <2>3 DEF Next
<1> QED
  BY <1>1, <1>2, FetchedStep, InvAlways, PTL DEF Spec, Implements, isa!Spec
=============================================================================
