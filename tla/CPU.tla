--------------------------------- MODULE CPU ---------------------------------
(***************************************************************************)
(* The CPU object: the pipeline, the memory behind its MMU and the host    *)
(* that loads programs and runs them (main.cpp, or a Python test).  run()  *)
(* calls run_cycle until it throws; the host may load and run again on the *)
(* same object, whatever state the last run left.                          *)
(***************************************************************************)
EXTENDS Pipeline

CONSTANTS
  Files,      \* the program files, each a function from 0 .. size - 1 to bytes
  MaxLoads,   \* bound on the calls of load_program
  Garbage     \* what alu_result may hold before anything is computed

ASSUME FilesAssumption ==
  \A image \in Files : \A i \in DOMAIN image :
    i \in Nat /\ 0 .. i \subseteq DOMAIN image /\ image[i] \in Byte
ASSUME MaxLoadsAssumption == MaxLoads \in Nat
ASSUME GarbageAssumption == Garbage \subseteq Word

VARIABLES
  running,   \* run() has been called and has not returned
  reply,     \* how the host's last call ended
  file,      \* the program file last given to load_program
  loads      \* calls of load_program so far

vars == <<pipelineVars, running, reply, file, loads>>

NoFile == [i \in {} |-> 0]

Reply == {"constructed", "loaded", "load_failed", "running", "returned", "std::exception"}

\* Mutant: the page is mapped onto the frame after it.
NextFrame == [frame |-> PageSize, bits |-> PteBit]

\* The constructor maps page 0 onto frame 0 with every right.
Page0 == [frame |-> 0, bits |-> PteBit]

Init ==
  /\ memory = [pa \in 0 .. MemorySize - 1 |-> 0]
  /\ entries = [page \in {0} |-> Page0]
  /\ privilege_mode = "MACHINE"
  /\ registers = [r \in Reg |-> ZeroWord]
  /\ pc = 0
  /\ \E garbage \in Garbage : PipelineInit(garbage)
  /\ running = FALSE
  /\ reply = "constructed"
  /\ file = NoFile
  /\ loads = 0

-----------------------------------------------------------------------------
\* Mutant: the pc is left where the last program stopped.
PcAfterLoadStays(image) == pc

\* The pc is set only after the last byte was written.
PcAfterLoad(image) == IF \A i \in DOMAIN image : ReachesByte(0, i, TRUE) THEN 0 ELSE pc

\* The file is copied byte by byte through the MMU, from address 0 on.  The
\* first byte that throws ends the copy with -1; what was copied stays.
load_program(image) ==
  /\ ~running
  /\ loads < MaxLoads
  /\ file' = image
  /\ memory' = Written(0, image)
  /\ pc' = PcAfterLoad(image)
  /\ reply' = IF \A i \in DOMAIN image : ReachesByte(0, i, TRUE) THEN "loaded" ELSE "load_failed"
  /\ loads' = loads + 1
  /\ UNCHANGED <<entries, privilege_mode, registers, stage, latches, thrown, running>>

\* The file cannot be opened or read: -1, and nothing has changed.
load_unreadable ==
  /\ ~running
  /\ loads < MaxLoads
  /\ reply' = "load_failed"
  /\ loads' = loads + 1
  /\ UNCHANGED <<pipelineVars, running, file>>

run ==
  /\ ~running
  /\ running' = TRUE
  /\ reply' = "running"
  /\ UNCHANGED <<pipelineVars, file, loads>>

Cycle ==
  /\ running
  /\ run_cycle
  /\ UNCHANGED <<running, reply, file, loads>>

\* run() catches what run_cycle throws: the end of the program returns, and
\* anything else is thrown on as a plain std::exception.
Leave(answer) ==
  /\ running
  /\ running' = FALSE
  /\ thrown' = "none"
  /\ reply' = answer
  /\ UNCHANGED <<memoryVars, registers, pc, stage, latches, file, loads>>

ReturnAtEnd == thrown = "EndOfProgram" /\ Leave("returned")
Rethrow == thrown \notin {"none", "EndOfProgram"} /\ Leave("std::exception")

Next ==
  \/ \E image \in Files : load_program(image)
  \/ load_unreadable
  \/ run
  \/ Cycle
  \/ ReturnAtEnd
  \/ Rethrow

Spec == Init /\ [][Next]_vars

\* run() is a loop in the only thread: once called it keeps stepping.
RunProgress == WF_vars(Cycle \/ ReturnAtEnd \/ Rethrow)
FairSpec == Spec /\ RunProgress

-----------------------------------------------------------------------------
\* What the host sees of a word: its value, or all ones if reading it throws.
AllOnes == [i \in ByteIndex |-> ByteMod - 1]
read_word_from_memory(va) == IF WordOutcome(va, FALSE) = "ok" THEN WordAt(va) ELSE AllOnes

\* Every variable keeps its type: words, addresses and stages of the machine,
\* an exception while one is on its way, the answer of the last host call.
TypeOK ==
  /\ PipelineTypeOK
  /\ running \in BOOLEAN
  /\ reply \in Reply
  /\ \A i \in DOMAIN file : file[i] \in Byte
  /\ loads \in 0 .. MaxLoads

\* Every fetch is of an aligned word of page 0, and the pc stops at the page's
\* end, because nothing but a fetch and a load ever sets it.
PcInPage ==
  /\ pc % 4 = 0
  /\ pc <= PageSize
  /\ stage # "fetch" => pc >= 4 /\ pc <= MemorySize

\* The instruction before the pc, where the host can read it.
LastReadable == pc >= 4 /\ WordOutcome(pc - 4, FALSE) = "ok"
Last == Fields[read_word_from_memory(pc - 4)]

\* run() returns normally only because the word before the pc, at the moment
\* it returns, is a jump to itself: no stale word, no other jump.
EndedAtJumpToSelf ==
  reply = "returned" => LastReadable /\ Last.opcode = "J_TYPE" /\ Last.imm = ZeroWord

\* invalid_argument is thrown for the word before the pc alone, and only if
\* that is no instruction of the machine: a legal one never ends so, one that
\* discards its result into x0 included, whose write the register bank would
\* refuse with the same exception.
OnlyIllegalRefused ==
  thrown = "invalid_argument" =>
    LastReadable /\ (Last.opcode \notin Format \/ Unsupported(Last))

\* A store that reports success is what the host then reads at its address,
\* and the read is one that succeeds: -1 for a fault would not do.
StoreAcknowledged ==
  stage = "write_back" /\ IsStore =>
    /\ mem_result.store_success
    /\ WordOutcome(EffectiveAddress, FALSE) = "ok"
    /\ read_word_from_memory(EffectiveAddress) = registers[inst.rs2]

\* Neither a program nor a file reaches a byte of memory outside page 0.
OutsidePageUntouched == \A pa \in DOMAIN memory : pa >= PageSize => memory[pa] = 0

\* When load_program returns 0 the whole file is in place and the next run
\* starts at its first byte, whatever ran on this object before.
LoadedWhole ==
  reply = "loaded" =>
    /\ pc = 0
    /\ stage = "fetch"
    /\ \A i \in DOMAIN file : memory[i] = file[i]

\* What is left of a run at most: the stages of the cycle under way, and the
\* words of the page behind the pc.
StagesLeft ==
  [fetch |-> 0, decode |-> 4, execute |-> 3, memory_access |-> 2, write_back |-> 1]
WorkLeft ==
  IF thrown # "none" THEN 1 ELSE 2 + 2 * (PageSize - pc) + StagesLeft[stage]

\* A run() cannot go on forever, nor in circles through a program that
\* overwrites itself: every step that does not leave it leaves less to do.
RunShrinks == [][running /\ running' => WorkLeft' \in 0 .. WorkLeft - 1]_vars

\* run() always ends: by the end of the program or by an exception.
RunTerminates == running ~> ~running

-----------------------------------------------------------------------------
\* The CPU implements ISA: to the host a run is a sequence of whole
\* instructions, and loads and exits fall between them.
isa == INSTANCE ISA WITH pc <- InstructionPc

Implements == isa!Spec

-----------------------------------------------------------------------------
\* test_cpu.py annotates its program with "j outer_loop": a jump whose offset
\* is not zero goes somewhere else than the next instruction.
JumpRedirects ==
  [][stage = "write_back" /\ decoded_instruction.format = "J_TYPE" /\ stage' = "fetch"
       => pc' = exec_result.branch_target]_vars

\* MemoryAccessStage.cpp expects loads among the I format: a fetched load is
\* executed.
LoadExecutes ==
  [][stage = "decode" /\ Fields[fetched_instruction].opcode = "LOAD" => thrown' = "none"]_vars

\* The bindings describe alu_result as the ALU result computed during
\* execution: what an instruction writes to rd was computed by it, not left
\* by an earlier one.
ResultIsComputed ==
  [][registers' # registers => ComputesAlu(inst)]_vars
=============================================================================
