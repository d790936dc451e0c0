# VirtuV in TLA+

A formal model of VirtuV, a RISC-V emulator in C++23 with Python bindings
(`src/core`, `src/bindings`): its memory, its instruction encoding, its
five-stage pipeline and the CPU object a host loads programs into.  TLC checks
small instances; TLAPS proves every safety property those runs check, and the two
refinements, for every size.

## The system

VirtuV runs in one thread.  What makes it hard is state that outlives a call:
a store that faults halfway, stage objects that keep the results of a cycle
that threw, a CPU object on which a host loads and runs several programs, a
page table that changes between accesses, programs that overwrite themselves.

| Component | State | Operations | Talks to | What makes it correct |
|---|---|---|---|---|
| Physical memory (`memory/PhysicalMemory`) | bytes | read, write, `out_of_range` at the end | MMU | size fixed, bytes change by writes alone |
| Page table and entries (`memory/PageTable*`) | map from keys to entries | `add_entry`, `get_entry`, permission tests | MMU | no access passes without the rights of the entry it goes through |
| MMU (`memory/MMU`) | privilege mode | translate, byte and word accesses | page table, memory | a byte changes only through a writable page; a word that was acknowledged reads back; a torn word only at a boundary |
| Register bank | 32 registers, pc | read, write (refused for x0), pc | stages | x0 is zero, no legal instruction meets the refusal, pc stays in the program's page |
| Encoding (`isa/Instruction.hpp`, `bitutils`) | none | opcode, fields, immediates | decode, execute | fields tile the word, immediates have the encoded value |
| Fetch, decode, execute, memory access, write back | one latch each, kept across cycles | `process`, setters, getters | MMU, register bank | every stage of a cycle works on the same instruction |
| Pipeline | the stage objects | `run_cycle` | stages | a cycle is one instruction or one trap |
| CPU (`cpu/CPU`) | all of the above | constructor, `load_program`, `run`, `get_register`, `read_word_from_memory` | host | a load that succeeds is whole, `run` ends, and returns only at an end of program |
| Bindings | objects a Python session keeps | machines built from their parts, stages driven one at a time, instructions built field by field | all of the above | what a session changes between cycles never meets an instruction half done; the immediate of an object is that of its fields (partly modelled) |
| Command line, logging | none | one load and one run; output | | not modelled |

Hard behaviours, each listed at its line in `PROJECT.json` under `hazards`:
partial failure (torn words, a program that does not fit), stale latches and
stale page table entries, wraparound of 32-bit addresses and targets, the
pile-up of immediate ranges at bit 0, repeated use of one CPU, self-modifying
programs, termination of `run`, a session that changes page table and mode
between cycles, instruction objects whose fields are assigned one by one.
There are no threads, no persistence and no
messages, so nothing of that kind is modelled.

## Modules

| Module | What it is |
|---|---|
| `VirtualMemory` | state and operators of memory, page table, translation, byte and word accesses. `Written` is a whole multi-byte write: the prefix of bytes reached before the first fault |
| `MMU` | the host of `test_mmu.py`: one action per method of `PageTable` and `MMU`; `call` holds the last call and how it ended |
| `Instruction` | opcodes, bit-fields and immediates; a 32-bit word is the set of the positions of its one bits |
| `DecodeStage` | `set_fetched_instruction` and `process` of a decode stage, the words given as 32-bit sets |
| `ALU`, `ALUWalk` | the arithmetic of the execute stage at any width, a register being the set of the positions of its one bits, with the numbers registers stand for; a program of I-format operations on one register |
| `Machine` | what an instruction means: result, branch, refusal, register write. `Fields` (a word's instruction) and the arithmetic are constants |
| `InstructionSet` | one instruction or trap as one step, no stages and no latches |
| `Pipeline` | `run_cycle`, one action per stage and per way it ends; the latches are variables |
| `CPU` | constructor, `load_program`, `run` and its two exits, around `Pipeline` |
| `ISA` | what `CPU` promises: loads and runs around `InstructionSet` |
| `BoardHost` | a Python session that owns register bank, memory, page table and MMU, and calls them between cycles |
| `Board` | `Pipeline` over the parts of such a session |
| `BoardISA` | what `Board` promises: `BoardHost` around `InstructionSet` |
| `PythonStages` | instruction objects built field by field, and the later stages driven one at a time, as in `test_pipeline_stages.py` |
| `MCMMU`, `MCDecodeStage`, `MCALU`, `MCCPU`, `MCBoard`, `MCPythonStages` | values of the constants for TLC |
| `VirtualMemoryLemmas`, `MMUProofs`, `DecodeStageProofs`, `PipelineProofs`, `CPUProofs`, `BoardProofs`, `ALUProofs`, `PythonStagesProofs` | lemmas, theorems and proofs |

How state and actions correspond to the code:

- A word is a function from byte indices to bytes, so loading, storing and
  tearing are what the code does byte by byte.  Addresses are `Value` of a
  word, and address arithmetic wraps (`Wrap`).
- `stage` is where `run_cycle` stands.  Each latch is the producing stage
  object's member and the copies the setters make of it just before they are
  used, so one variable stands for both.  No latch is reset between cycles or
  by `load_program`, because the code resets none (the memory stage resets its
  own result).
- `thrown` is the exception on its way from a stage to `run`; `ReturnAtEnd`
  and `Rethrow` are the two catch clauses.  After either, the next `run` goes
  on from the pc the fetch left.
- `RegisterBank::write` is two operators: `WithRegister`, what the registers hold
  after it, and `WriteThrows`, how it ends.  `WriteBack` calls it only where the
  guards of the formats let it (`WritesRegister`), so a format without its guard
  would end a legal instruction with `invalid_argument`, which
  `OnlyIllegalRefused` forbids.
- `alu_result` has no initializer, so `PipelineInit` starts it with any member
  of `Garbage`.
- In `Pipeline` the immediates are whatever `Fields` says; `Instruction` and
  `DecodeStage` say what the code makes of the bits.  The two halves are tied
  by the assumption that `Fields` maps words to instructions, and by
  `ZeroOffsetExact`: an immediate of zero is an encoded offset of zero.
- `ALU` adds as hardware does: `carry` says from where a carry reaches a
  position, and the sum is the exclusive or of both operands and the carries; a
  difference borrows where the complement would carry.  `NumbersAgree` says that
  this is `+`, `-` and `<` on the numbers `Unsigned` and `Signed` read from a
  register, and that a shift doubles or halves once per position, that is, what
  C++ does on `uint32_t` and `int32_t`.  `MCCPU` and
  `MCBoard` take their arithmetic from `ALU` at 8 and 4 bits.
- `CPU` implements `ISA` (`Implements`) under the mapping `InstructionPc` of
  `Pipeline`, which sees the pc advance when the instruction takes effect.  `ISA`
  promises what the code does,
  not what RV32I asks: jumps and branches do not move the pc, and JAL links an
  unspecified word.
- `Board` is the same `Pipeline` without the CPU around it: any page table, any
  mode, any pc, aligned or not.  `cycling` is true from the call of `run_cycle`
  to its return or throw; the session calls only outside (`Between`), because
  `run_cycle` keeps the interpreter.  `Board` implements `BoardISA` under
  the same `InstructionPc` (the address the instruction was fetched from, until
  it takes effect) and `Pending` (it has yet to): a store takes effect when the memory
  stage writes, an instruction that throws where it throws, the rest at write
  back.  A fetch that throws leaves the pc on its instruction; every other
  exception leaves it behind it.
- In `PythonStages` an object is its class and its 32 bits.  A stage dispatches
  on the class, which no assignment changes.  Only an `ExecuteStage` accepts an
  instruction: the `set_decoded_instruction` of the two later stages takes an
  `ExecuteStage` as self and is a `TypeError` on its own class (`Accepts`).  Their
  `process` is modelled in full, but never has an instruction to work on; the run
  `stage_tests` holds this against the tests `test_memory_access_load`,
  `test_memory_access_store` and `test_write_back_load`.  The setter of rd of the R
  format assigns the opcode (`SetterField`).

## Runs

| Run | Question | Bounds |
|---|---|---|
| `mmu` | isolation, read back, torn words | one-bit bytes, so 16 addresses; four pages of four bytes; six bytes of memory, one whole frame and half of the next. Four addresses: an aligned word, one that crosses into an unmapped page, an unmapped one, one that wraps from the last page to page 0. Six entries, with missing rights, a frame partly beyond memory, two pages on one frame, and a key inside a page |
| `decode` | no mixed words, end of program, immediates, fields, small offsets | 232 words of 32 bits: the six opcodes, LOAD and 0, each with no other bit, with each other bit alone, with all, and with two patterns whose ranges pile up; every order of setting and processing them |
| `alu` | the operations against numbers, and the laws that relate them | 12-bit registers, all 4096 values reached; 16 immediates with both signed extremes, shift amounts around the five-bit limit and funct7 bits |
| `cpu` | one-instruction-per-step semantics, latches, stores, ends, refusals, whole loads, isolation, termination, and that nothing the stages kept of a replaced program reaches the next one | two loads out of 188 files: every program of one or two of 13 encodings (a jump to itself, a store into the program, a store across the page's end, words the stages refuse), and six files among which one too long, one empty, one that rewrites itself and one cut inside its last instruction; any number of runs before, between and after; two-bit bytes (256 words and addresses), 16-byte page, 18 bytes of memory |
| `board` | one instruction per `run_cycle` under changing mappings and modes; isolation, torn and acknowledged stores, x0 under writes of the session and of programs | one-bit bytes, 16 addresses; pages of four bytes, ten bytes of memory; three page tables (identity with a wrap-around page partly beyond memory, read-only text, all pages on one frame); 2 modes at the start and 3 later, the pc at 0 or 14, 12 × 2 instructions in two frames, two calls between cycles out of three new entries, three modes, three addresses, two words |
| `python_stages` | immediates of built objects, ends raised by them | seven classes from two words, every field but rs1 and rs2 set to zero or to more ones than it holds, in any order; any hand-over to any stage |
| six `violation` runs | one statement of a comment, a docstring or a test each | as the passing run of the same module, but `load_executes` with one load, `jump_redirects` and `result_is_computed` with the six files, three loads and two initial values of `alu_result` |

The page is small because only its boundaries matter: a word inside, a word
across the end, the last word, the end of memory inside and behind a page.
Four instructions fill a page, and runs after an exception walk to its end.
Every pair of instructions occurs inside a program, and two loads let every
program follow every other one, so each latch meets each instruction that could
find it stale.  `MaxLoads` bounds only the number of loads.  On the board two calls are enough
to change a mapping and the mode, or to remap a page and move the pc back, around
instructions that left something in every latch; cycles are not bounded.  rs1
and rs2 are left out of `Settable` because no outcome of a stage depends on
them.

What the violation runs show is described under `findings` in `PROJECT.json`:
immediates of several ranges pile up on the low bits, jumps and branches never
move the pc, loads are refused by the decode stage, JAL links a value it did not
compute, a right shift whose funct7 asks for the arithmetic one shifts zeroes in,
and the later stages of a Python session take no instruction.

Three more disagreements are modelled as the code has them, and need no run to
be seen in the source: a fetch asks for the right to read and never for the
right to execute (`FetchStage.cpp:9`, against `PageTableEntry.hpp:17` and `:47`);
`get_entry` throws `PageFaultException` (`PageTable.cpp:15`) where
`PageTable.hpp:25` announces `std::out_of_range`; the setter of rd of the R format
assigns the opcode (`virtuv_bindings.cpp:254`, under the name given at `:249`).

Operators commented `Mutant:` stand before the definition they vary.  No
specification uses them; `PROJECT.json` pairs each with a property that must
fail when it takes the definition's place, which shows that the property can
see such a bug within the bounds above.

### Fairness and liveness

`RunTerminates` is checked under `RunProgress`, weak fairness of the cycles and
exits of `run`.  `run` is a loop in the only thread, so once called it keeps
stepping; nothing else is assumed, in particular not that the host ever calls
anything.  Runs end because no instruction moves the pc backwards, so a program
reaches a jump to itself, an unsupported word or the end of the page; `RunShrinks`
puts a number on it.

## Proofs

All theorems hold for every page size of at least four bytes that divides the
address space, every memory size, every number of values of a byte, every
number of registers, every encoding `Fields`, every arithmetic that yields
words, every set of files, every bound on loads and every initial garbage.
These are the named `ASSUME`s of the modules.  The ALU is proved at every width.

- `MMUProofs`: `TypeCorrect`; `Isolation`, from what a multi-byte write reaches
  (`VirtualMemoryLemmas!WrittenOnlyReached`) and where a byte of a granted page
  lies; `TornWrites`, since four bytes in one page lie side by side
  (`SamePageBytes`) and share their entry; `WordsReadBack`, since the bytes of a
  word have four different page offsets (`BytesApart`), so none of them
  overwrites another even where pages share a frame or the address wraps
  (`WrittenLands`).  The inductive part is that only `WriteWord` is followed by
  the state the properties speak of.
- `DecodeStageProofs`: `TypeCorrect`, `DecodeWhole`; `EndOfProgramExact`,
  `ImmediatesFaithful`, `OffsetsBounded` and `Tiling` for all 32-bit words.  They
  need an invariant only for the type of the word; the rest is about unions of
  shifted bit sets.
- `PipelineProofs`: what both machines use.  `WriteBackEffect` says that the
  register bank never refuses what write back writes, so that stage never
  throws.  `CycleType` and `CycleLatches` say that every stage keeps the types
  and `LatchesAgree`, `SelfOffset` that a target equal to the pc is an offset of
  zero, across the wrap.  `CycleImplements` is the step of both refinements: every step of `run_cycle` is one whole
  instruction or trap of `InstructionSet` when `TakesEffect`, and changes nothing
  visible otherwise (`FetchFaultImplements`, `ThrowImplements`,
  `StoreImplements`, `RetireImplements`, `StageStutters`).  It needs one invariant
  more, `Fetched` (`CycleFetched`): until an instruction takes effect its word is
  still readable at the address it was fetched from, and a jump past the execute
  stage is not a jump to itself.  `ForthFour` says that the pc of the abstract
  machine moves as the fetch did, across the wrap.
- `CPUProofs`: `TypeCorrect`; `PageConfinement`, `PcConfinement`,
  `OneInstruction`, `EndIsJumpToSelf`, `OnlyIllegal`, `StoresLand`, `LoadsWhole`,
  `FiniteRuns`, all from one inductive invariant `IInv`.
  Beside the properties it says that the page table is still the constructor's
  (`OnlyPage0`), that no cycle is under way outside `run` or while an exception
  travels (`Resting`, `ReplyAgrees`), that a fetched word stays readable
  (`FetchedReadable`), that an end of program was found at a jump with
  offset zero (`EndFound`) and an `invalid_argument` at an illegal word
  (`IllegalFound`), and that a store about to retire is in memory
  (`StoreWritten`).  Without `OnlyPage0` a write could reach any frame;
  without `Resting` a load could change the pc under a decoded instruction;
  without `FetchedReadable` the host could not read the jump that ended the
  program.  The arithmetic core is `FetchInside` (a readable word lies in the
  page, since the address space has at least two pages), `Page0Symmetric` (what
  page 0 lets be written can be read) and `ImageLands` (a file that is written
  without a fault ends inside the page, so no byte of it lands twice).
  `FiniteRuns` (`RunShrinks`) is the safety half of termination: `WorkLeft` is a
  natural number because the pc stays in the page, and every step inside `run`
  lowers it, so a run takes at most `2 + 2 * PageSize` steps.
  `Refinement`, that `CPU` implements `ISA`: a call or an exit of `run` is a step
  of `ISA` (`HostImplements`), a cycle is `CycleImplements` under `IInv` and
  `Fetched`, and an instruction of `Pipeline`'s `InstructionSet` is one of
  `ISA`'s (`SameInstruct`).
- `BoardProofs`: `TypeCorrect`, `OneInstruction`, `Isolation`, `TornStores`,
  `StoresReadBack`, `ZeroRegister`, for every set of machines, entries, addresses, words and
  calls.  `TypeOK` carries the strengthening they need: no cycle is under way
  while the session calls (`~cycling => stage = "fetch"`), so `SessionRests`, and
  nothing is thrown inside one.  `Refinement`, that `Board` implements
  `BoardISA`, from `CycleImplements` for the cycles and `SessionImplements` for
  the calls.
- `ALUProofs`: `TypeCorrect`, `ArithmeticOfNumbers`, `HalfAdders`, `SignsFlipped`,
  `ShiftsBack`, for every width, every register and every immediate.  The proofs go by induction on positions (`Climb`, `Descend`), from
  the fact that every set of natural numbers has a least element (`Least`).
  `NumberUnfolds` says that the recursion behind `Unsigned` has a solution, hence
  digits; `CarryStep` and `CarryUnique` that the carry is the only relation that
  passes on as an adder's does.  From these, `SumNumber`: the number of a sum and
  the modulus for the carry out of it are the sum of the numbers.  `AddUndoesSub`
  finds the carries of undoing a difference where it borrowed, `HalfAdder` those
  of the exclusive or and the doubled and; `OrderFrom` compares two registers from
  the top; `ShiftDoubles` and `ShiftHalves` follow a shift one position further.
- `PythonStagesProofs`: `TypeCorrect`, `FieldsGiveImmediate`, `EndNeedsZeroFields`,
  for all words, all settable fields and all 32-bit values.  `AssignStep` says that
  a setter keeps an object one, `ZeroImmediate` that no range hides another, so
  that an immediate is zero only if all its fields are.

Only model-checked: `RunTerminates` (liveness is out of the prover's reach; that no
run is infinite is `FiniteRuns`, that a step is always possible stays with TLC).
The six violation runs have no theorem: each shows a behaviour of the code.

## Not modelled

Logging and the command line (no state of their own); `get_register`, a read;
of the bindings the lifetime of objects (the MMU keeps raw pointers), the names
exceptions get in Python, a `FetchStage` on its own (one stage of `Board`), and
results that Python builds and sets on a stage, which no later stage can use since
it never has an instruction, but for the load data `write_back` chooses freely; files larger than an address space
and directories given as files; concurrent use from several Python threads,
since the bindings keep the interpreter lock.

## Plan

The ties between the two halves as theorems: that the fields `Instruction`
reads from 32 bits are an `Instruction` of `Machine` and that `ALU` meets what
`Machine` assumes of its arithmetic, with a word seen as the bits of its bytes.
