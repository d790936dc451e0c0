-------------------------------- MODULE Board --------------------------------
(***************************************************************************)
(* Pipeline over a register bank and an MMU that belong to a Python        *)
(* session.  Unlike a CPU, whose page table its constructor fixes, a board *)
(* runs under any page table, in any mode, from any pc, and both change    *)
(* from one cycle to the next.                                             *)
(***************************************************************************)
EXTENDS Pipeline, BoardHost

CONSTANT Garbage   \* what alu_result may hold before anything is computed

ASSUME BoardGarbageAssumption == Garbage \subseteq Word

vars == <<pipelineVars, cycling, calls>>

Init ==
  /\ HostInit
  /\ \E garbage \in Garbage : PipelineInit(garbage)

Session == (HostCall \/ RunCycle) /\ UNCHANGED <<stage, latches>>

\* run_cycle returns, or throws, where the next cycle would fetch.
Cycle ==
  /\ cycling
  /\ run_cycle
  /\ cycling' = (stage' # "fetch")
  /\ UNCHANGED calls

Next == Session \/ Cycle

Spec == Init /\ [][Next]_vars

-----------------------------------------------------------------------------
\* Every variable keeps its type, and the session calls only while no cycle
\* is under way.
TypeOK ==
  /\ PipelineTypeOK
  /\ cycling \in BOOLEAN
  /\ calls \in 0 .. MaxCalls
  /\ ~cycling => stage = "fetch"
  /\ cycling => thrown = "none"

\* x0 reads as zero, although the session writes registers too: its writes to
\* x0 meet the register bank itself, those of programs the write back stage.
X0Zero == registers[0] = ZeroWord

\* Isolation of programs: whatever the session maps and whatever mode it sets,
\* a cycle changes a byte of physical memory only through a page whose entry
\* lets the mode of this cycle write.  (The session itself may write physical
\* memory directly.)
CyclesStayInside ==
  [][cycling =>
       \A pa \in DOMAIN memory : memory'[pa] # memory[pa] => WritableAt(pa)]_vars

\* A store that throws out of run_cycle leaves a part of its word behind only
\* where the word leaves its page or where memory ends inside the page.
TornStoreAtBoundary ==
  [][cycling /\ thrown' # "none" /\ memory' # memory =>
       \/ PageNumber(EffectiveAddress) # PageNumber(Wrap(EffectiveAddress + 3))
       \/ PhysicalAddress(EffectiveAddress) + 3 \notin DOMAIN memory]_vars

\* A store that reports success has stored the register it names: its address
\* reads it back wherever the mode may read, across pages, across the end of
\* the address space and through pages that share a frame.
StoreReadsBack ==
  stage = "write_back" /\ IsStore =>
    /\ mem_result.store_success
    /\ \A i \in ByteIndex :
         LET va == Wrap(EffectiveAddress + i) IN
         ByteOutcome(va, FALSE) = "ok" => memory[PhysicalAddress(va)] = registers[inst.rs2][i]

-----------------------------------------------------------------------------
\* The board implements BoardISA: the session's calls are those of the
\* abstract session, and a cycle is pending until its instruction takes effect.
Pending == cycling /\ ~StoreDone

isa == INSTANCE BoardISA WITH pc <- InstructionPc, cycling <- Pending

Implements == isa!Spec
=============================================================================
