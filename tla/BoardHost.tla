------------------------------ MODULE BoardHost ------------------------------
(***************************************************************************)
(* A Python session that builds a machine of its own from RegisterBank,    *)
(* PhysicalMemory, PageTable and MMU and steps it with run_cycle.  The     *)
(* session owns every part: between two cycles it maps pages, changes the  *)
(* mode, moves the pc and writes registers and memory.  It cannot do so    *)
(* during a cycle, since run_cycle keeps the interpreter.                  *)
(***************************************************************************)
EXTENDS Machine

CONSTANTS
  SetUps,      \* the machines a session has built before the first cycle
  Additions,   \* pairs of an address and an entry given to add_entry
  Addresses,   \* addresses given to set_pc and write_word
  Data,        \* words given to write and write_word
  MaxCalls     \* bound on the calls between cycles

SetUp == [memory : [0 .. MemorySize - 1 -> Byte], privilege_mode : PrivilegeMode,
          registers : [Reg -> Word], pc : Address]

\* The page table is a map of any domain, so SetUps holds pairs of it and the rest.
\* A register bank is constructed with zeroes, and x0 cannot be written.
ASSUME SetUpsAssumption ==
  \A s \in SetUps :
    /\ s[1] \in SetUp
    /\ s[1].registers[0] = ZeroWord
    /\ DOMAIN s[2] \subseteq Address
    /\ s[2] \in [DOMAIN s[2] -> PageTableEntry]
ASSUME BoardHostAssumption ==
  /\ Additions \subseteq Address \X PageTableEntry
  /\ Addresses \subseteq Address
  /\ Data \subseteq Word
  /\ MaxCalls \in Nat

VARIABLES
  cycling,   \* run_cycle has been called and has not returned
  calls      \* calls between cycles so far

hostVars == <<memoryVars, registers, pc, thrown, cycling, calls>>

HostInit ==
  /\ \E s \in SetUps :
       /\ memory = s[1].memory
       /\ entries = s[2]
       /\ privilege_mode = s[1].privilege_mode
       /\ registers = s[1].registers
       /\ pc = s[1].pc
  /\ thrown = "none"
  /\ cycling = FALSE
  /\ calls = 0

-----------------------------------------------------------------------------
Between ==
  /\ ~cycling
  /\ calls < MaxCalls
  /\ calls' = calls + 1
  /\ UNCHANGED <<cycling, thrown>>

AddEntry(va, e) ==
  /\ Between
  /\ entries' = [a \in DOMAIN entries \cup {va} |-> IF a = va THEN e ELSE entries[a]]
  /\ UNCHANGED <<memory, privilege_mode, registers, pc>>

SetPrivilegeMode(mode) ==
  /\ Between
  /\ privilege_mode' = mode
  /\ UNCHANGED <<memory, entries, registers, pc>>

SetPc(va) ==
  /\ Between
  /\ pc' = va
  /\ UNCHANGED <<memoryVars, registers>>

\* Writing x0 throws invalid_argument and changes nothing.
WriteRegister(reg, w) ==
  /\ Between
  /\ registers' = WithRegister(reg, w)
  /\ UNCHANGED <<memoryVars, pc>>

WriteWord(va, w) ==
  /\ Between
  /\ memory' = Written(va, w)
  /\ UNCHANGED <<entries, privilege_mode, registers, pc>>

\* PhysicalMemory::write asks no page table; it throws beyond the memory.
WritePhysical(pa, b) ==
  /\ Between
  /\ memory' = IF pa \in DOMAIN memory THEN [memory EXCEPT ![pa] = b] ELSE memory
  /\ UNCHANGED <<entries, privilege_mode, registers, pc>>

HostCall ==
  \/ \E addition \in Additions : AddEntry(addition[1], addition[2])
  \/ \E mode \in PrivilegeMode : SetPrivilegeMode(mode)
  \/ \E va \in Addresses : SetPc(va)
  \/ \E reg \in Reg, w \in Data : WriteRegister(reg, w)
  \/ \E va \in Addresses, w \in Data : WriteWord(va, w)
  \/ \E pa \in Addresses, w \in Data : WritePhysical(pa, w[0])

\* The session calls run_cycle; what the last cycle threw is behind it.
RunCycle ==
  /\ ~cycling
  /\ cycling' = TRUE
  /\ thrown' = "none"
  /\ UNCHANGED <<memoryVars, registers, pc, calls>>
=============================================================================
