--------------------------------- MODULE MMU ---------------------------------
(***************************************************************************)
(* The MMU, page table and physical memory driven from outside, as         *)
(* tests/basic_directed/test_mmu.py does through the Python bindings: the  *)
(* host adds page table entries, changes the privilege mode, and reads and *)
(* writes bytes and words.  Every call is one step, since nothing runs     *)
(* beside it; call records the last one and how it ended.                  *)
(***************************************************************************)
EXTENDS VirtualMemory

CONSTANTS
  Addresses,   \* virtual addresses the host uses
  Data,        \* words the host writes
  Additions    \* pairs of an address and an entry the host passes to add_entry

ASSUME HostAssumption ==
  /\ Addresses \subseteq Address
  /\ Data \subseteq Word
  /\ Additions \subseteq Address \X PageTableEntry

VARIABLE call

vars == <<memory, entries, privilege_mode, call>>

Op == {"none", "add_entry", "get_entry", "translate_address", "set_privilege_mode",
       "read", "write", "read_word", "write_word"}

Call == [op : Op, address : Address, value : Word, outcome : Outcome]

\* The byte a read returns, or a write is given, as a word.
AsWord(b) == [i \in ByteIndex |-> IF i = 0 THEN b ELSE 0]

Answer(op, va, w, outcome) ==
  call' = [op |-> op, address |-> va, value |-> w, outcome |-> outcome]

Init ==
  /\ memory = [pa \in 0 .. MemorySize - 1 |-> 0]
  /\ entries = [a \in {} |-> 0]
  /\ privilege_mode \in PrivilegeMode
  /\ call = [op |-> "none", address |-> 0, value |-> ZeroWord, outcome |-> "ok"]

-----------------------------------------------------------------------------
AddEntry(va, e) ==
  /\ entries' = [a \in DOMAIN entries \cup {va} |-> IF a = va THEN e ELSE entries[a]]
  /\ Answer("add_entry", va, ZeroWord, "ok")
  /\ UNCHANGED <<memory, privilege_mode>>

GetEntry(va) ==
  /\ Answer("get_entry", va, ZeroWord, IF HasEntry(va) THEN "ok" ELSE "PageFault")
  /\ UNCHANGED memoryVars

TranslateAddress(va, is_write) ==
  /\ Answer("translate_address", va, ZeroWord, translate_address(va, is_write))
  /\ UNCHANGED memoryVars

SetPrivilegeMode(mode) ==
  /\ privilege_mode' = mode
  /\ Answer("set_privilege_mode", 0, ZeroWord, "ok")
  /\ UNCHANGED <<memory, entries>>

Read(va) ==
  /\ Answer("read", va,
            IF ByteOutcome(va, FALSE) = "ok" THEN AsWord(memory[PhysicalAddress(va)])
                                             ELSE ZeroWord,
            ByteOutcome(va, FALSE))
  /\ UNCHANGED memoryVars

Write(va, b) ==
  /\ memory' = Written(va, [i \in {0} |-> b])
  /\ Answer("write", va, AsWord(b), ByteOutcome(va, TRUE))
  /\ UNCHANGED <<entries, privilege_mode>>

ReadWord(va) ==
  /\ Answer("read_word", va,
            IF WordOutcome(va, FALSE) = "ok" THEN WordAt(va) ELSE ZeroWord,
            WordOutcome(va, FALSE))
  /\ UNCHANGED memoryVars

WriteWord(va, w) ==
  /\ memory' = Written(va, w)
  /\ Answer("write_word", va, w, WordOutcome(va, TRUE))
  /\ UNCHANGED <<entries, privilege_mode>>

Access(va) ==
  \/ GetEntry(va)
  \/ \E is_write \in BOOLEAN : TranslateAddress(va, is_write)
  \/ Read(va)
  \/ ReadWord(va)
  \/ \E w \in Data : Write(va, w[0])
  \/ \E w \in Data : WriteWord(va, w)

Next ==
  \/ \E addition \in Additions : AddEntry(addition[1], addition[2])
  \/ \E mode \in PrivilegeMode : SetPrivilegeMode(mode)
  \/ \E va \in Addresses : Access(va)

Spec == Init /\ [][Next]_vars

-----------------------------------------------------------------------------
\* The state stays well formed: a fixed-size memory of bytes, entries kept
\* under 32-bit keys, a privilege mode, and an answer of the last call.
TypeOK ==
  /\ MemoryTypeOK
  /\ call \in Call

\* Isolation: a byte of physical memory changes only if some page whose entry
\* lets the current mode write is mapped onto its frame.  No order of
\* add_entry, mode changes and (torn) writes gets around it.
WritesStayInside ==
  [][\A pa \in DOMAIN memory : memory'[pa] # memory[pa] => WritableAt(pa)]_vars

\* write_word stores four bytes one after the other and has no rollback, so a
\* failed one may leave a prefix.  It does so only where the word leaves its
\* page or where physical memory ends inside the page; a word inside a page
\* backed by memory is stored whole or not at all.
TornOnlyAtBoundary ==
  [][LET va == call'.address IN
     /\ call'.op = "write_word"
     /\ call'.outcome # "ok"
     /\ memory' # memory
     => \/ PageNumber(va) # PageNumber(Wrap(va + 3))
        \/ PhysicalAddress(va) + 3 \notin DOMAIN memory]_vars

\* A word whose write_word returned is read back unchanged by the bytes of the
\* same address, also across pages, across the end of the address space, and
\* where two pages share a frame.
ReadBack ==
  call.op = "write_word" /\ call.outcome = "ok" =>
    \A i \in ByteIndex :
      LET va == Wrap(call.address + i) IN
      ByteOutcome(va, FALSE) = "ok" => memory[PhysicalAddress(va)] = call.value[i]
=============================================================================
