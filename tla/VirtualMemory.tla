--------------------------- MODULE VirtualMemory ---------------------------
(***************************************************************************)
(* The memory of the emulator: physical memory, page table, and the        *)
(* translation the MMU performs on every byte it reads or writes.  This    *)
(* module holds the state and the operators; MMU drives it as the Python   *)
(* host does, Pipeline as the emulated program does.                       *)
(*                                                                         *)
(* A word is its four bytes, least significant first: byte i of w is       *)
(* (w >> 8i) & 0xFF.  Value(w) is the number, Address the uint32_t range.  *)
(* In the code ByteMod = 256 and PageSize = 4096.                          *)
(***************************************************************************)
EXTENDS Integers

CONSTANTS
  ByteMod,     \* number of values of a byte
  PageSize,    \* bytes in a page
  MemorySize   \* bytes of physical memory, as the constructor is given

VARIABLES
  memory,          \* PhysicalMemory::memory, one byte per physical address
  entries,         \* PageTable::entries, a map from keys to entries
  privilege_mode   \* MMU::privilege_mode

memoryVars == <<memory, entries, privilege_mode>>

WordMod == ByteMod * ByteMod * ByteMod * ByteMod

ASSUME ByteModAssumption == ByteMod \in Nat \ {0}

\* Pages tile the address space, and there is more than one of them.
ASSUME PageSizeAssumption ==
  /\ PageSize \in Nat
  /\ PageSize >= 4
  /\ PageSize < WordMod
  /\ WordMod % PageSize = 0

ASSUME MemorySizeAssumption == MemorySize \in Nat

Byte == 0 .. ByteMod - 1
ByteIndex == 0 .. 3
Word == [ByteIndex -> Byte]
Address == 0 .. WordMod - 1

Value(w) == w[0] + ByteMod * (w[1] + ByteMod * (w[2] + ByteMod * w[3]))

Wrap(n) == n % WordMod    \* uint32_t arithmetic on addresses

ZeroWord == [i \in ByteIndex |-> 0]

-----------------------------------------------------------------------------
(* Page table entries: the frame and the set of permission bits.           *)

PrivilegeMode == {"USER", "SUPERVISOR", "MACHINE"}
PteBit == {"VALID", "READ", "WRITE", "EXECUTE", "USER_ACCESSIBLE"}
Frame == {a \in Address : a % PageSize = 0}
PageTableEntry == [frame : Frame, bits : SUBSET PteBit]

is_valid(e) == "VALID" \in e.bits

\* Mutant: the mode is not looked at.
GrantsAnyMode(e, right) == is_valid(e) /\ right \in e.bits
Grants(e, right) ==
  /\ is_valid(e)
  /\ right \in e.bits
  /\ (privilege_mode = "USER") => "USER_ACCESSIBLE" \in e.bits

\* What an entry must say for the current mode to write its page.
WriteRights ==
  {"VALID", "WRITE"} \cup (IF privilege_mode = "USER" THEN {"USER_ACCESSIBLE"} ELSE {})

\* pa lies in the frame of entry e.
InFrame(e, pa) == pa - e.frame \in 0 .. PageSize - 1

\* A page the current mode may write is mapped onto the frame of pa.
WritableAt(pa) ==
  \E page \in DOMAIN entries :
    /\ page % PageSize = 0
    /\ WriteRights \subseteq entries[page].bits
    /\ InFrame(entries[page], pa)

\* Mutant: an offset mask one bit short.
ShortOffsetMask(e, va) == e.frame + (va % (PageSize \div 2))
get_physical_address(e, va) == e.frame + (va % PageSize)

-----------------------------------------------------------------------------
(* Lookup and translation.  Entries are stored under the address passed to *)
(* add_entry and looked up under the page number.                          *)

PageNumber(va) == va - (va % PageSize)

\* Mutant: the lookup does not mask the address.
HasEntryUnmasked(va) == {va, PageNumber(va)} \subseteq DOMAIN entries
HasEntry(va) == PageNumber(va) \in DOMAIN entries
get_entry(va) == entries[PageNumber(va)]

\* The right an access asks for.
Right(is_write) == IF is_write THEN "WRITE" ELSE "READ"

translate_address(va, is_write) ==
  IF ~HasEntry(va) THEN "PageFault"
  ELSE IF ~is_valid(get_entry(va)) THEN "PageFault"
  ELSE IF ~Grants(get_entry(va), Right(is_write)) THEN "AccessViolation"
  ELSE "ok"

PhysicalAddress(va) == get_physical_address(get_entry(va), va)

Outcome == {"ok", "PageFault", "AccessViolation", "OutOfRange"}

\* How reading or writing the byte at va ends: MMU::read, MMU::write and the
\* bounds check of PhysicalMemory behind them.
ByteOutcome(va, is_write) ==
  IF translate_address(va, is_write) # "ok" THEN translate_address(va, is_write)
  ELSE IF PhysicalAddress(va) \notin DOMAIN memory THEN "OutOfRange"
  ELSE "ok"

-----------------------------------------------------------------------------
(* Accesses of several bytes go byte by byte, from the lowest address, and *)
(* stop at the first byte that throws; what was written before stays.      *)

ReachesByte(va, i, is_write) ==
  \A j \in 0 .. i : ByteOutcome(Wrap(va + j), is_write) = "ok"

\* Mutant: a word goes on for a fifth byte.
FiveByteOutcome(va, is_write) ==
  IF ReachesByte(va, 4, is_write) THEN "ok"
  ELSE LET first == CHOOSE i \in 0 .. 4 : ByteOutcome(Wrap(va + i), is_write) # "ok"
       IN ByteOutcome(Wrap(va + first), is_write)

WordOutcome(va, is_write) ==
  IF ReachesByte(va, 3, is_write) THEN "ok"
  ELSE LET first == CHOOSE i \in ByteIndex :
                      /\ ByteOutcome(Wrap(va + i), is_write) # "ok"
                      /\ \A j \in 0 .. (i - 1) : ByteOutcome(Wrap(va + j), is_write) = "ok"
       IN ByteOutcome(Wrap(va + first), is_write)

WordAt(va) == [i \in ByteIndex |-> memory[PhysicalAddress(Wrap(va + i))]]

\* Mutant: memory grows by a byte instead of throwing out_of_range.
WrittenGrowing(va, bytes) ==
  [pa \in DOMAIN memory \cup {n \in {MemorySize} : WordOutcome(va, TRUE) = "OutOfRange"} |->
     IF pa \in DOMAIN memory THEN memory[pa] ELSE 0]

\* The memory after the bytes have been written from va on.  At most one of
\* them lands on a physical byte: the four of a word lie in different page
\* offsets, and a program image is written through an injective table.
Written(va, bytes) ==
  LET reached == {i \in DOMAIN bytes : ReachesByte(va, i, TRUE)}
      landing(pa) == {i \in reached : PhysicalAddress(Wrap(va + i)) = pa}
  IN [pa \in DOMAIN memory |->
        IF landing(pa) = {} THEN memory[pa] ELSE bytes[CHOOSE i \in landing(pa) : TRUE]]

MemoryTypeOK ==
  /\ memory \in [0 .. MemorySize - 1 -> Byte]
  /\ DOMAIN entries \subseteq Address
  /\ entries \in [DOMAIN entries -> PageTableEntry]
  /\ privilege_mode \in PrivilegeMode
=============================================================================
