------------------------------ MODULE MMUProofs ------------------------------
(***************************************************************************)
(* Type correctness and isolation of the MMU, for every memory, page size, *)
(* set of entries the host adds, and every order of its calls.             *)
(***************************************************************************)
EXTENDS MMU, VirtualMemoryLemmas

\* The host's calls keep the state well formed.
THEOREM TypeCorrect == Spec => []TypeOK
<1> USE DEF TypeOK, MemoryTypeOK
<1>1. Init => TypeOK
  <2> SUFFICES ASSUME Init PROVE TypeOK
    OBVIOUS
  <2>1. 0 \in Byte /\ 0 \in Address
    BY ByteModAssumption, WordModPositive DEF Byte, Address
  <2>2. call \in Call
    BY <2>1, ZeroWordType DEF Init, Call, Op, Outcome
  <2> QED
    BY <2>1, <2>2 DEF Init
<1>2. TypeOK /\ [Next]_vars => TypeOK'
  <2> SUFFICES ASSUME TypeOK, [Next]_vars PROVE TypeOK'
    OBVIOUS
  <2> USE DEF Answer
  <2>0. /\ Addresses \subseteq Address
        /\ \A w \in Data : w \in Word /\ w[0] \in Byte
        /\ ZeroWord \in Word
        /\ 0 \in Address
    BY HostAssumption, ZeroWordType, WordModPositive DEF Word, ByteIndex, Address
  <2>1. \A b \in Byte : AsWord(b) \in Word
    BY ByteModAssumption DEF AsWord, Word, Byte
  <2>2. ASSUME NEW addition \in Additions, AddEntry(addition[1], addition[2]) PROVE TypeOK'
    <3>1. addition[1] \in Address /\ addition[2] \in PageTableEntry
      BY HostAssumption
    <3>2. entries' \in [DOMAIN entries' -> PageTableEntry] /\ DOMAIN entries' \subseteq Address
      BY <2>2, <3>1 DEF AddEntry
    <3>3. call' \in Call
      BY <2>2, <2>0, <3>1 DEF AddEntry, Call, Op, Outcome
    <3> QED
      BY <2>2, <3>2, <3>3 DEF AddEntry
  <2>3. ASSUME NEW mode \in PrivilegeMode, SetPrivilegeMode(mode) PROVE TypeOK'
    BY <2>3, <2>0 DEF SetPrivilegeMode, Call, Op, Outcome
  <2>4. ASSUME NEW va \in Addresses, GetEntry(va) PROVE TypeOK'
    BY <2>4, <2>0 DEF GetEntry, memoryVars, Call, Op, Outcome
  <2>5. ASSUME NEW va \in Addresses, NEW is_write \in BOOLEAN, TranslateAddress(va, is_write)
        PROVE  TypeOK'
    BY <2>5, <2>0 DEF TranslateAddress, translate_address, memoryVars, Call, Op, Outcome
  <2>6. ASSUME NEW va \in Addresses, Read(va) PROVE TypeOK'
    <3>1. ByteOutcome(va, FALSE) = "ok" => memory[PhysicalAddress(va)] \in Byte
      BY OkByte
    <3> QED
      BY <2>6, <2>0, <2>1, <3>1, ByteOutcomeType DEF Read, memoryVars, Call, Op
  <2>7. ASSUME NEW va \in Addresses, ReadWord(va) PROVE TypeOK'
    BY <2>7, <2>0, WordAtType, WordOutcomeType DEF ReadWord, memoryVars, Call, Op
  <2>8. ASSUME NEW va \in Addresses, NEW w \in Data, Write(va, w[0]) PROVE TypeOK'
    <3>1. memory' \in [0 .. MemorySize - 1 -> Byte]
      BY <2>8, <2>0, WrittenType DEF Write
    <3> QED
      BY <2>8, <2>0, <2>1, <3>1, ByteOutcomeType DEF Write, Call, Op
  <2>9. ASSUME NEW va \in Addresses, NEW w \in Data, WriteWord(va, w) PROVE TypeOK'
    <3>1. memory' \in [0 .. MemorySize - 1 -> Byte]
      BY <2>9, <2>0, WrittenType DEF WriteWord, Word
    <3> QED
      BY <2>9, <2>0, <3>1, WordOutcomeType DEF WriteWord, Call, Op
  <2>10. CASE UNCHANGED vars
    BY <2>10 DEF vars
  <2> QED
    BY <2>2, <2>3, <2>4, <2>5, <2>6, <2>7, <2>8, <2>9, <2>10 DEF Next, Access
<1> QED
  BY <1>1, <1>2, PTL DEF Spec

-----------------------------------------------------------------------------
\* Isolation: no sequence of calls changes a byte outside the frames the
\* current mode may write.
THEOREM Isolation == Spec => WritesStayInside
<1> DEFINE Inside == \A pa \in DOMAIN memory : memory'[pa] # memory[pa] => WritableAt(pa)
<1>1. TypeOK /\ [Next]_vars => [Inside]_vars
  <2> SUFFICES ASSUME TypeOK, [Next]_vars PROVE Inside
    OBVIOUS
  <2>1. ASSUME NEW va \in Addresses, NEW w \in Data, Write(va, w[0]) PROVE Inside
    BY <2>1, WrittenInside, HostAssumption DEF Write, ByteIndex, TypeOK
  <2>2. ASSUME NEW va \in Addresses, NEW w \in Data, WriteWord(va, w) PROVE Inside
    BY <2>2, WrittenInside, HostAssumption DEF WriteWord, Word, TypeOK
  <2>3. CASE UNCHANGED memory
    BY <2>3
  <2>4. \/ UNCHANGED memory
        \/ \E va \in Addresses, w \in Data : Write(va, w[0]) \/ WriteWord(va, w)
    BY DEF Next, Access, AddEntry, SetPrivilegeMode, GetEntry, TranslateAddress, Read,
           ReadWord, vars, memoryVars
  <2> QED
    BY <2>1, <2>2, <2>3, <2>4
<1>2. Spec => []TypeOK
  BY TypeCorrect
<1> QED
  BY <1>1, <1>2, PTL DEF Spec, WritesStayInside

-----------------------------------------------------------------------------
\* Only WriteWord answers for a write_word.
LEMMA WhoWroteAWord ==
  ASSUME Next, call'.op = "write_word"
  PROVE  \E a \in Addresses, w \in Data : WriteWord(a, w)
<1>1. ASSUME NEW a, NEW e, AddEntry(a, e) PROVE FALSE
  BY <1>1 DEF AddEntry, Answer
<1>2. ASSUME NEW mode, SetPrivilegeMode(mode) PROVE FALSE
  BY <1>2 DEF SetPrivilegeMode, Answer
<1>3. ASSUME NEW a, GetEntry(a) PROVE FALSE
  BY <1>3 DEF GetEntry, Answer
<1>4. ASSUME NEW a, NEW is_write, TranslateAddress(a, is_write) PROVE FALSE
  BY <1>4 DEF TranslateAddress, Answer
<1>5. ASSUME NEW a, Read(a) PROVE FALSE
  BY <1>5 DEF Read, Answer
<1>6. ASSUME NEW a, ReadWord(a) PROVE FALSE
  BY <1>6 DEF ReadWord, Answer
<1>7. ASSUME NEW a, NEW b, Write(a, b) PROVE FALSE
  BY <1>7 DEF Write, Answer
<1> QED
  BY <1>1, <1>2, <1>3, <1>4, <1>5, <1>6, <1>7 DEF Next, Access

\* Atomicity within a page: whatever the host has mapped, a failed write_word
\* leaves something behind only at the end of a page or of memory.
THEOREM TornWrites == Spec => TornOnlyAtBoundary
<1> DEFINE va == call'.address
           Torn == /\ call'.op = "write_word"
                   /\ call'.outcome # "ok"
                   /\ memory' # memory
                   => \/ PageNumber(va) # PageNumber(Wrap(va + 3))
                      \/ PhysicalAddress(va) + 3 \notin DOMAIN memory
<1>1. TypeOK /\ [Next]_vars => [Torn]_vars
  <2> SUFFICES ASSUME TypeOK, [Next]_vars, call'.op = "write_word", call'.outcome # "ok",
                      memory' # memory,
                      PageNumber(va) = PageNumber(Wrap(va + 3))
               PROVE  PhysicalAddress(va) + 3 \notin DOMAIN memory
    OBVIOUS
  <2>1. PICK a \in Addresses, w \in Data : WriteWord(a, w)
    BY WhoWroteAWord DEF vars
  <2>2. /\ va = a
        /\ WordOutcome(a, TRUE) # "ok"
        /\ Written(a, w) # memory
    BY <2>1 DEF WriteWord, Answer
  <2>3. a \in Address /\ DOMAIN w \subseteq ByteIndex
    BY HostAssumption DEF Word
  <2> QED
    BY <2>2, <2>3, TornWord DEF TypeOK
<1>2. Spec => []TypeOK
  BY TypeCorrect
<1> QED
  BY <1>1, <1>2, PTL DEF Spec, TornOnlyAtBoundary

\* A word that was written reads back, through whatever pages and frames.
THEOREM WordsReadBack == Spec => []ReadBack
<1>1. Init => ReadBack
  BY DEF Init, ReadBack
<1>2. TypeOK /\ ReadBack /\ [Next]_vars => ReadBack'
  <2> SUFFICES ASSUME TypeOK, ReadBack, [Next]_vars PROVE ReadBack'
    OBVIOUS
  <2>1. ASSUME NEW a \in Addresses, NEW w \in Data, WriteWord(a, w) PROVE ReadBack'
    <3> SUFFICES ASSUME WordOutcome(a, TRUE) = "ok", NEW i \in ByteIndex
                 PROVE  memory'[PhysicalAddress(Wrap(a + i))] = w[i]
      BY <2>1 DEF WriteWord, Answer, ReadBack, PhysicalAddress, get_entry
    <3>1. a \in Address /\ w \in Word
      BY HostAssumption
    <3> QED
      BY <2>1, <3>1, WrittenLands DEF TypeOK, WriteWord
  <2>2. CASE call'.op # "write_word"
    BY <2>2 DEF ReadBack
  <2>3. CASE UNCHANGED vars
    BY <2>3 DEF vars, ReadBack, ByteOutcome, translate_address, HasEntry, get_entry, Grants,
                Right, PhysicalAddress
  <2> QED
    BY <2>1, <2>2, <2>3, WhoWroteAWord
<1> QED
  BY <1>1, <1>2, TypeCorrect, PTL DEF Spec
=============================================================================
