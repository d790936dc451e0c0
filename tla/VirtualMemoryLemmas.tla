------------------------- MODULE VirtualMemoryLemmas -------------------------
(***************************************************************************)
(* What the operators of VirtualMemory return, for every page size, every  *)
(* memory and every page table.                                            *)
(***************************************************************************)
EXTENDS VirtualMemory, TLAPS

\* The address space is not empty: a word has at least one value.
LEMMA WordModPositive == WordMod \in Nat \ {0}
<1>1. \A a, b \in Nat \ {0} : a * b \in Nat \ {0}
  OBVIOUS
<1>2. ByteMod * ByteMod \in Nat \ {0}
  BY <1>1, ByteModAssumption
<1>3. ByteMod * ByteMod * ByteMod \in Nat \ {0}
  BY <1>1, <1>2, ByteModAssumption
<1> QED
  BY <1>1, <1>3, ByteModAssumption DEF WordMod

\* uint32_t arithmetic yields an address.
LEMMA WrapType == ASSUME NEW n \in Int PROVE Wrap(n) \in Address
<1>1. \A m \in Nat \ {0} : (n % m) \in 0 .. m - 1
  OBVIOUS
<1> QED
  BY <1>1, WordModPositive DEF Wrap, Address

LEMMA ZeroWordType == ZeroWord \in Word
BY ByteModAssumption DEF ZeroWord, Word, Byte

\* The value of a word is a number of 32 bits, as an address is.
LEMMA ValueType == ASSUME NEW w \in Word PROVE Value(w) \in Address
<1> DEFINE B == ByteMod
<1>1. /\ B \in Nat \ {0}
      /\ w[0] \in 0 .. B - 1 /\ w[1] \in 0 .. B - 1
      /\ w[2] \in 0 .. B - 1 /\ w[3] \in 0 .. B - 1
  BY ByteModAssumption DEF Word, ByteIndex, Byte
<1>2. \A m \in Nat \ {0}, d \in 0 .. B - 1 : \A r \in 0 .. m - 1 :
        /\ B * m \in Nat \ {0}
        /\ d + (B * r) \in 0 .. (B * m) - 1
  <2> SUFFICES ASSUME NEW m \in Nat \ {0}, NEW d \in 0 .. B - 1, NEW r \in 0 .. m - 1
               PROVE  B * m \in Nat \ {0} /\ d + (B * r) \in 0 .. (B * m) - 1
    OBVIOUS
  <2>1. B * m \in Nat \ {0} /\ B * r \in Nat
    BY <1>1
  <2>2. B * r <= B * (m - 1)
    BY <1>1
  <2>3. B * (m - 1) = (B * m) - B
    BY <1>1
  <2> HIDE DEF B
  <2> QED
    BY <1>1, <2>1, <2>2, <2>3
<1>3. w[2] + (B * w[3]) \in 0 .. (B * B) - 1 /\ B * B \in Nat \ {0}
  BY <1>1, <1>2
<1>4. /\ w[1] + (B * (w[2] + (B * w[3]))) \in 0 .. (B * (B * B)) - 1
      /\ B * (B * B) \in Nat \ {0}
  BY <1>1, <1>2, <1>3
<1>5. w[0] + (B * (w[1] + (B * (w[2] + (B * w[3]))))) \in 0 .. (B * (B * (B * B))) - 1
  BY <1>1, <1>2, <1>4
<1>6. B * (B * (B * B)) = WordMod
  BY <1>1 DEF WordMod
<1> QED
  BY <1>5, <1>6 DEF Value, Address

-----------------------------------------------------------------------------
\* A byte is accessed only through a granting entry of its own page, and only
\* where memory exists.
LEMMA OkByte ==
  ASSUME NEW va, NEW is_write \in BOOLEAN, ByteOutcome(va, is_write) = "ok"
  PROVE  /\ PageNumber(va) \in DOMAIN entries
         /\ Grants(entries[PageNumber(va)], Right(is_write))
         /\ PhysicalAddress(va) \in DOMAIN memory
BY DEF ByteOutcome, translate_address, HasEntry, get_entry

LEMMA ByteOutcomeType ==
  ASSUME NEW va, NEW is_write \in BOOLEAN
  PROVE  ByteOutcome(va, is_write) \in Outcome
BY DEF ByteOutcome, translate_address, Outcome

LEMMA WordOutcomeType ==
  ASSUME NEW va, NEW is_write \in BOOLEAN
  PROVE  WordOutcome(va, is_write) \in Outcome
BY ByteOutcomeType DEF WordOutcome, Outcome

\* A word access that succeeds reached all of its bytes.
LEMMA WordReached ==
  ASSUME NEW va, NEW is_write \in BOOLEAN, WordOutcome(va, is_write) = "ok"
  PROVE  ReachesByte(va, 3, is_write)
<1> DEFINE first == CHOOSE i \in ByteIndex :
                      /\ ByteOutcome(Wrap(va + i), is_write) # "ok"
                      /\ \A j \in 0 .. (i - 1) : ByteOutcome(Wrap(va + j), is_write) = "ok"
           Bad(i) == ByteOutcome(Wrap(va + i), is_write) # "ok"
<1> SUFFICES ASSUME ~ReachesByte(va, 3, is_write) PROVE FALSE
  OBVIOUS
<1>1. Bad(0) \/ Bad(1) \/ Bad(2) \/ Bad(3)
  BY DEF ReachesByte
<1>2. \E i \in ByteIndex : Bad(i) /\ \A j \in 0 .. (i - 1) : ~Bad(j)
  <2>1. CASE Bad(0)
    BY <2>1 DEF ByteIndex
  <2>2. CASE ~Bad(0) /\ Bad(1)
    BY <2>2 DEF ByteIndex
  <2>3. CASE ~Bad(0) /\ ~Bad(1) /\ Bad(2)
    BY <2>3 DEF ByteIndex
  <2>4. CASE ~Bad(0) /\ ~Bad(1) /\ ~Bad(2) /\ Bad(3)
    BY <2>4 DEF ByteIndex
  <2> QED
    BY <1>1, <2>1, <2>2, <2>3, <2>4
<1>3. ByteOutcome(Wrap(va + first), is_write) # "ok"
  BY <1>2
<1> QED
  BY <1>3 DEF WordOutcome

\* A word that can be read is a word: each of its bytes is in memory.
LEMMA WordAtType ==
  ASSUME NEW va, memory \in [0 .. MemorySize - 1 -> Byte],
         NEW is_write \in BOOLEAN, WordOutcome(va, is_write) = "ok"
  PROVE  WordAt(va) \in Word
<1>1. ReachesByte(va, 3, is_write)
  BY WordReached
<1>2. \A i \in ByteIndex : ByteOutcome(Wrap(va + i), is_write) = "ok"
  BY <1>1 DEF ReachesByte, ByteIndex
<1>3. \A i \in ByteIndex : PhysicalAddress(Wrap(va + i)) \in 0 .. MemorySize - 1
  BY <1>2, OkByte
<1> QED
  BY <1>3 DEF WordAt, Word

-----------------------------------------------------------------------------
\* A write keeps the memory a memory of bytes of the same size.
LEMMA WrittenType ==
  ASSUME memory \in [0 .. MemorySize - 1 -> Byte],
         NEW va, NEW bytes, \A i \in DOMAIN bytes : bytes[i] \in Byte
  PROVE  Written(va, bytes) \in [0 .. MemorySize - 1 -> Byte]
<1> DEFINE reached == {i \in DOMAIN bytes : ReachesByte(va, i, TRUE)}
           landing(pa) == {i \in reached : PhysicalAddress(Wrap(va + i)) = pa}
<1>1. \A pa : landing(pa) # {} => (CHOOSE i \in landing(pa) : TRUE) \in DOMAIN bytes
  OBVIOUS
<1> QED
  BY <1>1 DEF Written

\* A byte differs after a write only if some byte of the write was let through
\* to it.
LEMMA WrittenOnlyReached ==
  ASSUME NEW va, NEW bytes, DOMAIN bytes \subseteq Nat,
         NEW pa \in DOMAIN memory, Written(va, bytes)[pa] # memory[pa]
  PROVE  \E i \in DOMAIN bytes : /\ ByteOutcome(Wrap(va + i), TRUE) = "ok"
                                 /\ PhysicalAddress(Wrap(va + i)) = pa
<1> DEFINE reached == {i \in DOMAIN bytes : ReachesByte(va, i, TRUE)}
           landing(p) == {i \in reached : PhysicalAddress(Wrap(va + i)) = p}
<1>1. landing(pa) # {}
  BY DEF Written
<1>2. PICK i \in DOMAIN bytes : /\ ReachesByte(va, i, TRUE)
                                /\ PhysicalAddress(Wrap(va + i)) = pa
  BY <1>1
<1>3. i \in 0 .. i
  OBVIOUS
<1>4. ByteOutcome(Wrap(va + i), TRUE) = "ok"
  BY <1>2, <1>3 DEF ReachesByte
<1> QED
  BY <1>2, <1>4

-----------------------------------------------------------------------------
\* The bytes a write changes all lie in frames of pages whose entries let the
\* current mode write: one byte at a time, and hence for torn words too.
LEMMA WrittenInside ==
  ASSUME MemoryTypeOK, NEW va \in Address, NEW bytes, DOMAIN bytes \subseteq ByteIndex,
         NEW pa \in DOMAIN memory, Written(va, bytes)[pa] # memory[pa]
  PROVE  WritableAt(pa)
<1>0. DOMAIN bytes \subseteq Nat
  BY DEF ByteIndex
<1>1. PICK i \in DOMAIN bytes : /\ ByteOutcome(Wrap(va + i), TRUE) = "ok"
                                /\ PhysicalAddress(Wrap(va + i)) = pa
  BY <1>0, WrittenOnlyReached
<1> DEFINE a == Wrap(va + i)
           page == PageNumber(a)
<1>2. page \in DOMAIN entries /\ Grants(entries[page], "WRITE")
  BY <1>1, OkByte DEF Right
<1>3. a \in Int /\ va + i \in Int
  BY WrapType DEF Address, ByteIndex
<1> HIDE DEF a
<1>4. page % PageSize = 0 /\ (a % PageSize) \in 0 .. PageSize - 1
  <2>1. \A n, p \in Int : p > 0 => (n - (n % p)) % p = 0 /\ (n % p) \in 0 .. p - 1
    <3>1. \A q, p \in Int : p > 0 => (p * q) % p = 0
      OBVIOUS
    <3>2. \A n, p \in Int : p > 0 => n - (n % p) = p * (n \div p)
      OBVIOUS
    <3>3. \A n, p \in Int : p > 0 => n \div p \in Int /\ (n % p) \in 0 .. p - 1
      OBVIOUS
    <3> QED
      BY <3>1, <3>2, <3>3
  <2> QED
    BY <2>1, <1>3, PageSizeAssumption DEF PageNumber
<1>5. entries[page].frame \in Int
  BY <1>2 DEF MemoryTypeOK, PageTableEntry, Frame, Address
<1>6. pa = entries[page].frame + (a % PageSize)
  BY <1>1 DEF PhysicalAddress, get_physical_address, get_entry, a
<1>7. InFrame(entries[page], pa)
  BY <1>4, <1>5, <1>6, PageSizeAssumption DEF InFrame
<1>8. WriteRights \subseteq entries[page].bits
  BY <1>2 DEF Grants, is_valid, WriteRights
<1> QED
  BY <1>2, <1>4, <1>7, <1>8 DEF WritableAt

-----------------------------------------------------------------------------
\* Page numbers and remainders, for pages of any size.
LEMMA PageArithmetic ==
  ASSUME NEW a \in Nat
  PROVE  /\ (a % PageSize) \in 0 .. PageSize - 1
         /\ PageNumber(a) = 0 => a < PageSize /\ a % PageSize = a
<1>1. \A p \in Nat \ {0} : (a % p) \in 0 .. p - 1
  OBVIOUS
<1>2. (a % PageSize) \in 0 .. PageSize - 1
  BY <1>1, PageSizeAssumption
<1> QED
  BY <1>2, PageSizeAssumption DEF PageNumber

\* The address space holds at least two pages, so a word that starts in page 0
\* does not wrap around.
LEMMA TwoPages == PageSize + PageSize <= WordMod
<1>1. \A m, p \in Nat : p > 0 /\ p < m /\ m % p = 0 => p + p <= m
  <2> SUFFICES ASSUME NEW m \in Nat, NEW p \in Nat, p > 0, p < m, m % p = 0
               PROVE  p + p <= m
    OBVIOUS
  <2>1. m = p * (m \div p) /\ m \div p \in Int
    OBVIOUS
  <2>2. \A q \in Int : m = p * q => q >= 2
    <3> SUFFICES ASSUME NEW q \in Int, m = p * q, q <= 1 PROVE FALSE
      OBVIOUS
    <3>1. p * q <= p * 1
      OBVIOUS
    <3> QED
      BY <3>1
  <2>3. \A q \in Int : q >= 2 => p * q >= p * 2
    OBVIOUS
  <2> QED
    BY <2>1, <2>2, <2>3
<1> QED
  BY <1>1, WordModPositive, PageSizeAssumption

LEMMA WrapSmall == ASSUME NEW n \in 0 .. PageSize + PageSize - 1 PROVE Wrap(n) = n
<1>1. \A m \in Nat \ {0} : n < m => n % m = n
  BY PageSizeAssumption
<1>2. n < WordMod
  BY TwoPages, WordModPositive, PageSizeAssumption
<1> QED
  BY <1>1, <1>2, WordModPositive, PageSizeAssumption DEF Wrap

\* Four bytes whose first and last lie in one page lie in that page side by
\* side: the address space does not wrap inside a page.
LEMMA SamePageBytes ==
  ASSUME NEW va \in Address, PageNumber(va) = PageNumber(Wrap(va + 3)), NEW i \in ByteIndex
  PROVE  /\ Wrap(va + i) = va + i
         /\ PageNumber(Wrap(va + i)) = PageNumber(va)
         /\ Wrap(va + i) % PageSize = (va % PageSize) + i
<1>1. /\ va \in 0 .. WordMod - 1 /\ WordMod \in Nat \ {0}
      /\ PageSize \in Nat /\ PageSize >= 4 /\ PageSize + PageSize <= WordMod
      /\ i \in 0 .. 3
  BY WordModPositive, TwoPages, PageSizeAssumption DEF Address, ByteIndex
<1>2. (va % PageSize) \in 0 .. PageSize - 1
  BY <1>1, PageArithmetic
<1>3. va + 3 < WordMod
  <2> SUFFICES ASSUME va + 3 >= WordMod PROVE FALSE
    BY <1>1
  <2>1. \A m \in Nat \ {0} : \A n \in Nat : n >= m /\ n < m + m => n % m = n - m
    OBVIOUS
  <2>2. Wrap(va + 3) = (va + 3) - WordMod
    <3>1. va + 3 \in Nat /\ va + 3 < WordMod + WordMod
      BY <1>1
    <3>2. \A n \in Nat : n >= WordMod /\ n < WordMod + WordMod => n % WordMod = n - WordMod
      BY <1>1, <2>1
    <3>3. (va + 3) % WordMod = (va + 3) - WordMod
      BY <3>1, <3>2
    <3> QED
      BY <3>3 DEF Wrap
  <2>3. Wrap(va + 3) \in 0 .. 2
    BY <1>1, <2>2
  <2>4. \A m \in Nat : m >= 4 => \A n \in 0 .. 2 : n % m = n
    OBVIOUS
  <2>5. PageNumber(Wrap(va + 3)) = 0
    BY <1>1, <2>3, <2>4 DEF PageNumber
  <2>6. va < PageSize
    BY <1>1, <2>5, PageArithmetic
  <2> QED
    BY <1>1, <2>6
<1>4. \A j \in 0 .. 3 : Wrap(va + j) = va + j
  <2>1. \A m \in Nat \ {0} : \A n \in 0 .. m - 1 : n % m = n
    OBVIOUS
  <2> SUFFICES ASSUME NEW j \in 0 .. 3 PROVE Wrap(va + j) = va + j
    OBVIOUS
  <2>2. va + j \in 0 .. WordMod - 1
    BY <1>1, <1>3
  <2> QED
    BY <1>1, <2>1, <2>2 DEF Wrap
<1>5. (va + 3) % PageSize = (va % PageSize) + 3
  <2>1. Wrap(va + 3) = va + 3
    BY <1>4
  <2>2. va - (va % PageSize) = (va + 3) - ((va + 3) % PageSize)
    BY <2>1 DEF PageNumber
  <2>3. (va + 3) % PageSize \in Int
    BY <1>1, PageArithmetic
  <2> QED
    BY <1>1, <1>2, <2>2, <2>3
<1>6. (va % PageSize) + 3 < PageSize
  BY <1>1, <1>5, PageArithmetic
<1>7. (va + i) % PageSize = (va % PageSize) + i
  <2>1. \A m \in Nat \ {0} : \A n, j \in Nat : (n % m) + j < m => (n + j) % m = (n % m) + j
    <3> SUFFICES ASSUME NEW m \in Nat \ {0}, NEW n \in Nat, NEW j \in Nat, (n % m) + j < m
                 PROVE  (n + j) % m = (n % m) + j
      OBVIOUS
    <3>1. n = (m * (n \div m)) + (n % m) /\ n \div m \in Nat /\ (n % m) \in Nat
      OBVIOUS
    <3>2. \A q, r \in Nat : r < m => ((m * q) + r) % m = r
      OBVIOUS
    <3>3. n + j = (m * (n \div m)) + ((n % m) + j)
      BY <3>1
    <3> QED
      BY <3>1, <3>2, <3>3
  <2>2. (va % PageSize) + i < PageSize /\ va \in Nat /\ i \in Nat /\ PageSize \in Nat \ {0}
    BY <1>1, <1>2, <1>6
  <2> QED
    BY <2>1, <2>2
<1>8. Wrap(va + i) = va + i
  BY <1>1, <1>4
<1> QED
  BY <1>1, <1>2, <1>7, <1>8 DEF PageNumber

\* A word write that fails part way inside a page has run out of memory there.
LEMMA TornWord ==
  ASSUME MemoryTypeOK, NEW va \in Address, NEW bytes, DOMAIN bytes \subseteq ByteIndex,
         WordOutcome(va, TRUE) # "ok", Written(va, bytes) # memory,
         PageNumber(va) = PageNumber(Wrap(va + 3))
  PROVE  PhysicalAddress(va) + 3 \notin DOMAIN memory
<1>1. PICK pa \in DOMAIN memory : Written(va, bytes)[pa] # memory[pa]
  <2>1. DOMAIN Written(va, bytes) = DOMAIN memory
    BY DEF Written
  <2>2. /\ memory = [p \in DOMAIN memory |-> memory[p]]
        /\ Written(va, bytes) = [p \in DOMAIN memory |-> Written(va, bytes)[p]]
    BY DEF MemoryTypeOK, Written
  <2> QED
    BY <2>2
<1>2. PICK i \in ByteIndex : ByteOutcome(Wrap(va + i), TRUE) = "ok"
  <2>1. DOMAIN bytes \subseteq Nat
    BY DEF ByteIndex
  <2> QED
    BY <1>1, <2>1, WrittenOnlyReached
<1>3. PICK j \in ByteIndex : ByteOutcome(Wrap(va + j), TRUE) # "ok"
  BY DEF WordOutcome, ReachesByte, ByteIndex
<1>4. \A k \in ByteIndex : /\ PageNumber(Wrap(va + k)) = PageNumber(va)
                           /\ Wrap(va + k) % PageSize = (va % PageSize) + k
  BY SamePageBytes
<1>5. /\ PageNumber(va) \in DOMAIN entries
      /\ translate_address(Wrap(va + j), TRUE) = "ok"
  <2>1. translate_address(Wrap(va + i), TRUE) = "ok"
    BY <1>2 DEF ByteOutcome
  <2>2. translate_address(Wrap(va + j), TRUE) = translate_address(Wrap(va + i), TRUE)
    BY <1>4 DEF translate_address, HasEntry, get_entry
  <2>3. PageNumber(Wrap(va + i)) \in DOMAIN entries
    BY <1>2, OkByte
  <2> QED
    BY <1>4, <2>1, <2>2, <2>3
<1>6. PhysicalAddress(Wrap(va + j)) \notin DOMAIN memory
  BY <1>3, <1>5 DEF ByteOutcome
<1> DEFINE frame == entries[PageNumber(va)].frame
<1>7. frame \in Nat /\ (va % PageSize) \in Nat
  <2>1. va \in Nat
    BY WordModPositive DEF Address
  <2>2. (va % PageSize) \in 0 .. PageSize - 1
    BY <2>1, PageArithmetic
  <2>3. frame \in Address
    BY <1>5 DEF MemoryTypeOK, PageTableEntry, Frame
  <2> QED
    BY <2>2, <2>3, WordModPositive, PageSizeAssumption DEF Address
<1>8. /\ PhysicalAddress(Wrap(va + j)) = frame + ((va % PageSize) + j)
      /\ PhysicalAddress(va) = frame + (va % PageSize)
  BY <1>4 DEF PhysicalAddress, get_physical_address, get_entry
<1>9. DOMAIN memory = 0 .. MemorySize - 1
  BY DEF MemoryTypeOK
<1> HIDE DEF frame
<1> QED
  BY <1>6, <1>7, <1>8, <1>9, MemorySizeAssumption DEF ByteIndex

-----------------------------------------------------------------------------
\* Offsets in a page: a frame adds nothing to them, wrapping the address keeps
\* them, and the four bytes of a word have different ones.
LEMMA Shift ==
  \A m \in Nat \ {0} : \A f \in Nat, r \in 0 .. m - 1 : (f % m) = 0 => (f + r) % m = r
<1> SUFFICES ASSUME NEW m \in Nat \ {0}, NEW f \in Nat, NEW r \in 0 .. m - 1, (f % m) = 0
             PROVE  (f + r) % m = r
  OBVIOUS
<1>1. f = m * (f \div m) /\ f \div m \in Nat
  OBVIOUS
<1>2. \A q \in Nat : ((m * q) + r) % m = r
  OBVIOUS
<1> QED
  BY <1>1, <1>2

LEMMA WrapOffset ==
  ASSUME NEW n \in Nat
  PROVE  Wrap(n) % PageSize = n % PageSize
<1>1. \A p, w \in Nat \ {0} : (w % p) = 0 => (n % w) % p = n % p
  <2> SUFFICES ASSUME NEW p \in Nat \ {0}, NEW w \in Nat \ {0}, (w % p) = 0
               PROVE  (n % w) % p = n % p
    OBVIOUS
  <2>1. PICK k \in Nat : w = p * k
    <3>1. w = p * (w \div p) /\ w \div p \in Nat
      OBVIOUS
    <3> QED
      BY <3>1
  <2>2. PICK t \in Nat : n = (w * t) + (n % w)
    <3>1. n = (w * (n \div w)) + (n % w) /\ n \div w \in Nat
      OBVIOUS
    <3> QED
      BY <3>1
  <2>3. \A q, r \in Nat : ((p * q) + r) % p = r % p
    <3> SUFFICES ASSUME NEW q \in Nat, NEW r \in Nat PROVE ((p * q) + r) % p = r % p
      OBVIOUS
    <3>1. r = (p * (r \div p)) + (r % p) /\ r \div p \in Nat /\ (r % p) \in 0 .. p - 1
      OBVIOUS
    <3>2. (p * q) + r = (p * (q + (r \div p))) + (r % p)
      BY <3>1
    <3>3. \A m \in Nat, s \in 0 .. p - 1 : ((p * m) + s) % p = s
      OBVIOUS
    <3>4. q + (r \div p) \in Nat
      BY <3>1
    <3> QED
      BY <3>1, <3>2, <3>3, <3>4
  <2>4. (p * k) * t = p * (k * t) /\ k * t \in Nat
    OBVIOUS
  <2>5. (n % w) \in Nat
    OBVIOUS
  <2>6. \A x \in Nat : x = n % w => ((p * (k * t)) + x) % p = x % p
    BY <2>3, <2>4
  <2>7. n = (p * (k * t)) + (n % w)
    BY <2>1, <2>2, <2>4
  <2> QED
    BY <2>5, <2>6, <2>7
<1> QED
  <2>1. (WordMod % PageSize) = 0 /\ PageSize \in Nat \ {0} /\ WordMod \in Nat \ {0}
    BY WordModPositive, PageSizeAssumption
  <2>2. (n % WordMod) % PageSize = n % PageSize
    BY <1>1, <2>1
  <2> QED
    BY <2>2 DEF Wrap

LEMMA OffsetsApart ==
  ASSUME NEW n \in Nat, NEW i \in ByteIndex, NEW j \in ByteIndex,
         (n + i) % PageSize = (n + j) % PageSize
  PROVE  i = j
<1>1. \A m \in Nat : m >= 4 => \A a, b \in Nat :
        (a % m) = (b % m) /\ a <= b /\ b <= a + 3 => a = b
  <2> SUFFICES ASSUME NEW m \in Nat, m >= 4, NEW a \in Nat, NEW b \in Nat,
                      (a % m) = (b % m), a <= b, b <= a + 3
               PROVE  a = b
    OBVIOUS
  <2>1. /\ a = (m * (a \div m)) + (a % m) /\ a \div m \in Int
        /\ b = (m * (b \div m)) + (b % m) /\ b \div m \in Int
        /\ (a % m) \in Int
    OBVIOUS
  <2>2. m * ((b \div m) - (a \div m)) = b - a
    BY <2>1
  <2>3. \A q \in Int : m * q > 0 => m * q >= m
    <3> SUFFICES ASSUME NEW q \in Int, m * q > 0 PROVE m * q >= m * 1
      OBVIOUS
    <3>1. q >= 1
      <4> SUFFICES ASSUME q <= 0 PROVE FALSE
        OBVIOUS
      <4>1. m * q <= m * 0
        OBVIOUS
      <4> QED
        BY <4>1
    <3> QED
      BY <3>1
  <2> DEFINE q == (b \div m) - (a \div m)
  <2>4. q \in Int /\ m * q = b - a
    BY <2>1, <2>2
  <2> HIDE DEF q
  <2>5. m * q > 0 => m * q >= m
    BY <2>3, <2>4
  <2> QED
    BY <2>4, <2>5
<1>2. PageSize \in Nat /\ PageSize >= 4 /\ i \in 0 .. 3 /\ j \in 0 .. 3
  BY PageSizeAssumption DEF ByteIndex
<1>3. \A a, b \in Nat : (a % PageSize) = (b % PageSize) /\ a <= b /\ b <= a + 3 => a = b
  BY <1>1, <1>2
<1>4. n + i \in Nat /\ n + j \in Nat /\ n + i <= (n + j) + 3 /\ n + j <= (n + i) + 3
  BY <1>2
<1>5. n + i = n + j
  BY <1>3, <1>4
<1> QED
  BY <1>2, <1>5

\* The bytes of a word lie in different places of their pages, so no two of
\* them share a physical byte, whatever pages share a frame.
LEMMA BytesApart ==
  ASSUME MemoryTypeOK, NEW va \in Address, NEW i \in ByteIndex, NEW j \in ByteIndex,
         ByteOutcome(Wrap(va + i), TRUE) = "ok", ByteOutcome(Wrap(va + j), TRUE) = "ok",
         PhysicalAddress(Wrap(va + i)) = PhysicalAddress(Wrap(va + j))
  PROVE  i = j
<1>1. \A a \in Address : ByteOutcome(a, TRUE) = "ok" =>
        PhysicalAddress(a) % PageSize = a % PageSize
  <2> SUFFICES ASSUME NEW a \in Address, ByteOutcome(a, TRUE) = "ok"
               PROVE  PhysicalAddress(a) % PageSize = a % PageSize
    OBVIOUS
  <2> DEFINE frame == entries[PageNumber(a)].frame
  <2>1. frame \in Nat /\ frame % PageSize = 0
    <3>1. PageNumber(a) \in DOMAIN entries
      BY OkByte
    <3>2. frame \in Frame
      BY <3>1 DEF MemoryTypeOK, PageTableEntry
    <3> QED
      BY <3>2, WordModPositive DEF Frame, Address
  <2>2. (a % PageSize) \in 0 .. PageSize - 1
    BY PageArithmetic, WordModPositive DEF Address
  <2>3. PhysicalAddress(a) = frame + (a % PageSize)
    BY DEF PhysicalAddress, get_physical_address, get_entry
  <2>4. \A m \in Nat \ {0} : \A f \in Nat, r \in 0 .. m - 1 : f % m = 0 => (f + r) % m = r
    BY Shift
  <2> HIDE DEF frame
  <2> QED
    BY <2>1, <2>2, <2>3, <2>4, PageSizeAssumption
<1>2. \A k \in ByteIndex : Wrap(va + k) % PageSize = (va + k) % PageSize
  <2>1. \A k \in ByteIndex : va + k \in Nat
    BY WordModPositive DEF Address, ByteIndex
  <2> QED
    BY <2>1, WrapOffset
<1>3. (va + i) % PageSize = (va + j) % PageSize
  <2>1. Wrap(va + i) \in Address /\ Wrap(va + j) \in Address
    BY WrapType DEF Address, ByteIndex
  <2> QED
    BY <1>1, <1>2, <2>1
<1>4. va \in Nat
  BY WordModPositive DEF Address
<1> QED
  BY <1>3, <1>4, OffsetsApart

\* A word write that is let through stores every byte of the word.
LEMMA WrittenLands ==
  ASSUME MemoryTypeOK, NEW va \in Address, NEW w \in Word, WordOutcome(va, TRUE) = "ok",
         NEW i \in ByteIndex
  PROVE  Written(va, w)[PhysicalAddress(Wrap(va + i))] = w[i]
<1> DEFINE pa == PhysicalAddress(Wrap(va + i))
           reached == {k \in DOMAIN w : ReachesByte(va, k, TRUE)}
           landing == {k \in reached : PhysicalAddress(Wrap(va + k)) = pa}
<1>1. \A k \in ByteIndex : ByteOutcome(Wrap(va + k), TRUE) = "ok" /\ ReachesByte(va, k, TRUE)
  <2>1. ReachesByte(va, 3, TRUE)
    BY WordReached
  <2>2. \A k \in 0 .. 3 : 0 .. k \subseteq 0 .. 3
    OBVIOUS
  <2> QED
    BY <2>1, <2>2 DEF ReachesByte, ByteIndex
<1>2. pa \in DOMAIN memory
  BY <1>1, OkByte
<1>3. landing = {i}
  BY <1>1, BytesApart DEF Word
<1>4. Written(va, w)[pa] = IF landing = {} THEN memory[pa] ELSE w[CHOOSE k \in landing : TRUE]
  BY <1>2 DEF Written
<1> QED
  BY <1>3, <1>4
=============================================================================
