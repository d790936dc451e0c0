-------------------------- MODULE DecodeStageProofs --------------------------
(***************************************************************************)
(* Immediates of all 2^32 instruction words.                               *)
(***************************************************************************)
EXTENDS DecodeStage, TLAPS

LEMMA PlacedMember ==
  ASSUME NEW word, NEW start, NEW end, NEW low, NEW x
  PROVE  x \in Placed(word, start, end, low) <=>
           \E b \in word : end <= b /\ b <= start /\ x = b - end + low
BY DEF Placed

\* A field is empty exactly when the word has no bit in its range.
LEMMA PlacedEmpty ==
  ASSUME NEW word \in Raw, NEW start \in Int, NEW end \in Int, NEW low \in Int
  PROVE  Placed(word, start, end, low) = {} <=> word \cap (end .. start) = {}
BY DEF Placed, Raw, BitPosition

\* A field of n bits aligned to bit 0 lies in the low n bits.
LEMMA PlacedRange ==
  ASSUME NEW word \in Raw, NEW start \in Int, NEW end \in Int
  PROVE  Placed(word, start, end, 0) \subseteq 0 .. start - end
BY DEF Placed, Raw, BitPosition

\* The stage keeps whole words of the instruction set.
THEOREM TypeCorrect == Spec => []TypeOK
<1>1. Init => TypeOK
  BY DEF Init, TypeOK, Raw
<1>2. TypeOK /\ [Next]_vars => TypeOK'
  BY WordsAssumption
  DEF TypeOK, Next, vars, process, Decode, DecodeUnsupported, set_fetched_instruction
<1> QED
  BY <1>1, <1>2, PTL DEF Spec

-----------------------------------------------------------------------------
\* A jump or a branch whose ranges pile up: the immediate is the bits of the
\* union, none of them high enough for the sign extension to act.
LEMMA JumpImmediate ==
  ASSUME NEW word \in Raw
  PROVE  get_immediate("J_TYPE", word) =
           Placed(word, 31, 31, 0) \cup Placed(word, 30, 21, 0)
             \cup Placed(word, 20, 20, 0) \cup Placed(word, 19, 12, 0)
<1> DEFINE piled == Placed(word, 31, 31, 0) \cup Placed(word, 30, 21, 0)
                      \cup Placed(word, 20, 20, 0) \cup Placed(word, 19, 12, 0)
<1>1. get_combined_immediate(word, {<<31, 31>>, <<30, 21>>, <<20, 20>>, <<19, 12>>}) = piled
  BY DEF get_combined_immediate
<1>2. 20 \notin piled
  BY PlacedRange
<1> QED
  BY <1>1, <1>2 DEF get_immediate, sign_extend

LEMMA BranchImmediate ==
  ASSUME NEW word \in Raw
  PROVE  get_immediate("B_TYPE", word) =
           Placed(word, 31, 31, 0) \cup Placed(word, 30, 25, 0)
             \cup Placed(word, 11, 8, 0) \cup Placed(word, 7, 7, 0)
<1> DEFINE piled == Placed(word, 31, 31, 0) \cup Placed(word, 30, 25, 0)
                      \cup Placed(word, 11, 8, 0) \cup Placed(word, 7, 7, 0)
<1>1. get_combined_immediate(word, {<<31, 31>>, <<30, 25>>, <<11, 8>>, <<7, 7>>}) = piled
  BY DEF get_combined_immediate
<1>2. 12 \notin piled
  BY PlacedRange
<1> QED
  BY <1>1, <1>2 DEF get_immediate, sign_extend

\* For every word, the immediate of a jump or branch is zero exactly when its
\* encoded offset is: jump to self is recognised exactly.
LEMMA ZeroOffset ==
  ASSUME NEW word \in Raw, NEW f \in {"J_TYPE", "B_TYPE"}
  PROVE  get_immediate(f, word) = {} <=> commented_immediate(f, word) = {}
<1>1. \A bit \in {12, 20} : SignFrom(word, bit) = {} <=> Placed(word, 31, 31, 0) = {}
  <2>1. 31 \in word <=> word \cap (31 .. 31) # {}
    OBVIOUS
  <2>2. \A bit \in {12, 20} : 31 \in bit .. 31
    OBVIOUS
  <2>3. Placed(word, 31, 31, 0) = {} <=> word \cap (31 .. 31) = {}
    BY PlacedEmpty
  <2> QED
    BY <2>1, <2>2, <2>3 DEF SignFrom
<1>2. \A low \in {1, 5, 11, 12} :
        /\ Placed(word, 30, 21, low) = {} <=> Placed(word, 30, 21, 0) = {}
        /\ Placed(word, 20, 20, low) = {} <=> Placed(word, 20, 20, 0) = {}
        /\ Placed(word, 19, 12, low) = {} <=> Placed(word, 19, 12, 0) = {}
        /\ Placed(word, 30, 25, low) = {} <=> Placed(word, 30, 25, 0) = {}
        /\ Placed(word, 11, 8, low) = {} <=> Placed(word, 11, 8, 0) = {}
        /\ Placed(word, 7, 7, low) = {} <=> Placed(word, 7, 7, 0) = {}
  <2> SUFFICES ASSUME NEW low \in {1, 5, 11, 12},
                      NEW start \in Int, NEW end \in Int
               PROVE  Placed(word, start, end, low) = {} <=> Placed(word, start, end, 0) = {}
    OBVIOUS
  <2> QED
    BY PlacedEmpty
<1>3. CASE f = "J_TYPE"
  <2>1. commented_immediate(f, word) =
          Placed(word, 30, 21, 1) \cup Placed(word, 20, 20, 11)
            \cup Placed(word, 19, 12, 12) \cup SignFrom(word, 20)
    BY <1>3 DEF commented_immediate
  <2> QED
    BY <1>1, <1>2, <1>3, <2>1, JumpImmediate
<1>4. CASE f = "B_TYPE"
  <2>1. commented_immediate(f, word) =
          Placed(word, 30, 25, 5) \cup Placed(word, 11, 8, 1)
            \cup Placed(word, 7, 7, 11) \cup SignFrom(word, 12)
    BY <1>4 DEF commented_immediate
  <2> QED
    BY <1>1, <1>2, <1>4, <2>1, BranchImmediate
<1> QED
  BY <1>3, <1>4

THEOREM EndOfProgramExact == Spec => []ZeroOffsetExact
<1>1. TypeOK => ZeroOffsetExact
  BY ZeroOffset DEF TypeOK, ZeroOffsetExact, format, raw
<1> QED
  BY <1>1, TypeCorrect, PTL

-----------------------------------------------------------------------------
\* Immediates of one range, and store offsets without high bits, are the
\* encoded ones for every word.
LEMMA SingleRange ==
  ASSUME NEW word \in Raw, NEW f,
         f \in {"I_TYPE", "U_TYPE"} \/ (f = "S_TYPE" /\ word \cap (25 .. 31) = {})
  PROVE  get_immediate(f, word) = commented_immediate(f, word)
<1>1. CASE f = "I_TYPE"
  <2>1. get_combined_immediate(word, {<<31, 20>>}) = Placed(word, 31, 20, 0)
    BY DEF get_combined_immediate
  <2>2. 11 \in Placed(word, 31, 20, 0) <=> 31 \in word
    <3>1. ASSUME 11 \in Placed(word, 31, 20, 0) PROVE 31 \in word
      <4>1. PICK b \in word : 11 = b - 20 + 0
        BY <3>1, PlacedMember
      <4>2. b = 31
        BY <4>1 DEF Raw, BitPosition
      <4> QED
        BY <4>2
    <3>2. ASSUME 31 \in word PROVE 11 \in Placed(word, 31, 20, 0)
      <4>1. 20 <= 31 /\ 31 <= 31 /\ 11 = 31 - 20 + 0
        OBVIOUS
      <4> QED
        BY <3>2, <4>1, PlacedMember
    <3> QED
      BY <3>1, <3>2
  <2>3. 31 \in word => Placed(word, 31, 20, 0) \cup (12 .. 31) = Placed(word, 31, 20, 0) \cup (11 .. 31)
    BY <2>2
  <2> QED
    BY <1>1, <2>1, <2>2, <2>3 DEF get_immediate, commented_immediate, sign_extend, SignFrom
<1>2. CASE f = "U_TYPE"
  <2>1. get_combined_immediate(word, {<<31, 12>>}) = Placed(word, 31, 12, 0)
    BY DEF get_combined_immediate
  <2>2. {b + 12 : b \in Placed(word, 31, 12, 0)} = Placed(word, 31, 12, 12)
    <3> DEFINE upper == {c \in word : 12 <= c /\ c <= 31}
    <3>1. \A c \in upper : c \in Int /\ (c - 12 + 0) + 12 = c - 12 + 12
      BY DEF Raw, BitPosition
    <3>2. /\ Placed(word, 31, 12, 0) = {c - 12 + 0 : c \in upper}
          /\ Placed(word, 31, 12, 12) = {c - 12 + 12 : c \in upper}
      BY DEF Placed
    <3> HIDE DEF upper
    <3>3. {b + 12 : b \in {c - 12 + 0 : c \in upper}} = {(c - 12 + 0) + 12 : c \in upper}
      OBVIOUS
    <3>4. {(c - 12 + 0) + 12 : c \in upper} = {c - 12 + 12 : c \in upper}
      BY <3>1
    <3> QED
      BY <3>2, <3>3, <3>4
  <2> QED
    BY <1>2, <2>1, <2>2 DEF get_immediate, commented_immediate
<1>3. CASE f = "S_TYPE" /\ word \cap (25 .. 31) = {}
  <2>1. /\ Placed(word, 31, 25, 0) = {}
        /\ Placed(word, 31, 25, 5) = {}
        /\ SignFrom(word, 11) = {}
    BY <1>3, PlacedEmpty DEF SignFrom
  <2>2. get_combined_immediate(word, {<<31, 25>>, <<11, 7>>}) = Placed(word, 11, 7, 0)
    BY <2>1 DEF get_combined_immediate
  <2>3. 11 \notin Placed(word, 11, 7, 0)
    BY PlacedRange
  <2> QED
    BY <1>3, <2>1, <2>2, <2>3 DEF get_immediate, commented_immediate, sign_extend
<1> QED
  BY <1>1, <1>2, <1>3

THEOREM ImmediatesFaithful == Spec => []SingleRangesFaithful
<1>1. TypeOK => SingleRangesFaithful
  BY SingleRange DEF TypeOK, SingleRangesFaithful, format, raw
<1> QED
  BY <1>1, TypeCorrect, PTL

-----------------------------------------------------------------------------
\* No word makes a store, branch or jump go backwards or far.
LEMMA StoreImmediate ==
  ASSUME NEW word \in Raw
  PROVE  get_immediate("S_TYPE", word) = Placed(word, 31, 25, 0) \cup Placed(word, 11, 7, 0)
<1> DEFINE piled == Placed(word, 31, 25, 0) \cup Placed(word, 11, 7, 0)
<1>1. get_combined_immediate(word, {<<31, 25>>, <<11, 7>>}) = piled
  BY DEF get_combined_immediate
<1>2. 11 \notin piled
  BY PlacedRange
<1> QED
  BY <1>1, <1>2 DEF get_immediate, sign_extend

THEOREM OffsetsBounded == Spec => []OffsetsStayLow
<1>1. ASSUME NEW word \in Raw
      PROVE  /\ get_immediate("S_TYPE", word) \subseteq 0 .. 6
             /\ get_immediate("B_TYPE", word) \subseteq 0 .. 5
             /\ get_immediate("J_TYPE", word) \subseteq 0 .. 9
  <2>1. /\ Placed(word, 31, 25, 0) \subseteq 0 .. 6
        /\ Placed(word, 11, 7, 0) \subseteq 0 .. 4
    BY PlacedRange
  <2>2. /\ Placed(word, 31, 31, 0) \subseteq 0 .. 0
        /\ Placed(word, 30, 25, 0) \subseteq 0 .. 5
        /\ Placed(word, 11, 8, 0) \subseteq 0 .. 3
        /\ Placed(word, 7, 7, 0) \subseteq 0 .. 0
    BY PlacedRange
  <2>3. /\ Placed(word, 30, 21, 0) \subseteq 0 .. 9
        /\ Placed(word, 20, 20, 0) \subseteq 0 .. 0
        /\ Placed(word, 19, 12, 0) \subseteq 0 .. 7
    BY PlacedRange
  <2>4. get_immediate("S_TYPE", word) \subseteq 0 .. 6
    BY <2>1, StoreImmediate
  <2>5. get_immediate("B_TYPE", word) \subseteq 0 .. 5
    BY <2>2, BranchImmediate
  <2>6. get_immediate("J_TYPE", word) \subseteq 0 .. 9
    BY <2>2, <2>3, JumpImmediate
  <2> QED
    BY <2>4, <2>5, <2>6
<1>2. TypeOK => OffsetsStayLow
  BY <1>1 DEF TypeOK, OffsetsStayLow, format, raw
<1> QED
  BY <1>2, TypeCorrect, PTL

-----------------------------------------------------------------------------
\* What is decoded is the word that was set, in the format of its opcode, and
\* a failed decode leaves an earlier instruction whole.
THEOREM DecodeWhole == Spec => []DecodedWhole
<1> USE DEF DecodedWhole, format, raw
<1>1. Init => DecodedWhole
  BY DEF Init
<1>2. TypeOK /\ DecodedWhole /\ [Next]_vars => DecodedWhole'
  <2> SUFFICES ASSUME TypeOK, DecodedWhole, [Next]_vars PROVE DecodedWhole'
    OBVIOUS
  <2>1. ASSUME NEW f \in InstructionFormat, Decode(f) PROVE DecodedWhole'
    BY <2>1 DEF Decode, Matches, InstructionFormat
  <2>2. CASE DecodeUnsupported
    BY <2>2 DEF DecodeUnsupported
  <2>3. ASSUME NEW word \in Words, set_fetched_instruction(word) PROVE DecodedWhole'
    BY <2>3 DEF set_fetched_instruction
  <2>4. CASE UNCHANGED vars
    BY <2>4 DEF vars
  <2> QED
    BY <2>1, <2>2, <2>3, <2>4 DEF Next, process
<1> QED
  BY <1>1, <1>2, TypeCorrect, PTL DEF Spec

\* The bit-fields of each format partition the word.
THEOREM Tiling == Spec => []FieldsTile
<1> DEFINE Holds(g, b) == g[1] <= b /\ b <= g[2]
<1>1. \A f \in InstructionFormat : \A b \in 0 .. 31 : \E g \in BitFields(f) : Holds(g, b)
  <2> SUFFICES ASSUME NEW f \in InstructionFormat, NEW b \in 0 .. 31
               PROVE  \E g \in BitFields(f) : Holds(g, b)
    OBVIOUS
  <2>1. CASE f = "R_TYPE"
    <3>1. BitFields(f) = {<<0, 6>>, <<7, 11>>, <<12, 14>>, <<15, 19>>, <<20, 24>>, <<25, 31>>}
      BY <2>1 DEF BitFields
    <3> QED
      BY <3>1
  <2>2. CASE f = "I_TYPE"
    <3>1. BitFields(f) = {<<0, 6>>, <<7, 11>>, <<12, 14>>, <<15, 19>>, <<20, 31>>}
      BY <2>2 DEF BitFields
    <3> QED
      BY <3>1
  <2>3. CASE f = "S_TYPE"
    <3>1. BitFields(f) = {<<0, 6>>, <<7, 11>>, <<12, 14>>, <<15, 19>>, <<20, 24>>, <<25, 31>>}
      BY <2>3 DEF BitFields
    <3> QED
      BY <3>1
  <2>4. CASE f = "B_TYPE"
    <3>1. BitFields(f) = {<<0, 6>>, <<7, 7>>, <<8, 11>>, <<12, 14>>, <<15, 19>>, <<20, 24>>,
                         <<25, 30>>, <<31, 31>>}
      BY <2>4 DEF BitFields
    <3> QED
      BY <3>1
  <2>5. CASE f = "U_TYPE"
    <3>1. BitFields(f) = {<<0, 6>>, <<7, 11>>, <<12, 31>>}
      BY <2>5 DEF BitFields
    <3> QED
      BY <3>1
  <2>6. CASE f = "J_TYPE"
    <3>1. BitFields(f) = {<<0, 6>>, <<7, 11>>, <<12, 19>>, <<20, 20>>, <<21, 30>>, <<31, 31>>}
      BY <2>6 DEF BitFields
    <3> QED
      BY <3>1
  <2> QED
    BY <2>1, <2>2, <2>3, <2>4, <2>5, <2>6 DEF InstructionFormat
<1>2. \A f \in InstructionFormat : \A b \in 0 .. 31 : \A g, h \in BitFields(f) :
        Holds(g, b) /\ Holds(h, b) => h = g
  <2> SUFFICES ASSUME NEW f \in InstructionFormat, NEW b \in 0 .. 31,
                      NEW g \in BitFields(f), NEW h \in BitFields(f), Holds(g, b), Holds(h, b)
               PROVE  h = g
    OBVIOUS
  <2> QED
    BY DEF BitFields, InstructionFormat
<1>3. TypeOK => FieldsTile
  BY <1>1, <1>2 DEF TypeOK, FieldsTile, format, BitPosition
<1> QED
  BY <1>3, TypeCorrect, PTL
=============================================================================
