------------------------- MODULE PythonStagesProofs -------------------------
(***************************************************************************)
(* What an instruction object built field by field means to the stages,    *)
(* for every word, every settable field and every value a session assigns: *)
(* the run takes two words and two values.                                 *)
(***************************************************************************)
EXTENDS PythonStages, TLAPS

-----------------------------------------------------------------------------
\* Every bit-field lies inside the word.
LEMMA FieldInside ==
  ASSUME NEW format \in Class, NEW f \in BitFields(format)
  PROVE  /\ f[1] \in Int
         /\ f[2] \in Int
         /\ 0 <= f[1]
         /\ f[1] <= f[2]
         /\ f[2] <= 31
BY DEF Class, InstructionFormat, BitFields

\* A setter assigns a field of the same class of objects.
LEMMA SetterInside ==
  ASSUME NEW format \in Class, NEW f \in BitFields(format)
  PROVE  SetterField(format, f) \in BitFields(format)
BY DEF Class, InstructionFormat, BitFields, SetterField

\* An assignment leaves a word of 32 bits, whatever the width of the value.
LEMMA AssignedInside ==
  ASSUME NEW format \in Class, NEW f \in BitFields(format),
         NEW raw \in Raw, NEW value \in Raw
  PROVE  Assigned(raw, f, value) \in Raw
<1>1. InField(f, value) \subseteq Bits(f)
  <2> SUFFICES ASSUME NEW b \in value, b <= f[2] - f[1]
               PROVE  b + f[1] \in f[1] .. f[2]
    BY DEF Bits, InField
  <2>1. b \in Int /\ 0 <= b
    BY DEF Raw, BitPosition
  <2>2. f[1] \in Int /\ f[2] \in Int
    BY FieldInside
  <2> QED
    BY <2>1, <2>2
<1>2. Bits(f) \subseteq BitPosition
  BY FieldInside DEF Bits, BitPosition
<1> QED
  BY <1>1, <1>2 DEF Assigned, Raw

\* A setter leaves the session with an object of the same class.
LEMMA AssignStep ==
  ASSUME TypeOK,
         NEW f \in BitFields(object.format), NEW value \in Values, Assign(f, value)
  PROVE  object' \in DecodedInstruction
<1> DEFINE assigned == SetterField(object.format, f)
<1>1. object.format \in Class /\ object.raw \in Raw /\ value \in Raw
  BY SessionAssumption DEF TypeOK, DecodedInstruction
<1>2. object' = [format |-> object.format, raw |-> Assigned(object.raw, assigned, value)]
  BY DEF Assign, TypeOK, DecodedInstruction
<1>3. Assigned(object.raw, assigned, value) \in Raw
  BY <1>1, SetterInside, AssignedInside
<1> QED
  BY <1>1, <1>2, <1>3 DEF DecodedInstruction

-----------------------------------------------------------------------------
\* A stage object ends a call in one of the ways TypeOK lists.
LEMMA OutcomeType ==
  ASSUME NEW i \in DecodedInstruction
  PROVE  /\ ExecuteOutcome(i) \in {"runtime_error", "invalid_argument", "computed",
                                   "compared", "EndOfProgram", "jumps"}
         /\ MemoryOutcome(i) \in {"load", "store", "nothing"}
BY DEF DecodedInstruction, Class, InstructionFormat, ExecuteOutcome, MemoryOutcome

LEMMA TypeStep == TypeOK /\ [Next]_vars => TypeOK'
<1> SUFFICES ASSUME TypeOK, [Next]_vars PROVE TypeOK'
  OBVIOUS
<1>1. ASSUME NEW format \in Class, NEW word \in Words, Construct(format, word)
      PROVE  TypeOK'
  BY <1>1, SessionAssumption DEF Construct, TypeOK, DecodedInstruction
<1>2. ASSUME NEW f \in BitFields(object.format), NEW value \in Values, Assign(f, value)
      PROVE  TypeOK'
  BY <1>2, AssignStep DEF Assign, TypeOK
<1>3. ASSUME NEW stage \in Stage, set_decoded_instruction(stage)
      PROVE  TypeOK'
  BY <1>3 DEF set_decoded_instruction, TypeOK
<1>4. ASSUME NEW stage \in Stage, set_something_else(stage)
      PROVE  TypeOK'
  BY <1>4 DEF set_something_else, TypeOK
<1>5. CASE execute
  BY <1>5, OutcomeType DEF execute, TypeOK, Stage
<1>6. CASE memory_access
  BY <1>6, OutcomeType DEF memory_access, TypeOK, Stage
<1>7. CASE write_back
  BY <1>7 DEF write_back, TypeOK
<1>8. CASE UNCHANGED vars
  BY <1>8 DEF vars, TypeOK
<1> QED
  BY <1>1, <1>2, <1>3, <1>4, <1>5, <1>6, <1>7, <1>8 DEF Next

\* Objects and stages stay 32 bits under one of the seven classes, for every
\* word and every value: the constructors and setters of the bindings.
THEOREM TypeCorrect == Spec => []TypeOK
<1>1. Init => TypeOK
  BY DEF Init, TypeOK, DecodedInstruction, Class, Invalid, Raw
<1> QED
  BY <1>1, TypeStep, PTL DEF Spec

-----------------------------------------------------------------------------
\* A range read from a word is empty exactly when the word has no bit there.
LEMMA RangeEmpty ==
  ASSUME NEW raw \in Raw, NEW start \in Int, NEW end \in Int, NEW low \in Int
  PROVE  Placed(raw, start, end, low) = {} <=> raw \cap (end .. start) = {}
<1>1. \A b \in raw : b \in Int
  BY DEF Raw, BitPosition
<1>2. {c \in raw : end <= c /\ c <= start} = raw \cap (end .. start)
  BY <1>1
<1> QED
  BY <1>2 DEF Placed

\* Ranges that pile up at bit 0 are empty together: none hides another.
LEMMA CombinedEmpty ==
  ASSUME NEW raw \in Raw, NEW ranges \in SUBSET (Int \X Int)
  PROVE  get_combined_immediate(raw, ranges) = {}
           <=> \A r \in ranges : raw \cap (r[2] .. r[1]) = {}
<1>1. get_combined_immediate(raw, ranges) = {}
        <=> \A r \in ranges : Placed(raw, r[1], r[2], 0) = {}
  BY DEF get_combined_immediate
<1>2. \A r \in ranges : Placed(raw, r[1], r[2], 0) = {} <=> raw \cap (r[2] .. r[1]) = {}
  BY RangeEmpty
<1> QED
  BY <1>1, <1>2

\* The ranges of a format pile up and sign extension copies a bit that is
\* there, so nothing is lost: the immediate is zero exactly if every field is.
LEMMA ZeroImmediate ==
  ASSUME NEW i \in DecodedInstruction
  PROVE  get_immediate(i.format, i.raw) = {} <=> AllZero(i)
<1>0. i.format \in Class /\ i.raw \in Raw
  BY DEF DecodedInstruction
<1>1. ASSUME NEW bits, NEW width PROVE sign_extend(bits, width) = {} <=> bits = {}
  BY DEF sign_extend
<1>2. CASE i.format = "I_TYPE"
  <2>1. get_immediate(i.format, i.raw) = {}
          <=> get_combined_immediate(i.raw, {<<31, 20>>}) = {}
    BY <1>1, <1>2 DEF get_immediate
  <2>2. get_combined_immediate(i.raw, {<<31, 20>>}) = {} <=> i.raw \cap (20 .. 31) = {}
    <3>1. {<<31, 20>>} \in SUBSET (Int \X Int)
      OBVIOUS
    <3>2. get_combined_immediate(i.raw, {<<31, 20>>}) = {}
            <=> \A r \in {<<31, 20>>} : i.raw \cap (r[2] .. r[1]) = {}
      BY <1>0, <3>1, CombinedEmpty
    <3> QED
      BY <3>2
  <2>3. ImmediateFields(i.format) = {<<20, 31>>}
    BY <1>2 DEF ImmediateFields
  <2>4. AllZero(i) <=> i.raw \cap (20 .. 31) = {}
    BY <2>3 DEF AllZero, Bits
  <2> QED
    BY <2>1, <2>2, <2>4
<1>3. CASE i.format = "S_TYPE"
  <2>1. get_immediate(i.format, i.raw) = {}
          <=> get_combined_immediate(i.raw, {<<31, 25>>, <<11, 7>>}) = {}
    BY <1>1, <1>3 DEF get_immediate
  <2>2. get_combined_immediate(i.raw, {<<31, 25>>, <<11, 7>>}) = {} <=>
             /\ i.raw \cap (25 .. 31) = {}
             /\ i.raw \cap (7 .. 11) = {}
    <3>1. {<<31, 25>>, <<11, 7>>} \in SUBSET (Int \X Int)
      OBVIOUS
    <3>2. get_combined_immediate(i.raw, {<<31, 25>>, <<11, 7>>}) = {}
            <=> \A r \in {<<31, 25>>, <<11, 7>>} : i.raw \cap (r[2] .. r[1]) = {}
      BY <1>0, <3>1, CombinedEmpty
    <3> QED
      BY <3>2
  <2>3. ImmediateFields(i.format) = {<<25, 31>>, <<7, 11>>}
    BY <1>3 DEF ImmediateFields
  <2>4. AllZero(i) <=>
             /\ i.raw \cap (25 .. 31) = {}
             /\ i.raw \cap (7 .. 11) = {}
    BY <2>3 DEF AllZero, Bits
  <2> QED
    BY <2>1, <2>2, <2>4
<1>4. CASE i.format = "B_TYPE"
  <2>1. get_immediate(i.format, i.raw) = {}
          <=> get_combined_immediate(i.raw, {<<31, 31>>, <<30, 25>>, <<11, 8>>, <<7, 7>>}) = {}
    BY <1>1, <1>4 DEF get_immediate
  <2>2. get_combined_immediate(i.raw, {<<31, 31>>, <<30, 25>>, <<11, 8>>, <<7, 7>>}) = {} <=>
             /\ i.raw \cap (31 .. 31) = {}
             /\ i.raw \cap (25 .. 30) = {}
             /\ i.raw \cap (8 .. 11) = {}
             /\ i.raw \cap (7 .. 7) = {}
    <3>1. {<<31, 31>>, <<30, 25>>, <<11, 8>>, <<7, 7>>} \in SUBSET (Int \X Int)
      OBVIOUS
    <3>2. get_combined_immediate(i.raw, {<<31, 31>>, <<30, 25>>, <<11, 8>>, <<7, 7>>}) = {}
            <=> \A r \in {<<31, 31>>, <<30, 25>>, <<11, 8>>, <<7, 7>>} : i.raw \cap (r[2] .. r[1]) = {}
      BY <1>0, <3>1, CombinedEmpty
    <3> QED
      BY <3>2
  <2>3. ImmediateFields(i.format) = {<<31, 31>>, <<25, 30>>, <<8, 11>>, <<7, 7>>}
    BY <1>4 DEF ImmediateFields
  <2>4. AllZero(i) <=>
             /\ i.raw \cap (31 .. 31) = {}
             /\ i.raw \cap (25 .. 30) = {}
             /\ i.raw \cap (8 .. 11) = {}
             /\ i.raw \cap (7 .. 7) = {}
    BY <2>3 DEF AllZero, Bits
  <2> QED
    BY <2>1, <2>2, <2>4
<1>5. CASE i.format = "U_TYPE"
  <2>1. get_immediate(i.format, i.raw) = {}
          <=> get_combined_immediate(i.raw, {<<31, 12>>}) = {}
    BY <1>5 DEF get_immediate
  <2>2. get_combined_immediate(i.raw, {<<31, 12>>}) = {} <=> i.raw \cap (12 .. 31) = {}
    <3>1. {<<31, 12>>} \in SUBSET (Int \X Int)
      OBVIOUS
    <3>2. get_combined_immediate(i.raw, {<<31, 12>>}) = {}
            <=> \A r \in {<<31, 12>>} : i.raw \cap (r[2] .. r[1]) = {}
      BY <1>0, <3>1, CombinedEmpty
    <3> QED
      BY <3>2
  <2>3. ImmediateFields(i.format) = {<<12, 31>>}
    BY <1>5 DEF ImmediateFields
  <2>4. AllZero(i) <=> i.raw \cap (12 .. 31) = {}
    BY <2>3 DEF AllZero, Bits
  <2> QED
    BY <2>1, <2>2, <2>4
<1>6. CASE i.format = "J_TYPE"
  <2>1. get_immediate(i.format, i.raw) = {}
          <=> get_combined_immediate(i.raw, {<<31, 31>>, <<30, 21>>, <<20, 20>>, <<19, 12>>}) = {}
    BY <1>1, <1>6 DEF get_immediate
  <2>2. get_combined_immediate(i.raw, {<<31, 31>>, <<30, 21>>, <<20, 20>>, <<19, 12>>}) = {} <=>
             /\ i.raw \cap (31 .. 31) = {}
             /\ i.raw \cap (21 .. 30) = {}
             /\ i.raw \cap (20 .. 20) = {}
             /\ i.raw \cap (12 .. 19) = {}
    <3>1. {<<31, 31>>, <<30, 21>>, <<20, 20>>, <<19, 12>>} \in SUBSET (Int \X Int)
      OBVIOUS
    <3>2. get_combined_immediate(i.raw, {<<31, 31>>, <<30, 21>>, <<20, 20>>, <<19, 12>>}) = {}
            <=> \A r \in {<<31, 31>>, <<30, 21>>, <<20, 20>>, <<19, 12>>} : i.raw \cap (r[2] .. r[1]) = {}
      BY <1>0, <3>1, CombinedEmpty
    <3> QED
      BY <3>2
  <2>3. ImmediateFields(i.format) = {<<31, 31>>, <<21, 30>>, <<20, 20>>, <<12, 19>>}
    BY <1>6 DEF ImmediateFields
  <2>4. AllZero(i) <=>
             /\ i.raw \cap (31 .. 31) = {}
             /\ i.raw \cap (21 .. 30) = {}
             /\ i.raw \cap (20 .. 20) = {}
             /\ i.raw \cap (12 .. 19) = {}
    BY <2>3 DEF AllZero, Bits
  <2> QED
    BY <2>1, <2>2, <2>4
<1>7. CASE i.format \in {"R_TYPE", "INIVALID_TYPE"}
  BY <1>7 DEF get_immediate, AllZero, ImmediateFields
<1> QED
  BY <1>0, <1>2, <1>3, <1>4, <1>5, <1>6, <1>7 DEF Class, InstructionFormat

\* The immediate of the I format is its one field, moved down and extended.
LEMMA ImmediateIsField ==
  ASSUME NEW raw \in Raw
  PROVE  get_immediate("I_TYPE", raw)
           = sign_extend({b - 20 : b \in raw \cap (20 .. 31)}, 12)
<1>1. get_combined_immediate(raw, {<<31, 20>>}) = {b - 20 : b \in raw \cap (20 .. 31)}
  <2> DEFINE r == <<31, 20>>
  <2>1. /\ r[1] = 31
        /\ r[2] = 20
    OBVIOUS
  <2>2. get_combined_immediate(raw, {r}) = Placed(raw, r[1], r[2], 0)
    BY Zenon DEF get_combined_immediate
  <2>3. Placed(raw, r[1], r[2], 0) = Placed(raw, 31, 20, 0)
    BY <2>1, Zenon
  <2>4. Placed(raw, 31, 20, 0) = {b - 20 : b \in raw \cap (20 .. 31)}
    <3>1. raw \subseteq Int
      BY DEF Raw, BitPosition
    <3>2. {c \in raw : 20 =< c /\ c =< 31} = raw \cap (20 .. 31)
      <4>1. \A c \in raw : (20 =< c /\ c =< 31) <=> c \in 20 .. 31
        BY <3>1
      <4> QED
        BY <4>1, Zenon
    <3>3. \A b \in raw \cap (20 .. 31) : b - 20 + 0 = b - 20
      BY <3>1
    <3> QED
      BY <3>2, <3>3 DEF Placed
  <2> QED
    BY <2>2, <2>3, <2>4, Zenon
<1> QED
  BY <1>1 DEF get_immediate

\* The immediate of an object built field by field is what was assigned, for
\* every sequence of assignments.
THEOREM FieldsGiveImmediate == Spec => []ImmediateIsFields
<1>1. TypeOK => ImmediateIsFields
  <2> SUFFICES ASSUME TypeOK PROVE ImmediateIsFields
    OBVIOUS
  <2>1. object \in DecodedInstruction /\ object.raw \in Raw
    BY DEF TypeOK, DecodedInstruction
  <2>2. ASSUME NEW f \in ImmediateFields("I_TYPE")
        PROVE  get_immediate("I_TYPE", object.raw)
                 = sign_extend({b - f[1] : b \in object.raw \cap Bits(f)}, 12)
    BY <2>1, ImmediateIsField DEF ImmediateFields, Bits
  <2> QED
    BY <2>1, <2>2, ZeroImmediate DEF ImmediateIsFields
<1> QED
  BY <1>1, TypeCorrect, PTL

\* The end of a program is raised for a jump object exactly if its offset
\* fields are all zero, whatever the session did before and since.
THEOREM EndNeedsZeroFields == Spec => []EndsAtZeroFields
<1>1. Init => EndsAtZeroFields
  BY DEF Init, EndsAtZeroFields
<1>2. TypeOK /\ EndsAtZeroFields /\ [Next]_vars => EndsAtZeroFields'
  <2> SUFFICES ASSUME TypeOK, EndsAtZeroFields, [Next]_vars PROVE EndsAtZeroFields'
    OBVIOUS
  <2>1. CASE execute
    <3>1. held["execute"] \in DecodedInstruction /\ held' = held
      BY <2>1 DEF TypeOK, Stage, execute
    <3>2. get_immediate(held["execute"].format, held["execute"].raw) = {}
            <=> AllZero(held["execute"])
      BY <3>1, ZeroImmediate
    <3>3. held["execute"].format \in Class
      BY <3>1 DEF DecodedInstruction
    <3>4. /\ outcome' = "EndOfProgram" => held["execute"].format = "J_TYPE"
                                            /\ AllZero(held["execute"])
          /\ outcome' = "jumps" => ~AllZero(held["execute"])
      BY <2>1, <3>2, <3>3 DEF execute, ExecuteOutcome, Class, InstructionFormat
    <3> QED
      BY <3>1, <3>4 DEF EndsAtZeroFields
  <2>2. CASE memory_access
    BY <2>2, OutcomeType DEF memory_access, EndsAtZeroFields, TypeOK, Stage
  <2>3. CASE write_back
    BY <2>3 DEF write_back, EndsAtZeroFields
  <2>4. CASE UNCHANGED vars
    BY <2>4 DEF vars, EndsAtZeroFields
  <2> QED
    BY <2>1, <2>2, <2>3, <2>4
    DEF Next, Construct, Assign, set_decoded_instruction, set_something_else, EndsAtZeroFields
<1> QED
  BY <1>1, <1>2, TypeCorrect, PTL DEF Spec
=============================================================================
