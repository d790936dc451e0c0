---------------------------- MODULE PythonStages ----------------------------
(***************************************************************************)
(* The bindings of the instruction classes and of the later stages, as     *)
(* tests/basic_directed/test_pipeline_stages.py uses them: a session       *)
(* builds an instruction object from a word, assigns its fields one by     *)
(* one, hands it to a stage object and calls process.  A stage keeps a     *)
(* copy and dispatches on the class of the object, not on its opcode.      *)
(***************************************************************************)
EXTENDS Instruction

CONSTANTS
  Words,      \* words given to the constructors
  Settable,   \* the bit-fields a session assigns
  Values      \* values assigned to them, as 32-bit patterns

ASSUME SessionAssumption == Words \subseteq Raw /\ Values \subseteq Raw

VARIABLES
  object,    \* the instruction object of the session: its class and its bits
  held,      \* the decoded_instruction of every stage object
  outcome    \* how the last call ended, and what it did

vars == <<object, held, outcome>>

Class == InstructionFormat \cup {"INIVALID_TYPE"}
DecodedInstruction == [format : Class, raw : Raw]
Invalid == [format |-> "INIVALID_TYPE", raw |-> {}]
Stage == {"execute", "memory_access", "write_back"}

Init ==
  /\ object = Invalid
  /\ held = [stage \in Stage |-> Invalid]
  /\ outcome = "constructed"

-----------------------------------------------------------------------------
Construct(format, word) ==
  /\ object' = [format |-> format, raw |-> word]
  /\ outcome' = "constructed"
  /\ UNCHANGED held

Bits(f) == f[1] .. f[2]

\* Mutant: the value is not cut at all.
AssignedUncut(raw, f, value) == (raw \ Bits(f)) \cup {b + f[1] : b \in value}

\* A value as the field f holds it: its low bits, in the places of the field.
InField(f, value) == {b + f[1] : b \in {c \in value : c <= f[2] - f[1]}}

Assigned(raw, f, value) == (raw \ Bits(f)) \cup InField(f, value)

\* The field a setter assigns: its own, except that rd of the R format
\* assigns opcode.
SetterField(format, f) == IF format = "R_TYPE" /\ f = <<7, 11>> THEN <<0, 6>> ELSE f

Assign(f, value) ==
  /\ object' = [object EXCEPT !.raw = Assigned(@, SetterField(object.format, f), value)]
  /\ outcome' = "assigned"
  /\ UNCHANGED held

-----------------------------------------------------------------------------
\* The set_decoded_instruction of all three stage classes takes an
\* ExecuteStage as self; called on another stage it is a TypeError.
Accepts(stage) == stage = "execute"

set_decoded_instruction(stage) ==
  /\ held' = IF Accepts(stage) THEN [held EXCEPT ![stage] = object] ELSE held
  /\ outcome' = IF Accepts(stage) THEN "set" ELSE "TypeError"
  /\ UNCHANGED object

\* The session hands over something that is no instruction.
set_something_else(stage) ==
  /\ outcome' = IF Accepts(stage) THEN "runtime_error" ELSE "TypeError"
  /\ UNCHANGED <<object, held>>

Funct3(raw) == Placed(raw, 14, 12, 0)
HasRd(raw) == Placed(raw, 11, 7, 0) # {}
LoadOpcode == {0, 1}    \* 0x03

\* Mutant: a jump that links nothing ends the program.
OutcomeByRd(i) ==
  CASE i.format = "J_TYPE" -> IF HasRd(i.raw) THEN "jumps" ELSE "EndOfProgram"
    [] OTHER -> "computed"

\* How ExecuteStage::process ends for the instruction i.
ExecuteOutcome(i) ==
  CASE i.format = "INIVALID_TYPE" -> "runtime_error"
    [] i.format = "R_TYPE" -> IF Funct3(i.raw) = {} THEN "computed" ELSE "invalid_argument"
    [] i.format = "B_TYPE" -> IF Funct3(i.raw) \subseteq {0} THEN "compared"
                                                             ELSE "invalid_argument"
    [] i.format = "J_TYPE" -> IF get_immediate(i.format, i.raw) = {} THEN "EndOfProgram"
                                                                     ELSE "jumps"
    [] OTHER -> "computed"

\* What MemoryAccessStage::process asks of the MMU.
MemoryOutcome(i) ==
  IF i.format = "I_TYPE" /\ get_opcode(i.raw) = LoadOpcode THEN "load"
  ELSE IF i.format = "S_TYPE" THEN "store"
  ELSE "nothing"

\* Whether WriteBackStage::process writes a register; a load does so only if
\* the session has given it a MemoryAccessResult with data.
WritesRegister(i, has_data) ==
  /\ i.format \in {"R_TYPE", "I_TYPE", "U_TYPE", "J_TYPE"}
  /\ HasRd(i.raw)
  /\ MemoryOutcome(i) = "load" => has_data

execute == outcome' = ExecuteOutcome(held["execute"]) /\ UNCHANGED <<object, held>>

memory_access == outcome' = MemoryOutcome(held["memory_access"]) /\ UNCHANGED <<object, held>>

write_back ==
  /\ \E has_data \in BOOLEAN :
       outcome' = IF WritesRegister(held["write_back"], has_data) THEN "register" ELSE "nothing"
  /\ UNCHANGED <<object, held>>

Next ==
  \/ \E format \in Class, word \in Words : Construct(format, word)
  \/ \E f \in BitFields(object.format) \cap Settable, value \in Values : Assign(f, value)
  \/ \E stage \in Stage : set_decoded_instruction(stage) \/ set_something_else(stage)
  \/ execute \/ memory_access \/ write_back

Spec == Init /\ [][Next]_vars

-----------------------------------------------------------------------------
\* Objects and stages hold 32 bits under one of the seven classes, however
\* large the values assigned to fields.
TypeOK ==
  /\ object \in DecodedInstruction
  /\ held \in [Stage -> DecodedInstruction]
  /\ outcome \in {"constructed", "assigned", "set", "TypeError", "runtime_error",
                  "invalid_argument", "EndOfProgram", "computed", "compared", "jumps",
                  "load", "store", "register", "nothing"}

ImmediateFields(format) ==
  CASE format = "I_TYPE" -> {<<20, 31>>}
    [] format = "S_TYPE" -> {<<7, 11>>, <<25, 31>>}
    [] format = "B_TYPE" -> {<<7, 7>>, <<8, 11>>, <<25, 30>>, <<31, 31>>}
    [] format = "U_TYPE" -> {<<12, 31>>}
    [] format = "J_TYPE" -> {<<12, 19>>, <<20, 20>>, <<21, 30>>, <<31, 31>>}
    [] OTHER -> {}

AllZero(i) == \A f \in ImmediateFields(i.format) : i.raw \cap Bits(f) = {}

\* An object built field by field means what was assigned: the immediate the
\* stages use, read from the word by ranges, is zero exactly if every
\* immediate field is, and for one field it is that field.
ImmediateIsFields ==
  /\ get_immediate(object.format, object.raw) = {} <=> AllZero(object)
  /\ object.format = "I_TYPE" =>
       \A f \in ImmediateFields("I_TYPE") :
         get_immediate("I_TYPE", object.raw)
           = sign_extend({b - f[1] : b \in object.raw \cap Bits(f)}, 12)

\* The end of a program is raised for a jump object exactly if all of its four
\* offset fields are zero, whatever its opcode and destination were set to.
EndsAtZeroFields ==
  /\ outcome = "EndOfProgram" => held["execute"].format = "J_TYPE" /\ AllZero(held["execute"])
  /\ outcome = "jumps" => ~AllZero(held["execute"])

-----------------------------------------------------------------------------
\* test_memory_access_load, test_memory_access_store and test_write_back_load
\* hand an instruction to their stage and expect it to be carried out: every
\* stage takes the instruction it is given, as the docstring of the binding,
\* "Set the decoded instruction", says.
StagesTakeInstructions ==
  [][\A stage \in Stage : set_decoded_instruction(stage) => held'[stage] = object]_vars
=============================================================================
