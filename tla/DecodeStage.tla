----------------------------- MODULE DecodeStage -----------------------------
(***************************************************************************)
(* The decode stage as the pipeline and the Python host drive it: a word   *)
(* is set, process() is called.  A word with an unknown opcode throws and  *)
(* leaves the instruction decoded before it in place.                      *)
(***************************************************************************)
EXTENDS Instruction

CONSTANT Words    \* instruction words the driver sets
ASSUME WordsAssumption == Words \subseteq Raw

VARIABLES
  fetched_instruction,
  decoded_instruction,   \* the variant: its format and its word
  outcome                \* how the last call ended

vars == <<fetched_instruction, decoded_instruction, outcome>>

Init ==
  /\ fetched_instruction = {}
  /\ decoded_instruction = [format |-> "INIVALID_TYPE", raw |-> {}]
  /\ outcome = "constructed"

set_fetched_instruction(instruction) ==
  /\ fetched_instruction' = instruction
  /\ outcome' = "set"
  /\ UNCHANGED decoded_instruction

Matches(format) == get_opcode(fetched_instruction) = OpcodeOf[format]

\* Mutant: the constructor of the matched format is given the word again
\* only when the format changes.
KeepSameFormat(format) ==
  /\ Matches(format)
  /\ outcome' = "decoded"
  /\ decoded_instruction' = IF decoded_instruction.format = format THEN decoded_instruction
                            ELSE [format |-> format, raw |-> fetched_instruction]
  /\ UNCHANGED fetched_instruction

Decode(format) ==
  /\ Matches(format)
  /\ outcome' = "decoded"
  /\ decoded_instruction' = [format |-> format, raw |-> fetched_instruction]
  /\ UNCHANGED fetched_instruction

\* Mutant: an unknown opcode is handed on instead of thrown at.
DecodeUnknown ==
  /\ \A format \in InstructionFormat : ~Matches(format)
  /\ outcome' = "decoded"
  /\ decoded_instruction' = [format |-> "UNKNOWN", raw |-> fetched_instruction]
  /\ UNCHANGED fetched_instruction

DecodeUnsupported ==
  /\ \A format \in InstructionFormat : ~Matches(format)
  /\ outcome' = "invalid_argument"
  /\ UNCHANGED <<fetched_instruction, decoded_instruction>>

process == (\E format \in InstructionFormat : Decode(format)) \/ DecodeUnsupported

Next == process \/ \E instruction \in Words : set_fetched_instruction(instruction)

Spec == Init /\ [][Next]_vars

-----------------------------------------------------------------------------
\* The variant holds one of its seven alternatives and a 32-bit word, and a
\* call ends in one of the four ways the stage has.
TypeOK ==
  /\ fetched_instruction \in Raw
  /\ decoded_instruction \in [format : InstructionFormat \cup {"INIVALID_TYPE"}, raw : Raw]
  /\ outcome \in {"constructed", "set", "decoded", "invalid_argument"}

format == decoded_instruction.format
raw == decoded_instruction.raw

\* The variant never mixes two instructions: a decoded word is the word that
\* was set, and the format kept across failures still fits the word kept.
DecodedWhole ==
  /\ outcome = "decoded" => raw = fetched_instruction
  /\ format # "INIVALID_TYPE" => get_opcode(raw) = OpcodeOf[format]
  /\ outcome = "decoded" => format # "INIVALID_TYPE"

\* Jump to self ends the program.  Although the ranges of the J immediate pile
\* up on the low bits, its value is zero for exactly the words whose encoded
\* offset is zero, so no other jump ends a program and no jump to self misses.
\* The same holds of the branch immediate.
ZeroOffsetExact ==
  format \in {"J_TYPE", "B_TYPE"} =>
    (get_immediate(format, raw) = {} <=> commented_immediate(format, raw) = {})

\* Immediates that are one range, and store offsets below 32, have the value
\* the encoding gives them.
SingleRangesFaithful ==
  \/ format \in {"I_TYPE", "U_TYPE"}
  \/ format = "S_TYPE" /\ raw \cap (25 .. 31) = {}
  => get_immediate(format, raw) = commented_immediate(format, raw)

\* Ranges that pile up on bit 0 never reach the bit that sign_extend looks at:
\* the offset of a store, branch or jump is never negative, and is below 2^7,
\* 2^6 and 2^10, so the sign in bit 31 of the word becomes a low bit of the offset.
OffsetsStayLow ==
  /\ format = "S_TYPE" => get_immediate(format, raw) \subseteq 0 .. 6
  /\ format = "B_TYPE" => get_immediate(format, raw) \subseteq 0 .. 5
  /\ format = "J_TYPE" => get_immediate(format, raw) \subseteq 0 .. 9

\* The bit-fields of every format lose no bit and read none twice.
FieldsTile ==
  format # "INIVALID_TYPE" =>
    \A b \in BitPosition :
      \E f \in BitFields(format) :
        /\ f[1] <= b /\ b <= f[2]
        /\ \A g \in BitFields(format) : g[1] <= b /\ b <= g[2] => g = f

\* Instruction.hpp comments every range with the bits of the immediate it holds.
ImmediatesAsCommented ==
  format # "INIVALID_TYPE" => get_immediate(format, raw) = commented_immediate(format, raw)
=============================================================================
