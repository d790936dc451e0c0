-------------------------- MODULE MCPythonStages --------------------------
(* Objects of every class built from the words 0 and 0x03, and every field *)
(* but rs1 and rs2, which only name registers to read, set to zero or to   *)
(* more ones than it holds.                                                *)
EXTENDS PythonStages

MCWords == {{}, {0, 1}}
MCSettable == UNION {BitFields(format) : format \in InstructionFormat} \ {<<15, 19>>, <<20, 24>>}
MCValues == {{}, BitPosition}
=============================================================================
