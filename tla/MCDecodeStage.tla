--------------------------- MODULE MCDecodeStage ---------------------------
(* Decoding of every known opcode and two unknown ones, LOAD and 0, each   *)
(* with no other bit, one other bit, all of them, or bits that pile up.    *)
EXTENDS DecodeStage

Opcodes == {OpcodeOf[f] : f \in InstructionFormat} \cup {{0, 1}, {}}

Rest ==
  {{}, 7 .. 31, {7, 25}, {12, 21, 31}} \cup {{b} : b \in 7 .. 31}

MCWords == {opcode \cup rest : opcode \in Opcodes, rest \in Rest}
=============================================================================
