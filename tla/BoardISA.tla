------------------------------ MODULE BoardISA ------------------------------
(***************************************************************************)
(* What a pipeline promises the session that owns its parts: run_cycle is  *)
(* one instruction of InstructionSet, carried out with the page table, the *)
(* mode, the registers and the memory as the session left them.            *)
(***************************************************************************)
EXTENDS InstructionSet, BoardHost

Step ==
  /\ cycling
  /\ Instruct
  /\ cycling' = FALSE
  /\ UNCHANGED calls

Next == HostCall \/ RunCycle \/ Step

Spec == HostInit /\ [][Next]_hostVars
=============================================================================
