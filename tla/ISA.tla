-------------------------------- MODULE ISA --------------------------------
(***************************************************************************)
(* What the CPU promises its host: programs are loaded and run on a        *)
(* machine that carries out one instruction of InstructionSet in a step.   *)
(***************************************************************************)
EXTENDS InstructionSet

CONSTANTS
  Files,     \* the program files, each a function from 0 .. size - 1 to bytes
  MaxLoads   \* bound on the calls of load_program

VARIABLES
  running,   \* run() has been called and has not returned
  reply,     \* how the host's last call ended
  file,      \* the program file last given to load_program
  loads      \* calls of load_program so far

vars == <<memoryVars, registers, pc, thrown, running, reply, file, loads>>

NoFile == [i \in {} |-> 0]

\* The constructor maps page 0 onto frame 0 with every right.
Page0 == [frame |-> 0, bits |-> PteBit]

Init ==
  /\ memory = [pa \in 0 .. MemorySize - 1 |-> 0]
  /\ entries = [page \in {0} |-> Page0]
  /\ privilege_mode = "MACHINE"
  /\ registers = [r \in Reg |-> ZeroWord]
  /\ pc = 0
  /\ thrown = "none"
  /\ running = FALSE
  /\ reply = "constructed"
  /\ file = NoFile
  /\ loads = 0

-----------------------------------------------------------------------------
\* A program is placed at address 0, as far as the page and the memory reach.
Load ==
  /\ ~running
  /\ loads < MaxLoads
  /\ file' \in Files
  /\ memory' = Written(0, file')
  /\ LET whole == \A i \in DOMAIN file' : ReachesByte(0, i, TRUE) IN
     /\ pc' = IF whole THEN 0 ELSE pc
     /\ reply' = IF whole THEN "loaded" ELSE "load_failed"
  /\ loads' = loads + 1
  /\ UNCHANGED <<entries, privilege_mode, registers, thrown, running>>

LoadNothing ==
  /\ ~running
  /\ loads < MaxLoads
  /\ reply' = "load_failed"
  /\ loads' = loads + 1
  /\ UNCHANGED <<memoryVars, registers, pc, thrown, running, file>>

Start ==
  /\ ~running
  /\ running' = TRUE
  /\ reply' = "running"
  /\ UNCHANGED <<memoryVars, registers, pc, thrown, file, loads>>

Stop ==
  /\ running
  /\ thrown # "none"
  /\ running' = FALSE
  /\ reply' = IF thrown = "EndOfProgram" THEN "returned" ELSE "std::exception"
  /\ thrown' = "none"
  /\ UNCHANGED <<memoryVars, registers, pc, file, loads>>

-----------------------------------------------------------------------------
Step ==
  /\ running
  /\ Instruct
  /\ UNCHANGED <<running, reply, file, loads>>

Next ==
  \/ Load
  \/ LoadNothing \/ Start \/ Stop
  \/ Step

Spec == Init /\ [][Next]_vars
=============================================================================
