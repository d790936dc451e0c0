--------------------------- MODULE InstructionSet ---------------------------
(***************************************************************************)
(* One instruction carried out in one step, with no stage, no latch and    *)
(* nothing left over from earlier instructions.  An instruction retires or *)
(* traps; both move the pc on, except where the instruction could not be   *)
(* fetched.  The promise is that of the code, not of RV32I: no jump or     *)
(* branch moves the pc, and the register a jump links receives some word.  *)
(* ISA and BoardISA put the host around it.                                *)
(***************************************************************************)
EXTENDS Machine

Fetchable == WordOutcome(pc, FALSE) = "ok"
here == Fields[WordAt(pc)]

\* The instruction computes a word from registers and immediate into rd.
Compute ==
  /\ here.opcode \in {"R_TYPE", "I_TYPE", "U_TYPE"}
  /\ ComputesAlu(here)
  /\ registers' = WithRegister(here.rd, AluOf(here, registers))
  /\ UNCHANGED <<memory, thrown>>

\* A jump goes on after itself and links an unspecified word.
Jump ==
  /\ here.opcode = "J_TYPE"
  /\ here.imm # ZeroWord
  /\ \E w \in Word : registers' = WithRegister(here.rd, w)
  /\ UNCHANGED <<memory, thrown>>

Branch ==
  /\ Branches(here)
  /\ UNCHANGED <<memory, registers, thrown>>

StoreWord ==
  /\ here.opcode = "S_TYPE"
  /\ LET va == Value(AluOf(here, registers)) IN
     /\ memory' = Written(va, registers[here.rs2])
     /\ thrown' = IF WordOutcome(va, TRUE) = "ok" THEN "none" ELSE WordOutcome(va, TRUE)
  /\ UNCHANGED registers

EndOfProgram ==
  /\ here.opcode = "J_TYPE"
  /\ here.imm = ZeroWord
  /\ thrown' = "EndOfProgram"
  /\ UNCHANGED <<memory, registers>>

Illegal ==
  /\ here.opcode \notin Format \/ Unsupported(here)
  /\ thrown' = "invalid_argument"
  /\ UNCHANGED <<memory, registers>>

Retire ==
  /\ Fetchable
  /\ Compute \/ Jump \/ Branch \/ StoreWord \/ EndOfProgram \/ Illegal
  /\ pc' = NextPc(pc)
  /\ UNCHANGED <<entries, privilege_mode>>

FetchTrap ==
  /\ ~Fetchable
  /\ thrown' = WordOutcome(pc, FALSE)
  /\ UNCHANGED <<memoryVars, registers, pc>>

Instruct == thrown = "none" /\ (Retire \/ FetchTrap)
=============================================================================
