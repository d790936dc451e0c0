------------------------------- MODULE MCALU -------------------------------
(* Registers of 12 bits, as wide as the immediate field itself.            *)
EXTENDS ALUWalk

Bits(n) == {i \in Position : (n \div 2 ^ i) % 2 = 1}

\* Small, largest, smallest, minus one, the boundaries of the shift amount,
\* SRAI by 1 and 3, and two patterns.
MCImmediates == 
  {Bits(n) : n \in
     {0, 1, 2, 5, 11, 12, 31, 32, 33, 1025, 1027, 1365, 2047, 2048, 2730, 4095}}
=============================================================================
