------------------------------- MODULE MCMMU -------------------------------
(* MMU on 16 addresses, four pages of four bytes and six bytes of memory.  *)
EXTENDS MMU

P(frame, bits) == [frame |-> frame, bits |-> bits]

MCData == {[i \in 0 .. 3 |-> 1], [i \in 0 .. 3 |-> IF i \in {0, 3} THEN 0 ELSE 1]}

\* 2 and 14 start words that cross a page; 14 wraps to address 0; 5 is unmapped.
MCAddresses == {0, 2, 5, 14}

\* Page 0 and page 12 are neighbours by wrap-around.  Frame 4 lies partly
\* beyond the memory.  The entry at 5 is under an unaligned address.
MCAdditions ==
  {<<0, P(0, PteBit)>>,
   <<0, P(4, {"VALID", "READ", "WRITE"})>>,
   <<12, P(0, {"VALID", "READ", "WRITE", "USER_ACCESSIBLE"})>>,
   <<12, P(4, {"VALID", "READ", "EXECUTE", "USER_ACCESSIBLE"})>>,
   <<12, P(0, PteBit \ {"VALID"})>>,
   <<5, P(0, PteBit)>>}
=============================================================================
