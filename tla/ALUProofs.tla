------------------------------ MODULE ALUProofs ------------------------------
(***************************************************************************)
(* The arithmetic of the execute stage at every width, the 32 bits of the  *)
(* code among them, for every register and every immediate: the run takes  *)
(* 12 bits and 16 immediates.                                              *)
(***************************************************************************)
EXTENDS ALUWalk, WellFoundedInduction, TLAPS

-----------------------------------------------------------------------------
\* Induction on positions, upwards and downwards.  Every set of natural
\* numbers has a least element: here the positions where a claim fails.
LEMMA Least ==
  ASSUME NEW S \in SUBSET Nat, S # {}
  PROVE  \E n \in S : \A m \in S : n <= m
<1> DEFINE R == {p \in Nat \X Nat : p[1] < p[2]}
<1>1. IsWellFoundedOn(R, Nat)
  BY NatLessThanWellFounded DEF OpToRel
<1>2. \A n, m \in S : <<m, n>> \notin R => n <= m
  OBVIOUS
<1> HIDE DEF R
<1>3. \E n \in S : \A m \in S : <<m, n>> \notin R
  BY <1>1, WFMin
<1> QED
  BY <1>2, <1>3

LEMMA Climb ==
  ASSUME NEW S \in SUBSET (0 .. Width), 0 \in S,
         \A i \in Position : i \in S => i + 1 \in S
  PROVE  S = 0 .. Width
<1> SUFFICES ASSUME (0 .. Width) \ S # {} PROVE FALSE
  OBVIOUS
<1>1. PICK n \in (0 .. Width) \ S : \A m \in (0 .. Width) \ S : n <= m
  <2> DEFINE T == (0 .. Width) \ S
  <2>1. T \in SUBSET Nat /\ T # {}
    BY WidthAssumption
  <2> HIDE DEF T
  <2>2. \E n \in T : \A m \in T : n <= m
    BY <2>1, Least
  <2> QED
    BY <2>2 DEF T
<1>2. n - 1 \in Position /\ n - 1 \in S
  BY <1>1, WidthAssumption DEF Position
<1> QED
  BY <1>1, <1>2 DEF Position

LEMMA Descend ==
  ASSUME NEW S \in SUBSET (0 .. Width), Width \in S,
         \A i \in Position : i + 1 \in S => i \in S
  PROVE  S = 0 .. Width
<1> DEFINE T == {i \in 0 .. Width : Width - i \in S}
<1>1. 0 \in T
  BY WidthAssumption
<1>2. ASSUME NEW i \in Position, i \in T PROVE i + 1 \in T
  <2>1. Width - i - 1 \in Position /\ (Width - i - 1) + 1 = Width - i
    BY WidthAssumption DEF Position
  <2>2. Width - i - 1 \in S
    BY <1>2, <2>1
  <2> QED
    BY <2>1, <2>2, WidthAssumption DEF Position
<1>3. T = 0 .. Width
  BY <1>1, <1>2, Climb
<1>4. ASSUME NEW i \in 0 .. Width PROVE i \in S
  <2>1. Width - i \in T
    BY <1>3, WidthAssumption
  <2> QED
    BY <2>1, WidthAssumption
<1> QED
  BY <1>4

-----------------------------------------------------------------------------
\* The recursion that defines a number is well-founded, so the number has the
\* digits of the register: at every position one bit and twice what is above.
LEMMA NumberUnfolds ==
  ASSUME NEW a \in Register
  PROVE  /\ NumberFrom(a)[Width] = 0
         /\ \A i \in Position :
              NumberFrom(a)[i] = Weight(a, i, 1) + 2 * NumberFrom(a)[i + 1]
<1> DEFINE Unfolds(g, n) ==
             g = [i \in n .. Width |-> IF i = Width THEN 0 ELSE Weight(a, i, 1) + 2 * g[i + 1]]
           S == {n \in 0 .. Width : \E g : Unfolds(g, n)}
<1>1. Width \in S
  <2> DEFINE g == [i \in Width .. Width |-> 0]
  <2>1. Unfolds(g, Width)
    BY WidthAssumption
  <2> HIDE DEF g, Unfolds
  <2>2. Width \in 0 .. Width
    BY WidthAssumption
  <2> QED
    BY <2>1, <2>2
<1>2. ASSUME NEW n \in Position, n + 1 \in S PROVE n \in S
  <2>1. PICK g : Unfolds(g, n + 1)
    BY <1>2
  <2> DEFINE h == [i \in n .. Width |->
                     IF i = n THEN Weight(a, n, 1) + 2 * g[n + 1] ELSE g[i]]
  <2>2. \A i \in n .. Width :
          h[i] = IF i = Width THEN 0 ELSE Weight(a, i, 1) + 2 * h[i + 1]
    <3> SUFFICES ASSUME NEW i \in n .. Width
                 PROVE  h[i] = IF i = Width THEN 0 ELSE Weight(a, i, 1) + 2 * h[i + 1]
      OBVIOUS
    <3>1. CASE i = n
      <4>1. n + 1 \in n .. Width /\ n # Width /\ n + 1 # n
        BY WidthAssumption DEF Position
      <4> QED
        BY <3>1, <4>1
    <3>2. CASE i # n
      <4>1. i \in n + 1 .. Width
        BY <3>2, WidthAssumption DEF Position
      <4>2. h[i] = g[i] /\ g[i] = IF i = Width THEN 0 ELSE Weight(a, i, 1) + 2 * g[i + 1]
        BY <2>1, <3>2, <4>1
      <4>3. i # Width => i + 1 \in n .. Width /\ i + 1 # n
        BY <3>2, <4>1, WidthAssumption DEF Position
      <4> QED
        BY <4>2, <4>3
    <3> QED
      BY <3>1, <3>2
  <2>3. Unfolds(h, n)
    BY <2>2
  <2>4. n \in 0 .. Width
    BY WidthAssumption DEF Position
  <2> QED
    BY <2>3, <2>4
<1>3. 0 \in S
  <2>1. S = 0 .. Width
    <3> HIDE DEF S
    <3>1. S \subseteq 0 .. Width
      BY DEF S
    <3> QED
      BY <1>1, <1>2, <3>1, Descend
  <2> QED
    BY <2>1, WidthAssumption
<1>4. \E g : Unfolds(g, 0)
  BY <1>3
<1>5. Unfolds(NumberFrom(a), 0)
  BY <1>4 DEF NumberFrom
<1> DEFINE number == NumberFrom(a)
<1>6. \A i \in 0 .. Width :
        number[i] = IF i = Width THEN 0 ELSE Weight(a, i, 1) + 2 * number[i + 1]
  BY <1>5
<1> HIDE DEF number
<1>7. Width \in 0 .. Width /\ \A i \in Position : i \in 0 .. Width /\ i # Width
  BY WidthAssumption DEF Position
<1>8. /\ number[Width] = 0
      /\ \A i \in Position : number[i] = Weight(a, i, 1) + 2 * number[i + 1]
  BY <1>6, <1>7
<1> QED
  BY <1>8 DEF number

\* No digits outgrow those of the register full of ones.
LEMMA NumberRange ==
  ASSUME NEW a \in Register
  PROVE  \A i \in 0 .. Width :
           NumberFrom(a)[i] \in Nat /\ NumberFrom(a)[i] <= NumberFrom(Position)[i]
<1> DEFINE n == NumberFrom(a)
           full == NumberFrom(Position)
           S == {i \in 0 .. Width : n[i] \in Nat /\ full[i] \in Nat /\ n[i] <= full[i]}
<1>1. n[Width] = 0 /\ \A i \in Position : n[i] = Weight(a, i, 1) + 2 * n[i + 1]
  BY NumberUnfolds
<1>2. full[Width] = 0 /\ \A i \in Position : full[i] = 1 + 2 * full[i + 1]
  BY NumberUnfolds DEF Register, Weight
<1>3. \A i \in Position : Weight(a, i, 1) \in {0, 1}
  BY DEF Weight
<1> HIDE DEF n, full
<1>4. Width \in S
  BY <1>1, <1>2, WidthAssumption
<1>5. ASSUME NEW i \in Position, i + 1 \in S PROVE i \in S
  <2>1. n[i + 1] \in Nat /\ full[i + 1] \in Nat /\ n[i + 1] <= full[i + 1]
    BY <1>5
  <2>2. n[i] \in Nat /\ full[i] \in Nat /\ n[i] <= full[i]
    BY <1>1, <1>2, <1>3, <2>1
  <2>3. i \in 0 .. Width
    BY WidthAssumption DEF Position
  <2> QED
    BY <2>2, <2>3
<1>6. S \subseteq 0 .. Width
  OBVIOUS
<1>7. S = 0 .. Width
  <2> HIDE DEF S
  <2> QED
    BY <1>4, <1>5, <1>6, Descend
<1> QED
  BY <1>7 DEF n, full

\* A register holds a number below the modulus.
LEMMA UnsignedRange ==
  ASSUME NEW a \in Register
  PROVE  /\ Unsigned(a) \in Nat
         /\ Modulus \in Nat \ {0}
         /\ Unsigned(a) < Modulus
<1>1. 0 \in 0 .. Width /\ Position \in Register
  BY WidthAssumption DEF Register
<1>2. /\ NumberFrom(a)[0] \in Nat
      /\ NumberFrom(Position)[0] \in Nat
      /\ NumberFrom(a)[0] <= NumberFrom(Position)[0]
  BY <1>1, NumberRange
<1> QED
  BY <1>2 DEF Unsigned, Modulus

-----------------------------------------------------------------------------
\* The carry as an adder of single bits passes it on: the majority of the two
\* bits and of the carry that came in.
LEMMA CarryStep ==
  ASSUME NEW a \in Register, NEW b \in Register
  PROVE  /\ ~ carry(a, b, 0)
         /\ \A i \in Position :
              carry(a, b, i + 1) <=>
                (i \in a /\ i \in b) \/ ((i \in a \/ i \in b) /\ carry(a, b, i))
<1>1. ~ carry(a, b, 0)
  BY WidthAssumption DEF carry, Register, Position
<1>2. ASSUME NEW i \in Position
      PROVE  carry(a, b, i + 1) <=>
               (i \in a /\ i \in b) \/ ((i \in a \/ i \in b) /\ carry(a, b, i))
  <2>1. i \in Int /\ \A j \in a \cap b : j \in Int
    BY WidthAssumption DEF Register, Position
  <2>2. ASSUME carry(a, b, i + 1), ~ (i \in a /\ i \in b)
        PROVE  (i \in a \/ i \in b) /\ carry(a, b, i)
    <3>1. PICK j \in a \cap b : j < i + 1 /\ \A k \in j + 1 .. i : k \in a \cup b
      BY <2>1, <2>2 DEF carry
    <3>2. j < i /\ i \in j + 1 .. i /\ \A k \in j + 1 .. i - 1 : k \in j + 1 .. i
      BY <2>1, <2>2, <3>1
    <3> QED
      BY <3>1, <3>2 DEF carry
  <2>3. ASSUME i \in a, i \in b PROVE carry(a, b, i + 1)
    <3>1. i \in a \cap b /\ i < i + 1 /\ i + 1 .. (i + 1) - 1 = {}
      BY <2>1, <2>3
    <3> QED
      BY <3>1 DEF carry
  <2>4. ASSUME i \in a \/ i \in b, carry(a, b, i) PROVE carry(a, b, i + 1)
    <3>1. PICK j \in a \cap b : j < i /\ \A k \in j + 1 .. i - 1 : k \in a \cup b
      BY <2>4 DEF carry
    <3>2. \A k \in j + 1 .. (i + 1) - 1 : k = i \/ k \in j + 1 .. i - 1
      BY <2>1
    <3>3. j < i + 1 /\ \A k \in j + 1 .. (i + 1) - 1 : k \in a \cup b
      BY <2>1, <2>4, <3>1, <3>2
    <3> QED
      BY <3>3 DEF carry
  <2> QED
    BY <2>2, <2>3, <2>4
<1> QED
  BY <1>1, <1>2

\* Whatever starts without a carry and passes it on so is the carry.
LEMMA CarryUnique ==
  ASSUME NEW a \in Register, NEW b \in Register, NEW x, 0 \notin x,
         \A i \in Position :
           i + 1 \in x <=> (i \in a /\ i \in b) \/ ((i \in a \/ i \in b) /\ i \in x)
  PROVE  \A i \in 0 .. Width : i \in x <=> carry(a, b, i)
<1> DEFINE S == {i \in 0 .. Width : i \in x <=> carry(a, b, i)}
<1>1. 0 \in S
  BY CarryStep, WidthAssumption
<1>2. ASSUME NEW i \in Position, i \in S PROVE i + 1 \in S
  <2>1. i + 1 \in 0 .. Width
    BY WidthAssumption DEF Position
  <2> QED
    BY <1>2, <2>1, CarryStep
<1>3. S \subseteq 0 .. Width
  OBVIOUS
<1>4. S = 0 .. Width
  <2> HIDE DEF S
  <2> QED
    BY <1>1, <1>2, <1>3, Climb
<1> QED
  BY <1>4

\* A bit of a sum, and of a difference.
LEMMA SumBits ==
  ASSUME NEW a \in Register, NEW b \in Register
  PROVE  /\ add(a, b) \in Register
         /\ sub(a, b) \in Register
         /\ \A i \in Position : i \in add(a, b) <=> (i \in a <=> (i \in b <=> carry(a, b, i)))
         /\ \A i \in Position :
              i \in sub(a, b) <=> (i \in a <=> (i \in b <=> carry(Position \ a, b, i)))
BY DEF add, sub, exclusive_or, Carries, Register

-----------------------------------------------------------------------------
\* What a digit of the sum and the carry out of it are worth is what the two
\* digits and the carry into it are.
LEMMA DigitSum ==
  ASSUME NEW a \in Register, NEW b \in Register, NEW i \in Position
  PROVE  Weight(add(a, b), i, 1) + (IF carry(a, b, i + 1) THEN 2 ELSE 0)
           = Weight(a, i, 1) + Weight(b, i, 1) + (IF carry(a, b, i) THEN 1 ELSE 0)
<1>1. i \in add(a, b) <=> (i \in a <=> (i \in b <=> carry(a, b, i)))
  BY SumBits
<1>2. carry(a, b, i + 1) <=> (i \in a /\ i \in b) \/ ((i \in a \/ i \in b) /\ carry(a, b, i))
  BY CarryStep
<1>3. CASE carry(a, b, i)
  BY <1>1, <1>2, <1>3 DEF Weight
<1>4. CASE ~ carry(a, b, i)
  BY <1>1, <1>2, <1>4 DEF Weight
<1> QED
  BY <1>3, <1>4

\* The sum of two registers is the sum of their numbers, less the modulus if
\* there is a carry out of the top.
LEMMA SumNumber ==
  ASSUME NEW a \in Register, NEW b \in Register
  PROVE  Unsigned(add(a, b)) + (IF carry(a, b, Width) THEN Modulus ELSE 0)
           = Unsigned(a) + Unsigned(b)
<1> DEFINE n == NumberFrom(a)
           m == NumberFrom(b)
           sum == NumberFrom(add(a, b))
           full == NumberFrom(Position)
           out(i) == IF carry(a, b, Width) THEN full[i] + 1 ELSE 0
           in(i) == IF carry(a, b, i) THEN 1 ELSE 0
           S == {i \in 0 .. Width : sum[i] + out(i) = n[i] + m[i] + in(i)}
<1>1. add(a, b) \in Register /\ Position \in Register
  BY SumBits DEF Register
<1>2. /\ n[Width] = 0 /\ \A i \in Position : n[i] = Weight(a, i, 1) + 2 * n[i + 1]
      /\ m[Width] = 0 /\ \A i \in Position : m[i] = Weight(b, i, 1) + 2 * m[i + 1]
      /\ sum[Width] = 0 /\ \A i \in Position : sum[i] = Weight(add(a, b), i, 1) + 2 * sum[i + 1]
      /\ full[Width] = 0 /\ \A i \in Position : full[i] = Weight(Position, i, 1) + 2 * full[i + 1]
  BY <1>1, NumberUnfolds
<1>3. \A i \in 0 .. Width : n[i] \in Nat /\ m[i] \in Nat /\ sum[i] \in Nat /\ full[i] \in Nat
  BY <1>1, NumberRange
<1> HIDE DEF n, m, sum, full
<1>4. Width \in S
  BY <1>2, WidthAssumption
<1>5. ASSUME NEW i \in Position, i + 1 \in S PROVE i \in S
  <2>1. i \in 0 .. Width /\ i + 1 \in 0 .. Width
    BY WidthAssumption DEF Position
  <2>2. sum[i + 1] + out(i + 1) = n[i + 1] + m[i + 1] + in(i + 1)
    BY <1>5
  <2>3. /\ n[i] = Weight(a, i, 1) + 2 * n[i + 1]
        /\ m[i] = Weight(b, i, 1) + 2 * m[i + 1]
        /\ sum[i] = Weight(add(a, b), i, 1) + 2 * sum[i + 1]
        /\ full[i] = 1 + 2 * full[i + 1]
    BY <1>2 DEF Weight
  <2>4. /\ n[i + 1] \in Nat /\ m[i + 1] \in Nat /\ sum[i + 1] \in Nat /\ full[i + 1] \in Nat
        /\ Weight(a, i, 1) \in Nat /\ Weight(b, i, 1) \in Nat /\ Weight(add(a, b), i, 1) \in Nat
    BY <1>3, <2>1 DEF Weight
  <2>5. Weight(add(a, b), i, 1) + 2 * in(i + 1) = Weight(a, i, 1) + Weight(b, i, 1) + in(i)
    BY DigitSum
  <2>6. out(i) = 2 * out(i + 1)
    BY <2>3, <2>4
  <2>7. out(i + 1) \in Int /\ in(i + 1) \in Int /\ in(i) \in Int /\ out(i) \in Int
    BY <2>3, <2>4
  <2>8. sum[i] + out(i) = n[i] + m[i] + in(i)
    <3> HIDE DEF out, in
    <3>1. ASSUME NEW s1 \in Int, NEW o1 \in Int, NEW n1 \in Int, NEW m1 \in Int, NEW c1 \in Int,
                 NEW ws \in Int, NEW wn \in Int, NEW wm \in Int, NEW c \in Int,
                 s1 + o1 = n1 + m1 + c1, ws + 2 * c1 = wn + wm + c
          PROVE  (ws + 2 * s1) + 2 * o1 = (wn + 2 * n1) + (wm + 2 * m1) + c
      BY <3>1
    <3>2. (Weight(add(a, b), i, 1) + 2 * sum[i + 1]) + 2 * out(i + 1)
            = (Weight(a, i, 1) + 2 * n[i + 1]) + (Weight(b, i, 1) + 2 * m[i + 1]) + in(i)
      BY <2>2, <2>4, <2>5, <2>7, <3>1
    <3> QED
      BY <2>3, <2>6, <3>2
  <2> QED
    BY <2>1, <2>8
<1>6. S \subseteq 0 .. Width
  OBVIOUS
<1>7. S = 0 .. Width
  <2> HIDE DEF S
  <2> QED
    BY <1>4, <1>5, <1>6, Descend
<1>8. 0 \in S /\ ~ carry(a, b, 0)
  BY <1>7, WidthAssumption, CarryStep
<1>9. 0 \in 0 .. Width
  BY WidthAssumption
<1>10. sum[0] + out(0) = n[0] + m[0]
  BY <1>3, <1>8, <1>9
<1> QED
  BY <1>10 DEF n, m, sum, full, Unsigned, Modulus

\* A number below the modulus that differs by the modulus or not at all is the
\* remainder.
LEMMA Remainder ==
  ASSUME NEW m \in Nat \ {0}, NEW r \in Nat, r < m, NEW x \in Int,
         x = r \/ x = r + m \/ x = r - m
  PROVE  x % m = r
OBVIOUS

\* A difference borrows exactly where undoing it carries.
LEMMA AddUndoesSub ==
  ASSUME NEW a \in Register, NEW b \in Register
  PROVE  add(sub(a, b), b) = a
<1> DEFINE d == sub(a, b)
           x == {i \in 0 .. Width : carry(Position \ a, b, i)}
<1>1. d \in Register /\ Position \ a \in Register
  BY SumBits DEF Register
<1>2. \A i \in Position : i \in 0 .. Width /\ i + 1 \in 0 .. Width
  BY WidthAssumption DEF Position
<1>3. \A i \in Position : i \in d <=> (i \in a <=> (i \in b <=> i \in x))
  BY <1>2, SumBits
<1>4. 0 \notin x
  BY <1>1, CarryStep
<1>5. ASSUME NEW i \in Position
      PROVE  i + 1 \in x <=> (i \in d /\ i \in b) \/ ((i \in d \/ i \in b) /\ i \in x)
  <2>1. i + 1 \in x <=> (i \notin a /\ i \in b) \/ ((i \notin a \/ i \in b) /\ i \in x)
    BY <1>1, <1>2, CarryStep
  <2> HIDE DEF d, x
  <2> QED
    BY <1>3, <2>1
<1> HIDE DEF d, x
<1>6. \A i \in 0 .. Width : i \in x <=> carry(d, b, i)
  BY <1>1, <1>4, <1>5, CarryUnique
<1>7. add(d, b) \in Register
      /\ \A i \in Position : i \in add(d, b) <=> (i \in d <=> (i \in b <=> carry(d, b, i)))
  BY <1>1, SumBits
<1>8. \A i \in Position : i \in add(d, b) <=> i \in a
  BY <1>2, <1>3, <1>6, <1>7
<1> QED
  BY <1>7, <1>8 DEF d, Register

\* ADD and SUB are addition and subtraction modulo the modulus.
LEMMA AddIsModular ==
  ASSUME NEW a \in Register, NEW b \in Register
  PROVE  Unsigned(add(a, b)) = (Unsigned(a) + Unsigned(b)) % Modulus
<1>1. add(a, b) \in Register
  BY SumBits
<1>2. /\ Unsigned(a) \in Nat /\ Unsigned(b) \in Nat /\ Modulus \in Nat \ {0}
      /\ Unsigned(add(a, b)) \in Nat /\ Unsigned(add(a, b)) < Modulus
  BY <1>1, UnsignedRange
<1>3. \/ Unsigned(a) + Unsigned(b) = Unsigned(add(a, b))
      \/ Unsigned(a) + Unsigned(b) = Unsigned(add(a, b)) + Modulus
  BY <1>2, SumNumber
<1> QED
  BY <1>2, <1>3, Remainder

LEMMA SubIsModular ==
  ASSUME NEW a \in Register, NEW b \in Register
  PROVE  Unsigned(sub(a, b)) = (Unsigned(a) - Unsigned(b)) % Modulus
<1> DEFINE d == sub(a, b)
<1>1. d \in Register /\ add(d, b) = a
  BY SumBits, AddUndoesSub
<1> HIDE DEF d
<1>2. /\ Unsigned(a) \in Nat /\ Unsigned(b) \in Nat /\ Modulus \in Nat \ {0}
      /\ Unsigned(d) \in Nat /\ Unsigned(d) < Modulus
  BY <1>1, UnsignedRange
<1>3. Unsigned(a) + (IF carry(d, b, Width) THEN Modulus ELSE 0) = Unsigned(d) + Unsigned(b)
  BY <1>1, SumNumber
<1>4. \/ Unsigned(a) - Unsigned(b) = Unsigned(d)
      \/ Unsigned(a) - Unsigned(b) = Unsigned(d) - Modulus
  BY <1>2, <1>3
<1> QED
  BY <1>2, <1>4, Remainder DEF d

-----------------------------------------------------------------------------
\* From each position up, two registers hold the same number exactly if they
\* have the same bits there, and the lower number exactly if the highest bit
\* in which they differ is a 1 of the other.
LEMMA OrderFrom ==
  ASSUME NEW a \in Register, NEW b \in Register
  PROVE  \A i \in 0 .. Width :
           /\ NumberFrom(a)[i] = NumberFrom(b)[i]
                <=> \A k \in i .. Width - 1 : k \in a <=> k \in b
           /\ NumberFrom(a)[i] < NumberFrom(b)[i]
                <=> \E j \in b \ a : i <= j /\ \A k \in j + 1 .. Width - 1 : k \in a <=> k \in b
<1> DEFINE n == NumberFrom(a)
           m == NumberFrom(b)
           same(i) == \A k \in i .. Width - 1 : k \in a <=> k \in b
           below(i) == \E j \in b \ a : i <= j /\ same(j + 1)
           S == {i \in 0 .. Width : (n[i] = m[i] <=> same(i)) /\ (n[i] < m[i] <=> below(i))}
<1>1. /\ n[Width] = 0 /\ \A i \in Position : n[i] = Weight(a, i, 1) + 2 * n[i + 1]
      /\ m[Width] = 0 /\ \A i \in Position : m[i] = Weight(b, i, 1) + 2 * m[i + 1]
  BY NumberUnfolds
<1>2. \A i \in 0 .. Width : n[i] \in Nat /\ m[i] \in Nat
  BY NumberRange
<1>3. Width \in Nat /\ \A j \in b \ a : j \in 0 .. Width - 1
  BY WidthAssumption DEF Register, Position
<1> HIDE DEF n, m
<1>4. Width \in S
  BY <1>1, <1>3
<1>5. ASSUME NEW i \in Position, i + 1 \in S PROVE i \in S
  <2>1. i \in 0 .. Width /\ i + 1 \in 0 .. Width /\ i \in 0 .. Width - 1
    BY <1>3 DEF Position
  <2>2. same(i) <=> (i \in a <=> i \in b) /\ same(i + 1)
    <3>1. \A k \in Int : k \in i .. Width - 1 <=> k = i \/ k \in i + 1 .. Width - 1
      BY <1>3, <2>1
    <3> QED
      BY <1>3, <2>1, <3>1
  <2>3. below(i) <=> (i \in b \ a /\ same(i + 1)) \/ below(i + 1)
    <3> HIDE DEF same
    <3>1. \A j \in b \ a : i <= j <=> j = i \/ i + 1 <= j
      BY <1>3, <2>1
    <3> QED
      BY <3>1, <2>1
  <2>4. (n[i + 1] = m[i + 1] <=> same(i + 1)) /\ (n[i + 1] < m[i + 1] <=> below(i + 1))
    BY <1>5
  <2> HIDE DEF same, below
  <2>5. n[i + 1] \in Nat /\ m[i + 1] \in Nat
    BY <1>2, <2>1
  <2>6. /\ n[i] = (IF i \in a THEN 1 ELSE 0) + 2 * n[i + 1]
        /\ m[i] = (IF i \in b THEN 1 ELSE 0) + 2 * m[i + 1]
    BY <1>1 DEF Weight
  <2>7. n[i] = m[i] <=> (i \in a <=> i \in b) /\ n[i + 1] = m[i + 1]
    BY <2>5, <2>6
  <2>8. n[i] < m[i] <=> (i \in b \ a /\ n[i + 1] = m[i + 1]) \/ n[i + 1] < m[i + 1]
    BY <2>5, <2>6
  <2> QED
    BY <2>1, <2>2, <2>3, <2>4, <2>7, <2>8
<1>6. S \subseteq 0 .. Width
  OBVIOUS
<1>7. S = 0 .. Width
  <2> HIDE DEF S
  <2> QED
    BY <1>4, <1>5, <1>6, Descend
<1> QED
  BY <1>7 DEF n, m

\* SLTIU compares the numbers, SLTI the signed numbers.
LEMMA LessIsLess ==
  ASSUME NEW a \in Register, NEW b \in Register
  PROVE  less(a, b) <=> Unsigned(a) < Unsigned(b)
<1>1. 0 \in 0 .. Width /\ \A j \in b \ a : 0 <= j
  BY WidthAssumption DEF Register, Position
<1>2. NumberFrom(a)[0] < NumberFrom(b)[0]
        <=> \E j \in b \ a : 0 <= j /\ \A k \in j + 1 .. Width - 1 : k \in a <=> k \in b
  BY <1>1, OrderFrom
<1> QED
  BY <1>1, <1>2 DEF less, Unsigned

LEMMA LessSignedIsLess ==
  ASSUME NEW a \in Register, NEW b \in Register
  PROVE  less_signed(a, b) <=> Signed(a) < Signed(b)
<1>1. /\ Unsigned(a) \in Nat /\ Unsigned(b) \in Nat /\ Modulus \in Nat
      /\ Unsigned(a) < Modulus /\ Unsigned(b) < Modulus
  BY UnsignedRange
<1>2. negative(a) \in BOOLEAN /\ negative(b) \in BOOLEAN
  BY DEF negative
<1>3. CASE negative(a) /\ negative(b)
  BY <1>1, <1>3, LessIsLess DEF less_signed, Signed
<1>4. CASE ~ negative(a) /\ ~ negative(b)
  BY <1>1, <1>2, <1>4, LessIsLess DEF less_signed, Signed
<1>5. CASE negative(a) /\ ~ negative(b)
  BY <1>1, <1>2, <1>5 DEF less_signed, Signed
<1>6. CASE ~ negative(a) /\ negative(b)
  BY <1>1, <1>2, <1>6 DEF less_signed, Signed
<1> QED
  BY <1>2, <1>3, <1>4, <1>5, <1>6

-----------------------------------------------------------------------------
\* Without common bits nothing carries: the sum is the union.
LEMMA DisjointSum ==
  ASSUME NEW a \in Register, NEW b \in Register, a \cap b = {}
  PROVE  add(a, b) = a \cup b
<1>1. \A i \in Position : ~ carry(a, b, i)
  BY DEF carry
<1> QED
  BY <1>1 DEF add, Carries, exclusive_or

\* A half adder: the bits the exclusive or misses are those that carry once.
LEMMA HalfAdder ==
  ASSUME NEW a \in Register, NEW b \in Register
  PROVE  add(exclusive_or(a, b), shift_left(a \cap b, 1)) = add(a, b)
<1> DEFINE x == exclusive_or(a, b)
           y == shift_left(a \cap b, 1)
           once(i) == i - 1 \in a \cap b
           S == {i \in 0 .. Width :
                   /\ carry(a, b, i) <=> once(i) \/ carry(x, y, i)
                   /\ ~ (once(i) /\ carry(x, y, i))}
<1>1. x \in Register /\ y \in Register
  BY DEF Register, exclusive_or, shift_left
<1>2. /\ \A i \in Position : i \in x <=> ~ (i \in a <=> i \in b)
      /\ \A i \in Position : i \in y <=> once(i)
  <2>1. \A i \in Position : i \in x <=> ~ (i \in a <=> i \in b)
    BY DEF exclusive_or
  <2>2. \A i \in Position : i \in Int /\ i = (i - 1) + 1
    BY WidthAssumption DEF Position
  <2>3. \A j \in a \cap b : j \in Int /\ (j + 1) - 1 = j
    BY WidthAssumption DEF Register, Position
  <2>4. \A i \in Position : i \in y <=> once(i)
    BY <2>2, <2>3 DEF shift_left
  <2> QED
    BY <2>1, <2>4
<1>3. \A i \in Position : i \in 0 .. Width /\ i + 1 \in 0 .. Width /\ (i + 1) - 1 = i
  BY WidthAssumption DEF Position
<1> HIDE DEF x, y
<1>4. 0 \in S
  <2>1. ~ carry(a, b, 0) /\ ~ carry(x, y, 0)
    BY <1>1, CarryStep
  <2>2. ~ once(0)
    BY DEF Register, Position
  <2> QED
    BY <2>1, <2>2, WidthAssumption
<1>5. ASSUME NEW i \in Position, i \in S PROVE i + 1 \in S
  <2>1. /\ carry(a, b, i) <=> once(i) \/ carry(x, y, i)
        /\ ~ (once(i) /\ carry(x, y, i))
    BY <1>5
  <2>2. once(i + 1) <=> i \in a /\ i \in b
    BY <1>3
  <2>3. /\ carry(a, b, i + 1) <=>
               (i \in a /\ i \in b) \/ ((i \in a \/ i \in b) /\ carry(a, b, i))
        /\ carry(x, y, i + 1) <=>
               (i \in x /\ i \in y) \/ ((i \in x \/ i \in y) /\ carry(x, y, i))
    BY <1>1, CarryStep
  <2>4. (i \in x <=> ~ (i \in a <=> i \in b)) /\ (i \in y <=> once(i))
    BY <1>2
  <2>5. /\ carry(a, b, i + 1) <=> once(i + 1) \/ carry(x, y, i + 1)
        /\ ~ (once(i + 1) /\ carry(x, y, i + 1))
    <3> HIDE DEF once
    <3> QED
      BY <2>1, <2>2, <2>3, <2>4
  <2> QED
    BY <1>3, <2>5
<1>6. S \subseteq 0 .. Width
  OBVIOUS
<1>7. S = 0 .. Width
  <2> HIDE DEF S
  <2> QED
    BY <1>4, <1>5, <1>6, Climb
<1>8. /\ add(x, y) \in Register /\ add(a, b) \in Register
      /\ \A i \in Position : i \in add(x, y) <=> (i \in x <=> (i \in y <=> carry(x, y, i)))
      /\ \A i \in Position : i \in add(a, b) <=> (i \in a <=> (i \in b <=> carry(a, b, i)))
  BY <1>1, SumBits
<1>9. ASSUME NEW i \in Position PROVE i \in add(x, y) <=> i \in add(a, b)
  <2>1. /\ carry(a, b, i) <=> once(i) \/ carry(x, y, i)
        /\ ~ (once(i) /\ carry(x, y, i))
    BY <1>3, <1>7
  <2> HIDE DEF once
  <2> QED
    BY <1>2, <1>8, <2>1
<1>10. add(x, y) = add(a, b)
  BY <1>8, <1>9 DEF Register
<1> QED
  BY <1>10 DEF x, y

\* Adding the sign bit alone flips it.
LEMMA SignFlips ==
  ASSUME NEW a \in Register
  PROVE  add(a, {Width - 1}) = exclusive_or(a, {Width - 1})
<1>1. \A i \in Position : ~ carry(a, {Width - 1}, i)
  BY WidthAssumption DEF carry, Position
<1> QED
  BY <1>1 DEF add, Carries, exclusive_or

\* Flipping both signs turns the signed order into the unsigned one.
LEMMA SignedByFlipping ==
  ASSUME NEW a \in Register, NEW b \in Register
  PROVE  less_signed(a, b)
           <=> less(exclusive_or(a, {Width - 1}), exclusive_or(b, {Width - 1}))
<1> DEFINE top == Width - 1
           x == exclusive_or(a, {top})
           y == exclusive_or(b, {top})
<1>1. top \in Position /\ top + 1 .. Width - 1 = {}
      /\ \A i \in Position : i # top => top \in i + 1 .. Width - 1
  BY WidthAssumption DEF Position
<1>2. \A k : (k \in x <=> ~ (k \in a <=> k = top)) /\ (k \in y <=> ~ (k \in b <=> k = top))
  BY DEF exclusive_or
<1>3. x \subseteq Position /\ y \subseteq Position
  BY <1>1 DEF exclusive_or, Register
<1>4. CASE top \in a <=> top \in b
  <2>1. y \ x = b \ a
    BY <1>2, <1>4
  <2>2. \A k : (k \in x <=> k \in y) <=> (k \in a <=> k \in b)
    BY <1>2
  <2>3. less_signed(a, b) <=> less(a, b)
    BY <1>4 DEF less_signed, negative
  <2> QED
    BY <2>1, <2>2, <2>3 DEF less
<1>5. CASE top \in a /\ top \notin b
  <2>1. less_signed(a, b)
    BY <1>5 DEF less_signed, negative
  <2>2. top \in y \ x
    BY <1>2, <1>5
  <2> QED
    BY <1>1, <2>1, <2>2 DEF less
<1>6. CASE top \notin a /\ top \in b
  <2>1. ~ less_signed(a, b)
    BY <1>6 DEF less_signed, negative
  <2>2. top \in x /\ top \notin y
    BY <1>2, <1>6
  <2>3. ~ less(x, y)
    BY <1>1, <1>3, <2>2 DEF less
  <2> QED
    BY <2>1, <2>3
<1> QED
  BY <1>4, <1>5, <1>6

-----------------------------------------------------------------------------
\* The five weights are the number of the immediate modulo 32.
LEMMA ShamtIsMod ==
  ASSUME NEW imm \in Register
  PROVE  shamt(imm) \in 0 .. 31 /\ shamt(imm) = Unsigned(imm) % 32
<1> DEFINE n == NumberFrom(imm)
           w(i) == Weight(imm, i, 1)
<1>1. n[Width] = 0 /\ \A i \in Position : n[i] = w(i) + 2 * n[i + 1]
  BY NumberUnfolds
<1>2. \A i \in 0 .. Width : n[i] \in Nat
  BY NumberRange
<1>3. \A i : w(i) \in 0 .. 1 /\ (i \notin Position => w(i) = 0)
  BY DEF Weight, Register
<1>4. shamt(imm) = w(0) + 2 * w(1) + 4 * w(2) + 8 * w(3) + 16 * w(4)
  BY DEF shamt, Weight
<1> HIDE DEF n, w
<1>5. shamt(imm) \in 0 .. 31
  BY <1>3, <1>4
<1>6. \E high \in Nat : n[0] = shamt(imm) + 32 * high
  <2>1. CASE Width = 1
    <3>1. n[0] = w(0) /\ w(1) = 0 /\ w(2) = 0 /\ w(3) = 0 /\ w(4) = 0
      BY <1>1, <1>3, <2>1 DEF Position
    <3>2. n[0] = shamt(imm) + 32 * 0
      BY <1>3, <1>4, <3>1
    <3> QED
      BY <3>2
  <2>2. CASE Width = 2
    <3>1. /\ n[0] = w(0) + 2 * n[1] /\ n[1] = w(1) + 2 * n[2] /\ n[2] = 0
          /\ w(2) = 0 /\ w(3) = 0 /\ w(4) = 0
      BY <1>1, <1>3, <2>2 DEF Position
    <3>2. n[0] = shamt(imm) + 32 * 0
      BY <1>3, <1>4, <3>1
    <3> QED
      BY <3>2
  <2>3. CASE Width = 3
    <3>1. /\ n[0] = w(0) + 2 * n[1] /\ n[1] = w(1) + 2 * n[2] /\ n[2] = w(2) + 2 * n[3]
          /\ n[3] = 0 /\ w(3) = 0 /\ w(4) = 0
      BY <1>1, <1>3, <2>3 DEF Position
    <3>2. n[0] = shamt(imm) + 32 * 0
      BY <1>3, <1>4, <3>1
    <3> QED
      BY <3>2
  <2>4. CASE Width = 4
    <3>1. /\ n[0] = w(0) + 2 * n[1] /\ n[1] = w(1) + 2 * n[2] /\ n[2] = w(2) + 2 * n[3]
          /\ n[3] = w(3) + 2 * n[4] /\ n[4] = 0 /\ w(4) = 0
      BY <1>1, <1>3, <2>4 DEF Position
    <3>2. n[0] = shamt(imm) + 32 * 0
      BY <1>3, <1>4, <3>1
    <3> QED
      BY <3>2
  <2>5. CASE Width >= 5
    <3>1. /\ n[0] = w(0) + 2 * n[1] /\ n[1] = w(1) + 2 * n[2] /\ n[2] = w(2) + 2 * n[3]
          /\ n[3] = w(3) + 2 * n[4] /\ n[4] = w(4) + 2 * n[5]
      BY <1>1, <2>5, WidthAssumption DEF Position
    <3>2. n[5] \in Nat
      BY <1>2, <2>5, WidthAssumption
    <3>3. n[0] = shamt(imm) + 32 * n[5]
      BY <1>3, <1>4, <3>1, <3>2
    <3> QED
      BY <3>2, <3>3
  <2> QED
    BY <2>1, <2>2, <2>3, <2>4, <2>5, WidthAssumption
<1>7. n[0] % 32 = shamt(imm)
  BY <1>5, <1>6
<1> QED
  BY <1>5, <1>7 DEF n, Unsigned

\* A shift out and back.
LEMMA ShiftBack ==
  ASSUME NEW a \in Register, NEW n \in Nat
  PROVE  shift_right(shift_left(a, n), n) = {b \in a : b + n < Width}
<1>1. \A b \in a : b \in Position /\ b \in Int /\ 0 <= b
  BY WidthAssumption DEF Register, Position
<1>2. ASSUME NEW b \in a PROVE b + n \in Position <=> b + n < Width
  BY <1>1, WidthAssumption DEF Position
<1>3. shift_left(a, n) = {b + n : b \in {c \in a : c + n < Width}}
  BY <1>2 DEF shift_left
<1> DEFINE kept == {c \in a : c + n < Width}
<1>4. \A b \in kept : (b + n) - n = b /\ b \in Position
  BY <1>1
<1> HIDE DEF kept
<1>5. {c - n : c \in {b + n : b \in kept}} = kept
  BY <1>4
<1>6. kept \subseteq Position
  BY <1>4
<1> QED
  BY <1>3, <1>5, <1>6 DEF shift_right, kept

-----------------------------------------------------------------------------
\* A shift by one position more is a shift by one position of the shift.
LEMMA ShiftFurther ==
  ASSUME NEW a \in Register, NEW n \in Nat
  PROVE  /\ shift_left(a, 0) = a /\ shift_right(a, 0) = a
         /\ shift_left(a, n) \in Register /\ shift_right(a, n) \in Register
         /\ shift_left(a, n + 1) = shift_left(shift_left(a, n), 1)
         /\ shift_right(a, n + 1) = shift_right(shift_right(a, n), 1)
<1>1. \A b \in a : b \in Position /\ b \in Int /\ 0 <= b /\ b <= Width - 1
  BY WidthAssumption DEF Register, Position
<1>2. \A i : i \in Position <=> i \in Int /\ 0 <= i /\ i <= Width - 1
  BY WidthAssumption DEF Position
<1>3. shift_left(a, 0) = a /\ shift_right(a, 0) = a
  BY <1>1 DEF shift_left, shift_right
<1>4. shift_left(a, n) \in Register /\ shift_right(a, n) \in Register
  BY DEF shift_left, shift_right, Register
<1>5. \A b \in a : /\ b + (n + 1) = (b + n) + 1 /\ b - (n + 1) = (b - n) - 1
                   /\ b + (n + 1) \in Position => b + n \in Position
                   /\ b - (n + 1) \in Position => b - n \in Position
  BY <1>1, <1>2, WidthAssumption
<1>6. shift_left(a, n + 1) = shift_left(shift_left(a, n), 1)
  BY <1>5 DEF shift_left
<1>7. shift_right(a, n + 1) = shift_right(shift_right(a, n), 1)
  BY <1>5 DEF shift_right
<1> QED
  BY <1>3, <1>4, <1>6, <1>7

\* A shift to the left by one position adds a register to itself.
LEMMA ShiftDoubles ==
  ASSUME NEW a \in Register
  PROVE  Unsigned(shift_left(a, 1)) = (2 * Unsigned(a)) % Modulus
<1>1. shift_left(a, 1) \in Register
  BY ShiftFurther DEF shift_left, Register
<1>2. exclusive_or(a, a) = {} /\ a \cap a = a /\ {} \in Register
  BY DEF exclusive_or, Register
<1>3. add({}, shift_left(a, 1)) = add(a, a)
  BY <1>2, HalfAdder
<1>4. add({}, shift_left(a, 1)) = shift_left(a, 1)
  BY <1>1, <1>2, DisjointSum
<1>5. Unsigned(a) \in Nat
  BY UnsignedRange
<1>6. Unsigned(a) + Unsigned(a) = 2 * Unsigned(a)
  BY <1>5
<1> QED
  BY <1>3, <1>4, <1>6, AddIsModular

\* A shift to the right by one position drops the lowest digit.
LEMMA ShiftHalves ==
  ASSUME NEW a \in Register
  PROVE  Unsigned(shift_right(a, 1)) = Unsigned(a) \div 2
<1> DEFINE c == shift_right(a, 1)
           n == NumberFrom(a)
           m == NumberFrom(c)
           S == {i \in 0 .. Width : m[i] = IF i = Width THEN 0 ELSE n[i + 1]}
<1>1. c \in Register
  BY DEF shift_right, Register
<1>2. /\ n[Width] = 0 /\ \A i \in Position : n[i] = Weight(a, i, 1) + 2 * n[i + 1]
      /\ m[Width] = 0 /\ \A i \in Position : m[i] = Weight(c, i, 1) + 2 * m[i + 1]
  BY <1>1, NumberUnfolds
<1>3. \A i \in Position : i \in c <=> i + 1 \in a
  <2>1. \A b \in a : b \in Int /\ (b - 1) + 1 = b
    BY WidthAssumption DEF Register, Position
  <2>2. \A i \in Position : i \in Int /\ (i + 1) - 1 = i
    BY WidthAssumption DEF Position
  <2> QED
    BY <2>1, <2>2 DEF shift_right
<1>4. \A i \in 0 .. Width : n[i] \in Nat
  BY NumberRange
<1> HIDE DEF c, n, m
<1>5. Width \in S
  BY <1>2, WidthAssumption
<1>6. ASSUME NEW i \in Position, i + 1 \in S PROVE i \in S
  <2>1. i \in 0 .. Width /\ i + 1 \in 0 .. Width /\ i # Width
    BY WidthAssumption DEF Position
  <2>2. m[i] = Weight(c, i, 1) + 2 * m[i + 1]
    BY <1>2
  <2>3. CASE i + 1 = Width
    <3>1. i \notin c
      BY <1>3, <2>3, WidthAssumption DEF Register, Position
    <3>2. m[i] = n[i + 1]
      BY <1>2, <2>2, <2>3, <3>1 DEF Weight
    <3> QED
      BY <2>1, <3>2
  <2>4. CASE i + 1 # Width
    <3>1. i + 1 \in Position
      BY <2>1, <2>4, WidthAssumption DEF Position
    <3>2. n[i + 1] = Weight(a, i + 1, 1) + 2 * n[(i + 1) + 1]
      BY <1>2, <3>1
    <3>3. m[i + 1] = n[(i + 1) + 1]
      BY <1>6, <2>4
    <3>4. Weight(c, i, 1) = Weight(a, i + 1, 1)
      BY <1>3 DEF Weight
    <3>5. m[i] = n[i + 1]
      BY <2>2, <3>2, <3>3, <3>4
    <3> QED
      BY <2>1, <3>5
  <2> QED
    BY <2>3, <2>4
<1>7. S \subseteq 0 .. Width
  OBVIOUS
<1>8. S = 0 .. Width
  <2> HIDE DEF S
  <2> QED
    BY <1>5, <1>6, <1>7, Descend
<1>9. 0 \in S /\ 0 # Width /\ 0 \in Position /\ 1 \in 0 .. Width
  BY <1>8, WidthAssumption DEF Position
<1>10. m[0] = n[1] /\ n[0] = Weight(a, 0, 1) + 2 * n[1] /\ n[1] \in Nat
  BY <1>2, <1>4, <1>9
<1>11. n[0] \div 2 = m[0]
  BY <1>10 DEF Weight
<1> QED
  BY <1>11 DEF c, n, m, Unsigned

-----------------------------------------------------------------------------
\* The result of every operation is a register again: the execute stage writes
\* nothing wider than uint32_t.
THEOREM TypeCorrect == Spec => []TypeOK
<1>1. Init => TypeOK
  BY DEF Init, TypeOK, Register
<1>2. TypeOK /\ [Next]_rd => TypeOK'
  <2> SUFFICES ASSUME TypeOK,
                      NEW funct3 \in 0 .. 7, NEW imm \in Immediates, Execute(funct3, imm)
               PROVE  TypeOK'
    BY DEF Next, TypeOK
  <2>1. rd \in Register /\ imm \in Register
    BY ImmediatesAssumption DEF TypeOK
  <2>2. add(rd, imm) \in Register
    BY <2>1, SumBits
  <2>3. /\ \A n : shift_left(rd, n) \in Register /\ shift_right(rd, n) \in Register
        /\ exclusive_or(rd, imm) \in Register /\ rd \cup imm \in Register /\ rd \cap imm \in Register
    BY <2>1 DEF shift_left, shift_right, exclusive_or, Register
  <2>4. \A condition : Flag(condition) \in Register
    BY WidthAssumption DEF Flag, Register, Position
  <2>5. immediate_op(funct3, rd, imm) \in Register
    BY <2>2, <2>3, <2>4 DEF immediate_op
  <2> QED
    BY <2>5 DEF Execute, TypeOK
<1> QED
  BY <1>1, <1>2, PTL DEF Spec

\* ADD, SUB, SLTI, SLTIU, SLLI and SRLI compute what C++ does on uint32_t and
\* int32_t: sums and differences modulo 2^Width, the two orders, and shifts that
\* double and halve.
THEOREM ArithmeticOfNumbers == Spec => []NumbersAgree
<1>1. ASSUME rd \in Register, NEW imm \in Register
      PROVE  /\ Unsigned(immediate_op(0, rd, imm)) = (Unsigned(rd) + Unsigned(imm)) % Modulus
             /\ Unsigned(sub(rd, imm)) = (Unsigned(rd) - Unsigned(imm)) % Modulus
             /\ immediate_op(3, rd, imm) = Flag(Unsigned(rd) < Unsigned(imm))
             /\ immediate_op(2, rd, imm) = Flag(Signed(rd) < Signed(imm))
  <2>1. /\ immediate_op(0, rd, imm) = add(rd, imm)
        /\ immediate_op(3, rd, imm) = Flag(less(rd, imm))
        /\ immediate_op(2, rd, imm) = Flag(less_signed(rd, imm))
    BY DEF immediate_op
  <2>2. Flag(less(rd, imm)) = Flag(Unsigned(rd) < Unsigned(imm))
    BY <1>1, LessIsLess DEF Flag
  <2>3. Flag(less_signed(rd, imm)) = Flag(Signed(rd) < Signed(imm))
    BY <1>1, LessSignedIsLess DEF Flag
  <2> QED
    BY <1>1, <2>1, <2>2, <2>3, AddIsModular, SubIsModular
<1>2. ASSUME rd \in Register, NEW n \in 0 .. 30
      PROVE  /\ Unsigned(shift_left(rd, n + 1)) = (2 * Unsigned(shift_left(rd, n))) % Modulus
             /\ Unsigned(shift_right(rd, n + 1)) = Unsigned(shift_right(rd, n)) \div 2
  <2>1. n \in Nat
    OBVIOUS
  <2> QED
    BY <1>2, <2>1, ShiftFurther, ShiftDoubles, ShiftHalves
<1>3. rd \in Register => shift_left(rd, 0) = rd /\ shift_right(rd, 0) = rd
  BY ShiftFurther
<1>4. TypeOK => NumbersAgree
  BY <1>1, <1>2, <1>3, ImmediatesAssumption DEF TypeOK, NumbersAgree
<1> QED
  BY <1>4, TypeCorrect, PTL

\* ANDI, ORI and XORI split the sum ADDI computes as a half adder does.
THEOREM HalfAdders == Spec => []LogicSplitsSum
<1>1. TypeOK => LogicSplitsSum
  <2> SUFFICES ASSUME rd \in Register, NEW imm \in Register
               PROVE  /\ add(immediate_op(4, rd, imm), shift_left(immediate_op(7, rd, imm), 1))
                            = add(rd, imm)
                      /\ immediate_op(6, rd, imm)
                            = add(immediate_op(4, rd, imm), immediate_op(7, rd, imm))
    BY ImmediatesAssumption DEF TypeOK, LogicSplitsSum
  <2>1. /\ immediate_op(4, rd, imm) = exclusive_or(rd, imm)
        /\ immediate_op(6, rd, imm) = rd \cup imm
        /\ immediate_op(7, rd, imm) = rd \cap imm
    BY DEF immediate_op
  <2>2. /\ exclusive_or(rd, imm) \in Register
        /\ rd \cap imm \in Register
        /\ exclusive_or(rd, imm) \cap (rd \cap imm) = {}
        /\ exclusive_or(rd, imm) \cup (rd \cap imm) = rd \cup imm
    BY DEF exclusive_or, Register
  <2>3. add(exclusive_or(rd, imm), rd \cap imm) = rd \cup imm
    BY <2>2, DisjointSum
  <2> QED
    BY <2>1, <2>3, HalfAdder
<1> QED
  BY <1>1, TypeCorrect, PTL

\* SLTI is SLTIU of the operands with their sign bits flipped.
THEOREM SignsFlipped == Spec => []SignedOrder
<1>1. TypeOK => SignedOrder
  <2> SUFFICES ASSUME rd \in Register, NEW imm \in Register
               PROVE  immediate_op(2, rd, imm)
                        = immediate_op(3, add(rd, {Width - 1}), add(imm, {Width - 1}))
    BY ImmediatesAssumption DEF TypeOK, SignedOrder
  <2>1. Flag(less_signed(rd, imm))
          = Flag(less(exclusive_or(rd, {Width - 1}), exclusive_or(imm, {Width - 1})))
    BY SignedByFlipping DEF Flag
  <2>2. \A x, y : immediate_op(2, x, y) = Flag(less_signed(x, y))
                   /\ immediate_op(3, x, y) = Flag(less(x, y))
    BY DEF immediate_op
  <2> QED
    BY <2>1, <2>2, SignFlips
<1> QED
  BY <1>1, TypeCorrect, PTL

\* SRLI undoes SLLI but for the bits shifted out, and the amount of both is the
\* immediate modulo 32.
THEOREM ShiftsBack == Spec => []ShiftsKeepInside
<1>1. TypeOK => ShiftsKeepInside
  <2> SUFFICES ASSUME rd \in Register, NEW imm \in Register
               PROVE  LET n == Unsigned(imm) % 32
                          back == immediate_op(5, immediate_op(1, rd, imm), imm)
                          inside == {b \in rd : b + n < Width}
                      IN  /\ back \cap (0 .. Width - 1 - n) = inside
                          /\ ~SelectsArithmetic(imm) => back = inside
    BY ImmediatesAssumption DEF TypeOK, ShiftsKeepInside
  <2> DEFINE n == Unsigned(imm) % 32
             inside == {b \in rd : b + n < Width}
  <2>1. immediate_op(5, immediate_op(1, rd, imm), imm)
          = shift_right(shift_left(rd, shamt(imm)), shamt(imm))
    BY DEF immediate_op
  <2>2. shamt(imm) \in Nat /\ shamt(imm) = n
    BY ShamtIsMod
  <2>3. immediate_op(5, immediate_op(1, rd, imm), imm) = inside
    BY <2>1, <2>2, ShiftBack
  <2>4. \A b \in rd : b \in Nat
    BY WidthAssumption DEF Register, Position
  <2>5. n \in Nat
    BY <2>2
  <2> HIDE DEF n
  <2>6. \A b \in rd : b + n < Width => b \in 0 .. Width - 1 - n
    BY <2>4, <2>5, WidthAssumption
  <2>7. inside \cap (0 .. Width - 1 - n) = inside
    BY <2>6
  <2> QED
    BY <2>3, <2>7 DEF n
<1> QED
  BY <1>1, TypeCorrect, PTL
=============================================================================
