--------------------------- MODULE ChecksumProofs ---------------------------
(***************************************************************************)
(* Proofs about Checksum, for every word and every change of its bits.     *)
(***************************************************************************)
EXTENDS Checksum, WellFoundedInduction, TLAPS

-----------------------------------------------------------------------------
(***************************************************************************)
(* Induction, as facts about sets: to show that something holds of all     *)
(* numbers, show that the set of those it holds of is closed under the     *)
(* step.  No number is a least one outside.                                *)
(***************************************************************************)
\* A set with 0 and every successor contains the natural numbers.
LEMMA Upward ==
  ASSUME NEW S, 0 \in S, \A n \in Nat : n \in S => n + 1 \in S
  PROVE  Nat \subseteq S
<1> SUFFICES ASSUME Nat \ S # {} PROVE FALSE
  OBVIOUS
<1>1. PICK x \in Nat \ S : \A y \in Nat \ S : ~(<<y, x>> \in OpToRel(<, Nat))
  <2> DEFINE T == Nat \ S
             R == OpToRel(<, Nat)
  <2>1. T \subseteq Nat /\ T # {}
    OBVIOUS
  <2>2. IsWellFoundedOn(R, Nat)
    BY NatLessThanWellFounded
  <2> HIDE DEF T, R
  <2>3. \E x \in T : \A y \in T : ~(<<y, x>> \in R)
    BY <2>1, <2>2, WFMin
  <2>4. QED
    BY <2>3 DEF T, R
<1>2. \A y \in Nat : y < x => <<y, x>> \in OpToRel(<, Nat)
  BY DEF OpToRel
<1>3. x - 1 \in Nat /\ x - 1 < x
  <2>1. x \in Nat /\ x # 0
    BY <1>1
  <2>2. QED
    BY <2>1
<1>4. x - 1 \in S
  BY <1>1, <1>2, <1>3
<1>5. QED
  BY <1>3, <1>4

\* The integers between two bounds, as a set the provers do not enumerate.
Between(low, high) == {n \in Int : low <= n /\ n <= high}

\* The same from a bound down to another.
LEMMA Downward ==
  ASSUME NEW low \in Int, NEW high \in Int, NEW S, high \in S,
         \A n \in Int : low < n /\ n <= high /\ n \in S => n - 1 \in S
  PROVE  Between(low, high) \subseteq S
<1> DEFINE T == {n \in Nat : low <= high - n => high - n \in S}
<1>1. 0 \in T
  OBVIOUS
<1>2. ASSUME NEW n \in Nat, n \in T PROVE n + 1 \in T
  <2> SUFFICES ASSUME low <= high - (n + 1) PROVE high - (n + 1) \in S
    OBVIOUS
  <2>1. high - n \in Int /\ low < high - n /\ high - n <= high /\ high - n \in S
    BY <1>2
  <2>2. (high - n) - 1 \in S
    BY <2>1
  <2>3. (high - n) - 1 = high - (n + 1)
    OBVIOUS
  <2>4. QED
    BY <2>2, <2>3
<1> HIDE DEF T
<1>3. Nat \subseteq T
  BY <1>1, <1>2, Upward
<1>4. ASSUME NEW m \in Between(low, high) PROVE m \in S
  <2>1. high - m \in Nat /\ high - (high - m) = m /\ low <= m
    BY DEF Between
  <2>2. high - m \in T
    BY <1>3, <2>1
  <2>3. QED
    BY <2>1, <2>2 DEF T
<1>5. QED
  BY <1>4

-----------------------------------------------------------------------------

\* The rounds, as the provers handle them.
Rounds == Between(LastRound, 23)
Steps  == Between(0, 16)

-----------------------------------------------------------------------------
(***************************************************************************)
(* The recursive definitions have the functions they describe.             *)
(***************************************************************************)
LEMMA DivisionDef ==
  /\ Division[23] = [frame \in SUBSET FrameBits |-> frame]
  /\ \A i \in Rounds \ {23} :
       Division[i] = [frame \in SUBSET FrameBits |-> Round(i + 1)[Division[i + 1][frame]]]
<1> DEFINE Body(x, i) == [frame \in SUBSET FrameBits |->
                            IF i = 23 THEN frame ELSE Round(i + 1)[x[frame]]]
           S == {low \in Int : \E g : g = [i \in Between(low, 23) |-> Body(g[i + 1], i)]}
<1>1. \A x, y : Body(x, 23) = Body(y, 23)
  OBVIOUS
<1>2. 23 \in S
  <2> DEFINE g == [i \in Between(23, 23) |-> Body(0, 23)]
  <2>1. \A i \in Between(23, 23) : i = 23
    BY DEF Between
  <2> HIDE DEF Body
  <2>2. g = [i \in Between(23, 23) |-> Body(g[i + 1], i)]
    BY <1>1, <2>1
  <2>3. QED
    BY <2>2
<1>3. ASSUME NEW low \in Int, low <= 23, low \in S PROVE low - 1 \in S
  <2>1. PICK g : g = [i \in Between(low, 23) |-> Body(g[i + 1], i)]
    BY <1>3
  <2> DEFINE h == [i \in Between(low - 1, 23) |-> IF i = low - 1 THEN Body(g[low], low - 1) ELSE g[i]]
  <2> HIDE DEF Body
  <2>2. ASSUME NEW i \in Between(low - 1, 23) PROVE h[i] = Body(h[i + 1], i)
    <3>1. CASE i = low - 1
      <4>1. low \in Between(low - 1, 23) /\ low # low - 1 /\ i + 1 = low
        BY <1>3, <3>1 DEF Between
      <4>2. h[i + 1] = g[low]
        BY <4>1
      <4>3. h[i] = Body(g[low], i)
        BY <3>1
      <4>4. QED
        BY <4>2, <4>3
    <3>2. CASE i = 23 /\ i # low - 1
      <4>1. i \in Between(low, 23)
        BY <3>2 DEF Between
      <4>2. h[i] = g[i] /\ g[i] = Body(g[i + 1], i)
        BY <2>1, <3>2, <4>1
      <4>3. QED
        BY <1>1, <3>2, <4>2
    <3>3. CASE i # 23 /\ i # low - 1
      <4>1. /\ i \in Between(low, 23) /\ i + 1 \in Between(low - 1, 23)
            /\ i + 1 # low - 1
        BY <3>3 DEF Between
      <4>2. h[i] = g[i] /\ h[i + 1] = g[i + 1] /\ g[i] = Body(g[i + 1], i)
        BY <2>1, <3>3, <4>1
      <4>3. QED
        BY <4>2
    <3>4. QED
      BY <3>1, <3>2, <3>3
  <2>3. h = [i \in Between(low - 1, 23) |-> h[i]]
    OBVIOUS
  <2>4. h = [i \in Between(low - 1, 23) |-> Body(h[i + 1], i)]
    BY <2>2, <2>3
  <2> HIDE DEF h
  <2>5. QED
    BY <2>4
<1>4. LastRound \in S
  <2> HIDE DEF S
  <2>1. Between(LastRound, 23) \subseteq S
    BY <1>2, <1>3, Downward DEF LastRound
  <2>2. QED
    BY <2>1 DEF Between, LastRound
<1>5. LastRound .. 23 = Rounds
  BY DEF Rounds, Between, LastRound
<1>6. \E g : g = [i \in LastRound .. 23 |-> Body(g[i + 1], i)]
  BY <1>4, <1>5 DEF Rounds
<1>7. Division = [i \in LastRound .. 23 |-> Body(Division[i + 1], i)]
  BY <1>6 DEF Division
<1>8. \A i \in Rounds : Division[i] = Body(Division[i + 1], i)
  <2> HIDE DEF Body
  <2>1. QED
    BY <1>5, <1>7
<1>9. 23 \in Rounds
  BY DEF Rounds, Between, LastRound
<1>10. QED
  BY <1>8, <1>9

\* The sensor's register satisfies its recursive definition.
LEMMA RegisterDef ==
  /\ Register[16] = [bits \in SUBSET (0 .. 15) |-> {}]
  /\ \A i \in Steps \ {16} :
       Register[i] = [bits \in SUBSET (0 .. 15) |-> ShiftBit(i \in bits)[Register[i + 1][bits]]]
<1> DEFINE Body(x, i) == [bits \in SUBSET (0 .. 15) |->
                            IF i = 16 THEN {} ELSE ShiftBit(i \in bits)[x[bits]]]
           S == {low \in Int : \E g : g = [i \in Between(low, 16) |-> Body(g[i + 1], i)]}
<1>1. \A x, y : Body(x, 16) = Body(y, 16)
  OBVIOUS
<1>2. 16 \in S
  <2> DEFINE g == [i \in Between(16, 16) |-> Body(0, 16)]
  <2>1. \A i \in Between(16, 16) : i = 16
    BY DEF Between
  <2> HIDE DEF Body
  <2>2. g = [i \in Between(16, 16) |-> Body(g[i + 1], i)]
    BY <1>1, <2>1
  <2>3. QED
    BY <2>2
<1>3. ASSUME NEW low \in Int, low <= 16, low \in S PROVE low - 1 \in S
  <2>1. PICK g : g = [i \in Between(low, 16) |-> Body(g[i + 1], i)]
    BY <1>3
  <2> DEFINE h == [i \in Between(low - 1, 16) |-> IF i = low - 1 THEN Body(g[low], low - 1) ELSE g[i]]
  <2> HIDE DEF Body
  <2>2. ASSUME NEW i \in Between(low - 1, 16) PROVE h[i] = Body(h[i + 1], i)
    <3>1. CASE i = low - 1
      <4>1. low \in Between(low - 1, 16) /\ low # low - 1 /\ i + 1 = low
        BY <1>3, <3>1 DEF Between
      <4>2. h[i + 1] = g[low]
        BY <4>1
      <4>3. h[i] = Body(g[low], i)
        BY <3>1
      <4>4. QED
        BY <4>2, <4>3
    <3>2. CASE i = 16 /\ i # low - 1
      <4>1. i \in Between(low, 16)
        BY <3>2 DEF Between
      <4>2. h[i] = g[i] /\ g[i] = Body(g[i + 1], i)
        BY <2>1, <3>2, <4>1
      <4>3. QED
        BY <1>1, <3>2, <4>2
    <3>3. CASE i # 16 /\ i # low - 1
      <4>1. /\ i \in Between(low, 16) /\ i + 1 \in Between(low - 1, 16)
            /\ i + 1 # low - 1
        BY <3>3 DEF Between
      <4>2. h[i] = g[i] /\ h[i + 1] = g[i + 1] /\ g[i] = Body(g[i + 1], i)
        BY <2>1, <3>3, <4>1
      <4>3. QED
        BY <4>2
    <3>4. QED
      BY <3>1, <3>2, <3>3
  <2>3. h = [i \in Between(low - 1, 16) |-> h[i]]
    OBVIOUS
  <2>4. h = [i \in Between(low - 1, 16) |-> Body(h[i + 1], i)]
    BY <2>2, <2>3
  <2> HIDE DEF h
  <2>5. QED
    BY <2>4
<1>4. 0 \in S
  <2> HIDE DEF S
  <2>1. Between(0, 16) \subseteq S
    BY <1>2, <1>3, Downward
  <2>2. QED
    BY <2>1 DEF Between
<1>5. 0 .. 16 = Steps
  BY DEF Steps, Between
<1>6. \E g : g = [i \in 0 .. 16 |-> Body(g[i + 1], i)]
  BY <1>4, <1>5 DEF Steps
<1>7. Register = [i \in 0 .. 16 |-> Body(Register[i + 1], i)]
  BY <1>6 DEF Register
<1>8. \A i \in Steps : Register[i] = Body(Register[i + 1], i)
  <2> HIDE DEF Body
  <2>1. QED
    BY <1>5, <1>7
<1>9. 16 \in Steps
  BY DEF Steps, Between
<1>10. QED
  BY <1>8, <1>9
-----------------------------------------------------------------------------
(***************************************************************************)
(* The division of a frame, round by round.                                *)
(***************************************************************************)
LEMMA BitsOfFrame == FrameBits = Between(0, 23)
BY DEF FrameBits, Between

\* What a round for bit i does, and that it leaves a frame.
LEMMA RoundIs ==
  ASSUME NEW i \in Between(8, 23), NEW b \in SUBSET FrameBits
  PROVE  /\ Round(i)[b] = IF i \in b THEN SymDiff(b, {i, i - 3, i - 4, i - 8}) ELSE b
         /\ Round(i)[b] \in SUBSET FrameBits
<1>1. Shift(CRCPoly, i - 23) = {i, i - 3, i - 4, i - 8}
  BY DEF Shift, CRCPoly, Between
<1>2. {i, i - 3, i - 4, i - 8} \subseteq FrameBits
  BY BitsOfFrame DEF Between
<1>3. Round(i)[b] = IF i \in b THEN SymDiff(b, {i, i - 3, i - 4, i - 8}) ELSE b
  BY <1>1 DEF Round
<1>4. QED
  BY <1>2, <1>3 DEF SymDiff

\* One round from Division[i] to Division[i - 1].
LEMMA DivisionStep ==
  ASSUME NEW i \in Int, LastRound < i, i <= 23, NEW frame \in SUBSET FrameBits
  PROVE  Division[i - 1][frame] = Round(i)[Division[i][frame]]
<1>1. PICK k \in Rounds \ {23} : k = i - 1 /\ k + 1 = i
  BY DEF Rounds, Between, LastRound
<1>2. Division[k] = [f \in SUBSET FrameBits |-> Round(k + 1)[Division[k + 1][f]]]
  BY DivisionDef
<1>3. Division[k][frame] = Round(k + 1)[Division[k + 1][frame]]
  BY <1>2
<1>4. QED
  BY <1>1, <1>3

\* What is left of a frame is a frame.
LEMMA DivisionType ==
  ASSUME NEW i \in Rounds, NEW frame \in SUBSET FrameBits
  PROVE  Division[i][frame] \in SUBSET FrameBits
<1> DEFINE S == {j \in Int : Division[j][frame] \in SUBSET FrameBits}
<1>1. 23 \in S
  BY DivisionDef
<1>2. ASSUME NEW j \in Int, LastRound < j, j <= 23, j \in S PROVE j - 1 \in S
  <2>1. j \in Between(8, 23)
    BY <1>2 DEF LastRound, Between
  <2>2. Division[j - 1][frame] = Round(j)[Division[j][frame]]
    BY <1>2, DivisionStep
  <2>3. Division[j][frame] \in SUBSET FrameBits
    BY <1>2
  <2> HIDE DEF S
  <2>4. Round(j)[Division[j][frame]] \in SUBSET FrameBits
    BY <2>1, <2>3, RoundIs
  <2>5. QED
    BY <2>2, <2>4 DEF S
<1> HIDE DEF S
<1>3. Rounds \subseteq S
  BY <1>1, <1>2, Downward DEF Rounds, LastRound
<1>4. QED
  BY <1>3 DEF S

\* Dividing is linear: what changes in a frame changes the remainder by its
\* own remainder.
LEMMA DivisionLinear ==
  ASSUME NEW i \in Rounds, NEW a \in SUBSET FrameBits, NEW b \in SUBSET FrameBits
  PROVE  Division[i][SymDiff(a, b)] = SymDiff(Division[i][a], Division[i][b])
<1> DEFINE S == {j \in Rounds : Division[j][SymDiff(a, b)] = SymDiff(Division[j][a], Division[j][b])}
<1>1. SymDiff(a, b) \in SUBSET FrameBits
  BY DEF SymDiff
<1>2. 23 \in S
  BY <1>1, DivisionDef DEF Rounds, Between, LastRound
<1>3. ASSUME NEW j \in Int, LastRound < j, j <= 23, j \in S PROVE j - 1 \in S
  <2>1. j \in Between(8, 23) /\ j \in Rounds /\ j - 1 \in Rounds
    BY <1>3 DEF LastRound, Between, Rounds
  <2> DEFINE x == Division[j][a]
             y == Division[j][b]
             p == {j, j - 3, j - 4, j - 8}
  <2>2. x \in SUBSET FrameBits /\ y \in SUBSET FrameBits
    BY <2>1, DivisionType
  <2>3. SymDiff(x, y) \in SUBSET FrameBits
    BY <2>2 DEF SymDiff
  <2>4. /\ Division[j - 1][a] = Round(j)[x]
        /\ Division[j - 1][b] = Round(j)[y]
        /\ Division[j - 1][SymDiff(a, b)] = Round(j)[SymDiff(x, y)]
    BY <1>1, <1>3, DivisionStep
  <2> HIDE DEF x, y, S
  <2>5. /\ Round(j)[x] = IF j \in x THEN SymDiff(x, p) ELSE x
        /\ Round(j)[y] = IF j \in y THEN SymDiff(y, p) ELSE y
        /\ Round(j)[SymDiff(x, y)] =
             IF j \in SymDiff(x, y) THEN SymDiff(SymDiff(x, y), p) ELSE SymDiff(x, y)
    BY <2>1, <2>2, <2>3, RoundIs
  <2> HIDE DEF p
  <2>6. Round(j)[SymDiff(x, y)] = SymDiff(Round(j)[x], Round(j)[y])
    BY <2>5 DEF SymDiff
  <2>7. QED
    BY <2>1, <2>4, <2>6 DEF S, x, y
<1> HIDE DEF S
<1>4. Rounds \subseteq S
  BY <1>2, <1>3, Downward DEF Rounds, LastRound
<1>5. QED
  BY <1>4 DEF S
-----------------------------------------------------------------------------
(***************************************************************************)
(* A frame is accepted as it was sent.                                     *)
(***************************************************************************)
LEMMA BitsOfData == 0 .. 15 = Between(0, 15) /\ 0 .. 7 = Between(0, 7)
BY DEF Between

\* One bit goes through the register.
LEMMA ShiftBitIs ==
  ASSUME NEW bit \in BOOLEAN, NEW c \in SUBSET Between(0, 7)
  PROVE  /\ ShiftBit(bit)[c] \in SUBSET Between(0, 7)
         /\ \A k \in Int :
              k \in ShiftBit(bit)[c] <=>
                ((k - 1 \in c /\ k # 8) <=> ~((bit <=> 7 \notin c) /\ k \in {0, 4, 5}))
<1> DEFINE fed == IF bit # (7 \in c) THEN {0, 4, 5} ELSE {}
<1>1. ShiftBit(bit)[c] = SymDiff(Shift(c \ {7}, 1), fed)
  BY BitsOfData DEF ShiftBit
<1>2. \A k : k \in fed <=> ((bit <=> 7 \notin c) /\ k \in {0, 4, 5})
  OBVIOUS
<1>3. \A k \in Int : k \in Shift(c \ {7}, 1) <=> (k - 1 \in c /\ k # 8)
  BY DEF Shift, Between
<1>4. Shift(c \ {7}, 1) \subseteq Between(0, 7) /\ fed \subseteq Between(0, 7)
  BY DEF Shift, Between
<1> HIDE DEF fed
<1>5. QED
  BY <1>1, <1>2, <1>3, <1>4 DEF SymDiff

\* The register has eight bits, and one step of it.
LEMMA RegisterStep ==
  ASSUME NEW n \in Int, 0 < n, n <= 16, NEW bits \in SUBSET Between(0, 15)
  PROVE  Register[n - 1][bits] = ShiftBit(n - 1 \in bits)[Register[n][bits]]
<1>1. PICK k \in Steps \ {16} : k = n - 1 /\ k + 1 = n
  BY DEF Steps, Between
<1>2. Register[k] = [b \in SUBSET (0 .. 15) |-> ShiftBit(k \in b)[Register[k + 1][b]]]
  BY RegisterDef
<1>3. Register[k][bits] = ShiftBit(k \in bits)[Register[k + 1][bits]]
  BY <1>2, BitsOfData
<1>4. QED
  BY <1>1, <1>3

\* The register has eight bits after every data bit.
LEMMA RegisterType ==
  ASSUME NEW n \in Steps, NEW bits \in SUBSET Between(0, 15)
  PROVE  Register[n][bits] \in SUBSET Between(0, 7)
<1> DEFINE S == {j \in Int : Register[j][bits] \in SUBSET Between(0, 7)}
<1>1. 16 \in S
  BY RegisterDef, BitsOfData
<1>2. ASSUME NEW j \in Int, 0 < j, j <= 16, j \in S PROVE j - 1 \in S
  <2>1. Register[j - 1][bits] = ShiftBit(j - 1 \in bits)[Register[j][bits]]
    BY <1>2, RegisterStep
  <2>2. Register[j][bits] \in SUBSET Between(0, 7) /\ (j - 1 \in bits) \in BOOLEAN
    BY <1>2
  <2> HIDE DEF S
  <2>3. ShiftBit(j - 1 \in bits)[Register[j][bits]] \in SUBSET Between(0, 7)
    BY <2>2, ShiftBitIs
  <2>4. QED
    BY <2>1, <2>3 DEF S
<1> HIDE DEF S
<1>3. Steps \subseteq S
  BY <1>1, <1>2, Downward DEF Steps
<1>4. QED
  BY <1>3 DEF S

\* What the division has made of a frame when the bits from n on are done:
\* the register of the sensor at that moment, aligned with them, the data
\* bits below n and the checksum.
Left(n, c, bits, crc) ==
  {k \in FrameBits :
     (k - n \in c) <=> ((k - 8 \in bits /\ k - 8 < n) <=> (k \in crc))}

\* One round of VerifyCRC does to the register in the frame what the sensor
\* did when it shifted the next data bit in.
LEMMA RoundOfLeft ==
  ASSUME NEW n \in Int, 0 < n, n <= 16,
         NEW c \in SUBSET Between(0, 7), NEW crc \in SUBSET Between(0, 7),
         NEW bits \in SUBSET Between(0, 15)
  PROVE  Round(n + 7)[Left(n, c, bits, crc)]
           = Left(n - 1, ShiftBit(n - 1 \in bits)[c], bits, crc)
<1> DEFINE b   == Left(n, c, bits, crc)
           fed == (n - 1 \in bits) <=> (7 \notin c)
           d   == ShiftBit(n - 1 \in bits)[c]
           p   == {n + 7, n + 4, n + 3, n - 1}
<1>1. n + 7 \in Between(8, 23) /\ n + 7 \in FrameBits /\ b \in SUBSET FrameBits
  BY BitsOfFrame DEF Between, Left
<1>2. n + 7 \in b <=> fed
  <2>1. (n + 7) - n = 7 /\ (n + 7) - 8 = n - 1 /\ n - 1 < n /\ n + 7 \notin crc
    BY DEF Between
  <2>2. QED
    BY <1>1, <2>1 DEF Left
<1>3. Round(n + 7)[b] = IF fed THEN SymDiff(b, p) ELSE b
  <2>1. (n + 7) - 3 = n + 4 /\ (n + 7) - 4 = n + 3 /\ (n + 7) - 8 = n - 1
    OBVIOUS
  <2> HIDE DEF b, fed
  <2>2. QED
    BY <1>1, <1>2, <2>1, RoundIs
<1>4. ASSUME NEW k \in FrameBits
      PROVE  k - (n - 1) \in d <=> ((k - n \in c /\ k # n + 7) <=> ~(fed /\ k \in {n - 1, n + 3, n + 4}))
  <2>1. /\ k \in Int /\ (k - (n - 1)) - 1 = k - n
        /\ k - (n - 1) = 8 <=> k = n + 7
        /\ k - (n - 1) = 0 <=> k = n - 1
        /\ k - (n - 1) = 4 <=> k = n + 3
        /\ k - (n - 1) = 5 <=> k = n + 4
    BY BitsOfFrame DEF Between
  <2>2. k - (n - 1) \in d <=>
          (((k - (n - 1)) - 1 \in c /\ k - (n - 1) # 8)
             <=> ~(fed /\ k - (n - 1) \in {0, 4, 5}))
    <3>1. (n - 1 \in bits) \in BOOLEAN
      OBVIOUS
    <3>2. \A j \in Int :
            j \in d <=> ((j - 1 \in c /\ j # 8) <=> ~(fed /\ j \in {0, 4, 5}))
      BY <3>1, ShiftBitIs
    <3> HIDE DEF d, fed
    <3>3. QED
      BY <2>1, <3>2
  <2>3. /\ (k - (n - 1)) - 1 \in c <=> k - n \in c
        /\ k - (n - 1) # 8 <=> k # n + 7
        /\ k - (n - 1) \in {0, 4, 5} <=> k \in {n - 1, n + 3, n + 4}
    BY <2>1
  <2> HIDE DEF d, fed
  <2>4. QED
    BY <2>2, <2>3, SMTT(20)
<1>5. ASSUME NEW k \in FrameBits
      PROVE  k \in Round(n + 7)[b] <=> k \in Left(n - 1, d, bits, crc)
  <2>1. k \in Int /\ (k \in crc => k # n + 7) /\ (k - 8 < n <=> (k - 8 < n - 1 \/ k = n + 7))
    BY BitsOfFrame DEF Between
  <2>2. k \in b <=> ((k - n \in c) <=> ((k - 8 \in bits /\ k - 8 < n) <=> (k \in crc)))
    BY DEF Left
  <2>3. k \in Left(n - 1, d, bits, crc) <=>
          (k - (n - 1) \in d <=> ((k - 8 \in bits /\ k - 8 < n - 1) <=> (k \in crc)))
    BY DEF Left
  <2>4. k \in Round(n + 7)[b] <=> (k \in b <=> ~(fed /\ k \in p))
    <3> HIDE DEF b, fed, p
    <3>1. QED
      BY <1>3 DEF SymDiff
  <2>5. CASE k = n + 7
    <3>1. k \notin Round(n + 7)[b]
      BY <1>2, <2>4, <2>5
    <3>2. ~(k - 8 < n - 1) /\ k \notin crc /\ k \notin {n - 1, n + 3, n + 4}
      BY <2>1, <2>5
    <3> HIDE DEF b, fed, d
    <3>3. k - (n - 1) \notin d
      BY <1>4, <2>5, <3>2
    <3>4. QED
      BY <2>3, <3>1, <3>2, <3>3
  <2>6. CASE k # n + 7
    <3>1. k \in p <=> k \in {n - 1, n + 3, n + 4}
      BY <2>6
    <3> HIDE DEF b, fed, d, p
    <3>2. QED
      BY <1>4, <2>1, <2>2, <2>3, <2>4, <2>6, <3>1
  <2>7. QED
    BY <2>5, <2>6
<1>6. Round(n + 7)[b] \subseteq FrameBits
  BY <1>1, RoundIs
<1>7. Left(n - 1, d, bits, crc) \subseteq FrameBits
  BY DEF Left
<1>8. QED
  BY <1>5, <1>6, <1>7

\* The bits of a word, the checksum of the sensor, and what it sends.
LEMMA SentIs ==
  ASSUME NEW word
  PROVE  /\ Bits(word) \in SUBSET Between(0, 15)
         /\ SensorCRC(word) \in SUBSET Between(0, 7)
         /\ Sent(word) \in SUBSET FrameBits
         /\ \A k \in FrameBits :
              k \in Sent(word) <=> (k - 8 \in Bits(word) \/ k \in SensorCRC(word))
<1>1. Bits(word) \in SUBSET Between(0, 15)
  BY BitsOfData DEF Bits
<1>2. SensorCRC(word) \in SUBSET Between(0, 7)
  BY <1>1, RegisterType DEF SensorCRC, Steps, Between
<1>3. \A k \in FrameBits : k \in Shift(Bits(word), 8) <=> k - 8 \in Bits(word)
  BY <1>1, BitsOfFrame DEF Shift, Between
<1>4. QED
  BY <1>1, <1>2, <1>3 DEF Sent, Frame

\* Every word arrives: the division of what the sensor sends leaves nothing.
THEOREM SentAccepted == \A word : VerifyCRC(Sent(word))
<1> SUFFICES ASSUME NEW word PROVE Division[LastRound][Sent(word)] = {}
  BY DEF VerifyCRC
<1> DEFINE bits == Bits(word)
           crc  == SensorCRC(word)
           S    == {j \in Int : Division[j][Sent(word)] = Left(j - 7, Register[j - 7][bits], bits, crc)}
<1>1. /\ bits \in SUBSET Between(0, 15) /\ crc \in SUBSET Between(0, 7)
      /\ Sent(word) \in SUBSET FrameBits
  BY SentIs
<1>2. Sent(word) = Left(16, {}, bits, crc)
  <2>1. ASSUME NEW k \in FrameBits
        PROVE  k \in Sent(word) <=> k \in Left(16, {}, bits, crc)
    <3>1. k \in Sent(word) <=> (k - 8 \in bits \/ k \in crc)
      BY SentIs
    <3>2. ~(k - 8 \in bits /\ k \in crc) /\ (k - 8 \in bits => k - 8 < 16)
      BY <1>1, BitsOfFrame DEF Between
    <3> HIDE DEF bits, crc
    <3>3. QED
      BY <3>1, <3>2 DEF Left
  <2>2. QED
    BY <1>1, <2>1 DEF Left
<1>3. 23 \in S
  <2>1. Register[16][bits] = {}
    BY <1>1, RegisterDef, BitsOfData
  <2>2. Division[23][Sent(word)] = Sent(word)
    BY <1>1, DivisionDef
  <2> HIDE DEF bits, crc
  <2>3. QED
    BY <1>2, <2>1, <2>2
<1>4. ASSUME NEW j \in Int, LastRound < j, j <= 23, j \in S PROVE j - 1 \in S
  <2> DEFINE n == j - 7
             c == Register[n][bits]
  <2>1. n \in Int /\ 0 < n /\ n <= 16 /\ n \in Steps /\ n + 7 = j /\ n - 1 = (j - 1) - 7
    BY <1>4 DEF LastRound, Steps, Between
  <2>2. Division[j - 1][Sent(word)] = Round(j)[Left(n, c, bits, crc)]
    BY <1>1, <1>4, DivisionStep
  <2> HIDE DEF S, n, bits, crc
  <2>3. c \in SUBSET Between(0, 7)
    BY <1>1, <2>1, RegisterType
  <2>4. Register[n - 1][bits] = ShiftBit(n - 1 \in bits)[c]
    BY <1>1, <2>1, RegisterStep
  <2> HIDE DEF c
  <2>5. Round(n + 7)[Left(n, c, bits, crc)] = Left(n - 1, ShiftBit(n - 1 \in bits)[c], bits, crc)
    BY <1>1, <2>1, <2>3, RoundOfLeft
  <2>6. QED
    BY <2>1, <2>2, <2>4, <2>5 DEF S
<1>5. LastRound \in S
  <2> HIDE DEF S
  <2>1. Between(LastRound, 23) \subseteq S
    BY <1>3, <1>4, Downward DEF LastRound
  <2>2. QED
    BY <2>1 DEF Between, LastRound
<1>6. Division[LastRound][Sent(word)] = Left(0, crc, bits, crc)
  BY <1>5 DEF LastRound, SensorCRC
<1>7. Left(0, crc, bits, crc) = {}
  BY <1>1, BitsOfFrame DEF Left, Between
<1>8. QED
  BY <1>6, <1>7

\* Whether a frame that has changed on the way is accepted depends on what
\* has changed, not on the word.
THEOREM ChangeDecides ==
  ASSUME NEW word, NEW flips \in SUBSET FrameBits
  PROVE  VerifyCRC(Received(word, flips)) <=> VerifyCRC(flips)
<1>1. LastRound \in Rounds
  BY DEF Rounds, LastRound, Between
<1>2. Sent(word) \in SUBSET FrameBits
  BY SentIs
<1>3. Division[LastRound][SymDiff(Sent(word), flips)]
        = SymDiff(Division[LastRound][Sent(word)], Division[LastRound][flips])
  BY <1>1, <1>2, DivisionLinear
<1>4. Division[LastRound][Sent(word)] = {}
  BY SentAccepted DEF VerifyCRC
<1>5. QED
  BY <1>3, <1>4 DEF VerifyCRC, Received, SymDiff
-----------------------------------------------------------------------------
(***************************************************************************)
(* What the checksum detects.                                              *)
(***************************************************************************)

\* A burst: all that has changed lies within eight bits in a row.
IsBurst(flips) == flips # {} /\ \E k \in Between(0, 16) : flips \subseteq Between(k, k + 7)

\* VerifyCRC refuses a frame whose errors all lie within eight bits in a row.
THEOREM BurstDetected ==
  ASSUME NEW flips \in SUBSET FrameBits, IsBurst(flips)
  PROVE  ~VerifyCRC(flips)
<1>1. PICK k \in Between(0, 16) : flips \subseteq Between(k, k + 7)
  BY DEF IsBurst
<1> DEFINE left(j) == Division[j][flips]
           S == {j \in Int : /\ left(j) # {}
                             /\ IF k + 7 <= j THEN left(j) = flips
                                              ELSE left(j) \subseteq Between(j - 7, j)}
<1>2. k \in Int /\ 0 <= k /\ k <= 16
  BY DEF Between
<1>3. 23 \in S
  <2>1. left(23) = flips /\ flips # {}
    BY DivisionDef DEF IsBurst
  <2> HIDE DEF left
  <2>2. QED
    BY <1>2, <2>1
<1>4. ASSUME NEW j \in Int, LastRound < j, j <= 23, j \in S PROVE j - 1 \in S
  <2> DEFINE x == left(j)
             p == {j, j - 3, j - 4, j - 8}
  <2>1. j \in Between(8, 23) /\ j \in Rounds
    BY <1>4 DEF Between, LastRound, Rounds
  <2>2. left(j - 1) = Round(j)[x]
    BY <1>4, DivisionStep
  <2>3. x \in SUBSET FrameBits
    BY <2>1, DivisionType
  <2> HIDE DEF left, S
  <2>4. left(j - 1) = IF j \in x THEN SymDiff(x, p) ELSE x
    <3> HIDE DEF x
    <3>1. QED
      BY <2>1, <2>2, <2>3, RoundIs
  <2>5. x # {} /\ (k + 7 <= j => x = flips) /\ (~(k + 7 <= j) => x \subseteq Between(j - 7, j))
    BY <1>4 DEF S
  <2> HIDE DEF x
  <2>6. CASE k + 7 <= j - 1
    <3>1. j \notin x /\ x = flips
      BY <1>1, <1>2, <2>5, <2>6 DEF Between
    <3>2. QED
      BY <2>4, <2>5, <2>6, <3>1 DEF S
  <2>7. CASE ~(k + 7 <= j - 1)
    <3>1. x \subseteq Between(j - 7, j)
      <4>1. CASE k + 7 <= j
        <5>1. k = j - 7 /\ k + 7 = j /\ x = flips
          BY <1>2, <2>5, <2>7, <4>1
        <5>2. QED
          BY <1>1, <5>1
      <4>2. QED
        BY <2>5, <4>1
    <3>2. j \in x => j - 8 \in SymDiff(x, p) /\ SymDiff(x, p) \subseteq Between(j - 8, j - 1)
      BY <3>1 DEF SymDiff, Between
    <3>3. j \notin x => x \subseteq Between(j - 8, j - 1)
      BY <3>1 DEF Between
    <3>4. left(j - 1) # {} /\ left(j - 1) \subseteq Between(j - 8, j - 1)
      BY <2>4, <2>5, <3>2, <3>3
    <3>5. j - 8 = (j - 1) - 7
      OBVIOUS
    <3>6. QED
      BY <2>7, <3>4, <3>5 DEF S
  <2>8. QED
    BY <2>6, <2>7
<1>5. LastRound \in S
  <2> HIDE DEF S
  <2>1. Between(LastRound, 23) \subseteq S
    BY <1>3, <1>4, Downward DEF LastRound
  <2>2. QED
    BY <2>1 DEF Between, LastRound
<1>6. QED
  BY <1>5 DEF VerifyCRC

\* The rounds that are left do not look at bits above them.
LEMMA DivisionBelow ==
  ASSUME NEW i \in Rounds, NEW frame \in SUBSET FrameBits
  PROVE  Division[i][frame] \subseteq Between(0, i)
<1> DEFINE S == {j \in Int : Division[j][frame] \subseteq Between(0, j)}
<1>1. 23 \in S
  BY DivisionDef, BitsOfFrame
<1>2. ASSUME NEW j \in Int, LastRound < j, j <= 23, j \in S PROVE j - 1 \in S
  <2> DEFINE x == Division[j][frame]
             p == {j, j - 3, j - 4, j - 8}
  <2>1. j \in Between(8, 23) /\ j \in Rounds
    BY <1>2 DEF Between, LastRound, Rounds
  <2>2. Division[j - 1][frame] = Round(j)[x]
    BY <1>2, DivisionStep
  <2>3. x \in SUBSET FrameBits /\ x \subseteq Between(0, j)
    BY <1>2, <2>1, DivisionType
  <2> HIDE DEF S, x
  <2>4. Round(j)[x] = IF j \in x THEN SymDiff(x, p) ELSE x
    BY <2>1, <2>3, RoundIs
  <2>5. Round(j)[x] \subseteq Between(0, j - 1)
    <3>1. p \subseteq Between(0, j)
      BY <2>1 DEF Between
    <3>2. j \in x => SymDiff(x, p) \subseteq Between(0, j - 1)
      BY <2>3, <3>1 DEF SymDiff, Between
    <3>3. j \notin x => x \subseteq Between(0, j - 1)
      BY <2>3 DEF Between
    <3>4. QED
      BY <2>4, <3>2, <3>3
  <2>6. QED
    BY <2>2, <2>5 DEF S
<1> HIDE DEF S
<1>3. Rounds \subseteq S
  BY <1>1, <1>2, Downward DEF Rounds, LastRound
<1>4. QED
  BY <1>3 DEF S

\* Dividing a frame moved up by a bit is dividing it a round later.
LEMMA DivisionShifted ==
  ASSUME NEW frame \in SUBSET Between(0, 22)
  PROVE  Division[LastRound + 1][Shift(frame, 1)] = Shift(Division[LastRound][frame], 1)
<1> DEFINE moved == Shift(frame, 1)
           S == {j \in Int : Division[j + 1][moved] = Shift(Division[j][frame], 1)}
<1>1. frame \in SUBSET FrameBits /\ moved \in SUBSET FrameBits /\ 23 \notin frame
  BY BitsOfFrame DEF Shift, Between
<1>2. 22 \in S
  <2>1. Division[23][moved] = moved /\ Division[23][frame] = frame
    BY <1>1, DivisionDef
  <2>2. Division[23 - 1][frame] = Round(23)[Division[23][frame]]
    BY <1>1, DivisionStep DEF LastRound
  <2>3. Round(23)[frame] = frame
    <3>1. 23 \in Between(8, 23)
      BY DEF Between
    <3>2. QED
      BY <1>1, <3>1, RoundIs
  <2> HIDE DEF moved
  <2>4. Division[22][frame] = frame
    BY <2>1, <2>2, <2>3
  <2>5. QED
    BY <2>1, <2>4 DEF moved
<1>3. ASSUME NEW j \in Int, LastRound < j, j <= 22, j \in S PROVE j - 1 \in S
  <2> DEFINE x == Division[j][frame]
             y == Shift(x, 1)
  <2>1. /\ j \in Between(8, 23) /\ j + 1 \in Between(8, 23) /\ j \in Rounds
        /\ (j + 1) - 1 = j /\ (j - 1) + 1 = j /\ (j + 1) - 3 = j - 2
        /\ (j + 1) - 4 = j - 3 /\ (j + 1) - 8 = j - 7
    BY <1>3 DEF Between, LastRound, Rounds
  <2>2. Division[j - 1][frame] = Round(j)[x]
    BY <1>1, <1>3, DivisionStep
  <2>3. Division[(j + 1) - 1][moved] = Round(j + 1)[Division[j + 1][moved]]
    <3>1. j + 1 \in Int /\ LastRound < j + 1 /\ j + 1 <= 23
      BY <1>3 DEF LastRound
    <3>2. QED
      BY <1>1, <3>1, DivisionStep
  <2>4. Division[j + 1][moved] = y
    BY <1>3
  <2>5. x \in SUBSET FrameBits /\ x \subseteq Between(0, j)
    BY <1>1, <2>1, DivisionType, DivisionBelow
  <2> HIDE DEF S, x, moved
  <2>6. y \in SUBSET FrameBits /\ (j + 1 \in y <=> j \in x)
    BY <1>3, <2>5, BitsOfFrame DEF Shift, Between
  <2>7. Round(j)[x] = IF j \in x THEN SymDiff(x, {j, j - 3, j - 4, j - 8}) ELSE x
    BY <2>1, <2>5, RoundIs
  <2> HIDE DEF y
  <2>8. Round(j + 1)[y] = IF j + 1 \in y THEN SymDiff(y, {j + 1, j - 2, j - 3, j - 7}) ELSE y
    BY <2>1, <2>6, RoundIs
  <2>9. SymDiff(y, {j + 1, j - 2, j - 3, j - 7}) = Shift(SymDiff(x, {j, j - 3, j - 4, j - 8}), 1)
    BY <2>5, BitsOfFrame DEF y, SymDiff, Shift, Between
  <2>10. Round(j + 1)[y] = Shift(Round(j)[x], 1)
    BY <2>6, <2>7, <2>8, <2>9 DEF y
  <2>11. QED
    BY <2>1, <2>2, <2>3, <2>4, <2>10 DEF S
<1>4. LastRound \in S
  <2> HIDE DEF S
  <2>1. Between(LastRound, 22) \subseteq S
    BY <1>2, <1>3, Downward DEF LastRound
  <2>2. QED
    BY <2>1 DEF Between, LastRound
<1>5. QED
  BY <1>4

\* The remainder of a single bit.
Remainder(k) == Division[LastRound][{k}]

\* The remainder of the next bit.
Shifted(c) == Round(8)[Shift(c, 1)]

\* Shifting a remainder by one bit, written out.
LEMMA ShiftedIs ==
  ASSUME NEW c \in SUBSET Between(0, 7)
  PROVE  Shifted(c) = IF 7 \in c THEN SymDiff(Shift(c, 1), {8, 5, 4, 0}) ELSE Shift(c, 1)
<1>1. 8 \in Between(8, 23) /\ 8 - 3 = 5 /\ 8 - 4 = 4 /\ 8 - 8 = 0
  BY DEF Between
<1>2. Shift(c, 1) \in SUBSET FrameBits /\ (8 \in Shift(c, 1) <=> 7 \in c)
  BY BitsOfFrame DEF Shift, Between
<1> DEFINE t == Shift(c, 1)
<1> HIDE DEF t
<1>3. Round(8)[t] = IF 8 \in t THEN SymDiff(t, {8, 8 - 3, 8 - 4, 8 - 8}) ELSE t
  <2>1. t \in SUBSET FrameBits
    BY <1>2 DEF t
  <2>2. QED
    BY <1>1, <2>1, RoundIs
<1>4. QED
  BY <1>1, <1>2, <1>3 DEF Shifted, t

\* The remainder of one wrong bit is that of the bit below it, shifted.
LEMMA ShiftRemainder ==
  ASSUME NEW k \in Between(0, 22)
  PROVE  /\ Remainder(k + 1) = Shifted(Remainder(k))
         /\ Remainder(k) \in SUBSET Between(0, 7)
<1>1. {k} \in SUBSET Between(0, 22) /\ {k} \in SUBSET FrameBits /\ {k + 1} \in SUBSET FrameBits
  BY BitsOfFrame DEF Between
<1>2. Shift({k}, 1) = {k + 1}
  BY DEF Shift
<1>3. Division[LastRound + 1][{k + 1}] = Shift(Division[LastRound][{k}], 1)
  BY <1>1, <1>2, DivisionShifted
<1>4. Division[8 - 1][{k + 1}] = Round(8)[Division[8][{k + 1}]]
  BY <1>1, DivisionStep DEF LastRound
<1>5. LastRound \in Rounds
  BY DEF Rounds, LastRound, Between
<1>6. Division[LastRound][{k}] \subseteq Between(0, LastRound)
  BY <1>1, <1>5, DivisionBelow
<1>7. QED
  BY <1>3, <1>4, <1>6 DEF Remainder, Shifted, LastRound

\* The remainder of the last bit of the frame is that bit.
LEMMA RemainderOfFirst == Remainder(0) = {0}
<1> DEFINE S == {j \in Int : Division[j][{0}] = {0}}
<1>1. {0} \in SUBSET FrameBits
  BY BitsOfFrame DEF Between
<1>2. 23 \in S
  BY <1>1, DivisionDef
<1>3. ASSUME NEW j \in Int, LastRound < j, j <= 23, j \in S PROVE j - 1 \in S
  <2>1. j \in Between(8, 23) /\ j \notin {0}
    BY <1>3 DEF Between, LastRound
  <2>2. Division[j - 1][{0}] = Round(j)[{0}]
    BY <1>1, <1>3, DivisionStep
  <2>3. Round(j)[{0}] = {0}
    BY <1>1, <2>1, RoundIs
  <2>4. QED
    BY <2>2, <2>3
<1> HIDE DEF S
<1>4. Between(LastRound, 23) \subseteq S
  BY <1>2, <1>3, Downward DEF LastRound
<1>5. QED
  BY <1>4 DEF S, Remainder, Between, LastRound

\* One line of the table of remainders.
LEMMA TableStep ==
  ASSUME NEW k \in Between(0, 22), NEW c \in SUBSET Between(0, 7), Remainder(k) = c
  PROVE  Remainder(k + 1) = IF 7 \in c THEN SymDiff(Shift(c, 1), {8, 5, 4, 0}) ELSE Shift(c, 1)
BY ShiftRemainder, ShiftedIs

\* No other bit has the remainder of the first.
LEMMA RemainderOfOthers == \A d \in Between(1, 23) : Remainder(d) # {0}
<1>1. Remainder(1) = {1}
  <2>1. 0 \in Between(0, 22) /\ {0} \in SUBSET Between(0, 7) /\ 7 \notin {0}
    BY DEF Between
  <2>2. Remainder(0 + 1) = Shift({0}, 1)
    BY RemainderOfFirst, <2>1, TableStep
  <2>3. QED
    BY <2>2 DEF SymDiff, Shift
<1>2. Remainder(2) = {2}
  <2>1. 1 \in Between(0, 22) /\ {1} \in SUBSET Between(0, 7) /\ 7 \notin {1}
    BY DEF Between
  <2>2. Remainder(1 + 1) = Shift({1}, 1)
    BY <1>1, <2>1, TableStep
  <2>3. QED
    BY <2>2 DEF SymDiff, Shift
<1>3. Remainder(3) = {3}
  <2>1. 2 \in Between(0, 22) /\ {2} \in SUBSET Between(0, 7) /\ 7 \notin {2}
    BY DEF Between
  <2>2. Remainder(2 + 1) = Shift({2}, 1)
    BY <1>2, <2>1, TableStep
  <2>3. QED
    BY <2>2 DEF SymDiff, Shift
<1>4. Remainder(4) = {4}
  <2>1. 3 \in Between(0, 22) /\ {3} \in SUBSET Between(0, 7) /\ 7 \notin {3}
    BY DEF Between
  <2>2. Remainder(3 + 1) = Shift({3}, 1)
    BY <1>3, <2>1, TableStep
  <2>3. QED
    BY <2>2 DEF SymDiff, Shift
<1>5. Remainder(5) = {5}
  <2>1. 4 \in Between(0, 22) /\ {4} \in SUBSET Between(0, 7) /\ 7 \notin {4}
    BY DEF Between
  <2>2. Remainder(4 + 1) = Shift({4}, 1)
    BY <1>4, <2>1, TableStep
  <2>3. QED
    BY <2>2 DEF SymDiff, Shift
<1>6. Remainder(6) = {6}
  <2>1. 5 \in Between(0, 22) /\ {5} \in SUBSET Between(0, 7) /\ 7 \notin {5}
    BY DEF Between
  <2>2. Remainder(5 + 1) = Shift({5}, 1)
    BY <1>5, <2>1, TableStep
  <2>3. QED
    BY <2>2 DEF SymDiff, Shift
<1>7. Remainder(7) = {7}
  <2>1. 6 \in Between(0, 22) /\ {6} \in SUBSET Between(0, 7) /\ 7 \notin {6}
    BY DEF Between
  <2>2. Remainder(6 + 1) = Shift({6}, 1)
    BY <1>6, <2>1, TableStep
  <2>3. QED
    BY <2>2 DEF SymDiff, Shift
<1>8. Remainder(8) = {0, 4, 5}
  <2>1. 7 \in Between(0, 22) /\ {7} \in SUBSET Between(0, 7)
    BY DEF Between
  <2>2. Remainder(7 + 1) = SymDiff(Shift({7}, 1), {8, 5, 4, 0})
    BY <1>7, <2>1, TableStep
  <2>3. QED
    BY <2>2 DEF SymDiff, Shift
<1>9. Remainder(9) = {1, 5, 6}
  <2>1. 8 \in Between(0, 22) /\ {0, 4, 5} \in SUBSET Between(0, 7) /\ 7 \notin {0, 4, 5}
    BY DEF Between
  <2>2. Remainder(8 + 1) = Shift({0, 4, 5}, 1)
    BY <1>8, <2>1, TableStep
  <2>3. QED
    BY <2>2 DEF SymDiff, Shift
<1>10. Remainder(10) = {2, 6, 7}
  <2>1. 9 \in Between(0, 22) /\ {1, 5, 6} \in SUBSET Between(0, 7) /\ 7 \notin {1, 5, 6}
    BY DEF Between
  <2>2. Remainder(9 + 1) = Shift({1, 5, 6}, 1)
    BY <1>9, <2>1, TableStep
  <2>3. QED
    BY <2>2 DEF SymDiff, Shift
<1>11. Remainder(11) = {0, 3, 4, 5, 7}
  <2>1. 10 \in Between(0, 22) /\ {2, 6, 7} \in SUBSET Between(0, 7)
    BY DEF Between
  <2>2. Remainder(10 + 1) = SymDiff(Shift({2, 6, 7}, 1), {8, 5, 4, 0})
    BY <1>10, <2>1, TableStep
  <2>3. QED
    BY <2>2 DEF SymDiff, Shift
<1>12. Remainder(12) = {0, 1, 6}
  <2>1. 11 \in Between(0, 22) /\ {0, 3, 4, 5, 7} \in SUBSET Between(0, 7)
    BY DEF Between
  <2>2. Remainder(11 + 1) = SymDiff(Shift({0, 3, 4, 5, 7}, 1), {8, 5, 4, 0})
    BY <1>11, <2>1, TableStep
  <2>3. QED
    BY <2>2 DEF SymDiff, Shift
<1>13. Remainder(13) = {1, 2, 7}
  <2>1. 12 \in Between(0, 22) /\ {0, 1, 6} \in SUBSET Between(0, 7) /\ 7 \notin {0, 1, 6}
    BY DEF Between
  <2>2. Remainder(12 + 1) = Shift({0, 1, 6}, 1)
    BY <1>12, <2>1, TableStep
  <2>3. QED
    BY <2>2 DEF SymDiff, Shift
<1>14. Remainder(14) = {0, 2, 3, 4, 5}
  <2>1. 13 \in Between(0, 22) /\ {1, 2, 7} \in SUBSET Between(0, 7)
    BY DEF Between
  <2>2. Remainder(13 + 1) = SymDiff(Shift({1, 2, 7}, 1), {8, 5, 4, 0})
    BY <1>13, <2>1, TableStep
  <2>3. QED
    BY <2>2 DEF SymDiff, Shift
<1>15. Remainder(15) = {1, 3, 4, 5, 6}
  <2>1. 14 \in Between(0, 22) /\ {0, 2, 3, 4, 5} \in SUBSET Between(0, 7) /\ 7 \notin {0, 2, 3, 4, 5}
    BY DEF Between
  <2>2. Remainder(14 + 1) = Shift({0, 2, 3, 4, 5}, 1)
    BY <1>14, <2>1, TableStep
  <2>3. QED
    BY <2>2 DEF SymDiff, Shift
<1>16. Remainder(16) = {2, 4, 5, 6, 7}
  <2>1. 15 \in Between(0, 22) /\ {1, 3, 4, 5, 6} \in SUBSET Between(0, 7) /\ 7 \notin {1, 3, 4, 5, 6}
    BY DEF Between
  <2>2. Remainder(15 + 1) = Shift({1, 3, 4, 5, 6}, 1)
    BY <1>15, <2>1, TableStep
  <2>3. QED
    BY <2>2 DEF SymDiff, Shift
<1>17. Remainder(17) = {0, 3, 4, 6, 7}
  <2>1. 16 \in Between(0, 22) /\ {2, 4, 5, 6, 7} \in SUBSET Between(0, 7)
    BY DEF Between
  <2>2. Remainder(16 + 1) = SymDiff(Shift({2, 4, 5, 6, 7}, 1), {8, 5, 4, 0})
    BY <1>16, <2>1, TableStep
  <2>3. QED
    BY <2>2 DEF SymDiff, Shift
<1>18. Remainder(18) = {0, 1, 7}
  <2>1. 17 \in Between(0, 22) /\ {0, 3, 4, 6, 7} \in SUBSET Between(0, 7)
    BY DEF Between
  <2>2. Remainder(17 + 1) = SymDiff(Shift({0, 3, 4, 6, 7}, 1), {8, 5, 4, 0})
    BY <1>17, <2>1, TableStep
  <2>3. QED
    BY <2>2 DEF SymDiff, Shift
<1>19. Remainder(19) = {0, 1, 2, 4, 5}
  <2>1. 18 \in Between(0, 22) /\ {0, 1, 7} \in SUBSET Between(0, 7)
    BY DEF Between
  <2>2. Remainder(18 + 1) = SymDiff(Shift({0, 1, 7}, 1), {8, 5, 4, 0})
    BY <1>18, <2>1, TableStep
  <2>3. QED
    BY <2>2 DEF SymDiff, Shift
<1>20. Remainder(20) = {1, 2, 3, 5, 6}
  <2>1. 19 \in Between(0, 22) /\ {0, 1, 2, 4, 5} \in SUBSET Between(0, 7) /\ 7 \notin {0, 1, 2, 4, 5}
    BY DEF Between
  <2>2. Remainder(19 + 1) = Shift({0, 1, 2, 4, 5}, 1)
    BY <1>19, <2>1, TableStep
  <2>3. QED
    BY <2>2 DEF SymDiff, Shift
<1>21. Remainder(21) = {2, 3, 4, 6, 7}
  <2>1. 20 \in Between(0, 22) /\ {1, 2, 3, 5, 6} \in SUBSET Between(0, 7) /\ 7 \notin {1, 2, 3, 5, 6}
    BY DEF Between
  <2>2. Remainder(20 + 1) = Shift({1, 2, 3, 5, 6}, 1)
    BY <1>20, <2>1, TableStep
  <2>3. QED
    BY <2>2 DEF SymDiff, Shift
<1>22. Remainder(22) = {0, 3, 7}
  <2>1. 21 \in Between(0, 22) /\ {2, 3, 4, 6, 7} \in SUBSET Between(0, 7)
    BY DEF Between
  <2>2. Remainder(21 + 1) = SymDiff(Shift({2, 3, 4, 6, 7}, 1), {8, 5, 4, 0})
    BY <1>21, <2>1, TableStep
  <2>3. QED
    BY <2>2 DEF SymDiff, Shift
<1>23. Remainder(23) = {0, 1, 5}
  <2>1. 22 \in Between(0, 22) /\ {0, 3, 7} \in SUBSET Between(0, 7)
    BY DEF Between
  <2>2. Remainder(22 + 1) = SymDiff(Shift({0, 3, 7}, 1), {8, 5, 4, 0})
    BY <1>22, <2>1, TableStep
  <2>3. QED
    BY <2>2 DEF SymDiff, Shift
<1>24. QED
  BY <1>1, <1>2, <1>3, <1>4, <1>5, <1>6, <1>7, <1>8, <1>9, <1>10, <1>11, <1>12, <1>13,
     <1>14, <1>15, <1>16, <1>17, <1>18, <1>19, <1>20, <1>21, <1>22, <1>23 DEF Between

\* Different remainders move on to different remainders.
LEMMA ShiftedInjective ==
  ASSUME NEW c \in SUBSET Between(0, 7), NEW d \in SUBSET Between(0, 7), Shifted(c) = Shifted(d)
  PROVE  c = d
<1>1. ASSUME NEW e \in SUBSET Between(0, 7)
      PROVE  \A k \in Int : k \in Shifted(e) <=> ((k - 1 \in e) <=> ~(7 \in e /\ k \in {8, 5, 4, 0}))
  <2>1. \A k \in Int : k \in Shift(e, 1) <=> k - 1 \in e
    BY DEF Shift, Between
  <2>2. Shifted(e) = IF 7 \in e THEN SymDiff(Shift(e, 1), {8, 5, 4, 0}) ELSE Shift(e, 1)
    BY ShiftedIs
  <2>3. QED
    BY <2>1, <2>2 DEF SymDiff
<1>2. \A k \in Int : ((k - 1 \in c) <=> ~(7 \in c /\ k \in {8, 5, 4, 0}))
                      <=> ((k - 1 \in d) <=> ~(7 \in d /\ k \in {8, 5, 4, 0}))
  BY <1>1
<1>3. 0 - 1 \notin c /\ 0 - 1 \notin d
  BY DEF Between
<1>4. 7 \in c <=> 7 \in d
  BY <1>2, <1>3
<1>5. ASSUME NEW m \in Int PROVE m \in c <=> m \in d
  <2>1. m + 1 \in Int /\ (m + 1) - 1 = m
    OBVIOUS
  <2>2. QED
    BY <1>2, <1>4, <2>1
<1>6. c \subseteq Int /\ d \subseteq Int
  BY DEF Between
<1>7. QED
  BY <1>5, <1>6

\* Two bits that have changed are detected, however far apart they are.
THEOREM PairDetected ==
  ASSUME NEW a \in FrameBits, NEW b \in FrameBits, a < b
  PROVE  ~VerifyCRC({a, b})
<1> SUFFICES ASSUME VerifyCRC({a, b}) PROVE FALSE
  OBVIOUS
<1> DEFINE d == b - a
           S == {n \in Int : Remainder(n) = Remainder(n + d)}
<1>1. a \in Int /\ b \in Int /\ 0 <= a /\ b <= 23 /\ d \in Int /\ 1 <= d /\ a + d = b
  BY BitsOfFrame DEF Between
<1>2. a \in S
  <2>1. LastRound \in Rounds
    BY DEF Rounds, LastRound, Between
  <2>2. {a} \in SUBSET FrameBits /\ {b} \in SUBSET FrameBits /\ SymDiff({a}, {b}) = {a, b}
    BY <1>1 DEF SymDiff
  <2>3. Division[LastRound][{a, b}] = SymDiff(Remainder(a), Remainder(b))
    <3>1. Division[LastRound][SymDiff({a}, {b})]
            = SymDiff(Division[LastRound][{a}], Division[LastRound][{b}])
      BY <2>1, <2>2, DivisionLinear
    <3>2. QED
      BY <2>2, <3>1 DEF Remainder
  <2>4. SymDiff(Remainder(a), Remainder(b)) = {}
    BY <2>3 DEF VerifyCRC
  <2>5. Remainder(a) = Remainder(b)
    BY <2>4 DEF SymDiff
  <2> HIDE DEF d
  <2>6. QED
    BY <1>1, <2>5
<1>3. ASSUME NEW n \in Int, 0 < n, n <= a, n \in S PROVE n - 1 \in S
  <2>1. /\ n - 1 \in Between(0, 22) /\ (n - 1) + d \in Between(0, 22)
        /\ (n - 1) + 1 = n /\ ((n - 1) + d) + 1 = n + d
    BY <1>1, <1>3 DEF Between
  <2> HIDE DEF d
  <2>2. Remainder(n) = Remainder(n + d)
    BY <1>3
  <2> DEFINE x == Remainder(n - 1)
             y == Remainder((n - 1) + d)
  <2>3. Shifted(x) = Remainder(n) /\ x \in SUBSET Between(0, 7)
    BY <2>1, ShiftRemainder
  <2>4. Shifted(y) = Remainder(n + d) /\ y \in SUBSET Between(0, 7)
    BY <2>1, ShiftRemainder
  <2> HIDE DEF x, y
  <2>5. x = y
    BY <2>2, <2>3, <2>4, ShiftedInjective
  <2>6. QED
    BY <2>5 DEF x, y
<1>4. 0 \in S
  <2> HIDE DEF S, d
  <2>1. Between(0, a) \subseteq S
    BY <1>1, <1>2, <1>3, Downward
  <2>2. QED
    BY <1>1, <2>1 DEF Between
<1>5. d \in Between(1, 23) /\ Remainder(d) = {0}
  <2>1. d \in Between(1, 23) /\ 0 + d = d
    BY <1>1 DEF Between
  <2> HIDE DEF d
  <2>2. QED
    BY <1>4, <2>1, RemainderOfFirst
<1>6. QED
  BY <1>5, RemainderOfOthers

\* What the checksum is there for.
Detectable(flips) ==
  IsBurst(flips) \/ \E a, b \in FrameBits : a < b /\ flips = {a, b}

\* Every word arrives as it was sent, and none that has changed by a burst or
\* in two bits is taken.
THEOREM Detected ==
  ASSUME NEW word, NEW flips \in SUBSET FrameBits, Detectable(flips) \/ flips = {}
  PROVE  VerifyCRC(Received(word, flips)) <=> flips = {}
<1>1. VerifyCRC({})
  <2>1. Received(word, {}) = Sent(word)
    BY DEF Received, SymDiff
  <2>2. QED
    BY <2>1, SentAccepted, ChangeDecides
<1>2. ~IsBurst({}) /\ \A a, b \in FrameBits : {a, b} # {}
  BY DEF IsBurst
<1>3. QED
  BY <1>1, <1>2, ChangeDecides, BurstDetected, PairDetected DEF Detectable

-----------------------------------------------------------------------------
(***************************************************************************)
(* The bytes of a frame.                                                   *)
(***************************************************************************)

\* The bits of a word, one by one.
LEMMA BitsIs ==
  ASSUME NEW n \in Nat
  PROVE  /\ 0 \in Bits(n) <=> n % 2 = 1
         /\ 1 \in Bits(n) <=> (n \div 2) % 2 = 1
         /\ 2 \in Bits(n) <=> (n \div 4) % 2 = 1
         /\ 3 \in Bits(n) <=> (n \div 8) % 2 = 1
         /\ 4 \in Bits(n) <=> (n \div 16) % 2 = 1
         /\ 5 \in Bits(n) <=> (n \div 32) % 2 = 1
         /\ 6 \in Bits(n) <=> (n \div 64) % 2 = 1
         /\ 7 \in Bits(n) <=> (n \div 128) % 2 = 1
         /\ 8 \in Bits(n) <=> (n \div 256) % 2 = 1
         /\ 9 \in Bits(n) <=> (n \div 512) % 2 = 1
         /\ 10 \in Bits(n) <=> (n \div 1024) % 2 = 1
         /\ 11 \in Bits(n) <=> (n \div 2048) % 2 = 1
         /\ 12 \in Bits(n) <=> (n \div 4096) % 2 = 1
         /\ 13 \in Bits(n) <=> (n \div 8192) % 2 = 1
         /\ 14 \in Bits(n) <=> (n \div 16384) % 2 = 1
         /\ 15 \in Bits(n) <=> (n \div 32768) % 2 = 1
BY DEF Bits, Weight

\* A byte is the sum of its bits.
LEMMA ByteOfBits ==
  ASSUME NEW n \in Nat, n < 256
  PROVE  n = (n % 2) + 2 * ((n \div 2) % 2) + 4 * ((n \div 4) % 2) + 8 * ((n \div 8) % 2)
             + 16 * ((n \div 16) % 2) + 32 * ((n \div 32) % 2) + 64 * ((n \div 64) % 2)
             + 128 * ((n \div 128) % 2)
BY SMT

\* The same for the high byte and the low byte of a word.
LEMMA WordOfBits ==
  ASSUME NEW n \in Nat, n < 65536
  PROVE  /\ n \div 256 = ((n \div 256) % 2) + 2 * ((n \div 512) % 2) + 4 * ((n \div 1024) % 2) + 8 * ((n \div 2048) % 2)
                         + 16 * ((n \div 4096) % 2) + 32 * ((n \div 8192) % 2)
                         + 64 * ((n \div 16384) % 2) + 128 * ((n \div 32768) % 2)
         /\ n % 256 = (n % 2) + 2 * ((n \div 2) % 2) + 4 * ((n \div 4) % 2) + 8 * ((n \div 8) % 2)
                         + 16 * ((n \div 16) % 2) + 32 * ((n \div 32) % 2) + 64 * ((n \div 64) % 2)
                         + 128 * ((n \div 128) % 2)
         /\ n = 256 * (n \div 256) + (n % 256)
<1> DEFINE h == n \div 256
           l == n % 256
<1>1. h \in Nat /\ h < 256 /\ l \in Nat /\ l < 256 /\ n = 256 * h + l
  BY SMT
<1>2. /\ h % 2 = (n \div 256) % 2 /\ h \div 2 = n \div 512 /\ h \div 4 = n \div 1024
      /\ h \div 8 = n \div 2048 /\ h \div 16 = n \div 4096 /\ h \div 32 = n \div 8192
      /\ h \div 64 = n \div 16384 /\ h \div 128 = n \div 32768
  BY SMT
<1>3. /\ l % 2 = n % 2 /\ (l \div 2) % 2 = (n \div 2) % 2
      /\ (l \div 4) % 2 = (n \div 4) % 2 /\ (l \div 8) % 2 = (n \div 8) % 2
      /\ (l \div 16) % 2 = (n \div 16) % 2 /\ (l \div 32) % 2 = (n \div 32) % 2
      /\ (l \div 64) % 2 = (n \div 64) % 2 /\ (l \div 128) % 2 = (n \div 128) % 2
  <2> HIDE DEF h, l
  <2>1. n % 2 = l % 2
    BY <1>1, SMT
  <2>2. (n \div 2) = 128 * h + (l \div 2) /\ (n \div 4) = 64 * h + (l \div 4)
    BY <1>1, SMT
  <2>3. (n \div 8) = 32 * h + (l \div 8) /\ (n \div 16) = 16 * h + (l \div 16)
    BY <1>1, SMT
  <2>4. (n \div 32) = 8 * h + (l \div 32) /\ (n \div 64) = 4 * h + (l \div 64)
    BY <1>1, SMT
  <2>5. (n \div 128) = 2 * h + (l \div 128)
    BY <1>1, SMT
  <2>6. \A m \in Nat : (2 * (64 * h) + m) % 2 = m % 2 /\ (2 * (32 * h) + m) % 2 = m % 2
                      /\ (2 * (16 * h) + m) % 2 = m % 2 /\ (2 * (8 * h) + m) % 2 = m % 2
                      /\ (2 * (4 * h) + m) % 2 = m % 2 /\ (2 * (2 * h) + m) % 2 = m % 2
                      /\ (2 * h + m) % 2 = m % 2
    BY <1>1, SMT
  <2>7. /\ l \div 2 \in Nat /\ l \div 4 \in Nat /\ l \div 8 \in Nat /\ l \div 16 \in Nat
        /\ l \div 32 \in Nat /\ l \div 64 \in Nat /\ l \div 128 \in Nat
    BY <1>1, SMT
  <2>8. QED
    BY <1>1, <2>1, <2>2, <2>3, <2>4, <2>5, <2>6, <2>7, SMT
<1> HIDE DEF h, l
<1>4. /\ h = (h % 2) + 2 * ((h \div 2) % 2) + 4 * ((h \div 4) % 2) + 8 * ((h \div 8) % 2)
             + 16 * ((h \div 16) % 2) + 32 * ((h \div 32) % 2) + 64 * ((h \div 64) % 2)
             + 128 * ((h \div 128) % 2)
      /\ l = (l % 2) + 2 * ((l \div 2) % 2) + 4 * ((l \div 4) % 2) + 8 * ((l \div 8) % 2)
             + 16 * ((l \div 16) % 2) + 32 * ((l \div 32) % 2) + 64 * ((l \div 64) % 2)
             + 128 * ((l \div 128) % 2)
  BY <1>1, ByteOfBits
<1>5. QED
  BY <1>1, <1>2, <1>3, <1>4, SMT DEF h, l

\* ByteAt is the sum of the bits it names.
LEMMA ByteAtIs ==
  ASSUME NEW b, NEW low,
         NEW w0 \in {0, 1}, NEW w1 \in {0, 1}, NEW w2 \in {0, 1}, NEW w3 \in {0, 1},
         NEW w4 \in {0, 1}, NEW w5 \in {0, 1}, NEW w6 \in {0, 1}, NEW w7 \in {0, 1},
         low + 0 \in b <=> w0 = 1, low + 1 \in b <=> w1 = 1,
         low + 2 \in b <=> w2 = 1, low + 3 \in b <=> w3 = 1,
         low + 4 \in b <=> w4 = 1, low + 5 \in b <=> w5 = 1,
         low + 6 \in b <=> w6 = 1, low + 7 \in b <=> w7 = 1
  PROVE  ByteAt(b, low) = w0 + 2 * w1 + 4 * w2 + 8 * w3 + 16 * w4 + 32 * w5 + 64 * w6 + 128 * w7
<1> DEFINE bit(k) == IF low + k \in b THEN 1 ELSE 0
<1>1. /\ bit(0) = w0 /\ bit(1) = w1 /\ bit(2) = w2 /\ bit(3) = w3
      /\ bit(4) = w4 /\ bit(5) = w5 /\ bit(6) = w6 /\ bit(7) = w7
  OBVIOUS
<1>2. ByteAt(b, low) = bit(0) + 2 * bit(1) + 4 * bit(2) + 8 * bit(3)
        + 16 * bit(4) + 32 * bit(5) + 64 * bit(6) + 128 * bit(7)
  BY DEF ByteAt
<1> HIDE DEF bit
<1>3. QED
  BY <1>1, <1>2

\* The bits of a word in the frame it is sent in.
LEMMA SentBits ==
  ASSUME NEW word, NEW k \in Between(0, 15)
  PROVE  8 + k \in Sent(word) <=> k \in Bits(word)
<1>1. 8 + k \in FrameBits /\ (8 + k) - 8 = k /\ 8 + k \notin Between(0, 7)
  BY BitsOfFrame DEF Between
<1>2. QED
  BY <1>1, SentIs

\* What is sent carries the word, and its low byte.
THEOREM SentCarries ==
  ASSUME NEW word \in Nat, word < 65536
  PROVE  /\ Data(Sent(word)) = word
         /\ ByteAt(Sent(word), 8) = word % 256
<1> DEFINE f == Sent(word)
<1>1. /\ (word \div 2) % 2 \in {0, 1} /\ (word \div 4) % 2 \in {0, 1}
      /\ (word \div 8) % 2 \in {0, 1} /\ (word \div 16) % 2 \in {0, 1}
      /\ (word \div 32) % 2 \in {0, 1} /\ (word \div 64) % 2 \in {0, 1}
      /\ (word \div 128) % 2 \in {0, 1} /\ word % 2 \in {0, 1}
  BY SMT
<1>2. /\ (word \div 256) % 2 \in {0, 1} /\ (word \div 512) % 2 \in {0, 1}
      /\ (word \div 1024) % 2 \in {0, 1} /\ (word \div 2048) % 2 \in {0, 1}
      /\ (word \div 4096) % 2 \in {0, 1} /\ (word \div 8192) % 2 \in {0, 1}
      /\ (word \div 16384) % 2 \in {0, 1} /\ (word \div 32768) % 2 \in {0, 1}
  BY SMT
<1>3. \A k \in Between(0, 15) : 8 + k \in f <=> k \in Bits(word)
  BY SentBits
<1>4. /\ 0 \in Between(0, 15) /\ 1 \in Between(0, 15) /\ 2 \in Between(0, 15)
      /\ 3 \in Between(0, 15) /\ 4 \in Between(0, 15) /\ 5 \in Between(0, 15)
      /\ 6 \in Between(0, 15) /\ 7 \in Between(0, 15) /\ 8 \in Between(0, 15)
      /\ 9 \in Between(0, 15) /\ 10 \in Between(0, 15) /\ 11 \in Between(0, 15)
      /\ 12 \in Between(0, 15) /\ 13 \in Between(0, 15) /\ 14 \in Between(0, 15)
      /\ 15 \in Between(0, 15)
  BY DEF Between
<1> HIDE DEF f
<1>5. ByteAt(f, 8) = word % 256
  <2>1. /\ 8 + 0 \in f <=> word % 2 = 1
        /\ 8 + 1 \in f <=> (word \div 2) % 2 = 1
        /\ 8 + 2 \in f <=> (word \div 4) % 2 = 1
        /\ 8 + 3 \in f <=> (word \div 8) % 2 = 1
        /\ 8 + 4 \in f <=> (word \div 16) % 2 = 1
        /\ 8 + 5 \in f <=> (word \div 32) % 2 = 1
        /\ 8 + 6 \in f <=> (word \div 64) % 2 = 1
        /\ 8 + 7 \in f <=> (word \div 128) % 2 = 1
    BY <1>3, <1>4, BitsIs
  <2>2. ByteAt(f, 8) = (word % 2) + 2 * ((word \div 2) % 2) + 4 * ((word \div 4) % 2)
                         + 8 * ((word \div 8) % 2) + 16 * ((word \div 16) % 2)
                         + 32 * ((word \div 32) % 2) + 64 * ((word \div 64) % 2)
                         + 128 * ((word \div 128) % 2)
    BY <1>1, <2>1, ByteAtIs
  <2>3. word % 256 = (word % 2) + 2 * ((word \div 2) % 2) + 4 * ((word \div 4) % 2)
                         + 8 * ((word \div 8) % 2) + 16 * ((word \div 16) % 2)
                         + 32 * ((word \div 32) % 2) + 64 * ((word \div 64) % 2)
                         + 128 * ((word \div 128) % 2)
    BY WordOfBits, SMTT(30)
  <2>4. QED
    BY <2>2, <2>3, SMTT(20)
<1>6. ByteAt(f, 16) = word \div 256
  <2>1. /\ 16 + 0 = 8 + 8 /\ 16 + 1 = 8 + 9 /\ 16 + 2 = 8 + 10 /\ 16 + 3 = 8 + 11
        /\ 16 + 4 = 8 + 12 /\ 16 + 5 = 8 + 13 /\ 16 + 6 = 8 + 14 /\ 16 + 7 = 8 + 15
    OBVIOUS
  <2>2. /\ 16 + 0 \in f <=> (word \div 256) % 2 = 1
        /\ 16 + 1 \in f <=> (word \div 512) % 2 = 1
        /\ 16 + 2 \in f <=> (word \div 1024) % 2 = 1
        /\ 16 + 3 \in f <=> (word \div 2048) % 2 = 1
        /\ 16 + 4 \in f <=> (word \div 4096) % 2 = 1
        /\ 16 + 5 \in f <=> (word \div 8192) % 2 = 1
        /\ 16 + 6 \in f <=> (word \div 16384) % 2 = 1
        /\ 16 + 7 \in f <=> (word \div 32768) % 2 = 1
    BY <1>3, <1>4, <2>1, BitsIs
  <2>3. QED
    BY <1>2, <2>2, ByteAtIs, WordOfBits
<1>7. QED
  BY <1>5, <1>6, WordOfBits DEF Data, f
=============================================================================
