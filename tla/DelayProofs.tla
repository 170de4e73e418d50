----------------------------- MODULE DelayProofs -----------------------------
(***************************************************************************)
(* Proofs about Delay, for every length of a second, every size of a byte  *)
(* and a word, and every argument.                                         *)
(***************************************************************************)
EXTENDS Delay, TLAPS

USE DelayAssumption

-----------------------------------------------------------------------------
(***************************************************************************)
(* The two bytes of the counter.                                           *)
(***************************************************************************)
LEMMA DivMod ==
  \A n \in Nat : /\ n \div ByteSize \in Nat /\ n % ByteSize \in Nat
                 /\ n % ByteSize < ByteSize
                 /\ n = (n \div ByteSize) * ByteSize + (n % ByteSize)
BY SMT

\* Both bytes taken from the same value give this value.
LEMMA WholeRead ==
  \A n \in Nat : (n \div ByteSize) * ByteSize + (n % ByteSize) = n
BY DivMod

\* The roll-over of the second is a carry: the counter's high byte was not 0.
LEMMA RollCarries == (Second - 1) \div ByteSize # 0 \div ByteSize
<1>1. 0 \div ByteSize = 0
  BY SMT
<1>2. ASSUME (Second - 1) \div ByteSize = 0 PROVE FALSE
  <2>1. Second - 1 \in Nat /\ Second - 1 >= ByteSize
    BY SMT
  <2>2. Second - 1 = 0 * ByteSize + ((Second - 1) % ByteSize) /\ (Second - 1) % ByteSize < ByteSize
    BY <1>2, <2>1, DivMod
  <2>3. QED
    BY <2>1, <2>2, SMT
<1>3. QED
  BY <1>1, <1>2

\* Quotient and remainder are the only ones of their kind.
LEMMA DivUnique ==
  ASSUME NEW k \in Nat, NEW j \in Nat, NEW r \in 0 .. ByteSize - 1, NEW s \in 0 .. ByteSize - 1,
         k * ByteSize + r = j * ByteSize + s
  PROVE  k = j /\ r = s
<1>1. ASSUME NEW a \in Nat, NEW b \in Nat, a < b PROVE a * ByteSize + ByteSize <= b * ByteSize
  <2>1. b - a - 1 \in Nat /\ (b - a - 1) * ByteSize \in Nat
    BY <1>1, SMT
  <2>2. b * ByteSize = a * ByteSize + ByteSize + (b - a - 1) * ByteSize
    BY <1>1, SMT
  <2>3. QED
    BY <2>1, <2>2, SMT
<1>2. k * ByteSize \in Nat /\ j * ByteSize \in Nat
  BY SMT
<1>3. k = j
  <2>1. ~(k < j)
    BY <1>1, <1>2, SMT
  <2>2. ~(j < k)
    BY <1>1, <1>2, SMT
  <2>3. QED
    BY <2>1, <2>2, SMT
<1>4. QED
  BY <1>2, <1>3, SMT

\* The next value has the same high byte, or one higher and the low byte 0.
LEMMA Successor ==
  ASSUME NEW n \in Nat
  PROVE  \/ (n + 1) \div ByteSize = n \div ByteSize
         \/ /\ (n + 1) % ByteSize = 0
            /\ ((n + 1) \div ByteSize) * ByteSize = n + 1
            /\ n % ByteSize = ByteSize - 1
<1> DEFINE k == n \div ByteSize
           r == n % ByteSize
           j == (n + 1) \div ByteSize
           s == (n + 1) % ByteSize
<1>1. /\ k \in Nat /\ r \in Nat /\ r < ByteSize /\ n = k * ByteSize + r
      /\ j \in Nat /\ s \in Nat /\ s < ByteSize /\ n + 1 = j * ByteSize + s
  BY DivMod, SMT
<1>2. k * ByteSize \in Nat /\ (k + 1) * ByteSize = k * ByteSize + ByteSize
  BY <1>1, SMT
<1> HIDE DEF k, r, j, s
<1>3. CASE r + 1 < ByteSize
  <2>1. r + 1 \in 0 .. ByteSize - 1 /\ s \in 0 .. ByteSize - 1
        /\ k * ByteSize + (r + 1) = j * ByteSize + s
    BY <1>1, <1>2, <1>3, SMT
  <2>2. k = j
    BY <1>1, <2>1, DivUnique
  <2>3. QED
    BY <2>2 DEF k, j
<1>4. CASE ~(r + 1 < ByteSize)
  <2>1. r = ByteSize - 1 /\ n + 1 = (k + 1) * ByteSize + 0
    BY <1>1, <1>2, <1>4, SMT
  <2>2. k + 1 \in Nat /\ 0 \in 0 .. ByteSize - 1 /\ s \in 0 .. ByteSize - 1
    BY <1>1, SMT
  <2>3. k + 1 = j /\ s = 0
    BY <1>1, <2>1, <2>2, DivUnique
  <2>4. j * ByteSize = n + 1
    BY <1>1, <2>1, <2>3, SMT
  <2>5. QED
    BY <2>1, <2>3, <2>4 DEF r, j, s
<1>5. QED
  BY <1>3, <1>4

-----------------------------------------------------------------------------
\* What is read is less than two seconds, torn or not.
LEMMA ValueBound ==
  ASSUME TypeOK PROVE ValueRead \in Nat /\ ValueRead < 2 * Second
<1>1. ElapsedMS \in Nat /\ ElapsedMS < Second /\ low \in Nat /\ low < ByteSize
  BY SMT DEF TypeOK
<1>2. High * ByteSize \in Nat /\ High * ByteSize <= ElapsedMS
  <2>1. High \in Nat /\ ElapsedMS % ByteSize \in Nat
        /\ ElapsedMS = High * ByteSize + (ElapsedMS % ByteSize)
    BY <1>1, DivMod DEF High
  <2>2. High * ByteSize \in Nat
    BY <2>1, SMT
  <2>3. QED
    BY <1>1, <2>1, <2>2, SMT
<1>3. QED
  BY <1>1, <1>2, SMT DEF ValueRead

\* The value DelayMS computes fits its word: it wraps below zero.
LEMMA TargetBound ==
  ASSUME TypeOK PROVE Target \in 0 .. WordSize - 1
<1>1. ms \in Nat /\ ms < Second /\ ValueRead \in Nat /\ ValueRead < 2 * Second
  BY ValueBound, SMT DEF TypeOK
<1> HIDE DEF ValueRead
<1>2. (ms + ValueRead - (Second + 1)) % WordSize \in 0 .. WordSize - 1
  BY <1>1, SMT
<1>3. QED
  BY <1>1, <1>2, SMT DEF Target

\* The interrupt leaves the counter below the second.
LEMMA TickToType == ASSUME TypeOK PROVE TickTo \in 0 .. Second - 1
BY SMT DEF TickTo, TypeOK

\* The type invariant is inductive by itself.
LEMMA TypeInv == TypeOK /\ [Next]_vars => TypeOK'
<1> SUFFICES ASSUME TypeOK, [Next]_vars PROVE TypeOK'
  OBVIOUS
<1>0. calm \in 0 .. Calm /\ Calmer => calm' \in 0 .. Calm
  BY SMT DEF Calmer, Calm
<1>1. ASSUME NEW m \in Delays, DelayMS(m) PROVE TypeOK'
  <2>1. m \in 0 .. Second - 1 /\ m \in 0 .. Second
    BY <1>1, SMT DEF DelayMS
  <2>2. QED
    BY <1>0, <1>1, <2>1 DEF DelayMS, TypeOK, LowPc
<1>2. CASE ReadLow
  <2>1. low' \in 0 .. ByteSize - 1
    BY <1>2, DivMod, SMT DEF ReadLow, TypeOK
  <2>2. QED
    BY <1>0, <1>2, <2>1 DEF ReadLow, TypeOK, Follows, LowPc, HighPc
<1>3. CASE Check
  BY <1>0, <1>3 DEF Overflows, Check, TypeOK, LowPc
<1>4. CASE SetWait
  BY <1>0, <1>4, TargetBound DEF SetWait, TypeOK, LowPc
<1>5. CASE Poll
  BY <1>0, <1>5 DEF Poll, TypeOK, LowPc
<1>6. CASE Tick
  <2>1. calm' \in 0 .. Calm /\ due' \in 0 .. Second /\ torn' \in BOOLEAN
    BY <1>6, SMT DEF Tick, TypeOK, Calm
  <2>2. QED
    BY <1>6, <2>1, TickToType DEF Tick, TypeOK
<1>7. CASE UNCHANGED vars
  BY <1>7 DEF vars, TypeOK
<1>8. QED
  BY <1>1, <1>2, <1>3, <1>4, <1>5, <1>6, <1>7 DEF Next, Step

\* Counter and locals start with values of their types.
LEMMA InitType == Init => TypeOK
<1>1. /\ 0 \in 0 .. Second - 1 /\ 0 \in 0 .. WordSize - 1 /\ 0 \in 0 .. ByteSize - 1
      /\ 0 \in 0 .. Second /\ Calm \in 0 .. Calm
  BY SMT DEF Calm
<1>2. QED
  BY <1>1 DEF Init, TypeOK

\* Counter, bytes and the value to wait for keep their widths, whatever the
\* overflow test and the second read have seen.
THEOREM TypeCorrect == Spec => []TypeOK
<1>1. QED
  BY InitType, TypeInv, PTL DEF Spec

-----------------------------------------------------------------------------
(***************************************************************************)
(* What the reads yield, how long it takes from here until one of them     *)
(* yields the value waited for, and that this is long enough.              *)
(***************************************************************************)

\* A read torn by the interrupt that takes the counter to t, the first value
\* with its high byte, yields the low byte from before and the high byte of t.
TornValue(t) == IF t = 0 THEN Short ELSE t + ByteSize - 1
Carries(t)   == t % ByteSize = 0

\* Between its bytes a read has met one interrupt at most.
Yields ==
  pc \in HighPc =>
    \/ ValueRead = ElapsedMS
    \/ /\ calm = 0
       /\ \/ ValueRead = ElapsedMS - 1
          \/ torn /\ Carries(ElapsedMS) /\ ValueRead = TornValue(ElapsedMS)

\* Before the value to wait for is computed all interrupts are to come, but
\* for the one that has met its computation.
BeforeTarget ==
  /\ pc # "idle" => 1 <= ms
  /\ pc \in {"checkLow", "checkHigh", "setLow", "setHigh"} => due <= ms
  /\ pc = "setHigh" /\ calm = 0 => due < ms

\* Then the interrupts that are missing come before the counter is at WaitMS ...
Lost     == IF over THEN 1 ELSE 0
Covered  == ms <= Short \/ ~torn
Distance == IF WaitMS >= ElapsedMS THEN WaitMS - ElapsedMS ELSE WaitMS + Second - ElapsedMS
AfterTarget ==
  pc \in {"pollLow", "pollHigh"} /\ Covered /\ WaitMS < Second => due <= Lost + Distance

\* ... and before a torn read of it yields WaitMS, in a short delay.
Until(t) == IF t > ElapsedMS THEN t - ElapsedMS ELSE t + Second - ElapsedMS
FarFromTorn ==
  pc \in {"pollLow", "pollHigh"} /\ ms <= Short =>
    \A t \in 0 .. Second - 1 :
      Carries(t) /\ WaitMS = TornValue(t) => due <= Lost + Until(t)

\* Once a read has yielded it the time is over.
AtEnd == pc = "pollHigh" /\ Covered /\ WaitMS = ValueRead => due <= Lost

DelayInv == Yields /\ BeforeTarget /\ AfterTarget /\ FarFromTorn /\ AtEnd

\* The interrupt between the bytes of a read, the only one: the value is the
\* one from before, or a torn one.
LEMMA TickYields ==
  ASSUME TypeOK, Yields, Tick, pc \in HighPc
  PROVE  /\ ValueRead = ElapsedMS /\ calm' = 0
         /\ \/ ElapsedMS' = ElapsedMS + 1 /\ ValueRead' = ElapsedMS' - 1
            \/ torn' /\ Carries(ElapsedMS') /\ ValueRead' = TornValue(ElapsedMS')
<1>1. /\ calm = 4 /\ calm' = 0 /\ low' = low /\ ElapsedMS' = TickTo
      /\ torn' = (torn \/ TickTo \div ByteSize # High)
  BY DEF Tick, HighPc, Calm
<1>2. ValueRead = ElapsedMS
  BY <1>1, SMT DEF Yields
<1>3. ElapsedMS \in Nat /\ ElapsedMS < Second /\ low \in Nat /\ low < ByteSize
  BY SMT DEF TypeOK
<1>4. High \in Nat /\ High * ByteSize \in Nat /\ High * ByteSize + low = ElapsedMS
      /\ ElapsedMS % ByteSize \in Nat /\ ElapsedMS % ByteSize < ByteSize
      /\ ElapsedMS = High * ByteSize + (ElapsedMS % ByteSize)
  <2>1. /\ ElapsedMS \div ByteSize \in Nat /\ ElapsedMS % ByteSize \in Nat
        /\ ElapsedMS % ByteSize < ByteSize
        /\ ElapsedMS = (ElapsedMS \div ByteSize) * ByteSize + (ElapsedMS % ByteSize)
    BY <1>3, DivMod
  <2>2. High * ByteSize \in Nat
    BY <2>1, SMT DEF High
  <2>3. QED
    BY <1>2, <2>1, <2>2 DEF High, ValueRead
<1>5. low = ElapsedMS % ByteSize
  BY <1>3, <1>4, SMT
<1>6. ValueRead' = (TickTo \div ByteSize) * ByteSize + low
  BY <1>1 DEF ValueRead, High
<1>7. CASE ElapsedMS + 1 >= Second
  <2>1. ElapsedMS = Second - 1 /\ TickTo = 0
    BY <1>3, <1>7, SMT DEF TickTo
  <2>2. 0 \div ByteSize = 0 /\ 0 % ByteSize = 0
    BY SMT
  <2>3. torn'
    BY <1>1, <2>1, RollCarries DEF High
  <2>4. ValueRead' = low
    BY <1>3, <1>6, <2>1, <2>2, SMT
  <2>5. low = Short
    BY <1>5, <2>1 DEF Short
  <2>6. QED
    BY <1>1, <1>2, <2>1, <2>2, <2>3, <2>4, <2>5 DEF Carries, TornValue
<1>8. CASE ~(ElapsedMS + 1 >= Second)
  <2>1. TickTo = ElapsedMS + 1
    BY <1>8 DEF TickTo
  <2>2. CASE (ElapsedMS + 1) \div ByteSize = ElapsedMS \div ByteSize
    <3>1. ValueRead' = ElapsedMS
      BY <1>4, <1>6, <2>1, <2>2 DEF High
    <3>2. QED
      BY <1>1, <1>2, <1>3, <2>1, <3>1, SMT
  <2>3. CASE /\ (ElapsedMS + 1) % ByteSize = 0
             /\ ((ElapsedMS + 1) \div ByteSize) * ByteSize = ElapsedMS + 1
             /\ ElapsedMS % ByteSize = ByteSize - 1
    <3>1. ValueRead' = ElapsedMS + 1 + (ByteSize - 1)
      BY <1>5, <1>6, <2>1, <2>3
    <3>2. ElapsedMS + 1 # 0 /\ ValueRead' = (ElapsedMS + 1) + ByteSize - 1
      BY <1>3, <3>1, SMT
    <3>3. TickTo \div ByteSize # High
      <4> SUFFICES ASSUME TickTo \div ByteSize = High PROVE FALSE
        OBVIOUS
      <4>1. High * ByteSize = ElapsedMS + 1
        BY <2>1, <2>3
      <4>2. QED
        BY <1>3, <1>4, <4>1, SMT
    <3>4. QED
      BY <1>1, <1>2, <2>1, <2>3, <3>2, <3>3 DEF Carries, TornValue
  <2>4. QED
    BY <1>3, <2>2, <2>3, Successor
<1>9. QED
  BY <1>7, <1>8

\* The interrupt takes the counter towards the value waited for as it takes
\* away from what is still to wait.
LEMMA TickDelay == TypeOK /\ DelayInv /\ Tick => DelayInv'
<1> SUFFICES ASSUME TypeOK, DelayInv, Tick PROVE DelayInv'
  OBVIOUS
<1>1. /\ due \in Nat /\ ms \in Nat /\ ms < Second /\ ElapsedMS \in Nat /\ ElapsedMS < Second
      /\ WaitMS \in Nat /\ Lost \in {0, 1}
  BY SMT DEF TypeOK, Lost
<1>2. /\ due' = IF due > 0 THEN due - 1 ELSE 0
      /\ UNCHANGED <<pc, ms, WaitMS, low, over>> /\ Lost' = Lost
      /\ Covered' => Covered
      /\ ElapsedMS' = IF ElapsedMS + 1 >= Second THEN 0 ELSE ElapsedMS + 1
  BY DEF Tick, TickTo, Covered, Lost
<1>3. Yields'
  BY <1>2, TickYields DEF Yields, DelayInv
<1>4. BeforeTarget'
  BY <1>1, <1>2, SMT DEF DelayInv, BeforeTarget
<1>5. AfterTarget'
  BY <1>1, <1>2, SMT DEF DelayInv, AfterTarget, Distance
<1>6. FarFromTorn'
  <2> SUFFICES ASSUME pc \in {"pollLow", "pollHigh"}, ms <= Short,
                      NEW t \in 0 .. Second - 1, Carries(t), WaitMS = TornValue(t)
               PROVE  due' <= Lost + Until(t)'
    BY <1>2 DEF FarFromTorn, Carries, TornValue, Short
  <2>1. due <= Lost + Until(t)
    BY DEF DelayInv, FarFromTorn
  <2>2. QED
    BY <1>1, <1>2, <2>1, SMT DEF Until
<1>7. AtEnd'
  <2> SUFFICES ASSUME pc = "pollHigh", Covered', WaitMS = ValueRead' PROVE due' <= Lost
    BY <1>2 DEF AtEnd
  <2>1. Yields /\ pc \in HighPc
    BY DEF DelayInv, HighPc
  <2>2. CASE ElapsedMS' = ElapsedMS + 1 /\ ValueRead' = ElapsedMS' - 1
    <3>1. WaitMS = ElapsedMS
      BY <1>1, <2>2, SMT
    <3>2. due <= Lost
      BY <1>1, <1>2, <3>1, SMT DEF DelayInv, AfterTarget, Distance
    <3>3. QED
      BY <1>1, <1>2, <3>2, SMT
  <2>3. CASE torn' /\ Carries(ElapsedMS') /\ ValueRead' = TornValue(ElapsedMS')
    <3>1. ms <= Short
      BY <1>2, <2>3 DEF Covered, Short
    <3>2. ElapsedMS' \in 0 .. Second - 1
      BY <1>1, <1>2, SMT
    <3>3. due <= Lost + Until(ElapsedMS')
      BY <2>3, <3>1, <3>2 DEF DelayInv, FarFromTorn
    <3>4. Until(ElapsedMS') = 1
      BY <1>1, <1>2, SMT DEF Until
    <3>5. QED
      BY <1>1, <1>2, <3>3, <3>4, SMT
  <2>4. QED
    BY <2>1, <2>2, <2>3, TickYields
<1>8. QED
  BY <1>3, <1>4, <1>5, <1>6, <1>7 DEF DelayInv

\* Reading the low byte gives the value of the counter as it is now.
LEMMA ReadDelay == TypeOK /\ DelayInv /\ ReadLow => DelayInv'
<1> SUFFICES ASSUME TypeOK, DelayInv, ReadLow PROVE DelayInv'
  OBVIOUS
<1>1. /\ due \in Nat /\ ElapsedMS \in Nat /\ ElapsedMS < Second /\ WaitMS \in Nat
      /\ Lost \in {0, 1} /\ calm \in Nat
  BY SMT DEF TypeOK, Lost
<1>2. ValueRead' = ElapsedMS /\ calm' # 0
  <2>1. ValueRead' = ElapsedMS
    BY <1>1, WholeRead DEF ValueRead, High, ReadLow
  <2>2. calm' # 0
    BY <1>1, SMT DEF ReadLow, Calmer, Calm
  <2>3. QED
    BY <2>1, <2>2
<1>3. /\ UNCHANGED <<ElapsedMS, ms, over, WaitMS, due, torn>>
      /\ Lost' = Lost /\ (Covered' <=> Covered) /\ Distance' = Distance
      /\ \A t : Until(t)' = Until(t)
  BY DEF ReadLow, Lost, Covered, Distance, Until, Short
<1>4. \/ pc = "checkLow" /\ pc' = "checkHigh"
      \/ pc = "setLow" /\ pc' = "setHigh"
      \/ pc = "pollLow" /\ pc' = "pollHigh"
  BY DEF ReadLow, LowPc, Follows
<1>5. Yields'
  BY <1>2, <1>3 DEF Yields
<1>6. BeforeTarget'
  BY <1>2, <1>3, <1>4 DEF DelayInv, BeforeTarget
<1>7. AfterTarget'
  BY <1>3, <1>4 DEF DelayInv, AfterTarget
<1>8. FarFromTorn'
  BY <1>3, <1>4 DEF DelayInv, FarFromTorn, Carries, TornValue, Short
<1>9. AtEnd'
  <2> SUFFICES ASSUME pc' = "pollHigh", Covered, WaitMS = ElapsedMS PROVE due <= Lost
    BY <1>2, <1>3 DEF AtEnd
  <2>1. due <= Lost + Distance
    BY <1>1, <1>4 DEF DelayInv, AfterTarget
  <2>2. QED
    BY <1>1, <2>1, SMT DEF Distance
<1>10. QED
  BY <1>5, <1>6, <1>7, <1>8, <1>9 DEF DelayInv

\* What can be read for the value to wait for, and what the 16 bits make of
\* it: the sum, less the overflow, and far too much if this is below zero.
LEMMA SetValues ==
  ASSUME TypeOK, DelayInv, SetWait
  PROVE  /\ 1 <= ms /\ due <= ms
         /\ \/ ValueRead = ElapsedMS
            \/ ValueRead = ElapsedMS - 1 /\ due < ms
            \/ torn /\ due < ms /\ Carries(ElapsedMS) /\ ValueRead = TornValue(ElapsedMS)
         /\ ~over => WaitMS' = ms + ValueRead
         /\ over => \/ WaitMS' >= 2 * Second
                    \/ /\ WaitMS' = ms + ValueRead - (Second + 1)
                       /\ Second + 1 <= ms + ValueRead
<1>1. /\ ms \in Nat /\ ms < Second /\ ElapsedMS \in Nat /\ ElapsedMS < Second
      /\ ValueRead \in Nat /\ ValueRead < 2 * Second
  BY ValueBound, SMT DEF TypeOK
<1>2. pc = "setHigh" /\ WaitMS' = Target
  BY DEF SetWait
<1>3. 1 <= ms /\ due <= ms /\ (calm = 0 => due < ms)
  BY <1>2 DEF DelayInv, BeforeTarget
<1>4. \/ ValueRead = ElapsedMS
      \/ ValueRead = ElapsedMS - 1 /\ due < ms
      \/ torn /\ due < ms /\ Carries(ElapsedMS) /\ ValueRead = TornValue(ElapsedMS)
  BY <1>2, <1>3 DEF DelayInv, Yields, HighPc
<1>5. ~over => WaitMS' = ms + ValueRead
  BY <1>2 DEF Target
<1>6. over => \/ WaitMS' >= 2 * Second
              \/ /\ WaitMS' = ms + ValueRead - (Second + 1)
                 /\ Second + 1 <= ms + ValueRead
  <2> SUFFICES ASSUME over
               PROVE  \/ WaitMS' >= 2 * Second
                      \/ /\ WaitMS' = ms + ValueRead - (Second + 1)
                         /\ Second + 1 <= ms + ValueRead
    OBVIOUS
  <2> DEFINE n == ms + ValueRead - (Second + 1)
  <2>1. WaitMS' = n % WordSize
    BY <1>2 DEF Target
  <2>2. CASE Second + 1 <= ms + ValueRead
    <3>1. n \in 0 .. WordSize - 1
      BY <1>1, <2>2, SMT
    <3> HIDE DEF n
    <3>2. n % WordSize = n
      BY <3>1, SMT
    <3>3. QED
      BY <2>1, <2>2, <3>2 DEF n
  <2>3. CASE ~(Second + 1 <= ms + ValueRead)
    <3>1. n + WordSize \in 2 * Second .. WordSize - 1 /\ n \in Int
      BY <1>1, <2>3, SMT
    <3> HIDE DEF n
    <3>2. n % WordSize = n + WordSize
      BY <3>1, SMT
    <3>3. QED
      BY <2>1, <3>1, <3>2, SMT
  <2>4. QED
    BY <2>2, <2>3
<1>7. QED
  BY <1>3, <1>4, <1>5, <1>6

\* Where the counter's high bytes begin: never below a byte, but at 0; and
\* the last byte before the roll-over is at most full.
LEMMA Bytes ==
  /\ \A t \in Nat : Carries(t) /\ t # 0 => ByteSize <= t
  /\ Short \in Nat /\ Short < ByteSize /\ ByteSize + Short + 1 <= Second
<1>1. ASSUME NEW t \in Nat, Carries(t), t # 0 PROVE ByteSize <= t
  <2>1. t < ByteSize => t % ByteSize = t
    BY SMT
  <2>2. QED
    BY <1>1, <2>1, SMT DEF Carries
<1>2. Short \in Nat /\ Short < ByteSize
  BY DivMod, SMT DEF Short
<1>3. ByteSize + Short + 1 <= Second
  <2> DEFINE q == (Second - 1) \div ByteSize
  <2>1. q \in Nat /\ Second - 1 = q * ByteSize + Short
    BY DivMod, SMT DEF Short
  <2>2. q # 0
    BY RollCarries, SMT
  <2> HIDE DEF q
  <2>3. q - 1 \in Nat /\ (q - 1) * ByteSize \in Nat /\ q * ByteSize = (q - 1) * ByteSize + ByteSize
    BY <2>1, <2>2, SMT
  <2>4. QED
    BY <1>2, <2>1, <2>3, SMT
<1>4. QED
  BY <1>1, <1>2, <1>3

\* The value computed is far enough away, from the counter and from what a
\* torn read of it can yield.
LEMMA SetDelay == TypeOK /\ DelayInv /\ SetWait => DelayInv'
<1> SUFFICES ASSUME TypeOK, DelayInv, SetWait PROVE DelayInv'
  OBVIOUS
<1> DEFINE v == ValueRead
           R == Short
           E == ElapsedMS
           W == WaitMS'
<1>1. /\ due \in Nat /\ ms \in Nat /\ ms < Second /\ E \in Nat /\ E < Second /\ v \in Nat
      /\ R \in Nat /\ R < ByteSize /\ ByteSize + R + 1 <= Second
  BY ValueBound, Bytes, SMT DEF TypeOK
<1>2. pc' = "pollLow" /\ UNCHANGED <<ElapsedMS, ms, over, due, torn>>
  BY DEF SetWait
<1>3. Lost' = IF over THEN 1 ELSE 0
  BY <1>2 DEF Lost
<1>4. /\ 1 <= ms /\ due <= ms
      /\ ~over => W = ms + v
      /\ over => W >= 2 * Second \/ (W = ms + v - (Second + 1) /\ Second + 1 <= ms + v)
  BY SetValues
<1>5. \/ v = E
      \/ v = E - 1 /\ due < ms
      \/ torn /\ due < ms /\ E # 0 /\ ByteSize <= E /\ v = E + ByteSize - 1
      \/ torn /\ due < ms /\ E = 0 /\ v = R
  BY <1>1, SetValues, Bytes DEF TornValue
<1> HIDE DEF v, R, E, W
<1>6. AfterTarget'
  <2> SUFFICES ASSUME Covered', W < Second PROVE due <= Lost' + Distance'
    BY <1>2 DEF AfterTarget, W
  <2>1. torn => ms <= R
    BY <1>2 DEF Covered, R, Short
  <2>2. Distance' = IF W >= E THEN W - E ELSE W + Second - E
    BY <1>2 DEF Distance, W, E
  <2>3. W \in Nat
    BY <1>1, <1>4, TargetBound, SMT DEF SetWait, W
  <2>4. CASE ~over
    BY <1>1, <1>3, <1>4, <1>5, <2>1, <2>2, <2>4, SMT
  <2>5. CASE over
    BY <1>1, <1>3, <1>4, <1>5, <2>1, <2>2, <2>3, <2>5, SMT
  <2>6. QED
    BY <2>4, <2>5
<1>7. FarFromTorn'
  <2> SUFFICES ASSUME ms <= R, NEW t \in 0 .. Second - 1, Carries(t), W = TornValue(t)
               PROVE  due <= Lost' + Until(t)'
    BY <1>2 DEF FarFromTorn, Carries, TornValue, R, Short, W
  <2>1. Until(t)' = IF t > E THEN t - E ELSE t + Second - E
    BY <1>2 DEF Until, E
  <2>2. CASE t = 0
    <3>1. W = R /\ Until(t)' = Second - E
      BY <1>1, <2>1, <2>2, SMT DEF TornValue, R
    <3>2. CASE ~over
      BY <1>1, <1>3, <1>4, <1>5, <3>1, <3>2, SMT
    <3>3. CASE over
      BY <1>1, <1>3, <1>4, <1>5, <3>1, <3>3, SMT
    <3>4. QED
      BY <3>2, <3>3
  <2>3. CASE t # 0
    <3>1. W = t + ByteSize - 1 /\ ByteSize <= t /\ t \in Nat /\ t < Second
      BY <2>3, Bytes, SMT DEF TornValue
    <3>2. CASE ~over
      BY <1>1, <1>3, <1>4, <1>5, <2>1, <3>1, <3>2, SMT
    <3>3. CASE over
      BY <1>1, <1>3, <1>4, <1>5, <2>1, <3>1, <3>3, SMT
    <3>4. QED
      BY <3>2, <3>3
  <2>4. QED
    BY <2>2, <2>3
<1>8. QED
  BY <1>2, <1>4, <1>6, <1>7 DEF DelayInv, Yields, BeforeTarget, AtEnd, HighPc

\* The remaining steps change neither counter nor time to wait.
LEMMA OthersDelay ==
  TypeOK /\ DelayInv /\ ((\E m \in Delays : DelayMS(m)) \/ Check \/ Poll \/ UNCHANGED vars)
    => DelayInv'
<1> SUFFICES ASSUME TypeOK, DelayInv,
                    (\E m \in Delays : DelayMS(m)) \/ Check \/ Poll \/ UNCHANGED vars
             PROVE  DelayInv'
  OBVIOUS
<1>1. ASSUME NEW m \in Delays, DelayMS(m) PROVE DelayInv'
  <2>1. pc' = "checkLow" /\ due' <= ms' /\ 1 <= ms'
    BY <1>1, SMT DEF DelayMS
  <2>2. QED
    BY <2>1 DEF DelayInv, Yields, BeforeTarget, AfterTarget, FarFromTorn, AtEnd, HighPc
<1>2. CASE Check
  <2>1. pc = "checkHigh" /\ pc' = "setLow" /\ due' = due /\ ms' = ms
    BY <1>2 DEF Check
  <2>2. QED
    BY <2>1 DEF DelayInv, Yields, BeforeTarget, AfterTarget, FarFromTorn, AtEnd, HighPc
<1>3. CASE Poll
  <2>1. /\ pc = "pollHigh" /\ pc' \in {"idle", "pollLow"}
        /\ UNCHANGED <<ElapsedMS, ms, over, WaitMS, due, torn>>
    BY <1>3 DEF Poll
  <2>2. /\ Lost' = Lost /\ (Covered' <=> Covered) /\ Distance' = Distance
        /\ \A t : Until(t)' = Until(t)
    BY <2>1 DEF Lost, Covered, Distance, Until, Short
  <2>3. QED
    BY <2>1, <2>2 DEF DelayInv, Yields, BeforeTarget, AfterTarget, FarFromTorn, AtEnd, HighPc,
                      Carries, TornValue, Short
<1>4. CASE UNCHANGED vars
  <2>1. /\ Lost' = Lost /\ (Covered' <=> Covered) /\ Distance' = Distance
        /\ \A t : Until(t)' = Until(t)
        /\ ValueRead' = ValueRead /\ UNCHANGED <<ElapsedMS, pc, ms, WaitMS, calm, due, torn>>
    BY <1>4 DEF vars, Lost, Covered, Distance, Until, Short, ValueRead, High
  <2>2. QED
    BY <2>1 DEF DelayInv, Yields, BeforeTarget, AfterTarget, FarFromTorn, AtEnd,
                Carries, TornValue, Short
<1>5. QED
  BY <1>1, <1>2, <1>3, <1>4

\* DelayMS never returns before the last of its interrupts, but for the one
\* it loses across the roll-over of the second, whatever the counter and the
\* interrupt do; a delay longer than Short needs that no carry tears a read.
THEOREM LongEnough == Spec => NotEarly
<1>1. Init => TypeOK /\ DelayInv
  BY InitType DEF Init, DelayInv, Yields, BeforeTarget, AfterTarget, FarFromTorn, AtEnd, HighPc
<1>2. TypeOK /\ DelayInv /\ [Next]_vars => (TypeOK /\ DelayInv)'
  BY TypeInv, TickDelay, ReadDelay, SetDelay, OthersDelay DEF Next, Step
<1>3. ASSUME TypeOK, DelayInv, Next PROVE WaitsLongEnough
  <2> SUFFICES ASSUME Returns, ms <= Short \/ ~torn PROVE due <= IF over THEN 1 ELSE 0
    BY DEF WaitsLongEnough
  <2>1. Poll
    BY <1>3 DEF Next, Step, DelayMS, ReadLow, Check, SetWait, Tick, Returns, LowPc
  <2>2. pc = "pollHigh" /\ WaitMS = ValueRead
    BY <2>1 DEF Poll, Returns
  <2>3. QED
    BY <1>3, <2>2 DEF DelayInv, AtEnd, Covered, Lost
<1>4. TypeOK /\ DelayInv /\ [Next]_vars => [WaitsLongEnough]_vars
  BY <1>3
<1>5. QED
  BY <1>1, <1>2, <1>4, PTL DEF Spec, NotEarly

-----------------------------------------------------------------------------
(***************************************************************************)
(* Which delays end.                                                       *)
(***************************************************************************)

\* As long as no interrupt has come since the first byte was read for the
\* overflow test, what has been read is the counter as it stands.
StandsStill ==
  /\ pc = "checkHigh" /\ calm >= 1 => ValueRead = ElapsedMS
  /\ pc = "setLow" /\ calm >= 2 => (over <=> ms + ElapsedMS > Second)
  /\ pc = "setHigh" /\ calm >= 3 =>
       ValueRead = ElapsedMS /\ (over <=> ms + ElapsedMS > Second)

\* Every step keeps it: only one of the main thread makes the counter calmer.
LEMMA StandsStillInv == TypeOK /\ StandsStill /\ [Next]_vars => StandsStill'
<1> SUFFICES ASSUME TypeOK, StandsStill, [Next]_vars PROVE StandsStill'
  OBVIOUS
<1>0. calm \in Nat /\ (Calmer => calm' \in Nat /\ calm' <= calm + 1)
  BY SMT DEF TypeOK, Calmer, Calm
<1>1. CASE (\E m \in Delays : DelayMS(m)) \/ SetWait \/ Poll
  <2>1. pc' \in {"checkLow", "pollLow", "idle"}
    BY <1>1 DEF DelayMS, SetWait, Poll
  <2>2. QED
    BY <2>1 DEF StandsStill
<1>2. CASE ReadLow
  <2>1. /\ pc' = Follows[pc] /\ low' = ElapsedMS % ByteSize
        /\ ElapsedMS' = ElapsedMS /\ ms' = ms /\ over' = over /\ Calmer
    BY <1>2 DEF ReadLow
  <2>2. /\ pc' \in {"checkHigh", "setHigh", "pollHigh"}
        /\ pc' = "setHigh" => pc = "setLow"
    BY <1>2, <2>1 DEF ReadLow, LowPc, Follows
  <2>3. ValueRead' = ElapsedMS'
    BY <2>1, WholeRead DEF ValueRead, High, TypeOK
  <2>4. calm' >= 3 => calm >= 2
    BY <1>0, <2>1, SMT
  <2>5. QED
    BY <2>1, <2>2, <2>3, <2>4 DEF StandsStill
<1>3. CASE Check
  <2>1. /\ pc = "checkHigh" /\ pc' = "setLow" /\ ElapsedMS' = ElapsedMS /\ ms' = ms /\ Calmer
        /\ over' <=> ms + ValueRead > Second
    BY <1>3 DEF Check, Overflows
  <2>2. calm' >= 2 => calm >= 1
    BY <1>0, <2>1, SMT
  <2>3. QED
    BY <2>1, <2>2 DEF StandsStill
<1>4. CASE Tick
  <2>1. ~(calm' >= 1) /\ ~(calm' >= 2) /\ ~(calm' >= 3)
    BY <1>4, SMT DEF Tick
  <2>2. QED
    BY <2>1 DEF StandsStill
<1>5. CASE UNCHANGED vars
  BY <1>5 DEF vars, StandsStill, ValueRead, High
<1>6. QED
  BY <1>1, <1>2, <1>3, <1>4, <1>5 DEF Next, Step

\* Without an interrupt while it computes the value to wait for, DelayMS
\* waits for one that the counter takes if and only if the delay does not
\* end exactly with the second.
THEOREM TakenOrNot == Spec => TargetIsTaken
<1>1. Init => TypeOK /\ StandsStill
  BY InitType DEF Init, StandsStill
<1>2. TypeOK /\ StandsStill /\ [Next]_vars => (TypeOK /\ StandsStill)'
  BY TypeInv, StandsStillInv
<1>3. ASSUME TypeOK, StandsStill, Next PROVE TargetTaken
  <2> SUFFICES ASSUME SetUndisturbed PROVE WaitMS' < Second <=> ms + ElapsedMS # Second
    BY DEF TargetTaken
  <2>1. SetWait
    BY <1>3 DEF Next, Step, DelayMS, ReadLow, Check, Poll, Tick, SetUndisturbed, LowPc, Follows
  <2>2. WaitMS' = Target /\ ValueRead = ElapsedMS /\ (over <=> ms + ElapsedMS > Second)
    BY <1>3, <2>1 DEF SetWait, SetUndisturbed, StandsStill
  <2>3. ms \in Nat /\ ElapsedMS \in Nat /\ ms < Second /\ ElapsedMS < Second /\ Second \in Nat
    BY <1>3, DelayAssumption, SMT DEF TypeOK
  <2>4. CASE over
    <3>1. WaitMS' = (ms + ElapsedMS - (Second + 1)) % WordSize /\ ms + ElapsedMS > Second
      BY <2>2, <2>4 DEF Target
    <3> DEFINE n == ms + ElapsedMS - (Second + 1)
    <3>2. n \in Nat /\ n < Second /\ n < WordSize /\ WordSize \in Nat
      BY <2>3, <3>1, DelayAssumption, SMT
    <3>3. n % WordSize = n
      <4> HIDE DEF n
      <4> QED
        BY <3>2, SMT
    <3>4. QED
      BY <2>3, <3>1, <3>2, <3>3, SMT
  <2>5. CASE ~over
    <3>1. WaitMS' = ms + ElapsedMS /\ ms + ElapsedMS <= Second
      BY <2>2, <2>3, <2>5, SMT DEF Target
    <3>2. QED
      BY <2>3, <3>1, SMT
  <2>6. QED
    BY <2>4, <2>5
<1>4. TypeOK /\ StandsStill /\ [Next]_vars => [TargetTaken]_vars
  BY <1>3
<1>5. QED
  BY <1>1, <1>2, <1>4, PTL DEF Spec, TargetIsTaken
=============================================================================
