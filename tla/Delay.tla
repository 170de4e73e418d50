-------------------------------- MODULE Delay --------------------------------
(***************************************************************************)
(* DelayMS of Board/Hardware.c against the timer interrupt that counts     *)
(* ElapsedMS.                                                              *)
(*                                                                         *)
(* The controller reads the two bytes of ElapsedMS one after the other,    *)
(* and nothing keeps the interrupt from coming in between.  DelayMS reads  *)
(* the counter once to look for the overflow, once to compute the value to *)
(* wait for, and then in every round of its loop.                          *)
(***************************************************************************)
EXTENDS Integers

CONSTANTS
  Second,      \* the counter's period, 1000
  ByteSize,    \* values of a byte, 256
  WordSize,    \* values of a uint16_t, 65536
  Delays       \* arguments of the calls

ASSUME DelayAssumption ==
  /\ Second \in Nat
  /\ ByteSize \in Nat
  /\ WordSize \in Nat
  /\ 1 < ByteSize /\ ByteSize < Second
  /\ 3 * Second < WordSize
  /\ Delays \subseteq Nat

VARIABLES
  ElapsedMS,   \* volatile counter, advanced by TIMER0_COMPA_vect
  pc,          \* where DelayMS is
  ms,          \* its argument
  over,        \* the outcome of its overflow test
  WaitMS,      \* the value it waits for
  low,         \* the low byte of the counter, read
  calm,        \* steps of the main thread since the interrupt, up to Calm
  due,         \* interrupts to come until there were ms of them (history)
  torn         \* a carry fell between the bytes of a read of this call (history)

vars == <<ElapsedMS, pc, ms, over, WaitMS, low, calm, due, torn>>

\* The two instructions of a read; two reads fit between two interrupts.
LowPc  == {"checkLow", "setLow", "pollLow"}
HighPc == {"checkHigh", "setHigh", "pollHigh"}
Calm   == 4

TypeOK ==
  /\ ElapsedMS \in 0 .. Second - 1
  /\ pc \in LowPc \cup HighPc \cup {"idle"}
  /\ ms \in 0 .. Second - 1
  /\ over \in BOOLEAN
  /\ WaitMS \in 0 .. WordSize - 1
  /\ low \in 0 .. ByteSize - 1
  /\ calm \in 0 .. Calm
  /\ due \in 0 .. Second
  /\ torn \in BOOLEAN

Init ==
  /\ ElapsedMS = 0
  /\ pc = "idle"
  /\ ms = 0
  /\ over = FALSE
  /\ WaitMS = 0
  /\ low = 0
  /\ calm = Calm
  /\ due = 0
  /\ torn = FALSE

High == ElapsedMS \div ByteSize

\* What a read yields whose high byte is read now.
ValueRead == High * ByteSize + low

Calmer == calm' = IF calm < Calm THEN calm + 1 ELSE calm

-----------------------------------------------------------------------------
\* A delay of zero or of a second and more returns at once.
DelayMS(m) ==
  /\ pc = "idle"
  /\ m # 0 /\ m < Second
  /\ ms' = m
  /\ due' = m
  /\ torn' = FALSE
  /\ pc' = "checkLow"
  /\ Calmer
  /\ UNCHANGED <<ElapsedMS, over, WaitMS, low>>

\* The low byte of any of the three reads.
Follows == [checkLow |-> "checkHigh", setLow |-> "setHigh", pollLow |-> "pollHigh"]
ReadLow ==
  /\ pc \in LowPc
  /\ low' = ElapsedMS % ByteSize
  /\ pc' = Follows[pc]
  /\ Calmer
  /\ UNCHANGED <<ElapsedMS, ms, over, WaitMS, due, torn>>

\* Look for millisecond overflow.  (The variant looks one too far.)
OverflowsLate == ms + ValueRead > Second + 1
Overflows     == ms + ValueRead > Second

Check ==
  /\ pc = "checkHigh"
  /\ over' = Overflows
  /\ pc' = "setLow"
  /\ Calmer
  /\ UNCHANGED <<ElapsedMS, ms, WaitMS, low, due, torn>>

\* The value to wait for.  (The variants: without the 16-bit arithmetic, and
\* with a second one too long.)
TargetSigned ==
  IF over THEN ms + ValueRead - (Second + 1) ELSE ms + ValueRead
TargetEarly ==
  IF over THEN (ms + ValueRead - (Second + 2)) % WordSize ELSE ms + ValueRead
Target ==
  IF over THEN (ms + ValueRead - (Second + 1)) % WordSize ELSE ms + ValueRead

SetWait ==
  /\ pc = "setHigh"
  /\ WaitMS' = Target
  /\ pc' = "pollLow"
  /\ Calmer
  /\ UNCHANGED <<ElapsedMS, ms, over, low, due, torn>>

Poll ==
  /\ pc = "pollHigh"
  /\ pc' = IF WaitMS = ValueRead THEN "idle" ELSE "pollLow"
  /\ Calmer
  /\ UNCHANGED <<ElapsedMS, ms, over, WaitMS, low, due, torn>>

\* The counter after the interrupt (and a variant that starts over early).
TickToEarly == IF ElapsedMS + 1 >= Second - 1 THEN 0 ELSE ElapsedMS + 1
TickTo == IF ElapsedMS + 1 >= Second THEN 0 ELSE ElapsedMS + 1

\* The interrupt.  While DelayMS runs, a millisecond lasts at least two reads.
Tick ==
  /\ pc # "idle" => calm = Calm
  /\ ElapsedMS' = TickTo
  /\ calm' = 0
  /\ due' = IF due > 0 THEN due - 1 ELSE 0
  /\ torn' = (torn \/ (pc \in HighPc /\ TickTo \div ByteSize # High))
  /\ UNCHANGED <<pc, ms, over, WaitMS, low>>

Step == ReadLow \/ Check \/ SetWait \/ Poll

Next == (\E m \in Delays : DelayMS(m)) \/ Step \/ Tick

Spec == Init /\ [][Next]_vars

\* The main thread runs between interrupts, and the timer does not stop.
FairSpec == Spec /\ WF_vars(Step) /\ WF_vars(Tick)

-----------------------------------------------------------------------------
\* DelayMS(m) returns after at least m interrupts of the timer, m - 1 when it
\* has seen the second overflow ("- 1001", Hardware.c:149): whenever the
\* interrupt comes and wherever the counter stands.  For a delay of up to
\* Short (231 ms on the device) this includes interrupts that carry between
\* the two bytes of a read; a longer one is covered while no carry tears a
\* read.  The first interrupt may come at once, so that m of them are only
\* sure to last more than m - 1 milliseconds.
Short == (Second - 1) % ByteSize
Returns == pc = "pollHigh" /\ pc' = "idle"
WaitsLongEnough ==
  Returns /\ (ms <= Short \/ ~torn) => due <= IF over THEN 1 ELSE 0
NotEarly == [][WaitsLongEnough]_vars

\* A value that the counter takes is met: the loop ends.
Reachable == pc = "pollLow" /\ WaitMS < Second
ReachableWaitEnds == Reachable ~> pc = "idle"

\* When the value is one that the counter takes: if no interrupt comes from
\* the first byte read for the overflow test to the last one read for the
\* value, test and computation agree, and the counter takes the value unless
\* the delay ends exactly with the second.
SetUndisturbed == pc = "setHigh" /\ pc' = "pollLow" /\ calm >= 3
TargetTaken == SetUndisturbed => (WaitMS' < Second <=> ms + ElapsedMS # Second)
TargetIsTaken == [][TargetTaken]_vars

\* "Look for milisecond overflow" (Hardware.c:146): the value waited for is
\* one that the counter takes, so that every delay comes to its end.
DelayEnds == pc # "idle" ~> pc = "idle"
=============================================================================
