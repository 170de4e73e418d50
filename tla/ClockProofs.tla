----------------------------- MODULE ClockProofs -----------------------------
(***************************************************************************)
(* Proofs about Clock, for every length of a minute, an hour and a day,    *)
(* every size of the year's bytes and every setting.                       *)
(***************************************************************************)
EXTENDS Clock, TLAPS

USE ClockAssumption

-----------------------------------------------------------------------------
(***************************************************************************)
(* The interrupt's roll-over, unit by unit.                                *)
(***************************************************************************)
LEMMA DaysBound == \A month : DaysPerMonth(month) \in {0, 28, 30, 31}
BY DEF DaysPerMonth

\* The interrupt takes a month to have one of these numbers of days.
LEMMA TickDaysBound == \A t : TickDays(t) \in {0, 28, 29, 30, 31}
BY DaysBound DEF TickDays

\* The increment of the two-byte year keeps the width of the bytes.
LEMMA NextYearType == \A t \in Time : NextYear(t) \in Time
<1> SUFFICES ASSUME NEW t \in Time PROVE NextYear(t) \in Time
  OBVIOUS
<1> DEFINE high == (t.yearHigh + 1) % ByteSize
<1>1. high \in 0 .. ByteSize - 1
  BY SMT DEF Time
<1> HIDE DEF high
<1>2. CASE t.yearLow + 1 = ByteSize
  <2>1. NextYear(t) = [t EXCEPT !.yearLow = 0, !.yearHigh = high]
    BY <1>2 DEF NextYear, high
  <2>2. [t EXCEPT !.yearLow = 0] \in Time
    BY SMT DEF Time
  <2>3. \A s \in Time : [s EXCEPT !.yearHigh = high] \in Time
    BY <1>1 DEF Time
  <2>4. QED
    BY <2>1, <2>2, <2>3
<1>3. CASE t.yearLow + 1 # ByteSize
  BY <1>3, SMT DEF NextYear, Time
<1>4. QED
  BY <1>2, <1>3

\* The roll-over of a month keeps the widths of all fields.
LEMMA NextMonthType == \A t \in Time : NextMonth(t) \in Time
<1> SUFFICES ASSUME NEW t \in Time PROVE NextMonth(t) \in Time
  OBVIOUS
<1>1. CASE t.month + 1 > 12
  <2>1. [t EXCEPT !.month = 0] \in Time
    BY DEF Time
  <2>2. QED
    BY <1>1, <2>1, NextYearType DEF NextMonth
<1>2. CASE ~(t.month + 1 > 12)
  BY <1>2, SMT DEF NextMonth, Time
<1>3. QED
  BY <1>1, <1>2

\* The roll-over of a day, and of the month it may end, keeps them.
LEMMA NextDayType == \A t \in Time : NextDay(t) \in Time
<1> SUFFICES ASSUME NEW t \in Time PROVE NextDay(t) \in Time
  OBVIOUS
<1>1. CASE t.day + 1 > TickDays(t)
  <2>1. [t EXCEPT !.day = 0] \in Time
    BY DEF Time
  <2>2. QED
    BY <1>1, <2>1, NextMonthType DEF NextDay
<1>2. CASE ~(t.day + 1 > TickDays(t))
  BY <1>2, TickDaysBound, SMT DEF NextDay, Time
<1>3. QED
  BY <1>1, <1>2

\* The roll-over of an hour keeps them.
LEMMA NextHourType == \A t \in Time : NextHour(t) \in Time
<1> SUFFICES ASSUME NEW t \in Time PROVE NextHour(t) \in Time
  OBVIOUS
<1>1. [t EXCEPT !.hour = 0] \in Time
  BY DEF Time
<1>2. QED
  BY <1>1, NextDayType, SMT DEF NextHour, Time

\* The roll-over of a minute keeps them.
LEMMA NextMinuteType == \A t \in Time : NextMinute(t) \in Time
<1> SUFFICES ASSUME NEW t \in Time PROVE NextMinute(t) \in Time
  OBVIOUS
<1>1. [t EXCEPT !.min = 0] \in Time
  BY DEF Time
<1>2. QED
  BY <1>1, NextHourType, SMT DEF NextMinute, Time

\* The roll-over of a second, that is the whole interrupt, keeps them.
LEMMA NextSecondType == \A t \in Time : NextSecond(t) \in Time
<1> SUFFICES ASSUME NEW t \in Time PROVE NextSecond(t) \in Time
  OBVIOUS
<1>1. [t EXCEPT !.sec = 0] \in Time
  BY DEF Time
<1>2. QED
  BY <1>1, NextMinuteType, SMT DEF NextSecond, Time

-----------------------------------------------------------------------------
(***************************************************************************)
(* Earlier, one unit at a time.                                            *)
(***************************************************************************)
SameYear(t, u)  == t.yearHigh = u.yearHigh /\ t.yearLow = u.yearLow
LaterYear(t, u) == t.yearHigh < u.yearHigh \/ (t.yearHigh = u.yearHigh /\ t.yearLow < u.yearLow)

\* Whether a time is earlier is decided by the largest unit that differs.
LEMMA EarlierUnits ==
  \A t, u :
    Earlier(t, u) <=>
      \/ LaterYear(t, u)
      \/ SameYear(t, u) /\ t.month < u.month
      \/ SameYear(t, u) /\ t.month = u.month /\ t.day < u.day
      \/ SameYear(t, u) /\ t.month = u.month /\ t.day = u.day /\ t.hour < u.hour
      \/ /\ SameYear(t, u) /\ t.month = u.month /\ t.day = u.day /\ t.hour = u.hour
         /\ t.min < u.min
      \/ /\ SameYear(t, u) /\ t.month = u.month /\ t.day = u.day /\ t.hour = u.hour
         /\ t.min = u.min /\ t.sec < u.sec
BY SMT DEF Earlier, Significance, SameYear, LaterYear

\* What a roll-over makes of the year: nothing, or the next one, of which a
\* high byte that changes comes with a low one that starts again.
YearTo(t, u) ==
  \/ SameYear(t, u)
  \/ t.yearHigh = u.yearHigh /\ t.yearLow < u.yearLow
  \/ t.yearHigh < u.yearHigh /\ t.yearLow = ByteSize - 1 /\ u.yearLow = 0
  \/ Overflow(t, u)

\* The next year is a later one, or the year has overflowed.
LEMMA NextYearLater ==
  ASSUME NEW t \in Time
  PROVE  /\ YearTo(t, NextYear(t))
         /\ LaterYear(t, NextYear(t)) \/ Overflow(t, NextYear(t))
<1>1. CASE t.yearLow + 1 = ByteSize /\ t.yearHigh = ByteSize - 1
  <2>1. (t.yearHigh + 1) % ByteSize = 0
    BY <1>1, SMT DEF Time
  <2>2. NextYear(t).yearHigh = 0 /\ NextYear(t).yearLow = 0
    BY <1>1, <2>1 DEF NextYear, Time
  <2>3. Overflow(t, NextYear(t))
    BY <1>1, <2>2, SMT DEF Overflow, Time
  <2>4. QED
    BY <2>3 DEF YearTo
<1>2. CASE t.yearLow + 1 = ByteSize /\ t.yearHigh # ByteSize - 1
  <2>1. t.yearHigh + 1 \in 0 .. ByteSize - 1
    BY <1>2, SMT DEF Time
  <2>2. (t.yearHigh + 1) % ByteSize = t.yearHigh + 1
    BY <2>1, SMT
  <2>3. NextYear(t).yearHigh = t.yearHigh + 1 /\ NextYear(t).yearLow = 0
    BY <1>2, <2>2 DEF NextYear, Time
  <2>4. QED
    BY <1>2, <2>3, SMT DEF Time, YearTo, LaterYear
<1>3. CASE t.yearLow + 1 # ByteSize
  <2>1. NextYear(t).yearHigh = t.yearHigh /\ NextYear(t).yearLow = t.yearLow + 1
    BY <1>3 DEF NextYear, Time
  <2>2. QED
    BY <2>1, SMT DEF Time, YearTo, LaterYear
<1>4. QED
  BY <1>1, <1>2, <1>3

\* The other units do not change.
LEMMA NextMonthLater ==
  ASSUME NEW t \in Time
  PROVE  LET u == NextMonth(t)
         IN  /\ YearTo(t, u)
             /\ \/ Overflow(t, u)
                \/ LaterYear(t, u)
                \/ SameYear(t, u) /\ u.month > t.month
<1>1. CASE t.month + 1 > 12
  <2> DEFINE s == [t EXCEPT !.month = 0]
  <2>1. s \in Time /\ SameYear(s, t)
    BY DEF Time, SameYear
  <2>2. NextMonth(t) = NextYear(s)
    BY <1>1 DEF NextMonth
  <2> HIDE DEF s
  <2>3. QED
    BY <2>1, <2>2, NextYearLater DEF Overflow, YearTo, LaterYear, SameYear
<1>2. CASE ~(t.month + 1 > 12)
  BY <1>2, SMT DEF NextMonth, Time, YearTo, SameYear
<1>3. QED
  BY <1>1, <1>2

\* A unit that overflows hands on to the next; nothing above it goes back.
LEMMA NextDayLater ==
  ASSUME NEW t \in Time
  PROVE  LET u == NextDay(t)
         IN  /\ YearTo(t, u)
             /\ \/ Overflow(t, u)
                \/ LaterYear(t, u)
                \/ SameYear(t, u) /\ u.month > t.month
                \/ SameYear(t, u) /\ u.month = t.month /\ u.day > t.day
<1>1. CASE t.day + 1 > TickDays(t)
  <2> DEFINE s == [t EXCEPT !.day = 0]
  <2>1. s \in Time /\ SameYear(s, t) /\ s.month = t.month
    BY DEF Time, SameYear
  <2>2. NextDay(t) = NextMonth(s)
    BY <1>1 DEF NextDay
  <2> HIDE DEF s
  <2>3. QED
    BY <2>1, <2>2, NextMonthLater DEF Overflow, YearTo, SameYear, LaterYear
<1>2. CASE ~(t.day + 1 > TickDays(t))
  <2>1. NextDay(t) = [t EXCEPT !.day = t.day + 1]
    BY <1>2 DEF NextDay
  <2>2. QED
    BY <2>1, SMT DEF Time, YearTo, SameYear
<1>3. QED
  BY <1>1, <1>2

\* The roll-over of an hour gives a later time, or the year overflows.
LEMMA NextHourLater ==
  ASSUME NEW t \in Time
  PROVE  LET u == NextHour(t)
         IN  /\ YearTo(t, u)
             /\ \/ Overflow(t, u)
                \/ LaterYear(t, u)
                \/ SameYear(t, u) /\ u.month > t.month
                \/ SameYear(t, u) /\ u.month = t.month /\ u.day > t.day
                \/ SameYear(t, u) /\ u.month = t.month /\ u.day = t.day /\ u.hour > t.hour
<1>1. CASE t.hour + 1 > Hours
  <2> DEFINE s == [t EXCEPT !.hour = 0]
  <2>1. s \in Time /\ SameYear(s, t) /\ s.month = t.month /\ s.day = t.day
    BY DEF Time, SameYear
  <2>2. NextHour(t) = NextDay(s)
    BY <1>1 DEF NextHour
  <2> HIDE DEF s
  <2>3. QED
    BY <2>1, <2>2, NextDayLater DEF Overflow, YearTo, SameYear, LaterYear
<1>2. CASE ~(t.hour + 1 > Hours)
  <2>1. NextHour(t) = [t EXCEPT !.hour = t.hour + 1]
    BY <1>2 DEF NextHour
  <2>2. QED
    BY <2>1, SMT DEF Time, YearTo, SameYear
<1>3. QED
  BY <1>1, <1>2

\* The roll-over of a minute gives a later time, or the year overflows.
LEMMA NextMinuteLater ==
  ASSUME NEW t \in Time
  PROVE  LET u == NextMinute(t)
         IN  /\ YearTo(t, u)
             /\ \/ Overflow(t, u)
                \/ LaterYear(t, u)
                \/ SameYear(t, u) /\ u.month > t.month
                \/ SameYear(t, u) /\ u.month = t.month /\ u.day > t.day
                \/ SameYear(t, u) /\ u.month = t.month /\ u.day = t.day /\ u.hour > t.hour
                \/ /\ SameYear(t, u) /\ u.month = t.month /\ u.day = t.day /\ u.hour = t.hour
                   /\ u.min > t.min
<1>1. CASE t.min + 1 > Minutes - 1
  <2> DEFINE s == [t EXCEPT !.min = 0]
  <2>1. s \in Time /\ SameYear(s, t) /\ s.month = t.month /\ s.day = t.day /\ s.hour = t.hour
    BY DEF Time, SameYear
  <2>2. NextMinute(t) = NextHour(s)
    BY <1>1 DEF NextMinute
  <2> HIDE DEF s
  <2>3. QED
    BY <2>1, <2>2, NextHourLater DEF Overflow, YearTo, SameYear, LaterYear
<1>2. CASE ~(t.min + 1 > Minutes - 1)
  <2>1. NextMinute(t) = [t EXCEPT !.min = t.min + 1]
    BY <1>2 DEF NextMinute
  <2>2. QED
    BY <2>1, SMT DEF Time, YearTo, SameYear
<1>3. QED
  BY <1>1, <1>2

\* A second later is later, whatever the time, or the year has overflowed.
LEMMA NextSecondLater ==
  ASSUME NEW t \in Time
  PROVE  LET u == NextSecond(t)
         IN  /\ YearTo(t, u)
             /\ Earlier(t, u) \/ Overflow(t, u)
<1>1. CASE t.sec + 1 > Seconds - 1
  <2> DEFINE s == [t EXCEPT !.sec = 0]
             u == NextMinute(s)
  <2>1. /\ s \in Time /\ SameYear(s, t) /\ s.month = t.month /\ s.day = t.day
        /\ s.hour = t.hour /\ s.min = t.min
    BY DEF Time, SameYear
  <2>2. NextSecond(t) = u /\ u \in Time
    BY <1>1, <2>1, NextMinuteType DEF NextSecond
  <2>3. /\ YearTo(s, u)
        /\ \/ Overflow(s, u)
           \/ LaterYear(s, u)
           \/ SameYear(s, u) /\ u.month > s.month
           \/ SameYear(s, u) /\ u.month = s.month /\ u.day > s.day
           \/ SameYear(s, u) /\ u.month = s.month /\ u.day = s.day /\ u.hour > s.hour
           \/ /\ SameYear(s, u) /\ u.month = s.month /\ u.day = s.day /\ u.hour = s.hour
              /\ u.min > s.min
    BY <2>1, NextMinuteLater
  <2> HIDE DEF s, u
  <2>4. YearTo(t, u) /\ (Earlier(t, u) \/ Overflow(t, u))
    BY <2>1, <2>2, <2>3, EarlierUnits, SMT DEF Overflow, YearTo, SameYear, LaterYear, Time
  <2>5. QED
    BY <2>2, <2>4
<1>2. CASE ~(t.sec + 1 > Seconds - 1)
  <2>1. NextSecond(t) = [t EXCEPT !.sec = t.sec + 1]
    BY <1>2 DEF NextSecond
  <2>2. QED
    BY <2>1, EarlierUnits, SMT DEF Time, YearTo, SameYear
<1>3. QED
  BY <1>1, <1>2

-----------------------------------------------------------------------------
(***************************************************************************)
(* Types: the fields keep their ranges also while they are set one by one. *)
(***************************************************************************)
LEMMA ZeroType == Zero \in Time
BY SMT DEF Zero, Time

\* The clock starts as a time.
LEMMA InitType == Init => TypeOK
<1> SUFFICES ASSUME Init PROVE TypeOK
  OBVIOUS
<1>1. 0 \in 0 .. MaxSettings
  OBVIOUS
<1>2. QED
  BY <1>1, ZeroType DEF Init, TypeOK

\* One field written by SetTime, or refused, keeps the widths.
LEMMA SetFieldType ==
  ASSUME TypeOK, SetField PROVE TypeOK'
<1>1. arg \in [Fields -> Nat] /\ arg.yearHigh < ByteSize /\ arg.yearLow < ByteSize
  BY SMT DEF TypeOK, Zero, Fields
<1>2. pc \in Fields
  BY DEF SetField, TypeOK
<1>3. ASSUME Accepts(pc, arg, TheTime) PROVE [TheTime EXCEPT ![pc] = arg[pc]] \in Time
  <2> DEFINE v == arg[pc]
  <2>1. SetDays(TheTime) \in {0, 28, 29, 30, 31}
    BY DaysBound DEF SetDays
  <2>2. /\ v \in Nat
        /\ pc \in {"yearHigh", "yearLow"} => v < ByteSize
        /\ pc = "month" => v <= 12
        /\ pc = "day" => v <= 31
        /\ pc = "dow" => v <= 7
        /\ pc = "hour" => v <= Hours
        /\ pc = "min" => v <= Minutes - 1
        /\ pc = "sec" => v <= Seconds - 1
    <3>1. CASE pc = "month"
      BY <1>1, <1>2, <1>3, <3>1, SMT DEF Accepts, Fields
    <3>2. CASE pc = "day"
      BY <1>1, <1>2, <1>3, <2>1, <3>2, SMT DEF Accepts, Fields
    <3>3. CASE pc = "dow"
      BY <1>1, <1>2, <1>3, <3>3, SMT DEF Accepts, Fields
    <3>4. CASE pc = "hour"
      BY <1>1, <1>2, <1>3, <3>4, SMT DEF Accepts, Fields
    <3>5. CASE pc = "min"
      BY <1>1, <1>2, <1>3, <3>5, SMT DEF Accepts, Fields
    <3>6. CASE pc = "sec"
      BY <1>1, <1>2, <1>3, <3>6, SMT DEF Accepts, Fields
    <3>7. CASE pc \in {"yearHigh", "yearLow"}
      BY <1>1, <3>7, SMT DEF Fields
    <3>8. QED
      BY <1>2, <3>1, <3>2, <3>3, <3>4, <3>5, <3>6, <3>7 DEF Fields
  <2> HIDE DEF v
  <2>3. [TheTime EXCEPT ![pc] = v] \in Time
    <3>1. TheTime \in Time
      BY DEF TypeOK
    <3>2. QED
      BY <1>2, <2>2, <3>1, SMT DEF Fields, Time
  <2>4. QED
    BY <2>3 DEF v
<1>4. TheTime' \in Time
  BY <1>3 DEF SetField, TypeOK
<1>5. pc' \in Fields \cup {"idle"}
  BY <1>2 DEF SetField, SetOrder, Fields
<1>6. QED
  BY <1>4, <1>5 DEF SetField, TypeOK

\* One field read by GetTime is a field of a time.
LEMMA GetFieldType ==
  ASSUME TypeOK, GetField PROVE TypeOK'
<1>1. pc \in Fields
  BY DEF GetField, TypeOK
<1>2. Got \in Time
  BY <1>1 DEF Got, TypeOK, Fields, Time
<1>3. Zero \in Time
  BY SMT DEF Zero, Time
<1>4. pc' \in Fields \cup {"idle"}
  BY <1>1 DEF GetField, GetOrder, Fields
<1>5. QED
  BY <1>2, <1>3, <1>4 DEF GetField, TypeOK

\* The type invariant is inductive by itself.
LEMMA TypeInv == TypeOK /\ [Next]_vars => TypeOK'
<1> SUFFICES ASSUME TypeOK, [Next]_vars PROVE TypeOK'
  OBVIOUS
<1>1. CASE Tick
  BY <1>1, NextSecondType DEF Tick, TypeOK
<1>2. CASE GetTime
  BY <1>2 DEF GetTime, TypeOK, Fields
<1>3. ASSUME NEW t \in Settings, SetTime(t) PROVE TypeOK'
  BY <1>3 DEF SetTime, TypeOK, Fields
<1>4. CASE UNCHANGED vars
  BY <1>4 DEF vars, TypeOK
<1>5. QED
  BY <1>1, <1>2, <1>3, <1>4, GetFieldType, SetFieldType DEF Next

\* Every field of the clock keeps its range, wherever the interrupt falls
\* between two fields that SetTime writes.
THEOREM TypeCorrect == Spec => []TypeOK
<1>1. QED
  BY InitType, TypeInv, PTL DEF Spec

\* The interrupt never sets the clock back, whatever SetTime has written of
\* a new time when it comes.
THEOREM AlwaysAdvances == Spec => TickAdvances
<1>1. ASSUME TypeOK, Next, Ticks
      PROVE  Earlier(TheTime, TheTime') \/ Overflow(TheTime, TheTime')
  <2>1. ~SetField
    BY <1>1 DEF SetField, SetOrder, Ticks, TypeOK, Fields
  <2>2. Tick
    BY <1>1, <2>1 DEF Next, GetTime, GetField, SetTime, Ticks
  <2>3. QED
    BY <1>1, <2>2, NextSecondLater DEF Tick, TypeOK
<1>2. TypeOK /\ [Next]_vars => [OnlyForward]_vars
  BY <1>1 DEF OnlyForward
<1>3. QED
  BY TypeCorrect, <1>2, PTL DEF Spec, TickAdvances

-----------------------------------------------------------------------------
(***************************************************************************)
(* GetTime: what it would return if the clock stood still from now on.     *)
(***************************************************************************)
Rank == [yearLow |-> 1, yearHigh |-> 2, month |-> 3, day |-> 4, dow |-> 5, hour |-> 6,
         min |-> 7, sec |-> 8]
Seen(field) == IF Rank[field] < Rank[pc] THEN Copy[field] ELSE TheTime[field]
Mixed == [yearHigh |-> Seen("yearHigh"), yearLow |-> Seen("yearLow"),
          month |-> Seen("month"), day |-> Seen("day"), hour |-> Seen("hour"),
          min |-> Seen("min"), sec |-> Seen("sec")]

NoFuture == \/ ~Earlier(TheTime, Mixed)
            \/ Overflow(Mixed, TheTime)
            \/ ticked /\ TornYear(Mixed, TheTime)

\* It is the clock itself until the interrupt comes, and never in its future,
\* but for a year torn by this interrupt, which comes once in a call.
GetInv ==
  /\ pc = "idle" => ~ticked
  /\ job = "get" /\ pc # "idle" =>
       /\ ~ticked => \A field \in Fields : Seen(field) = TheTime[field]
       /\ NoFuture

\* The interrupt: if the time it changes had been read, it is now past.
LEMMA TickGet == TypeOK /\ GetInv /\ Tick => GetInv'
<1> SUFFICES ASSUME TypeOK, GetInv, Tick, job = "get", pc # "idle" PROVE NoFuture'
  BY DEF GetInv, Tick
<1> DEFINE t == TheTime
           u == TheTime'
           m == Mixed'
<1>1. t \in Time /\ u \in Time /\ pc \in Fields /\ ticked'
  BY NextSecondType DEF TypeOK, Tick
<1>2. YearTo(t, u) /\ (Earlier(t, u) \/ Overflow(t, u))
  BY <1>1, NextSecondLater DEF Tick
<1>3. \A field \in Fields : Seen(field) = t[field]
  BY DEF GetInv, Tick
<1>4. /\ m.yearHigh = IF Rank["yearHigh"] < Rank[pc] THEN t.yearHigh ELSE u.yearHigh
      /\ m.yearLow  = IF Rank["yearLow"] < Rank[pc] THEN t.yearLow ELSE u.yearLow
      /\ m.month = IF Rank["month"] < Rank[pc] THEN t.month ELSE u.month
      /\ m.day   = IF Rank["day"] < Rank[pc] THEN t.day ELSE u.day
      /\ m.hour  = IF Rank["hour"] < Rank[pc] THEN t.hour ELSE u.hour
      /\ m.min   = IF Rank["min"] < Rank[pc] THEN t.min ELSE u.min
      /\ m.sec   = IF Rank["sec"] < Rank[pc] THEN t.sec ELSE u.sec
  BY <1>3 DEF Mixed, Seen, Tick, Fields
<1> HIDE DEF t, u, m
<1>5. ~Earlier(u, m) \/ Overflow(m, u) \/ TornYear(m, u)
  <2>1. CASE pc = "yearLow"
    <3>1. /\ m.yearHigh = u.yearHigh /\ m.yearLow = u.yearLow /\ m.month = u.month
          /\ m.day = u.day /\ m.hour = u.hour /\ m.min = u.min /\ m.sec = u.sec
      BY <1>4, <2>1, SMT DEF Rank
    <3>2. QED
      BY <1>1, <3>1, EarlierUnits, SMT DEF SameYear, LaterYear, Time
  <2>2. CASE pc = "yearHigh"
    <3>1. /\ m.yearHigh = u.yearHigh /\ m.yearLow = t.yearLow /\ m.month = u.month
          /\ m.day = u.day /\ m.hour = u.hour /\ m.min = u.min /\ m.sec = u.sec
      BY <1>4, <2>2, SMT DEF Rank
    <3>2. QED
      BY <1>1, <1>2, <3>1, EarlierUnits, SMT
         DEF YearTo, SameYear, LaterYear, Overflow, TornYear, Time
  <2>3. CASE pc \notin {"yearLow", "yearHigh"}
    <3>1. m.yearHigh = t.yearHigh /\ m.yearLow = t.yearLow
      BY <1>1, <1>4, <2>3, SMT DEF Rank, Fields
    <3>2. QED
      BY <1>1, <1>2, <1>4, <2>3, <3>1, EarlierUnits, SMT
         DEF SameYear, LaterYear, Overflow, Time, Rank, Fields
  <2>4. QED
    BY <2>1, <2>2, <2>3
<1>6. QED
  BY <1>1, <1>5 DEF t, u, m, NoFuture

\* Reading a field does not change what has been read and what is to come.
LEMMA GetFieldGet == TypeOK /\ GetInv /\ GetField => GetInv'
<1> SUFFICES ASSUME TypeOK, GetInv, GetField PROVE GetInv'
  OBVIOUS
<1>1. CASE pc = "sec"
  BY <1>1 DEF GetField, GetOrder, GetInv
<1>2. CASE pc # "sec"
  <2>1. pc \in Fields /\ pc' \in Fields /\ Rank[pc'] = Rank[pc] + 1 /\ Copy' = Got
    BY <1>2, SMT DEF GetField, GetOrder, TypeOK, Fields, Rank
  <2>2. \A field \in Fields : Seen(field)' = Seen(field)
    <3>1. Copy' = [Copy EXCEPT ![pc] = TheTime[pc]] /\ TheTime' = TheTime /\ Copy \in Time
      BY <2>1 DEF Got, GetField, TypeOK
    <3>2. QED
      BY <2>1, <3>1, SMT DEF Seen, Rank, Fields, Time
  <2>3. Mixed' = Mixed
    BY <2>2 DEF Mixed, Fields
  <2>4. TheTime' = TheTime /\ job' = "get" /\ pc # "idle" /\ pc' # "idle" /\ ticked' = ticked
    BY <2>1 DEF GetField, Fields, TypeOK
  <2>5. /\ ~ticked => \A field \in Fields : Seen(field) = TheTime[field]
        /\ NoFuture
    BY <2>4 DEF GetInv, GetField
  <2>6. ~ticked' => \A field \in Fields : Seen(field)' = TheTime'[field]
    BY <2>2, <2>4, <2>5
  <2>7. NoFuture'
    BY <2>3, <2>4, <2>5 DEF NoFuture
  <2>8. QED
    BY <2>4, <2>6, <2>7 DEF GetInv
<1>3. QED
  BY <1>1, <1>2

\* A call that begins has read nothing.
LEMMA GetTimeGet == TypeOK /\ GetInv /\ GetTime => GetInv'
<1> SUFFICES ASSUME TypeOK, GetInv, GetTime PROVE GetInv'
  OBVIOUS
<1>1. pc' = "yearLow" /\ TheTime' = TheTime
  BY DEF GetTime
<1>2. \A field \in Fields : Seen(field)' = TheTime'[field]
  BY <1>1, SMT DEF Seen, Rank, Fields
<1>3. ~Earlier(TheTime', Mixed')
  <2> DEFINE t == TheTime'
             m == Mixed'
  <2>1. /\ SameYear(t, m) /\ m.month = t.month /\ m.day = t.day
        /\ m.hour = t.hour /\ m.min = t.min /\ m.sec = t.sec
    BY <1>2 DEF Mixed, Fields, SameYear
  <2>2. t \in Time
    BY <1>1 DEF TypeOK
  <2> HIDE DEF t, m
  <2>3. ~Earlier(t, m)
    BY <2>1, <2>2, EarlierUnits, SMT DEF Time, SameYear, LaterYear
  <2>4. QED
    BY <2>3 DEF t, m
<1>4. QED
  BY <1>1, <1>2, <1>3 DEF GetInv, NoFuture

\* Every step keeps the time that GetTime would return out of the future.
LEMMA GetNext == TypeOK /\ GetInv /\ [Next]_vars => GetInv'
<1> SUFFICES ASSUME TypeOK, GetInv, [Next]_vars PROVE GetInv'
  OBVIOUS
<1>1. ASSUME NEW t \in Settings, SetTime(t) PROVE GetInv'
  BY <1>1 DEF SetTime, GetInv
<1>2. CASE SetField
  <2>1. job' = "set" /\ (pc' = "idle" => ~ticked')
    BY <1>2 DEF SetField
  <2>2. QED
    BY <2>1 DEF GetInv
<1>3. CASE UNCHANGED vars
  BY <1>3 DEF vars, GetInv, NoFuture, Mixed, Seen
<1>4. QED
  BY <1>1, <1>2, <1>3, TickGet, GetFieldGet, GetTimeGet DEF Next

\* GetTime never returns a time to come, wherever the interrupt carries from
\* a field it has read to one it has not, but for a year torn by the carry
\* from its low byte to its high one.
THEOREM NeverInFuture == Spec => ReadNotFuture
<1>1. ASSUME TypeOK, GetInv, Next, GetTimeEnds
      PROVE  \/ ~Earlier(TheTime, Got)
             \/ Overflow(Got, TheTime)
             \/ ticked /\ TornYear(Got, TheTime)
  <2>1. pc = "sec"
    BY <1>1 DEF Next, Tick, GetTime, GetField, SetTime, SetField, GetTimeEnds, GetOrder, TypeOK,
                Fields
  <2>2. /\ Got.yearHigh = Mixed.yearHigh /\ Got.yearLow = Mixed.yearLow
        /\ Got.month = Mixed.month /\ Got.day = Mixed.day
        /\ Got.hour = Mixed.hour /\ Got.min = Mixed.min /\ Got.sec = Mixed.sec
    BY <1>1, <2>1, SMT DEF Got, Mixed, Seen, Rank, TypeOK, Time
  <2>3. NoFuture
    BY <1>1 DEF GetInv, GetTimeEnds
  <2>4. QED
    BY <2>2, <2>3, EarlierUnits DEF NoFuture, Overflow, TornYear, SameYear, LaterYear
<1>2. Init => TypeOK /\ GetInv
  BY InitType DEF Init, GetInv
<1>3. TypeOK /\ GetInv /\ [Next]_vars => (TypeOK /\ GetInv)'
  BY TypeInv, GetNext
<1>4. TypeOK /\ GetInv /\ [Next]_vars => [NotInFuture]_vars
  BY <1>1 DEF NotInFuture
<1>5. QED
  BY <1>2, <1>3, <1>4, PTL DEF Spec, ReadNotFuture
=============================================================================
