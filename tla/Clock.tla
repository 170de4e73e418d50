-------------------------------- MODULE Clock --------------------------------
(***************************************************************************)
(* The real time clock of Board/Hardware.c: the timer interrupt advances   *)
(* TheTime once a second, GetTime and SetTime copy it field by field while *)
(* the interrupt goes on.  The year has two bytes, which the controller    *)
(* accesses one after the other: it reads the low one first, and writes    *)
(* the high one first.                                                     *)
(*                                                                         *)
(* A day of the model has Minutes minutes to the hour and Seconds seconds  *)
(* to the minute; months and years are those of the code.                  *)
(***************************************************************************)
EXTENDS Integers

CONSTANTS
  Seconds,      \* seconds in a minute, 60
  Minutes,      \* minutes in an hour, 60
  Hours,        \* hours in a day, 24
  ByteSize,     \* values of a byte of the year, 256
  Settings,     \* arguments of SetTime
  MaxSettings   \* bound on calls of SetTime

Fields == {"yearHigh", "yearLow", "month", "day", "dow", "hour", "min", "sec"}

ASSUME ClockAssumption ==
  /\ Seconds \in Nat \ {0}
  /\ Minutes \in Nat \ {0}
  /\ Hours \in Nat \ {0}
  /\ ByteSize \in Nat /\ ByteSize > 1
  /\ Settings \subseteq {t \in [Fields -> Nat] : t.yearHigh < ByteSize /\ t.yearLow < ByteSize}
  /\ MaxSettings \in Nat

VARIABLES
  TheTime,     \* the clock
  pc,          \* the field, or byte of one, the main thread accesses next, or "idle"
  Copy,        \* GetTime's TimeToReturn
  arg,         \* SetTime's TimeToSet
  job,         \* what the main thread does: "get" or "set"
  settings,    \* calls of SetTime so far, up to MaxSettings (bound)
  ticked       \* the interrupt has rolled a second during this call

vars == <<TheTime, pc, Copy, arg, job, settings, ticked>>

Time == [yearHigh : 0 .. ByteSize - 1, yearLow : 0 .. ByteSize - 1,
         month : 0 .. 12, day : 0 .. 31, dow : 0 .. 7,
         hour : 0 .. Hours, min : 0 .. Minutes - 1, sec : 0 .. Seconds - 1]

Zero == [yearHigh |-> 0, yearLow |-> 0, month |-> 0, day |-> 0, dow |-> 0,
         hour |-> 0, min |-> 0, sec |-> 0]

Year(t) == t.yearHigh * ByteSize + t.yearLow

TypeOK ==
  /\ TheTime \in Time
  /\ pc \in Fields \cup {"idle"}
  /\ Copy \in Time
  /\ arg \in Settings \cup {Zero}
  /\ job \in {"get", "set"}
  /\ settings \in 0 .. MaxSettings
  /\ ticked \in BOOLEAN

Init ==
  /\ TheTime = Zero
  /\ pc = "idle"
  /\ Copy = Zero
  /\ arg = Zero
  /\ job = "get"
  /\ settings = 0
  /\ ticked = FALSE

-----------------------------------------------------------------------------
IsLeapYear(year) ==
  /\ year % 4 = 0
  /\ year % 100 = 0 => year % 400 = 0

DaysPerMonth(month) ==
  CASE month \notin 1 .. 12      -> 0
    [] month = 2                 -> 28
    [] month \in {4, 6, 9, 12}   -> 30
    [] OTHER                     -> 31

\* The number of days as the interrupt determines it, and as SetTime does.
TickDays(t) ==
  IF t.month = 2 THEN IF IsLeapYear(Year(t)) THEN 29 ELSE 28 ELSE DaysPerMonth(t.month)
SetDays(t) ==
  IF t.month = 4 THEN IF IsLeapYear(Year(t)) THEN 29 ELSE 28 ELSE DaysPerMonth(t.month)

-----------------------------------------------------------------------------
(***************************************************************************)
(* One second: each field that overflows starts again and carries.         *)
(***************************************************************************)
NextYear(t) ==
  IF t.yearLow + 1 = ByteSize
    THEN [t EXCEPT !.yearLow = 0, !.yearHigh = (@ + 1) % ByteSize]
    ELSE [t EXCEPT !.yearLow = @ + 1]

\* (The variant forgets the year.)
NextMonthSameYear(t) == [t EXCEPT !.month = IF @ + 1 > 12 THEN 0 ELSE @ + 1]
NextMonth(t) ==
  IF t.month + 1 > 12
    THEN NextYear([t EXCEPT !.month = 0])
    ELSE [t EXCEPT !.month = @ + 1]

NextDay(t) ==
  IF t.day + 1 > TickDays(t)
    THEN NextMonth([t EXCEPT !.day = 0])
    ELSE [t EXCEPT !.day = @ + 1]

NextHour(t) ==
  IF t.hour + 1 > Hours
    THEN NextDay([t EXCEPT !.hour = 0])
    ELSE [t EXCEPT !.hour = @ + 1]

\* (The variant compares as the hours do.)
NextMinuteLate(t) ==
  IF t.min + 1 > Minutes THEN NextHour([t EXCEPT !.min = 0]) ELSE [t EXCEPT !.min = @ + 1]
NextMinute(t) ==
  IF t.min + 1 > Minutes - 1
    THEN NextHour([t EXCEPT !.min = 0])
    ELSE [t EXCEPT !.min = @ + 1]

NextSecond(t) ==
  IF t.sec + 1 > Seconds - 1
    THEN NextMinute([t EXCEPT !.sec = 0])
    ELSE [t EXCEPT !.sec = @ + 1]

\* The interrupt when the milliseconds roll over.  A call of GetTime or
\* SetTime is shorter than a second.
Tick ==
  /\ ~ticked
  /\ TheTime' = NextSecond(TheTime)
  /\ ticked' = (pc # "idle")
  /\ UNCHANGED <<pc, Copy, arg, job, settings>>

-----------------------------------------------------------------------------
(***************************************************************************)
(* GetTime and SetTime, a field at a time in the order of the code, the    *)
(* year a byte at a time.                                                  *)
(***************************************************************************)
\* (The variant reads the smaller units first.)
GetOrderReversed ==
  [yearLow |-> "yearHigh", yearHigh |-> "sec", sec |-> "min", min |-> "hour", hour |-> "dow",
   dow |-> "day", day |-> "month", month |-> "idle"]
GetOrder ==
  [yearLow |-> "yearHigh", yearHigh |-> "month", month |-> "day", day |-> "dow", dow |-> "hour",
   hour |-> "min", min |-> "sec", sec |-> "idle"]

SetOrder == [hour |-> "min", min |-> "sec", sec |-> "month", month |-> "dow",
             dow |-> "yearHigh", yearHigh |-> "yearLow", yearLow |-> "day", day |-> "idle"]

GetTime ==
  /\ pc = "idle"
  /\ pc' = "yearLow"
  /\ job' = "get"
  /\ UNCHANGED <<TheTime, Copy, arg, settings, ticked>>

\* The copy with the field that is read now.
Got == [Copy EXCEPT ![pc] = TheTime[pc]]

\* (Copy and arg are locals: they end with the call.)
GetField ==
  /\ job = "get" /\ pc # "idle"
  /\ Copy' = IF GetOrder[pc] = "idle" THEN Zero ELSE Got
  /\ pc' = GetOrder[pc]
  /\ ticked' = (ticked /\ pc' # "idle")
  /\ UNCHANGED <<TheTime, arg, job, settings>>

SetTime(t) ==
  /\ pc = "idle"
  /\ settings < MaxSettings
  /\ settings' = settings + 1
  /\ pc' = "hour"
  /\ job' = "set"
  /\ arg' = t
  /\ UNCHANGED <<TheTime, Copy, ticked>>

\* The field's value is taken over if it is in range.
Accepts(field, t, now) ==
  CASE field = "hour"  -> t.hour < Hours
    [] field = "min"   -> t.min < Minutes
    [] field = "sec"   -> t.sec < Seconds
    [] field = "month" -> 0 < t.month /\ t.month < 13
    [] field = "dow"   -> 0 < t.dow /\ t.dow < 8
    [] field \in {"yearHigh", "yearLow"} -> t.yearHigh # 0 \/ t.yearLow # 0
    [] field = "day"   -> 0 < t.day /\ t.day < SetDays(now) + 1

SetField ==
  /\ job = "set" /\ pc # "idle"
  /\ TheTime' = IF Accepts(pc, arg, TheTime) THEN [TheTime EXCEPT ![pc] = arg[pc]] ELSE TheTime
  /\ pc' = SetOrder[pc]
  /\ ticked' = (ticked /\ pc' # "idle")
  /\ arg' = IF pc' = "idle" THEN Zero ELSE arg
  /\ UNCHANGED <<Copy, job, settings>>

Next ==
  \/ Tick
  \/ GetTime \/ GetField
  \/ (\E t \in Settings : SetTime(t)) \/ SetField

Spec == Init /\ [][Next]_vars

-----------------------------------------------------------------------------
Significance == <<"yearHigh", "yearLow", "month", "day", "hour", "min", "sec">>

\* t is an earlier time than u.
Earlier(t, u) ==
  \E i \in 1 .. 7 :
    /\ t[Significance[i]] < u[Significance[i]]
    /\ \A k \in 1 .. i - 1 : t[Significance[k]] = u[Significance[k]]

\* The year has gone from its last value to zero.
Overflow(t, u) ==
  /\ t.yearHigh = ByteSize - 1 /\ t.yearLow = ByteSize - 1
  /\ u.yearHigh = 0 /\ u.yearLow = 0

\* The interrupt never sets the clock back: whatever time it finds, also one
\* that SetTime has half written, a second later is later.
Ticks == pc' = pc /\ TheTime' # TheTime
OnlyForward == Ticks => Earlier(TheTime, TheTime') \/ Overflow(TheTime, TheTime')
TickAdvances == [][OnlyForward]_vars

\* The year t is the year u with the low byte of the year before: what a
\* read yields when the carry between its bytes comes with the interrupt.
TornYear(t, u) ==
  /\ t.yearHigh = u.yearHigh
  /\ t.yearLow = ByteSize - 1 /\ u.yearLow = 0

\* What GetTime returns is not a time to come, though the interrupt may
\* carry from one field to the next between two of its reads (it may then
\* return a time up to a year past): it reads the larger units first.  The
\* two bytes of the year it reads in the wrong order for this: when the
\* interrupt carries from the low one to the high one between them (2047 to
\* 2048, 2303 to 2304, ...) it returns the last year of the block of 256
\* that has just begun.  This is the only time to come that it returns.
GetTimeEnds == job = "get" /\ pc # "idle" /\ pc' = "idle"
NotInFuture ==
  GetTimeEnds => \/ ~Earlier(TheTime, Got)
                 \/ Overflow(Got, TheTime)
                 \/ ticked /\ TornYear(Got, TheTime)
ReadNotFuture == [][NotInFuture]_vars

\* "hour must be less than 24" (Hardware.c:179), "months must be 1-12"
\* (Hardware.c:197), "days must be valid" (Hardware.c:232): the clock keeps
\* to these ranges once it has been set to a time that has them.
InRange(t) == t.hour < Hours /\ t.month \in 1 .. 12 /\ t.day > 0
StaysInRange == Ticks /\ InRange(TheTime) => InRange(TheTime')
ClockStaysInRange == [][StaysInRange]_vars
=============================================================================
