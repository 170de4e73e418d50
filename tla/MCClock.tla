------------------------------- MODULE MCClock -------------------------------
(***************************************************************************)
(* An instance of Clock for TLC.                                           *)
(***************************************************************************)
EXTENDS Clock

At(y, mo, d, h, mi, s) ==
  [yearHigh |-> y \div ByteSize, yearLow |-> y % ByteSize, month |-> mo, day |-> d, dow |-> 1,
   hour |-> h, min |-> mi, sec |-> s]

\* A day before midnight and New Year's Eve, the ends of February and April,
\* and a setting of which only a part is accepted.
MCSettings == {At(1, 12, 30, Hours - 1, 1, 1), At(3, 12, 30, 0, 0, 1), At(1, 2, 28, 0, 0, 0),
               At(0, 4, 30, 0, 1, 0), At(0, 13, 32, Hours, 0, 1)}
=============================================================================
