---------------------------- MODULE Conversions ----------------------------
(***************************************************************************)
(* The arithmetic between the sensors and a data set, with the widths of C *)
(* on the controller: what the bytes of the SHT25 and the MPL115A1 mean,   *)
(* and what becomes of them in the 18 bytes of a data set.                 *)
(***************************************************************************)
EXTENDS Integers

Int16 == {n \in Int : -32768 <= n /\ n <= 32767}
Word  == {n \in Nat : n < 65536}
Byte  == {n \in Nat : n < 256}
Adc   == {n \in Nat : n < 1024}

\* Cast to int16_t, division that truncates toward zero.
ToInt16(n) == ((n + 32768) % 65536) - 32768
Quotient(n, d) == IF n >= 0 THEN n \div d ELSE 0 - ((0 - n) \div d)

\* Hundredths of a degree, computed with int32_t.
Temperature(word) == ToInt16(Quotient(17572 * word - 307036160, 65536))

\* Hundredths of a percent, computed with uint32_t: below 0 % the
\* subtraction wraps by 2^32, which the division makes 2^16 and the cast
\* removes.
Humidity(word) ==
  LET n == 12500 * word - 39321600
  IN ToInt16(IF n >= 0 THEN n \div 65536 ELSE 65536 + n \div 65536)

\* Calibration data of the MPL115A1, and the pressure in sixteenths of a
\* kPa from the two readings.  A shift to the right rounds down.
Calibration == [a0 : Int16, b1 : Int16, b2 : Int16, c12 : Int16]

C12x2(cal, Tadc) == (cal.c12 * Tadc) \div 2048
A1x1(cal, Padc, Tadc) == (cal.b1 + C12x2(cal, Tadc)) * Padc
Y1(cal, Padc, Tadc) == cal.a0 * 1024 + A1x1(cal, Padc, Tadc)
A2x2(cal, Tadc) == (cal.b2 * Tadc) \div 2
PComp(cal, Padc, Tadc) == (Y1(cal, Padc, Tadc) + A2x2(cal, Tadc)) \div 512
Pressure(cal, Padc, Tadc) == ToInt16((PComp(cal, Padc, Tadc) * 1041) \div 16384 + 800)

-----------------------------------------------------------------------------
\* (DataValue & 0xFF00) >> 8 and DataValue & 0xFF of a 16 bit value.
HighByte(n) == (n \div 256) % 256
LowByte(n)  == n % 256

\* The bytes of a data set, high before low.
DataSetBytes(time, temp, rh, pressure, light) ==
  <<time.month, time.day, time.hour, time.min,
    HighByte(temp), LowByte(temp), HighByte(rh), LowByte(rh),
    HighByte(pressure), LowByte(pressure),
    HighByte(light.red), LowByte(light.red), HighByte(light.green), LowByte(light.green),
    HighByte(light.blue), LowByte(light.blue), HighByte(light.clear), LowByte(light.clear)>>

\* Bytes of a transfer of the TCS3414: their number, then green, red, blue
\* and clear, low byte first; and tcs3414_GetData.
LightBytes(light) ==
  <<8, LowByte(light.green), HighByte(light.green), LowByte(light.red), HighByte(light.red),
       LowByte(light.blue), HighByte(light.blue), LowByte(light.clear), HighByte(light.clear)>>
LightOf(b) ==
  [red   |-> b[4] + 256 * b[5], green |-> b[2] + 256 * b[3],
   blue  |-> b[6] + 256 * b[7], clear |-> b[8] + 256 * b[9]]
=============================================================================
