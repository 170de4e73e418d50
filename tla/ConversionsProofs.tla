-------------------------- MODULE ConversionsProofs --------------------------
(***************************************************************************)
(* The arithmetic of Conversions is right for every word, byte, reading    *)
(* and calibration: nothing overflows, values are rounded and no more, and *)
(* the bytes of a data set stand for the values put into them.             *)
(***************************************************************************)
EXTENDS Conversions, TLAPS

Int32 == {n \in Int : -2147483648 <= n /\ n <= 2147483647}

\* A cast to int16_t gives an int16_t, and keeps one.
LEMMA ToInt16Type == \A n \in Int : ToInt16(n) \in Int16
BY SMT DEF ToInt16, Int16

\* The cast to int16_t changes no value that fits.
LEMMA ToInt16Same == \A n \in Int16 : ToInt16(n) = n
BY SMT DEF ToInt16, Int16

-----------------------------------------------------------------------------
\* The temperature is the one of the data sheet's formula, rounded toward
\* zero: for every word the sensor can send nothing leaves int32_t, and the
\* quotient fits int16_t.
THEOREM TemperatureRounded ==
  \A w \in Word :
    LET error == 65536 * Temperature(w) - (17572 * w - 307036160)
    IN  /\ 17572 * w \in Int32
        /\ Temperature(w) \in Int16
        /\ -65536 < error /\ error < 65536
<1> SUFFICES ASSUME NEW w \in Word
             PROVE  /\ 17572 * w \in Int32
                    /\ Temperature(w) \in Int16
                    /\ -65536 < 65536 * Temperature(w) - (17572 * w - 307036160)
                    /\ 65536 * Temperature(w) - (17572 * w - 307036160) < 65536
  BY SMT
<1> DEFINE n == 17572 * w - 307036160
           q == Quotient(n, 65536)
<1>1. n \in Int /\ -307036160 <= n /\ n <= 844544860
  BY SMT DEF Word
<1> HIDE DEF n
<1>2. /\ q \in Int /\ -4685 <= q /\ q <= 12887
      /\ -65536 < 65536 * q - n /\ 65536 * q - n < 65536
  BY <1>1, SMT DEF Quotient
<1>3. Temperature(w) = q
  BY <1>2, ToInt16Same, SMT DEF Temperature, Int16, n
<1>4. QED
  BY <1>2, <1>3, SMT DEF Int32, Int16, Word, n

\* The humidity is rounded down, with the wrap of the unsigned subtraction
\* below 0 %.
THEOREM HumidityRounded ==
  \A w \in Word :
    LET error == 65536 * Humidity(w) - (12500 * w - 39321600)
    IN  /\ Humidity(w) \in Int16
        /\ -65536 < error /\ error <= 0
<1> SUFFICES ASSUME NEW w \in Word
             PROVE  /\ Humidity(w) \in Int16
                    /\ -65536 < 65536 * Humidity(w) - (12500 * w - 39321600)
                    /\ 65536 * Humidity(w) - (12500 * w - 39321600) <= 0
  BY SMT
<1> DEFINE n == 12500 * w - 39321600
           q == n \div 65536
<1>1. n \in Int /\ -39321600 <= n /\ n <= 779865900
  BY SMT DEF Word
<1>2. Humidity(w) = ToInt16(IF n >= 0 THEN q ELSE 65536 + q)
  BY DEF Humidity
<1> HIDE DEF n
<1>3. /\ q \in Int /\ -600 <= q /\ q <= 11899
      /\ -65536 < 65536 * q - n /\ 65536 * q - n <= 0
  BY <1>1, SMT
<1> HIDE DEF q
<1>4. ToInt16(q) = q /\ ToInt16(65536 + q) = q
  BY <1>3, SMT DEF ToInt16
<1>5. Humidity(w) = q
  BY <1>2, <1>4, SMT
<1>6. QED
  BY <1>3, <1>5, SMT DEF Int16, n

-----------------------------------------------------------------------------
\* A number times a reading of the converter.
LEMMA TimesReading ==
  ASSUME NEW m \in Nat, NEW x \in Int, -m <= x, x <= m, NEW y \in Adc
  PROVE  x * y \in Int /\ -(1023 * m) <= x * y /\ x * y <= 1023 * m
<1>1. y \in Int /\ 0 <= y /\ y <= 1023
  BY SMT DEF Adc
<1>2. (m - x) * y >= 0 /\ (m + x) * y >= 0 /\ m * (1023 - y) >= 0
  <2>1. \A a, b \in Nat : a * b \in Nat
    BY SMT
  <2>2. m - x \in Nat /\ m + x \in Nat /\ y \in Nat /\ 1023 - y \in Nat
    BY <1>1, SMT
  <2>3. QED
    BY <2>1, <2>2, SMT
<1>3. /\ (m - x) * y = m * y - x * y
      /\ (m + x) * y = m * y + x * y
      /\ m * (1023 - y) = 1023 * m - m * y
  BY <1>1, SMT
<1>4. x * y \in Int /\ m * y \in Int
  BY <1>1, SMT
<1>5. QED
  BY <1>2, <1>3, <1>4, SMT

\* No intermediate of MPL115A1_GetPressure leaves int32_t and the result is
\* an int16_t without the cast, for every calibration and every reading.
THEOREM PressureFits ==
  \A cal \in Calibration, Padc \in Adc, Tadc \in Adc :
    /\ cal.c12 * Tadc \in Int32
    /\ A1x1(cal, Padc, Tadc) \in Int32
    /\ Y1(cal, Padc, Tadc) \in Int32
    /\ cal.b2 * Tadc \in Int32
    /\ Y1(cal, Padc, Tadc) + A2x2(cal, Tadc) \in Int32
    /\ PComp(cal, Padc, Tadc) * 1041 \in Int32
    /\ Pressure(cal, Padc, Tadc) = (PComp(cal, Padc, Tadc) * 1041) \div 16384 + 800
    /\ Pressure(cal, Padc, Tadc) \in Int16
<1> SUFFICES ASSUME NEW cal \in Calibration, NEW Padc \in Adc, NEW Tadc \in Adc
             PROVE  /\ cal.c12 * Tadc \in Int32
                    /\ A1x1(cal, Padc, Tadc) \in Int32
                    /\ Y1(cal, Padc, Tadc) \in Int32
                    /\ cal.b2 * Tadc \in Int32
                    /\ Y1(cal, Padc, Tadc) + A2x2(cal, Tadc) \in Int32
                    /\ PComp(cal, Padc, Tadc) * 1041 \in Int32
                    /\ Pressure(cal, Padc, Tadc) =
                         (PComp(cal, Padc, Tadc) * 1041) \div 16384 + 800
                    /\ Pressure(cal, Padc, Tadc) \in Int16
  OBVIOUS
<1>1. \A c \in {cal.a0, cal.b1, cal.b2, cal.c12} : c \in Int /\ -32768 <= c /\ c <= 32768
  BY SMT DEF Calibration, Int16
<1> DEFINE ct == cal.c12 * Tadc
           bt == cal.b2 * Tadc
           a1 == cal.b1 + C12x2(cal, Tadc)
           p  == PComp(cal, Padc, Tadc)
<1>2. ct \in Int /\ -33521664 <= ct /\ ct <= 33521664
  BY <1>1, TimesReading, SMT
<1>3. bt \in Int /\ -33521664 <= bt /\ bt <= 33521664
  BY <1>1, TimesReading, SMT
<1> HIDE DEF ct, bt
<1>4. a1 \in Int /\ -50000 <= a1 /\ a1 <= 50000
  BY <1>1, <1>2, SMT DEF C12x2, ct
<1> HIDE DEF a1
<1>5. /\ A1x1(cal, Padc, Tadc) \in Int
      /\ -51150000 <= A1x1(cal, Padc, Tadc) /\ A1x1(cal, Padc, Tadc) <= 51150000
  <2>1. A1x1(cal, Padc, Tadc) = a1 * Padc
    BY DEF A1x1, a1
  <2>2. QED
    BY <1>4, <2>1, TimesReading, SMT
<1>6. /\ Y1(cal, Padc, Tadc) \in Int
      /\ -85000000 <= Y1(cal, Padc, Tadc) /\ Y1(cal, Padc, Tadc) <= 85000000
  BY <1>1, <1>5, SMT DEF Y1
<1>7. /\ A2x2(cal, Tadc) \in Int
      /\ -17000000 <= A2x2(cal, Tadc) /\ A2x2(cal, Tadc) <= 17000000
  BY <1>3, SMT DEF A2x2, bt
<1>8. p \in Int /\ -200000 <= p /\ p <= 200000
  BY <1>6, <1>7, SMT DEF PComp
<1> HIDE DEF p
<1>9. /\ (p * 1041) \div 16384 + 800 \in Int16
      /\ p * 1041 \in Int32
  BY <1>8, SMT DEF Int16, Int32
<1>10. Pressure(cal, Padc, Tadc) = (p * 1041) \div 16384 + 800
  BY <1>9, ToInt16Same DEF Pressure, p
<1>11. /\ ct \in Int32 /\ bt \in Int32
       /\ A1x1(cal, Padc, Tadc) \in Int32
       /\ Y1(cal, Padc, Tadc) \in Int32
       /\ Y1(cal, Padc, Tadc) + A2x2(cal, Tadc) \in Int32
  BY <1>2, <1>3, <1>5, <1>6, <1>7, SMT DEF Int32
<1>12. QED
  BY <1>9, <1>10, <1>11 DEF ct, bt, p

-----------------------------------------------------------------------------
\* High and low byte are bytes, and together the value they come from.
THEOREM BytesRoundTrip ==
  /\ \A n \in Int : HighByte(n) \in Byte /\ LowByte(n) \in Byte
  /\ \A n \in Int16 : ToInt16(256 * HighByte(n) + LowByte(n)) = n
  /\ \A n \in Word : 256 * HighByte(n) + LowByte(n) = n
<1>1. \A n \in Int : HighByte(n) \in Byte /\ LowByte(n) \in Byte
  BY SMT DEF HighByte, LowByte, Byte
<1>2. ASSUME NEW n \in Int PROVE n % 65536 = 256 * ((n \div 256) % 256) + (n % 256)
  <2> DEFINE q == n \div 256
             p == q \div 256
  <2>1. q \in Int /\ p \in Int
    BY SMT
  <2>2. n = 256 * q + (n % 256) /\ 0 <= n % 256 /\ n % 256 < 256
    BY SMT
  <2>3. q = 256 * p + (q % 256) /\ 0 <= q % 256 /\ q % 256 < 256
    BY <2>1, SMT
  <2> DEFINE rest == 256 * (q % 256) + (n % 256)
  <2>4. n = 65536 * p + rest /\ rest \in Int /\ 0 <= rest /\ rest < 65536
    BY <2>1, <2>2, <2>3, SMT
  <2> HIDE DEF p, q, rest
  <2>5. n % 65536 = rest
    BY <2>1, <2>4, SMT
  <2>6. QED
    BY <2>5 DEF rest, q
<1>3. ASSUME NEW n \in Int16 PROVE ToInt16(256 * HighByte(n) + LowByte(n)) = n
  <2>1. 256 * HighByte(n) + LowByte(n) = n % 65536
    BY <1>2, SMT DEF HighByte, LowByte, Int16
  <2>2. n % 65536 = IF n >= 0 THEN n ELSE n + 65536
    BY SMT DEF Int16
  <2>3. QED
    BY <2>1, <2>2, SMT DEF ToInt16, Int16
<1>4. ASSUME NEW n \in Word PROVE 256 * HighByte(n) + LowByte(n) = n
  BY <1>2, SMT DEF HighByte, LowByte, Word
<1>5. QED
  BY <1>1, <1>3, <1>4

\* tcs3414_GetData puts together the colors that were sent.
THEOREM LightRoundTrip ==
  \A light \in [red : Word, green : Word, blue : Word, clear : Word] :
    LightOf(LightBytes(light)) = light
<1> SUFFICES ASSUME NEW light \in [red : Word, green : Word, blue : Word, clear : Word]
             PROVE  LightOf(LightBytes(light)) = light
  OBVIOUS
<1>1. ASSUME NEW n \in Word PROVE LowByte(n) + 256 * HighByte(n) = n
  <2>1. HighByte(n) \in Int /\ LowByte(n) \in Int
    BY SMT DEF Word, HighByte, LowByte
  <2>2. 256 * HighByte(n) + LowByte(n) = n
    BY BytesRoundTrip
  <2>3. QED
    BY <2>1, <2>2, SMT
<1>2. LightOf(LightBytes(light)) =
        [red |-> light.red, green |-> light.green, blue |-> light.blue, clear |-> light.clear]
  BY <1>1 DEF LightOf, LightBytes
<1>3. QED
  BY <1>2
=============================================================================
