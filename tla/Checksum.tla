------------------------------ MODULE Checksum ------------------------------
(***************************************************************************)
(* The checksum of the SHT25: a frame is a data word of 16 bits (or a byte *)
(* of the serial number) and eight bits of checksum.  A word of bits is    *)
(* the set of the positions that are 1.                                    *)
(***************************************************************************)
EXTENDS Integers, FiniteSetsExt

FrameBits == 0 .. 23

\* 2^k, at k + 1.
Weight == <<1, 2, 4, 8, 16, 32, 64, 128, 256, 512, 1024, 2048, 4096, 8192, 16384, 32768>>

Bits(n)     == {k \in 0 .. 15 : (n \div Weight[k + 1]) % 2 = 1}
Shift(b, d) == {k + d : k \in b}

\* buffer = (DataValue << 8) | CRCValue
Frame(DataValue, CRCValue) ==
  (Shift(Bits(DataValue), 8) \cup CRCValue) \cap FrameBits

\* Eight bits of b from position low on as a byte, and the data of a frame.
ByteAt(b, low) ==
  LET bit(k) == IF low + k \in b THEN 1 ELSE 0
  IN bit(0) + 2 * bit(1) + 4 * bit(2) + 8 * bit(3)
       + 16 * bit(4) + 32 * bit(5) + 64 * bit(6) + 128 * bit(7)
Data(frame) == 256 * ByteAt(frame, 16) + ByteAt(frame, 8)

-----------------------------------------------------------------------------
\* x^8 + x^5 + x^4 + 1, aligned with the first bit of the data.
CRCPoly == {23, 20, 19, 15}

\* Where the loop ends: i > 7.  (The variant ends a bit early.)
LastRoundEarly == 8
LastRound      == 7

\* One round of the loop, for bit i of the buffer.
Round(i) ==
  [buffer \in SUBSET FrameBits |->
     IF i \in buffer THEN SymDiff(buffer, Shift(CRCPoly, i - 23)) ELSE buffer]

\* What a frame has become when the rounds for its bits above i are done.
Division[i \in LastRound .. 23] ==
  [frame \in SUBSET FrameBits |->
     IF i = 23 THEN frame ELSE Round(i + 1)[Division[i + 1][frame]]]

\* SHT25_VerifyCRC: the division leaves no remainder.
VerifyCRC(frame) == Division[LastRound][frame] = {}

-----------------------------------------------------------------------------
\* The sensor's end: a shift register of eight bits through which the data
\* go, first bit first, with the same polynomial fed back.
ShiftBit(bit) ==
  [crc \in SUBSET (0 .. 7) |->
     SymDiff(Shift(crc \ {7}, 1), IF bit # (7 \in crc) THEN {0, 4, 5} ELSE {})]

\* The register when the bits from n on have gone through it.
Register[n \in 0 .. 16] ==
  [bits \in SUBSET (0 .. 15) |->
     IF n = 16 THEN {} ELSE ShiftBit(n \in bits)[Register[n + 1][bits]]]
SensorCRC(word) == Register[0][Bits(word)]

\* A data word as the sensor sends it, and as it is received when the bits
\* in flips change on the way.
Sent(word)            == Frame(word, SensorCRC(word))
Received(word, flips) == SymDiff(Sent(word), flips)
=============================================================================
