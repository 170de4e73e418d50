------------------------------- MODULE SHT25 -------------------------------
(***************************************************************************)
(* Board/sht25.c and the sensor it drives: a measurement is started and    *)
(* polled for, the serial number comes in two transfers with checksums,    *)
(* the user register in one byte without.                                  *)
(*                                                                         *)
(* The sensor works beside the controller: a measurement ends when it      *)
(* ends.  Any transfer may fail, and bits may change on the way to the     *)
(* controller, also of the byte that no checksum protects; what the        *)
(* controller sends arrives, or is not acknowledged.  Delays return.       *)
(***************************************************************************)
EXTENDS Checksum, Conversions

CONSTANTS
  MaxPolls,    \* polls before a reading times out, 20
  MaxCalls,    \* bound on the calls made
  Words,       \* words the sensor can measure
  Errors,      \* sets of bits that can change in a frame on its way
  Serial,      \* the serial number: SNA, SNC words, SNB four bytes
  RegValues,   \* arguments of SHT25_WriteUserReg, sets of bits
  RegErrors    \* sets of bits that can change in the user register on its way

RegBits == 0 .. 7
SerialNumber == [a : Word, b : [1 .. 4 -> Byte], c : Word]

ASSUME SHT25Assumption ==
  /\ MaxPolls \in Nat \ {0}
  /\ MaxCalls \in Nat
  /\ Words \subseteq Word
  /\ Errors \subseteq SUBSET FrameBits \ {{}}
  /\ Serial \in SerialNumber
  /\ RegValues \subseteq SUBSET RegBits
  /\ RegErrors \subseteq SUBSET RegBits

Quantity == {"temp", "rh"}

\* Return values: SHT25_RETURN_STATUS_..., and those of the I2C transfer.
OK        == 0
CRCError  == 1
Timeout   == 2
NotAcked  == 4
ReadFirst == 128    \* flag: WriteUserReg could not read the register
Status    == {OK, CRCError, Timeout, NotAcked, ReadFirst + NotAcked}

VARIABLES
  sht,        \* the measurement in the sensor
  ureg,       \* the user register of the sensor
  pc,         \* where the main thread is
  reading,    \* the quantity being read
  i,          \* polls made
  value,      \* the bytes received, and those the sensor sent (history)
  got,        \* the values read, and the words the sensor sent (history)
  sn,         \* SNA, SNB, SNC
  reg,        \* locals of the access to the user register, and what bits
              \* changed on the way of the byte read (flips, history)
  stat,       \* what the last function returned
  call,       \* number of the call, up to MaxCalls (history)
  acked       \* the sensor has taken the last start command (history)

sensor     == <<sht, ureg>>
readLocals == <<reading, i, value, got>>
locals     == <<readLocals, sn, reg>>

\* A measurement knows in which call it was started.
NoMeasurement == [what |-> "none", done |-> FALSE, call |-> 0, frame |-> {}]
Measurement   == [what : Quantity, done : BOOLEAN, call : 0 .. MaxCalls, frame : SUBSET FrameBits]

NoValue == [what |-> "none", call |-> 0, sent |-> {}, received |-> {}]
Value   == [what : Quantity, call : 0 .. MaxCalls,
            sent : SUBSET FrameBits, received : SUBSET FrameBits]

NoReading == [number |-> 0, word |-> 0]
NothingRead == [q \in Quantity |-> NoReading]
NoSerial  == [a |-> 0, b |-> [n \in 1 .. 4 |-> 0], c |-> 0]
NoAccess  == [arg |-> {}, current |-> {}, flips |-> {}]
Access    == [arg : SUBSET RegBits, current : SUBSET RegBits, flips : SUBSET RegBits]

\* The register as the sensor comes up with it (0x3A), and its bits
\* SHT25_UREG_RESERVED_MASK.
DefaultReg == {1, 3, 4, 5}
Reserved   == {3, 4, 5}

SHT25TypeOK ==
  /\ sht \in Measurement \cup {NoMeasurement}
  /\ ureg \subseteq RegBits
  /\ reading \in Quantity
  /\ i \in 0 .. MaxPolls
  /\ value \in Value \cup {NoValue}
  /\ got \in [Quantity -> [number : Int16, word : Word]]
  /\ sn \in SerialNumber
  /\ reg \in Access
  /\ stat \in Status
  /\ call \in 0 .. MaxCalls
  /\ acked \in BOOLEAN

SHT25Init ==
  /\ sht = NoMeasurement
  /\ ureg = DefaultReg
  /\ reading = "temp"
  /\ i = 0
  /\ value = NoValue
  /\ got = NothingRead
  /\ sn = NoSerial
  /\ reg = NoAccess
  /\ stat = OK
  /\ call = 0
  /\ acked = TRUE

\* A function returns to its caller.
Return(s) ==
  /\ pc' = "back"
  /\ stat' = s

-----------------------------------------------------------------------------
(***************************************************************************)
(* SHT25_ReadTemp and SHT25_ReadRH.                                        *)
(***************************************************************************)
\* The command byte (the variant sends the one for the temperature twice).
StartCommandTemp == "temp"
StartCommand     == reading

\* Start the conversion.  The status of this transfer is overwritten by
\* that of the first poll.
Start ==
  /\ pc = "start"
  /\ \E ack \in BOOLEAN :
       /\ acked' = ack
       /\ sht' = IF ack THEN [what |-> StartCommand, done |-> FALSE, call |-> call, frame |-> {}]
                        ELSE sht
  /\ i' = 0
  /\ pc' = "poll"
  /\ UNCHANGED <<ureg, reading, value, got, sn, reg, stat, call>>

\* (The variant polls once more.)
OutOfPollsLate == i > MaxPolls
OutOfPolls     == i >= MaxPolls

\* The device answers with a finished measurement; what has been read is
\* gone from the sensor.
PollAnswered ==
  /\ pc = "poll"
  /\ ~OutOfPolls
  /\ sht.done
  /\ \E flips \in Errors \cup {{}} :
       value' = [what |-> sht.what, call |-> sht.call, sent |-> sht.frame,
                 received |-> SymDiff(sht.frame, flips)]
  /\ sht' = NoMeasurement
  /\ pc' = "check"
  /\ UNCHANGED <<ureg, reading, i, got, sn, reg, stat, call, acked>>

\* (The variant polls as long as it takes.)
NextPollSame == i
NextPoll     == i + 1

\* It has not finished, or does not answer for another reason.
PollUnanswered ==
  /\ pc = "poll"
  /\ ~OutOfPolls
  /\ i' = NextPoll
  /\ UNCHANGED <<sensor, pc, reading, value, got, sn, reg, stat, call, acked>>

\* Device did not respond.
PollTimeout ==
  /\ pc = "poll"
  /\ OutOfPolls
  /\ Return(Timeout)
  /\ i' = 0
  /\ UNCHANGED <<sensor, reading, value, got, sn, reg, call, acked>>

\* The bytes received are checked and converted, or refused.
Convert(word) == IF reading = "temp" THEN Temperature(word) ELSE Humidity(word)

CheckOK ==
  /\ pc = "check"
  /\ VerifyCRC(value.received)
  /\ got' = [got EXCEPT ![reading] =
               [number |-> Convert(Data(value.received)), word |-> Data(value.sent)]]
  /\ Return(OK)
  /\ value' = NoValue
  /\ i' = 0
  /\ UNCHANGED <<sensor, reading, sn, reg, call, acked>>

CheckFailed ==
  /\ pc = "check"
  /\ ~VerifyCRC(value.received)
  /\ Return(CRCError)
  /\ value' = NoValue
  /\ i' = 0
  /\ UNCHANGED <<sensor, reading, got, sn, reg, call, acked>>

-----------------------------------------------------------------------------
(***************************************************************************)
(* SHT25_ReadID: SNB byte by byte, then SNC and SNA, each with a checksum. *)
(***************************************************************************)
\* A sequence of data received with a checksum each, one of them garbled.
\* A byte and its checksum are 16 bits.
Answers(data) ==
  {[n \in DOMAIN data |-> Received(data[n], IF n = k THEN flips ELSE {})] :
     k \in DOMAIN data, flips \in {f \in Errors : f \subseteq 0 .. 15} \cup {{}}}
FirstAnswers  == Answers(Serial.b)
SecondAnswers == Answers(<<Serial.c, Serial.a>>)

\* (The variant looks at the first checksum only.)
VerifyFirst(frames) == VerifyCRC(frames[1])
VerifyAll(frames)   == \A n \in DOMAIN frames : VerifyCRC(frames[n])

IDNoAnswer ==
  /\ pc \in {"id1", "id2"}
  /\ Return(Timeout)
  /\ UNCHANGED <<sensor, locals, call, acked>>

ReadID1 ==
  /\ pc = "id1"
  /\ \E frames \in FirstAnswers :
       IF VerifyAll(frames)
         THEN /\ sn' = [sn EXCEPT !.b = [n \in 1 .. 4 |-> ByteAt(frames[n], 8)]]
              /\ pc' = "id2"
              /\ UNCHANGED stat
         ELSE /\ sn' = [sn EXCEPT !.b = [n \in 1 .. 4 |-> IF n = 4 THEN 255 ELSE 0]]
              /\ Return(CRCError)
  /\ UNCHANGED <<sensor, readLocals, reg, call, acked>>

ReadID2 ==
  /\ pc = "id2"
  /\ \E frames \in SecondAnswers :
       IF VerifyAll(frames)
         THEN /\ sn' = [sn EXCEPT !.a = Data(frames[2]), !.c = Data(frames[1])]
              /\ Return(OK)
         ELSE /\ sn' = [sn EXCEPT !.a = 255, !.c = 255]
              /\ Return(CRCError)
  /\ UNCHANGED <<sensor, readLocals, reg, call, acked>>

-----------------------------------------------------------------------------
(***************************************************************************)
(* SHT25_ReadUserReg (pc "regRead"), and SHT25_WriteUserReg, which reads   *)
(* (pc "regFetch") and writes (pc "regWrite").                             *)
(***************************************************************************)
RegNoAnswer ==
  \/ /\ pc \in {"regRead", "regWrite"}
     /\ Return(NotAcked)
     /\ UNCHANGED <<sensor, locals, call, acked>>
  \/ /\ pc = "regFetch"
     /\ Return(ReadFirst + NotAcked)
     /\ UNCHANGED <<sensor, locals, call, acked>>

ReadUserReg ==
  /\ pc \in {"regRead", "regFetch"}
  /\ \E flips \in RegErrors \cup {{}} :
       reg' = [reg EXCEPT !.current = SymDiff(ureg, flips), !.flips = flips]
  /\ IF pc = "regRead" THEN Return(OK) ELSE pc' = "regWrite" /\ UNCHANGED stat
  /\ UNCHANGED <<sensor, readLocals, sn, call, acked>>

\* Mask the reserved bits and write back the new values.  (The variant
\* masks the other bits.)
RegToWriteSwapped == (reg.arg \cap Reserved) \cup (reg.current \ Reserved)
RegToWrite        == (reg.arg \ Reserved) \cup (reg.current \cap Reserved)

\* The sensor does not let the battery bit be written; and it may have
\* taken a value whose transfer ends with an error.
Battery == {6}
WriteUserReg ==
  /\ pc = "regWrite"
  /\ ureg' = (RegToWrite \ Battery) \cup (ureg \cap Battery)
  /\ \E s \in {OK, NotAcked} : Return(s)
  /\ UNCHANGED <<sht, locals, call, acked>>

\* SHT25_Reset.  The sensor forgets what it was doing, if it takes the
\* command; the status is printed by nobody.
SHT25_Reset ==
  /\ pc = "idle"
  /\ \/ sht' = NoMeasurement /\ ureg' = DefaultReg
     \/ UNCHANGED sensor
  /\ UNCHANGED <<pc, locals, stat, call, acked>>

-----------------------------------------------------------------------------
\* The sensor ends its measurement.
Measured ==
  /\ sht.what # "none"
  /\ ~sht.done
  /\ \E word \in Words : sht' = [sht EXCEPT !.done = TRUE, !.frame = Sent(word)]
  /\ UNCHANGED <<ureg, pc, locals, stat, call, acked>>

ReadStep == Start \/ PollAnswered \/ PollUnanswered \/ PollTimeout \/ CheckOK \/ CheckFailed
IDStep   == IDNoAnswer \/ ReadID1 \/ ReadID2
RegStep  == RegNoAnswer \/ ReadUserReg \/ WriteUserReg
=============================================================================
