-------------------------- MODULE AcquisitionProofs --------------------------
(***************************************************************************)
(* Proofs about Acquisition, for every number of polls and of calls, every *)
(* word, error, serial number, sample and color, and whatever arrives of   *)
(* the bytes that no checksum protects.                                    *)
(***************************************************************************)
EXTENDS Acquisition, ConversionsProofs, ChecksumProofs

\* The measurement a poll can meet, and the bytes under check, belong to the
\* reading going on if its start command arrived.
OwnMeasurement ==
  /\ pc = "poll" /\ acked => sht.what = reading /\ sht.call = call
  /\ pc = "check" /\ acked => value.what = reading /\ value.call = call

\* What has arrived is a measurement, and one that is done is one at all.
Arrived ==
  /\ pc = "check" => value \in Value
  /\ sht.done => sht \in Measurement

\* The register that is about to be written is the one that was read, but for
\* the bits that changed on the way.
OwnRegister == pc = "regWrite" => reg.current = SymDiff(ureg, reg.flips)

IInv == TypeOK /\ OwnMeasurement /\ Arrived /\ OwnRegister

USE SHT25Assumption, AcquisitionAssumption

-----------------------------------------------------------------------------
(***************************************************************************)
(* Types of the operators.                                                 *)
(***************************************************************************)
LEMMA ByteAtType == \A b, low : ByteAt(b, low) \in Byte
<1> SUFFICES ASSUME NEW b, NEW low PROVE ByteAt(b, low) \in Byte
  OBVIOUS
<1> DEFINE bit(k) == IF low + k \in b THEN 1 ELSE 0
<1>1. \A k : bit(k) \in {0, 1}
  OBVIOUS
<1>2. ByteAt(b, low) = bit(0) + 2 * bit(1) + 4 * bit(2) + 8 * bit(3)
        + 16 * bit(4) + 32 * bit(5) + 64 * bit(6) + 128 * bit(7)
  BY DEF ByteAt
<1> HIDE DEF bit
<1>3. QED
  BY <1>1, <1>2, SMT DEF Byte

\* The data bits of any frame are a word of 16 bits.
LEMMA DataType == \A frame : Data(frame) \in Word
BY ByteAtType, SMT DEF Data, Byte, Word

\* What the sensor sends is a frame, and what arrives is one.
LEMMA SentType ==
  /\ \A word : Sent(word) \in SUBSET FrameBits
  /\ \A frame, flips \in SUBSET FrameBits : SymDiff(frame, flips) \in SUBSET FrameBits
BY DEF Sent, Frame, SymDiff

\* What a conversion gives is an int16_t.
LEMMA ConvertType == \A word \in Word : Convert(word) \in Int16
<1>1. \A word \in Word : Temperature(word) \in Int16 /\ Humidity(word) \in Int16
  BY TemperatureRounded, HumidityRounded
<1>2. QED
  BY <1>1 DEF Convert

\* The colors of the registers survive the way through their bytes.
LEMMA ColorsRead == \A light \in Light : LightOf(LightBytes(light)) = light
BY LightRoundTrip DEF Light

-----------------------------------------------------------------------------
\* The invariant holds when the firmware starts.
THEOREM InitInv == Init => IInv
<1> SUFFICES ASSUME Init PROVE IInv
  OBVIOUS
<1>1. SHT25TypeOK
  BY DEF Init, SHT25Init, SHT25TypeOK, NoMeasurement, NoValue, NothingRead, NoReading, NoSerial,
         NoAccess, Access, DefaultReg, RegBits, SerialNumber, Word, Byte, Int16, Quantity, Status, OK
<1>2. TypeOK
  BY <1>1 DEF Init, TypeOK, NoPressure, Sample, Adc, Int16
<1>3. OwnMeasurement /\ Arrived /\ OwnRegister
  BY DEF Init, SHT25Init, OwnMeasurement, Arrived, OwnRegister, NoMeasurement
<1>4. QED
  BY <1>2, <1>3 DEF IInv
-----------------------------------------------------------------------------
(***************************************************************************)
(* The steps of the drivers.                                               *)
(***************************************************************************)
\* The start command replaces what the sensor was doing, or is lost.
LEMMA StartInv == IInv /\ Start /\ UNCHANGED others => IInv'
<1> SUFFICES ASSUME IInv, Start, UNCHANGED others PROVE IInv'
  OBVIOUS
<1>1. PICK ack \in BOOLEAN :
        /\ acked' = ack
        /\ sht' = IF ack THEN [what |-> reading, done |-> FALSE, call |-> call, frame |-> {}]
                         ELSE sht
  BY DEF Start, StartCommand
<1>2. sht' \in Measurement \cup {NoMeasurement}
  BY <1>1 DEF IInv, TypeOK, SHT25TypeOK, Measurement
<1>3. TypeOK'
  BY <1>1, <1>2 DEF IInv, TypeOK, SHT25TypeOK, Start, others, converter, results
<1>4. OwnMeasurement' /\ Arrived' /\ OwnRegister'
  BY <1>1 DEF IInv, OwnMeasurement, Arrived, OwnRegister, Start
<1>5. QED
  BY <1>3, <1>4 DEF IInv

\* A poll hands the measurement over, or finds no answer.
LEMMA PollInv ==
  IInv /\ (PollAnswered \/ PollUnanswered \/ PollTimeout) /\ UNCHANGED others => IInv'
<1> SUFFICES ASSUME IInv, PollAnswered \/ PollUnanswered \/ PollTimeout, UNCHANGED others
             PROVE  IInv'
  OBVIOUS
<1>1. CASE PollAnswered
  <2>1. sht \in Measurement
    BY <1>1 DEF PollAnswered, IInv, Arrived
  <2>2. PICK flips \in Errors \cup {{}} :
          value' = [what |-> sht.what, call |-> sht.call, sent |-> sht.frame,
                    received |-> SymDiff(sht.frame, flips)]
    BY <1>1 DEF PollAnswered
  <2>3. value' \in Value
    <3>1. sht.frame \in SUBSET FrameBits /\ flips \in SUBSET FrameBits
      BY <2>1 DEF Measurement
    <3>2. SymDiff(sht.frame, flips) \in SUBSET FrameBits
      BY <3>1, SentType
    <3>3. QED
      BY <2>1, <2>2, <3>1, <3>2 DEF Measurement, Value
  <2>4. TypeOK'
    BY <1>1, <2>3 DEF IInv, TypeOK, SHT25TypeOK, PollAnswered, others, converter, results
  <2>5. OwnMeasurement'
    BY <1>1, <2>2 DEF IInv, OwnMeasurement, PollAnswered
  <2>6. Arrived' /\ OwnRegister'
    BY <1>1, <2>3 DEF IInv, Arrived, OwnRegister, PollAnswered, NoMeasurement
  <2>7. QED
    BY <2>4, <2>5, <2>6 DEF IInv
<1>2. CASE PollUnanswered
  <2>1. i' \in 0 .. MaxPolls
    BY <1>2 DEF IInv, TypeOK, SHT25TypeOK, PollUnanswered, NextPoll, OutOfPolls
  <2>2. TypeOK'
    BY <1>2, <2>1
       DEF IInv, TypeOK, SHT25TypeOK, PollUnanswered, sensor, others, converter, results
  <2>3. OwnMeasurement' /\ Arrived' /\ OwnRegister'
    BY <1>2
       DEF IInv, OwnMeasurement, Arrived, OwnRegister, PollUnanswered, sensor
  <2>4. QED
    BY <2>2, <2>3 DEF IInv
<1>3. CASE PollTimeout
  <2>1. TypeOK'
    BY <1>3
       DEF IInv, TypeOK, SHT25TypeOK, PollTimeout, Return, Timeout, Status, sensor,
           others, converter, results
  <2>2. OwnMeasurement' /\ Arrived' /\ OwnRegister'
    BY <1>3
       DEF IInv, OwnMeasurement, Arrived, OwnRegister, PollTimeout, Return, sensor
  <2>3. QED
    BY <2>1, <2>2 DEF IInv
<1>4. QED
  BY <1>1, <1>2, <1>3

\* The bytes are checked and converted, or refused.
LEMMA CheckInv == IInv /\ (CheckOK \/ CheckFailed) /\ UNCHANGED others => IInv'
<1> SUFFICES ASSUME IInv, CheckOK \/ CheckFailed, UNCHANGED others PROVE IInv'
  OBVIOUS
<1>1. got' \in [Quantity -> [number : Int16, word : Word]]
  <2>1. CASE CheckOK
    <3> DEFINE read == [number |-> Convert(Data(value.received)), word |-> Data(value.sent)]
    <3>1. read \in [number : Int16, word : Word]
      BY DataType, ConvertType
    <3>2. got' = [got EXCEPT ![reading] = read]
      BY <2>1 DEF CheckOK
    <3> HIDE DEF read
    <3>3. QED
      BY <3>1, <3>2 DEF IInv, TypeOK, SHT25TypeOK
  <2>2. CASE CheckFailed
    BY <2>2 DEF CheckFailed, IInv, TypeOK, SHT25TypeOK
  <2>3. QED
    BY <2>1, <2>2
<1>2. /\ pc' = "back" /\ stat' \in {OK, CRCError} /\ value' = NoValue /\ i' = 0
      /\ UNCHANGED <<sht, ureg, reading, sn, reg, call, acked>>
  BY DEF CheckOK, CheckFailed, Return, sensor
<1>3. TypeOK'
  BY <1>1, <1>2
     DEF IInv, TypeOK, SHT25TypeOK, Status, others, converter, results
<1>4. OwnMeasurement' /\ Arrived' /\ OwnRegister'
  BY <1>2 DEF IInv, OwnMeasurement, Arrived, OwnRegister
<1>5. QED
  BY <1>3, <1>4 DEF IInv

\* The serial number arrives in words and bytes, or is not taken.
LEMMA IDInv == IInv /\ IDStep /\ UNCHANGED others => IInv'
<1> SUFFICES ASSUME IInv, IDStep, UNCHANGED others PROVE IInv'
  OBVIOUS
<1>1. sn' \in SerialNumber
  <2>1. CASE IDNoAnswer
    BY <2>1 DEF IDNoAnswer, locals, IInv, TypeOK, SHT25TypeOK
  <2>2. CASE ReadID1
    <3>1. PICK frames \in FirstAnswers :
            sn' = [sn EXCEPT !.b = IF VerifyAll(frames)
                     THEN [n \in 1 .. 4 |-> ByteAt(frames[n], 8)]
                     ELSE [n \in 1 .. 4 |-> IF n = 4 THEN 255 ELSE 0]]
      BY <2>2 DEF ReadID1
    <3>2. [n \in 1 .. 4 |-> ByteAt(frames[n], 8)] \in [1 .. 4 -> Byte]
      BY ByteAtType
    <3>3. [n \in 1 .. 4 |-> IF n = 4 THEN 255 ELSE 0] \in [1 .. 4 -> Byte]
      BY SMT DEF Byte
    <3>4. QED
      BY <3>1, <3>2, <3>3 DEF IInv, TypeOK, SHT25TypeOK, SerialNumber
  <2>3. CASE ReadID2
    <3>1. PICK frames \in SecondAnswers :
            sn' = IF VerifyAll(frames)
                    THEN [sn EXCEPT !.a = Data(frames[2]), !.c = Data(frames[1])]
                    ELSE [sn EXCEPT !.a = 255, !.c = 255]
      BY <2>3 DEF ReadID2
    <3>2. Data(frames[1]) \in Word /\ Data(frames[2]) \in Word /\ 255 \in Word
      BY DataType, SMT DEF Word
    <3>3. sn \in [a : Word, b : [1 .. 4 -> Byte], c : Word]
      BY DEF IInv, TypeOK, SHT25TypeOK, SerialNumber
    <3>4. PICK x \in Word, y \in Word : sn' = [sn EXCEPT !.a = x, !.c = y]
      BY <3>1, <3>2
    <3>5. sn' \in [a : Word, b : [1 .. 4 -> Byte], c : Word]
      BY <3>3, <3>4
    <3>6. QED
      BY <3>5 DEF SerialNumber
  <2>4. QED
    BY <2>1, <2>2, <2>3 DEF IDStep
<1>2. /\ pc' \in {"back", "id2"} /\ stat' \in Status
      /\ UNCHANGED <<sht, ureg, reading, i, value, got, reg, call, acked>>
  BY DEF IDStep, IDNoAnswer, ReadID1, ReadID2, Return, sensor, locals, readLocals, Status,
         IInv, TypeOK, SHT25TypeOK
<1>3. TypeOK'
  BY <1>1, <1>2 DEF IInv, TypeOK, SHT25TypeOK, others, converter, results
<1>4. OwnMeasurement' /\ Arrived' /\ OwnRegister'
  BY <1>2 DEF IInv, OwnMeasurement, Arrived, OwnRegister
<1>5. QED
  BY <1>3, <1>4 DEF IInv

\* The user register is read, or written after it has been read.
LEMMA RegInv == IInv /\ RegStep /\ UNCHANGED others => IInv'
<1> SUFFICES ASSUME IInv, RegStep, UNCHANGED others PROVE IInv'
  OBVIOUS
<1>1. /\ ureg' \in SUBSET RegBits
      /\ reg' \in Access
      /\ pc' = "regWrite" => reg'.current = SymDiff(ureg', reg'.flips)
      /\ pc' \in {"back", "regWrite"} /\ stat' \in Status
  <2>1. CASE RegNoAnswer
    BY <2>1 DEF RegNoAnswer, Return, sensor, locals, Status, ReadFirst, NotAcked,
                IInv, TypeOK, SHT25TypeOK
  <2>2. CASE ReadUserReg
    <3>1. PICK flips \in RegErrors \cup {{}} :
            reg' = [reg EXCEPT !.current = SymDiff(ureg, flips), !.flips = flips]
      BY <2>2 DEF ReadUserReg
    <3>2. ureg' = ureg /\ ureg \in SUBSET RegBits
      BY <2>2 DEF ReadUserReg, sensor, IInv, TypeOK, SHT25TypeOK
    <3>3. flips \in SUBSET RegBits /\ SymDiff(ureg, flips) \in SUBSET RegBits
      BY <3>2 DEF SymDiff
    <3>4. reg \in Access
      BY DEF IInv, TypeOK, SHT25TypeOK
    <3>5. /\ reg' \in Access
          /\ reg'.current = SymDiff(ureg, flips) /\ reg'.flips = flips
      BY <3>1, <3>3, <3>4 DEF Access
    <3>6. pc' \in {"back", "regWrite"} /\ stat' \in Status
      BY <2>2 DEF ReadUserReg, Return, Status, OK, IInv, TypeOK, SHT25TypeOK
    <3>7. QED
      BY <3>2, <3>5, <3>6
  <2>3. CASE WriteUserReg
    <3>1. reg \in Access /\ ureg \in SUBSET RegBits
      BY DEF IInv, TypeOK, SHT25TypeOK
    <3>2. ureg' \in SUBSET RegBits
      BY <2>3, <3>1 DEF WriteUserReg, RegToWrite, Access
    <3>3. QED
      BY <2>3, <3>1, <3>2 DEF WriteUserReg, Return, locals, Status, OK, NotAcked
  <2>4. QED
    BY <2>1, <2>2, <2>3 DEF RegStep
<1>2. UNCHANGED <<sht, reading, i, value, got, sn, call, acked>>
  BY DEF RegStep, RegNoAnswer, ReadUserReg, WriteUserReg, sensor, locals, readLocals
<1>3. TypeOK'
  BY <1>1, <1>2 DEF IInv, TypeOK, SHT25TypeOK, others, converter, results
<1>4. OwnMeasurement' /\ Arrived' /\ OwnRegister'
  BY <1>1, <1>2 DEF IInv, OwnMeasurement, Arrived, OwnRegister
<1>5. QED
  BY <1>3, <1>4 DEF IInv

-----------------------------------------------------------------------------
(***************************************************************************)
(* The steps of GetDataSet, of the handlers and of the devices.            *)
(***************************************************************************)
\* A call that begins has not started a measurement yet.
LEMMA CallInv == ASSUME IInv, NEW g \in DOMAIN Entry, Call(g) PROVE IInv'
<1>1. PICK arg \in SUBSET RegBits : reg' = [NoAccess EXCEPT !.arg = arg]
  BY DEF Call
<1>2. reg' \in Access
  BY <1>1 DEF NoAccess, Access
<1>3. /\ g \in {"data", "temp", "rh", "id", "regread", "regwrite", "pres"}
      /\ pc' \in {"start", "id1", "regRead", "regFetch", "pressure"}
  BY DEF Call, Entry
<1>4. TypeOK'
  BY <1>2, <1>3
     DEF IInv, TypeOK, SHT25TypeOK, Call, sensor, converter, results, Status, Quantity
<1>5. OwnMeasurement' /\ Arrived' /\ OwnRegister'
  BY <1>3 DEF IInv, OwnMeasurement, Arrived, OwnRegister, Call, sensor
<1>6. QED
  BY <1>4, <1>5 DEF IInv

\* Between two functions, and after the last.
LEMMA BetweenInv == IInv /\ (NextSensor \/ HandlerEnds) => IInv'
<1> SUFFICES ASSUME IInv, NextSensor \/ HandlerEnds PROVE IInv'
  OBVIOUS
<1>1. CASE NextSensor
  BY <1>1
     DEF NextSensor, IInv, TypeOK, SHT25TypeOK, OwnMeasurement, Arrived, OwnRegister,
         sensor, others, converter, results, Quantity
<1>2. CASE HandlerEnds
  <2>1. /\ NothingRead \in [Quantity -> [number : Int16, word : Word]]
        /\ NoSerial \in SerialNumber
        /\ NoAccess \in Access
        /\ NoPressure \in [number : Int16, sample : Sample]
    BY SMT DEF NothingRead, NoReading, NoSerial, SerialNumber, NoAccess, Access, NoPressure,
               Sample, Word, Byte, Int16, Adc
  <2>2. TypeOK'
    BY <1>2, <2>1
       DEF HandlerEnds, IInv, TypeOK, SHT25TypeOK, sensor, converter
  <2>3. OwnMeasurement' /\ Arrived' /\ OwnRegister'
    BY <1>2 DEF HandlerEnds, IInv, OwnMeasurement, Arrived, OwnRegister, sensor
  <2>4. QED
    BY <2>2, <2>3 DEF IInv
<1>3. QED
  BY <1>1, <1>2

\* The pressure is an int16_t whatever the sensor delivers.
LEMMA PressureInv == IInv /\ GetPressure => IInv'
<1> SUFFICES ASSUME IInv, GetPressure PROVE IInv'
  OBVIOUS
<1>1. PICK answer \in CalAnswers, s \in Samples : \E arrived \in BadSamples \cup {s} :
        /\ cal' = IF Captured THEN cal ELSE answer
        /\ pressure' = [number |-> Pressure(cal', arrived.padc, arrived.tadc), sample |-> s]
        /\ damaged' = damaged \cup (IF CalDamaged(answer) THEN {"coefficients"} ELSE {})
                              \cup (IF arrived # s THEN {"sample"} ELSE {})
  BY DEF GetPressure
<1>2. PICK arrived \in BadSamples \cup {s} :
        pressure' = [number |-> Pressure(cal', arrived.padc, arrived.tadc), sample |-> s]
  BY <1>1
<1>3. cal' \in Calibration /\ damaged' \subseteq {"coefficients", "sample", "colors"}
  BY <1>1 DEF IInv, TypeOK
<1>4. s \in Sample /\ arrived.padc \in Adc /\ arrived.tadc \in Adc
  BY DEF Sample
<1>5. pressure' \in [number : Int16, sample : Sample]
  BY <1>2, <1>3, <1>4, PressureFits
<1>6. TypeOK'
  BY <1>3, <1>5
     DEF GetPressure, IInv, TypeOK, SHT25TypeOK, sensor, locals, readLocals, converter
<1>7. OwnMeasurement' /\ Arrived' /\ OwnRegister'
  BY DEF GetPressure, IInv, OwnMeasurement, Arrived, OwnRegister, sensor, locals,
         readLocals, converter
<1>8. QED
  BY <1>6, <1>7 DEF IInv

\* The data set is filled with colors, those of the registers or damaged ones.
LEMMA ColorsTaken ==
  ASSUME IInv, AdcRead
  PROVE  \E arrived \in Light :
           /\ dataSet' = DataSetBytes(Now, got["temp"].number, got["rh"].number, pressure.number,
                                      arrived)
           /\ damaged' = damaged \cup (IF arrived # colors THEN {"colors"} ELSE {})
<1>1. PICK arrived \in BadColors \cup {colors} :
        /\ dataSet' = DataSetBytes(Now, got["temp"].number, got["rh"].number, pressure.number,
                                   LightOf(LightBytes(arrived)))
        /\ damaged' = damaged \cup (IF arrived # colors THEN {"colors"} ELSE {})
  BY DEF AdcRead
<1>2. arrived \in Light
  BY DEF IInv, TypeOK
<1>3. QED
  BY <1>1, <1>2, ColorsRead

\* The valid bit is looked at and the colors are read.
LEMMA AdcInv == IInv /\ (AdcCheck \/ AdcRead \/ AdcFailed) => IInv'
<1> SUFFICES ASSUME IInv, AdcCheck \/ AdcRead \/ AdcFailed PROVE IInv'
  OBVIOUS
<1>1. CASE AdcCheck
  <2>1. \/ pc' = "adcRead" /\ stat' = stat
        \/ pc' = "back" /\ stat' = CRCError
    <3>1. PICK ack \in BOOLEAN :
            \E valid \in ValidBit(ack) :
              IF valid THEN pc' = "adcRead" /\ UNCHANGED stat ELSE Return(CRCError)
      BY <1>1 DEF AdcCheck
    <3>2. QED
      BY <3>1 DEF Return
  <2>2. TypeOK'
    BY <1>1, <2>1
       DEF AdcCheck, IInv, TypeOK, SHT25TypeOK, Status, sensor, locals, readLocals,
           others, converter, results
  <2>3. OwnMeasurement' /\ Arrived' /\ OwnRegister'
    BY <1>1, <2>1
       DEF AdcCheck, IInv, OwnMeasurement, Arrived, OwnRegister, sensor, locals, readLocals
  <2>4. QED
    BY <2>2, <2>3 DEF IInv
<1>2. CASE AdcRead
  <2>1. dataSet' \in [1 .. 18 -> Byte]
    <3>1. /\ got["temp"].number \in Int /\ got["rh"].number \in Int /\ pressure.number \in Int
      BY SMT DEF IInv, TypeOK, SHT25TypeOK, Quantity, Int16
    <3>2. PICK arrived \in Light :
            dataSet' = DataSetBytes(Now, got["temp"].number, got["rh"].number, pressure.number,
                                    arrived)
      BY <1>2, ColorsTaken
    <3>3. /\ arrived.red \in Int /\ arrived.green \in Int
          /\ arrived.blue \in Int /\ arrived.clear \in Int
      BY <3>2, SMT DEF Light, Word
    <3>4. Now.month \in Byte /\ Now.day \in Byte /\ Now.hour \in Byte /\ Now.min \in Byte
      OBVIOUS
    <3>5. \A n \in Int : HighByte(n) \in Byte /\ LowByte(n) \in Byte
      BY BytesRoundTrip
    <3>6. QED
      BY <3>1, <3>2, <3>3, <3>4, <3>5 DEF DataSetBytes
  <2>2. TypeOK'
    <3>1. damaged' \subseteq {"coefficients", "sample", "colors"}
      BY <1>2, ColorsTaken DEF IInv, TypeOK
    <3>2. QED
      BY <1>2, <2>1, <3>1
         DEF AdcRead, IInv, TypeOK, SHT25TypeOK, Return, Status, sensor, locals, readLocals,
             converter
  <2>3. OwnMeasurement' /\ Arrived' /\ OwnRegister'
    BY <1>2
       DEF AdcRead, IInv, OwnMeasurement, Arrived, OwnRegister, Return, sensor,
           locals, readLocals
  <2>4. QED
    BY <2>2, <2>3 DEF IInv
<1>3. CASE AdcFailed
  <2>1. TypeOK'
    BY <1>3
       DEF AdcFailed, IInv, TypeOK, SHT25TypeOK, Return, Status, sensor, locals, readLocals,
           others, converter, results
  <2>2. OwnMeasurement' /\ Arrived' /\ OwnRegister'
    BY <1>3
       DEF AdcFailed, IInv, OwnMeasurement, Arrived, OwnRegister, Return, sensor,
           locals, readLocals
  <2>3. QED
    BY <2>1, <2>2 DEF IInv
<1>4. QED
  BY <1>1, <1>2, <1>3

\* The commands between two calls, and what the devices do by themselves.
LEMMA DevicesInv ==
  /\ IInv /\ SHT25_Reset /\ UNCHANGED others => IInv'
  /\ IInv /\ Measured /\ UNCHANGED others => IInv'
  /\ IInv /\ (WriteReg \/ Converted \/ UNCHANGED vars) => IInv'
<1>1. ASSUME IInv, SHT25_Reset, UNCHANGED others PROVE IInv'
  <2>1. DefaultReg \subseteq RegBits
    BY DEF DefaultReg, RegBits
  <2>2. TypeOK'
    BY <1>1, <2>1
       DEF SHT25_Reset, IInv, TypeOK, SHT25TypeOK, sensor, locals, readLocals, others,
           converter, results
  <2>3. OwnMeasurement' /\ Arrived' /\ OwnRegister'
    BY <1>1
       DEF SHT25_Reset, IInv, OwnMeasurement, Arrived, OwnRegister, sensor, locals,
           readLocals, others, converter, NoMeasurement
  <2>4. QED
    BY <2>2, <2>3 DEF IInv
<1>2. ASSUME IInv, Measured, UNCHANGED others PROVE IInv'
  <2>1. PICK word \in Words : sht' = [sht EXCEPT !.done = TRUE, !.frame = Sent(word)]
    BY <1>2 DEF Measured
  <2>2. sht \in Measurement /\ Sent(word) \in SUBSET FrameBits
    BY <1>2, SentType DEF Measured, IInv, TypeOK, SHT25TypeOK, NoMeasurement
  <2>3. sht' \in Measurement /\ sht'.what = sht.what /\ sht'.call = sht.call
    BY <2>1, <2>2 DEF Measurement
  <2>4. TypeOK'
    BY <1>2, <2>3
       DEF Measured, IInv, TypeOK, SHT25TypeOK, locals, readLocals, others, converter, results
  <2>5. OwnMeasurement' /\ Arrived' /\ OwnRegister'
    BY <1>2, <2>3
       DEF Measured, IInv, OwnMeasurement, Arrived, OwnRegister, locals, readLocals,
           others, converter
  <2>6. QED
    BY <2>4, <2>5 DEF IInv
<1>3. ASSUME IInv, WriteReg \/ Converted PROVE IInv'
  <2>1. TypeOK'
    BY <1>3
       DEF WriteReg, Converted, IInv, TypeOK, SHT25TypeOK, sensor, locals, readLocals, results
  <2>2. OwnMeasurement' /\ Arrived' /\ OwnRegister'
    BY <1>3
       DEF WriteReg, Converted, IInv, OwnMeasurement, Arrived, OwnRegister, sensor,
           locals, readLocals
  <2>3. QED
    BY <2>1, <2>2 DEF IInv
<1>4. ASSUME IInv, UNCHANGED vars PROVE IInv'
  BY <1>4
     DEF vars, sensor, locals, readLocals, others, converter, results, IInv, TypeOK, SHT25TypeOK,
         OwnMeasurement, Arrived, OwnRegister
<1>5. QED
  BY <1>1, <1>2, <1>3, <1>4

\* The invariant is inductive.
THEOREM NextInv == IInv /\ [Next]_vars => IInv'
<1> SUFFICES ASSUME IInv, [Next]_vars PROVE IInv'
  OBVIOUS
<1>1. CASE \E g \in DOMAIN Entry : Call(g)
  BY <1>1, CallInv
<1>2. CASE DriverStep
  BY <1>2, StartInv, PollInv, CheckInv, IDInv, RegInv DEF DriverStep, ReadStep
<1>3. CASE DataSetStep \/ NextSensor \/ HandlerEnds
  BY <1>3, BetweenInv, PressureInv, AdcInv DEF DataSetStep
<1>4. CASE \/ (SHT25_Reset /\ UNCHANGED others) \/ (Measured /\ UNCHANGED others)
           \/ WriteReg \/ Converted \/ UNCHANGED vars
  BY <1>4, DevicesInv
<1>5. QED
  BY <1>1, <1>2, <1>3, <1>4 DEF Next, Step

\* The invariant holds in every state.
THEOREM Invariance == Spec => []IInv
<1>1. QED
  BY InitInv, NextInv, PTL DEF Spec

-----------------------------------------------------------------------------
\* Every variable keeps its type: the reading gives up after MaxPolls polls,
\* no value leaves the width it has in C.
THEOREM TypeCorrect == Spec => []TypeOK
<1>1. IInv => TypeOK
  BY DEF IInv
<1>2. QED
  BY Invariance, <1>1, PTL

\* A reading whose start command arrived takes its own measurement: a late
\* answer to a call that has timed out is never taken for a new one.
THEOREM StartedValue == Spec => StartedValueIsTaken
<1>1. IInv /\ [Next]_vars => [RightValue]_vars
  BY DEF IInv, OwnMeasurement, RightValue, Taken
<1>2. QED
  BY Invariance, <1>1, PTL DEF Spec, StartedValueIsTaken

\* A write to the user register changes no reserved bits but those that
\* changed on the way of the byte it read first; one that reports OK has
\* changed them, and has written the other bits.
THEOREM ReservedKept == Spec => ReservedBitsKept
<1>1. ASSUME IInv, Next, pc = "regWrite"
      PROVE  /\ ureg' = ureg \/ WriteUserReg
             /\ pc' = "back" /\ stat' = OK => WriteUserReg
  <2>1. ~(\E g \in DOMAIN Entry : Call(g)) /\ ~SHT25_Reset /\ ~WriteReg
    BY <1>1 DEF Call, SHT25_Reset, WriteReg
  <2>2. CASE DriverStep
    BY <1>1, <2>2
       DEF DriverStep, ReadStep, IDStep, RegStep, Start, PollAnswered, PollUnanswered,
           PollTimeout, CheckOK, CheckFailed, IDNoAnswer, ReadID1, ReadID2, RegNoAnswer,
           ReadUserReg, Return, OK, NotAcked, sensor
  <2>3. ~DataSetStep /\ ~NextSensor /\ ~HandlerEnds
    BY <1>1
       DEF DataSetStep, GetPressure, AdcCheck, AdcRead, AdcFailed, NextSensor, HandlerEnds
  <2>4. CASE Measured \/ Converted
    BY <1>1, <2>4 DEF Measured, Converted, sensor
  <2>5. QED
    BY <1>1, <2>1, <2>2, <2>3, <2>4 DEF Next, Step
<1>2. ASSUME IInv, WriteUserReg, pc = "regWrite"
      PROVE  /\ SymDiff(ureg', ureg) \cap Reserved \subseteq reg.flips
             /\ ureg' \ Battery = (reg.arg \ (Reserved \cup Battery))
                                    \cup (SymDiff(ureg, reg.flips) \cap Reserved)
  <2>1. ureg' = (RegToWrite \ Battery) \cup (ureg \cap Battery)
    BY <1>2 DEF WriteUserReg
  <2>2. reg.current = SymDiff(ureg, reg.flips)
    BY <1>2 DEF IInv, OwnRegister
  <2>3. Reserved \cap Battery = {}
    BY DEF Reserved, Battery
  <2>4. QED
    BY <2>1, <2>2, <2>3 DEF RegToWrite, SymDiff
<1>3. ASSUME IInv, Next PROVE Written
  <2>1. ureg' = ureg => SymDiff(ureg', ureg) = {}
    BY DEF SymDiff
  <2>2. QED
    BY <1>1, <1>2, <1>3, <2>1 DEF Written
<1>4. IInv /\ [Next]_vars => [Written]_vars
  BY <1>3
<1>5. QED
  BY Invariance, <1>4, PTL DEF Spec, ReservedBitsKept
-----------------------------------------------------------------------------
(***************************************************************************)
(* From the sensors to the data: what else holds when every error of the   *)
(* transfer is one that the checksum is there for.                         *)
(***************************************************************************)
ErrorsDetectable == \A flips \in Errors : Detectable(flips)

\* What the sensor holds ready, and what has arrived, is a word it measured,
\* but for an error of the transfer.
Carried ==
  /\ sht.done => \E word \in Words : sht.frame = Sent(word)
  /\ pc = "check" => \E word \in Words, flips \in Errors \cup {{}} :
                       value.sent = Sent(word) /\ value.received = Received(word, flips)

\* Which call the main thread is in.
GoalOf ==
  /\ pc \in {"id1", "id2"} => goal = "id"
  /\ pc = "regRead" => goal = "regread"
  /\ pc \in {"regFetch", "regWrite"} => goal = "regwrite"
  /\ pc \in {"adcCheck", "adcRead"} => goal = "data"

\* The readings of GetDataSet that are over have left their values.
Rounded(q) == IF q = "temp" THEN IsRounded(got["temp"], 17572, -307036160)
                            ELSE IsRounded(got["rh"], 12500, -39321600)
ReadBefore ==
  goal = "data" =>
    /\ pc # "idle" /\ reading = "rh" => Rounded("temp")
    /\ pc \in {"pressure", "adcCheck", "adcRead"} => reading = "rh" /\ Rounded("rh")
    /\ pc = "back" /\ stat = OK => Rounded(reading)

\* The pressure is that of the sample found and of the sensor's coefficients,
\* if these and the sample were not damaged on the way.
PressureOfSensor ==
  pc \in {"adcCheck", "adcRead"} /\ {"coefficients", "sample"} \cap damaged = {} =>
    pressure.number = Pressure(TrueCal, pressure.sample.padc, pressure.sample.tadc)

\* The first half of the serial number is there when the second is asked for.
FirstHalf == pc = "id2" => sn.b = Serial.b

DataInv ==
  /\ Carried /\ GoalOf /\ ReadBefore /\ PressureOfSensor /\ FirstHalf

\* Bytes that arrive are taken if and only if nothing has changed in them.
LEMMA TakenIfSent ==
  ASSUME ErrorsDetectable, NEW word, NEW flips \in Errors \cup {{}}
  PROVE  /\ VerifyCRC(Received(word, flips)) <=> flips = {}
         /\ Received(word, flips) = Sent(word) <=> flips = {}
<1>1. flips \in SUBSET FrameBits /\ (Detectable(flips) \/ flips = {})
  BY DEF ErrorsDetectable
<1>2. VerifyCRC(Received(word, flips)) <=> flips = {}
  BY <1>1, Detected
<1>3. Received(word, flips) = Sent(word) <=> flips = {}
  BY DEF Received, SymDiff
<1>4. QED
  BY <1>2, <1>3

\* The steps that touch neither the sensor nor the bytes that have arrived.
LEMMA CarriedInv == IInv /\ Carried /\ [Next]_vars => Carried'
<1> SUFFICES ASSUME IInv, Carried, [Next]_vars PROVE Carried'
  OBVIOUS
<1>1. CASE Start
  <2>1. sht'.done => sht' = sht
    BY <1>1 DEF Start, StartCommand
  <2>2. pc' # "check"
    BY <1>1 DEF Start
  <2>3. QED
    BY <2>1, <2>2 DEF Carried
<1>2. CASE PollAnswered
  <2>1. PICK word \in Words : sht.frame = Sent(word)
    BY <1>2 DEF PollAnswered, Carried
  <2>2. PICK flips \in Errors \cup {{}} :
          value' = [what |-> sht.what, call |-> sht.call, sent |-> sht.frame,
                    received |-> SymDiff(sht.frame, flips)]
    BY <1>2 DEF PollAnswered
  <2>3. value'.sent = Sent(word) /\ value'.received = Received(word, flips)
    BY <2>1, <2>2 DEF Received
  <2>4. ~sht'.done
    BY <1>2 DEF PollAnswered, NoMeasurement
  <2>5. QED
    BY <2>3, <2>4 DEF Carried
<1>3. CASE Measured
  <2>1. PICK word \in Words : sht' = [sht EXCEPT !.done = TRUE, !.frame = Sent(word)]
    BY <1>3 DEF Measured
  <2>2. sht \in Measurement
    BY <1>3 DEF Measured, IInv, TypeOK, SHT25TypeOK, NoMeasurement
  <2>3. sht'.frame = Sent(word)
    BY <2>1, <2>2 DEF Measurement
  <2>4. pc' = pc /\ value' = value
    BY <1>3 DEF Measured, locals, readLocals
  <2>5. QED
    BY <2>3, <2>4 DEF Carried
<1>4. CASE ~(Start \/ PollAnswered \/ Measured)
  <2>1. sht' = sht \/ ~sht'.done
    <3>1. CASE \E g \in DOMAIN Entry : Call(g)
      BY <3>1 DEF Call, sensor
    <3>2. CASE DriverStep
      BY <1>4, <3>2
         DEF DriverStep, ReadStep, IDStep, RegStep, PollUnanswered, PollTimeout, CheckOK,
             CheckFailed, IDNoAnswer, ReadID1, ReadID2, RegNoAnswer, ReadUserReg, WriteUserReg,
             sensor
    <3>3. CASE DataSetStep \/ NextSensor \/ HandlerEnds
      BY <3>3
         DEF DataSetStep, GetPressure, AdcCheck, AdcRead, AdcFailed, NextSensor, HandlerEnds,
             sensor
    <3>4. CASE SHT25_Reset
      BY <3>4 DEF SHT25_Reset, NoMeasurement, sensor
    <3>5. CASE WriteReg \/ Converted \/ UNCHANGED vars
      BY <3>5 DEF WriteReg, Converted, vars, sensor
    <3>6. QED
      BY <1>4, <3>1, <3>2, <3>3, <3>4, <3>5 DEF Next, Step
  <2>2. pc' = "check" => pc = "check" /\ value' = value
    BY <1>4
       DEF Next, Step, DriverStep, DataSetStep, ReadStep, IDStep, RegStep, Call, Entry,
           SHT25_Reset, WriteReg, PollUnanswered, PollTimeout, CheckOK, CheckFailed, IDNoAnswer,
           ReadID1, ReadID2, RegNoAnswer, ReadUserReg, WriteUserReg, NextSensor, HandlerEnds,
           GetPressure, AdcCheck, AdcRead, AdcFailed, Converted, Return, sensor, locals,
           readLocals, vars
  <2>3. QED
    BY <2>1, <2>2 DEF Carried
<1>5. QED
  BY <1>1, <1>2, <1>3, <1>4

\* After every step the call is still the one that its steps belong to.
LEMMA GoalInv == IInv /\ GoalOf /\ [Next]_vars => GoalOf'
<1> SUFFICES ASSUME IInv, GoalOf, [Next]_vars PROVE GoalOf'
  OBVIOUS
<1>1. CASE \E g \in DOMAIN Entry : Call(g)
  BY <1>1 DEF Call, Entry, GoalOf
<1>2. CASE DriverStep
  BY <1>2
     DEF DriverStep, ReadStep, IDStep, RegStep, Start, PollAnswered, PollUnanswered, PollTimeout,
         CheckOK, CheckFailed, IDNoAnswer, ReadID1, ReadID2, RegNoAnswer, ReadUserReg,
         WriteUserReg, Return, GoalOf, others
<1>3. CASE DataSetStep \/ NextSensor \/ HandlerEnds
  BY <1>3
     DEF DataSetStep, GetPressure, AdcCheck, AdcRead, AdcFailed, NextSensor, HandlerEnds, GoesOn,
         Return, GoalOf, others
<1>4. CASE \/ (SHT25_Reset /\ UNCHANGED others) \/ (Measured /\ UNCHANGED others)
           \/ WriteReg \/ Converted \/ UNCHANGED vars
  BY <1>4 DEF SHT25_Reset, Measured, WriteReg, Converted, vars, others, GoalOf
<1>5. QED
  BY <1>1, <1>2, <1>3, <1>4 DEF Next, Step

\* What the application of a conversion to a word leaves is rounded.
LEMMA ConvertRounded ==
  ASSUME NEW word \in Word, NEW q \in Quantity, reading = q,
         got' = [got EXCEPT ![q] = [number |-> Convert(word), word |-> word]],
         got \in [Quantity -> [number : Int16, word : Word]]
  PROVE  Rounded(q)'
<1>1. got'[q].number = Convert(word) /\ got'[q].word = word
  OBVIOUS
<1>2. /\ -65536 < 65536 * Temperature(word) - (17572 * word + (-307036160))
      /\ 65536 * Temperature(word) - (17572 * word + (-307036160)) < 65536
  <2>1. /\ -65536 < 65536 * Temperature(word) - (17572 * word - 307036160)
        /\ 65536 * Temperature(word) - (17572 * word - 307036160) < 65536
        /\ Temperature(word) \in Int
    BY TemperatureRounded, SMT DEF Int16
  <2>2. QED
    BY <2>1, SMT DEF Word
<1>3. /\ -65536 < 65536 * Humidity(word) - (12500 * word + (-39321600))
      /\ 65536 * Humidity(word) - (12500 * word + (-39321600)) < 65536
  <2>1. /\ -65536 < 65536 * Humidity(word) - (12500 * word - 39321600)
        /\ 65536 * Humidity(word) - (12500 * word - 39321600) <= 0
        /\ Humidity(word) \in Int
    BY HumidityRounded, SMT DEF Int16
  <2>2. QED
    BY <2>1, SMT DEF Word
<1>4. CASE q = "temp"
  BY <1>1, <1>2, <1>4, SMT DEF Rounded, IsRounded, Convert
<1>5. CASE q = "rh"
  BY <1>1, <1>3, <1>5, SMT DEF Rounded, IsRounded, Convert
<1>6. QED
  BY <1>4, <1>5 DEF Quantity

\* A reading leaves a rounded value of the word that the sensor sent.
LEMMA CheckRounds ==
  ASSUME ErrorsDetectable, IInv, Carried, CheckOK
  PROVE  /\ \A q \in Quantity : q # reading => got'[q] = got[q]
         /\ Rounded(reading)'
<1>1. PICK word \in Words, flips \in Errors \cup {{}} :
        value.sent = Sent(word) /\ value.received = Received(word, flips)
  BY DEF CheckOK, Carried
<1>2. value.received = value.sent
  <2>1. VerifyCRC(Received(word, flips))
    BY <1>1 DEF CheckOK
  <2>2. QED
    BY <1>1, <2>1, TakenIfSent
<1>3. got \in [Quantity -> [number : Int16, word : Word]] /\ reading \in Quantity
  BY DEF IInv, TypeOK, SHT25TypeOK
<1>4. PICK data \in Word : got' = [got EXCEPT ![reading] = [number |-> Convert(data), word |-> data]]
  BY <1>2, DataType DEF CheckOK
<1>5. PICK q \in Quantity : q = reading
  BY <1>3
<1>6. got' = [got EXCEPT ![q] = [number |-> Convert(data), word |-> data]] /\ reading = q
  BY <1>4, <1>5
<1>7. Rounded(q)'
  BY <1>3, <1>6, ConvertRounded
<1>8. reading' = q
  BY <1>5 DEF CheckOK
<1>9. QED
  BY <1>3, <1>4, <1>7, <1>8

\* What is rounded depends on the values read alone.
LEMMA RoundedSame ==
  ASSUME NEW q, got'[q] = got[q], q \in Quantity, Rounded(q) PROVE Rounded(q)'
BY SMT DEF Rounded, IsRounded, Quantity

\* The other steps keep the values read, or their call is over.
LEMMA ReadBeforeInv ==
  ErrorsDetectable /\ IInv /\ Carried /\ GoalOf /\ ReadBefore /\ [Next]_vars => ReadBefore'
<1> SUFFICES ASSUME ErrorsDetectable, IInv, Carried, GoalOf, ReadBefore, [Next]_vars, goal' = "data"
             PROVE  ReadBefore'
  BY DEF ReadBefore
<1>1. CASE \E g \in DOMAIN Entry : Call(g)
  <2>1. pc' = "start" /\ reading' = "temp"
    BY <1>1 DEF Call, Entry
  <2>2. QED
    BY <2>1 DEF ReadBefore
<1>2. CASE CheckOK /\ UNCHANGED others
  <2>1. /\ \A q \in Quantity : q # reading => got'[q] = got[q]
        /\ Rounded(reading)'
    BY <1>2, CheckRounds
  <2>2. /\ pc = "check" /\ pc' = "back" /\ reading' = reading /\ goal = "data"
        /\ reading \in Quantity
    BY <1>2 DEF CheckOK, Return, others, IInv, TypeOK, SHT25TypeOK
  <2>3. reading = "rh" => Rounded("temp")
    BY <2>2 DEF ReadBefore
  <2>4. reading' = "rh" => Rounded("temp")'
    BY <2>1, <2>2, <2>3, RoundedSame DEF Quantity
  <2>5. QED
    BY <2>1, <2>2, <2>4 DEF ReadBefore
<1>3. CASE DriverStep /\ ~CheckOK
  <2>1. goal = "data"
    BY <1>3 DEF DriverStep, others
  <2>2. ReadStep
    <3>1. pc \notin {"id1", "id2", "regRead", "regFetch", "regWrite"}
      BY <2>1 DEF GoalOf
    <3>2. ~IDStep /\ ~RegStep
      BY <3>1 DEF IDStep, RegStep, IDNoAnswer, ReadID1, ReadID2, RegNoAnswer, ReadUserReg,
                  WriteUserReg
    <3>3. QED
      BY <1>3, <3>2 DEF DriverStep
  <2>3. /\ UNCHANGED <<reading, got>> /\ pc # "idle"
        /\ pc' \in {"poll", "check"} \/ (pc' = "back" /\ stat' # OK)
    <3>1. CASE Start \/ PollAnswered
      BY <3>1 DEF Start, PollAnswered
    <3>2. CASE PollUnanswered \/ PollTimeout \/ CheckFailed
      BY <3>2 DEF PollUnanswered, PollTimeout, CheckFailed, Return, OK, Timeout, CRCError
    <3>3. QED
      BY <1>3, <2>2, <3>1, <3>2 DEF ReadStep
  <2>4. QED
    BY <2>1, <2>3, RoundedSame DEF ReadBefore, Quantity
<1>4. CASE NextSensor
  <2>1. /\ goal = "data" /\ pc = "back" /\ stat = OK /\ got' = got /\ reading \in Quantity
        /\ \/ reading = "temp" /\ reading' = "rh" /\ pc' = "start"
           \/ reading = "rh" /\ reading' = reading /\ pc' = "pressure"
    BY <1>4 DEF NextSensor, GoesOn, IInv, TypeOK, SHT25TypeOK, Quantity
  <2>2. Rounded(reading) /\ (reading = "rh" => Rounded("temp"))
    BY <2>1 DEF ReadBefore
  <2>3. Rounded("temp")' /\ (reading = "rh" => Rounded("rh")')
    BY <2>1, <2>2, RoundedSame DEF Quantity
  <2>4. QED
    BY <2>1, <2>3 DEF ReadBefore
<1>5. CASE HandlerEnds
  BY <1>5 DEF HandlerEnds, ReadBefore
<1>6. CASE DataSetStep
  <2>1. /\ UNCHANGED <<got, reading, goal>> /\ pc \in {"pressure", "adcCheck", "adcRead"}
        /\ pc' \in {"adcCheck", "adcRead", "back"}
    BY <1>6
       DEF DataSetStep, GetPressure, AdcCheck, AdcRead, AdcFailed, Return, locals, readLocals,
           others
  <2>2. reading = "rh" /\ Rounded("temp") /\ Rounded("rh")
    BY <2>1 DEF ReadBefore
  <2>3. Rounded("temp")' /\ Rounded("rh")'
    BY <2>1, <2>2, RoundedSame DEF Quantity
  <2>4. QED
    BY <2>1, <2>2, <2>3 DEF ReadBefore
<1>7. CASE SHT25_Reset \/ WriteReg
  BY <1>7 DEF SHT25_Reset, WriteReg, ReadBefore
<1>8. CASE (Measured /\ UNCHANGED others) \/ Converted \/ UNCHANGED vars
  <2>1. UNCHANGED <<pc, reading, got, stat, goal>> /\ reading \in Quantity
    BY <1>8 DEF Measured, Converted, locals, readLocals, others, vars, IInv, TypeOK, SHT25TypeOK
  <2>2. \A q \in Quantity : Rounded(q) => Rounded(q)'
    BY <2>1, RoundedSame
  <2>3. QED
    BY <2>1, <2>2 DEF ReadBefore, Quantity
<1>9. QED
  BY <1>1, <1>2, <1>3, <1>4, <1>5, <1>6, <1>7, <1>8 DEF Next, Step, DriverStep

-----------------------------------------------------------------------------
\* Only GetPressure touches the pressure, and only AdcRead goes on to damage
\* what the data set is filled with.
LEMMA PressureKept ==
  [Next]_vars /\ ~GetPressure /\ pc' \in {"adcCheck", "adcRead"} =>
    pc \in {"adcCheck", "adcRead"} /\ UNCHANGED <<pressure, damaged>>
<1> SUFFICES ASSUME [Next]_vars, ~GetPressure, pc' \in {"adcCheck", "adcRead"}
             PROVE  pc \in {"adcCheck", "adcRead"} /\ UNCHANGED <<pressure, damaged>>
  OBVIOUS
<1>1. ~\E g \in DOMAIN Entry : Call(g)
  BY DEF Call, Entry
<1>2. ~DriverStep
  BY DEF DriverStep, ReadStep, IDStep, RegStep, Start, PollAnswered, PollUnanswered,
         PollTimeout, CheckOK, CheckFailed, IDNoAnswer, ReadID1, ReadID2, RegNoAnswer,
         ReadUserReg, WriteUserReg, Return
<1>3. ~(AdcRead \/ AdcFailed \/ NextSensor \/ HandlerEnds)
  BY DEF AdcRead, AdcFailed, NextSensor, HandlerEnds, Return
<1>4. CASE AdcCheck
  BY <1>4 DEF AdcCheck, others, results
<1>5. CASE \/ (SHT25_Reset /\ UNCHANGED others) \/ (Measured /\ UNCHANGED others)
           \/ WriteReg \/ Converted \/ UNCHANGED vars
  BY <1>5 DEF SHT25_Reset, Measured, WriteReg, Converted, vars, others, results
<1>6. QED
  BY <1>1, <1>2, <1>3, <1>4, <1>5 DEF Next, Step, DataSetStep

\* A pressure is computed with the sensor's own coefficients, kept or asked
\* for again, and of the sample found, or something was damaged.
LEMMA PressureOfSensorInv == PressureOfSensor /\ [Next]_vars => PressureOfSensor'
<1>1. ASSUME GetPressure PROVE PressureOfSensor'
  <2>1. PICK answer \in CalAnswers, s \in Samples : \E arrived \in BadSamples \cup {s} :
          /\ cal' = IF Captured THEN cal ELSE answer
          /\ pressure' = [number |-> Pressure(cal', arrived.padc, arrived.tadc), sample |-> s]
          /\ damaged' = damaged \cup (IF CalDamaged(answer) THEN {"coefficients"} ELSE {})
                                \cup (IF arrived # s THEN {"sample"} ELSE {})
    BY <1>1 DEF GetPressure
  <2>2. PICK arrived \in BadSamples \cup {s} :
          /\ pressure' = [number |-> Pressure(cal', arrived.padc, arrived.tadc), sample |-> s]
          /\ damaged' = damaged \cup (IF CalDamaged(answer) THEN {"coefficients"} ELSE {})
                                \cup (IF arrived # s THEN {"sample"} ELSE {})
    BY <2>1
  <2>3. SUFFICES ASSUME {"coefficients", "sample"} \cap damaged' = {}
                 PROVE  pressure'.number =
                          Pressure(TrueCal, pressure'.sample.padc, pressure'.sample.tadc)
    BY DEF PressureOfSensor
  <2>4. ~CalDamaged(answer) /\ arrived = s
    BY <2>2, <2>3
  <2>5. cal' = TrueCal
    BY <2>1, <2>4 DEF CalDamaged, Captured
  <2>6. QED
    BY <2>2, <2>4, <2>5
<1>2. ASSUME PressureOfSensor, [Next]_vars, ~GetPressure PROVE PressureOfSensor'
  BY <1>2, PressureKept DEF PressureOfSensor
<1>3. QED
  BY <1>1, <1>2

-----------------------------------------------------------------------------
\* A half of the serial number is taken if it arrived as it was sent.
LEMMA AnswersTaken ==
  ASSUME ErrorsDetectable, NEW data, NEW frames \in Answers(data), VerifyAll(frames)
  PROVE  /\ DOMAIN frames = DOMAIN data
         /\ \A n \in DOMAIN data : frames[n] = Sent(data[n])
<1>1. PICK k \in DOMAIN data, flips \in {f \in Errors : f \subseteq 0 .. 15} \cup {{}} :
        frames = [n \in DOMAIN data |-> Received(data[n], IF n = k THEN flips ELSE {})]
  BY DEF Answers
<1>2. DOMAIN frames = DOMAIN data
  BY <1>1
<1>3. ASSUME NEW n \in DOMAIN data PROVE frames[n] = Sent(data[n])
  <2>1. PICK f \in Errors \cup {{}} : frames[n] = Received(data[n], f)
    BY <1>1
  <2>2. VerifyCRC(Received(data[n], f))
    BY <1>2, <2>1 DEF VerifyAll
  <2>3. QED
    BY <2>1, <2>2, TakenIfSent
<1>4. QED
  BY <1>2, <1>3

\* After the first transfer of ReadID the second half of the serial number
\* is right.
LEMMA FirstHalfInv ==
  ErrorsDetectable /\ IInv /\ FirstHalf /\ [Next]_vars => FirstHalf'
<1> SUFFICES ASSUME ErrorsDetectable, IInv, FirstHalf, [Next]_vars, pc' = "id2"
             PROVE  sn'.b = Serial.b
  BY DEF FirstHalf
<1>1. CASE ReadID1
  <2>1. PICK frames \in FirstAnswers :
          /\ VerifyAll(frames)
          /\ sn' = [sn EXCEPT !.b = [n \in 1 .. 4 |-> ByteAt(frames[n], 8)]]
    BY <1>1 DEF ReadID1, Return
  <2>2. Serial.b \in [1 .. 4 -> Byte]
    BY DEF SerialNumber
  <2>3. \A n \in 1 .. 4 : frames[n] = Sent(Serial.b[n])
    BY <2>1, <2>2, AnswersTaken DEF FirstAnswers
  <2>4. ASSUME NEW n \in 1 .. 4 PROVE ByteAt(frames[n], 8) = Serial.b[n]
    <3>1. Serial.b[n] \in Nat /\ Serial.b[n] < 256
      BY <2>2, SMT DEF Byte
    <3>2. ByteAt(Sent(Serial.b[n]), 8) = Serial.b[n] % 256
      BY <3>1, SentCarries
    <3>3. QED
      BY <2>3, <3>1, <3>2, SMT
  <2>5. [n \in 1 .. 4 |-> ByteAt(frames[n], 8)] = Serial.b
    BY <2>2, <2>4
  <2>6. QED
    BY <2>1, <2>5 DEF IInv, TypeOK, SHT25TypeOK, SerialNumber
<1>2. CASE ~ReadID1
  <2>1. pc = "id2" /\ sn' = sn
    <3>1. CASE \E g \in DOMAIN Entry : Call(g)
      BY <3>1 DEF Call, Entry
    <3>2. CASE DriverStep
      BY <1>2, <3>2
         DEF DriverStep, ReadStep, IDStep, RegStep, Start, PollAnswered, PollUnanswered,
             PollTimeout, CheckOK, CheckFailed, IDNoAnswer, ReadID2, RegNoAnswer,
             ReadUserReg, WriteUserReg, Return
    <3>3. CASE DataSetStep \/ NextSensor \/ HandlerEnds
      BY <3>3
         DEF DataSetStep, GetPressure, AdcCheck, AdcRead, AdcFailed, NextSensor, HandlerEnds,
             Return
    <3>4. CASE \/ (SHT25_Reset /\ UNCHANGED others) \/ (Measured /\ UNCHANGED others)
               \/ WriteReg \/ Converted \/ UNCHANGED vars
      BY <3>4 DEF SHT25_Reset, Measured, WriteReg, Converted, locals, vars
    <3>5. QED
      BY <3>1, <3>2, <3>3, <3>4 DEF Next, Step
  <2>2. QED
    BY <2>1 DEF FirstHalf
<1>3. QED
  BY <1>1, <1>2

-----------------------------------------------------------------------------
\* The data are sound when the firmware starts.
LEMMA InitData == Init => DataInv
<1> SUFFICES ASSUME Init PROVE DataInv
  OBVIOUS
<1>1. pc = "idle" /\ ~sht.done
  BY DEF Init, SHT25Init, NoMeasurement
<1>2. Carried /\ GoalOf /\ ReadBefore /\ PressureOfSensor /\ FirstHalf
  BY <1>1 DEF Carried, GoalOf, ReadBefore, PressureOfSensor, FirstHalf
<1>3. QED
  BY <1>2 DEF DataInv

\* If every error of the transfer is one that the checksum detects, the data
\* are sound in every state.
THEOREM DataInvariance == ASSUME ErrorsDetectable PROVE Spec => [](IInv /\ DataInv)
<1>1. Init => IInv /\ DataInv
  BY InitInv, InitData
<1>2. IInv /\ DataInv /\ [Next]_vars => (IInv /\ DataInv)'
  BY NextInv, CarriedInv, GoalInv, ReadBeforeInv, PressureOfSensorInv, FirstHalfInv DEF DataInv
<1>3. QED
  BY <1>1, <1>2, PTL DEF Spec

\* Bytes of the SHT25 are taken as a reading if and only if they arrived as
\* the sensor sent them.
THEOREM ReadingsUndamaged == ASSUME ErrorsDetectable PROVE Spec => ChecksumDecides
<1>1. ASSUME IInv, DataInv, Next, pc = "check", pc' = "back"
      PROVE  stat' = OK <=> value.received = value.sent
  <2>1. PICK word \in Words, flips \in Errors \cup {{}} :
          value.sent = Sent(word) /\ value.received = Received(word, flips)
    BY <1>1 DEF DataInv, Carried
  <2>2. VerifyCRC(value.received) <=> value.received = value.sent
    BY <2>1, TakenIfSent
  <2>3. CASE CheckOK
    BY <2>2, <2>3 DEF CheckOK, Return
  <2>4. CASE CheckFailed
    BY <2>2, <2>4 DEF CheckFailed, Return, OK, CRCError
  <2>5. CheckOK \/ CheckFailed
    BY <1>1
       DEF Next, Step, DriverStep, DataSetStep, ReadStep, IDStep, RegStep, Call, SHT25_Reset,
           WriteReg, Start, PollAnswered, PollUnanswered, PollTimeout, IDNoAnswer, ReadID1,
           ReadID2, RegNoAnswer, ReadUserReg, WriteUserReg, NextSensor, HandlerEnds, GetPressure,
           AdcCheck, AdcRead, AdcFailed, Measured, Converted
  <2>6. QED
    BY <2>3, <2>4, <2>5
<1>2. IInv /\ DataInv /\ [Next]_vars => [Undamaged]_vars
  BY <1>1 DEF Undamaged
<1>3. QED
  BY DataInvariance, <1>2, PTL DEF Spec, ChecksumDecides

\* A serial number that ReadID delivers is the one in the sensor.
THEOREM SerialWhole == ASSUME ErrorsDetectable PROVE Spec => SerialIsRead
<1>1. ASSUME IInv, DataInv, Next, pc = "id2", pc' = "back", stat' = OK
      PROVE  sn' = Serial
  <2>1. ReadID2
    BY <1>1
       DEF Next, Step, DriverStep, DataSetStep, ReadStep, IDStep, RegStep, Call, SHT25_Reset,
           WriteReg, Start, PollAnswered, PollUnanswered, PollTimeout, CheckOK, CheckFailed,
           IDNoAnswer, ReadID1, RegNoAnswer, ReadUserReg, WriteUserReg, NextSensor, HandlerEnds,
           GetPressure, AdcCheck, AdcRead, AdcFailed, Measured, Converted, Return, OK, Timeout,
           locals
  <2>2. PICK frames \in SecondAnswers :
          /\ VerifyAll(frames)
          /\ sn' = [sn EXCEPT !.a = Data(frames[2]), !.c = Data(frames[1])]
    <3>1. PICK frames \in SecondAnswers :
            IF VerifyAll(frames)
              THEN /\ sn' = [sn EXCEPT !.a = Data(frames[2]), !.c = Data(frames[1])]
                   /\ Return(OK)
              ELSE /\ sn' = [sn EXCEPT !.a = 255, !.c = 255]
                   /\ Return(CRCError)
      BY <2>1 DEF ReadID2
    <3>2. VerifyAll(frames)
      BY <1>1, <3>1 DEF Return, OK, CRCError
    <3>3. QED
      BY <3>1, <3>2
  <2>3. frames[1] = Sent(Serial.c) /\ frames[2] = Sent(Serial.a)
    BY <2>2, AnswersTaken DEF SecondAnswers
  <2>4. Data(frames[1]) = Serial.c /\ Data(frames[2]) = Serial.a
    BY <2>3, SentCarries DEF SerialNumber, Word
  <2>5. sn.b = Serial.b
    BY <1>1 DEF DataInv, FirstHalf
  <2>6. QED
    BY <1>1, <2>2, <2>4, <2>5 DEF IInv, TypeOK, SHT25TypeOK, SerialNumber
<1>2. IInv /\ DataInv /\ [Next]_vars => [WholeSerial]_vars
  BY <1>1 DEF WholeSerial, vars, locals
<1>3. QED
  BY DataInvariance, <1>2, PTL DEF Spec, SerialIsRead

\* What the bytes of the data set hold, when it is filled.
LEMMA BytesOfDataSet ==
  ASSUME IInv, AdcRead
  PROVE  /\ dataSet'[1] = Now.month /\ dataSet'[2] = Now.day
         /\ dataSet'[3] = Now.hour /\ dataSet'[4] = Now.min
         /\ SignedAt(dataSet', 5) = got["temp"].number
         /\ SignedAt(dataSet', 7) = got["rh"].number
         /\ SignedAt(dataSet', 9) = pressure.number
         /\ "colors" \notin damaged' =>
              /\ WordAt(dataSet', 11) = colors.red /\ WordAt(dataSet', 13) = colors.green
              /\ WordAt(dataSet', 15) = colors.blue /\ WordAt(dataSet', 17) = colors.clear
<1>1. /\ got["temp"].number \in Int16 /\ got["rh"].number \in Int16
      /\ pressure.number \in Int16
  BY DEF IInv, TypeOK, SHT25TypeOK, Quantity
<1>2. PICK arrived \in Light :
        /\ dataSet' = DataSetBytes(Now, got["temp"].number, got["rh"].number, pressure.number,
                                   arrived)
        /\ damaged' = damaged \cup (IF arrived # colors THEN {"colors"} ELSE {})
  BY ColorsTaken
<1>3. /\ arrived.red \in Word /\ arrived.green \in Word
      /\ arrived.blue \in Word /\ arrived.clear \in Word
      /\ "colors" \notin damaged' => arrived = colors
  BY <1>2 DEF Light
<1>4. /\ dataSet'[1] = Now.month /\ dataSet'[2] = Now.day
      /\ dataSet'[3] = Now.hour /\ dataSet'[4] = Now.min
  BY <1>2 DEF DataSetBytes
<1>5. /\ dataSet'[5] = HighByte(got["temp"].number) /\ dataSet'[6] = LowByte(got["temp"].number)
      /\ dataSet'[7] = HighByte(got["rh"].number) /\ dataSet'[8] = LowByte(got["rh"].number)
      /\ dataSet'[9] = HighByte(pressure.number) /\ dataSet'[10] = LowByte(pressure.number)
  BY <1>2 DEF DataSetBytes
<1>6. /\ dataSet'[11] = HighByte(arrived.red) /\ dataSet'[12] = LowByte(arrived.red)
      /\ dataSet'[13] = HighByte(arrived.green) /\ dataSet'[14] = LowByte(arrived.green)
      /\ dataSet'[15] = HighByte(arrived.blue) /\ dataSet'[16] = LowByte(arrived.blue)
      /\ dataSet'[17] = HighByte(arrived.clear) /\ dataSet'[18] = LowByte(arrived.clear)
  BY <1>2 DEF DataSetBytes
<1>7. /\ SignedAt(dataSet', 5) = got["temp"].number
      /\ SignedAt(dataSet', 7) = got["rh"].number
      /\ SignedAt(dataSet', 9) = pressure.number
  BY <1>1, <1>5, BytesRoundTrip DEF SignedAt
<1>8. /\ WordAt(dataSet', 11) = arrived.red /\ WordAt(dataSet', 13) = arrived.green
      /\ WordAt(dataSet', 15) = arrived.blue /\ WordAt(dataSet', 17) = arrived.clear
  BY <1>3, <1>6, BytesRoundTrip DEF WordAt
<1>9. QED
  BY <1>3, <1>4, <1>7, <1>8

\* A data set holds what the sensors measured: the words of the SHT25
\* rounded, whatever happened on the way; the pressure of the sensor's own
\* coefficients, and the colors, where these came whole.
THEOREM DataSetMeasured == ASSUME ErrorsDetectable PROVE Spec => DataSetIsMeasured
<1>1. ASSUME IInv, DataInv, Next, dataSet' # dataSet, dataSet' # <<>>
      PROVE  AdcRead
  BY <1>1
     DEF Next, Step, DriverStep, DataSetStep, Call, SHT25_Reset, WriteReg, NextSensor,
         HandlerEnds, GetPressure, AdcCheck, AdcFailed, Measured, Converted, others, results
<1>2. ASSUME IInv, DataInv, AdcRead PROVE Measurements
  <2>1. pc = "adcRead" /\ goal = "data" /\ reading = "rh"
    BY <1>2 DEF AdcRead, DataInv, GoalOf, ReadBefore
  <2>2. Rounded("temp") /\ Rounded("rh")
    BY <1>2, <2>1 DEF DataInv, ReadBefore
  <2>3. /\ [got["temp"] EXCEPT !.number = SignedAt(dataSet', 5)] = got["temp"]
        /\ [got["rh"] EXCEPT !.number = SignedAt(dataSet', 7)] = got["rh"]
    BY <1>2, BytesOfDataSet DEF IInv, TypeOK, SHT25TypeOK, Quantity
  <2>4. /\ IsRounded([got["temp"] EXCEPT !.number = SignedAt(dataSet', 5)], 17572, -307036160)
        /\ IsRounded([got["rh"] EXCEPT !.number = SignedAt(dataSet', 7)], 12500, -39321600)
    BY <2>2, <2>3, SMT DEF Rounded
  <2>5. {"coefficients", "sample"} \cap damaged' = {} =>
          SignedAt(dataSet', 9) = Pressure(TrueCal, pressure.sample.padc, pressure.sample.tadc)
    <3>1. damaged \subseteq damaged'
      BY <1>2, ColorsTaken
    <3>2. QED
      BY <1>2, <2>1, <3>1, BytesOfDataSet DEF DataInv, PressureOfSensor
  <2>6. "colors" \notin damaged' =>
          [red   |-> WordAt(dataSet', 11), green |-> WordAt(dataSet', 13),
           blue  |-> WordAt(dataSet', 15), clear |-> WordAt(dataSet', 17)] = colors
    BY <1>2, BytesOfDataSet DEF IInv, TypeOK, Light
  <2>7. /\ dataSet'[1] = Now.month /\ dataSet'[2] = Now.day
        /\ dataSet'[3] = Now.hour /\ dataSet'[4] = Now.min
    BY <1>2, BytesOfDataSet
  <2>8. QED
    BY <2>4, <2>5, <2>6, <2>7, SMT DEF Measurements
<1>3. IInv /\ DataInv /\ [Next]_vars => [Measurements]_vars
  <2>1. ASSUME IInv, DataInv, Next PROVE Measurements
    <3>1. CASE dataSet' # dataSet /\ dataSet' # <<>>
      BY <1>1, <1>2, <2>1, <3>1
    <3>2. CASE ~(dataSet' # dataSet /\ dataSet' # <<>>)
      BY <3>2, SMT DEF Measurements
    <3>3. QED
      BY <3>1, <3>2
  <2>2. QED
    BY <2>1
<1>4. QED
  BY DataInvariance, <1>3, PTL DEF Spec, DataSetIsMeasured
=============================================================================
