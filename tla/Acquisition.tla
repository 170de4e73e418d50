----------------------------- MODULE Acquisition -----------------------------
(***************************************************************************)
(* GetDataSet of Board/Hardware.c over the three sensors (the SHT25, then  *)
(* the MPL115A1 on SPI, then the TCS3414 on I2C), and the terminal         *)
(* commands that use the same drivers: data, pres, rh and regwrite.        *)
(***************************************************************************)
EXTENDS SHT25

CONSTANTS
  TrueCal,     \* calibration data in the MPL115A1
  CalAnswers,  \* what can arrive when it is asked for them
  Samples,     \* what its converter can find
  BadSamples,  \* what can arrive instead
  Colors,      \* what the converter of the TCS3414 can find
  BadColors,   \* what can arrive instead
  Now          \* what GetTime returns

Coefficient == {"a0", "b1", "b2", "c12"}
Sample == [padc : Adc, tadc : Adc]
Light  == [red : Word, green : Word, blue : Word, clear : Word]

ASSUME AcquisitionAssumption ==
  /\ TrueCal \in Calibration
  /\ CalAnswers \subseteq Calibration
  /\ Samples \subseteq Sample
  /\ BadSamples \subseteq Sample
  /\ Colors \subseteq Light
  /\ BadColors \subseteq Light
  /\ Now \in [month : Byte, day : Byte, hour : Byte, min : Byte]

VARIABLES
  adc,        \* the converter in the TCS3414
  colors,     \* its data registers
  cal,        \* MPL115A1_CAL_A0, ..._B1, ..._B2, ..._C12
  goal,       \* the function the command calls
  pressure,   \* Pressure_kPa, and the sample it is for (history)
  dataSet,    \* the data set filled, empty until then
  damaged     \* what this call has taken that was damaged on the way (history)

converter == <<adc, colors>>
results   == <<cal, pressure, dataSet, damaged>>
others    == <<converter, goal, results>>
vars      == <<sensor, locals, pc, stat, call, acked, others>>

NoPressure == [number |-> 0, sample |-> [padc |-> 0, tadc |-> 0]]

TypeOK ==
  /\ SHT25TypeOK
  /\ pc \in {"idle", "start", "poll", "check", "back", "pressure", "adcCheck", "adcRead",
             "id1", "id2", "regRead", "regFetch", "regWrite"}
  /\ adc \in {"off", "converting", "valid"}
  /\ colors \in Light
  /\ cal \in Calibration
  /\ goal \in {"data", "temp", "rh", "id", "regread", "regwrite", "pres"}
  /\ pressure \in [number : Int16, sample : Sample]
  /\ dataSet \in {<<>>} \cup [1 .. 18 -> Byte]
  /\ damaged \subseteq {"coefficients", "sample", "colors"}

\* After HardwareInit: tcs3414_Init has turned the converter on, if the
\* sensor has taken its commands, and MPL115A1_Init has asked for the
\* calibration data.
Init ==
  /\ SHT25Init
  /\ pc = "idle"
  /\ adc \in {"off", "converting"}
  /\ colors \in Colors
  /\ cal \in CalAnswers
  /\ goal = "data"
  /\ pressure = NoPressure
  /\ dataSet = <<>>
  /\ damaged = {}

-----------------------------------------------------------------------------
(***************************************************************************)
(* The commands: data, rh 4, rh 5, rh 6, rh 1, rh 2 and pres.              *)
(***************************************************************************)
Entry == [data |-> "start", temp |-> "start", rh |-> "start", id |-> "id1",
          regread |-> "regRead", regwrite |-> "regFetch", pres |-> "pressure"]

Call(g) ==
  /\ pc = "idle"
  /\ call < MaxCalls
  /\ call' = call + 1
  /\ goal' = g
  /\ pc' = Entry[g]
  /\ reading' = IF g = "rh" THEN "rh" ELSE "temp"
  /\ \E arg \in IF g = "regwrite" THEN RegValues ELSE {{}} : reg' = [NoAccess EXCEPT !.arg = arg]
  /\ stat' = OK
  /\ acked' = TRUE
  /\ UNCHANGED <<sensor, i, value, got, sn, converter, results>>

\* GetDataSet goes on after a reading that succeeded.
GoesOn == goal = "data" /\ stat = OK /\ dataSet = <<>>

NextSensor ==
  /\ pc = "back"
  /\ GoesOn
  /\ IF reading = "temp" THEN reading' = "rh" /\ pc' = "start"
                         ELSE pc' = "pressure" /\ UNCHANGED reading
  /\ UNCHANGED <<sensor, i, value, got, sn, reg, stat, call, acked, others>>

\* The handler prints what it has; its locals are gone.
HandlerEnds ==
  /\ pc = "back"
  /\ ~GoesOn
  /\ pc' = "idle"
  /\ got' = NothingRead
  /\ sn' = NoSerial
  /\ reg' = NoAccess
  /\ pressure' = NoPressure
  /\ dataSet' = <<>>
  /\ damaged' = {}
  /\ UNCHANGED <<sensor, reading, i, value, stat, call, acked, converter, goal, cal>>

\* regwrite of the control register: the converter is turned off or on.
WriteReg ==
  /\ pc = "idle"
  /\ adc' \in {"off", "converting", adc}
  /\ UNCHANGED <<sensor, locals, pc, stat, call, acked, colors, goal, results>>

-----------------------------------------------------------------------------
(***************************************************************************)
(* MPL115A1_GetPressure.                                                   *)
(***************************************************************************)
\* Has the cal data been captured?  (The variant asks for it again only
\* when there is none at all.)
CapturedPartly == \E c \in Coefficient : cal[c] # 0
Captured       == \A c \in Coefficient : cal[c] # 0

\* The coefficients this call has to go by, those kept, of which none is
\* missing, or those that arrive now, are not the sensor's.
CalDamaged(arrived) ==
  IF \E c \in Coefficient : cal[c] = 0 THEN arrived # TrueCal ELSE cal # TrueCal

\* Coefficients and sample come byte by byte over SPI, where nothing tells a
\* byte that was lost or changed from a good one.
GetPressure ==
  /\ pc = "pressure"
  /\ \E answer \in CalAnswers, s \in Samples : \E arrived \in BadSamples \cup {s} :
       /\ cal' = IF Captured THEN cal ELSE answer
       /\ pressure' = [number |-> Pressure(cal', arrived.padc, arrived.tadc), sample |-> s]
       /\ damaged' = damaged \cup (IF CalDamaged(answer) THEN {"coefficients"} ELSE {})
                             \cup (IF arrived # s THEN {"sample"} ELSE {})
  /\ pc' = IF goal = "data" THEN "adcCheck" ELSE "back"
  /\ UNCHANGED <<sensor, locals, stat, call, acked, converter, goal, dataSet>>

-----------------------------------------------------------------------------
(***************************************************************************)
(* tcs3414_GetData.                                                        *)
(***************************************************************************)
\* The valid bit of the control register, or of an uninitialized byte if
\* the register could not be read: tcs3414_GetData does not look.
ValidBit(ack) == IF ack THEN {adc = "valid"} ELSE BOOLEAN

AdcCheck ==
  /\ pc = "adcCheck"
  /\ \E ack \in BOOLEAN : \E valid \in ValidBit(ack) :
       IF valid THEN pc' = "adcRead" /\ UNCHANGED stat
                ELSE Return(CRCError)
  /\ UNCHANGED <<sensor, locals, call, acked, others>>

\* The colors arrive, in bytes without a checksum, and the data set is filled.
AdcRead ==
  /\ pc = "adcRead"
  /\ \E arrived \in BadColors \cup {colors} :
       /\ dataSet' = DataSetBytes(Now, got["temp"].number, got["rh"].number, pressure.number,
                                  LightOf(LightBytes(arrived)))
       /\ damaged' = damaged \cup (IF arrived # colors THEN {"colors"} ELSE {})
  /\ Return(OK)
  /\ UNCHANGED <<sensor, locals, call, acked, converter, goal, cal, pressure>>

\* The transfer fails: ADC data are not valid, says tcs3414_GetData, and
\* GetDataSet returns 1.
AdcFailed ==
  /\ pc = "adcRead"
  /\ Return(CRCError)
  /\ UNCHANGED <<sensor, locals, call, acked, others>>

-----------------------------------------------------------------------------
\* The free running converter of the TCS3414 has new values.
Converted ==
  /\ adc # "off"
  /\ adc' = "valid"
  /\ colors' \in Colors
  /\ UNCHANGED <<sensor, locals, pc, stat, call, acked, goal, results>>

DriverStep  == (ReadStep \/ IDStep \/ RegStep) /\ UNCHANGED others
DataSetStep == GetPressure \/ AdcCheck \/ AdcRead \/ AdcFailed
Step        == DriverStep \/ DataSetStep \/ NextSensor \/ HandlerEnds

Next ==
  \/ (\E g \in DOMAIN Entry : Call(g))
  \/ (SHT25_Reset /\ UNCHANGED others) \/ WriteReg
  \/ Step
  \/ (Measured /\ UNCHANGED others) \/ Converted

Spec == Init /\ [][Next]_vars

\* The main thread goes on; nothing is assumed of sensors and bus.
FairSpec == Spec /\ WF_vars(Step)

-----------------------------------------------------------------------------
(***************************************************************************)
(* Properties.                                                             *)
(***************************************************************************)

\* A reading ends well: ReadTemp or ReadRH takes the value.
Taken == pc = "check" /\ pc' = "back" /\ stat' = OK

\* A reading whose start command arrived takes the quantity it asked for,
\* measured in this very call: the answer to an earlier reading that came
\* after its timeout, or the other quantity, never gets in its place.
RightValue == Taken /\ acked => value.what = reading /\ value.call = call
StartedValueIsTaken == [][RightValue]_vars

\* A reading is taken if and only if its bytes arrived as the sensor sent
\* them, for every error of the transfer in Errors.
Undamaged == pc = "check" /\ pc' = "back" => (stat' = OK <=> value.received = value.sent)
ChecksumDecides == [][Undamaged]_vars

\* number is the linear function of the word that the data sheet gives, up
\* to the rounding.
IsRounded(reads, slope, offset) ==
  LET error == 65536 * reads.number - (slope * reads.word + offset)
  IN -65536 < error /\ error < 65536

SignedAt(b, n) == ToInt16(256 * b[n] + b[n + 1])
WordAt(b, n)   == 256 * b[n] + b[n + 1]

\* A data set that GetDataSet delivers holds, in its 18 bytes, the time, the
\* temperature and the humidity that the sensor sent in this call, whatever
\* happened on the way; the pressure of the sample found, if this and the
\* coefficients came whole, those the latest time they were asked for, which
\* they are again as long as one of them is 0; and the colors the registers
\* held, if they came whole.  Coefficients that came damaged without a 0
\* (mpl115a1.c:158) are kept for good, and no pressure is right any more.
Measurements ==
  dataSet' # dataSet /\ dataSet' # <<>> =>
    /\ dataSet'[1] = Now.month /\ dataSet'[2] = Now.day
    /\ dataSet'[3] = Now.hour /\ dataSet'[4] = Now.min
    /\ IsRounded([got["temp"] EXCEPT !.number = SignedAt(dataSet', 5)], 17572, -307036160)
    /\ IsRounded([got["rh"] EXCEPT !.number = SignedAt(dataSet', 7)], 12500, -39321600)
    /\ {"coefficients", "sample"} \cap damaged' = {} =>
         SignedAt(dataSet', 9) = Pressure(TrueCal, pressure.sample.padc, pressure.sample.tadc)
    /\ "colors" \notin damaged' =>
         [red   |-> WordAt(dataSet', 11), green |-> WordAt(dataSet', 13),
          blue  |-> WordAt(dataSet', 15), clear |-> WordAt(dataSet', 17)] = colors
DataSetIsMeasured == [][Measurements]_vars

\* A serial number that ReadID delivers is the whole serial number, never
\* the half of it with an error in the other.
WholeSerial == pc = "id2" /\ pc' = "back" /\ stat' = OK => sn' = Serial
SerialIsRead == [][WholeSerial]_vars

\* A write to the user register, which first fetches it in a byte without a
\* checksum, changes no reserved bits but those that changed on the way of
\* this byte: none if it arrived whole.  One that reports OK has changed
\* them, and has written the other bits.
Written ==
  pc = "regWrite" =>
    /\ SymDiff(ureg', ureg) \cap Reserved \subseteq reg.flips
    /\ pc' = "back" /\ stat' = OK =>
         ureg' \ Battery = (reg.arg \ (Reserved \cup Battery))
                             \cup (SymDiff(ureg, reg.flips) \cap Reserved)
ReservedBitsKept == [][Written]_vars

\* Whatever the sensors and the bus do, a call comes to its end.
CallReturns == pc # "idle" ~> pc = "idle"

\* "If reading is successful, TempValue will be the temperature in 100*C"
\* (sht25.h:74), and the same for the humidity (sht25.h:81).
ReadingSucceeds == Taken => value.what = reading
ReadingIsQuantity == [][ReadingSucceeds]_vars
=============================================================================
