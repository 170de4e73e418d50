# A verification of the Environmental Sensor firmware

TLA+ models of the firmware of the environmental sensor (`main.c`, `Board/`), checked with
TLC and, where the statement is about every size and number, proved with TLAPS.

## The system

An ATmega32U2 collects temperature, humidity, pressure and color and stores data sets in an
AT45DB321D dataflash. There are two flows of control: the **main thread** (`HardwareInit`, then
`RunCommand` for ever) and the **timer interrupt**, every millisecond, which counts `ElapsedMS`,
advances the clock and hands characters from USB to the command interpreter. Everything else that
moves does so outside: the flash chip goes on programming after the driver has returned, a sensor
measures, an I2C transfer fails, the controller is reset, power fails.

| Part | Source | State | Operations | Talks to |
|---|---|---|---|---|
| Dataflash driver | `Board/at45db321d.c` | none (the chip: array, two buffers, BUSY) | BufferRead/Write, CopyPageToBuffer, CopyBufferToPage, WaitForReady; erase, protect, power down (not used by the logger) | chip over SPI |
| Data logger | `Board/Datalogger.c` | `DataSetAddress`, `DataPageAddress`, `BufferInUse`, `DataloggerInitalized` | Init, AddDataSet, SaveDataToFlash, FindLastDataSet, ReadBackData | dataflash; called by HardwareInit and `memread` |
| Timer, DelayMS | `Board/Hardware.c` | `ElapsedMS` | DelayMS, interrupt | shared counter |
| Clock | `Board/Hardware.c` | `TheTime` | GetTime, SetTime, interrupt | shared structure |
| Acquisition | `Board/Hardware.c`, `sht25.c`, `mpl115a1.c`, `tcs3414.c` | calibration data | GetDataSet, ReadTemp, ReadRH, GetPressure, GetData, WriteReg | sensors over I2C and SPI |
| SHT25 identification, user register | `sht25.c` | none (the sensor: user register) | ReadID, ReadUserReg, WriteUserReg, Reset | sensor over I2C |
| Checksum, conversions | `sht25.c`, `mpl115a1.c`, `Hardware.c` | none | VerifyCRC, arithmetic, bytes of a data set | called by the drivers |
| Terminal commands | `Board/commands.c` | none | eleven handlers | all of the above |
| Interpreter, SPI, I2C, bootloader | git submodule, not in the repository | input buffer | RunCommand, ... | external |
| USB, LEDs, stop watch | `main.c`, `Descriptors.c`, `LEDs.h` | endpoints, pins | event handlers | external |

What is hard, and what makes each part correct:

* **Data logger.** The data sets collected exist only in a chip buffer while the other buffer is
  used to walk through pages; a program goes on while the next sets are added; a restart loses
  all variables and the place to continue must be found from what is in the pages, which includes
  old bytes of reused buffers and whatever the SRAM held at power up. Correct: nothing collected
  is damaged, nothing saved is overwritten, order is kept, the place found is the right one, and
  every operation ends.
* **DelayMS and the clock.** Main thread and interrupt share multi-byte data without a lock.
  Correct: a delay lasts the interrupts it was asked for and ends; the time read is not in the
  future; the clock goes forward and stays a time. The code falls short of each of these somewhere,
  and the properties say where: one interrupt less across the second, no end for a delay that ends
  with it, a torn year, 25 hours.
* **Acquisition.** A reading that timed out may be answered later; bits change on the way; the
  calibration data may not have come at start-up; a converter is turned off and on by the terminal.
  Correct: a value is what it is said to be, from the bytes of the sensor to the bytes of the data
  set; what is damaged is refused where there is a checksum, and spoils nothing else where there is
  none; every call ends.

`PROJECT.json` lists the hazards line by line with the properties that speak about them.

## The modules

| Module | What it is |
|---|---|
| `Dataflash` | the chip and the driver functions: main array `mem`, buffers `buf`, the internal operation `busy` |
| `Datalogger` (EXTENDS `Dataflash`) | `Datalogger.c`, the commands that reach it and the restarts |
| `SampleLog` | what the logger promises: an append-only log, flushed some at a time, of which a restart loses only the newest unsaved part |
| `DataloggerLog` (EXTENDS `Datalogger`, INSTANCE `SampleLog`) | the refinement mapping and the properties that need the order of sets in the array |
| `DataloggerProofs` | proofs about `Datalogger`: types, the sets held in a buffer, the buffer being programmed |
| `SavedSetsProofs` (EXTENDS both) | proofs of what happens to the sets in the array |
| `LogProofs` (EXTENDS `SavedSetsProofs`) | proof of the refinement, and of what ReadBackData prints |
| `Delay`, `DelayProofs` | `DelayMS` and the counter; its proofs |
| `Clock`, `ClockProofs` | `TheTime`, `GetTime`, `SetTime` and the interrupt; its proofs |
| `Checksum`, `ChecksumProofs` | `SHT25_VerifyCRC`, and the sensor's end of the checksum; proofs of what it detects |
| `Conversions`, `ConversionsProofs` | the arithmetic with the widths of C, the bytes of a data set; proofs about them |
| `SHT25` (EXTENDS `Checksum`, `Conversions`) | `sht25.c` with the sensor: readings, serial number, user register |
| `Acquisition` (EXTENDS `SHT25`), `AcquisitionProofs` | `GetDataSet` over the three sensors, the drivers `mpl115a1.c` and `tcs3414.c`, the commands that call them; its proofs |
| `MC...` | values for TLC |

### Dataflash and Datalogger

A page is a row of *cells*. One cell stands for the two header bytes of a data set, the next for
its 18 bytes (the number of the set, so that order and loss can be seen), and the 8 bytes a page
has too many are one cell. A header position holds a header (0xA1 0x40, size 20), erased bytes
(which decode to size 255), zeros (size 0), prefix and suffix with size 0, or a payload, which is
taken for none of them. `ErasedSize` stands for the 255: with 5 or 7 cells to the page, as with
528 bytes, a partly filled page is taken for a full one beyond a certain address.

Addresses wrap in a buffer, and of a page number the chip keeps 13 bits (`Wrap`, `ChipPage`); that
a program or transfer issued while the chip is busy is ignored is the chip's (`Issue`).

`pc` splits an operation where the chip or a restart can come between. AddDataSet is `AddHeader`,
`AddData`, and `AddNotFull` or `AddFull`. FindLastDataSet and ReadBackData share their loop:
`ScanCopy` (load the page), `ScanRead` (wait, then one round of the inner loop), `ScanNextPage`,
`ScanEnd` (which for an initialisation is the rest of Datalogger_Init too). `scan` holds their
locals. `SetupByte`, `nextSet`, `held`, `restarts` and `printed` serve the properties (`SetupByte`
is an argument that a walk must remember).

Two properties need care to say what they mean, which their proofs brought out:

* A partial save programs the buffer as it is, and behind the sets just collected the buffer still
  has sets of the page it held before. Such a stale copy is in the array, even twice, and is
  overwritten when the page is saved again. `SavedSetsStay` therefore speaks of the sets that came
  into the array *in their turn*: newer than everything that lies before them (`InTurn`, `Saved`).
* The walk reports a full device as soon as the pages **before** the last are full, with the last
  one not looked at. `HasRoom`, the condition of `SavedSetsStay`, therefore asks for the last two
  pages to be unused, not for any unused page.

`SavedSets` of the refinement mapping reads the array by position, place after place, up to the
first place with no header in it.

Two constants describe the surroundings. `Pace`: with "any" a command may follow at once; with
"page" the commands of nine characters and more find the chip ready, because a character takes
8 ms (`Hardware.c:475`) and the chip at most 40 ms, and the buffer is not refilled before its page
is programmed. `Restarts`: "reset" at any moment with the chip powered, "planned" between two
operations with the chip ready, "power" a loss of power in which a page being programmed becomes
old, erased or complete.

### Delay

One action per byte read of `ElapsedMS` (`ReadLow`, then `Check`, `SetWait` or `Poll`, which read
the high byte), so that the interrupt can come between any two. `calm` keeps two interrupts at
least two reads apart (a millisecond is 8000 cycles); `due` counts the interrupts still missing of
those the delay was asked for, `torn` remembers that a carry fell between the bytes of a read.

`NotEarly` counts interrupts, which is what DelayMS can know of the time: DelayMS(m) returns after `m`
of them, but after `m - 1` if it has seen the second overflow, where the code subtracts 1001 and not
1000 (`Hardware.c:149`). The first interrupt may come at once, so that `m` interrupts are sure to last
only more than `m - 1` milliseconds, and across the overflow more than `m - 2`: DelayMS(15), which is
to cover a reset of "<15ms" (`sht25.c:43`), may be little more than 13. Reads torn by a carry are
included for every delay of up to `Short` (231 on the device; the firmware's longest is 100), because
the value a torn read yields is then too far from the one waited for.

### Clock

`Tick` is the interrupt's roll-over as a whole (interrupts are not interrupted), `GetField` and
`SetField` one field of GetTime and SetTime in the order of the code, with its ranges. The year has
two bytes (`yearHigh`, `yearLow`), and an 8-bit controller accesses them one after the other: the
compiler reads the low one first and writes the high one first. `ReadNotFuture` therefore has an
exception that is the code's, and names it (`TornYear`): when the interrupt carries from the low byte
to the high one between the two reads, 2047 is read as 2303. A call lasts less than a second
(`ticked`). The model has fewer seconds, minutes and hours; months, days and
leap years are those of the code, with what they do with day 0, month 0, April and November.

### Checksum and Conversions

A word is the set of its bits that are 1, so that an error of a transfer is the set of bits that
change and the exclusive or of C is `SymDiff`. `Round` is one round of the loop of VerifyCRC and
`Division` what the rounds down to a bit have made of a frame, a recursive function of that bit. The
sensor's end (`SensorCRC`) is written independently, as the shift register of the data sheet
(`ShiftBit`, `Register`).

`Conversions` is the arithmetic expression by expression: division in C truncates (`Quotient`), a
shift to the right rounds down (`\div`), a cast to int16_t wraps (`ToInt16`); the humidity is computed
without a sign and wraps by 2^32 below 0 % (`Humidity`). `DataSetBytes` is the end of GetDataSet.

### SHT25

`Start` is the command to measure, which may not arrive; `PollAnswered`, `PollUnanswered`,
`PollTimeout` the loop of 20 polls; `CheckOK`, `CheckFailed` the checksum and the conversion. The
sensor finishes when it likes, keeps its result until it is read, replaced or reset, and knows in
which call the measurement was started. Each frame arrives with the bits of some member of `Errors`
changed, or whole; what the controller sends arrives or is not acknowledged. `value` holds what was sent beside what was received, `got` the word beside the
number made of it (history, for the properties). `ReadID1` and `ReadID2` are the two transfers of
ReadID; `ReadUserReg` and `WriteUserReg` the accesses to the user register, a set of bits, of which
the write first reads (`pc` "regFetch"). The byte read has no checksum: the bits of some member of
`RegErrors` may have changed in it (`reg.flips`), and the write takes the reserved ones among them
into the sensor.

### Acquisition

`goal` is the function that the command calls, `Entry` where it begins. `NextSensor` takes
GetDataSet from the temperature to the humidity and the pressure, `AdcCheck` and `AdcRead` are
tcs3414_GetData, whose success fills the data set; every failure goes to `HandlerEnds`.
The pressure sensor answers over SPI, byte by byte, where nobody notices an answer that is missing or
wrong: what arrives of the four coefficients is any of `CalAnswers`, at start-up or later, and
GetPressure asks for all four again while one is 0, and only then. A sample arrives as it was taken or
as one of `BadSamples`. The colors are registers that a free running converter fills (`Converted`),
and arrive without a checksum too (`BadColors`). `damaged` remembers which of these a call has taken
that was not the sensor's. An uninitialized byte is any byte (`ValidBit`). Sensors and terminal act
between any two steps.

`DataSetIsMeasured` says what a data set is worth after this: temperature and humidity are always those
of the words the SHT25 sent; the pressure is right if coefficients and sample came whole, where
coefficients that were damaged **without** a 0 are kept, and the pressure is wrong, until a restart;
the colors are those of the registers if they came whole. Nothing is promised about the colors being
those of a *finished* conversion: if the control register cannot be read, an uninitialized byte
decides (`tcs3414.c:87`).

## What the runs check

| Run | Properties | Shows |
|---|---|---|
| `logger_safety` | `TypeOK`, `HeldSetsIntact`, `MainLoopReturns` | Two pages of five cells, four sets, any pace, all kinds of restart, options the firmware does not use, arbitrary power-up buffers. Collected sets stay whole; every operation ends. |
| `logger_saves` | `SavedSetsStay`, `OldestGoFirst`, `ProgramSourceStable` | Partial saves, two planned restarts, nineteen sets in an array for fifteen: no set that came into the array in its turn is overwritten while there is room; until a restart, when the array wraps round, what goes is older than everything in the other pages, stale copies and all; no buffer changes while it is programmed. |
| `logger_log` | `ImplementsLog`, `ReadBackIsOldest` | Without partial saves, with re-initialisations and losses of power: the logger is a `SampleLog`; ReadBackData prints the oldest sets. |
| `delay` | `TypeOK`, `NotEarly`, `TargetIsTaken`, `ReachableWaitEnds` | All positions of the counter, delays short, long and one short of the second. A delay lasts the interrupts it was asked for, but for one across the second, torn reads included up to `Short`; one that waits for a value the counter takes ends; and undisturbed by the interrupt it computes such a value unless it ends exactly with the second. |
| `clock` | `TypeOK`, `TickAdvances`, `ReadNotFuture` | Four years of two bytes each, with the carry between them, a setting at any moment. The interrupt never sets the clock back; the time read is not to come, but for the torn year. |
| `acquisition` | `TypeOK`, `StartedValueIsTaken`, `ChecksumDecides`, `DataSetIsMeasured`, `SerialIsRead`, `ReservedBitsKept`, `CallReturns` | Two calls of any kind with every failure. A reading takes its own measurement; a frame is taken if and only if it arrived whole; the 18 bytes of a data set are the time, the temperature and humidity of the words sent, the pressure with the sensor's own calibration data and the colors of the registers, where these came whole; a serial number is whole; a write to the user register changes no reserved bits but those damaged on the way. |

Runs that find a documented statement violated:

| Run | Statement | What happens |
|---|---|---|
| `logger_find_last` | "Look for the last data set written in flash to continue writing" (`datalogger.h:65`) | A partial save programs a reused buffer with the sets an earlier page left in it; after a restart those are found as the last ones. |
| `logger_full` | "If the device is full, do not start collecting data" (`datalogger.h:41`) | With every page full the walk ends in page 0x2000, which is not the 0xFFFF that Init looks for. |
| `logger_tail` | "The page should always start with a dataset header" (`Datalogger.c:174`) | Chip buffers that power up with zeros: the bytes behind the last set of a full page decode to size 0, the walk after a restart takes the page for one with room, and the payload of the next set wraps onto the page's first header. |
| `delay_ends` | "Look for milisecond overflow" (`Hardware.c:146`) | `ms + ElapsedMS` of exactly 1000, or an interrupt between the two reads, gives a value the counter never takes. |
| `clock_range` | "hour must be less than 24", "months must be 1-12", "days must be valid" (`Hardware.c:179`, `197`, `232`) | The interrupt counts 25 hours, and days and months from 0. |
| `acquisition_value` | "If reading is successful, TempValue will be the temperature" (`sht25.h:74`) | A lost start command after a timeout: the earlier measurement of the other quantity is returned with OK. |

### The bounds

* Pages of 5 cells hold two sets, of 7 three: a page is collected, is filled, and has cells left.
  Two pages (`logger_safety`) make the array wrap and be full; four (`logger_log`) leave room for
  two full pages, one being collected and the last; five (`logger_saves`) for one more before the
  walk reports a full device. Both buffers are used twice and more, which is what reuse of a buffer
  takes.
* Four sets with one restart (`logger_safety`), eight with two (`logger_log`): a restart comes in
  every state of filling two or three pages, and once more after the walk that follows it.
* `Second` 30 and `ByteSize` 8 in `delay`, 15 and 4 in `delay_ends`, keep the proportion of 1000 and
  256: three whole values of the high byte and part of a fourth. A carry between bytes and the
  roll-over then fall into every read. In `delay` there are delays of up to `Short`, 5, for which torn
  reads count, and longer ones up to one less than the second.
* The clock runs through all its days in four years of two values to the byte (one of them a leap year),
  with the carry into the high byte and the overflow of the year, and with one call of SetTime; a
  setting takes effect whole or in part at any moment of the day.
* `logger_log` reads back four sets of pages that hold three, so that the walk must go on to a second
  page.
* Nineteen sets (`logger_saves`) fill five pages of three and go into the first two again.
* `MaxPolls` 2 and `MaxCalls` 2: a call that times out, and one that loses its start or is answered
  late. A data set makes two readings in one call.
* The words are the least, the greatest (beyond 0 % and 100 %) and one for -0.05 degrees; the errors
  every single bit, pairs near and far, and bursts of three to eight bits at the start, the middle
  and the end of the data. One frame of a serial number is damaged at a time.
* Calibration and sample are those of the example in the application note of the MPL115A1. The
  coefficients arrive whole, with one missing (0), with the low byte of one lost, or as the ones of an
  idle line, at start-up and in each call; the sample and the colors whole or all ones. Of the user
  register a reserved bit changes on the way, or two bits of which one is reserved. The proofs of `ConversionsProofs` are
  about all words, calibration data and samples.

### Fairness

`FairSpec` of the logger: a step of the main thread that can happen does (there is nothing else to
run but interrupts), and the chip ends its operations, as its data sheet promises. Commands are not
fair. `Delay`: the main thread runs between interrupts and the timer does not stop. `Acquisition`:
the main thread only; sensors and bus may stay silent for ever. It takes for granted that its delays
return, which `delay_ends` shows is not always so.

Deadlock is checked in every run: a command, a restart or a tick is always possible (in the
acquisition, the commands between two calls).

## What is proved

TLAPS proves, for every value of the constants, every invariant and every action property that a
passing run checks, and the refinement. The assumptions on the constants (`FlashAssumption`,
`LoggerAssumption`, `AcquisitionAssumption`, `DelayAssumption`, `ClockAssumption`) hold throughout; a
theorem that needs more names it as a hypothesis.

### The logger

For every number of pages, page size, option, pace, restart and number of sets:

* `TypeCorrect` : `Spec => []TypeOK`.
* `HeldSets` : `Spec => []HeldSetsIntact`.

The argument is one inductive invariant, `IInv`. That collected sets stay intact is not inductive:
one must know that a transfer into a buffer happens only while the walk waits for it and never into
the buffer in use (`WalkInv`); that the next set is written above the sets held and inside the page,
so that no address wraps onto an earlier one (`AddressInv`, `PlaceInv`); that the header of the set
being added is already there (`HeaderInv`); and that a logger that adds has been initialised
(`InitalizedInv`). There is one lemma per action.

The other properties depend on how the firmware is used, and the hypotheses say how:

| Hypothesis | Says | Justified by |
|---|---|---|
| `Paced` | commands keep the "page" pace, the firmware boots with APPEND | `HardwareInit` passes APPEND; a character takes 8 ms (`Hardware.c:475`) |
| `Planned` | `Paced`; no "init" command; restarts come between two operations; buffers power up erased | it excludes what "What the models leave out" describes |
| `Layout` | a page holds its sets and one cell more; `ErasedSize` is at least a data set; there is a page before the last | 26 sets of 20 bytes leave 8 of 528; two erased bytes decode to 255; 0x2000 pages |
| `LogUse` | `Paced`; no partial saves; no restart but planned ones and losses of power; buffers power up erased | as `Planned` |
| `LogSize` | `Layout`; fewer sets than fill the pages before the last | the log is a log while the array has room |

* `SourceStable` : `Paced /\ Spec => ProgramSourceStable`. `SourceInv` adds to `IInv` that the buffer
  being programmed is not the one in use when sets are added.
* `SetsStay` : `Planned /\ Layout /\ Spec => SavedSetsStay`. A program replaces a whole page, so the
  buffer must carry along what the page had (`Carries`). It does because the walk after a restart ends
  in the page it continues and has it in buffer 1 (`ScanInv`), because a new page is begun only when
  the old one is full, at an address where nothing came in its turn yet, and because whatever stale
  sets lie above in the buffer are older than the page before (`CarryInv`): not even a later partial
  save can make them look new. `SavedInv` says besides what pages and buffers look like (`RowsInv`,
  `ShapeInv`), what the chip is doing (`BusyInv`) and that nothing stored is from the future
  (`ValuesInv`).
* `OldestFirst` : `Planned /\ Layout /\ Spec => OldestGoFirst`. Until a restart the logger fills the
  pages in a ring, turn after turn (`TurnInv`): the number of the turn and the distance round the ring
  (`Age`) give the sets that a page holds (`Numbered`). What a program takes away is either an older
  turn, or a stale set, and every number older than the present turn is either still in the ring or
  below all of it (`InRing`).
* `LogStep` and `Implements` : `LogUse /\ LogSize /\ Spec => ImplementsLog`. The first `f` pages
  are full, the rest erased (`LogInv`, over some `f`); a page on its way to the array is page `f`, and
  the one being collected the next. Each action then appends to the log (`AddData`), moves the page in
  flight to the saved part (`FlashDone`), loses what is not saved (restarts and initialisations) or
  leaves the log alone, and there is one lemma for each.
* `ReadsOldest` : `LogUse /\ LogSize /\ Spec => ReadBackIsOldest`. The log is in order of numbers
  (`OrderInv`), and a walk that reads back has printed the places it has passed (`PrintedInv`).

### The checksum

`ChecksumProofs` has no state. The division is a recursion, over a frame of fixed width: the library's
induction theorems cannot be instantiated, so the proofs go down bit by bit through an explicit chain
of rounds.

* `SentAccepted` : `VerifyCRC` takes every frame that the sensor's shift register makes.
* `ChangeDecides` : whether a changed frame is taken depends on the bits changed alone.
* `BurstDetected`, `PairDetected` : changes within eight bits in a row, and of any two bits, are refused.
* `Detected` : a frame with such a change, or none, is taken if and only if it is whole.
* `SentCarries` : the data bytes of a frame sent are those of its word.

### The acquisition

For every number of polls and calls, every set of words, errors, calibration data, samples and colors,
and every set of what may arrive in their place:

* `TypeCorrect` : `Spec => []TypeOK`: among others, every number is an int16_t and every element of
  the data set a byte.
* `StartedValue` : `Spec => StartedValueIsTaken`; the invariant says to which call the measurement
  met by a poll belongs (`OwnMeasurement`).
* `ReservedKept` : `Spec => ReservedBitsKept`; what was fetched is, but for the bits changed on the
  way, still what the register holds when it is written (`OwnRegister`).

and if every error of a transfer is a burst within eight bits or a pair of bits (`ErrorsDetectable`;
no checksum of eight bits refuses all errors, and these are what this one is there for):

* `ReadingsUndamaged` : `Spec => ChecksumDecides`. What has arrived is a word the sensor measured, but
  for such an error (`Carried`); the rest is `Detected`.
* `SerialWhole` : `Spec => SerialIsRead`. Each byte of the serial number has a checksum of its own,
  and the first transfer is kept until the second (`FirstHalf`).
* `DataSetMeasured` : `Spec => DataSetIsMeasured`. When GetDataSet has come past a sensor, its number is
  the one made of the word sent (`ReadBefore`), and the pressure is that of the sample found and of the
  sensor's coefficients, or `damaged` says otherwise (`PressureOfSensor`); the bytes at the end are
  those of these numbers.

`ConversionsProofs` has no state: temperature and humidity differ from the linear function of the
data sheet by less than a hundredth and fit their type (`TemperatureRounded`, `HumidityRounded`), no
intermediate value of the pressure leaves 32 bits (`PressureFits`), and values, negative ones
included, and colors survive the way through bytes (`BytesRoundTrip`, `LightRoundTrip`).

### Timer and clock

`DelayProofs`, for every second, byte and word (`DelayAssumption`): `TypeCorrect`, and `LongEnough` :
`Spec => NotEarly`. A read yields the counter, its value before the last interrupt, or, if this was a
carry between the bytes, the first value of the new high byte with the low byte from before
(`Yields`, `TornValue`). The invariant compares the interrupts still missing with the distance of the
counter to the value waited for (`Distance`, `AfterTarget`), and for short delays also with the distance
to every carry at which a torn read would yield it (`Until`, `FarFromTorn`): when the value is computed
from a whole read the next such carry is too far, and when it is computed from a torn one it is too
great, so that the delay only gets longer. A value computed below zero wraps to one that the counter never takes.
`TakenOrNot` :
`Spec => TargetIsTaken` is the exact condition of the endless delay that `delay_ends` finds, when no
interrupt comes between the overflow test and the computation: `ms + ElapsedMS` of one second. Its
invariant (`StandsStill`) says that what has been read since the last interrupt is the counter.

`ClockProofs`, for every length of minute, hour and day and every setting whose year fits its field:
`TypeCorrect`, `AlwaysAdvances` : `Spec => TickAdvances` (unit by unit: one that overflows hands on to
the next and nothing above it goes back), `NeverInFuture` : `Spec => ReadNotFuture`. The invariant of
the last looks at the time GetTime would return if the clock stood still (`Mixed`): the clock itself
until the interrupt comes, and past once it has changed a field already read, unless the field is the
low byte of the year and the interrupt has carried into the high one (`TornYear`).

### Only model-checked

The three liveness properties, `MainLoopReturns`, `ReachableWaitEnds` and `CallReturns`: the prover does
not reason about fairness and ENABLED.

## What the models leave out

* With partial saves **and** a second Datalogger_Init (`memread 9`) `SavedSetsStay` does not hold:
  a set left in buffer 1 by the re-initialisation can be written into a page by a later save and is
  then overwritten by the next. `logger_saves` has no "init" command for this reason.
* With a loss of power and arbitrary buffer contents the place found depends on the bytes the SRAM
  happens to hold; the properties about order use buffers that power up erased.
* After the last page the logger overwrites the first. What goes first is stated until a restart
  (`OldestGoFirst`): afterwards the logger continues in the first page with room and cannot tell which
  is the oldest. The other properties of order and place are stated while the array has room.
* The raw `memread` commands 0 to 8, erase, protection and page size switch: they act on the chip
  behind the logger's back by design.
* Delays longer than 231 ms with a read torn by a carry may end up to 255 ms early; `NotEarly` leaves
  them out, and the firmware has no such delay. How long a delay is in real time, and how long a sensor
  takes, is not modelled: a reset that is not over after DelayMS(15) is not.
* `SampleLog` may lose unsaved sets at any step, and not in restarts and initialisations only: it says
  what is never lost, not when the rest is.
* The command interpreter, SPI and I2C drivers are not in the repository.
* `data` prints its array also when GetDataSet has failed, and one byte behind it: uninitialized memory
  is not modelled there. Printing is not modelled at all; it has its own flaws with negative
  temperatures and humidities (`commands.c:445`, `461`) and with the fraction of the pressure
  (`commands.c:398`).
* `led`, `dfu`, `regread` and `twiscan` change nothing that is modelled.
* The interrupt runs the USB library while the main thread prints through it. The library is a
  submodule whose source is not here.
* USB, LEDs, descriptors, stop watch.

## Plan

1. `SetsStay` and `Implements` under weaker conditions of use: a loss of power with partial saves, and a
   second initialisation without.
2. What DelayMS computes when the interrupt comes between its reads, beyond how early it may end.
3. The raw dataflash commands, with what they may do to the logger; the command input between
   interrupt and main loop, if enough of the interpreter can be told from its use.
