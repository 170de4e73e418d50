---------------------------- MODULE DataloggerLog ----------------------------
(***************************************************************************)
(* The data logger implements SampleLog, as long as the host does not save *)
(* partial pages and the array has room.                                   *)
(***************************************************************************)
EXTENDS Datalogger, SequencesExt

\* Data sets that a page holds.
PerPage == PageSize \div DataSetSize

\* The payloads of the data sets at the start of a page, in order.
Leading(row, n) == \A i \in 1 .. n : row[2 * i - 2] = Header
SetsOfPage(row) ==
  LET count == Max({n \in 0 .. PerPage : Leading(row, n)})
  IN [i \in 1 .. count |-> row[2 * i - 1]]

\* The place of the n-th data set of the array.
PageOfSet(n)   == (n - 1) \div PerPage
HeaderOfSet(n) == DataSetSize * ((n - 1) % PerPage)

\* The payloads of the data sets in the array, in order, up to the first
\* place that no data set is in.
Stored ==
  Max({n \in 0 .. PerPage * (LastPage + 1) :
         \A i \in 1 .. n : mem[PageOfSet(i)][HeaderOfSet(i)] = Header})
SavedSets == [n \in 1 .. Stored |-> mem[PageOfSet(n)][HeaderOfSet(n) + 1]]

\* The page on its way to the array.
SetsInFlight ==
  IF busy.op = "program" THEN SetsOfPage(buf[busy.buffer]) ELSE <<>>

\* The page being collected: what its buffer holds below DataSetAddress.
SetsCollected ==
  IF DataloggerInitalized = 1
    THEN [i \in 1 .. DataSetAddress \div DataSetSize |-> buf[BufferInUse][2 * i - 1]]
    ELSE <<>>

\* The sets the firmware believes to have stored are stored, in order and
\* once each, and what a restart loses is the newest part: of the pages
\* collected, programmed, found again and continued nothing is skipped,
\* repeated or swapped.
Log == INSTANCE SampleLog WITH
         saved   <- SavedSets,
         unsaved <- SetsInFlight \o SetsCollected,
         next    <- nextSet
ImplementsLog == Log!LogSpec

\* ReadBackData has printed, when it returns, the data sets with the lowest
\* numbers in the array, as many as it was asked for or as there are.
AreOldest(list, count) ==
  /\ Len(list) <= count
  /\ \A i, j \in DOMAIN list : i < j => list[i] < list[j]
  /\ ToSet(list) \subseteq SetsIn(mem)
  /\ \A s \in SetsIn(mem) \ ToSet(list) :
       Len(list) = count /\ \A i \in DOMAIN list : list[i] < s
ReadBackStep ==
  InScan /\ scan.goal = "read" /\ pc' = "idle" => AreOldest(printed', ReadCount)
ReadBackIsOldest == [][ReadBackStep]_vars

-----------------------------------------------------------------------------
(***************************************************************************)
(* What datalogger.h says of Datalogger_Init and FindLastDataSet.          *)
(***************************************************************************)

\* An initialisation has walked the array and the logger is set up.
Placed == InScan /\ scan.goal = "init" /\ pc' = "idle" /\ DataloggerInitalized' = 1

\* The data sets in the array before a place.
SetsBefore(page, address) ==
  FlattenSeq([p \in 1 .. page |-> SetsOfPage(mem[p - 1])])
    \o SubSeq(SetsOfPage(mem[page]), 1, address \div DataSetSize)

\* "Look for the last data set written in flash to continue writing"
\* (datalogger.h:65): the last data set before the place where the logger
\* continues is the one that was added last of those in the array.
FindsLast ==
  Placed /\ SetsIn(mem) # {} /\ HasRoom =>
    Last(SetsBefore(DataPageAddress', DataSetAddress')) = Max(SetsIn(mem))
ContinuesBehindLast == [][FindsLast]_vars

\* "If the device is full, do not start collecting data" (datalogger.h:41,
\* DATALOGGER_INIT_STOP_IF_FULL).
DeviceFull == Stored = PerPage * (LastPage + 1)
FullStops  == Placed /\ DeviceFull => "STOP_IF_FULL" \notin SetupByte
StopsIfFull == [][FullStops]_vars

\* "The page should always start with a dataset header" (Datalogger.c:174):
\* FindLastDataSet relies on it.
PagesStartWithHeader == \A p \in Pages : mem[p][0] \in {Erased, Header}
=============================================================================
