------------------------------ MODULE LogProofs ------------------------------
(***************************************************************************)
(* Proofs about DataloggerLog: the data logger implements SampleLog, and   *)
(* ReadBackData prints the oldest data sets, for every size of the array   *)
(* and of its pages and any number of restarts and losses of power.        *)
(***************************************************************************)
EXTENDS SavedSetsProofs, SequenceTheorems

\* How the logger has to be used to be a log: the firmware boots with APPEND
\* and keeps the pace, the host does not save partial pages, no restart comes
\* while the controller waits for the chip (a loss of power may), and the
\* buffers come up erased.
LogUse ==
  /\ Paced
  /\ Commands \subseteq {"add", "init", "read"}
  /\ Restarts \subseteq {"planned", "power"}
  /\ Fills \subseteq {Erased}

\* The array has room for the data sets: they do not fill the pages before
\* the last.
LogSize == Layout /\ MaxSets < PerPage * LastPage

-----------------------------------------------------------------------------
(***************************************************************************)
(* The inductive invariant.                                                *)
(***************************************************************************)
\* The first f pages are full, the others are erased.
ArrayIs(m, f) ==
  \A p \in Pages : IF p < f THEN HoldsTo(m[p], PageSize - 1) ELSE IsErased(m[p])

\* Headers and payloads below an address.
Filled(row, e) ==
  \A a \in Address : a < e => IF a % 2 = 0 THEN row[a] = Header ELSE row[a] > 0

\* The logger collects the page after the last one, or after the one that is
\* being programmed.
CollectInv(f) ==
  /\ f \in Nat /\ Before(f) < nextSet
  /\ Collecting =>
       /\ DataPageAddress = IF busy.op = "program" THEN f + 1 ELSE f
       /\ IF pc = "addData" THEN DataSetAddress - 1 \in Ends /\ DataSetAddress + 1 <= PageSize
                            ELSE DataSetAddress \in Ends
       /\ pc \notin {"addData", "addFull"} => DataSetAddress + DataSetSize <= PageSize
       /\ Filled(buf[BufferInUse], DataSetAddress)
       /\ Before(DataPageAddress) + (DataSetAddress \div DataSetSize) < nextSet

\* The chip loads the page of the walk, or programs a full page.
ChipInv(f) ==
  /\ busy.op = "load" => pc = "scanRead" /\ busy.buffer = scan.buffer /\ busy.page = scan.page
  /\ busy.op = "program" =>
       /\ Collecting
       /\ pc \in {"idle", "addData", "addFull"}
       /\ busy.buffer # BufferInUse /\ busy.page = f
       /\ HoldsTo(buf[busy.buffer], PageSize - 1)

\* The walk has full pages behind it, and the page in its buffer.
WalksInv(f) ==
  InScan =>
    /\ scan.page <= f /\ scan.addr \in Ends
    /\ scan.addr > 0 => scan.page < f
    /\ Collecting => scan.buffer # BufferInUse
    /\ pc = "scanCopy" => scan.addr = 0
    /\ pc # "scanCopy" => busy.op = "load" \/ buf[scan.buffer] = mem[scan.page]
    /\ pc = "scanFull" => mem[scan.page][scan.addr] = Erased /\ scan.size = ErasedSize

\* The cell that data sets leave of a page stays erased; there are no more
\* data sets than there is room for.
RoomInv ==
  /\ \A b \in Buffers : buf[b][PageSize - 1] = Erased
  /\ nextSet <= MaxSets + 1
  /\ pc = "addData" => nextSet <= MaxSets
  /\ pc # "saveWait"

LogAt(f) == ArrayIs(mem, f) /\ CollectInv(f) /\ ChipInv(f) /\ WalksInv(f) /\ RoomInv
LogInv   == \E f \in 0 .. LastPage : LogAt(f)

-----------------------------------------------------------------------------
(***************************************************************************)
(* The steps.                                                              *)
(***************************************************************************)
\* A page whose data sets before it have been numbered is before the last.
LEMMA RoomFor ==
  ASSUME LogSize, RoomInv, nextSet \in Nat, NEW p \in Nat, Before(p) < nextSet
  PROVE  p < LastPage
<1>1. MaxSets \in Nat /\ MaxSets < Before(LastPage) /\ LastPage \in Nat
  BY LoggerAssumption, FlashAssumption, PageIs DEF LogSize, Before
<1>2. Before(p) <= MaxSets /\ Before(p) \in Nat /\ Before(LastPage) \in Nat /\ PerPage \in Nat
  BY <1>1, BeforeIs, PageIs DEF RoomInv, LogSize
<1>3. LastPage < p => Before(LastPage) + PerPage <= Before(p)
  BY <1>1, BeforeIs DEF LogSize
<1>4. QED
  BY <1>1, <1>2, <1>3

\* The page being collected, the one after the full pages.
LEMMA PageFor ==
  ASSUME LogSize, IInv, NEW f \in 0 .. LastPage, LogAt(f)
  PROVE  /\ f < LastPage /\ f \in Pages
         /\ Collecting => DataPageAddress < LastPage /\ DataPageAddress \in Pages
                          /\ (busy.op = "program" => f + 1 < LastPage)
<1>1. /\ f \in Nat /\ Before(f) < nextSet /\ RoomInv /\ nextSet \in Nat /\ LastPage \in Nat
  BY FlashAssumption DEF LogAt, CollectInv, IInv, TypeOK
<1>2. f < LastPage
  BY <1>1, RoomFor
<1>3. ASSUME Collecting
      PROVE  DataPageAddress \in Nat /\ Before(DataPageAddress) < nextSet
  <2>1. DataPageAddress \in Nat
    BY <1>1 DEF IInv, TypeOK
  <2>2. Before(DataPageAddress) + (DataSetAddress \div DataSetSize) < nextSet
    BY <1>3 DEF LogAt, CollectInv
  <2>3. DataSetAddress \div DataSetSize \in Nat
    BY DEF IInv, TypeOK, Position, DataSetSize
  <2>4. Before(DataPageAddress) \in Nat
    BY <2>1, BeforeIs DEF LogSize
  <2>5. QED
    BY <1>1, <2>1, <2>2, <2>3, <2>4
<1>4. Collecting => DataPageAddress < LastPage
  BY <1>1, <1>3, RoomFor
<1>5. Collecting /\ busy.op = "program" => DataPageAddress = f + 1
  BY DEF LogAt, CollectInv
<1>6. QED
  BY <1>1, <1>2, <1>3, <1>4, <1>5 DEF Pages

\* A step that leaves the logger, the array and the buffers alone leaves the
\* log as it is.
LEMMA ApartLog ==
  ASSUME NEW f \in 0 .. LastPage, LogAt(f), Apart, pc # "addData",
         pc' \notin {"addData", "addFull", "saveWait"},
         Collecting /\ pc = "addFull" => DataSetAddress + DataSetSize <= PageSize
  PROVE  ArrayIs(mem, f)' /\ CollectInv(f)' /\ RoomInv' /\ UNCHANGED Log!logVars
<1>1. /\ mem' = mem /\ buf' = buf /\ nextSet' = nextSet /\ (Collecting' <=> Collecting)
      /\ DataSetAddress' = DataSetAddress /\ DataPageAddress' = DataPageAddress
      /\ BufferInUse' = BufferInUse /\ DataloggerInitalized' = DataloggerInitalized
      /\ busy' = busy \/ (busy.op # "program" /\ busy'.op # "program")
  BY DEF Apart, loggerVars, Collecting
<1>2. ArrayIs(mem, f)' /\ RoomInv'
  BY <1>1 DEF LogAt, ArrayIs, RoomInv
<1>3. CollectInv(f)'
  <2>1. CollectInv(f)
    BY DEF LogAt
  <2>2. busy'.op = "program" <=> busy.op = "program"
    BY <1>1
  <2>3. QED
    BY <1>1, <2>1, <2>2 DEF CollectInv
<1>4. SavedSets' = SavedSets
  BY <1>1 DEF SavedSets, Stored
<1>5. SetsInFlight' = SetsInFlight
  BY <1>1 DEF SetsInFlight
<1>6. SetsCollected' = SetsCollected
  BY <1>1 DEF SetsCollected
<1>7. QED
  BY <1>1, <1>2, <1>3, <1>4, <1>5, <1>6 DEF Log!logVars

\* The chip does nothing at the start of a walk or of a page.
LEMMA IdleThen ==
  ASSUME IInv, NEW f, LogAt(f), pc \in {"boot", "scanCopy", "scanFull"}
  PROVE  busy.op = "idle"
<1>1. busy.op \in {"idle", "program", "load"}
  BY DEF IInv, TypeOK, FlashTypeOK, Operation
<1>2. QED
  BY <1>1 DEF LogAt, ChipInv

\* Datalogger_Init and ReadBackData begin a walk at the first page.
LEMMA StartLog ==
  ASSUME LogSize, IInv, NEW f \in 0 .. LastPage, LogAt(f), pc \in {"boot", "idle"}, Ready,
         NEW goal, NEW count, StartScan(goal, count), UNCHANGED <<flashVars, loggerVars, nextSet>>
  PROVE  LogAt(f)' /\ UNCHANGED Log!logVars
<1>1. pc' = "scanCopy" /\ scan'.page = 0 /\ scan'.addr = 0 /\ scan'.buffer = TempBuffer
      /\ UNCHANGED <<mem, buf, busy, BufferInUse, DataloggerInitalized>>
  BY DEF StartScan, flashVars, loggerVars
<1>2. Apart
  BY DEF Apart, flashVars
<1>3. ArrayIs(mem, f)' /\ CollectInv(f)' /\ RoomInv' /\ UNCHANGED Log!logVars
  BY <1>1, <1>2, ApartLog
<1>4. ChipInv(f)'
  BY <1>1 DEF ChipInv, Ready
<1>5. WalksInv(f)'
  <2>1. Collecting => TempBuffer # BufferInUse
    BY CollectingType DEF TempBuffer, Buffers
  <2>2. 0 <= f /\ 0 \in Ends
    BY EndsAre DEF LogSize
  <2>3. QED
    BY <1>1, <2>1, <2>2 DEF WalksInv, Collecting
<1>6. QED
  BY <1>3, <1>4, <1>5 DEF LogAt

\* The walk asks for its page.
LEMMA ScanCopyLog ==
  ASSUME LogSize, IInv, NEW f \in 0 .. LastPage, LogAt(f), ScanCopy
  PROVE  LogAt(f)' /\ UNCHANGED Log!logVars
<1>1. /\ busy.op = "idle" /\ pc = "scanCopy" /\ pc' = "scanRead"
      /\ scan' = scan /\ UNCHANGED <<mem, buf, BufferInUse, DataloggerInitalized>>
  BY IdleThen DEF ScanCopy, loggerVars
<1>2. scan.page \in Pages
  <2>1. scan.page <= f
    BY <1>1 DEF LogAt, WalksInv, InScan
  <2>2. scan.page \in Nat
    BY DEF IInv, TypeOK, Walk
  <2>3. QED
    BY <2>1, <2>2, FlashAssumption DEF Pages
<1>3. busy' = [op |-> "load", buffer |-> scan.buffer, page |-> scan.page]
  BY <1>1, <1>2 DEF ScanCopy, CopyPageToBuffer, Issue, Ready, ChipPage, Pages
<1>4. Apart
  BY <1>1, <1>3 DEF Apart, ScanCopy, historyVars
<1>5. ArrayIs(mem, f)' /\ CollectInv(f)' /\ RoomInv' /\ UNCHANGED Log!logVars
  BY <1>1, <1>4, ApartLog
<1>6. ChipInv(f)'
  BY <1>1, <1>3 DEF ChipInv
<1>7. WalksInv(f)'
  BY <1>1, <1>3 DEF LogAt, WalksInv, InScan, Collecting
<1>8. QED
  BY <1>5, <1>6, <1>7 DEF LogAt

\* What the walk sees: headers in a full page up to its last cell.
LEMMA WalkSees ==
  ASSUME LogSize, IInv, NEW f \in 0 .. LastPage, LogAt(f), pc = "scanRead", Ready
  PROVE  /\ scan.page \in Pages /\ scan.addr \in Ends /\ scan.page <= f
         /\ BufferRead(scan.buffer, scan.addr) = mem[scan.page][scan.addr]
         /\ BufferRead(scan.buffer, scan.addr + 1) =
              IF scan.addr = PageSize - 1 THEN mem[scan.page][0] ELSE mem[scan.page][scan.addr + 1]
         /\ scan.addr <= PageSize - 1
         /\ mem[scan.page][scan.addr] =
              IF scan.page < f /\ scan.addr < PageSize - 1 THEN Header ELSE Erased
<1>1. /\ scan.page <= f /\ scan.addr \in Ends /\ (scan.addr > 0 => scan.page < f)
      /\ buf[scan.buffer] = mem[scan.page] /\ scan.page \in Nat
  BY DEF LogAt, WalksInv, InScan, Ready, IInv, TypeOK, Walk
<1>2. scan.page \in Pages
  BY <1>1, FlashAssumption DEF Pages
<1>3. scan.addr \in Address /\ scan.addr % 2 = 0 /\ PageSize \in Nat /\ scan.addr <= PageSize - 1
      /\ PageSize - 1 \in Address
  BY <1>1, FlashAssumption DEF Ends, Address
<1>4. BufferRead(scan.buffer, scan.addr) = mem[scan.page][scan.addr]
  BY <1>1, <1>3 DEF BufferRead, Wrap, Address
<1>5. BufferRead(scan.buffer, scan.addr + 1) =
        IF scan.addr = PageSize - 1 THEN mem[scan.page][0] ELSE mem[scan.page][scan.addr + 1]
  BY <1>1, <1>3 DEF BufferRead, Wrap, Address
<1>6. CASE scan.page < f
  <2>1. HoldsTo(mem[scan.page], PageSize - 1)
    BY <1>2, <1>6 DEF LogAt, ArrayIs
  <2>2. mem[scan.page][scan.addr] = IF scan.addr < PageSize - 1 THEN Header ELSE Erased
    BY <1>3, <2>1 DEF HoldsTo, Address
  <2>3. QED
    BY <1>1, <1>2, <1>3, <1>4, <1>5, <1>6, <2>2
<1>7. CASE ~(scan.page < f)
  <2>1. mem[scan.page][scan.addr] = Erased
    BY <1>2, <1>3, <1>7 DEF LogAt, ArrayIs, IsErased
  <2>2. QED
    BY <1>1, <1>2, <1>3, <1>4, <1>5, <1>7, <2>1
<1>8. QED
  BY <1>6, <1>7

\* One step of the walk: over a data set, past its end, or, when enough is
\* printed, back to the main loop.
LEMMA ScanReadIs ==
  ASSUME LogSize, IInv, NEW f \in 0 .. LastPage, LogAt(f), ScanRead
  PROVE  /\ pc = "scanRead" /\ busy.op = "idle"
         /\ UNCHANGED <<flashVars, loggerVars, nextSet>>
         /\ scan'.page = scan.page /\ scan'.buffer = scan.buffer /\ scan'.goal = scan.goal
         /\ LET more == ~(scan.goal = "read" /\ Enough) IN
            IF scan.page < f /\ scan.addr < PageSize - 1
              THEN /\ IF more THEN pc' = "scanRead" /\ scan'.addr = scan.addr + 2
                              ELSE pc' = "idle"
                   /\ scan.goal = "read" =>
                        /\ printed' = Append(printed, mem[scan.page][scan.addr + 1])
                        /\ scan'.left = scan.left - 1
              ELSE /\ pc' = "scanFull" /\ scan'.addr = scan.addr /\ scan'.size = ErasedSize
                   /\ printed' = printed /\ scan'.left = scan.left
                   /\ mem[scan.page][scan.addr] = Erased
<1> DEFINE cell == BufferRead(scan.buffer, scan.addr)
           onSet == scan.page < f /\ scan.addr < PageSize - 1
           reading == scan.goal = "read" /\ IsHeader(cell)
           more == ~(reading /\ Enough)
           next == [scan EXCEPT
                 !.size = SizeField(cell),
                 !.addr = IF IsHeader(cell) /\ more THEN @ + SizeField(cell) ELSE @,
                 !.left = IF reading THEN @ - 1 ELSE @]
<1>1. /\ pc = "scanRead" /\ Ready /\ busy.op = "idle"
      /\ UNCHANGED <<flashVars, loggerVars, nextSet>>
  BY DEF ScanRead, Ready, historyVars
<1>2. /\ scan.addr \in Ends /\ scan.addr <= PageSize - 1 /\ scan.page \in Pages
      /\ cell = IF onSet THEN Header ELSE Erased
      /\ onSet => BufferRead(scan.buffer, scan.addr + 1) = mem[scan.page][scan.addr + 1]
      /\ mem[scan.page][scan.addr] = cell
  <2>1. PageSize \in Nat /\ scan.addr \in Nat
    BY FlashAssumption DEF IInv, TypeOK, Walk, Position
  <2>2. onSet => scan.addr # PageSize - 1
    BY <2>1
  <2>3. QED
    BY <1>1, <2>2, WalkSees
<1>3. ~(scan.addr > PageSize)
  BY <1>2, FlashAssumption DEF Ends, Address
<1>4. /\ pc' = IF ~more THEN "idle" ELSE IF IsHeader(cell) THEN "scanRead" ELSE "scanFull"
      /\ scan' = next
      /\ printed' = IF reading THEN Append(printed, BufferRead(scan.buffer, scan.addr + 1))
                               ELSE printed
  BY <1>3 DEF ScanRead
<1>5. /\ next.page = scan.page /\ next.goal = scan.goal /\ next.buffer = scan.buffer
      /\ next.size = SizeField(cell)
      /\ next.addr = IF IsHeader(cell) /\ more THEN scan.addr + SizeField(cell) ELSE scan.addr
      /\ next.left = IF reading THEN scan.left - 1 ELSE scan.left
  BY DEF IInv, TypeOK, Walk
<1>6. IF onSet THEN IsHeader(cell) /\ SizeField(cell) = 2
               ELSE ~IsHeader(cell) /\ SizeField(cell) = ErasedSize
  BY <1>2, CellFacts DEF DataSetSize
<1> HIDE DEF cell, next
<1>7. QED
  BY <1>1, <1>2, <1>4, <1>5, <1>6

\* The walk looks at a header.
LEMMA ScanReadLog ==
  ASSUME LogSize, IInv, NEW f \in 0 .. LastPage, LogAt(f), ScanRead
  PROVE  LogAt(f)' /\ UNCHANGED Log!logVars
<1>1. /\ pc = "scanRead" /\ busy.op = "idle" /\ pc' \in {"idle", "scanRead", "scanFull"}
      /\ UNCHANGED <<flashVars, loggerVars, nextSet>>
      /\ scan'.page = scan.page /\ scan'.buffer = scan.buffer
      /\ pc' = "scanRead" => /\ scan'.addr = scan.addr + 2
                             /\ scan.page < f /\ scan.addr < PageSize - 1
      /\ pc' = "scanFull" => /\ scan'.addr = scan.addr /\ scan'.size = ErasedSize
                             /\ mem[scan.page][scan.addr] = Erased
  BY ScanReadIs
<1>2. UNCHANGED <<mem, buf, busy, BufferInUse, DataloggerInitalized>>
  BY <1>1 DEF flashVars, loggerVars
<1>3. Apart
  BY <1>1, <1>2 DEF Apart
<1>4. ArrayIs(mem, f)' /\ CollectInv(f)' /\ RoomInv' /\ UNCHANGED Log!logVars
  BY <1>1, <1>3, ApartLog
<1>5. ChipInv(f)'
  BY <1>1, <1>2 DEF ChipInv
<1>6. /\ scan.page <= f /\ scan.addr \in Ends /\ (scan.addr > 0 => scan.page < f)
      /\ Collecting => scan.buffer # BufferInUse
      /\ buf[scan.buffer] = mem[scan.page]
  BY <1>1 DEF LogAt, WalksInv, InScan
<1>7. scan.addr < PageSize - 1 => scan.addr + 2 \in Ends
  <2>1. scan.addr < PageSize - 1 => scan.addr + DataSetSize <= PageSize - 1
    BY <1>6, EndsAre DEF LogSize
  <2>2. scan.addr < PageSize - 1 => scan.addr + DataSetSize <= PageSize
    BY <1>6, <2>1, FlashAssumption DEF Ends, Address, DataSetSize
  <2>3. QED
    BY <1>6, <2>2, EndsAre DEF LogSize, DataSetSize
<1>8. WalksInv(f)'
  <2>1. CASE pc' = "idle"
    BY <2>1 DEF WalksInv, InScan
  <2>2. CASE pc' = "scanRead"
    BY <1>1, <1>2, <1>6, <1>7, <2>2 DEF WalksInv, InScan, Collecting
  <2>3. CASE pc' = "scanFull"
    BY <1>1, <1>2, <1>6, <2>3 DEF WalksInv, InScan, Collecting
  <2>4. QED
    BY <1>1, <2>1, <2>2, <2>3
<1>9. QED
  BY <1>4, <1>5, <1>8 DEF LogAt

\* Where the walk ends a page: behind a full one, or at the start of the
\* first erased one.
LEMMA WalkEnds ==
  ASSUME LogSize, IInv, NEW f \in 0 .. LastPage, LogAt(f), pc = "scanFull"
  PROVE  /\ busy.op = "idle" /\ scan.page \in Pages
         /\ \/ scan.page < f /\ scan.addr = PageSize - 1 /\ scan.addr + scan.size > PageSize
            \/ scan.page = f /\ scan.addr = 0 /\ ~(scan.addr + scan.size > PageSize)
<1>1. /\ scan.page <= f /\ scan.addr \in Ends /\ (scan.addr > 0 => scan.page < f)
      /\ mem[scan.page][scan.addr] = Erased /\ scan.size = ErasedSize /\ scan.page \in Nat
  BY DEF LogAt, WalksInv, InScan, IInv, TypeOK, Walk
<1>2. /\ PageSize \in Nat /\ PageSize >= 3 /\ ErasedSize \in Nat
      /\ ErasedSize >= 2 /\ ErasedSize <= PageSize /\ LastPage \in Nat
  BY FlashAssumption, LoggerAssumption DEF LogSize, Layout, DataSetSize
<1>3. scan.page \in Pages /\ scan.addr \in Address /\ scan.addr % 2 = 0
  BY <1>1, <1>2 DEF Pages, Ends
<1>4. CASE scan.page < f
  <2>1. HoldsTo(mem[scan.page], PageSize - 1)
    BY <1>3, <1>4 DEF LogAt, ArrayIs
  <2>2. scan.addr = PageSize - 1
    BY <1>1, <1>2, <1>3, <2>1 DEF HoldsTo, Address, Header, Erased
  <2>3. QED
    BY <1>1, <1>2, <1>3, <1>4, <2>2, IdleThen
<1>5. CASE ~(scan.page < f)
  BY <1>1, <1>2, <1>3, <1>5, IdleThen DEF Address
<1>6. QED
  BY <1>4, <1>5

\* The walk goes on to the next page.
LEMMA ScanNextPageLog ==
  ASSUME LogSize, IInv, NEW f \in 0 .. LastPage, LogAt(f), ScanNextPage
  PROVE  LogAt(f)' /\ UNCHANGED Log!logVars
<1>1. /\ pc = "scanFull" /\ pc' = "scanCopy" /\ scan.addr + scan.size > PageSize
      /\ scan'.page = scan.page + 1 /\ scan'.addr = 0 /\ scan'.buffer = scan.buffer
      /\ UNCHANGED <<mem, buf, busy, BufferInUse, DataloggerInitalized>>
      /\ Apart
  BY DEF ScanNextPage, Apart, flashVars, loggerVars, historyVars, IInv, TypeOK, Walk
<1>2. busy.op = "idle" /\ scan.page < f /\ scan.page \in Nat
  BY <1>1, WalkEnds DEF IInv, TypeOK, Walk
<1>3. ArrayIs(mem, f)' /\ CollectInv(f)' /\ RoomInv' /\ UNCHANGED Log!logVars
  BY <1>1, ApartLog
<1>4. ChipInv(f)'
  BY <1>1, <1>2 DEF ChipInv
<1>5. WalksInv(f)'
  <2>1. Collecting => scan.buffer # BufferInUse
    BY <1>1 DEF LogAt, WalksInv, InScan
  <2>2. scan.page + 1 <= f /\ 0 \in Ends
    BY <1>2, EndsAre DEF LogSize
  <2>3. QED
    BY <1>1, <2>1, <2>2 DEF WalksInv, Collecting
<1>6. QED
  BY <1>3, <1>4, <1>5 DEF LogAt

\* AddDataSet returns when the page is not full.
LEMMA AddNotFullLog ==
  ASSUME LogSize, IInv, NEW f \in 0 .. LastPage, LogAt(f), AddNotFull
  PROVE  LogAt(f)' /\ UNCHANGED Log!logVars
<1>1. /\ pc = "addFull" /\ pc' = "idle" /\ DataSetAddress + DataSetSize <= PageSize
      /\ UNCHANGED <<mem, buf, busy, BufferInUse, DataloggerInitalized, scan>>
      /\ Apart
  BY FlashAssumption
     DEF AddNotFull, Apart, PageIsFull, flashVars, loggerVars, historyVars, IInv, TypeOK,
         Position, DataSetSize
<1>2. ArrayIs(mem, f)' /\ CollectInv(f)' /\ RoomInv' /\ UNCHANGED Log!logVars
  BY <1>1, ApartLog
<1>3. ChipInv(f)' /\ WalksInv(f)'
  BY <1>1 DEF LogAt, ChipInv, WalksInv, InScan, Collecting
<1>4. QED
  BY <1>2, <1>3 DEF LogAt

-----------------------------------------------------------------------------
(***************************************************************************)
(* The data sets of rows and pages as sequences.                           *)
(***************************************************************************)
\* The greatest member of a set.
LEMMA MaxIs ==
  ASSUME NEW S \in SUBSET Int, NEW x \in S, \A y \in S : x >= y
  PROVE  Max(S) = x
<1>1. \E y \in S : \A z \in S : y >= z
  OBVIOUS
<1>2. Max(S) \in S /\ \A z \in S : Max(S) >= z
  BY <1>1, Zenon DEF Max
<1>3. Max(S) \in Int /\ x \in Int /\ Max(S) >= x /\ x >= Max(S)
  BY <1>2
<1>4. QED
  BY <1>3

\* The payloads of a row below an address.
Payloads(row, n) == [i \in 1 .. n |-> row[2 * i - 1]]

\* They are data sets.
LEMMA PayloadsAre ==
  ASSUME NEW row \in [Address -> Cell], NEW n \in Nat, 2 * n <= PageSize, Filled(row, 2 * n)
  PROVE  /\ Payloads(row, n) \in Seq(Nat \ {0}) /\ Len(Payloads(row, n)) = n
         /\ \A i \in 1 .. n : Payloads(row, n)[i] = row[2 * i - 1]
<1>1. ASSUME NEW i \in 1 .. n PROVE row[2 * i - 1] \in Nat \ {0}
  <2>1. 2 * i - 1 \in Address /\ 2 * i - 1 < 2 * n /\ (2 * i - 1) % 2 # 0
    BY FlashAssumption DEF Address
  <2>2. row[2 * i - 1] \in Cell /\ row[2 * i - 1] > 0
    BY <2>1 DEF Filled
  <2>3. QED
    BY <2>2 DEF Cell, Filler, Header, Erased, Blank, NullHeader
<1>2. Payloads(row, n) \in [1 .. n -> Nat \ {0}]
  BY <1>1 DEF Payloads
<1>3. Payloads(row, n) \in Seq(Nat \ {0})
  BY <1>2, SeqDef
<1>4. Len(Payloads(row, n)) = n
  BY <1>2, <1>3, LenProperties
<1>5. QED
  BY <1>3, <1>4 DEF Payloads

\* The data sets of a full page.
LEMMA SetsOfFullPage ==
  ASSUME Layout, NEW row, HoldsTo(row, PageSize - 1)
  PROVE  /\ SetsOfPage(row) = Payloads(row, PerPage) /\ 2 * PerPage = PageSize - 1
         /\ Filled(row, 2 * PerPage) /\ 2 * PerPage <= PageSize
<1>1. PerPage \in Nat /\ PageSize = 2 * PerPage + 1
  BY PageIs
<1>2. Filled(row, 2 * PerPage)
  BY <1>1 DEF HoldsTo, Filled, Address
<1>3. Leading(row, PerPage)
  <2>1. ASSUME NEW i \in 1 .. PerPage PROVE row[2 * i - 2] = Header
    <3>1. 2 * i - 2 \in Address /\ 2 * i - 2 < 2 * PerPage /\ (2 * i - 2) % 2 = 0
      BY <1>1 DEF Address
    <3>2. QED
      BY <1>2, <3>1 DEF Filled
  <2>2. QED
    BY <2>1 DEF Leading
<1>4. Max({n \in 0 .. PerPage : Leading(row, n)}) = PerPage
  <2> DEFINE S == {n \in 0 .. PerPage : Leading(row, n)}
  <2>1. S \in SUBSET Int /\ PerPage \in S /\ \A y \in S : PerPage >= y
    BY <1>1, <1>3
  <2> HIDE DEF S
  <2>2. Max(S) = PerPage
    BY <2>1, MaxIs
  <2>3. QED
    BY <2>2 DEF S
<1>5. QED
  BY <1>1, <1>2, <1>4 DEF SetsOfPage, Payloads

\* The places of data sets in the array.
LEMMA PlaceInArray ==
  ASSUME Layout, NEW i \in Nat \ {0}, i <= Before(LastPage + 1)
  PROVE  \E p \in Pages, s \in Nat :
           /\ s < PerPage /\ i = Before(p) + s + 1
           /\ PageOfSet(i) = p /\ HeaderOfSet(i) = 2 * s
           /\ 2 * s \in Address /\ 2 * s + 1 \in Address /\ 2 * s + 1 < PageSize - 1
<1>1. PICK p \in Nat, s \in Nat : s < PerPage /\ i = Before(p) + s + 1
  BY PlaceOf
<1>2. p <= LastPage
  <2>1. LastPage + 1 \in Nat /\ Before(LastPage + 1) \in Nat /\ Before(p) \in Nat
    BY FlashAssumption, BeforeIs
  <2>2. LastPage + 1 <= p => i > Before(LastPage + 1)
    BY <1>1, <2>1, PageOrder
  <2>3. QED
    BY <2>1, <2>2, FlashAssumption
<1>3. p \in Pages
  BY <1>2, FlashAssumption DEF Pages
<1>4. 2 * s \in Address /\ 2 * s + 1 \in Address /\ 2 * s + 1 < PageSize - 1
  BY <1>1, PageIs DEF Address
<1>5. PageOfSet(i) = p /\ HeaderOfSet(i) = 2 * s
  BY <1>1, PlaceIs
<1>6. QED
  BY <1>1, <1>3, <1>4, <1>5

\* Headers are in the places of the full pages, and in no others.
LEMMA HeadersAre ==
  ASSUME Layout, NEW m, NEW f \in 0 .. LastPage, ArrayIs(m, f),
         NEW i \in Nat \ {0}, i <= Before(LastPage + 1)
  PROVE  /\ m[PageOfSet(i)][HeaderOfSet(i)] = Header <=> i <= Before(f)
         /\ i <= Before(f) => m[PageOfSet(i)][HeaderOfSet(i) + 1] > 0
<1>1. PICK p \in Pages, s \in Nat :
           /\ s < PerPage /\ i = Before(p) + s + 1
           /\ PageOfSet(i) = p /\ HeaderOfSet(i) = 2 * s
           /\ 2 * s \in Address /\ 2 * s + 1 \in Address /\ 2 * s + 1 < PageSize - 1
  BY PlaceInArray
<1>2. p \in Nat /\ f \in Nat /\ LastPage \in Nat /\ PageSize \in Nat
  BY FlashAssumption DEF Pages
<1>3. Before(f) \in Nat /\ (p < f => i <= Before(f)) /\ (f <= p => i > Before(f))
  BY <1>1, <1>2, PageOrder, BeforeIs
<1>4. CASE p < f
  <2>1. HoldsTo(m[p], PageSize - 1)
    BY <1>4 DEF ArrayIs
  <2>2. (2 * s) % 2 = 0 /\ (2 * s + 1) % 2 # 0 /\ ~(2 * s >= PageSize - 1)
        /\ ~(2 * s + 1 >= PageSize - 1)
    BY <1>1, <1>2
  <2>3. m[p][2 * s] = Header /\ m[p][2 * s + 1] > 0
    BY <1>1, <2>1, <2>2 DEF HoldsTo
  <2>4. QED
    BY <1>1, <1>3, <1>4, <2>3
<1>5. CASE ~(p < f)
  <2>1. m[p][2 * s] = Erased
    BY <1>1, <1>5 DEF ArrayIs, IsErased
  <2>2. i > Before(f)
    BY <1>2, <1>3, <1>5
  <2>3. QED
    BY <1>1, <1>3, <2>1, <2>2 DEF Header, Erased
<1>6. QED
  BY <1>4, <1>5

\* How many data sets are in the array.
LEMMA StoredIs ==
  ASSUME Layout, NEW m, NEW f \in 0 .. LastPage, ArrayIs(m, f)
  PROVE  Max({n \in 0 .. PerPage * (LastPage + 1) :
                \A i \in 1 .. n : m[PageOfSet(i)][HeaderOfSet(i)] = Header}) = Before(f)
<1> DEFINE S == {n \in 0 .. PerPage * (LastPage + 1) :
                   \A i \in 1 .. n : m[PageOfSet(i)][HeaderOfSet(i)] = Header}
<1>1. /\ f \in Nat /\ LastPage + 1 \in Nat /\ f < LastPage + 1 /\ PerPage \in Nat
      /\ Before(f) \in Nat /\ Before(LastPage + 1) \in Nat
      /\ Before(f) <= Before(LastPage + 1)
  <2>1. f \in Nat /\ LastPage + 1 \in Nat /\ f < LastPage + 1
    BY FlashAssumption
  <2>2. Before(f) + PerPage <= Before(LastPage + 1)
    BY <2>1, BeforeIs
  <2>3. QED
    BY <2>1, <2>2, BeforeIs, PageIs
<1>2. PerPage * (LastPage + 1) = Before(LastPage + 1)
  BY <1>1 DEF Before
<1>3. Before(f) \in S
  <2>1. \A i \in 1 .. Before(f) : m[PageOfSet(i)][HeaderOfSet(i)] = Header
    BY <1>1, HeadersAre
  <2>2. QED
    BY <1>1, <1>2, <2>1
<1>4. ASSUME NEW y \in S PROVE Before(f) >= y
  <2> SUFFICES ASSUME y > Before(f) PROVE FALSE
    BY <1>1, <1>2
  <2>1. y \in 1 .. y /\ y \in Nat \ {0} /\ y <= Before(LastPage + 1)
    BY <1>1, <1>2
  <2>2. m[PageOfSet(y)][HeaderOfSet(y)] = Header
    BY <2>1
  <2>3. QED
    BY <1>1, <2>1, <2>2, HeadersAre
<1>5. S \in SUBSET Int
  BY <1>1, <1>2
<1> HIDE DEF S
<1>6. Max(S) = Before(f)
  BY <1>3, <1>4, <1>5, MaxIs
<1>7. QED
  BY <1>6 DEF S

\* The data sets of an array as a sequence.
SetsTo(m, n) == [i \in 1 .. n |-> m[PageOfSet(i)][HeaderOfSet(i) + 1]]

\* That sequence is one of data set numbers, each read at its place.
LEMMA SetsToAre ==
  ASSUME Layout, NEW m \in [Pages -> [Address -> Cell]], NEW f \in 0 .. LastPage, ArrayIs(m, f)
  PROVE  /\ SetsTo(m, Before(f)) \in Seq(Nat \ {0}) /\ Len(SetsTo(m, Before(f))) = Before(f)
         /\ \A i \in 1 .. Before(f) :
              SetsTo(m, Before(f))[i] = m[PageOfSet(i)][HeaderOfSet(i) + 1]
         /\ Before(f) \in Nat /\ Before(f) <= Before(LastPage + 1)
<1>1. f \in Nat /\ LastPage + 1 \in Nat /\ f < LastPage + 1
  BY FlashAssumption
<1>2. Before(f) \in Nat /\ Before(f) + PerPage <= Before(LastPage + 1) /\ PerPage \in Nat
      /\ Before(LastPage + 1) \in Nat
  BY <1>1, BeforeIs, PageIs
<1>3. ASSUME NEW i \in 1 .. Before(f)
      PROVE  m[PageOfSet(i)][HeaderOfSet(i) + 1] \in Nat \ {0}
  <2>1. i \in Nat \ {0} /\ i <= Before(f) /\ i <= Before(LastPage + 1)
    BY <1>2
  <2>2. m[PageOfSet(i)][HeaderOfSet(i) + 1] > 0
    BY <2>1, HeadersAre
  <2>3. m[PageOfSet(i)][HeaderOfSet(i) + 1] \in Cell
    BY <2>1, PlaceInArray
  <2>4. QED
    BY <2>2, <2>3 DEF Cell, Filler, Header, Erased, Blank, NullHeader
<1>4. SetsTo(m, Before(f)) \in [1 .. Before(f) -> Nat \ {0}]
  BY <1>3 DEF SetsTo
<1>5. SetsTo(m, Before(f)) \in Seq(Nat \ {0})
  BY <1>2, <1>4, SeqDef
<1>6. Len(SetsTo(m, Before(f))) = Before(f)
  BY <1>2, <1>4, <1>5, LenProperties
<1>7. QED
  BY <1>2, <1>5, <1>6 DEF SetsTo

\* The sequence that the array is mapped to.
LEMMA SavedIs ==
  ASSUME Layout, NEW m, NEW f \in 0 .. LastPage, ArrayIs(m, f)
  PROVE  [n \in 1 .. Max({n \in 0 .. PerPage * (LastPage + 1) :
                            \A i \in 1 .. n : m[PageOfSet(i)][HeaderOfSet(i)] = Header})
            |-> m[PageOfSet(n)][HeaderOfSet(n) + 1]] = SetsTo(m, Before(f))
BY StoredIs DEF SetsTo

\* A page that is programmed adds its data sets at the end.
LEMMA OnePageMore ==
  ASSUME Layout, NEW m \in [Pages -> [Address -> Cell]], NEW n \in [Pages -> [Address -> Cell]],
         NEW f \in 0 .. LastPage, f + 1 \in 0 .. LastPage, ArrayIs(m, f), ArrayIs(n, f + 1),
         \A p \in Pages : p # f => n[p] = m[p]
  PROVE  SetsTo(n, Before(f + 1)) = SetsTo(m, Before(f)) \o SetsOfPage(n[f])
<1> DEFINE new  == SetsTo(n, Before(f + 1))
           old  == SetsTo(m, Before(f))
           page == SetsOfPage(n[f])
<1>1. /\ f \in Nat /\ f \in Pages /\ f < f + 1 /\ LastPage \in Nat
      /\ PerPage \in Nat /\ Before(f + 1) = Before(f) + PerPage
  BY FlashAssumption, PageIs, BeforeIs DEF Pages
<1>2. HoldsTo(n[f], PageSize - 1) /\ n[f] \in [Address -> Cell]
  BY <1>1 DEF ArrayIs
<1>3. /\ page = Payloads(n[f], PerPage) /\ page \in Seq(Nat \ {0}) /\ Len(page) = PerPage
      /\ \A i \in 1 .. PerPage : page[i] = n[f][2 * i - 1]
  <2>1. /\ page = Payloads(n[f], PerPage) /\ Filled(n[f], 2 * PerPage)
        /\ 2 * PerPage <= PageSize
    BY <1>2, SetsOfFullPage
  <2> HIDE DEF page
  <2>2. QED
    BY <1>1, <1>2, <2>1, PayloadsAre
<1>4. /\ new \in Seq(Nat \ {0}) /\ Len(new) = Before(f + 1)
      /\ \A i \in 1 .. Before(f + 1) : new[i] = n[PageOfSet(i)][HeaderOfSet(i) + 1]
      /\ Before(f + 1) <= Before(LastPage + 1)
  BY SetsToAre
<1>5. /\ old \in Seq(Nat \ {0}) /\ Len(old) = Before(f) /\ Before(f) \in Nat
      /\ \A i \in 1 .. Before(f) : old[i] = m[PageOfSet(i)][HeaderOfSet(i) + 1]
  BY SetsToAre
<1> HIDE DEF new, old, page
<1>6. /\ old \o page \in Seq(Nat \ {0}) /\ Len(old \o page) = Before(f) + PerPage
      /\ \A i \in 1 .. Before(f) + PerPage :
           (old \o page)[i] = IF i <= Before(f) THEN old[i] ELSE page[i - Before(f)]
  <2>1. /\ old \o page \in Seq(Nat \ {0}) /\ Len(old \o page) = Len(old) + Len(page)
        /\ \A i \in 1 .. Len(old) + Len(page) :
             (old \o page)[i] = IF i <= Len(old) THEN old[i] ELSE page[i - Len(old)]
    BY <1>3, <1>5, ConcatProperties, Zenon
  <2>2. Len(old) = Before(f) /\ Len(page) = PerPage
    BY <1>3, <1>5
  <2>3. QED
    BY <2>1, <2>2, Zenon
<1>7. ASSUME NEW i \in 1 .. Before(f + 1) PROVE new[i] = (old \o page)[i]
  <2>1. i \in Nat \ {0} /\ i <= Before(f) + PerPage /\ i <= Before(LastPage + 1)
        /\ Before(LastPage + 1) \in Nat
    <3>1. LastPage + 1 \in Nat
      BY <1>1
    <3>2. Before(LastPage + 1) \in Nat
      BY <3>1, BeforeIs
    <3>3. QED
      BY <1>1, <1>4, <1>5, <3>2
  <2>2. PICK p \in Pages, s \in Nat :
           /\ s < PerPage /\ i = Before(p) + s + 1
           /\ PageOfSet(i) = p /\ HeaderOfSet(i) = 2 * s
    BY <2>1, PlaceInArray
  <2>3. p \in Nat /\ Before(p) \in Nat
    BY BeforeIs DEF Pages
  <2>4. p < f \/ p = f
    <3>1. f + 1 <= p => i > Before(f + 1)
      BY <1>1, <2>2, <2>3, PageOrder
    <3>2. QED
      BY <1>1, <1>5, <2>1, <2>3, <3>1
  <2>5. new[i] = n[p][2 * s + 1]
    BY <1>4, <2>2
  <2>6. CASE p < f
    <3>1. i <= Before(f)
      BY <1>1, <2>2, <2>3, <2>6, PageOrder
    <3>2. (old \o page)[i] = old[i] /\ old[i] = m[p][2 * s + 1]
      BY <1>1, <1>5, <1>6, <2>1, <2>2, <3>1
    <3>3. n[p] = m[p]
      BY <1>1, <2>3, <2>6
    <3>4. QED
      BY <2>5, <3>2, <3>3
  <2>7. CASE p = f
    <3>1. i - Before(f) = s + 1 /\ s + 1 \in 1 .. PerPage /\ ~(i <= Before(f))
      BY <1>1, <1>5, <2>2, <2>7
    <3>2. (old \o page)[i] = page[s + 1]
      BY <1>1, <1>5, <1>6, <2>1, <3>1
    <3>3. page[s + 1] = n[f][2 * s + 1]
      <4>1. 2 * (s + 1) - 1 = 2 * s + 1
        BY <2>2
      <4>2. QED
        BY <1>3, <3>1, <4>1
    <3>4. QED
      BY <2>5, <2>7, <3>2, <3>3
  <2>8. QED
    BY <2>4, <2>6, <2>7
<1>8. new = old \o page
  BY <1>1, <1>4, <1>6, <1>7, SeqEqual
<1>9. QED
  BY <1>8 DEF new, old, page

\* The log that a state of the logger is mapped to.
LEMMA LogView ==
  ASSUME LogSize, IInv, NEW f \in 0 .. LastPage, LogAt(f)
  PROVE  /\ SavedSets = SetsTo(mem, Before(f)) /\ SavedSets \in Seq(Nat \ {0})
         /\ SetsInFlight = IF busy.op = "program" THEN Payloads(buf[busy.buffer], PerPage)
                                                  ELSE <<>>
         /\ SetsInFlight \in Seq(Nat \ {0})
         /\ busy.op = "program" => Len(SetsInFlight) = PerPage
         /\ SetsCollected = IF Collecting THEN Payloads(buf[BufferInUse], DataSetAddress \div 2)
                                          ELSE <<>>
         /\ SetsCollected \in Seq(Nat \ {0})
         /\ Collecting => Len(SetsCollected) = DataSetAddress \div 2
<1>1. Layout /\ mem \in [Pages -> [Address -> Cell]] /\ buf \in [Buffers -> [Address -> Cell]]
      /\ busy.buffer \in Buffers
  BY DEF LogSize, IInv, TypeOK, FlashTypeOK, Operation
<1>2. SavedSets = SetsTo(mem, Before(f)) /\ SavedSets \in Seq(Nat \ {0})
  <2>1. ArrayIs(mem, f)
    BY DEF LogAt
  <2>2. SavedSets = SetsTo(mem, Before(f))
    BY <1>1, <2>1, SavedIs DEF SavedSets, Stored
  <2>3. QED
    BY <1>1, <2>1, <2>2, SetsToAre
<1>3. <<>> \in Seq(Nat \ {0})
  BY EmptySeq
<1>4. ASSUME busy.op = "program"
      PROVE  /\ SetsInFlight = Payloads(buf[busy.buffer], PerPage)
             /\ SetsInFlight \in Seq(Nat \ {0}) /\ Len(SetsInFlight) = PerPage
  <2>1. HoldsTo(buf[busy.buffer], PageSize - 1) /\ buf[busy.buffer] \in [Address -> Cell]
    BY <1>1, <1>4 DEF LogAt, ChipInv
  <2>2. SetsInFlight = SetsOfPage(buf[busy.buffer])
    BY <1>4 DEF SetsInFlight
  <2>3. QED
    BY <1>1, <2>1, <2>2, SetsOfFullPage, PayloadsAre, PageIs
<1>5. ASSUME Collecting
      PROVE  /\ SetsCollected = Payloads(buf[BufferInUse], DataSetAddress \div 2)
             /\ SetsCollected \in Seq(Nat \ {0}) /\ Len(SetsCollected) = DataSetAddress \div 2
  <2> DEFINE n == DataSetAddress \div 2
  <2>1. SetsCollected = Payloads(buf[BufferInUse], n)
    BY <1>5 DEF SetsCollected, Collecting, Payloads, DataSetSize
  <2>2. BufferInUse \in Buffers
    BY <1>5, CollectingType
  <2>3. Filled(buf[BufferInUse], DataSetAddress) /\ DataSetAddress \in Nat
        /\ DataSetAddress <= PageSize
    BY <1>5, FlashAssumption
       DEF LogAt, CollectInv, Ends, Address, IInv, TypeOK, Position, DataSetSize
  <2>4. n \in Nat /\ 2 * n <= DataSetAddress /\ 2 * n <= PageSize
    BY <2>3, FlashAssumption
  <2>5. Filled(buf[BufferInUse], 2 * n)
    BY <2>3, <2>4 DEF Filled, Address
  <2> HIDE DEF n
  <2>6. QED
    BY <1>1, <2>1, <2>2, <2>4, <2>5, PayloadsAre DEF n
<1>6. /\ ~(busy.op = "program") => SetsInFlight = <<>>
      /\ ~Collecting => SetsCollected = <<>>
  BY DEF SetsInFlight, SetsCollected, Collecting
<1>7. QED
  BY <1>2, <1>3, <1>4, <1>5, <1>6

\* A list behind another one grows at its end.
LEMMA AppendBehind ==
  ASSUME NEW S, NEW s \in Seq(S), NEW t \in Seq(S), NEW e \in S
  PROVE  Append(s \o t, e) = s \o Append(t, e)
<1>1. <<e>> \in Seq(S) /\ s \o t \in Seq(S)
  BY ConcatProperties
<1>2. Append(s \o t, e) = (s \o t) \o <<e>> /\ Append(t, e) = t \o <<e>>
  BY <1>1, AppendIsConcat
<1>3. (s \o t) \o <<e>> = s \o (t \o <<e>>)
  BY <1>1, ConcatAssociative
<1>4. QED
  BY <1>2, <1>3

-----------------------------------------------------------------------------
(***************************************************************************)
(* The steps that add data sets, and those that lose them.                 *)
(***************************************************************************)
\* The first half of AddDataSet, the header.
LEMMA AddHeaderLog ==
  ASSUME LogSize, IInv, NEW f \in 0 .. LastPage, LogAt(f), AddHeader
  PROVE  LogAt(f)' /\ UNCHANGED Log!logVars
<1> DEFINE b == BufferInUse
           e == DataSetAddress
<1>1. /\ pc = "idle" /\ pc' = "addData" /\ Collecting /\ nextSet <= MaxSets
      /\ BufferWrite(b, e, Header) /\ DataSetAddress' = e + 1
      /\ mem' = mem /\ busy' = busy /\ nextSet' = nextSet
      /\ DataPageAddress' = DataPageAddress /\ BufferInUse' = b
      /\ DataloggerInitalized' = 1 /\ Collecting'
  BY DEF AddHeader, Command, Collecting, historyVars
<1>2. /\ e \in Ends /\ e + 2 <= PageSize /\ Filled(buf[b], e) /\ CollectInv(f)
      /\ Before(DataPageAddress) + (e \div 2) < nextSet
  BY <1>1 DEF LogAt, CollectInv, DataSetSize
<1>3. /\ e \in Address /\ e % 2 = 0 /\ e \in Nat /\ PageSize \in Nat /\ PageSize >= 3
      /\ (e + 1) \div 2 = e \div 2 /\ PageSize - 1 \in Address
  BY <1>2, FlashAssumption DEF Ends, Address
<1>4. b \in Buffers /\ busy.buffer \in Buffers
  BY <1>1, CollectingType DEF Operation
<1>5. /\ buf'[b] = [buf[b] EXCEPT ![e] = Header]
      /\ \A o \in Buffers : o # b => buf'[o] = buf[o]
      /\ buf'[b][e] = Header
      /\ \A o \in Address : o # e => buf'[b][o] = buf[b][o]
  <2>1. BufferWrite(b, e, Header) /\ b \in Buffers /\ e \in Address
    BY <1>1, <1>3, <1>4
  <2> HIDE DEF b, e
  <2>2. QED
    BY <2>1, WriteIs
<1> HIDE DEF b, e
<1>6. CollectInv(f)'
  <2>1. Filled(buf'[b], e + 1)
    BY <1>2, <1>3, <1>5 DEF Filled, Address
  <2>2. (e + 1) - 1 = e
    BY <1>3
  <2>3. e + 1 + 1 <= PageSize
    BY <1>2, <1>3
  <2>4. /\ f \in Nat /\ Before(f) < nextSet
        /\ DataPageAddress = IF busy.op = "program" THEN f + 1 ELSE f
    BY <1>1 DEF LogAt, CollectInv
  <2>5. QED
    BY <1>1, <1>2, <1>3, <2>1, <2>2, <2>3, <2>4 DEF CollectInv, DataSetSize
<1>7. ChipInv(f)'
  BY <1>1, <1>4, <1>5 DEF LogAt, ChipInv, b
<1>8. RoomInv'
  <2>1. e # PageSize - 1
    BY <1>2, <1>3
  <2>2. \A o \in Buffers : buf'[o][PageSize - 1] = buf[o][PageSize - 1]
    BY <1>3, <1>5, <2>1
  <2>3. QED
    BY <1>1, <2>2 DEF LogAt, RoomInv
<1>9. WalksInv(f)'
  BY <1>1 DEF WalksInv, InScan
<1>10. ArrayIs(mem, f)' /\ SavedSets' = SavedSets
  BY <1>1 DEF LogAt, ArrayIs, SavedSets, Stored
<1>11. SetsInFlight' = SetsInFlight
  BY <1>1, <1>4, <1>5 DEF SetsInFlight, LogAt, ChipInv, b
<1>12. SetsCollected' = SetsCollected
  <2>1. ASSUME NEW i \in 1 .. e \div 2 PROVE buf'[b][2 * i - 1] = buf[b][2 * i - 1]
    <3>1. 2 * i - 1 \in Address /\ 2 * i - 1 # e
      BY <1>2, <1>3 DEF Address
    <3>2. QED
      BY <1>5, <3>1
  <2>2. SetsCollected = [i \in 1 .. e \div 2 |-> buf[b][2 * i - 1]]
    BY <1>1 DEF SetsCollected, Collecting, DataSetSize, b, e
  <2>3. SetsCollected' = [i \in 1 .. e \div 2 |-> buf'[b][2 * i - 1]]
    BY <1>1, <1>3 DEF SetsCollected, DataSetSize
  <2>4. QED
    BY <2>1, <2>2, <2>3
<1>13. QED
  BY <1>1, <1>6, <1>7, <1>8, <1>9, <1>10, <1>11, <1>12 DEF LogAt, Log!logVars

\* The second half, the payload: the data set is in the log.
LEMMA AddDataLog ==
  ASSUME LogSize, IInv, NEW f \in 0 .. LastPage, LogAt(f), AddData
  PROVE  LogAt(f)' /\ Log!Add
<1> DEFINE b == BufferInUse
           e == DataSetAddress
           h == e - 1
<1>1. /\ pc = "addData" /\ pc' = "addFull" /\ Collecting
      /\ BufferWrite(b, e, nextSet) /\ DataSetAddress' = e + 1
      /\ mem' = mem /\ busy' = busy /\ nextSet' = nextSet + 1
      /\ DataPageAddress' = DataPageAddress /\ BufferInUse' = b
      /\ DataloggerInitalized' = 1 /\ Collecting'
  BY DEF AddData, Collecting, IInv, InitalizedInv
<1>2. /\ h \in Ends /\ e + 1 <= PageSize /\ Filled(buf[b], e) /\ nextSet <= MaxSets
      /\ Before(DataPageAddress) + (e \div 2) < nextSet /\ nextSet \in Nat \ {0}
  BY <1>1 DEF LogAt, CollectInv, RoomInv, DataSetSize, IInv, TypeOK
<1>3. /\ e \in Address /\ h \in Nat /\ h % 2 = 0 /\ e = h + 1 /\ PageSize \in Nat
      /\ PageSize >= 3 /\ PageSize - 1 \in Address /\ PageSize % 2 = 1
      /\ e \div 2 = h \div 2 /\ (e + 1) \div 2 = (h \div 2) + 1 /\ (h \div 2) \in Nat
      /\ h + 2 < PageSize /\ 2 * (h \div 2) = h
  <2>1. /\ h \in Nat /\ h % 2 = 0 /\ h <= PageSize - 1 /\ PageSize \in Nat
        /\ PageSize >= 3 /\ PageSize % 2 = 1
    BY <1>2, FlashAssumption DEF Ends, Address, LogSize, Layout, DataSetSize
  <2>2. e \in Int /\ e = h + 1
    BY DEF IInv, TypeOK, Position
  <2> HIDE DEF e, h
  <2>3. QED
    BY <1>2, <2>1, <2>2 DEF Address
<1>4. b \in Buffers /\ busy.buffer \in Buffers
  BY <1>1, CollectingType DEF Operation
<1>5. /\ buf'[b] = [buf[b] EXCEPT ![e] = nextSet]
      /\ \A o \in Buffers : o # b => buf'[o] = buf[o]
      /\ buf'[b][e] = nextSet
      /\ \A o \in Address : o # e => buf'[b][o] = buf[b][o]
  <2>1. BufferWrite(b, e, nextSet) /\ b \in Buffers /\ e \in Address
    BY <1>1, <1>3, <1>4
  <2> HIDE DEF b, e
  <2>2. QED
    BY <2>1, WriteIs
<1> HIDE DEF b, e, h
<1>6. CollectInv(f)'
  <2>1. Filled(buf'[b], e + 1)
    BY <1>2, <1>3, <1>5 DEF Filled, Address
  <2>2. e + 1 \in Ends
    BY <1>3 DEF Ends, Address
  <2>3. /\ f \in Nat /\ Before(f) < nextSet /\ Before(f) \in Nat
        /\ DataPageAddress = IF busy.op = "program" THEN f + 1 ELSE f
    BY <1>1, BeforeIs DEF LogAt, CollectInv, LogSize
  <2>4. Before(DataPageAddress) + ((e + 1) \div 2) < nextSet + 1
    <3>1. Before(DataPageAddress) \in Nat
      BY <2>3, BeforeIs DEF LogSize
    <3>2. QED
      BY <1>2, <1>3, <3>1
  <2>5. Before(f) < nextSet + 1
    BY <1>2, <2>3
  <2>6. QED
    BY <1>1, <2>1, <2>2, <2>3, <2>4, <2>5 DEF CollectInv, DataSetSize
<1>7. ChipInv(f)'
  BY <1>1, <1>4, <1>5 DEF LogAt, ChipInv, b
<1>8. RoomInv'
  <2>1. e # PageSize - 1
    BY <1>3
  <2>2. \A o \in Buffers : buf'[o][PageSize - 1] = buf[o][PageSize - 1]
    BY <1>3, <1>5, <2>1
  <2>3. nextSet + 1 <= MaxSets + 1
    BY <1>2, LoggerAssumption
  <2>4. QED
    BY <1>1, <2>2, <2>3 DEF LogAt, RoomInv
<1>9. WalksInv(f)'
  BY <1>1 DEF WalksInv, InScan
<1>10. ArrayIs(mem, f)' /\ SavedSets' = SavedSets
  BY <1>1 DEF LogAt, ArrayIs, SavedSets, Stored
<1>11. SetsInFlight' = SetsInFlight
  BY <1>1, <1>4, <1>5 DEF SetsInFlight, LogAt, ChipInv, b
<1>12. SetsCollected' = Append(SetsCollected, nextSet)
  <2> DEFINE k == h \div 2
             old == SetsCollected
             new == SetsCollected'
  <2>1. /\ old \in Seq(Nat \ {0}) /\ Len(old) = k
        /\ old = [i \in 1 .. k |-> buf[b][2 * i - 1]]
    BY <1>1, <1>3, LogView DEF Payloads, b, e
  <2>2. new = [i \in 1 .. k + 1 |-> buf'[b][2 * i - 1]]
    BY <1>1, <1>3 DEF SetsCollected, DataSetSize
  <2>3. k \in Nat /\ 2 * (k + 1) - 1 = e
    BY <1>3
  <2>4. ASSUME NEW i \in 1 .. k PROVE buf'[b][2 * i - 1] = buf[b][2 * i - 1]
    <3>1. 2 * i - 1 \in Address /\ 2 * i - 1 # e
      BY <1>3, <2>3 DEF Address
    <3>2. QED
      BY <1>5, <3>1
  <2> HIDE DEF k, old, new
  <2>5. /\ Append(old, nextSet) \in Seq(Nat \ {0}) /\ Len(Append(old, nextSet)) = k + 1
        /\ \A i \in 1 .. k : Append(old, nextSet)[i] = old[i]
        /\ Append(old, nextSet)[k + 1] = nextSet
    <3> DEFINE S == Nat \ {0}
    <3>1. old \in Seq(S) /\ nextSet \in S /\ Len(old) = k
      BY <1>2, <2>1
    <3> HIDE DEF S
    <3>2. /\ Append(old, nextSet) \in Seq(S) /\ Len(Append(old, nextSet)) = Len(old) + 1
          /\ \A i \in 1 .. Len(old) : Append(old, nextSet)[i] = old[i]
          /\ Append(old, nextSet)[Len(old) + 1] = nextSet
      BY <3>1, AppendProperties
    <3>3. QED
      BY <3>1, <3>2 DEF S
  <2>6. \A i \in 1 .. k : new[i] = old[i] /\ i \in 1 .. k + 1
    BY <2>1, <2>2, <2>3, <2>4
  <2>7. new[k + 1] = nextSet
    BY <1>5, <2>2, <2>3
  <2>8. \A i \in 1 .. k + 1 : new[i] = Append(old, nextSet)[i]
    <3>1. \A i \in 1 .. k + 1 : i \in 1 .. k \/ i = k + 1
      BY <2>3
    <3>2. QED
      BY <2>5, <2>6, <2>7, <3>1
  <2>9. new \in [1 .. k + 1 -> Nat \ {0}]
    <3>1. \A i \in 1 .. k + 1 : new[i] \in Nat \ {0}
      <4>1. \A i \in 1 .. k + 1 : Append(old, nextSet)[i] \in Nat \ {0}
        BY <2>5, ElementOfSeq
      <4>2. QED
        BY <2>8, <4>1
    <3>2. QED
      BY <2>2, <3>1
  <2>10. new \in Seq(Nat \ {0}) /\ Len(new) = k + 1
    <3>1. k + 1 \in Nat
      BY <2>3
    <3>2. new \in Seq(Nat \ {0})
      BY <2>9, <3>1, SeqDef
    <3>3. QED
      BY <2>9, <3>1, <3>2, LenProperties
  <2>11. new = Append(old, nextSet)
    BY <2>5, <2>8, <2>10, SeqEqual
  <2>12. QED
    BY <2>11 DEF new, old
<1>13. (SetsInFlight \o SetsCollected)' = Append(SetsInFlight \o SetsCollected, nextSet)
  <2>1. SetsInFlight \in Seq(Nat \ {0}) /\ SetsCollected \in Seq(Nat \ {0})
    BY LogView
  <2>2. QED
    BY <1>2, <1>11, <1>12, <2>1, AppendBehind
<1>14. QED
  BY <1>1, <1>6, <1>7, <1>8, <1>9, <1>10, <1>13 DEF LogAt, Log!Add

\* The page is full: the chip programs it, the logger goes on in the other
\* buffer with the next page.  The data sets are the same.
LEMMA AddFullLog ==
  ASSUME LogUse, LogSize, IInv, NEW f \in 0 .. LastPage, LogAt(f), AddFull
  PROVE  LogAt(f)' /\ UNCHANGED Log!logVars
<1> DEFINE b == BufferInUse
           e == DataSetAddress
<1>1. /\ pc = "addFull" /\ pc' = "idle" /\ busy.op = "idle" /\ Collecting
      /\ e + DataSetSize > PageSize /\ CopyBufferToPage(b, DataPageAddress)
      /\ BufferInUse' = SwitchedBuffer /\ DataPageAddress' = NextDataPage /\ DataSetAddress' = 0
      /\ mem' = mem /\ buf' = buf /\ nextSet' = nextSet /\ Collecting'
      /\ DataloggerInitalized' = DataloggerInitalized
  BY DEF AddFull, Ready, LogUse, Paced, PageIsFull, Collecting, IInv, InitalizedInv
<1>2. /\ e \in Ends /\ Filled(buf[b], e) /\ DataPageAddress = f
      /\ Before(f) + (e \div 2) < nextSet /\ f \in Nat /\ Before(f) < nextSet /\ nextSet \in Nat
  BY <1>1 DEF LogAt, CollectInv, DataSetSize, IInv, TypeOK
<1>3. f < LastPage /\ f \in Pages /\ LastPage \in Nat
  BY PageFor, FlashAssumption
<1>4. e = PageSize - 1 /\ e \div 2 = PerPage /\ e = 2 * PerPage /\ PerPage \in Nat /\ PerPage >= 1
  <2>1. e \in Nat /\ e <= PageSize - 1 /\ DataSetSize = 2 /\ PageSize \in Nat
        /\ PageSize = 2 * PerPage + 1 /\ PerPage \in Nat /\ PerPage >= 1
    BY <1>2, EndsAre, PageIs, FlashAssumption DEF LogSize, DataSetSize
  <2>2. e + 2 # PageSize
    BY <1>2, <2>1 DEF Ends
  <2>3. e = PageSize - 1
    BY <1>1, <2>1, <2>2
  <2> HIDE DEF e
  <2>4. e = 2 * PerPage
    BY <2>1, <2>3
  <2>5. QED
    BY <2>1, <2>3, <2>4
<1>5. b \in Buffers /\ SwitchedBuffer # b
  BY <1>1, CollectingType DEF SwitchedBuffer, Buffers
<1>6. busy' = [op |-> "program", buffer |-> b, page |-> f] /\ DataPageAddress' = f + 1
  BY <1>1, <1>2, <1>3 DEF CopyBufferToPage, Issue, Ready, ChipPage, NextDataPage
<1>7. HoldsTo(buf[b], PageSize - 1)
  <2>1. buf[b][PageSize - 1] = Erased /\ PageSize \in Nat
    BY <1>5, FlashAssumption DEF LogAt, RoomInv
  <2>2. Filled(buf[b], PageSize - 1)
    BY <1>2, <1>4
  <2>3. ASSUME NEW a \in Address
        PROVE  IF a >= PageSize - 1 THEN buf[b][a] = Erased
               ELSE IF a % 2 = 0 THEN buf[b][a] = Header ELSE buf[b][a] > 0
    <3>1. a >= PageSize - 1 => a = PageSize - 1
      BY <2>1 DEF Address
    <3>2. a >= PageSize - 1 \/ a < PageSize - 1
      BY <2>1 DEF Address
    <3>3. QED
      BY <2>1, <2>2, <3>1, <3>2 DEF Filled
  <2>4. QED
    BY <2>3 DEF HoldsTo
<1> HIDE DEF b, e
<1>8. CollectInv(f)'
  <2>1. Filled(buf[SwitchedBuffer], 0)
    BY DEF Filled, Address
  <2>2. Before(f + 1) = Before(f) + PerPage /\ Before(f) \in Nat
    BY <1>2, BeforeIs DEF LogSize
  <2>3. Before(f + 1) + 0 < nextSet
    BY <1>2, <1>4, <2>2
  <2>4. 0 \in Ends /\ 0 + 2 <= PageSize /\ 0 \div 2 = 0
    BY EndsAre, FlashAssumption DEF LogSize
  <2>5. QED
    BY <1>1, <1>2, <1>6, <2>1, <2>3, <2>4 DEF CollectInv, DataSetSize
<1>9. ChipInv(f)'
  BY <1>1, <1>5, <1>6, <1>7 DEF ChipInv, b
<1>10. WalksInv(f)'
  BY <1>1 DEF WalksInv, InScan
<1>11. ArrayIs(mem, f)' /\ RoomInv' /\ SavedSets' = SavedSets
  BY <1>1 DEF LogAt, ArrayIs, RoomInv, SavedSets, Stored
<1>12. (SetsInFlight \o SetsCollected)' = SetsInFlight \o SetsCollected
  <2>1. /\ SetsInFlight = <<>> /\ SetsCollected = Payloads(buf[b], PerPage)
        /\ SetsCollected \in Seq(Nat \ {0})
    BY <1>1, <1>4, LogView DEF b, e
  <2>2. SetsInFlight' = Payloads(buf[b], PerPage)
    <3>1. SetsInFlight' = SetsOfPage(buf[b])
      BY <1>1, <1>6 DEF SetsInFlight
    <3>2. QED
      BY <1>7, <3>1, SetsOfFullPage DEF LogSize
  <2>3. SetsCollected' = <<>>
    <3>1. SetsCollected' = [i \in 1 .. 0 \div 2 |-> buf[SwitchedBuffer][2 * i - 1]]
      BY <1>1 DEF SetsCollected, Collecting, DataSetSize
    <3>2. 0 \div 2 = 0
      OBVIOUS
    <3>3. QED
      BY <3>1, <3>2
  <2>4. <<>> \o SetsCollected = SetsCollected /\ SetsCollected \o <<>> = SetsCollected
    BY <2>1, ConcatEmptySeq
  <2>5. QED
    BY <2>1, <2>2, <2>3, <2>4
<1>13. QED
  BY <1>1, <1>8, <1>9, <1>10, <1>11, <1>12 DEF LogAt, Log!logVars

\* The page of a walk has come into its buffer.
LEMMA LoadedLog ==
  ASSUME LogSize, IInv, NEW f \in 0 .. LastPage, LogAt(f), ChipStep, busy.op = "load"
  PROVE  LogAt(f)' /\ UNCHANGED Log!logVars
<1> DEFINE b == scan.buffer
<1>1. /\ pc = "scanRead" /\ pc' = pc /\ busy.buffer = b /\ busy.page = scan.page
      /\ b \in Buffers /\ (Collecting => b # BufferInUse)
      /\ mem' = mem /\ busy'.op = "idle" /\ nextSet' = nextSet /\ scan' = scan
      /\ BufferInUse' = BufferInUse /\ DataPageAddress' = DataPageAddress
      /\ DataSetAddress' = DataSetAddress /\ DataloggerInitalized' = DataloggerInitalized
      /\ (Collecting' <=> Collecting)
  BY DEF LogAt, ChipInv, WalksInv, InScan, ChipStep, FlashDone, Idle, loggerVars, historyVars,
         Collecting, IInv, TypeOK, Walk
<1>2. /\ buf'[b] = mem[scan.page]
      /\ \A o \in Buffers : o # b => buf'[o] = buf[o]
  BY <1>1 DEF ChipStep, FlashDone, IInv, TypeOK, FlashTypeOK
<1>3. Collecting => buf'[BufferInUse] = buf[BufferInUse]
  BY <1>1, <1>2, CollectingType
<1> HIDE DEF b
<1>4. CollectInv(f)'
  <2>1. CollectInv(f)
    BY DEF LogAt
  <2>2. QED
    BY <1>1, <1>3, <2>1 DEF CollectInv
<1>5. ChipInv(f)'
  BY <1>1 DEF ChipInv
<1>6. WalksInv(f)'
  BY <1>1, <1>2 DEF LogAt, WalksInv, InScan, b
<1>7. RoomInv'
  <2>1. scan.page \in Pages
    BY <1>1, FlashAssumption DEF LogAt, WalksInv, InScan, IInv, TypeOK, Walk, Pages
  <2>2. PageSize - 1 \in Address /\ PageSize \in Nat
    BY FlashAssumption DEF Address
  <2>3. mem[scan.page][PageSize - 1] = Erased
    BY <2>1, <2>2 DEF LogAt, ArrayIs, HoldsTo, IsErased
  <2>4. \A o \in Buffers : buf'[o][PageSize - 1] = Erased
    BY <1>2, <2>3 DEF LogAt, RoomInv
  <2>5. QED
    BY <1>1, <2>4 DEF LogAt, RoomInv
<1>8. ArrayIs(mem, f)' /\ SavedSets' = SavedSets
  BY <1>1 DEF LogAt, ArrayIs, SavedSets, Stored
<1>9. SetsInFlight' = SetsInFlight
  BY <1>1 DEF SetsInFlight
<1>10. SetsCollected' = SetsCollected
  BY <1>1, <1>3 DEF SetsCollected, Collecting
<1>11. QED
  BY <1>1, <1>4, <1>5, <1>6, <1>7, <1>8, <1>9, <1>10 DEF LogAt, Log!logVars

\* The array with one more page.
LEMMA OnePageFull ==
  ASSUME LogSize, IInv, NEW f \in 0 .. LastPage, LogAt(f), busy.op = "program",
         mem' = [mem EXCEPT ![busy.page] = buf[busy.buffer]]
  PROVE  /\ f + 1 \in 0 .. LastPage /\ ArrayIs(mem', f + 1)
         /\ SavedSets' = SavedSets \o SetsInFlight
<1>1. /\ busy.page = f /\ Collecting /\ HoldsTo(buf[busy.buffer], PageSize - 1)
      /\ busy.buffer \in Buffers /\ buf[busy.buffer] \in [Address -> Cell]
      /\ mem \in [Pages -> [Address -> Cell]] /\ f \in Nat /\ LastPage \in Nat
  BY FlashAssumption DEF LogAt, ChipInv, IInv, TypeOK, FlashTypeOK, Operation
<1>2. f \in Pages /\ f + 1 < LastPage
  BY <1>1, PageFor
<1>3. f + 1 \in 0 .. LastPage
  BY <1>1, <1>2
<1>4. /\ mem' \in [Pages -> [Address -> Cell]] /\ mem'[f] = buf[busy.buffer]
      /\ \A p \in Pages : p # f => mem'[p] = mem[p]
  BY <1>1, <1>2
<1>5. ArrayIs(mem', f + 1)
  <2>1. ASSUME NEW p \in Pages
        PROVE  IF p < f + 1 THEN HoldsTo(mem'[p], PageSize - 1) ELSE IsErased(mem'[p])
    <3>1. CASE p = f
      BY <1>1, <1>4, <3>1
    <3>2. CASE p # f
      <4>1. p < f + 1 <=> p < f
        BY <1>1, <3>2 DEF Pages
      <4>2. IF p < f THEN HoldsTo(mem[p], PageSize - 1) ELSE IsErased(mem[p])
        BY DEF LogAt, ArrayIs
      <4>3. QED
        BY <1>4, <3>2, <4>1, <4>2
    <3>3. QED
      BY <3>1, <3>2
  <2>2. QED
    BY <2>1 DEF ArrayIs
<1>6. SavedSets' = SetsTo(mem', Before(f + 1))
  <2> DEFINE g == f + 1
             m == mem'
             count == Max({n \in 0 .. PerPage * (LastPage + 1) :
                             \A i \in 1 .. n : m[PageOfSet(i)][HeaderOfSet(i)] = Header})
  <2>1. g \in 0 .. LastPage /\ ArrayIs(m, g) /\ Layout
    BY <1>3, <1>5 DEF LogSize
  <2> HIDE DEF g, m
  <2>2. count = Before(g)
    BY <2>1, StoredIs
  <2> HIDE DEF count
  <2>3. SetsTo(m, count) = SetsTo(m, Before(g))
    BY <2>2
  <2>4. SavedSets' = SetsTo(m, count)
    BY DEF SavedSets, Stored, SetsTo, m, count
  <2>5. QED
    BY <2>3, <2>4 DEF g, m
<1>7. SetsTo(mem', Before(f + 1)) = SetsTo(mem, Before(f)) \o SetsOfPage(mem'[f])
  <2> DEFINE n == mem'
  <2>1. /\ ArrayIs(mem, f) /\ Layout /\ mem \in [Pages -> [Address -> Cell]]
        /\ n \in [Pages -> [Address -> Cell]] /\ f + 1 \in 0 .. LastPage
        /\ ArrayIs(n, f + 1) /\ \A p \in Pages : p # f => n[p] = mem[p]
    BY <1>1, <1>3, <1>4, <1>5 DEF LogAt, LogSize
  <2> HIDE DEF n
  <2>2. SetsTo(n, Before(f + 1)) = SetsTo(mem, Before(f)) \o SetsOfPage(n[f])
    BY <2>1, OnePageMore
  <2>3. QED
    BY <2>2 DEF n
<1>8. SetsInFlight = SetsOfPage(mem'[f])
  BY <1>4 DEF SetsInFlight
<1>9. SavedSets = SetsTo(mem, Before(f))
  BY LogView
<1>10. QED
  BY <1>3, <1>5, <1>6, <1>7, <1>8, <1>9

\* A sequence of two parts falls into them again.
LEMMA TwoParts ==
  ASSUME NEW S, NEW s \in Seq(S), NEW t \in Seq(S)
  PROVE  /\ SubSeq(s \o t, 1, Len(s)) = s
         /\ SubSeq(s \o t, Len(s) + 1, Len(s \o t)) = t
<1>1. Len(s) \in Nat /\ Len(t) \in Nat /\ Len(s \o t) = Len(s) + Len(t) /\ s \o t \in Seq(S)
  BY ConcatProperties, LenProperties
<1>2. SubSeq(s \o t, 1, Len(s)) = s
  <2>1. CASE Len(s) = 0
    <3>1. s = <<>>
      BY <2>1, EmptySeq
    <3>2. SubSeq(s \o t, 1, Len(s)) = <<>>
      BY <1>1, <2>1, SubSeqEmpty
    <3>3. QED
      BY <3>1, <3>2
  <2>2. CASE Len(s) # 0
    <3>1. 1 \in 1 .. Len(s) /\ Len(s) \in 1 .. Len(s)
      BY <1>1, <2>2
    <3>2. SubSeq(s \o t, 1, Len(s)) = SubSeq(s, 1, Len(s))
      BY <3>1, SubSeqOfConcat1
    <3>3. QED
      BY <3>2, SubSeqFull
  <2>3. QED
    BY <2>1, <2>2
<1>3. SubSeq(s \o t, Len(s) + 1, Len(s \o t)) = t
  <2>1. CASE Len(t) = 0
    <3>1. t = <<>>
      BY <2>1, EmptySeq
    <3>2. Len(s) + 1 \in Int /\ Len(s \o t) \in Int /\ Len(s \o t) < Len(s) + 1
      BY <1>1, <2>1
    <3>3. SubSeq(s \o t, Len(s) + 1, Len(s \o t)) = <<>>
      BY <3>2, SubSeqEmpty
    <3>4. QED
      BY <3>1, <3>3
  <2>2. CASE Len(t) # 0
    <3> DEFINE m == Len(s) + 1
               n == Len(s \o t)
    <3>1. /\ m \in Len(s) + 1 .. Len(s) + Len(t) /\ n \in Len(s) + 1 .. Len(s) + Len(t)
          /\ m - Len(s) = 1 /\ n - Len(s) = Len(t)
      BY <1>1, <2>2
    <3> HIDE DEF m, n
    <3>2. SubSeq(s \o t, m, n) = SubSeq(t, m - Len(s), n - Len(s))
      BY <3>1, SubSeqOfConcat2
    <3>3. SubSeq(s \o t, m, n) = t
      BY <3>1, <3>2, SubSeqFull
    <3>4. QED
      BY <3>3 DEF m, n
  <2>3. QED
    BY <2>1, <2>2
<1>4. QED
  BY <1>2, <1>3

\* A page has been programmed: its data sets are in the array.
LEMMA ProgrammedLog ==
  ASSUME LogSize, IInv, NEW f \in 0 .. LastPage, LogAt(f), ChipStep, busy.op = "program"
  PROVE  f + 1 \in 0 .. LastPage /\ LogAt(f + 1)' /\ Log!Flush
<1>1. /\ Collecting /\ pc \in {"idle", "addData", "addFull"} /\ pc' = pc
      /\ mem' = [mem EXCEPT ![busy.page] = buf[busy.buffer]]
      /\ buf' = buf /\ busy'.op = "idle" /\ nextSet' = nextSet
      /\ BufferInUse' = BufferInUse /\ DataPageAddress' = DataPageAddress
      /\ DataSetAddress' = DataSetAddress /\ DataloggerInitalized' = DataloggerInitalized
      /\ Collecting'
  BY DEF ChipStep, FlashDone, Idle, loggerVars, historyVars, Collecting, LogAt, ChipInv
<1>2. /\ f + 1 \in 0 .. LastPage /\ ArrayIs(mem', f + 1)
      /\ SavedSets' = SavedSets \o SetsInFlight
  BY <1>1, OnePageFull
<1>3. CollectInv(f + 1)'
  <2>1. CollectInv(f) /\ f \in Nat /\ nextSet \in Nat
    BY DEF LogAt, IInv, TypeOK
  <2>2. DataPageAddress = f + 1 /\ DataSetAddress \in Nat
    BY <1>1, <2>1 DEF CollectInv, IInv, TypeOK, Position
  <2>3. Before(f + 1) \in Nat /\ (DataSetAddress \div DataSetSize) \in Nat
    BY <2>1, <2>2, BeforeIs DEF LogSize, DataSetSize
  <2>4. Before(f + 1) + (DataSetAddress \div DataSetSize) < nextSet
    BY <1>1, <2>1, <2>2 DEF CollectInv
  <2>5. Before(f + 1) < nextSet
    BY <2>1, <2>3, <2>4
  <2>6. QED
    BY <1>1, <2>1, <2>2, <2>5 DEF CollectInv
<1>4. ChipInv(f + 1)' /\ WalksInv(f + 1)' /\ RoomInv'
  BY <1>1 DEF LogAt, ChipInv, WalksInv, InScan, RoomInv
<1>5. LogAt(f + 1)'
  BY <1>2, <1>3, <1>4 DEF LogAt
<1>6. /\ SetsInFlight \in Seq(Nat \ {0}) /\ SetsCollected \in Seq(Nat \ {0})
      /\ Len(SetsInFlight) = PerPage
  BY <1>1, LogView
<1>7. (SetsInFlight \o SetsCollected)' = SetsCollected
  <2>1. SetsInFlight' = <<>> /\ SetsCollected' = SetsCollected
    BY <1>1 DEF SetsInFlight, SetsCollected
  <2>2. QED
    BY <1>6, <2>1, ConcatEmptySeq
<1>8. Log!Flush
  <2> DEFINE unsaved == SetsInFlight \o SetsCollected
  <2>1. /\ SubSeq(unsaved, 1, PerPage) = SetsInFlight
        /\ SubSeq(unsaved, PerPage + 1, Len(unsaved)) = SetsCollected
    BY <1>6, TwoParts
  <2>2. PerPage \in 1 .. Len(unsaved)
    <3>1. Len(unsaved) = PerPage + Len(SetsCollected) /\ Len(SetsCollected) \in Nat
      BY <1>6, ConcatProperties, LenProperties
    <3>2. QED
      BY <3>1, PageIs DEF LogSize
  <2>3. QED
    BY <1>1, <1>2, <1>7, <2>1, <2>2 DEF Log!Flush, Log!First, Log!Rest
<1>9. QED
  BY <1>2, <1>5, <1>8

\* What is not in the array is gone.
LEMMA LoseUnsaved ==
  ASSUME LogSize, IInv, NEW f \in 0 .. LastPage, LogAt(f),
         SavedSets' = SavedSets \/ SavedSets' = SavedSets \o SetsInFlight,
         busy'.op # "program",
         DataloggerInitalized' # 1 \/ DataSetAddress' = 0, nextSet' = nextSet
  PROVE  Log!Lose
<1> DEFINE unsaved == SetsInFlight \o SetsCollected
<1>1. /\ SavedSets \in Seq(Nat \ {0}) /\ SetsInFlight \in Seq(Nat \ {0})
      /\ SetsCollected \in Seq(Nat \ {0})
  BY LogView
<1>2. (SetsInFlight \o SetsCollected)' = <<>>
  <2>1. SetsInFlight' = <<>>
    BY DEF SetsInFlight
  <2>2. SetsCollected' = <<>>
    <3>1. CASE DataloggerInitalized' # 1
      BY <3>1 DEF SetsCollected
    <3>2. CASE DataSetAddress' = 0
      <4>1. DataSetAddress' \div DataSetSize = 0
        BY <3>2 DEF DataSetSize
      <4>2. [i \in 1 .. 0 |-> buf'[BufferInUse'][2 * i - 1]] = <<>>
        OBVIOUS
      <4>3. QED
        BY <4>1, <4>2 DEF SetsCollected
    <3>3. QED
      BY <3>1, <3>2
  <2>3. <<>> \o <<>> = <<>>
    BY EmptySeq, ConcatEmptySeq
  <2>4. QED
    BY <2>1, <2>2, <2>3
<1>3. /\ Len(SetsInFlight) \in 0 .. Len(unsaved)
      /\ SubSeq(unsaved, 1, Len(SetsInFlight)) = SetsInFlight
  <2>1. Len(unsaved) = Len(SetsInFlight) + Len(SetsCollected)
        /\ Len(SetsInFlight) \in Nat /\ Len(SetsCollected) \in Nat
    BY <1>1, ConcatProperties, LenProperties
  <2>2. QED
    BY <1>1, <2>1, TwoParts
<1>4. 0 \in 0 .. Len(unsaved) /\ SavedSets \o SubSeq(unsaved, 1, 0) = SavedSets
  <2>1. SubSeq(unsaved, 1, 0) = <<>>
    BY SubSeqEmpty
  <2>2. 0 \in 0 .. Len(unsaved)
    BY <1>3
  <2>3. QED
    BY <1>1, <2>1, <2>2, ConcatEmptySeq
<1> HIDE DEF unsaved
<1>5. CASE SavedSets' = SavedSets
  BY <1>2, <1>4, <1>5 DEF Log!Lose, Log!First, unsaved
<1>6. CASE SavedSets' = SavedSets \o SetsInFlight
  BY <1>2, <1>3, <1>6 DEF Log!Lose, Log!First, unsaved
<1>7. QED
  BY <1>5, <1>6

\* The walk ends on the first erased page: the logger goes on there, what was
\* collected is lost, or ReadBackData returns.
LEMMA ScanEndLog ==
  ASSUME LogSize, IInv, NEW f \in 0 .. LastPage, LogAt(f), ScanEnd
  PROVE  LogAt(f)' /\ [Log!LogNext]_Log!logVars
<1>1. /\ pc = "scanFull" /\ pc' = "idle" /\ UNCHANGED <<flashVars, scan, nextSet>>
  BY DEF ScanEnd
<1>2. f < LastPage /\ f \in Nat /\ LastPage \in Nat
  BY PageFor, FlashAssumption
<1>3. /\ busy.op = "idle" /\ scan.page = f /\ scan.addr = 0
      /\ ~(scan.addr + scan.size > PageSize)
  <2>1. scan.addr + scan.size > PageSize => scan.page = LastPage
    BY DEF ScanEnd
  <2>2. QED
    BY <1>1, <1>2, <2>1, WalkEnds
<1>4. /\ mem' = mem /\ buf' = buf /\ busy' = busy /\ nextSet' = nextSet
      /\ ArrayIs(mem, f)' /\ SavedSets' = SavedSets
      /\ RoomInv' /\ ChipInv(f)' /\ WalksInv(f)'
  BY <1>1, <1>3
     DEF flashVars, LogAt, ArrayIs, SavedSets, Stored, RoomInv, ChipInv, WalksInv, InScan
<1>5. CASE scan.goal = "read"
  <2>1. UNCHANGED loggerVars
    BY <1>5 DEF ScanEnd
  <2>2. Apart
    BY <1>1, <1>4, <2>1 DEF Apart
  <2>3. CollectInv(f)' /\ UNCHANGED Log!logVars
    BY <1>1, <2>2, ApartLog
  <2>4. QED
    BY <1>4, <2>3 DEF LogAt
<1>6. CASE scan.goal # "read"
  <2>1. PlaceLogger([page |-> f, addr |-> 0])
    <3>1. FoundPlace(scan.page, scan.addr) = [page |-> f, addr |-> 0]
      BY <1>2, <1>3 DEF FoundPlace
    <3>2. [page |-> f, addr |-> 0] # Full
      BY <1>2 DEF Full
    <3>3. QED
      BY <1>3, <1>6, <3>1, <3>2 DEF ScanEnd
  <2>2. DataSetAddress' = 0 /\ DataPageAddress' = f /\ DataloggerInitalized' = 1
    <3>1. [page |-> f, addr |-> 0] # Full
      BY <1>2 DEF Full
    <3>2. QED
      BY <2>1, <3>1 DEF PlaceLogger
  <2>3. CollectInv(f)'
    <3>1. Before(f) < nextSet /\ Before(f) \in Nat /\ nextSet \in Nat
      BY <1>2, BeforeIs DEF LogAt, CollectInv, LogSize, IInv, TypeOK
    <3>2. Filled(buf'[BufferInUse'], 0)
      BY DEF Filled, Address
    <3>3. 0 \in Ends /\ 0 + 2 <= PageSize /\ Before(f) + (0 \div 2) < nextSet
      BY <3>1, EndsAre, FlashAssumption DEF LogSize
    <3>4. QED
      BY <1>1, <1>2, <1>3, <1>4, <2>2, <3>1, <3>2, <3>3 DEF CollectInv, DataSetSize
  <2>4. Log!Lose
    BY <1>3, <1>4, <2>2, LoseUnsaved
  <2>5. QED
    BY <1>4, <2>3, <2>4 DEF LogAt, Log!LogNext
<1>7. QED
  BY <1>5, <1>6

\* What a restart leaves of the invariant.
LEMMA RestartLog ==
  ASSUME LogSize, IInv, NEW f \in 0 .. LastPage, LogAt(f), Restart, busy'.op = "idle",
         \A b \in Buffers : buf'[b][PageSize - 1] = Erased,
         NEW g \in Nat, g = f \/ (g = f + 1 /\ Collecting /\ busy.op = "program"),
         ArrayIs(mem', g)
  PROVE  LogAt(g)'
<1>1. /\ pc' = "boot" /\ ~Collecting' /\ nextSet' = nextSet
  BY DEF Restart, Collecting
<1>2. Before(g) < nextSet
  <2>1. CollectInv(f) /\ nextSet \in Nat
    BY DEF LogAt, IInv, TypeOK
  <2>2. CASE g = f
    BY <2>1, <2>2 DEF CollectInv
  <2>3. CASE g # f
    <3>1. Before(g) + (DataSetAddress \div DataSetSize) < nextSet
      BY <2>1, <2>3 DEF CollectInv
    <3>2. (DataSetAddress \div DataSetSize) \in Nat /\ Before(g) \in Nat
      BY BeforeIs DEF LogSize, DataSetSize, IInv, TypeOK, Position
    <3>3. QED
      BY <2>1, <3>1, <3>2
  <2>4. QED
    BY <2>2, <2>3
<1>3. CollectInv(g)' /\ ChipInv(g)' /\ WalksInv(g)'
  BY <1>1, <1>2 DEF CollectInv, ChipInv, WalksInv, InScan
<1>4. RoomInv'
  BY <1>1 DEF LogAt, RoomInv
<1>5. QED
  BY <1>3, <1>4 DEF LogAt

\* A restart between two operations.
LEMMA PlannedResetLog ==
  ASSUME LogSize, IInv, NEW f \in 0 .. LastPage, LogAt(f), PlannedReset
  PROVE  LogAt(f)' /\ Log!Lose
<1>1. /\ mem' = mem /\ buf' = buf /\ busy' = busy /\ busy.op = "idle" /\ Restart
      /\ nextSet' = nextSet /\ DataloggerInitalized' # 1
  BY DEF PlannedReset, Ready, Restart, flashVars
<1>2. f \in Nat /\ ArrayIs(mem', f) /\ SavedSets' = SavedSets
      /\ \A b \in Buffers : buf'[b][PageSize - 1] = Erased
  BY <1>1 DEF LogAt, RoomInv, SavedSets, Stored
<1>3. LogAt(f)'
  BY <1>1, <1>2, RestartLog
<1>4. Log!Lose
  BY <1>1, <1>2, LoseUnsaved
<1>5. QED
  BY <1>3, <1>4

\* A loss of power: a page that was being programmed is in the array or not.
LEMMA PowerLossLog ==
  ASSUME LogUse, LogSize, IInv, NEW f \in 0 .. LastPage, LogAt(f), PowerLoss
  PROVE  (\E g \in 0 .. LastPage : LogAt(g)') /\ Log!Lose
<1>1. /\ FlashLosesPower(Fills) /\ Restart /\ busy'.op = "idle"
      /\ nextSet' = nextSet /\ DataloggerInitalized' # 1
  BY DEF PowerLoss, FlashLosesPower, Restart, Idle
<1>2. \A b \in Buffers : buf'[b][PageSize - 1] = Erased
  <2>1. buf' \in [Buffers -> {PageOf(c) : c \in Fills}] /\ Fills \subseteq {Erased}
    BY <1>1 DEF FlashLosesPower, LogUse
  <2>2. \A b \in Buffers : buf'[b] = PageOf(Erased)
    BY <2>1
  <2>3. QED
    BY <2>2, FlashAssumption DEF PageOf, Address
<1>3. f \in Nat /\ f \in Pages /\ ArrayIs(mem, f) /\ mem \in [Pages -> [Address -> Cell]]
  BY PageFor DEF LogAt, IInv, TypeOK, FlashTypeOK
<1>4. CASE mem' = mem
  <2>1. SavedSets' = SavedSets
    BY <1>4 DEF SavedSets, Stored
  <2>2. LogAt(f)'
    BY <1>1, <1>2, <1>3, <1>4, RestartLog
  <2>3. QED
    BY <1>1, <2>1, <2>2, LoseUnsaved
<1>5. CASE mem' # mem
  <2>1. busy.op = "program" /\ busy.page = f /\ Collecting
    BY <1>1, <1>5 DEF FlashLosesPower, LogAt, ChipInv
  <2>2. PICK page \in {mem[f], PageOf(Erased), buf[busy.buffer]} :
          mem' = [mem EXCEPT ![f] = page]
    BY <1>1, <2>1 DEF FlashLosesPower
  <2>3. page # mem[f]
    BY <1>3, <1>5, <2>2
  <2>4. mem[f] = PageOf(Erased)
    <3>1. IsErased(mem[f]) /\ mem[f] \in [Address -> Cell]
      BY <1>3 DEF ArrayIs
    <3>2. QED
      BY <3>1 DEF IsErased, PageOf
  <2>5. mem' = [mem EXCEPT ![busy.page] = buf[busy.buffer]]
    BY <2>1, <2>2, <2>3, <2>4
  <2>6. /\ f + 1 \in 0 .. LastPage /\ ArrayIs(mem', f + 1)
        /\ SavedSets' = SavedSets \o SetsInFlight
    BY <2>1, <2>5, OnePageFull
  <2>7. LogAt(f + 1)'
    BY <1>1, <1>2, <1>3, <2>1, <2>6, RestartLog
  <2>8. QED
    BY <1>1, <2>6, <2>7, LoseUnsaved
<1>6. QED
  BY <1>4, <1>5

\* A step that changes nothing.
LEMMA StutterLog ==
  ASSUME NEW f, LogAt(f), UNCHANGED vars
  PROVE  LogAt(f)' /\ UNCHANGED Log!logVars
<1>1. /\ UNCHANGED <<mem, buf, busy, DataSetAddress, DataPageAddress, BufferInUse>>
      /\ UNCHANGED <<DataloggerInitalized, pc, scan, nextSet>>
  BY DEF vars, flashVars, loggerVars, historyVars
<1>2. ArrayIs(mem, f)' /\ CollectInv(f)'
  BY <1>1 DEF LogAt, ArrayIs, CollectInv, Collecting
<1>3. ChipInv(f)' /\ WalksInv(f)' /\ RoomInv'
  BY <1>1 DEF LogAt, ChipInv, WalksInv, InScan, RoomInv, Collecting
<1>4. UNCHANGED Log!logVars
  BY <1>1 DEF Log!logVars, SavedSets, Stored, SetsInFlight, SetsCollected
<1>5. QED
  BY <1>2, <1>3, <1>4 DEF LogAt

-----------------------------------------------------------------------------
(***************************************************************************)
(* The refinement.                                                         *)
(***************************************************************************)
\* The logger starts with an empty array.
LEMMA LogInit == LogUse /\ LogSize /\ Init => LogInv /\ Log!LogInit
<1> SUFFICES ASSUME LogUse, LogSize, Init PROVE LogInv /\ Log!LogInit
  OBVIOUS
<1>1. /\ \A p \in Pages : mem[p] = PageOf(Erased)
      /\ \A b \in Buffers : buf[b] = PageOf(Erased)
      /\ busy.op = "idle" /\ pc = "boot" /\ nextSet = 1 /\ DataloggerInitalized = 0
  BY DEF LogUse, Init, FlashInit, Idle
<1>2. IsErased(PageOf(Erased)) /\ PageOf(Erased)[PageSize - 1] = Erased
  BY FlashAssumption DEF PageOf, IsErased, Address
<1>3. ArrayIs(mem, 0)
  <2>1. \A p \in Pages : ~(p < 0)
    BY DEF Pages
  <2>2. QED
    BY <1>1, <1>2, <2>1 DEF ArrayIs
<1>4. 0 \in 0 .. LastPage /\ Before(0) = 0
  BY FlashAssumption, BeforeIs DEF LogSize
<1>5. LogAt(0)
  BY <1>1, <1>2, <1>3, <1>4, LoggerAssumption
     DEF LogAt, CollectInv, Collecting, ChipInv, WalksInv, InScan, RoomInv
<1>6. Log!LogInit
  <2>1. SavedSets = <<>>
    <3>1. SavedSets = SetsTo(mem, Before(0))
      BY <1>3, <1>4, SavedIs DEF LogSize, SavedSets, Stored
    <3>2. SetsTo(mem, 0) = <<>>
      BY DEF SetsTo
    <3>3. QED
      BY <1>4, <3>1, <3>2
  <2>2. SetsInFlight = <<>> /\ SetsCollected = <<>>
    BY <1>1 DEF SetsInFlight, SetsCollected
  <2>3. <<>> \o <<>> = <<>>
    BY EmptySeq, ConcatEmptySeq
  <2>4. QED
    BY <1>1, <2>1, <2>2, <2>3 DEF Log!LogInit
<1>7. QED
  BY <1>4, <1>5, <1>6 DEF LogInv

\* The invariant is inductive, and every step of the logger is a step of the
\* log or leaves the log as it is.
THEOREM LogStep ==
  ASSUME LogUse, LogSize, IInv, LogInv, [Next]_vars
  PROVE  LogInv' /\ [Log!LogNext]_Log!logVars
<1>1. PICK f \in 0 .. LastPage : LogAt(f)
  BY DEF LogInv
<1>2. ~(Datalogger_SaveDataToFlash \/ SaveWait \/ Reset)
  BY <1>1 DEF LogUse, Datalogger_SaveDataToFlash, Command, SaveWait, Reset, LogAt, RoomInv
<1>3. CASE Boot \/ InitCommand \/ Datalogger_ReadBackData
  <2>1. /\ pc \in {"boot", "idle"} /\ Ready
        /\ UNCHANGED <<flashVars, loggerVars, nextSet>>
        /\ StartScan("init", 0) \/ StartScan("read", ReadCount)
    <3>1. CASE Boot
      BY <1>1, <3>1, IdleThen DEF Boot, Datalogger_Init, StartScan, Ready, LogUse, Paced
    <3>2. CASE InitCommand
      BY <3>2 DEF InitCommand, Command, Datalogger_Init, StartScan, LogUse, Paced
    <3>3. CASE Datalogger_ReadBackData
      BY <3>3 DEF Datalogger_ReadBackData, Command, StartScan, LogUse, Paced, historyVars
    <3>4. QED
      BY <1>3, <3>1, <3>2, <3>3
  <2>2. LogAt(f)' /\ UNCHANGED Log!logVars
    BY <1>1, <2>1, StartLog
  <2>3. QED
    BY <2>2 DEF LogInv
<1>4. CASE ScanCopy \/ ScanRead \/ ScanNextPage \/ AddNotFull
  BY <1>1, <1>4, ScanCopyLog, ScanReadLog, ScanNextPageLog, AddNotFullLog DEF LogInv
<1>5. CASE AddHeader \/ AddFull
  BY <1>1, <1>5, AddHeaderLog, AddFullLog DEF LogInv
<1>6. CASE AddData
  BY <1>1, <1>6, AddDataLog DEF LogInv, Log!LogNext
<1>7. CASE ChipStep
  <2>1. busy.op \in {"program", "load"}
    BY <1>7 DEF ChipStep, FlashDone, Ready, IInv, TypeOK, FlashTypeOK, Operation
  <2>2. CASE busy.op = "program"
    BY <1>1, <1>7, <2>2, ProgrammedLog DEF LogInv, Log!LogNext
  <2>3. CASE busy.op = "load"
    BY <1>1, <1>7, <2>3, LoadedLog DEF LogInv
  <2>4. QED
    BY <2>1, <2>2, <2>3
<1>8. CASE ScanEnd
  BY <1>1, <1>8, ScanEndLog DEF LogInv
<1>9. CASE PlannedReset
  BY <1>1, <1>9, PlannedResetLog DEF LogInv, Log!LogNext
<1>10. CASE PowerLoss
  BY <1>1, <1>10, PowerLossLog DEF LogInv, Log!LogNext
<1>11. CASE UNCHANGED vars
  BY <1>1, <1>11, StutterLog DEF LogInv
<1>12. QED
  BY <1>2, <1>3, <1>4, <1>5, <1>6, <1>7, <1>8, <1>9, <1>10, <1>11 DEF Next, Continue

\* The data logger implements SampleLog: for every size of the array and of
\* its pages, any number of restarts and losses of power, and as many data
\* sets as the array has room for, the data sets reach the array in the order
\* they were added, each once, and what a restart loses is the newest part.
THEOREM Implements == LogUse /\ LogSize /\ Spec => ImplementsLog
<1>1. LogUse /\ LogSize /\ Init => IInv /\ LogInv /\ Log!LogInit
  BY InitInv, LogInit
<1>2. LogUse /\ LogSize /\ IInv /\ LogInv /\ [Next]_vars
        => IInv' /\ LogInv' /\ [Log!LogNext]_Log!logVars
  BY NextInv, LogStep
<1>3. LogUse /\ LogSize => (LogUse /\ LogSize)'
  BY DEF LogUse, Paced, LogSize, Layout
<1>4. QED
  BY <1>1, <1>2, <1>3, PTL DEF Spec, ImplementsLog, Log!LogSpec

-----------------------------------------------------------------------------
(***************************************************************************)
(* The order of the data sets.                                             *)
(***************************************************************************)
\* In the order of their numbers, and numbered before n.
OrderedTo(list, n) ==
  /\ \A i, j \in 1 .. Len(list) : i < j => list[i] < list[j]
  /\ \A i \in 1 .. Len(list) : list[i] < n
OrderInv == OrderedTo(SavedSets \o (SetsInFlight \o SetsCollected), nextSet)

\* A data set is added behind all others.
LEMMA OrderedAppend ==
  ASSUME NEW list \in Seq(Nat \ {0}), NEW n \in Nat \ {0}, OrderedTo(list, n)
  PROVE  OrderedTo(Append(list, n), n + 1)
<1> DEFINE S == Nat \ {0}
           new == Append(list, n)
<1>1. Len(list) \in Nat /\ list \in Seq(S) /\ n \in S
  BY LenProperties
<1>2. \A i \in 1 .. Len(list) : list[i] \in S
  BY <1>1, ElementOfSeq
<1>3. /\ Len(new) = Len(list) + 1 /\ new[Len(list) + 1] = n
      /\ \A i \in 1 .. Len(list) : new[i] = list[i]
  <2> HIDE DEF S
  <2>1. QED
    BY <1>1, AppendProperties
<1> HIDE DEF new
<1>4. ASSUME NEW i \in 1 .. Len(new)
      PROVE  i \in 1 .. Len(list) \/ i = Len(list) + 1
  BY <1>1, <1>3
<1>5. \A i \in 1 .. Len(new) : new[i] < n + 1
  BY <1>1, <1>2, <1>3, <1>4 DEF OrderedTo
<1>6. ASSUME NEW i \in 1 .. Len(new), NEW j \in 1 .. Len(new), i < j
      PROVE  new[i] < new[j]
  <2>1. i \in 1 .. Len(list)
    BY <1>1, <1>3, <1>6
  <2>2. CASE j \in 1 .. Len(list)
    BY <1>3, <1>6, <2>1, <2>2 DEF OrderedTo
  <2>3. CASE j = Len(list) + 1
    BY <1>3, <2>1, <2>3 DEF OrderedTo
  <2>4. QED
    BY <1>4, <2>2, <2>3
<1>7. QED
  BY <1>5, <1>6 DEF OrderedTo, new

\* The beginning of an ordered list is ordered.
LEMMA OrderedPrefix ==
  ASSUME NEW list \in Seq(Nat \ {0}), NEW n, OrderedTo(list, n), NEW k \in 0 .. Len(list)
  PROVE  /\ SubSeq(list, 1, k) \in Seq(Nat \ {0}) /\ Len(SubSeq(list, 1, k)) = k
         /\ \A i \in 1 .. k : SubSeq(list, 1, k)[i] = list[i]
         /\ OrderedTo(SubSeq(list, 1, k), n)
<1> DEFINE S == Nat \ {0}
           new == SubSeq(list, 1, k)
<1>1. Len(list) \in Nat /\ k \in Nat /\ \A i \in 1 .. k : i \in 1 .. Len(list)
  BY LenProperties
<1>2. \A i \in 1 .. k : list[i] \in S
  BY <1>1, ElementOfSeq
<1>3. new \in Seq(S) /\ Len(new) = k /\ \A i \in 1 .. k : new[i] = list[i]
  <2> HIDE DEF S
  <2>1. /\ SubSeq(list, 1, k) \in Seq(S)
        /\ Len(SubSeq(list, 1, k)) = IF 1 <= k THEN k - 1 + 1 ELSE 0
        /\ \A i \in 1 .. k - 1 + 1 : SubSeq(list, 1, k)[i] = list[1 + i - 1]
    BY <1>1, <1>2, SubSeqProperties
  <2>2. k - 1 + 1 = k /\ \A i \in 1 .. k : 1 + i - 1 = i
    BY <1>1
  <2>3. QED
    BY <1>1, <2>1, <2>2
<1> HIDE DEF new
<1>4. OrderedTo(new, n)
  BY <1>1, <1>3 DEF OrderedTo
<1>5. QED
  BY <1>3, <1>4 DEF new

\* No step of the log puts a data set before one that was added earlier.
LEMMA OrderStep ==
  ASSUME LogSize, IInv, LogInv, OrderInv, [Log!LogNext]_Log!logVars
  PROVE  OrderInv'
<1> DEFINE S == Nat \ {0}
           saved == SavedSets
           unsaved == SetsInFlight \o SetsCollected
           next == nextSet
           all == saved \o unsaved
<1>1. /\ saved \in Seq(S) /\ unsaved \in Seq(S) /\ next \in S /\ all \in Seq(S)
      /\ OrderedTo(all, next)
  <2>1. saved \in Seq(S) /\ SetsInFlight \in Seq(S) /\ SetsCollected \in Seq(S)
    BY LogView DEF LogInv
  <2>2. unsaved \in Seq(S)
    BY <2>1, ConcatProperties
  <2>3. next \in S
    BY DEF IInv, TypeOK
  <2>4. QED
    BY <2>1, <2>2, <2>3, ConcatProperties DEF OrderInv
<1>2. CASE Log!Add
  <2>1. saved' = saved /\ unsaved' = Append(unsaved, next) /\ next' = next + 1
    BY <1>2 DEF Log!Add
  <2> HIDE DEF saved, unsaved, next
  <2>2. saved \o Append(unsaved, next) = Append(all, next)
    BY <1>1, AppendBehind
  <2>3. OrderedTo(Append(all, next), next + 1)
    BY <1>1, OrderedAppend
  <2>4. OrderedTo(saved' \o unsaved', next')
    BY <2>1, <2>2, <2>3
  <2>5. QED
    BY <2>4 DEF OrderInv, saved, unsaved, next
<1>3. ASSUME NEW n \in 0 .. Len(unsaved)
      PROVE  /\ saved \o SubSeq(unsaved, 1, n) \in Seq(S)
             /\ OrderedTo(saved \o SubSeq(unsaved, 1, n), next)
             /\ (saved \o SubSeq(unsaved, 1, n)) \o SubSeq(unsaved, n + 1, Len(unsaved)) = all
  <2> HIDE DEF saved, unsaved, next
  <2> DEFINE first == SubSeq(unsaved, 1, n)
             rest  == SubSeq(unsaved, n + 1, Len(unsaved))
  <2>1. Len(unsaved) \in Nat /\ n \in Nat
    BY <1>1, LenProperties
  <2>2. first \o rest = unsaved
    <3>1. /\ 1 \in 1 .. Len(unsaved) + 1 /\ n \in 1 - 1 .. Len(unsaved)
          /\ Len(unsaved) \in n .. Len(unsaved)
      BY <2>1
    <3>2. first \o rest = SubSeq(unsaved, 1, Len(unsaved))
      BY <1>1, <3>1, ConcatAdjacentSubSeq
    <3>3. QED
      BY <1>1, <3>2, SubSeqFull
  <2>3. first \in Seq(S) /\ rest \in Seq(S)
    <3>1. \A i \in 1 .. Len(unsaved) : unsaved[i] \in S
      BY <1>1, ElementOfSeq
    <3>2. /\ 1 \in Int /\ n + 1 \in Int /\ n \in Int /\ Len(unsaved) \in Int
          /\ \A i \in 1 .. n : unsaved[i] \in S
          /\ \A i \in n + 1 .. Len(unsaved) : unsaved[i] \in S
      BY <2>1, <3>1
    <3> HIDE DEF S
    <3>3. QED
      BY <3>2, SubSeqProperties
  <2> HIDE DEF first, rest
  <2>4. (saved \o first) \o rest = all
    <3>1. saved \in Seq(S) /\ first \in Seq(S) /\ rest \in Seq(S)
      BY <1>1, <2>3
    <3> HIDE DEF S, all
    <3>2. (saved \o first) \o rest = saved \o (first \o rest)
      BY <3>1, ConcatAssociative
    <3>3. QED
      BY <2>2, <3>2 DEF all
  <2>5. saved \o first \in Seq(S) /\ SubSeq(all, 1, Len(saved \o first)) = saved \o first
        /\ Len(saved \o first) \in 0 .. Len(all)
    <3>1. saved \o first \in Seq(S)
      BY <1>1, <2>3, ConcatProperties
    <3>2. SubSeq((saved \o first) \o rest, 1, Len(saved \o first)) = saved \o first
      BY <2>3, <3>1, TwoParts
    <3>3. /\ Len((saved \o first) \o rest) = Len(saved \o first) + Len(rest)
          /\ Len(saved \o first) \in Nat /\ Len(rest) \in Nat
      BY <2>3, <3>1, ConcatProperties, LenProperties
    <3>4. QED
      BY <2>4, <3>1, <3>2, <3>3
  <2>6. OrderedTo(saved \o first, next)
    BY <1>1, <2>5, OrderedPrefix
  <2>7. QED
    BY <2>4, <2>5, <2>6 DEF first, rest
<1>4. CASE Log!Flush
  <2>1. PICK n \in 1 .. Len(unsaved) :
          /\ saved' = saved \o SubSeq(unsaved, 1, n)
          /\ unsaved' = SubSeq(unsaved, n + 1, Len(unsaved))
          /\ next' = next
    BY <1>4 DEF Log!Flush, Log!First, Log!Rest
  <2>2. n \in 0 .. Len(unsaved)
    BY <2>1
  <2>3. saved' \o unsaved' = all /\ next' = next
    BY <1>3, <2>1, <2>2
  <2>4. QED
    BY <1>1, <2>3 DEF OrderInv
<1>5. CASE Log!Lose
  <2>1. PICK n \in 0 .. Len(unsaved) :
          /\ saved' = saved \o SubSeq(unsaved, 1, n)
          /\ unsaved' = <<>>
          /\ next' = next
    BY <1>5 DEF Log!Lose, Log!First
  <2>2. saved' \in Seq(S) /\ OrderedTo(saved', next)
    BY <1>3, <2>1
  <2>3. saved' \o unsaved' = saved'
    BY <2>1, <2>2, ConcatEmptySeq
  <2>4. QED
    BY <2>1, <2>2, <2>3 DEF OrderInv
<1>6. CASE UNCHANGED Log!logVars
  BY <1>6 DEF Log!logVars, OrderInv
<1>7. QED
  BY <1>2, <1>4, <1>5, <1>6 DEF Log!LogNext

\* The data sets in the array are in order.
LEMMA SavedOrder ==
  ASSUME LogSize, IInv, NEW f \in 0 .. LastPage, LogAt(f), OrderInv
  PROVE  /\ SavedSets \in Seq(Nat \ {0}) /\ Len(SavedSets) = Before(f) /\ Stored = Before(f)
         /\ Before(f) \in Nat /\ OrderedTo(SavedSets, nextSet)
<1>1. /\ Layout /\ ArrayIs(mem, f) /\ mem \in [Pages -> [Address -> Cell]]
      /\ SavedSets = SetsTo(mem, Before(f)) /\ SavedSets \in Seq(Nat \ {0})
      /\ SetsInFlight \in Seq(Nat \ {0}) /\ SetsCollected \in Seq(Nat \ {0})
  BY LogView DEF LogSize, LogAt, IInv, TypeOK, FlashTypeOK
<1>2. Len(SavedSets) = Before(f) /\ Before(f) \in Nat
  BY <1>1, SetsToAre
<1>3. Stored = Before(f)
  BY <1>1, StoredIs DEF Stored
<1>4. OrderedTo(SavedSets, nextSet)
  <2> DEFINE rest == SetsInFlight \o SetsCollected
             all  == SavedSets \o rest
  <2>1. rest \in Seq(Nat \ {0})
    BY <1>1, ConcatProperties
  <2>2. all \in Seq(Nat \ {0}) /\ Len(all) = Len(SavedSets) + Len(rest)
        /\ Len(SavedSets) \in Nat /\ Len(rest) \in Nat
    BY <1>1, <2>1, ConcatProperties, LenProperties
  <2>3. SubSeq(all, 1, Len(SavedSets)) = SavedSets
    BY <1>1, <2>1, TwoParts
  <2>4. OrderedTo(all, nextSet)
    BY DEF OrderInv
  <2> HIDE DEF all, rest
  <2>5. Len(SavedSets) \in 0 .. Len(all)
    BY <2>2
  <2>6. OrderedTo(SubSeq(all, 1, Len(SavedSets)), nextSet)
    BY <2>2, <2>4, <2>5, OrderedPrefix
  <2>7. QED
    BY <2>3, <2>6
<1>5. QED
  BY <1>1, <1>2, <1>3, <1>4

-----------------------------------------------------------------------------
(***************************************************************************)
(* What ReadBackData prints.                                               *)
(***************************************************************************)
\* The data sets before a place of the walk.
Done(page, addr) == Before(page) + (addr \div 2)

\* While it walks, it has printed the data sets before its place.
PrintedInv ==
  InScan /\ scan.goal = "read" =>
    /\ printed = SubSeq(SavedSets, 1, Done(scan.page, scan.addr))
    /\ Done(scan.page, scan.addr) + scan.left = ReadCount

\* A data set in the array has a place in the sequence.
LEMMA PlaceOfSet ==
  ASSUME LogSize, IInv, NEW f \in 0 .. LastPage, LogAt(f), NEW set \in SetsIn(mem)
  PROVE  \E i \in 1 .. Before(f) : SavedSets[i] = set
<1>1. PICK p \in Pages, a \in Address : mem[p][a] = set
  BY DEF SetsIn
<1>2. set > 0 /\ ArrayIs(mem, f) /\ Layout /\ mem \in [Pages -> [Address -> Cell]]
  BY DEF SetsIn, LogAt, LogSize, IInv, TypeOK, FlashTypeOK
<1>3. p < f
  BY <1>1, <1>2, NoneInErased DEF ArrayIs
<1>4. HoldsTo(mem[p], PageSize - 1)
  BY <1>2, <1>3 DEF ArrayIs
<1>5. a % 2 = 1 /\ a < PageSize - 1 /\ a \in Nat
  BY <1>1, <1>2, <1>4, FlashAssumption DEF HoldsTo, Address, Header, Erased
<1>6. PICK s \in Nat : a = 2 * s + 1
  <2>1. a = 2 * (a \div 2) + 1 /\ a \div 2 \in Nat
    BY <1>5
  <2>2. QED
    BY <2>1
<1>7. s < PerPage
  BY <1>2, <1>5, <1>6, PageIs
<1>8. p \in Nat /\ f \in Nat /\ Before(p) \in Nat /\ Before(f) \in Nat
  BY <1>2, BeforeIs DEF Pages
<1>9. Before(p) + s + 1 <= Before(f)
  BY <1>2, <1>3, <1>7, <1>8, PageOrder
<1>10. SavedSets[Before(p) + s + 1] = mem[p][2 * s + 1]
  <2> DEFINE i == Before(p) + s + 1
  <2>1. i \in 1 .. Before(f)
    BY <1>8, <1>9
  <2>2. PageOfSet(i) = p /\ HeaderOfSet(i) = 2 * s
    BY <1>2, <1>7, <1>8, PlaceIs
  <2> HIDE DEF i
  <2>3. SavedSets[i] = mem[PageOfSet(i)][HeaderOfSet(i) + 1]
    BY <1>2, <2>1, LogView, SetsToAre
  <2>4. QED
    BY <2>2, <2>3 DEF i
<1>11. QED
  BY <1>1, <1>6, <1>8, <1>9, <1>10

\* The first data sets of the sequence are the oldest in the array.
LEMMA PrefixIsOldest ==
  ASSUME LogSize, IInv, NEW f \in 0 .. LastPage, LogAt(f), OrderInv,
         NEW k \in 0 .. Before(f), k = ReadCount \/ (k = Before(f) /\ k <= ReadCount)
  PROVE  AreOldest(SubSeq(SavedSets, 1, k), ReadCount)
<1> DEFINE list == SubSeq(SavedSets, 1, k)
<1>1. /\ SavedSets \in Seq(Nat \ {0}) /\ Len(SavedSets) = Before(f) /\ Before(f) \in Nat
      /\ OrderedTo(SavedSets, nextSet) /\ k \in Nat /\ ReadCount \in Nat /\ k <= ReadCount
  BY SavedOrder, LoggerAssumption
<1>2. /\ list \in Seq(Nat \ {0}) /\ Len(list) = k
      /\ \A i \in 1 .. k : list[i] = SavedSets[i]
  BY <1>1, OrderedPrefix
<1>3. DOMAIN list = 1 .. k
  BY <1>2, LenProperties
<1> HIDE DEF list
<1>4. \A i, j \in DOMAIN list : i < j => list[i] < list[j]
  BY <1>1, <1>2, <1>3 DEF OrderedTo
<1>5. ToSet(list) \subseteq SetsIn(mem)
  <2> SUFFICES ASSUME NEW i \in 1 .. k PROVE SavedSets[i] \in SetsIn(mem)
    BY <1>2, <1>3 DEF ToSet
  <2>1. /\ Layout /\ ArrayIs(mem, f) /\ mem \in [Pages -> [Address -> Cell]]
        /\ SavedSets = SetsTo(mem, Before(f)) /\ i \in 1 .. Before(f)
    BY <1>1, LogView DEF LogSize, LogAt, IInv, TypeOK, FlashTypeOK
  <2>2. /\ SavedSets[i] = mem[PageOfSet(i)][HeaderOfSet(i) + 1]
        /\ i \in Nat \ {0} /\ i <= Before(LastPage + 1)
    <3>1. Before(f) <= Before(LastPage + 1) /\ Before(LastPage + 1) \in Nat
      <4>1. LastPage + 1 \in Nat
        BY FlashAssumption
      <4>2. QED
        BY <2>1, <4>1, SetsToAre, BeforeIs
    <3>2. QED
      BY <1>1, <2>1, <3>1, SetsToAre
  <2>3. PageOfSet(i) \in Pages /\ HeaderOfSet(i) + 1 \in Address
    BY <2>1, <2>2, PlaceInArray
  <2>4. SavedSets[i] \in Nat \ {0}
    BY <1>1, <2>1, ElementOfSeq
  <2>5. QED
    BY <2>2, <2>3, <2>4 DEF SetsIn
<1>6. ASSUME NEW set \in SetsIn(mem), set \notin ToSet(list)
      PROVE  Len(list) = ReadCount /\ \A i \in DOMAIN list : list[i] < set
  <2>1. PICK i \in 1 .. Before(f) : SavedSets[i] = set
    BY PlaceOfSet
  <2>2. i \notin 1 .. k
    BY <1>2, <1>3, <1>6, <2>1 DEF ToSet
  <2>3. k < i
    BY <1>1, <2>1, <2>2
  <2>4. k = ReadCount
    BY <1>1, <2>1, <2>3
  <2>5. \A j \in 1 .. k : SavedSets[j] < SavedSets[i]
    BY <1>1, <2>1, <2>3 DEF OrderedTo
  <2>6. QED
    BY <1>2, <1>3, <2>1, <2>4, <2>5
<1>7. QED
  BY <1>1, <1>2, <1>4, <1>5, <1>6 DEF AreOldest, list

\* One more data set printed.
LEMMA PrintOneMore ==
  ASSUME LogSize, IInv, NEW f \in 0 .. LastPage, LogAt(f), OrderInv,
         NEW p \in Nat, p < f, NEW a \in Ends, a < PageSize - 1
  PROVE  /\ Done(p, a) + 1 \in 0 .. Before(f) /\ Done(p, a) \in Nat
         /\ Done(p, a + 2) = Done(p, a) + 1
         /\ SubSeq(SavedSets, 1, Done(p, a) + 1) =
              Append(SubSeq(SavedSets, 1, Done(p, a)), mem[p][a + 1])
<1> DEFINE s == a \div 2
           k == Done(p, a)
<1>1. a \in Nat /\ a % 2 = 0 /\ PageSize = 2 * PerPage + 1 /\ PerPage \in Nat
  BY PageIs DEF LogSize, Ends, Address
<1>2. /\ s \in Nat /\ a = 2 * s /\ s < PerPage /\ (a + 2) \div 2 = s + 1
  BY <1>1
<1>3. Before(p) \in Nat /\ Before(f) \in Nat /\ f \in Nat
  BY BeforeIs DEF LogSize
<1>4. k = Before(p) + s /\ k \in Nat
  BY <1>2, <1>3 DEF Done
<1>5. Done(p, a + 2) = k + 1
  BY <1>1, <1>2, <1>3, <1>4 DEF Done
<1>6. k + 1 <= Before(f)
  <2>1. Before(p) + s + 1 <= Before(f)
    BY <1>2, <1>3, PageOrder DEF LogSize
  <2>2. QED
    BY <1>3, <1>4, <2>1
<1>7. PageOfSet(k + 1) = p /\ HeaderOfSet(k + 1) = a
  <2>1. PageOfSet(Before(p) + s + 1) = p /\ HeaderOfSet(Before(p) + s + 1) = 2 * s
    BY <1>2, PlaceIs DEF LogSize
  <2>2. QED
    BY <1>2, <1>4, <2>1
<1> HIDE DEF k, s
<1>8. SavedSets \in Seq(Nat \ {0}) /\ Len(SavedSets) = Before(f)
  BY SavedOrder
<1>9. SavedSets[k + 1] = mem[p][a + 1]
  <2>1. /\ Layout /\ ArrayIs(mem, f) /\ mem \in [Pages -> [Address -> Cell]]
        /\ SavedSets = SetsTo(mem, Before(f)) /\ k + 1 \in 1 .. Before(f)
    BY <1>3, <1>4, <1>6, LogView DEF LogSize, LogAt, IInv, TypeOK, FlashTypeOK
  <2> DEFINE i == k + 1
  <2> HIDE DEF i
  <2>2. i \in 1 .. Before(f)
    BY <2>1 DEF i
  <2>3. SavedSets[i] = mem[PageOfSet(i)][HeaderOfSet(i) + 1]
    BY <2>1, <2>2, SetsToAre
  <2>4. QED
    BY <1>7, <2>3 DEF i
<1>10. SubSeq(SavedSets, 1, k + 1) = Append(SubSeq(SavedSets, 1, k), SavedSets[k + 1])
  <2> DEFINE i == k + 1
             S == Nat \ {0}
  <2>1. i \in 1 .. Len(SavedSets) /\ 1 \in 1 .. Len(SavedSets) /\ i - 1 = k
    BY <1>3, <1>4, <1>6, <1>8
  <2>2. SavedSets[i] \in S
    BY <1>8, <2>1, ElementOfSeq
  <2>4. SubSeq(SavedSets, 1, k) \in Seq(S)
    <3>1. k \in 0 .. Len(SavedSets) /\ OrderedTo(SavedSets, nextSet)
      BY <1>3, <1>4, <1>6, <1>8, SavedOrder
    <3>2. QED
      BY <1>8, <3>1, OrderedPrefix
  <2> HIDE DEF i, S
  <2>5. SavedSets \in Seq(S) /\ i \in 1 .. Len(SavedSets)
    BY <1>8, <2>1 DEF S
  <2>6. SubSeq(SavedSets, 1, i) = SubSeq(SavedSets, 1, i - 1) \o <<SavedSets[i]>>
    BY <2>1, <2>5, SubSeqRecursiveSecond
  <2>7. Append(SubSeq(SavedSets, 1, k), SavedSets[i]) = SubSeq(SavedSets, 1, k) \o <<SavedSets[i]>>
    BY <2>2, <2>4, AppendIsConcat
  <2>8. QED
    BY <2>1, <2>6, <2>7 DEF i
<1>11. QED
  BY <1>3, <1>4, <1>5, <1>6, <1>9, <1>10 DEF k

\* A step of ReadBackData over a data set.
LEMMA ReadPrinted ==
  ASSUME LogSize, IInv, NEW f \in 0 .. LastPage, LogAt(f), OrderInv, PrintedInv, ScanRead
  PROVE  PrintedInv' /\ ReadBackStep
<1> DEFINE p == scan.page
           a == scan.addr
           k == Done(p, a)
           more == ~(scan.goal = "read" /\ Enough)
<1>1. /\ pc = "scanRead" /\ UNCHANGED <<mem, nextSet>>
      /\ scan'.page = p /\ scan'.goal = scan.goal
      /\ IF p < f /\ a < PageSize - 1
           THEN /\ IF more THEN pc' = "scanRead" /\ scan'.addr = a + 2 ELSE pc' = "idle"
                /\ scan.goal = "read" =>
                     /\ printed' = Append(printed, mem[p][a + 1])
                     /\ scan'.left = scan.left - 1
           ELSE /\ pc' = "scanFull" /\ scan'.addr = a /\ printed' = printed
                /\ scan'.left = scan.left
  BY ScanReadIs DEF flashVars
<1>2. SavedSets' = SavedSets /\ SetsIn(mem)' = SetsIn(mem)
  BY <1>1 DEF SavedSets, Stored, SetsIn
<1>3. a \in Ends /\ p \in Nat /\ scan.left \in Nat
  BY <1>1 DEF LogAt, WalksInv, InScan, IInv, TypeOK, Walk
<1> SUFFICES ASSUME scan.goal = "read" PROVE PrintedInv' /\ ReadBackStep
  BY <1>1 DEF PrintedInv, ReadBackStep
<1>4. printed = SubSeq(SavedSets, 1, k) /\ k + scan.left = ReadCount
  BY <1>1 DEF PrintedInv, InScan
<1>5. CASE p < f /\ a < PageSize - 1
  <2>1. /\ k + 1 \in 0 .. Before(f) /\ k \in Nat /\ Done(p, a + 2) = k + 1
        /\ printed' = SubSeq(SavedSets, 1, k + 1) /\ scan'.left = scan.left - 1
    BY <1>1, <1>3, <1>4, <1>5, PrintOneMore
  <2> HIDE DEF k, p, a
  <2>2. CASE more
    <3>1. scan'.page = p /\ scan'.addr = a + 2 /\ pc' = "scanRead"
      BY <1>1, <1>5, <2>2
    <3>2. Done(scan.page, scan.addr)' = k + 1
      BY <2>1, <3>1 DEF Done
    <3>3. k + 1 + (scan.left - 1) = ReadCount
      BY <1>3, <1>4, <2>1
    <3>4. PrintedInv'
      BY <1>2, <2>1, <3>2, <3>3 DEF PrintedInv
    <3>5. QED
      BY <3>1, <3>4 DEF ReadBackStep
  <2>3. CASE ~more
    <3>1. scan.left = 1 /\ pc' = "idle"
      BY <1>1, <1>5, <2>3 DEF Enough
    <3>2. k + 1 = ReadCount
      BY <1>4, <2>1, <3>1
    <3>3. AreOldest(printed', ReadCount)
      <4> DEFINE n == k + 1
      <4>1. n \in 0 .. Before(f) /\ n = ReadCount /\ printed' = SubSeq(SavedSets, 1, n)
        BY <2>1, <3>2
      <4> HIDE DEF n
      <4>2. QED
        BY <4>1, PrefixIsOldest
    <3>4. QED
      BY <3>1, <3>3 DEF PrintedInv, ReadBackStep, InScan
  <2>4. QED
    BY <2>2, <2>3
<1>6. CASE ~(p < f /\ a < PageSize - 1)
  <2>1. /\ pc' = "scanFull" /\ scan'.page = p /\ scan'.addr = a /\ printed' = printed
        /\ scan'.left = scan.left
    BY <1>1, <1>6
  <2>2. Done(scan.page, scan.addr)' = k
    BY <2>1 DEF Done
  <2> HIDE DEF k, p, a
  <2>3. QED
    BY <1>2, <1>4, <2>1, <2>2 DEF PrintedInv, ReadBackStep
<1>7. QED
  BY <1>5, <1>6

\* The page is done.
LEMMA NextPagePrinted ==
  ASSUME LogSize, IInv, NEW f \in 0 .. LastPage, LogAt(f), PrintedInv, ScanNextPage
  PROVE  PrintedInv' /\ ReadBackStep
<1>1. /\ pc = "scanFull" /\ pc' = "scanCopy" /\ scan.addr + scan.size > PageSize
      /\ scan'.page = scan.page + 1 /\ scan'.addr = 0 /\ scan'.goal = scan.goal
      /\ scan'.left = scan.left /\ printed' = printed /\ mem' = mem
  BY DEF ScanNextPage, flashVars, IInv, TypeOK, Walk
<1>2. scan.page < f /\ scan.addr = PageSize - 1 /\ scan.page \in Nat
  BY <1>1, WalkEnds DEF IInv, TypeOK, Walk
<1>3. Done(scan.page, scan.addr)' = Done(scan.page, scan.addr)
  <2>1. PageSize = 2 * PerPage + 1 /\ PerPage \in Nat
    BY PageIs DEF LogSize
  <2>2. scan.addr \div 2 = PerPage
    BY <1>2, <2>1
  <2>3. Before(scan.page + 1) = Before(scan.page) + PerPage /\ Before(scan.page + 1) \in Nat
    <3>1. scan.page + 1 \in Nat
      BY <1>2
    <3>2. QED
      BY <1>2, <3>1, BeforeIs DEF LogSize
  <2>4. Done(scan.page, scan.addr)' = Before(scan.page + 1) + (0 \div 2)
    BY <1>1 DEF Done, Before
  <2>5. Before(scan.page + 1) + (0 \div 2) = Before(scan.page + 1)
    BY <2>3
  <2>6. QED
    BY <2>2, <2>3, <2>4, <2>5 DEF Done
<1>4. SavedSets' = SavedSets
  BY <1>1 DEF SavedSets, Stored
<1>5. QED
  BY <1>1, <1>3, <1>4 DEF PrintedInv, InScan, ReadBackStep

\* ReadBackData returns on the first erased page.
LEMMA EndPrinted ==
  ASSUME LogSize, IInv, NEW f \in 0 .. LastPage, LogAt(f), OrderInv, PrintedInv, ScanEnd
  PROVE  PrintedInv' /\ ReadBackStep
<1>1. /\ pc = "scanFull" /\ pc' = "idle" /\ mem' = mem /\ printed' = printed
      /\ scan.addr + scan.size > PageSize => scan.page = LastPage
  BY DEF ScanEnd, flashVars
<1>2. PrintedInv'
  BY <1>1 DEF PrintedInv, InScan
<1>3. ASSUME scan.goal = "read" PROVE AreOldest(printed, ReadCount)
  <2>1. f < LastPage /\ f \in Nat /\ LastPage \in Nat
    BY PageFor, FlashAssumption
  <2>2. scan.page = f /\ scan.addr = 0
    BY <1>1, <2>1, WalkEnds
  <2>3. Before(f) \in Nat
    BY <2>1, BeforeIs DEF LogSize
  <2>4. Done(f, 0) = Before(f)
    BY <2>3 DEF Done
  <2>5. printed = SubSeq(SavedSets, 1, Before(f)) /\ Before(f) + scan.left = ReadCount
    BY <1>1, <1>3, <2>2, <2>4 DEF PrintedInv, InScan
  <2>6. Before(f) \in 0 .. Before(f) /\ Before(f) <= ReadCount
    BY <2>3, <2>5 DEF IInv, TypeOK, Walk
  <2> DEFINE k == Before(f)
  <2>7. k \in 0 .. Before(f) /\ k = Before(f) /\ k <= ReadCount
    BY <2>6
  <2> HIDE DEF k
  <2>8. AreOldest(SubSeq(SavedSets, 1, k), ReadCount)
    BY <2>7, PrefixIsOldest
  <2>9. QED
    BY <2>5, <2>7, <2>8
<1>4. AreOldest(printed', ReadCount) <=> AreOldest(printed, ReadCount)
  BY <1>1
<1>5. QED
  BY <1>2, <1>3, <1>4 DEF ReadBackStep

\* Every step keeps what is printed the beginning of what is stored.
LEMMA PrintedStep ==
  ASSUME LogUse, LogSize, IInv, LogInv, OrderInv, PrintedInv, [Next]_vars
  PROVE  PrintedInv' /\ ReadBackStep
<1>1. PICK f \in 0 .. LastPage : LogAt(f)
  BY DEF LogInv
<1>2. CASE Boot \/ InitCommand
  <2>1. scan'.goal = "init" /\ ~InScan
    BY <1>2 DEF Boot, InitCommand, Command, Datalogger_Init, StartScan, LogUse, Paced, InScan
  <2>2. QED
    BY <2>1 DEF PrintedInv, ReadBackStep
<1>3. CASE Datalogger_ReadBackData
  <2>1. /\ scan'.page = 0 /\ scan'.addr = 0 /\ scan'.left = ReadCount /\ printed' = <<>>
        /\ ~InScan
    BY <1>3 DEF Datalogger_ReadBackData, Command, StartScan, InScan
  <2>2. Done(scan.page, scan.addr)' = 0
    <3>1. Done(scan.page, scan.addr)' = 0 * PerPage + (0 \div 2)
      BY <2>1 DEF Done, Before
    <3>2. PerPage \in Nat
      BY PageIs DEF LogSize
    <3>3. QED
      BY <3>1, <3>2
  <2>3. SubSeq(SavedSets', 1, 0) = <<>>
    BY SubSeqEmpty
  <2>4. 0 + ReadCount = ReadCount
    BY LoggerAssumption
  <2>5. QED
    BY <2>1, <2>2, <2>3, <2>4 DEF PrintedInv, ReadBackStep
<1>4. CASE \/ ScanCopy \/ ChipStep \/ UNCHANGED vars
  <2>1. scan' = scan /\ printed' = printed /\ (InScan' <=> InScan) /\ (InScan => pc' # "idle")
    BY <1>4 DEF ScanCopy, ChipStep, vars, InScan
  <2>2. InScan => mem' = mem
    <3>1. InScan => busy.op # "program"
      BY <1>1 DEF InScan, LogAt, ChipInv
    <3>2. QED
      BY <1>4, <3>1 DEF ScanCopy, ChipStep, FlashDone, vars, flashVars
  <2>3. InScan => SavedSets' = SavedSets
    BY <2>2 DEF SavedSets, Stored
  <2>4. QED
    BY <2>1, <2>3 DEF PrintedInv, ReadBackStep
<1>5. CASE ScanRead \/ ScanNextPage \/ ScanEnd
  BY <1>1, <1>5, ReadPrinted, NextPagePrinted, EndPrinted
<1>6. CASE \/ AddHeader \/ AddData \/ AddNotFull \/ AddFull
           \/ Datalogger_SaveDataToFlash \/ SaveWait
  <2>1. ~InScan /\ ~InScan'
    BY <1>6 DEF AddHeader, AddData, AddNotFull, AddFull, Datalogger_SaveDataToFlash, SaveWait,
                Command, InScan
  <2>2. QED
    BY <2>1 DEF PrintedInv, ReadBackStep
<1>7. CASE Reset \/ PlannedReset \/ PowerLoss
  <2>1. pc' = "boot"
    BY <1>7 DEF Reset, PlannedReset, PowerLoss, Restart
  <2>2. QED
    BY <2>1 DEF PrintedInv, ReadBackStep, InScan
<1>8. QED
  BY <1>2, <1>3, <1>4, <1>5, <1>6, <1>7 DEF Next, Continue

\* ReadBackData prints, whenever it returns, the data sets with the lowest
\* numbers in the array, as many as it was asked for or as there are.
THEOREM ReadsOldest == LogUse /\ LogSize /\ Spec => ReadBackIsOldest
<1>1. LogUse /\ LogSize /\ Init => IInv /\ LogInv /\ OrderInv /\ PrintedInv
  <2> SUFFICES ASSUME LogUse, LogSize, Init PROVE IInv /\ LogInv /\ OrderInv /\ PrintedInv
    OBVIOUS
  <2>1. IInv /\ LogInv /\ Log!LogInit
    BY InitInv, LogInit
  <2>2. SavedSets \o (SetsInFlight \o SetsCollected) = <<>>
    <3>1. <<>> \o <<>> = <<>>
      BY EmptySeq, ConcatEmptySeq
    <3>2. QED
      BY <2>1, <3>1 DEF Log!LogInit
  <2>3. OrderedTo(<<>>, nextSet)
    BY DEF OrderedTo
  <2>4. OrderInv
    BY <2>2, <2>3 DEF OrderInv
  <2>5. PrintedInv
    BY DEF Init, PrintedInv, InScan
  <2>6. QED
    BY <2>1, <2>4, <2>5
<1>2. ASSUME LogUse, LogSize, IInv, LogInv, OrderInv, PrintedInv, [Next]_vars
      PROVE  IInv' /\ LogInv' /\ OrderInv' /\ PrintedInv' /\ ReadBackStep
  BY <1>2, NextInv, LogStep, OrderStep, PrintedStep
<1>3. LogUse /\ LogSize => (LogUse /\ LogSize)'
  BY DEF LogUse, Paced, LogSize, Layout
<1>4. QED
  BY <1>1, <1>2, <1>3, PTL DEF Spec, ReadBackIsOldest
=============================================================================
