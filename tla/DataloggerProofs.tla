--------------------------- MODULE DataloggerProofs ---------------------------
(***************************************************************************)
(* Proofs about Datalogger, for every size of the array and of its pages,  *)
(* every option, pace and kind of restart, and any number of data sets.    *)
(***************************************************************************)
EXTENDS Datalogger, TLAPS

-----------------------------------------------------------------------------
(***************************************************************************)
(* The inductive invariant.                                                *)
(***************************************************************************)

\* Between two additions there is a place in the buffer for the next set.
AddressInv ==
  /\ pc \notin {"addData", "addFull"} => DataSetAddress <= PageSize
  /\ pc = "addData" => DataSetAddress \in 1 .. PageSize + 1

InitalizedInv ==
  /\ DataloggerInitalized = 1 => BufferInUse \in Buffers
  /\ pc \in {"addData", "addFull", "saveWait"} => DataloggerInitalized = 1
  /\ held # {} => DataloggerInitalized = 1

\* ReadBackData still has something to print while it walks.
ReadInv == InScan /\ scan.goal = "read" => scan.left >= 1

\* A transfer goes on only while the walk waits for it, into its buffer, and
\* that is not the buffer in which sets are held.
WalkInv ==
  /\ busy.op = "load" => pc = "scanRead" /\ busy.buffer = scan.buffer
  /\ InScan /\ held # {} => scan.buffer # BufferInUse

\* The sets held lie below the address of the next, which lies in the page.
HeldBelow(a) == \A h \in held : h.addr + DataSetSize <= a
PlaceInv ==
  /\ pc \notin {"addData", "addFull"} /\ held # {} =>
       HeldBelow(DataSetAddress) /\ DataSetAddress + DataSetSize <= PageSize
  /\ pc = "addData" /\ held # {} =>
       HeldBelow(DataSetAddress - 1) /\ DataSetAddress + 1 <= PageSize
  /\ pc = "addFull" /\ DataSetAddress <= PageSize => HeldBelow(DataSetAddress)

\* The header of the set being added is in the buffer.
HeaderInv == pc = "addData" => BufferRead(BufferInUse, DataSetAddress - 1) = Header

IInv ==
  /\ TypeOK
  /\ AddressInv
  /\ InitalizedInv
  /\ ReadInv
  /\ WalkInv
  /\ PlaceInv
  /\ HeaderInv
  /\ HeldSetsIntact

\* What else holds when commands keep the pace: the buffer that is being
\* programmed is not the one sets go to.
SourceInv ==
  /\ busy.op = "program" /\ pc \in {"idle", "addData", "addFull"} => busy.buffer # BufferInUse
  /\ pc = "scanFull" => busy.op = "idle"

-----------------------------------------------------------------------------
(***************************************************************************)
(* What the operators of Dataflash return and keep.                        *)
(***************************************************************************)

\* A buffer address up to one page too far falls into the buffer.
LEMMA WrapType ==
  ASSUME NEW a \in Nat, a < 2 * PageSize
  PROVE  Wrap(a) \in Address
BY FlashAssumption DEF Wrap, Address

\* The page number that Datalogger_Init takes for the full device falls into
\* the array.
LEMMA ChipPageType ==
  ASSUME NEW p \in 0 .. LastPage + 1
  PROVE  ChipPage(p) \in Pages
BY FlashAssumption DEF ChipPage, Pages

\* The chip only ever works on one of its buffers and one of its pages.
LEMMA IssueType ==
  ASSUME busy \in Operation, NEW op \in {"program", "load"},
         NEW b \in Buffers, NEW p \in 0 .. LastPage + 1, Issue(op, b, p)
  PROVE  busy' \in Operation
BY ChipPageType DEF Issue, Operation

\* A buffer read yields a cell.
LEMMA BufferReadType ==
  ASSUME FlashTypeOK, NEW b \in Buffers, NEW a \in Nat, a < 2 * PageSize
  PROVE  BufferRead(b, a) \in Cell
BY WrapType DEF FlashTypeOK, BufferRead

\* A buffer write leaves two buffers of cells.
LEMMA BufferWriteType ==
  ASSUME FlashTypeOK, NEW b \in Buffers, NEW a \in Nat, a < 2 * PageSize,
         NEW c \in Cell, BufferWrite(b, a, c)
  PROVE  buf' \in [Buffers -> [Address -> Cell]]
BY WrapType DEF FlashTypeOK, BufferWrite

\* No operation in progress is a state of the chip.
LEMMA IdleType == Idle \in Operation
BY FlashAssumption DEF Idle, Operation, Buffers, Pages

\* The chip ends its operation in a state of its type.
LEMMA DoneType ==
  ASSUME FlashTypeOK, FlashDone
  PROVE  FlashTypeOK'
BY IdleType DEF FlashTypeOK, FlashDone, Ready, Operation

\* What the buffers contain at power up are cells.
LEMMA FillType ==
  ASSUME NEW f \in [Buffers -> {PageOf(c) : c \in Fills}]
  PROVE  f \in [Buffers -> [Address -> Cell]]
<1>1. \A c \in Fills : PageOf(c) \in [Address -> Cell]
  BY LoggerAssumption DEF PageOf, Cell
<1>2. QED
  BY <1>1

\* A loss of power leaves pages and buffers of cells.
LEMMA PowerType ==
  ASSUME FlashTypeOK, FlashLosesPower(Fills)
  PROVE  FlashTypeOK'
<1>1. busy' \in Operation
  BY IdleType DEF FlashLosesPower
<1>2. buf' \in [Buffers -> [Address -> Cell]]
  BY FillType DEF FlashLosesPower
<1>3. PageOf(Erased) \in [Address -> Cell]
  BY DEF PageOf, Cell, Filler
<1>4. mem' \in [Pages -> [Address -> Cell]]
  BY <1>3 DEF FlashTypeOK, FlashLosesPower, Operation
<1>5. QED
  BY <1>1, <1>2, <1>4 DEF FlashTypeOK
-----------------------------------------------------------------------------
(***************************************************************************)
(* Every step keeps the inductive invariant.                               *)
(***************************************************************************)

\* The inductive invariant holds when the firmware first starts.
THEOREM InitInv == Init => IInv
<1> SUFFICES ASSUME Init PROVE IInv
  OBVIOUS
<1>1. FlashTypeOK
  <2>1. mem \in [Pages -> [Address -> Cell]]
    BY DEF Init, FlashInit, PageOf, Cell, Filler
  <2>2. buf \in [Buffers -> [Address -> Cell]]
    BY FillType DEF Init, FlashInit
  <2>3. QED
    BY <2>1, <2>2, IdleType DEF Init, FlashInit, FlashTypeOK
<1>2. scan \in Walk
  BY FlashAssumption DEF Init, Walk, Position, DataSetSize, Buffers
<1>3. printed \in Seq(Cell)
  BY DEF Init
<1>4. TypeOK
  BY <1>1, <1>2, <1>3, FlashAssumption, LoggerAssumption
     DEF Init, TypeOK, Position, DataSetSize
<1>5. QED
  BY <1>4, FlashAssumption
     DEF Init, FlashInit, Idle, IInv, AddressInv, InitalizedInv, ReadInv, WalkInv, PlaceInv,
         HeaderInv, HeldSetsIntact, InScan

\* The steps that leave the chip, the position and the sets held alone.
LEMMA StartScanInv ==
  ASSUME IInv, NEW goal \in {"init", "read"}, NEW count \in Nat,
         StartScan(goal, count), goal = "read" => count >= 1,
         pc \in {"boot", "idle"}, SetupByte' \in SetupBytes \cup {{}},
         printed' \in {printed, <<>>},
         UNCHANGED <<flashVars, loggerVars, historyVars>>
  PROVE  IInv'
<1> USE DEF flashVars, loggerVars, historyVars
<1>1. TempBuffer \in Buffers /\ (BufferInUse \in Buffers => TempBuffer # BufferInUse)
  BY DEF TempBuffer, Buffers
<1>2. scan' \in Walk
  BY <1>1, FlashAssumption DEF StartScan, Walk, Position, DataSetSize
<1>3. printed' \in Seq(Cell)
  <2>1. printed \in Seq(Cell)
    BY DEF IInv, TypeOK
  <2>2. <<>> \in Seq(Cell)
    OBVIOUS
  <2>3. QED
    BY <2>1, <2>2
<1>4. TypeOK'
  BY <1>2, <1>3 DEF IInv, TypeOK, FlashTypeOK, StartScan
<1>5. WalkInv' /\ ReadInv'
  BY <1>1 DEF IInv, WalkInv, ReadInv, InitalizedInv, StartScan, InScan
<1>6. HeldSetsIntact'
  BY DEF IInv, HeldSetsIntact, BufferRead
<1>7. QED
  BY <1>4, <1>5, <1>6
     DEF IInv, StartScan, AddressInv, InitalizedInv, PlaceInv, HeldBelow, HeaderInv

\* Datalogger_Init has found a place, or goes to the first page.
LEMMA PlaceLoggerInv ==
  ASSUME IInv, NEW found, PlaceLogger(found), found # Full =>
           found.page \in 0 .. LastPage + 1 /\ found.addr \in 0 .. PageSize,
         busy.op # "load", pc' = "idle", held' = {},
         SetupByte' \in SetupBytes \cup {{}},
         UNCHANGED <<flashVars, scan, printed, nextSet, restarts>>
  PROVE  IInv'
<1> USE DEF flashVars
<1>1. /\ DataSetAddress' \in 0 .. PageSize
      /\ DataPageAddress' \in 0 .. LastPage + 1
      /\ BufferInUse' = 1
      /\ DataloggerInitalized' = 1
  BY FlashAssumption DEF PlaceLogger
<1>2. TypeOK'
  BY <1>1, FlashAssumption DEF IInv, TypeOK, FlashTypeOK, Position, DataSetSize
<1>3. QED
  BY <1>1, <1>2
     DEF IInv, AddressInv, InitalizedInv, ReadInv, WalkInv, PlaceInv, HeldBelow, HeaderInv,
         HeldSetsIntact, InScan, Buffers

\* Datalogger_Init starts the walk or begins at the first page.
LEMMA Datalogger_InitInv ==
  ASSUME IInv, Datalogger_Init, pc \in {"boot", "idle"}
  PROVE  IInv'
<1>1. CASE "APPEND" \in SetupByte'
  BY <1>1, StartScanInv DEF Datalogger_Init, historyVars
<1>2. CASE "APPEND" \notin SetupByte'
  <2> DEFINE first == [page |-> 0, addr |-> 0]
  <2>1. first # Full => first.page \in 0 .. LastPage + 1 /\ first.addr \in 0 .. PageSize
    BY FlashAssumption
  <2>2. busy.op # "load"
    BY DEF IInv, WalkInv
  <2>3. QED
    BY <1>2, <2>1, <2>2, PlaceLoggerInv DEF Datalogger_Init
<1>3. QED
  BY <1>1, <1>2

\* ScanCopy asks for a page; the transfer goes to the walk's own buffer.
LEMMA ScanCopyInv == IInv /\ ScanCopy => IInv'
<1> SUFFICES ASSUME IInv, ScanCopy PROVE IInv'
  OBVIOUS
<1> USE DEF loggerVars, historyVars
<1>1. busy' \in Operation
  BY IssueType DEF IInv, TypeOK, Walk, FlashTypeOK, ScanCopy, CopyPageToBuffer
<1>2. TypeOK'
  <2>1. FlashTypeOK'
    BY <1>1 DEF IInv, TypeOK, FlashTypeOK, ScanCopy
  <2>2. QED
    BY <2>1 DEF IInv, TypeOK, ScanCopy
<1>3. WalkInv'
  BY DEF IInv, WalkInv, ScanCopy, CopyPageToBuffer, Issue, Ready, InScan
<1>4. HeldSetsIntact'
  BY DEF IInv, HeldSetsIntact, BufferRead, ScanCopy
<1>5. QED
  BY <1>2, <1>3, <1>4
     DEF IInv, ScanCopy, AddressInv, InitalizedInv, ReadInv, PlaceInv, HeldBelow, HeaderInv,
         InScan

\* The size a header position decodes to.
LEMMA SizeFieldType == \A c : SizeField(c) \in 0 .. PageSize + DataSetSize
BY FlashAssumption, LoggerAssumption DEF SizeField, DataSetSize

\* ScanRead moves on by a data set, or finds the end, inside the page.
LEMMA ScanReadInv == IInv /\ ScanRead => IInv'
<1> SUFFICES ASSUME IInv, ScanRead PROVE IInv'
  OBVIOUS
<1> USE DEF flashVars, loggerVars, historyVars
<1>1. HeldSetsIntact'
  BY DEF IInv, HeldSetsIntact, BufferRead, ScanRead
<1>2. busy.op # "load" /\ scan'.buffer = scan.buffer /\ scan'.goal = scan.goal
  BY DEF ScanRead, Ready, IInv, TypeOK, Walk
<1> DEFINE cell    == BufferRead(scan.buffer, scan.addr)
           reading == scan.goal = "read" /\ IsHeader(cell)
           more    == ~(reading /\ Enough)
           found   == [scan EXCEPT
                         !.size = SizeField(cell),
                         !.addr = IF IsHeader(cell) /\ more THEN @ + SizeField(cell) ELSE @,
                         !.left = IF reading THEN @ - 1 ELSE @]
<1>a. scan' = IF scan.addr > PageSize THEN scan ELSE found
  BY DEF ScanRead
<1>b. scan \in Walk
  BY DEF IInv, TypeOK
<1>c. reading => scan.left >= 1
  BY DEF IInv, ReadInv, InScan, ScanRead
<1>d. IsHeader(cell) => SizeField(cell) = DataSetSize
  BY DEF IsHeader, SizeField, Header, NullHeader, Erased
<1>e. SizeField(cell) \in Nat
  BY SizeFieldType, FlashAssumption DEF DataSetSize
<1>3. scan' \in Walk
  <2>1. CASE scan.addr > PageSize
    BY <2>1, <1>a, <1>b
  <2>2. CASE scan.addr <= PageSize
    <3> DEFINE addr == IF IsHeader(cell) /\ more THEN scan.addr + SizeField(cell) ELSE scan.addr
               left == IF reading THEN scan.left - 1 ELSE scan.left
    <3>1. addr \in Position
      BY <2>2, <1>b, <1>d, FlashAssumption DEF Walk, Position, DataSetSize
    <3>2. left \in Nat
      BY <1>b, <1>c DEF Walk
    <3>3. scan' = [scan EXCEPT !.size = SizeField(cell), !.addr = addr, !.left = left]
      BY <2>2, <1>a, <1>b, FlashAssumption DEF Walk, Position, DataSetSize
    <3> HIDE DEF cell, addr, left
    <3>4. QED
      BY <3>1, <3>2, <3>3, <1>b, <1>e DEF Walk
  <2>3. QED
    BY <2>1, <2>2, <1>b, FlashAssumption DEF Walk, Position, DataSetSize
<1>4. printed' \in Seq(Cell)
  <2>1. CASE scan.addr > PageSize
    BY <2>1 DEF IInv, TypeOK, ScanRead
  <2>2. CASE scan.addr <= PageSize
    <3>1. BufferRead(scan.buffer, scan.addr + 1) \in Cell
      BY <2>2, BufferReadType, FlashAssumption DEF IInv, TypeOK, Walk, Position, DataSetSize
    <3>2. printed \in Seq(Cell)
      BY DEF IInv, TypeOK
    <3>3. Append(printed, BufferRead(scan.buffer, scan.addr + 1)) \in Seq(Cell)
      BY <3>1, <3>2
    <3>4. QED
      BY <2>2, <3>2, <3>3 DEF ScanRead, IInv, TypeOK, Walk, Position, DataSetSize
  <2>3. QED
    BY <2>1, <2>2, FlashAssumption DEF IInv, TypeOK, Walk, Position, DataSetSize
<1>5. pc' \in {"idle", "scanRead", "scanFull"}
  BY DEF ScanRead
<1>6. TypeOK'
  BY <1>3, <1>4, <1>5 DEF IInv, TypeOK, FlashTypeOK, ScanRead
<1>7. ReadInv'
  <2> SUFFICES ASSUME pc' # "idle", scan.goal = "read" PROVE scan'.left >= 1
    BY <1>2, <1>5 DEF ReadInv, InScan
  <2>1. scan.left >= 1
    BY DEF IInv, ReadInv, InScan, ScanRead
  <2>2. CASE scan.addr > PageSize
    BY <2>1, <2>2, <1>a
  <2>3. CASE ~(scan.addr > PageSize)
    <3>1. more
      BY <2>3 DEF ScanRead
    <3>2. scan'.left = IF reading THEN scan.left - 1 ELSE scan.left
      BY <2>3, <1>a, <1>b DEF Walk
    <3>3. QED
      BY <2>1, <3>1, <3>2, <1>b DEF Enough, Walk
  <2>4. QED
    BY <2>2, <2>3
<1>8. WalkInv'
  BY <1>2 DEF IInv, WalkInv, ScanRead, InScan
<1>9. QED
  BY <1>1, <1>5, <1>6, <1>7, <1>8
     DEF IInv, ScanRead, AddressInv, InitalizedInv, PlaceInv, HeldBelow, HeaderInv

\* ScanNextPage moves on to a page of the array.
LEMMA ScanNextPageInv == IInv /\ ScanNextPage => IInv'
<1> SUFFICES ASSUME IInv, ScanNextPage PROVE IInv'
  OBVIOUS
<1> USE DEF flashVars, loggerVars, historyVars
<1>1. HeldSetsIntact'
  BY DEF IInv, HeldSetsIntact, BufferRead, ScanNextPage
<1>2. TypeOK'
  <2>1. scan \in Walk /\ scan.page + 1 \in 0 .. LastPage + 1 /\ 0 \in Position
    BY FlashAssumption DEF IInv, TypeOK, ScanNextPage, Walk, Position, DataSetSize
  <2>2. scan' \in Walk
    BY <2>1 DEF ScanNextPage, Walk
  <2>3. QED
    BY <2>2 DEF IInv, TypeOK, FlashTypeOK, ScanNextPage
<1>3. WalkInv' /\ ReadInv'
  BY DEF IInv, TypeOK, Walk, WalkInv, ReadInv, ScanNextPage, InScan
<1>4. QED
  BY <1>1, <1>2, <1>3
     DEF IInv, ScanNextPage, AddressInv, InitalizedInv, PlaceInv, HeldBelow, HeaderInv

\* ScanEnd leaves FindLastDataSet with a place, with no logger running or,
\* for ReadBackData, with everything as it was.
LEMMA ScanEndInv == IInv /\ ScanEnd => IInv'
<1> SUFFICES ASSUME IInv, ScanEnd PROVE IInv'
  OBVIOUS
<1> DEFINE full  == scan.addr + scan.size > PageSize
           p     == IF full THEN LastPage + 1 ELSE scan.page
           a     == IF full THEN 0 ELSE scan.addr
           found == FoundPlace(p, a)
           stop  == found = Full /\ "RESTART_IF_FULL" \notin SetupByte
<1>1. busy.op # "load" /\ pc = "scanFull" /\ pc' = "idle"
  BY DEF IInv, WalkInv, ScanEnd
<1>2. CASE scan.goal = "read"
  <2>1. UNCHANGED <<flashVars, loggerVars, historyVars, SetupByte, scan, printed>>
    BY <1>2 DEF ScanEnd, historyVars
  <2>2. TypeOK'
    BY <1>1, <2>1 DEF IInv, TypeOK, FlashTypeOK, flashVars, loggerVars, historyVars
  <2>3. HeldSetsIntact'
    BY <2>1 DEF IInv, HeldSetsIntact, BufferRead, flashVars, loggerVars, historyVars
  <2>4. QED
    BY <1>1, <2>1, <2>2, <2>3
       DEF IInv, AddressInv, InitalizedInv, ReadInv, WalkInv, PlaceInv, HeldBelow, HeaderInv,
           InScan, flashVars, loggerVars, historyVars
<1>3. CASE scan.goal # "read" /\ stop
  <2>1. /\ UNCHANGED <<flashVars, SetupByte, scan, printed, nextSet, restarts>>
        /\ UNCHANGED <<DataSetAddress, DataPageAddress, BufferInUse>>
        /\ held' = {} /\ DataloggerInitalized' = 0
    BY <1>3 DEF ScanEnd
  <2>2. TypeOK'
    BY <1>1, <2>1 DEF IInv, TypeOK, FlashTypeOK, flashVars
  <2>3. QED
    BY <1>1, <2>1, <2>2
       DEF IInv, AddressInv, InitalizedInv, ReadInv, WalkInv, PlaceInv, HeldBelow, HeaderInv,
           HeldSetsIntact, InScan, flashVars
<1>4. CASE scan.goal # "read" /\ ~stop
  <2>1. found # Full => found.page \in 0 .. LastPage + 1 /\ found.addr \in 0 .. PageSize
    BY FlashAssumption DEF IInv, TypeOK, Walk, Position, DataSetSize, FoundPlace
  <2>2. PlaceLogger(found) /\ held' = {}
    BY <1>4 DEF ScanEnd
  <2>3. /\ SetupByte' \in SetupBytes \cup {{}}
        /\ UNCHANGED <<flashVars, scan, printed, nextSet, restarts>>
    BY DEF ScanEnd, IInv, TypeOK
  <2> HIDE DEF found
  <2>4. QED
    BY <1>1, <2>1, <2>2, <2>3, PlaceLoggerInv
<1>5. QED
  BY <1>2, <1>3, <1>4

\* AddHeader writes behind the last set held.
LEMMA AddHeaderInv == IInv /\ AddHeader => IInv'
<1> SUFFICES ASSUME IInv, AddHeader PROVE IInv'
  OBVIOUS
<1>1. /\ pc = "idle" /\ pc' = "addData"
      /\ DataloggerInitalized = 1 /\ BufferInUse \in Buffers
      /\ DataSetAddress \in 0 .. PageSize /\ DataSetAddress' = DataSetAddress + 1
      /\ DataSetAddress < 2 * PageSize
      /\ buf \in [Buffers -> [Address -> Cell]]
      /\ held \subseteq HeldSet
      /\ UNCHANGED <<mem, busy, DataPageAddress, BufferInUse, DataloggerInitalized,
                     SetupByte, scan, printed, nextSet, held, restarts>>
  BY FlashAssumption
     DEF AddHeader, Command, IInv, TypeOK, FlashTypeOK, AddressInv, InitalizedInv, Position,
         DataSetSize, historyVars
<1>2. Wrap(DataSetAddress) \in Address
  BY <1>1, WrapType
<1>3. buf' = [buf EXCEPT ![BufferInUse][Wrap(DataSetAddress)] = Header]
  BY DEF AddHeader, BufferWrite
<1>4. TypeOK'
  <2>1. buf' \in [Buffers -> [Address -> Cell]]
    BY <1>1, <1>2, <1>3 DEF Cell
  <2>2. DataSetAddress' \in Position
    BY <1>1, FlashAssumption DEF Position, DataSetSize
  <2>3. QED
    BY <1>1, <2>1, <2>2 DEF IInv, TypeOK, FlashTypeOK
<1>5. \A h \in held : h.addr + DataSetSize <= DataSetAddress /\ DataSetAddress + 2 <= PageSize
  BY <1>1 DEF IInv, PlaceInv, HeldBelow, DataSetSize
<1>6. HeldSetsIntact'
  <2> SUFFICES ASSUME NEW h \in held
               PROVE  BufferRead(BufferInUse, h.addr)' = BufferRead(BufferInUse, h.addr)
                      /\ BufferRead(BufferInUse, h.addr + 1)' = BufferRead(BufferInUse, h.addr + 1)
    BY <1>1 DEF IInv, HeldSetsIntact, BufferRead
  <2>1. h.addr \in Nat /\ h.addr + 2 <= DataSetAddress /\ DataSetAddress < PageSize
    BY <1>1, <1>5, FlashAssumption DEF HeldSet, Address, DataSetSize
  <2>2. /\ Wrap(h.addr) \in Address /\ Wrap(h.addr + 1) \in Address
        /\ Wrap(h.addr) # Wrap(DataSetAddress) /\ Wrap(h.addr + 1) # Wrap(DataSetAddress)
    BY <1>1, <2>1, FlashAssumption DEF Wrap, Address
  <2>3. QED
    BY <1>1, <1>2, <1>3, <2>2 DEF BufferRead
<1>7. HeaderInv'
  <2>1. buf'[BufferInUse'][Wrap(DataSetAddress' - 1)] = Header
    <3>1. DataSetAddress' - 1 = DataSetAddress
      BY <1>1
    <3>2. QED
      BY <1>1, <1>2, <1>3, <3>1
  <2>2. QED
    BY <2>1 DEF HeaderInv, BufferRead
<1>8. PlaceInv'
  BY <1>1, <1>5 DEF PlaceInv, HeldBelow
<1>9. AddressInv' /\ InitalizedInv' /\ ReadInv' /\ WalkInv'
  BY <1>1, FlashAssumption
     DEF IInv, AddressInv, InitalizedInv, ReadInv, WalkInv, InScan
<1>10. QED
  BY <1>4, <1>6, <1>7, <1>8, <1>9 DEF IInv

\* AddData writes behind its header, which completes one more set held.
LEMMA AddDataInv == IInv /\ AddData => IInv'
<1> SUFFICES ASSUME IInv, AddData PROVE IInv'
  OBVIOUS
<1> DEFINE at    == Wrap(DataSetAddress)
           first == Wrap(DataSetAddress - 1)
           added == [addr |-> first, set |-> nextSet]
<1>1. /\ pc = "addData" /\ pc' = "addFull"
      /\ DataloggerInitalized = 1 /\ BufferInUse \in Buffers
      /\ DataSetAddress \in 1 .. PageSize + 1 /\ DataSetAddress' = DataSetAddress + 1
      /\ buf \in [Buffers -> [Address -> Cell]]
      /\ nextSet \in Nat \ {0} /\ nextSet' = nextSet + 1
      /\ held \subseteq HeldSet /\ held' = held \cup {added}
      /\ UNCHANGED <<mem, busy, DataPageAddress, BufferInUse, DataloggerInitalized,
                     SetupByte, scan, printed, restarts>>
  BY DEF AddData, IInv, TypeOK, FlashTypeOK, AddressInv, InitalizedInv
<1>2. at \in Address /\ first \in Address /\ at # first /\ Wrap(first) = first /\ Wrap(first + 1) = at
  BY <1>1, FlashAssumption DEF Wrap, Address
<1>3. buf' = [buf EXCEPT ![BufferInUse][at] = nextSet]
  BY DEF AddData, BufferWrite
<1>4. buf[BufferInUse][first] = Header
  BY <1>1 DEF IInv, HeaderInv, BufferRead
<1> HIDE DEF at, first
<1>5. TypeOK'
  <2>1. buf' \in [Buffers -> [Address -> Cell]]
    BY <1>1, <1>2, <1>3 DEF Cell
  <2>2. DataSetAddress' \in Position
    BY <1>1, FlashAssumption DEF Position, DataSetSize
  <2>3. held' \subseteq HeldSet
    BY <1>1, <1>2 DEF HeldSet
  <2>4. QED
    BY <1>1, <2>1, <2>2, <2>3 DEF IInv, TypeOK, FlashTypeOK
<1>6. \A h \in held : h.addr + 2 <= DataSetAddress - 1 /\ DataSetAddress + 1 <= PageSize
  BY <1>1 DEF IInv, PlaceInv, HeldBelow, DataSetSize
<1>7. HeldSetsIntact'
  <2>1. ASSUME NEW h \in held
        PROVE  buf'[BufferInUse][Wrap(h.addr)] = Header /\ buf'[BufferInUse][Wrap(h.addr + 1)] = h.set
    <3>1. h.addr \in Nat /\ h.addr + 2 <= DataSetAddress - 1 /\ DataSetAddress < PageSize
      BY <1>1, <1>6, FlashAssumption DEF HeldSet, Address
    <3>2. /\ Wrap(h.addr) \in Address /\ Wrap(h.addr + 1) \in Address
          /\ Wrap(h.addr) # at /\ Wrap(h.addr + 1) # at
      BY <1>1, <3>1, FlashAssumption DEF Wrap, Address, at
    <3>3. buf[BufferInUse][Wrap(h.addr)] = Header /\ buf[BufferInUse][Wrap(h.addr + 1)] = h.set
      BY DEF IInv, HeldSetsIntact, BufferRead
    <3>4. QED
      BY <1>1, <1>2, <1>3, <3>2, <3>3
  <2>2. buf'[BufferInUse][first] = Header /\ buf'[BufferInUse][at] = nextSet
    BY <1>1, <1>2, <1>3, <1>4
  <2>3. QED
    BY <1>1, <1>2, <2>1, <2>2 DEF HeldSetsIntact, BufferRead
<1>8. PlaceInv'
  <2> SUFFICES ASSUME DataSetAddress' <= PageSize, NEW h \in held'
               PROVE  h.addr + 2 <= DataSetAddress'
    BY <1>1 DEF PlaceInv, HeldBelow, DataSetSize
  <2>1. CASE h \in held
    BY <1>1, <1>6, <2>1, FlashAssumption DEF HeldSet, Address
  <2>2. CASE h = added
    <3>1. first = DataSetAddress - 1
      BY <1>1, FlashAssumption DEF first, Wrap
    <3>2. QED
      BY <1>1, <2>2, <3>1, FlashAssumption
  <2>3. QED
    BY <1>1, <2>1, <2>2
<1>9. AddressInv' /\ InitalizedInv' /\ ReadInv' /\ WalkInv' /\ HeaderInv'
  BY <1>1 DEF IInv, AddressInv, InitalizedInv, ReadInv, WalkInv, HeaderInv, InScan
<1>10. QED
  BY <1>5, <1>7, <1>8, <1>9 DEF IInv

\* AddNotFull leaves a page with a place for the next set.
LEMMA AddNotFullInv == IInv /\ AddNotFull => IInv'
<1> SUFFICES ASSUME IInv, AddNotFull PROVE IInv'
  OBVIOUS
<1> USE DEF AddNotFull, flashVars, loggerVars, historyVars
<1>1. TypeOK'
  BY DEF IInv, TypeOK, FlashTypeOK
<1>2. HeldSetsIntact'
  BY DEF IInv, HeldSetsIntact, BufferRead
<1>3. DataSetAddress \in Nat /\ DataSetAddress + DataSetSize <= PageSize
  BY FlashAssumption DEF PageIsFull, IInv, TypeOK, Position, DataSetSize
<1>4. PlaceInv' /\ AddressInv'
  BY <1>3, FlashAssumption DEF IInv, PlaceInv, AddressInv, HeldBelow, DataSetSize
<1>5. QED
  BY <1>1, <1>2, <1>4 DEF IInv, InitalizedInv, ReadInv, WalkInv, HeaderInv, InScan

\* AddFull hands the buffer over and starts an empty one.
LEMMA AddFullInv == IInv /\ AddFull => IInv'
<1> SUFFICES ASSUME IInv, AddFull PROVE IInv'
  OBVIOUS
<1>1. DataloggerInitalized = 1 /\ BufferInUse \in Buffers /\ DataPageAddress \in 0 .. LastPage + 1
  BY DEF IInv, TypeOK, InitalizedInv, AddFull
<1>2. busy' \in Operation
  BY <1>1, IssueType DEF IInv, TypeOK, FlashTypeOK, AddFull, CopyBufferToPage
<1>3. BufferInUse' \in Buffers /\ DataPageAddress' \in 0 .. LastPage + 1
  BY <1>1, FlashAssumption DEF AddFull, SwitchedBuffer, NextDataPage, Buffers
<1>4. TypeOK'
  BY <1>2, <1>3, FlashAssumption
     DEF IInv, TypeOK, FlashTypeOK, AddFull, Position, DataSetSize, Buffers
<1>5. WalkInv'
  BY DEF IInv, WalkInv, AddFull, CopyBufferToPage, Issue, InScan
<1>6. QED
  BY <1>1, <1>3, <1>4, <1>5, FlashAssumption
     DEF IInv, AddFull, AddressInv, InitalizedInv, ReadInv, PlaceInv, HeaderInv,
         HeldSetsIntact, InScan

\* SaveDataToFlash programs the page and keeps the buffer.
LEMMA SaveInv == IInv /\ Datalogger_SaveDataToFlash => IInv'
<1> SUFFICES ASSUME IInv, Datalogger_SaveDataToFlash PROVE IInv'
  OBVIOUS
<1> USE DEF Datalogger_SaveDataToFlash, Command, loggerVars, historyVars
<1>1. BufferInUse \in Buffers /\ DataPageAddress \in 0 .. LastPage + 1
  BY DEF IInv, TypeOK, InitalizedInv
<1>2. busy' \in Operation
  BY <1>1, IssueType DEF IInv, TypeOK, FlashTypeOK, CopyBufferToPage
<1>3. TypeOK'
  BY <1>2 DEF IInv, TypeOK, FlashTypeOK
<1>4. WalkInv'
  BY DEF IInv, WalkInv, CopyBufferToPage, Issue, InScan
<1>5. HeldSetsIntact'
  BY DEF IInv, HeldSetsIntact, BufferRead
<1>6. QED
  BY <1>3, <1>4, <1>5
     DEF IInv, AddressInv, InitalizedInv, ReadInv, PlaceInv, HeldBelow, HeaderInv, InScan

\* SaveWait changes nothing but the place of the main thread.
LEMMA SaveWaitInv == IInv /\ SaveWait => IInv'
<1> SUFFICES ASSUME IInv, SaveWait PROVE IInv'
  OBVIOUS
<1> USE DEF SaveWait, flashVars, loggerVars, historyVars
<1>1. TypeOK'
  BY DEF IInv, TypeOK, FlashTypeOK
<1>2. HeldSetsIntact'
  BY DEF IInv, HeldSetsIntact, BufferRead
<1>3. QED
  BY <1>1, <1>2
     DEF IInv, AddressInv, InitalizedInv, ReadInv, WalkInv, PlaceInv, HeldBelow, HeaderInv, InScan

\* ReadBackData begins a walk that has something to print.
LEMMA ReadBackInv == IInv /\ Datalogger_ReadBackData => IInv'
<1> SUFFICES ASSUME IInv, Datalogger_ReadBackData PROVE IInv'
  OBVIOUS
<1>1. pc = "idle" /\ StartScan("read", ReadCount) /\ printed' = <<>>
  BY DEF Datalogger_ReadBackData, Command
<1>2. SetupByte' \in SetupBytes \cup {{}} /\ UNCHANGED <<flashVars, loggerVars, historyVars>>
  BY DEF Datalogger_ReadBackData, IInv, TypeOK
<1>3. ReadCount \in Nat /\ ReadCount >= 1
  BY LoggerAssumption
<1>4. QED
  BY <1>1, <1>2, <1>3, StartScanInv

\* The end of a program or transfer leaves the collecting buffer alone.
LEMMA ChipStepInv == IInv /\ ChipStep => IInv'
<1> SUFFICES ASSUME IInv, ChipStep PROVE IInv'
  OBVIOUS
<1> USE DEF ChipStep, loggerVars, historyVars
<1>1. TypeOK'
  BY DoneType DEF IInv, TypeOK
<1>2. HeldSetsIntact'
  <2>1. CASE busy.op = "program"
    BY <2>1 DEF IInv, HeldSetsIntact, BufferRead, FlashDone
  <2>2. CASE busy.op # "program"
    <3> SUFFICES ASSUME NEW h \in held PROVE buf'[BufferInUse] = buf[BufferInUse]
      BY DEF IInv, HeldSetsIntact, BufferRead
    <3>1. busy.op = "load" /\ buf' = [buf EXCEPT ![busy.buffer] = mem[busy.page]]
      BY <2>2 DEF FlashDone, Ready, IInv, TypeOK, FlashTypeOK, Operation
    <3>2. busy.buffer # BufferInUse
      BY <3>1 DEF IInv, WalkInv, InScan
    <3>3. QED
      BY <3>1, <3>2 DEF IInv, TypeOK, FlashTypeOK
  <2>3. QED
    BY <2>1, <2>2
<1>3. HeaderInv'
  <2> SUFFICES ASSUME pc = "addData" PROVE buf' = buf
    BY DEF IInv, HeaderInv, BufferRead
  <2>1. busy.op = "program"
    BY DEF IInv, WalkInv, TypeOK, FlashTypeOK, Operation, FlashDone, Ready
  <2>2. QED
    BY <2>1 DEF FlashDone
<1>4. WalkInv'
  BY DEF IInv, WalkInv, FlashDone, Idle, InScan
<1>5. QED
  BY <1>1, <1>2, <1>3, <1>4
     DEF IInv, AddressInv, InitalizedInv, ReadInv, PlaceInv, HeldBelow, InScan

\* A restart of any kind: the chip does what it does, the globals are cleared.
LEMMA RestartInv ==
  ASSUME IInv, FlashTypeOK', busy'.op # "load", Restart
  PROVE  IInv'
<1>1. restarts' \in 0 .. MaxRestarts
  BY LoggerAssumption DEF Restart, IInv, TypeOK
<1>2. TypeOK'
  BY <1>1, FlashAssumption DEF IInv, TypeOK, Restart, Position, DataSetSize
<1>3. QED
  BY <1>2, FlashAssumption
     DEF IInv, Restart, AddressInv, InitalizedInv, ReadInv, WalkInv, PlaceInv, HeaderInv,
         HeldSetsIntact, InScan

\* Each of the three restarts is such a restart.
LEMMA ResetInv == IInv /\ (Reset \/ PlannedReset \/ PowerLoss) => IInv'
<1> SUFFICES ASSUME IInv, Reset \/ PlannedReset \/ PowerLoss PROVE IInv'
  OBVIOUS
<1>1. FlashTypeOK
  BY DEF IInv, TypeOK
<1>2. CASE FlashDone /\ Restart
  BY <1>1, <1>2, DoneType, RestartInv DEF FlashDone, Idle
<1>3. CASE busy.op # "load" /\ UNCHANGED flashVars /\ Restart
  BY <1>1, <1>3, RestartInv DEF FlashTypeOK, flashVars
<1>4. CASE FlashLosesPower(Fills) /\ Restart
  BY <1>1, <1>4, PowerType, RestartInv DEF FlashLosesPower, Idle
<1>5. QED
  BY <1>2, <1>3, <1>4 DEF Reset, PlannedReset, PowerLoss, FlashKeepsPower, Ready

\* A step that changes nothing.
LEMMA StutterInv == IInv /\ UNCHANGED vars => IInv'
<1> SUFFICES ASSUME IInv, UNCHANGED vars PROVE IInv'
  OBVIOUS
<1>1. /\ UNCHANGED <<mem, buf, busy, DataSetAddress, DataPageAddress, BufferInUse>>
      /\ UNCHANGED <<DataloggerInitalized, SetupByte, pc, scan, printed>>
      /\ UNCHANGED <<nextSet, held, restarts>>
  BY DEF vars, flashVars, loggerVars, historyVars
<1>2. TypeOK'
  BY <1>1 DEF IInv, TypeOK, FlashTypeOK
<1>3. HeldSetsIntact' /\ HeaderInv'
  BY <1>1 DEF IInv, HeldSetsIntact, HeaderInv, BufferRead
<1>4. AddressInv' /\ InitalizedInv' /\ ReadInv' /\ WalkInv'
  BY <1>1 DEF IInv, AddressInv, InitalizedInv, ReadInv, WalkInv, InScan
<1>5. PlaceInv'
  BY <1>1 DEF IInv, PlaceInv, HeldBelow
<1>6. QED
  BY <1>2, <1>3, <1>4, <1>5 DEF IInv

\* The invariant is inductive: every step of the logger, the chip and the
\* environment keeps it.
THEOREM NextInv == IInv /\ [Next]_vars => IInv'
<1> SUFFICES ASSUME IInv, [Next]_vars PROVE IInv'
  OBVIOUS
<1>1. CASE Boot
  BY <1>1, Datalogger_InitInv DEF Boot
<1>2. CASE InitCommand
  BY <1>2, Datalogger_InitInv DEF InitCommand, Command
<1>3. CASE ScanCopy
  BY <1>3, ScanCopyInv
<1>4. CASE ScanRead
  BY <1>4, ScanReadInv
<1>5. CASE ScanNextPage
  BY <1>5, ScanNextPageInv
<1>6. CASE ScanEnd
  BY <1>6, ScanEndInv
<1>7. CASE AddHeader
  BY <1>7, AddHeaderInv
<1>8. CASE AddData
  BY <1>8, AddDataInv
<1>9. CASE AddNotFull
  BY <1>9, AddNotFullInv
<1>10. CASE AddFull
  BY <1>10, AddFullInv
<1>11. CASE Datalogger_SaveDataToFlash
  BY <1>11, SaveInv
<1>12. CASE SaveWait
  BY <1>12, SaveWaitInv
<1>13. CASE Datalogger_ReadBackData
  BY <1>13, ReadBackInv
<1>14. CASE ChipStep
  BY <1>14, ChipStepInv
<1>15. CASE Reset \/ PlannedReset \/ PowerLoss
  BY <1>15, ResetInv
<1>16. CASE UNCHANGED vars
  BY <1>16, StutterInv
<1>17. QED
  BY <1>1, <1>2, <1>3, <1>4, <1>5, <1>6, <1>7, <1>8, <1>9, <1>10, <1>11, <1>12, <1>13,
     <1>14, <1>15, <1>16 DEF Next, Continue

\* The inductive invariant holds in every state of the logger.
THEOREM Invariance == Spec => []IInv
<1>1. QED
  BY InitInv, NextInv, PTL DEF Spec

-----------------------------------------------------------------------------
(***************************************************************************)
(* The theorems.                                                           *)
(***************************************************************************)

\* Every variable keeps its type: among other things the data set address
\* never runs more than one data set past the page, and every page handed
\* to the chip is one it has.
THEOREM TypeCorrect == Spec => []TypeOK
<1>1. IInv => TypeOK
  BY DEF IInv
<1>2. QED
  BY Invariance, <1>1, PTL

\* The data sets that AddDataSet has put into the buffer stay there, whole
\* and at their addresses, until the page is handed to the chip: for every
\* array, page size, setup option, pace of the commands and restart.
THEOREM HeldSets == Spec => []HeldSetsIntact
<1>1. IInv => HeldSetsIntact
  BY DEF IInv
<1>2. QED
  BY Invariance, <1>1, PTL

-----------------------------------------------------------------------------
(***************************************************************************)
(* The buffer being programmed keeps its contents, under the conditions    *)
(* the firmware is used in: it boots with APPEND, and the commands leave   *)
(* the chip the time to end a program.                                     *)
(***************************************************************************)

\* The conditions.
Paced == Pace = "page" /\ \A s \in SetupBytes : "APPEND" \in s

\* No program is in progress when the firmware first starts.
LEMMA SourceInit == Init => SourceInv
BY DEF Init, FlashInit, Idle, SourceInv

\* A step keeps the buffer being programmed apart from the one in use.
LEMMA SourceNext ==
  ASSUME Paced, IInv, SourceInv, [Next]_vars
  PROVE  SourceInv'
<1> USE DEF SourceInv
<1>1. CASE Boot \/ InitCommand
  BY <1>1 DEF Paced, Boot, InitCommand, Datalogger_Init, StartScan
<1>2. CASE ScanCopy
  BY <1>2 DEF ScanCopy
<1>3. CASE ScanRead
  BY <1>3 DEF ScanRead, Ready, flashVars
<1>4. CASE ScanNextPage
  BY <1>4 DEF ScanNextPage
<1>5. CASE ScanEnd
  BY <1>5 DEF ScanEnd, flashVars
<1>6. CASE AddHeader \/ AddData \/ AddNotFull
  BY <1>6 DEF AddHeader, AddData, AddNotFull, Command, flashVars, loggerVars
<1>7. CASE AddFull
  <2>1. BufferInUse \in Buffers
    BY <1>7 DEF IInv, InitalizedInv, AddFull
  <2>2. busy'.buffer = BufferInUse /\ busy'.op = "program" /\ BufferInUse' # BufferInUse
    BY <1>7, <2>1
       DEF Paced, AddFull, CopyBufferToPage, Issue, SwitchedBuffer, Buffers
  <2>3. QED
    BY <1>7, <2>2 DEF AddFull
<1>8. CASE Datalogger_SaveDataToFlash
  BY <1>8 DEF Datalogger_SaveDataToFlash
<1>9. CASE SaveWait
  BY <1>9 DEF SaveWait, Ready, flashVars
<1>10. CASE Datalogger_ReadBackData
  BY <1>10 DEF Datalogger_ReadBackData, StartScan
<1>11. CASE ChipStep
  BY <1>11 DEF ChipStep, FlashDone, Idle
<1>12. CASE Reset \/ PlannedReset \/ PowerLoss
  BY <1>12 DEF Reset, PlannedReset, PowerLoss, Restart
<1>13. CASE UNCHANGED vars
  BY <1>13 DEF vars, flashVars, loggerVars
<1>14. QED
  BY <1>1, <1>2, <1>3, <1>4, <1>5, <1>6, <1>7, <1>8, <1>9, <1>10, <1>11, <1>12, <1>13
     DEF Next, Continue

\* A step that begins in the two invariants does not write the buffer that
\* is being programmed.
LEMMA SourceStep ==
  ASSUME Paced, IInv, SourceInv, [Next]_vars
  PROVE  SourceKept
<1> SUFFICES ASSUME busy.op = "program", busy' = busy
             PROVE  buf'[busy.buffer] = buf[busy.buffer]
  BY DEF SourceKept
<1>1. CASE AddHeader
  BY <1>1 DEF AddHeader, Command, SourceInv, BufferWrite, IInv, TypeOK, FlashTypeOK, Operation
<1>2. CASE AddData
  BY <1>2 DEF AddData, SourceInv, BufferWrite, IInv, TypeOK, FlashTypeOK, Operation
<1>3. CASE ~(AddHeader \/ AddData)
  <2>1. CASE Next /\ ~(Reset \/ PlannedReset \/ PowerLoss)
    BY <1>3, <2>1
       DEF Next, Continue, Boot, InitCommand, Datalogger_Init, ScanCopy, ScanRead, ScanNextPage,
           ScanEnd, AddNotFull, AddFull, Datalogger_SaveDataToFlash, SaveWait,
           Datalogger_ReadBackData, ChipStep, FlashDone, flashVars
  <2>2. CASE Reset \/ PlannedReset \/ PowerLoss
    BY <2>2 DEF Reset, PlannedReset, PowerLoss, FlashKeepsPower, FlashDone, FlashLosesPower,
                Idle, flashVars
  <2>3. CASE UNCHANGED vars
    BY <2>3 DEF vars, flashVars
  <2>4. QED
    BY <2>1, <2>2, <2>3
<1>4. QED
  BY <1>1, <1>2, <1>3

\* While the chip programs a page, nothing writes the buffer it programs
\* from: AddDataSet has switched to the other one, SaveDataToFlash waits,
\* and the walk after a restart asks the chip to be ready first.
THEOREM SourceStable == Paced /\ Spec => ProgramSourceStable
<1>1. Paced /\ Init => IInv /\ SourceInv
  BY InitInv, SourceInit
<1>2. Paced /\ IInv /\ SourceInv /\ [Next]_vars => IInv' /\ SourceInv'
  BY NextInv, SourceNext
<1>3. Paced /\ IInv /\ SourceInv /\ [Next]_vars => [SourceKept]_vars
  BY SourceStep
<1>4. Paced => Paced'
  BY DEF Paced
<1>5. QED
  BY <1>1, <1>2, <1>3, <1>4, PTL DEF Spec, ProgramSourceStable
=============================================================================
