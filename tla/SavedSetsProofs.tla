--------------------------- MODULE SavedSetsProofs ---------------------------
(***************************************************************************)
(* Proofs about what the data logger keeps in the array, and in which      *)
(* order it overwrites it, for every size of the array and of its pages    *)
(* and any number of data sets and restarts.                               *)
(***************************************************************************)
EXTENDS DataloggerProofs, DataloggerLog

\* How the firmware and its host use the logger: they boot with APPEND and
\* keep the pace, the host does not ask for another initialisation, restarts
\* come between two operations, and the buffers of the chip come up erased.
Planned ==
  /\ Paced
  /\ "init" \notin Commands
  /\ Restarts \subseteq {"planned"}
  /\ Fills \subseteq {Erased}

\* What holds of the chip: 26 data sets of 20 bytes leave 8 of the 528 bytes
\* of a page; two erased bytes decode to more than a data set; there is a
\* page before the last.
Layout ==
  /\ PageSize % DataSetSize = 1
  /\ ErasedSize >= DataSetSize
  /\ LastPage >= 1

-----------------------------------------------------------------------------
(***************************************************************************)
(* The inductive invariant.                                                *)
(***************************************************************************)
\* Where a data set can begin, or the last one end.
Ends == {e \in Address : e % 2 = 0}

\* Data sets up to e, and nothing after.
HoldsTo(row, e) ==
  \A a \in Address :
    IF a >= e THEN row[a] = Erased ELSE IF a % 2 = 0 THEN row[a] = Header ELSE row[a] > 0
WellFormed(row) == \E e \in Ends : HoldsTo(row, e)

\* What the walk takes for a full page, and for one that is not.
LooksFull(row) == \E e \in Ends : HoldsTo(row, e) /\ e + ErasedSize > PageSize
IsErased(row)  == \A a \in Address : row[a] = Erased

Collecting == DataloggerInitalized = 1

\* The buffer being collected in, as it is when the set being added is there.
Current    == IF pc = "addData" THEN [buf[BufferInUse] EXCEPT ![DataSetAddress] = nextSet]
                                ELSE buf[BufferInUse]
CurrentEnd == IF pc = "addData" THEN DataSetAddress + 1 ELSE DataSetAddress

\* A page, as it is when the program in progress has ended.
Row(p) == IF busy.op = "program" /\ busy.page = p THEN buf[busy.buffer] ELSE mem[p]

\* Every page and every buffer is well formed, but for the set being added.
RowsInv ==
  /\ \A p \in Pages : WellFormed(mem[p])
  /\ \A b \in Buffers : b # BufferInUse \/ pc # "addData" => WellFormed(buf[b])
  /\ Collecting =>
       /\ CurrentEnd \in Ends
       /\ \E e \in Ends : HoldsTo(Current, e) /\ CurrentEnd <= e
       /\ pc \notin {"addData", "addFull"} => CurrentEnd + DataSetSize <= PageSize

\* What is in progress in the chip: a transfer for the walk, a partial save,
\* or the program of the page before.
BusyInv ==
  /\ busy.op = "load" => pc = "scanRead" /\ busy.buffer = scan.buffer /\ busy.page = scan.page
  /\ busy.op = "program" /\ pc = "saveWait" =>
       busy.buffer = BufferInUse /\ busy.page = ChipPage(DataPageAddress)
  /\ busy.op = "program" /\ pc # "saveWait" =>
       /\ pc \in {"idle", "addData", "addFull"}
       /\ busy.buffer # BufferInUse
       /\ HoldsTo(buf[busy.buffer], PageSize - 1)
       /\ \/ DataPageAddress = busy.page + 1
          \/ DataPageAddress = 0 /\ ~HasRoom
  /\ busy.op = "program" => Collecting

\* Nothing that is stored is newer than the last set added.
ValuesInv ==
  /\ \A p \in Pages, a \in Address : mem[p][a] < nextSet
  /\ \A b \in Buffers, a \in Address : buf[b][a] < nextSet
  /\ pc = "addFull" =>
       /\ buf[BufferInUse][DataSetAddress - 1] = nextSet - 1
       /\ \A b \in Buffers \ {BufferInUse}, a \in Address : buf[b][a] < nextSet - 1

\* The array is used up to a page; the logger knows which, or can find it.
UsedTo(t) ==
  /\ \A p \in Pages : p < t => LooksFull(mem[p])
  /\ \A p \in Pages : p > t => IsErased(mem[p])
ShapeInv ==
  /\ Collecting =>
       /\ \A p \in Pages : p < DataPageAddress /\ p # ChipPage(DataPageAddress) => LooksFull(Row(p))
       /\ HasRoom => \A p \in Pages : p > DataPageAddress => IsErased(mem[p])
       /\ HasRoom /\ busy.op = "program" /\ pc # "saveWait" /\ DataPageAddress \in Pages =>
            IsErased(mem[DataPageAddress])
  /\ ~Collecting =>
       /\ HasRoom => \E t \in Pages : UsedTo(t)
       /\ BufferInUse = 0

\* The walk of FindLastDataSet: full pages behind it, headers behind it in
\* the page, and the page in buffer 1.
ScanInv ==
  /\ pc = "boot" => ~Collecting
  /\ InScan =>
       /\ scan.page \in Pages
       /\ Collecting => scan.buffer # BufferInUse
  /\ InScan /\ scan.goal = "init" =>
       /\ ~Collecting
       /\ scan.buffer = 1
       /\ \A p \in Pages : p < scan.page => LooksFull(mem[p])
       /\ scan.addr \in Ends
       /\ pc = "scanCopy" => scan.addr = 0
       /\ \A a \in Address : a < scan.addr /\ a % 2 = 0 => mem[scan.page][a] = Header
       /\ pc # "scanCopy" => busy.op = "load" \/ buf[1] = mem[scan.page]
       /\ pc = "scanFull" => mem[scan.page][scan.addr] = Erased /\ scan.size = ErasedSize

\* What a program takes to the array carries along what came there in its
\* turn; what else the buffer in use holds is older than the page before.
Carries(p, row) ==
  \A a \in Address : InTurn(mem, p, a) => \A d \in 0 .. a : row[d] = mem[p][d]
CarryInv ==
  HasRoom =>
    /\ busy.op = "program" => Carries(busy.page, buf[busy.buffer])
    /\ Collecting /\ DataPageAddress \in Pages =>
         /\ \A a \in Address : InTurn(mem, DataPageAddress, a) => a < DataSetAddress
         /\ Carries(DataPageAddress, buf[BufferInUse])
         /\ \A a \in Address :
              CurrentEnd <= a /\ Current[a] > 0 =>
                /\ DataPageAddress >= 1
                /\ \E d \in Address : Row(DataPageAddress - 1)[d] > Current[a]

SavedInv == RowsInv /\ BusyInv /\ ValuesInv /\ ShapeInv /\ ScanInv /\ CarryInv

-----------------------------------------------------------------------------
(***************************************************************************)
(* Rows of cells.                                                          *)
(***************************************************************************)
\* The ends are two apart, and the last one is before the last cell.
LEMMA EndsAre ==
  ASSUME Layout
  PROVE  /\ 0 \in Ends /\ PageSize - 1 \in Ends
         /\ \A e \in Ends : e \in Nat /\ e <= PageSize - 1
         /\ \A e, f \in Ends : e < f => e + DataSetSize <= f
         /\ \A e \in Ends : e + DataSetSize <= PageSize => e + DataSetSize \in Ends
<1>1. PageSize \in Nat /\ PageSize >= 3 /\ PageSize % 2 = 1 /\ DataSetSize = 2
  BY FlashAssumption DEF Layout, DataSetSize
<1>2. QED
  BY <1>1, SMT DEF Ends, Address

\* A page that does not begin with a header holds nothing, one that looks
\* full begins with a header.
LEMMA RowFacts ==
  ASSUME Layout, NEW row
  PROVE  /\ WellFormed(row) /\ row[0] # Header => IsErased(row)
         /\ LooksFull(row) => WellFormed(row) /\ row[0] = Header
         /\ IsErased(row) => WellFormed(row) /\ row[0] # Header
         /\ HoldsTo(row, PageSize - 1) => LooksFull(row)
<1>1. /\ 0 \in Address /\ PageSize \in Nat /\ ErasedSize \in Nat
      /\ ErasedSize <= PageSize /\ ErasedSize >= 2
  BY FlashAssumption, LoggerAssumption DEF Layout, DataSetSize, Address
<1>2. ASSUME NEW e \in Ends, HoldsTo(row, e), row[0] # Header PROVE e = 0
  BY <1>1, <1>2, EndsAre, SMT DEF HoldsTo
<1>3. WellFormed(row) /\ row[0] # Header => IsErased(row)
  BY <1>2 DEF WellFormed, HoldsTo, IsErased, Address
<1>4. LooksFull(row) => WellFormed(row) /\ row[0] = Header
  BY <1>1, <1>2 DEF LooksFull, WellFormed
<1>5. IsErased(row) => WellFormed(row) /\ row[0] # Header
  <2>1. IsErased(row) => HoldsTo(row, 0)
    BY SMT DEF IsErased, HoldsTo, Address
  <2>2. QED
    BY <1>1, <2>1, EndsAre DEF IsErased, WellFormed, Header, Erased
<1>6. HoldsTo(row, PageSize - 1) => LooksFull(row)
  BY <1>1, EndsAre DEF LooksFull
<1>7. QED
  BY <1>3, <1>4, <1>5, <1>6

\* No data set in an erased page.
LEMMA NoneInErased ==
  ASSUME NEW row, IsErased(row), NEW a \in Address
  PROVE  ~(row[a] > 0)
BY DEF IsErased, Erased

\* What the walk makes of a header and of an erased cell.
LEMMA CellFacts ==
  /\ IsHeader(Header) /\ SizeField(Header) = DataSetSize
  /\ ~IsHeader(Erased) /\ SizeField(Erased) = ErasedSize
<1>1. Header # Erased /\ Header # NullHeader /\ Erased # NullHeader /\ DataSetSize > 0
  BY DEF Header, Erased, NullHeader, DataSetSize
<1>2. SizeField(Header) = DataSetSize /\ SizeField(Erased) = ErasedSize
  BY <1>1, Zenon DEF SizeField
<1>3. QED
  BY <1>1, <1>2 DEF IsHeader

\* There is no room when one of the last two pages looks full.
LEMMA NoRoom ==
  ASSUME Layout, NEW p \in {LastPage - 1, LastPage}, LooksFull(mem[p])
  PROVE  ~HasRoom
BY RowFacts DEF HasRoom

\* The page a walk ends in: headers up to there, and nothing there.
LEMMA EndOfWalk ==
  ASSUME Layout, NEW row, WellFormed(row), NEW addr \in Ends, row[addr] = Erased,
         \A a \in Address : a < addr /\ a % 2 = 0 => row[a] = Header
  PROVE  HoldsTo(row, addr)
<1>1. PICK e \in Ends : HoldsTo(row, e)
  BY DEF WellFormed
<1>2. addr \in Address /\ e \in Address /\ addr % 2 = 0 /\ e % 2 = 0
  BY DEF Ends
<1>3. ~(addr < e)
  BY <1>1, <1>2, SMT DEF HoldsTo, Header, Erased, Address
<1>4. ~(e < addr)
  BY <1>1, <1>2, SMT DEF HoldsTo, Header, Erased, Address
<1>5. e = addr
  BY <1>2, <1>3, <1>4 DEF Address
<1>6. QED
  BY <1>1, <1>5

\* A row holds data sets up to one end only.
LEMMA OneEnd ==
  ASSUME NEW row, NEW e \in Ends, NEW f \in Ends, HoldsTo(row, e), HoldsTo(row, f)
  PROVE  e = f
<1>1. e \in Address /\ f \in Address /\ e % 2 = 0 /\ f % 2 = 0
  BY DEF Ends
<1>2. ~(e < f) /\ ~(f < e)
  BY <1>1, SMT DEF HoldsTo, Header, Erased, Address
<1>3. QED
  BY <1>1, <1>2 DEF Address

\* A data set is added at the end of what a row holds, or over a stale one.
LEMMA AddedTo ==
  ASSUME Layout, NEW row \in [Address -> Cell], NEW e \in Ends, HoldsTo(row, e),
         NEW at \in Ends, at <= e, at + DataSetSize <= PageSize, NEW set \in Nat \ {0}
  PROVE  \E f \in Ends : HoldsTo([[row EXCEPT ![at] = Header] EXCEPT ![at + 1] = set], f)
                         /\ at + DataSetSize <= f
<1> DEFINE head == [row EXCEPT ![at] = Header]
           new  == [head EXCEPT ![at + 1] = set]
           f    == IF at = e THEN at + 2 ELSE e
<1>1. /\ at \in Address /\ at + 1 \in Address /\ e \in Address /\ PageSize \in Nat
      /\ at % 2 = 0 /\ DataSetSize = 2
  BY FlashAssumption, SMT DEF Ends, Address, DataSetSize
<1>2. f \in Ends /\ at + DataSetSize <= f
  BY <1>1, EndsAre, SMT
<1>3. /\ new[at] = Header /\ new[at + 1] = set
      /\ \A a \in Address : a # at /\ a # at + 1 => new[a] = row[a]
  <2>1. head \in [Address -> Cell \cup {Header}]
    BY <1>1
  <2>2. head[at] = Header /\ \A a \in Address : a # at => head[a] = row[a]
    BY <1>1
  <2>3. at # at + 1
    BY <1>1 DEF Address
  <2> HIDE DEF head
  <2>4. QED
    BY <1>1, <2>1, <2>2, <2>3
<1> HIDE DEF new
<1>4. ASSUME NEW a \in Address
      PROVE  IF a >= f THEN new[a] = Erased
             ELSE IF a % 2 = 0 THEN new[a] = Header ELSE new[a] > 0
  <2>1. CASE a = at
    BY <1>1, <1>2, <1>3, <2>1, SMT DEF Address
  <2>2. CASE a = at + 1
    BY <1>1, <1>2, <1>3, <2>2, SMT DEF Address
  <2>3. CASE a # at /\ a # at + 1
    <3>1. /\ new[a] = row[a]
          /\ IF a >= e THEN row[a] = Erased
             ELSE IF a % 2 = 0 THEN row[a] = Header ELSE row[a] > 0
      BY <1>3, <2>3 DEF HoldsTo
    <3>2. a >= f <=> a >= e
      BY <1>1, <1>2, <2>3, SMT DEF Address
    <3>3. QED
      BY <3>1, <3>2
  <2>4. QED
    BY <2>1, <2>2, <2>3
<1>5. HoldsTo(new, f)
  BY <1>4 DEF HoldsTo
<1>6. QED
  BY <1>2, <1>5 DEF new

-----------------------------------------------------------------------------
(***************************************************************************)
(* The steps.                                                              *)
(***************************************************************************)
\* The invariant holds when the firmware starts.
LEMMA SavedInit == Planned /\ Layout /\ Init => SavedInv
<1> SUFFICES ASSUME Planned, Layout, Init PROVE SavedInv
  OBVIOUS
<1>1. /\ \A p \in Pages : mem[p] = PageOf(Erased)
      /\ \A b \in Buffers : buf[b] = PageOf(Erased)
      /\ busy.op = "idle"
  BY DEF Planned, Init, FlashInit, Idle
<1>2. /\ IsErased(PageOf(Erased)) /\ WellFormed(PageOf(Erased))
      /\ \A a \in Address : PageOf(Erased)[a] < 1
  <2>1. IsErased(PageOf(Erased))
    BY DEF PageOf, IsErased
  <2>2. QED
    BY <2>1, RowFacts DEF IsErased, Erased
<1>3. /\ pc = "boot" /\ ~Collecting /\ nextSet = 1 /\ BufferInUse = 0
  BY DEF Init, Collecting
<1>4. RowsInv
  BY <1>1, <1>2, <1>3 DEF RowsInv
<1>5. BusyInv
  BY <1>1 DEF BusyInv
<1>6. ValuesInv
  BY <1>1, <1>2, <1>3 DEF ValuesInv
<1>7. ShapeInv
  <2>1. 0 \in Pages /\ \A p \in Pages : ~(p < 0)
    BY FlashAssumption DEF Pages
  <2>2. UsedTo(0)
    BY <1>1, <1>2, <2>1 DEF UsedTo
  <2>3. QED
    BY <1>3, <2>1, <2>2 DEF ShapeInv
<1>8. ScanInv
  BY <1>3 DEF ScanInv, InScan
<1>9. CarryInv
  BY <1>1, <1>3 DEF CarryInv
<1>10. QED
  BY <1>4, <1>5, <1>6, <1>7, <1>8, <1>9 DEF SavedInv

\* A step of the main thread that leaves the logger, the array and the
\* buffers alone.
Apart ==
  /\ UNCHANGED <<mem, buf, loggerVars, nextSet>>
  /\ busy' = busy \/ (busy.op # "program" /\ busy'.op # "program")

\* Such a step leaves what the invariant speaks about as it was.
LEMMA ApartSame ==
  ASSUME Apart, NEW p, NEW row
  PROVE  /\ Row(p)' = Row(p)
         /\ HasRoom' <=> HasRoom
         /\ Collecting' <=> Collecting
         /\ Carries(p, row)' <=> Carries(p, row)
         /\ UsedTo(p)' <=> UsedTo(p)
BY DEF Apart, loggerVars, Row, HasRoom, Collecting, Carries, UsedTo

\* Such a step preserves the parts about array and buffers.
LEMMA ApartInv ==
  ASSUME SavedInv, Apart, pc # "addData", pc' \notin {"addData", "addFull", "saveWait"},
         busy.op = "program" => pc # "saveWait",
         Collecting /\ pc = "addFull" => DataSetAddress + DataSetSize <= PageSize
  PROVE  RowsInv' /\ ValuesInv' /\ ShapeInv' /\ CarryInv'
<1>1. Current' = Current /\ CurrentEnd' = CurrentEnd
  BY DEF Apart, loggerVars, Current, CurrentEnd
<1>2. RowsInv'
  BY <1>1 DEF SavedInv, RowsInv, Apart, loggerVars, Collecting, CurrentEnd
<1>3. ValuesInv'
  BY DEF SavedInv, ValuesInv, Apart, loggerVars
<1>4. ShapeInv'
  <2>1. SavedInv => ShapeInv
    BY DEF SavedInv
  <2>2. UNCHANGED <<mem, DataPageAddress, BufferInUse>> /\ (busy'.op = "program" => busy' = busy)
    BY DEF Apart, loggerVars
  <2>3. QED
    BY <2>1, <2>2, ApartSame DEF ShapeInv
<1>5. CarryInv'
  <2>1. SavedInv => CarryInv
    BY DEF SavedInv
  <2>2. /\ UNCHANGED <<mem, buf, DataPageAddress, BufferInUse, DataSetAddress>>
        /\ busy'.op = "program" => busy' = busy
    BY DEF Apart, loggerVars
  <2>3. QED
    BY <1>1, <2>1, <2>2, ApartSame DEF CarryInv
<1>6. QED
  BY <1>2, <1>3, <1>4, <1>5

\* The chip does nothing at the start of a walk or of a page.
LEMMA IdleBefore ==
  ASSUME IInv, SavedInv, pc \in {"boot", "scanCopy", "scanFull"}
  PROVE  busy.op = "idle"
<1>1. busy.op \in {"idle", "program", "load"}
  BY DEF IInv, TypeOK, FlashTypeOK, Operation
<1>2. QED
  BY <1>1 DEF SavedInv, BusyInv

\* Datalogger_Init begins the walk at the first page, with buffer 1.
LEMMA BootSaved ==
  ASSUME Planned, Layout, IInv, SavedInv, Boot
  PROVE  SavedInv'
<1>1. /\ StartScan("init", 0) /\ UNCHANGED <<flashVars, loggerVars, nextSet>>
      /\ pc = "boot" /\ pc' = "scanCopy"
  BY DEF Planned, Paced, Boot, Datalogger_Init, StartScan
<1>2. busy.op = "idle" /\ ~Collecting /\ BufferInUse = 0
  BY <1>1, IdleBefore DEF SavedInv, ScanInv, ShapeInv
<1>3. Apart
  BY <1>1 DEF Apart, flashVars
<1>4. RowsInv' /\ ValuesInv' /\ ShapeInv' /\ CarryInv'
  BY <1>1, <1>2, <1>3, ApartInv
<1>5. BusyInv'
  BY <1>1, <1>2 DEF BusyInv, flashVars
<1>6. ScanInv'
  <2>1. scan'.page = 0 /\ scan'.addr = 0 /\ scan'.buffer = 1 /\ scan'.goal = "init"
    BY <1>1, <1>2 DEF StartScan, TempBuffer
  <2>2. 0 \in Pages /\ 0 \in Ends /\ \A p \in Pages : ~(p < 0)
    BY FlashAssumption, EndsAre DEF Pages
  <2>3. \A a \in Address : ~(a < 0)
    BY DEF Address
  <2>4. QED
    BY <1>1, <1>2, <1>3, <2>1, <2>2, <2>3, ApartSame DEF ScanInv
<1>7. QED
  BY <1>4, <1>5, <1>6 DEF SavedInv

\* The walk asks for its page.
LEMMA ScanCopySaved ==
  ASSUME Planned, Layout, IInv, SavedInv, ScanCopy
  PROVE  SavedInv'
<1>1. busy.op = "idle" /\ pc = "scanCopy" /\ pc' = "scanRead" /\ scan.page \in Pages
  BY IdleBefore DEF ScanCopy, SavedInv, ScanInv, InScan
<1>2. busy' = [op |-> "load", buffer |-> scan.buffer, page |-> scan.page]
  BY <1>1 DEF ScanCopy, CopyPageToBuffer, Issue, Ready, ChipPage, Pages
<1>3. Apart
  BY <1>1, <1>2 DEF Apart, ScanCopy, historyVars
<1>4. RowsInv' /\ ValuesInv' /\ ShapeInv' /\ CarryInv'
  BY <1>1, <1>3, ApartInv
<1>5. BusyInv'
  BY <1>1, <1>2 DEF BusyInv, ScanCopy
<1>6. ScanInv'
  <2>1. scan' = scan /\ mem' = mem /\ BufferInUse' = BufferInUse
    BY DEF ScanCopy, loggerVars
  <2>2. SavedInv => ScanInv
    BY DEF SavedInv
  <2>3. QED
    BY <1>1, <1>2, <1>3, <2>1, <2>2, ApartSame DEF ScanInv, InScan
<1>7. QED
  BY <1>4, <1>5, <1>6 DEF SavedInv

\* The walk looks at a header.
LEMMA ScanReadSaved ==
  ASSUME Planned, Layout, IInv, SavedInv, ScanRead
  PROVE  SavedInv'
<1>1. /\ pc = "scanRead" /\ pc' \in {"idle", "scanRead", "scanFull"} /\ Ready
      /\ UNCHANGED <<flashVars, loggerVars, nextSet>>
      /\ scan'.page = scan.page /\ scan'.goal = scan.goal /\ scan'.buffer = scan.buffer
  BY DEF ScanRead, historyVars, IInv, TypeOK, Walk
<1>2. Apart
  BY <1>1 DEF Apart, flashVars
<1>3. RowsInv' /\ ValuesInv' /\ ShapeInv' /\ CarryInv'
  BY <1>1, <1>2, ApartInv DEF Ready
<1>4. BusyInv'
  BY <1>1 DEF BusyInv, Ready, flashVars
<1>5. ASSUME scan.goal = "init"
      PROVE  /\ scan'.addr \in Ends
             /\ \A a \in Address : a < scan'.addr /\ a % 2 = 0 => mem[scan.page][a] = Header
             /\ pc' = "scanFull" => mem[scan.page][scan'.addr] = Erased /\ scan'.size = ErasedSize
  <2> DEFINE row  == mem[scan.page]
             cell == BufferRead(scan.buffer, scan.addr)
  <2>1. /\ scan.addr \in Ends /\ WellFormed(row) /\ buf[1] = row /\ scan.buffer = 1
        /\ \A a \in Address : a < scan.addr /\ a % 2 = 0 => row[a] = Header
    BY <1>1, <1>5 DEF SavedInv, ScanInv, InScan, RowsInv, Ready
  <2>2. scan.addr \in Address /\ scan.addr < PageSize /\ PageSize \in Nat
    BY <2>1, FlashAssumption DEF Ends, Address
  <2>3. cell = row[scan.addr]
    BY <2>1, <2>2 DEF BufferRead, Wrap
  <2>4. PICK e \in Ends : HoldsTo(row, e)
    BY <2>1 DEF WellFormed
  <2>5. /\ row[scan.addr] = IF scan.addr < e THEN Header ELSE Erased
        /\ scan.addr \in Address /\ scan.addr % 2 = 0 /\ e \in Address /\ e % 2 = 0
    BY <2>1, <2>2, <2>4, SMT DEF HoldsTo, Ends, Address
  <2>6. ~(scan.addr > PageSize)
    BY <2>2 DEF Address
  <2> HIDE DEF row, cell
  <2>7. CASE scan.addr < e
    <3>1. cell = Header /\ IsHeader(cell) /\ SizeField(cell) = 2
      BY <2>3, <2>5, <2>7, CellFacts DEF DataSetSize
    <3>2. scan'.addr = scan.addr + 2 /\ pc' = "scanRead"
      <4>1. pc' = "scanRead"
        BY <1>5, <2>6, <3>1 DEF ScanRead, cell
      <4>2. scan' = [scan EXCEPT !.size = 2, !.addr = scan.addr + 2, !.left = scan.left]
        BY <1>5, <2>6, <3>1 DEF ScanRead, IInv, TypeOK, Walk, cell
      <4>3. QED
        BY <4>1, <4>2 DEF IInv, TypeOK, Walk
    <3>3. scan.addr + 2 \in Ends
      BY <2>1, <2>2, <2>4, <2>7, EndsAre, SMT DEF DataSetSize
    <3>4. ASSUME NEW a \in Address, a < scan.addr + 2, a % 2 = 0 PROVE row[a] = Header
      <4>1. a < scan.addr \/ a = scan.addr
        BY <2>2, <2>5, <3>4, SMT DEF Address
      <4>2. QED
        BY <2>1, <2>3, <3>1, <3>4, <4>1
    <3>5. QED
      BY <3>2, <3>3, <3>4 DEF row
  <2>8. CASE ~(scan.addr < e)
    <3>1. cell = Erased /\ ~IsHeader(cell) /\ SizeField(cell) = ErasedSize
      BY <2>3, <2>5, <2>8, CellFacts
    <3>2. scan'.addr = scan.addr /\ pc' = "scanFull" /\ scan'.size = ErasedSize
      <4>1. pc' = "scanFull"
        BY <1>5, <2>6, <3>1 DEF ScanRead, cell
      <4>2. scan' = [scan EXCEPT !.size = ErasedSize, !.addr = scan.addr, !.left = scan.left]
        BY <1>5, <2>6, <3>1 DEF ScanRead, IInv, TypeOK, Walk, cell
      <4>3. QED
        BY <4>1, <4>2 DEF IInv, TypeOK, Walk
    <3>3. QED
      BY <2>1, <2>3, <3>1, <3>2 DEF row
  <2>9. QED
    BY <2>7, <2>8
<1>6. ScanInv'
  <2>1. SavedInv => ScanInv
    BY DEF SavedInv
  <2>2. UNCHANGED <<mem, buf, busy, BufferInUse>> /\ (Collecting' <=> Collecting)
    BY <1>1 DEF flashVars, loggerVars, Collecting
  <2>3. pc' # "boot" /\ pc' # "scanCopy"
    BY <1>1
  <2>4. QED
    BY <1>1, <1>5, <2>1, <2>2, <2>3 DEF ScanInv, InScan
<1>7. QED
  BY <1>3, <1>4, <1>6 DEF SavedInv

\* Where the walk of FindLastDataSet ends a page.
LEMMA WalkedTo ==
  ASSUME Layout, IInv, SavedInv, pc = "scanFull", scan.goal = "init"
  PROVE  /\ HoldsTo(mem[scan.page], scan.addr) /\ scan.addr \in Ends /\ scan.page \in Pages
         /\ scan.addr + scan.size > PageSize => LooksFull(mem[scan.page])
         /\ ~(scan.addr + scan.size > PageSize) =>
              ~LooksFull(mem[scan.page]) /\ scan.addr + DataSetSize <= PageSize
         /\ \A p \in Pages : p < scan.page => LooksFull(mem[p])
         /\ buf[1] = mem[scan.page] /\ ~Collecting
<1>1. /\ scan.page \in Pages /\ scan.addr \in Ends /\ scan.size = ErasedSize /\ ~Collecting
      /\ mem[scan.page][scan.addr] = Erased
      /\ \A a \in Address : a < scan.addr /\ a % 2 = 0 => mem[scan.page][a] = Header
      /\ \A p \in Pages : p < scan.page => LooksFull(mem[p])
      /\ busy.op = "load" \/ buf[1] = mem[scan.page]
  BY DEF SavedInv, ScanInv, InScan
<1>2. WellFormed(mem[scan.page])
  BY <1>1 DEF SavedInv, RowsInv
<1>3. HoldsTo(mem[scan.page], scan.addr)
  BY <1>1, <1>2, EndOfWalk
<1>4. LooksFull(mem[scan.page]) => scan.addr + ErasedSize > PageSize
  BY <1>1, <1>3, OneEnd DEF LooksFull
<1>5. ~(scan.addr + ErasedSize > PageSize) => scan.addr + DataSetSize <= PageSize
  BY <1>1, FlashAssumption, LoggerAssumption DEF Layout, Ends, Address, DataSetSize
<1>6. QED
  BY <1>1, <1>3, <1>4, <1>5, IdleBefore DEF LooksFull

\* The walk goes on to the next page.
LEMMA ScanNextPageSaved ==
  ASSUME Planned, Layout, IInv, SavedInv, ScanNextPage
  PROVE  SavedInv'
<1>1. /\ pc = "scanFull" /\ pc' = "scanCopy" /\ busy.op = "idle"
      /\ scan.addr + scan.size > PageSize /\ scan.page < LastPage
      /\ UNCHANGED <<flashVars, loggerVars, nextSet>>
  BY IdleBefore DEF ScanNextPage, historyVars
<1>2. Apart
  BY <1>1 DEF Apart, flashVars
<1>3. RowsInv' /\ ValuesInv' /\ ShapeInv' /\ CarryInv'
  BY <1>1, <1>2, ApartInv
<1>4. BusyInv'
  BY <1>1 DEF BusyInv, flashVars
<1>5. ScanInv'
  <2>1. /\ scan'.page = scan.page + 1 /\ scan'.addr = 0
        /\ scan'.goal = scan.goal /\ scan'.buffer = scan.buffer
    BY DEF ScanNextPage, IInv, TypeOK, Walk
  <2>2. scan.page \in Pages /\ scan.page + 1 \in Pages
    BY <1>1, FlashAssumption DEF SavedInv, ScanInv, InScan, Pages
  <2>3. scan.goal = "init" => \A p \in Pages : p < scan.page + 1 => LooksFull(mem[p])
    BY <1>1, <2>2, WalkedTo DEF Pages
  <2>4. 0 \in Ends /\ \A a \in Address : ~(a < 0)
    BY EndsAre DEF Address
  <2>5. SavedInv => ScanInv
    BY DEF SavedInv
  <2>6. mem' = mem /\ BufferInUse' = BufferInUse /\ (Collecting' <=> Collecting)
    BY <1>1 DEF flashVars, loggerVars, Collecting
  <2>7. QED
    BY <1>1, <2>1, <2>2, <2>3, <2>4, <2>5, <2>6 DEF ScanInv, InScan
<1>6. QED
  BY <1>3, <1>4, <1>5 DEF SavedInv

\* A step of the walk that leaves the logger alone ends it.
LEMMA WalkOver ==
  ASSUME IInv, SavedInv, pc = "scanFull", pc' = "idle", UNCHANGED <<flashVars, loggerVars, nextSet>>
  PROVE  SavedInv'
<1>1. busy.op = "idle"
  BY IdleBefore
<1>2. Apart
  BY DEF Apart, flashVars
<1>3. RowsInv' /\ ValuesInv' /\ ShapeInv' /\ CarryInv'
  BY <1>1, <1>2, ApartInv
<1>4. BusyInv' /\ ScanInv'
  BY <1>1 DEF BusyInv, ScanInv, InScan, flashVars
<1>5. QED
  BY <1>3, <1>4 DEF SavedInv

\* The rest of Datalogger_Init: the logger goes on in the page the walk
\* ended in, or at the first page of an array that looks full.
LEMMA PlaceSaved ==
  ASSUME Layout, IInv, SavedInv, pc = "scanFull", scan.goal = "init",
         pc' = "idle", DataloggerInitalized' = 1, BufferInUse' = 1,
         UNCHANGED <<flashVars, nextSet>>,
         DataPageAddress' \in 0 .. LastPage + 1, DataSetAddress' \in Ends,
         DataSetAddress' <= scan.addr, DataSetAddress' + DataSetSize <= PageSize,
         \A p \in Pages : p < DataPageAddress' /\ p # ChipPage(DataPageAddress') => LooksFull(mem[p]),
         \/ ~HasRoom
         \/ /\ DataPageAddress' = scan.page /\ DataSetAddress' = scan.addr
            /\ \A p \in Pages : p > scan.page => IsErased(mem[p])
  PROVE  SavedInv'
<1>1. /\ busy.op = "idle" /\ busy' = busy /\ mem' = mem /\ buf' = buf /\ nextSet' = nextSet
      /\ (HasRoom' <=> HasRoom) /\ Collecting'
  BY IdleBefore DEF flashVars, HasRoom, Collecting
<1>2. buf[1] = mem[scan.page] /\ HoldsTo(buf[1], scan.addr) /\ scan.addr \in Ends
  BY WalkedTo
<1>3. Current' = buf[1] /\ CurrentEnd' = DataSetAddress'
  BY <1>1 DEF Current, CurrentEnd
<1>4. RowsInv'
  <2>1. /\ \A p \in Pages : WellFormed(mem[p])
        /\ \A b \in Buffers : WellFormed(buf[b])
    BY DEF SavedInv, RowsInv
  <2>2. QED
    BY <1>1, <1>2, <1>3, <2>1 DEF RowsInv
<1>5. ValuesInv'
  BY <1>1 DEF SavedInv, ValuesInv
<1>6. BusyInv' /\ ScanInv'
  BY <1>1 DEF BusyInv, ScanInv, InScan
<1>7. ShapeInv'
  <2>1. \A p : Row(p)' = mem[p]
    BY <1>1 DEF Row
  <2>2. QED
    BY <1>1, <2>1 DEF ShapeInv
<1>8. CarryInv'
  <2> SUFFICES ASSUME HasRoom, DataPageAddress' \in Pages
               PROVE  /\ \A a \in Address : InTurn(mem, DataPageAddress', a) => a < DataSetAddress'
                      /\ \A a \in Address : InTurn(mem, DataPageAddress', a) =>
                           \A d \in 0 .. a : buf[1][d] = mem[DataPageAddress'][d]
                      /\ \A a \in Address : ~(DataSetAddress' <= a /\ buf[1][a] > 0)
    BY <1>1, <1>3 DEF CarryInv, Carries
  <2>1. DataPageAddress' = scan.page /\ DataSetAddress' = scan.addr
    OBVIOUS
  <2>2. \A a \in Address : buf[1][a] > 0 => a < scan.addr
    BY <1>2, SMT DEF HoldsTo, Erased, Ends, Address
  <2>3. QED
    BY <1>2, <2>1, <2>2, SMT DEF InTurn, Ends, Address
<1>9. QED
  BY <1>4, <1>5, <1>6, <1>7, <1>8 DEF SavedInv

\* The walk ends.
LEMMA ScanEndSaved ==
  ASSUME Planned, Layout, IInv, SavedInv, ScanEnd
  PROVE  SavedInv'
<1> DEFINE full  == scan.addr + scan.size > PageSize
           p     == IF full THEN LastPage + 1 ELSE scan.page
           a     == IF full THEN 0 ELSE scan.addr
           found == FoundPlace(p, a)
           stop  == found = Full /\ "RESTART_IF_FULL" \notin SetupByte
<1>1. /\ pc = "scanFull" /\ pc' = "idle" /\ UNCHANGED <<flashVars, nextSet>>
      /\ full => scan.page = LastPage
  BY DEF ScanEnd
<1>2. CASE scan.goal = "read"
  BY <1>1, <1>2, WalkOver DEF ScanEnd
<1>3. CASE scan.goal # "read" /\ stop
  <2>1. DataloggerInitalized = 0 /\ scan.goal = "init"
    BY <1>1, <1>3, WalkedTo DEF Collecting, IInv, TypeOK, Walk
  <2>2. UNCHANGED loggerVars
    BY <1>3, <2>1 DEF ScanEnd, loggerVars
  <2>3. QED
    BY <1>1, <2>2, WalkOver
<1>4. CASE scan.goal # "read" /\ ~stop
  <2>1. scan.goal = "init" /\ PlaceLogger(found)
    BY <1>4 DEF ScanEnd, IInv, TypeOK, Walk
  <2>2. /\ HoldsTo(mem[scan.page], scan.addr) /\ scan.addr \in Ends /\ scan.page \in Pages
        /\ full => LooksFull(mem[scan.page])
        /\ ~full => ~LooksFull(mem[scan.page]) /\ scan.addr + DataSetSize <= PageSize
        /\ \A q \in Pages : q < scan.page => LooksFull(mem[q])
        /\ ~Collecting
    BY <1>1, <2>1, WalkedTo
  <2>3. /\ LastPage \in Nat /\ LastPage >= 1 /\ PageSize \in Nat /\ PageSize >= 3
        /\ DataSetSize = 2 /\ scan.addr \in Nat /\ scan.page \in Nat /\ scan.page <= LastPage
        /\ 0 \in Ends
    BY <2>2, FlashAssumption, EndsAre DEF Layout, DataSetSize, Pages
  <2>4. DataloggerInitalized' = 1 /\ BufferInUse' = 1
    BY <2>1 DEF PlaceLogger
  <2> HIDE DEF stop
  <2>5. CASE full
    <3>1. found = [page |-> LastPage + 1, addr |-> 0] /\ found # Full
      BY <2>3, <2>5 DEF FoundPlace, Full
    <3>2. DataPageAddress' = LastPage + 1 /\ DataSetAddress' = 0
      BY <2>1, <3>1 DEF PlaceLogger
    <3>3. ~HasRoom /\ \A q \in Pages : LooksFull(mem[q])
      <4>1. \A q \in Pages : LooksFull(mem[q])
        BY <1>1, <2>2, <2>3, <2>5 DEF Pages
      <4>2. QED
        BY <2>3, <4>1, NoRoom DEF Pages
    <3>4. QED
      BY <1>1, <2>1, <2>3, <2>4, <3>2, <3>3, PlaceSaved
  <2>6. CASE ~full /\ scan.page = LastPage
    <3>1. found = Full
      BY <2>3, <2>6 DEF FoundPlace
    <3>2. DataPageAddress' = 0 /\ DataSetAddress' = 0
      BY <2>1, <3>1 DEF PlaceLogger
    <3>3. ~HasRoom
      <4>1. LastPage - 1 \in Pages /\ LastPage - 1 < scan.page
        BY <2>3, <2>6 DEF Pages
      <4>2. LooksFull(mem[LastPage - 1])
        BY <2>2, <4>1
      <4>3. QED
        BY <4>2, NoRoom
    <3>4. \A q \in Pages : ~(q < 0)
      BY DEF Pages
    <3>5. QED
      BY <1>1, <2>1, <2>3, <2>4, <3>2, <3>3, <3>4, PlaceSaved
  <2>7. CASE ~full /\ scan.page # LastPage
    <3>1. found = [page |-> scan.page, addr |-> scan.addr] /\ found # Full
      BY <2>3, <2>7 DEF FoundPlace, Full
    <3>2. DataPageAddress' = scan.page /\ DataSetAddress' = scan.addr
      BY <2>1, <3>1 DEF PlaceLogger
    <3>3. HasRoom => \A q \in Pages : q > scan.page => IsErased(mem[q])
      <4> SUFFICES ASSUME HasRoom, NEW q \in Pages, q > scan.page PROVE IsErased(mem[q])
        OBVIOUS
      <4>1. PICK t \in Pages : UsedTo(t)
        BY <2>2 DEF SavedInv, ShapeInv
      <4>2. ~(scan.page < t)
        BY <2>2, <2>7, <4>1 DEF UsedTo
      <4>3. q > t
        BY <2>3, <4>2 DEF Pages
      <4>4. QED
        BY <4>1, <4>3 DEF UsedTo
    <3>4. scan.page \in 0 .. LastPage + 1
      BY <2>3
    <3>5. scan.addr <= scan.addr
      BY <2>3
    <3>6. \A q \in Pages : q < scan.page => LooksFull(mem[q])
      BY <2>2
    <3>7. QED
      BY <1>1, <2>1, <2>2, <2>4, <2>7, <3>2, <3>3, <3>4, <3>5, <3>6, PlaceSaved
  <2>8. QED
    BY <2>5, <2>6, <2>7
<1>5. QED
  BY <1>2, <1>3, <1>4

\* While the logger collects, its buffer and page are ones it has.
LEMMA CollectingType ==
  ASSUME IInv, Collecting
  PROVE  /\ BufferInUse \in Buffers /\ DataPageAddress \in 0 .. LastPage + 1
         /\ nextSet \in Nat \ {0} /\ buf \in [Buffers -> [Address -> Cell]]
         /\ mem \in [Pages -> [Address -> Cell]]
         /\ busy \in Operation
         /\ buf[BufferInUse] \in [Address -> Cell]
BY DEF IInv, TypeOK, FlashTypeOK, InitalizedInv, Collecting

\* A buffer write changes one cell of one buffer.
LEMMA WriteIs ==
  ASSUME IInv, NEW b \in Buffers, NEW a \in Address, NEW c, BufferWrite(b, a, c)
  PROVE  /\ buf'[b] = [buf[b] EXCEPT ![a] = c]
         /\ \A o \in Buffers : o # b => buf'[o] = buf[o]
         /\ buf'[b][a] = c
         /\ \A o \in Address : o # a => buf'[b][o] = buf[b][o]
<1>1. Wrap(a) = a
  BY FlashAssumption DEF Wrap, Address
<1>2. buf \in [Buffers -> [Address -> Cell]]
  BY DEF IInv, TypeOK, FlashTypeOK
<1>3. buf' = [buf EXCEPT ![b] = [buf[b] EXCEPT ![a] = c]]
  BY <1>1 DEF BufferWrite
<1>4. QED
  BY <1>2, <1>3

\* The first half of AddDataSet, the header.
LEMMA AddHeaderSaved ==
  ASSUME Planned, Layout, IInv, SavedInv, AddHeader
  PROVE  SavedInv'
<1> DEFINE b == BufferInUse
           e == DataSetAddress
<1>1. /\ pc = "idle" /\ pc' = "addData" /\ Collecting
      /\ BufferWrite(b, e, Header) /\ DataSetAddress' = e + 1
      /\ mem' = mem /\ busy' = busy /\ nextSet' = nextSet
      /\ DataPageAddress' = DataPageAddress /\ BufferInUse' = b
      /\ (Collecting' <=> Collecting) /\ (HasRoom' <=> HasRoom)
  BY DEF AddHeader, Command, Collecting, HasRoom, historyVars
<1>2. /\ b \in Buffers /\ nextSet \in Nat \ {0} /\ buf[b] \in [Address -> Cell]
      /\ busy.buffer \in Buffers /\ PageSize \in Nat
  BY <1>1, CollectingType, FlashAssumption DEF Operation
<1>3. Current = buf[b] /\ CurrentEnd = e
  BY <1>1 DEF Current, CurrentEnd
<1>4. /\ e \in Ends /\ e + DataSetSize <= PageSize
      /\ \E h \in Ends : HoldsTo(buf[b], h) /\ e <= h
  BY <1>1, <1>3 DEF SavedInv, RowsInv
<1>5. e \in Address /\ e + 1 \in Address /\ e \in Nat
  BY <1>2, <1>4 DEF Ends, Address, DataSetSize
<1>6. /\ buf'[b] = [buf[b] EXCEPT ![e] = Header]
      /\ \A o \in Buffers : o # b => buf'[o] = buf[o]
      /\ \A o \in Address : o # e => buf'[b][o] = buf[b][o]
      /\ buf'[b][e] = Header
  BY <1>1, <1>2, <1>5, WriteIs
<1>7. Current' = [[buf[b] EXCEPT ![e] = Header] EXCEPT ![e + 1] = nextSet]
      /\ CurrentEnd' = e + DataSetSize
  BY <1>1, <1>5, <1>6 DEF Current, CurrentEnd, DataSetSize
<1>8. busy.op = "program" => busy.buffer # b /\ buf'[busy.buffer] = buf[busy.buffer]
  BY <1>1, <1>2, <1>6 DEF SavedInv, BusyInv
<1>9. \A p : Row(p)' = Row(p)
  BY <1>1, <1>8 DEF Row
<1>10. ASSUME NEW a \in Address, e + DataSetSize <= a PROVE Current'[a] = buf[b][a]
  <2>1. a # e /\ a # e + 1
    BY <1>5, <1>10 DEF DataSetSize, Address
  <2>2. Current' = [buf'[b] EXCEPT ![e + 1] = nextSet]
    BY <1>6, <1>7
  <2>3. buf'[b] \in [Address -> Cell \cup {Header}]
    BY <1>2, <1>6
  <2>4. Current'[a] = buf'[b][a]
    BY <2>1, <2>2, <2>3
  <2>5. QED
    BY <1>6, <2>1, <2>4
<1> HIDE DEF b, e
<1>11. RowsInv'
  <2>1. \E f \in Ends : HoldsTo(Current', f) /\ e + DataSetSize <= f
    BY <1>2, <1>4, <1>7, AddedTo
  <2>2. e + DataSetSize \in Ends
    BY <1>4, EndsAre
  <2>3. /\ \A p \in Pages : WellFormed(mem[p])
        /\ \A o \in Buffers : o # b => WellFormed(buf'[o])
    BY <1>1, <1>6 DEF SavedInv, RowsInv
  <2>4. QED
    BY <1>1, <1>7, <2>1, <2>2, <2>3 DEF RowsInv
<1>12. BusyInv'
  BY <1>1, <1>8 DEF SavedInv, BusyInv, b
<1>13. ValuesInv'
  <2>1. Header < nextSet
    BY <1>2 DEF Header
  <2>2. QED
    BY <1>1, <1>2, <1>6, <2>1 DEF SavedInv, ValuesInv
<1>14. ShapeInv'
  BY <1>1, <1>9 DEF SavedInv, ShapeInv
<1>15. ScanInv'
  BY <1>1 DEF ScanInv, InScan
<1>16. CarryInv'
  <2> SUFFICES ASSUME HasRoom PROVE CarryInv'
    BY <1>1 DEF CarryInv
  <2>1. SavedInv => CarryInv
    BY DEF SavedInv
  <2>2. busy.op = "program" => Carries(busy.page, buf[busy.buffer])'
    BY <1>1, <1>8, <2>1 DEF CarryInv, Carries
  <2>3. ASSUME DataPageAddress \in Pages
        PROVE  /\ \A a \in Address : InTurn(mem, DataPageAddress, a) => a < e + 1
               /\ Carries(DataPageAddress, buf'[b])
               /\ \A a \in Address : e + DataSetSize <= a /\ Current'[a] > 0 =>
                    /\ DataPageAddress >= 1
                    /\ \E d \in Address : Row(DataPageAddress - 1)[d] > Current'[a]
    <3>1. /\ \A a \in Address : InTurn(mem, DataPageAddress, a) => a < e
          /\ Carries(DataPageAddress, buf[b])
          /\ \A a \in Address : e <= a /\ buf[b][a] > 0 =>
               /\ DataPageAddress >= 1
               /\ \E d \in Address : Row(DataPageAddress - 1)[d] > buf[b][a]
      BY <1>1, <1>3, <2>1, <2>3 DEF CarryInv, b, e
    <3>2. \A a \in Address : a < e => a < e + 1
      BY <1>5 DEF Address
    <3>3. Carries(DataPageAddress, buf'[b])
      <4> SUFFICES ASSUME NEW a \in Address, InTurn(mem, DataPageAddress, a), NEW d \in 0 .. a
                   PROVE  buf'[b][d] = mem[DataPageAddress][d]
        BY DEF Carries
      <4>1. a < e
        BY <3>1
      <4>2. d \in Address /\ d # e
        BY <1>2, <1>5, <4>1 DEF Address
      <4>3. QED
        BY <1>6, <3>1, <4>2 DEF Carries
    <3>4. \A a \in Address : e + DataSetSize <= a => e <= a
      BY <1>5 DEF Address, DataSetSize
    <3>5. QED
      BY <1>10, <3>1, <3>2, <3>3, <3>4
  <2>4. Carries(DataPageAddress, buf[BufferInUse])' <=> Carries(DataPageAddress, buf'[b])
    BY <1>1 DEF Carries, b
  <2>5. QED
    BY <1>1, <1>7, <1>9, <2>2, <2>3, <2>4 DEF CarryInv, b, e
<1>17. QED
  BY <1>11, <1>12, <1>13, <1>14, <1>15, <1>16 DEF SavedInv

\* The second half of AddDataSet: what was the buffer with the set in it
\* becomes the buffer.
LEMMA AddDataSaved ==
  ASSUME Planned, Layout, IInv, SavedInv, AddData
  PROVE  SavedInv'
<1> DEFINE b == BufferInUse
           e == DataSetAddress
<1>1. /\ pc = "addData" /\ pc' = "addFull" /\ Collecting
      /\ BufferWrite(b, e, nextSet) /\ DataSetAddress' = e + 1
      /\ mem' = mem /\ busy' = busy /\ nextSet' = nextSet + 1
      /\ DataPageAddress' = DataPageAddress /\ BufferInUse' = b
      /\ (Collecting' <=> Collecting) /\ (HasRoom' <=> HasRoom)
  BY DEF AddData, Collecting, HasRoom, IInv, InitalizedInv
<1>2. /\ b \in Buffers /\ nextSet \in Nat \ {0} /\ buf[b] \in [Address -> Cell]
      /\ busy.buffer \in Buffers /\ PageSize \in Nat
      /\ buf \in [Buffers -> [Address -> Cell]] /\ mem \in [Pages -> [Address -> Cell]]
  BY <1>1, CollectingType, FlashAssumption DEF Operation
<1>3. Current = [buf[b] EXCEPT ![e] = nextSet] /\ CurrentEnd = e + 1
  BY <1>1 DEF Current, CurrentEnd
<1>4. e + 1 \in Ends /\ \E h \in Ends : HoldsTo(Current, h) /\ e + 1 <= h
  BY <1>1, <1>3 DEF SavedInv, RowsInv
<1>5. e \in Address /\ e + 1 \in Address
  BY <1>1, <1>2, <1>4 DEF Ends, Address, IInv, AddressInv
<1>6. /\ buf'[b] = Current
      /\ \A o \in Buffers : o # b => buf'[o] = buf[o]
      /\ \A o \in Address : o # e => buf'[b][o] = buf[b][o]
      /\ buf'[b][e] = nextSet
  <2>1. BufferWrite(b, e, nextSet) /\ b \in Buffers /\ e \in Address
    BY <1>1, <1>2, <1>5
  <2> HIDE DEF b, e
  <2>2. /\ buf'[b] = [buf[b] EXCEPT ![e] = nextSet]
        /\ \A o \in Buffers : o # b => buf'[o] = buf[o]
        /\ \A o \in Address : o # e => buf'[b][o] = buf[b][o]
        /\ buf'[b][e] = nextSet
    BY <2>1, WriteIs
  <2>3. QED
    BY <1>3, <2>2
<1>7. Current' = Current /\ CurrentEnd' = CurrentEnd
  BY <1>1, <1>3, <1>6 DEF Current, CurrentEnd
<1>8. busy.op = "program" => busy.buffer # b /\ buf'[busy.buffer] = buf[busy.buffer]
  BY <1>1, <1>2, <1>6 DEF SavedInv, BusyInv
<1>9. \A p : Row(p)' = Row(p)
  BY <1>1, <1>8 DEF Row
<1> HIDE DEF b, e
<1>11. RowsInv'
  <2>1. \A p \in Pages : WellFormed(mem[p])
    BY DEF SavedInv, RowsInv
  <2>2. \A o \in Buffers : WellFormed(buf'[o])
    <3>1. \A o \in Buffers : o # b => WellFormed(buf'[o])
      BY <1>6 DEF SavedInv, RowsInv, b
    <3>2. WellFormed(buf'[b])
      BY <1>4, <1>6 DEF WellFormed
    <3>3. QED
      BY <3>1, <3>2
  <2>3. QED
    BY <1>1, <1>3, <1>4, <1>7, <2>1, <2>2 DEF RowsInv
<1>12. BusyInv'
  BY <1>1, <1>8 DEF SavedInv, BusyInv, b
<1>13. ValuesInv'
  <2>1. \A c \in Cell : c < nextSet => c < nextSet + 1
    BY <1>2 DEF Cell, Filler, Erased, Blank, NullHeader, Header
  <2>2. /\ \A p \in Pages, a \in Address : mem[p][a] < nextSet
        /\ \A o \in Buffers, a \in Address : buf[o][a] < nextSet
    BY DEF SavedInv, ValuesInv
  <2>3. \A p \in Pages, a \in Address : mem[p][a] < nextSet + 1
    BY <1>2, <2>1, <2>2
  <2>4. \A o \in Buffers, a \in Address : o # b => buf'[o][a] < nextSet /\ buf'[o][a] < nextSet + 1
    BY <1>2, <1>6, <2>1, <2>2
  <2>5. \A a \in Address : buf'[b][a] < nextSet + 1
    <3>1. nextSet < nextSet + 1
      BY <1>2
    <3>2. QED
      BY <1>2, <1>6, <2>1, <2>2, <3>1
  <2>6. (e + 1) - 1 = e /\ (nextSet + 1) - 1 = nextSet
    BY <1>2, <1>5 DEF Address
  <2>7. QED
    BY <1>1, <1>6, <2>3, <2>4, <2>5, <2>6 DEF ValuesInv
<1>14. ShapeInv'
  BY <1>1, <1>9 DEF SavedInv, ShapeInv
<1>15. ScanInv'
  BY <1>1 DEF ScanInv, InScan
<1>16. CarryInv'
  <2> SUFFICES ASSUME HasRoom PROVE CarryInv'
    BY <1>1 DEF CarryInv
  <2>1. SavedInv => CarryInv
    BY DEF SavedInv
  <2>2. busy.op = "program" => Carries(busy.page, buf[busy.buffer])'
    BY <1>1, <1>8, <2>1 DEF CarryInv, Carries
  <2>3. ASSUME DataPageAddress \in Pages
        PROVE  /\ \A a \in Address : InTurn(mem, DataPageAddress, a) => a < e + 1
               /\ Carries(DataPageAddress, buf'[b])
    <3>1. /\ \A a \in Address : InTurn(mem, DataPageAddress, a) => a < e
          /\ Carries(DataPageAddress, buf[b])
      BY <1>1, <2>1, <2>3 DEF CarryInv, b, e
    <3>2. \A a \in Address : a < e => a < e + 1
      BY <1>5 DEF Address
    <3>3. Carries(DataPageAddress, buf'[b])
      <4> SUFFICES ASSUME NEW a \in Address, InTurn(mem, DataPageAddress, a), NEW d \in 0 .. a
                   PROVE  buf'[b][d] = mem[DataPageAddress][d]
        BY DEF Carries
      <4>1. a < e
        BY <3>1
      <4>2. d \in Address /\ d # e
        BY <1>2, <1>5, <4>1 DEF Address
      <4>3. QED
        BY <1>6, <3>1, <4>2 DEF Carries
    <3>4. QED
      BY <3>1, <3>2, <3>3
  <2>4. Carries(DataPageAddress, buf[BufferInUse])' <=> Carries(DataPageAddress, buf'[b])
    BY <1>1 DEF Carries, b
  <2>5. QED
    BY <1>1, <1>7, <1>9, <2>1, <2>2, <2>3, <2>4 DEF CarryInv, b, e
<1>17. QED
  BY <1>11, <1>12, <1>13, <1>14, <1>15, <1>16 DEF SavedInv

\* The page is not full yet.
LEMMA AddNotFullSaved ==
  ASSUME Planned, Layout, IInv, SavedInv, AddNotFull
  PROVE  SavedInv'
<1>1. /\ pc = "addFull" /\ pc' = "idle" /\ ~PageIsFull
      /\ UNCHANGED <<flashVars, loggerVars, nextSet>>
  BY DEF AddNotFull, historyVars
<1>2. DataSetAddress + DataSetSize <= PageSize
  BY <1>1, FlashAssumption DEF PageIsFull, IInv, TypeOK, Position, DataSetSize
<1>3. Apart
  BY <1>1 DEF Apart, flashVars
<1>4. RowsInv' /\ ValuesInv' /\ ShapeInv' /\ CarryInv'
  BY <1>1, <1>2, <1>3, ApartInv
<1>5. BusyInv'
  BY <1>1, <1>3, ApartSame DEF SavedInv, BusyInv, flashVars, loggerVars
<1>6. ScanInv'
  BY <1>1 DEF ScanInv, InScan
<1>7. QED
  BY <1>4, <1>5, <1>6 DEF SavedInv

\* Where the chip puts a page, and which pages look full below it.
LEMMA BelowPage ==
  ASSUME Layout, IInv, SavedInv, Collecting, busy.op # "program" \/ pc = "saveWait"
  PROVE  /\ DataPageAddress \in Nat /\ DataPageAddress <= LastPage + 1
         /\ DataPageAddress \in Pages => ChipPage(DataPageAddress) = DataPageAddress
         /\ DataPageAddress \notin Pages =>
              DataPageAddress = LastPage + 1 /\ ChipPage(DataPageAddress) = 0 /\ ~HasRoom
         /\ \A p \in Pages : p < DataPageAddress /\ DataPageAddress \in Pages => LooksFull(mem[p])
         /\ DataPageAddress = LastPage => ~HasRoom
<1>1. /\ LastPage \in Nat /\ LastPage >= 1
      /\ DataPageAddress \in Nat /\ DataPageAddress <= LastPage + 1
  BY CollectingType, FlashAssumption DEF Layout
<1>2. DataPageAddress \in Pages => ChipPage(DataPageAddress) = DataPageAddress
  BY <1>1 DEF Pages, ChipPage
<1>3. DataPageAddress \notin Pages => DataPageAddress = LastPage + 1 /\ ChipPage(DataPageAddress) = 0
  BY <1>1 DEF Pages, ChipPage
<1>4. \A p \in Pages : p < DataPageAddress /\ p # ChipPage(DataPageAddress) => LooksFull(mem[p])
  <2>1. \A p \in Pages : p # ChipPage(DataPageAddress) => Row(p) = mem[p]
    BY DEF SavedInv, BusyInv, Row
  <2>2. QED
    BY <2>1 DEF SavedInv, ShapeInv
<1>5. \A p \in Pages : p < DataPageAddress /\ DataPageAddress \in Pages => LooksFull(mem[p])
  BY <1>1, <1>2, <1>4 DEF Pages
<1>6. DataPageAddress \notin Pages => ~HasRoom
  <2>1. LastPage \in Pages /\ LastPage < LastPage + 1 /\ LastPage # 0
    BY <1>1 DEF Pages
  <2>2. DataPageAddress \notin Pages => LooksFull(mem[LastPage])
    BY <1>3, <1>4, <2>1
  <2>3. QED
    BY <2>2, NoRoom
<1>7. DataPageAddress = LastPage => ~HasRoom
  <2>1. LastPage \in Pages /\ LastPage - 1 \in Pages /\ LastPage - 1 < LastPage
    BY <1>1 DEF Pages
  <2>2. DataPageAddress = LastPage => LooksFull(mem[LastPage - 1])
    BY <1>5, <2>1
  <2>3. QED
    BY <2>2, NoRoom
<1>8. QED
  BY <1>1, <1>2, <1>3, <1>5, <1>6, <1>7

\* A full page goes to the chip, and the logger to the other buffer.
LEMMA AddFullSaved ==
  ASSUME Planned, Layout, IInv, SavedInv, AddFull
  PROVE  SavedInv'
<1> DEFINE b == BufferInUse
           D == DataPageAddress
<1>1. /\ pc = "addFull" /\ pc' = "idle" /\ PageIsFull /\ Collecting /\ busy.op = "idle"
      /\ mem' = mem /\ buf' = buf /\ nextSet' = nextSet
      /\ BufferInUse' = SwitchedBuffer /\ DataPageAddress' = NextDataPage /\ DataSetAddress' = 0
      /\ (Collecting' <=> Collecting) /\ (HasRoom' <=> HasRoom)
  BY DEF AddFull, Planned, Paced, Ready, Collecting, HasRoom, IInv, InitalizedInv
<1>2. /\ b \in Buffers /\ nextSet \in Nat /\ PageSize \in Nat /\ PageSize >= 3
      /\ LastPage \in Nat /\ LastPage >= 1
  BY <1>1, CollectingType, FlashAssumption DEF Layout
<1>3. BufferInUse' \in Buffers /\ BufferInUse' # b
  BY <1>1, <1>2 DEF SwitchedBuffer, Buffers
<1>4. busy' = [op |-> "program", buffer |-> b, page |-> ChipPage(D)]
  BY <1>1 DEF AddFull, CopyBufferToPage, Issue, Ready
<1>5. /\ D \in Nat /\ D <= LastPage + 1
      /\ D \in Pages => ChipPage(D) = D
      /\ D \notin Pages => D = LastPage + 1 /\ ChipPage(D) = 0 /\ ~HasRoom
      /\ \A p \in Pages : p < D /\ D \in Pages => LooksFull(mem[p])
      /\ D = LastPage => ~HasRoom
  BY <1>1, BelowPage
<1>6. \/ D \in Pages /\ D # LastPage /\ DataPageAddress' = D + 1 /\ ChipPage(D) = D /\ D + 1 \in Pages
      \/ ~HasRoom /\ DataPageAddress' = 0
  BY <1>1, <1>2, <1>5 DEF NextDataPage, Pages
<1>7. HoldsTo(buf[b], PageSize - 1) /\ DataSetAddress - 1 \in Address
  <2>1. PICK e \in Ends : HoldsTo(buf[b], e) /\ DataSetAddress <= e
    BY <1>1 DEF SavedInv, RowsInv, Current, CurrentEnd
  <2>2. DataSetAddress \in Ends
    BY <1>1 DEF SavedInv, RowsInv, CurrentEnd
  <2>3. DataSetAddress = PageSize - 1
    BY <1>1, <1>2, <2>2, EndsAre, SMT DEF PageIsFull, DataSetSize
  <2>4. e = PageSize - 1
    BY <1>2, <2>1, <2>3, EndsAre, SMT
  <2>5. QED
    BY <1>2, <2>1, <2>3, <2>4 DEF Address
<1>8. /\ buf[b][DataSetAddress - 1] = nextSet - 1
      /\ \A o \in Buffers \ {b}, a \in Address : buf[o][a] < nextSet - 1
  BY <1>1 DEF SavedInv, ValuesInv
<1> HIDE DEF b, D
<1>9. RowsInv'
  <2>1. /\ \A p \in Pages : WellFormed(mem[p])
        /\ \A o \in Buffers : WellFormed(buf[o])
    BY <1>1 DEF SavedInv, RowsInv
  <2>2. Current' = buf[BufferInUse'] /\ CurrentEnd' = 0
    BY <1>1 DEF Current, CurrentEnd
  <2>3. 0 \in Ends /\ 0 + DataSetSize <= PageSize /\ \A e \in Ends : 0 <= e
    BY <1>2, EndsAre DEF DataSetSize
  <2>4. QED
    BY <1>1, <1>3, <2>1, <2>2, <2>3 DEF RowsInv, WellFormed
<1>10. BusyInv'
  <2>1. busy'.op = "program" /\ busy'.buffer = b /\ busy'.page = ChipPage(D)
    BY <1>4
  <2>2. QED
    BY <1>1, <1>3, <1>6, <1>7, <2>1 DEF BusyInv
<1>11. ValuesInv'
  BY <1>1 DEF SavedInv, ValuesInv
<1>12. ASSUME NEW p \in Pages, D \in Pages, ChipPage(D) = D
       PROVE  Row(p)' = IF p = D THEN buf[b] ELSE mem[p]
  BY <1>1, <1>4, <1>12 DEF Row
<1>13. ShapeInv'
  <2>1. ASSUME NEW p \in Pages, p < DataPageAddress' PROVE LooksFull(Row(p)')
    <3>1. D \in Pages /\ DataPageAddress' = D + 1 /\ ChipPage(D) = D
      BY <1>6, <2>1 DEF Pages
    <3>2. CASE p = D
      BY <1>7, <1>12, <3>1, <3>2, RowFacts
    <3>3. CASE p # D
      <4>1. p < D
        BY <1>5, <2>1, <3>1, <3>3 DEF Pages
      <4>2. QED
        BY <1>5, <1>12, <3>1, <3>3, <4>1
    <3>4. QED
      BY <3>2, <3>3
  <2>2. ASSUME HasRoom, NEW p \in Pages, p >= DataPageAddress' PROVE IsErased(mem[p])
    <3>1. D < p
      BY <1>5, <1>6, <2>2 DEF Pages
    <3>2. QED
      BY <1>1, <2>2, <3>1 DEF SavedInv, ShapeInv, D
  <2>3. HasRoom /\ DataPageAddress' \in Pages => DataPageAddress' >= DataPageAddress'
    BY DEF Pages
  <2>4. \A p \in Pages : p > DataPageAddress' => p >= DataPageAddress'
    BY <1>5, <1>6 DEF Pages
  <2>5. QED
    BY <1>1, <2>1, <2>2, <2>3, <2>4 DEF ShapeInv
<1>14. ScanInv'
  BY <1>1 DEF ScanInv, InScan
<1>15. CarryInv'
  <2> SUFFICES ASSUME HasRoom PROVE CarryInv'
    BY <1>1 DEF CarryInv
  <2>1. D \in Pages /\ DataPageAddress' = D + 1 /\ ChipPage(D) = D /\ D + 1 \in Pages /\ D < D + 1
    BY <1>5, <1>6
  <2>2. Carries(D, buf[b])
    BY <1>1, <2>1 DEF SavedInv, CarryInv, b, D
  <2>3. busy'.op = "program" => Carries(busy.page, buf[busy.buffer])'
    BY <1>1, <1>4, <2>1, <2>2 DEF Carries
  <2>4. IsErased(mem[D + 1])
    BY <1>1, <2>1 DEF SavedInv, ShapeInv, D
  <2>5. \A a \in Address : ~InTurn(mem, D + 1, a)
    BY <2>4, NoneInErased DEF InTurn
  <2>6. Current' = buf[BufferInUse']
    BY <1>1 DEF Current
  <2>7. Row(DataPageAddress - 1)' = buf[b]
    <3>1. DataPageAddress' - 1 = D
      BY <1>5, <2>1
    <3>2. busy'.op = "program" /\ busy'.buffer = b /\ busy'.page = D
      BY <1>4, <2>1
    <3>3. QED
      BY <1>1, <3>1, <3>2 DEF Row
  <2>8. D + 1 >= 1
    BY <1>5
  <2>9. /\ \A a \in Address : InTurn(mem, DataPageAddress, a)' => a < DataSetAddress'
        /\ Carries(DataPageAddress, buf[BufferInUse])'
        /\ \A a \in Address : \E d \in Address : Row(DataPageAddress - 1)'[d] > Current'[a]
    <3>1. \A a \in Address : ~InTurn(mem, DataPageAddress, a)'
      BY <1>1, <2>1, <2>5
    <3>2. Carries(DataPageAddress, buf[BufferInUse])'
      BY <3>1 DEF Carries
    <3>3. \A a \in Address : buf[b][DataSetAddress - 1] > buf[BufferInUse'][a]
      BY <1>3, <1>8
    <3>4. QED
      BY <1>7, <2>6, <2>7, <3>1, <3>2, <3>3
  <2>10. QED
    BY <1>1, <2>1, <2>3, <2>8, <2>9 DEF CarryInv
<1>16. QED
  BY <1>9, <1>10, <1>11, <1>13, <1>14, <1>15 DEF SavedInv

\* A partial save goes to the page being collected.
LEMMA SaveSaved ==
  ASSUME Planned, Layout, IInv, SavedInv, Datalogger_SaveDataToFlash
  PROVE  SavedInv'
<1> DEFINE D == DataPageAddress
<1>1. /\ pc = "idle" /\ pc' = "saveWait" /\ Collecting /\ busy.op = "idle"
      /\ mem' = mem /\ buf' = buf /\ nextSet' = nextSet
      /\ BufferInUse' = BufferInUse /\ DataPageAddress' = D /\ DataSetAddress' = DataSetAddress
      /\ (Collecting' <=> Collecting) /\ (HasRoom' <=> HasRoom)
      /\ Current' = Current /\ CurrentEnd' = CurrentEnd
  BY DEF Datalogger_SaveDataToFlash, Command, Planned, Paced, Ready, Collecting, HasRoom,
         loggerVars, historyVars, Current, CurrentEnd
<1>2. busy' = [op |-> "program", buffer |-> BufferInUse, page |-> ChipPage(D)]
  BY <1>1 DEF Datalogger_SaveDataToFlash, CopyBufferToPage, Issue, Ready
<1>3. /\ D \in Nat
      /\ D \in Pages => ChipPage(D) = D
      /\ D \notin Pages => ChipPage(D) = 0 /\ ~HasRoom
  BY <1>1, BelowPage
<1>4. \A p : p # ChipPage(D) => Row(p)' = Row(p)
  BY <1>1, <1>2 DEF Row
<1> HIDE DEF D
<1>5. RowsInv'
  BY <1>1 DEF SavedInv, RowsInv
<1>6. BusyInv'
  BY <1>1, <1>2 DEF BusyInv
<1>7. ValuesInv'
  BY <1>1 DEF SavedInv, ValuesInv
<1>8. ShapeInv'
  BY <1>1, <1>4 DEF SavedInv, ShapeInv, D
<1>9. ScanInv'
  BY <1>1 DEF ScanInv, InScan
<1>10. CarryInv'
  <2> SUFFICES ASSUME HasRoom PROVE CarryInv'
    BY <1>1 DEF CarryInv
  <2>1. D \in Pages /\ ChipPage(D) = D /\ D - 1 # D
    BY <1>3
  <2>2. /\ \A a \in Address : InTurn(mem, D, a) => a < DataSetAddress
        /\ Carries(D, buf[BufferInUse])
        /\ \A a \in Address : CurrentEnd <= a /\ Current[a] > 0 =>
             D >= 1 /\ \E d \in Address : Row(D - 1)[d] > Current[a]
    BY <1>1, <2>1 DEF SavedInv, CarryInv, D
  <2>3. Row(DataPageAddress - 1)' = Row(D - 1)
    BY <1>1, <1>4, <2>1 DEF Row
  <2>4. Carries(DataPageAddress, buf[BufferInUse])' /\ Carries(busy.page, buf[busy.buffer])'
    BY <1>1, <1>2, <2>1, <2>2 DEF Carries
  <2>5. QED
    BY <1>1, <2>2, <2>3, <2>4 DEF CarryInv
<1>11. QED
  BY <1>5, <1>6, <1>7, <1>8, <1>9, <1>10 DEF SavedInv

\* The chip has ended the partial save.
LEMMA SaveWaitSaved ==
  ASSUME Planned, Layout, IInv, SavedInv, SaveWait
  PROVE  SavedInv'
<1>1. /\ pc = "saveWait" /\ pc' = "idle" /\ busy.op = "idle"
      /\ UNCHANGED <<flashVars, loggerVars, nextSet>>
  BY DEF SaveWait, Ready, historyVars
<1>2. Apart
  BY <1>1 DEF Apart, flashVars
<1>3. RowsInv' /\ ValuesInv' /\ ShapeInv' /\ CarryInv'
  BY <1>1, <1>2, ApartInv
<1>4. BusyInv' /\ ScanInv'
  BY <1>1 DEF BusyInv, ScanInv, InScan, flashVars
<1>5. QED
  BY <1>3, <1>4 DEF SavedInv

\* ReadBackData begins its walk, with the buffer that is not in use.
LEMMA ReadBackSaved ==
  ASSUME Planned, Layout, IInv, SavedInv, Datalogger_ReadBackData
  PROVE  SavedInv'
<1>1. /\ pc = "idle" /\ pc' = "scanCopy" /\ busy.op = "idle" /\ StartScan("read", ReadCount)
      /\ UNCHANGED <<flashVars, loggerVars, nextSet>>
  BY DEF Datalogger_ReadBackData, Command, StartScan, Planned, Paced, Ready, historyVars
<1>2. Apart
  BY <1>1 DEF Apart, flashVars
<1>3. RowsInv' /\ ValuesInv' /\ ShapeInv' /\ CarryInv'
  BY <1>1, <1>2, ApartInv
<1>4. BusyInv'
  BY <1>1 DEF BusyInv, flashVars
<1>5. ScanInv'
  <2>1. scan'.page = 0 /\ scan'.buffer = TempBuffer /\ scan'.goal = "read"
    BY <1>1 DEF StartScan
  <2>2. 0 \in Pages
    BY FlashAssumption DEF Pages
  <2>3. Collecting => TempBuffer # BufferInUse
    BY CollectingType DEF TempBuffer, Buffers
  <2>4. BufferInUse' = BufferInUse /\ (Collecting' <=> Collecting)
    BY <1>1 DEF loggerVars, Collecting
  <2>5. QED
    BY <1>1, <2>1, <2>2, <2>3, <2>4 DEF ScanInv
<1>6. QED
  BY <1>3, <1>4, <1>5 DEF SavedInv

\* The page of a walk has come into its buffer.
LEMMA LoadedSaved ==
  ASSUME Planned, Layout, IInv, SavedInv, ChipStep, busy.op = "load"
  PROVE  SavedInv'
<1> DEFINE b == scan.buffer
<1>1. /\ pc = "scanRead" /\ pc' = pc /\ busy.buffer = b /\ busy.page = scan.page
      /\ scan.page \in Pages /\ b \in Buffers /\ (Collecting => b # BufferInUse)
      /\ mem' = mem /\ busy'.op = "idle" /\ nextSet' = nextSet /\ scan' = scan
      /\ BufferInUse' = BufferInUse /\ DataPageAddress' = DataPageAddress
      /\ DataSetAddress' = DataSetAddress
      /\ (Collecting' <=> Collecting) /\ (HasRoom' <=> HasRoom)
  BY DEF SavedInv, BusyInv, ScanInv, InScan, ChipStep, FlashDone, Idle, loggerVars, historyVars,
         Collecting, HasRoom, IInv, TypeOK, Walk
<1>2. /\ buf'[b] = mem[scan.page]
      /\ \A o \in Buffers : o # b => buf'[o] = buf[o]
  BY <1>1 DEF ChipStep, FlashDone, IInv, TypeOK, FlashTypeOK
<1>3. Collecting => Current' = Current /\ CurrentEnd' = CurrentEnd
                    /\ buf'[BufferInUse] = buf[BufferInUse]
  BY <1>1, <1>2, CollectingType DEF Current, CurrentEnd
<1>4. \A p : Row(p)' = Row(p)
  BY <1>1 DEF Row
<1> HIDE DEF b
<1>5. RowsInv'
  <2>1. /\ \A p \in Pages : WellFormed(mem[p])
        /\ \A o \in Buffers : WellFormed(buf[o])
    BY <1>1 DEF SavedInv, RowsInv
  <2>2. \A o \in Buffers : WellFormed(buf'[o])
    BY <1>1, <1>2, <2>1
  <2>3. QED
    BY <1>1, <1>3, <2>1, <2>2 DEF SavedInv, RowsInv
<1>6. BusyInv'
  BY <1>1 DEF BusyInv
<1>7. ValuesInv'
  <2>1. \A o \in Buffers, a \in Address : buf'[o][a] < nextSet
    BY <1>1, <1>2 DEF SavedInv, ValuesInv
  <2>2. QED
    BY <1>1, <2>1 DEF SavedInv, ValuesInv
<1>8. ShapeInv'
  <2>1. \A t : UsedTo(t)' <=> UsedTo(t)
    BY <1>1 DEF UsedTo
  <2>2. SavedInv => ShapeInv
    BY DEF SavedInv
  <2>3. QED
    BY <1>1, <1>4, <2>1, <2>2 DEF ShapeInv
<1>9. ScanInv'
  <2>1. SavedInv => ScanInv
    BY DEF SavedInv
  <2>2. QED
    BY <1>1, <1>2, <2>1 DEF ScanInv, InScan, b
<1>10. CarryInv'
  <2> SUFFICES ASSUME HasRoom, Collecting, DataPageAddress \in Pages PROVE CarryInv'
    BY <1>1 DEF CarryInv
  <2>1. SavedInv => CarryInv
    BY DEF SavedInv
  <2>2. Carries(DataPageAddress, buf[BufferInUse])' <=> Carries(DataPageAddress, buf[BufferInUse])
    BY <1>1, <1>3 DEF Carries
  <2>3. Row(DataPageAddress - 1)' = Row(DataPageAddress - 1)
    BY <1>1 DEF Row
  <2>4. QED
    BY <1>1, <1>3, <2>1, <2>2, <2>3 DEF CarryInv
<1>11. QED
  BY <1>5, <1>6, <1>7, <1>8, <1>9, <1>10 DEF SavedInv

\* What the end of a program changes: its page.
LEMMA ProgramIs ==
  ASSUME IInv, SavedInv, ChipStep, busy.op = "program"
  PROVE  /\ busy.page \in Pages /\ busy.buffer \in Buffers /\ Collecting
         /\ mem'[busy.page] = buf[busy.buffer]
         /\ \A p \in Pages : p # busy.page => mem'[p] = mem[p]
         /\ \A p \in Pages : mem'[p] = Row(p) /\ Row(p)' = Row(p)
         /\ WellFormed(buf[busy.buffer])
         /\ buf' = buf /\ busy'.op = "idle" /\ nextSet' = nextSet
         /\ pc' = pc /\ pc \in {"idle", "addData", "addFull", "saveWait"}
         /\ BufferInUse' = BufferInUse /\ DataPageAddress' = DataPageAddress
         /\ DataSetAddress' = DataSetAddress /\ (Collecting' <=> Collecting)
<1>1. /\ buf' = buf /\ busy'.op = "idle" /\ nextSet' = nextSet /\ pc' = pc
      /\ BufferInUse' = BufferInUse /\ DataPageAddress' = DataPageAddress
      /\ DataSetAddress' = DataSetAddress /\ (Collecting' <=> Collecting)
      /\ mem' = [mem EXCEPT ![busy.page] = buf[busy.buffer]]
  BY DEF ChipStep, FlashDone, Idle, loggerVars, historyVars, Collecting
<1>2. busy.page \in Pages /\ busy.buffer \in Buffers /\ mem \in [Pages -> [Address -> Cell]]
  BY DEF IInv, TypeOK, FlashTypeOK, Operation
<1>3. /\ mem'[busy.page] = buf[busy.buffer]
      /\ \A p \in Pages : p # busy.page => mem'[p] = mem[p]
  BY <1>1, <1>2
<1>4. \A p \in Pages : mem'[p] = Row(p) /\ Row(p)' = Row(p)
  BY <1>1, <1>3 DEF Row
<1>5. Collecting /\ pc \in {"idle", "addData", "addFull", "saveWait"}
      /\ (pc = "addData" => busy.buffer # BufferInUse)
  BY DEF SavedInv, BusyInv
<1>6. WellFormed(buf[busy.buffer])
  BY <1>2, <1>5 DEF SavedInv, RowsInv
<1>7. QED
  BY <1>1, <1>2, <1>3, <1>4, <1>5, <1>6

\* The partial save has reached the array.
LEMMA PartialSaved ==
  ASSUME Planned, Layout, IInv, SavedInv, ChipStep, busy.op = "program", pc = "saveWait"
  PROVE  ShapeInv' /\ CarryInv'
<1> DEFINE D == DataPageAddress
           b == BufferInUse
<1>1. /\ busy.buffer = b /\ busy.page = ChipPage(D) /\ Collecting
      /\ busy.page \in Pages /\ b \in Buffers /\ WellFormed(buf[b])
      /\ mem'[busy.page] = buf[b]
      /\ \A p \in Pages : p # busy.page => mem'[p] = mem[p]
      /\ \A p \in Pages : mem'[p] = Row(p) /\ Row(p)' = Row(p)
      /\ buf' = buf /\ busy'.op = "idle" /\ pc' = "saveWait"
      /\ BufferInUse' = b /\ DataPageAddress' = D /\ DataSetAddress' = DataSetAddress /\ Collecting'
  BY ProgramIs DEF SavedInv, BusyInv
<1>2. /\ D \in Nat /\ D <= LastPage + 1
      /\ D \in Pages => ChipPage(D) = D
      /\ D \notin Pages => D = LastPage + 1 /\ ChipPage(D) = 0 /\ ~HasRoom
      /\ \A p \in Pages : p < D /\ D \in Pages => LooksFull(mem[p])
      /\ D = LastPage => ~HasRoom
  BY <1>1, BelowPage
<1>3. LastPage \in Nat /\ LastPage >= 1 /\ LastPage \in Pages /\ LastPage - 1 \in Pages
  BY FlashAssumption DEF Layout, Pages
<1>4. Current' = buf[b] /\ CurrentEnd' = CurrentEnd /\ Current = buf[b] /\ CurrentEnd = DataSetAddress
  BY <1>1 DEF Current, CurrentEnd
<1>5. \A p \in Pages : WellFormed(mem[p]) /\ WellFormed(mem'[p])
  BY <1>1 DEF SavedInv, RowsInv
<1>6. \A p \in Pages : p < D /\ p # ChipPage(D) => LooksFull(mem[p])
  BY <1>1 DEF SavedInv, ShapeInv, Row
<1> HIDE DEF D, b
<1>7. HasRoom' /\ D \notin Pages => FALSE
  <2> SUFFICES ASSUME HasRoom', D \notin Pages PROVE FALSE
    OBVIOUS
  <2>1. LastPage # 0 /\ LastPage < D
    BY <1>2, <1>3
  <2>2. LooksFull(mem[LastPage]) /\ mem'[LastPage] = mem[LastPage]
    BY <1>1, <1>2, <1>3, <1>6, <2>1
  <2>3. mem'[LastPage][0] = Header
    BY <2>2, RowFacts
  <2>4. QED
    BY <2>3 DEF HasRoom
<1>8. HasRoom' /\ ~HasRoom /\ D \in Pages => IsErased(buf[b]) /\ D >= LastPage - 1
  <2> SUFFICES ASSUME HasRoom', ~HasRoom, D \in Pages PROVE IsErased(buf[b]) /\ D >= LastPage - 1
    OBVIOUS
  <2>1. PICK p \in {LastPage - 1, LastPage} : mem[p][0] = Header /\ mem'[p][0] # Header
    BY DEF HasRoom
  <2>2. p = busy.page
    BY <1>1, <1>3, <2>1
  <2>3. QED
    BY <1>1, <1>2, <1>3, <2>1, <2>2, RowFacts
<1>9. ShapeInv'
  <2>1. ASSUME HasRoom', NEW p \in Pages, p > D PROVE IsErased(mem'[p])
    <3>1. D \in Pages
      BY <1>7, <2>1
    <3>2. CASE HasRoom
      <4>1. IsErased(mem[p])
        BY <1>1, <2>1, <3>2 DEF SavedInv, ShapeInv, D
      <4>2. p # busy.page
        BY <1>1, <1>2, <2>1, <3>1 DEF Pages
      <4>3. QED
        BY <1>1, <4>1, <4>2
    <3>3. CASE ~HasRoom
      <4>1. p = LastPage
        BY <1>2, <1>3, <1>8, <2>1, <3>1, <3>3 DEF Pages
      <4>2. mem'[p][0] # Header
        BY <2>1, <4>1 DEF HasRoom
      <4>3. QED
        BY <1>5, <4>2, RowFacts
    <3>4. QED
      BY <3>2, <3>3
  <2>2. \A p \in Pages : p < D /\ p # ChipPage(D) => LooksFull(Row(p)')
    BY <1>1 DEF SavedInv, ShapeInv, D
  <2>3. QED
    BY <1>1, <2>1, <2>2 DEF ShapeInv
<1>10. CarryInv'
  <2> SUFFICES ASSUME HasRoom', D \in Pages
               PROVE  /\ \A a \in Address : InTurn(mem', D, a) => a < DataSetAddress
                      /\ Carries(DataPageAddress, buf[BufferInUse])'
                      /\ \A a \in Address : DataSetAddress <= a /\ buf[b][a] > 0 =>
                           D >= 1 /\ \E d \in Address : mem'[D - 1][d] > buf[b][a]
    <3>1. Row(DataPageAddress - 1)' = mem'[D - 1]
      BY <1>1 DEF Row
    <3>2. QED
      BY <1>1, <1>4, <3>1 DEF CarryInv
  <2>1. busy.page = D
    BY <1>1, <1>2
  <2>2. Carries(DataPageAddress, buf[BufferInUse])'
    BY <1>1, <2>1 DEF Carries
  <2>3. ASSUME NEW a \in Address, DataSetAddress <= a, buf[b][a] > 0
        PROVE  D >= 1 /\ \E d \in Address : mem'[D - 1][d] > buf[b][a]
    <3>1. HasRoom
      BY <1>8, <2>3, NoneInErased
    <3>2. D >= 1 /\ \E d \in Address : Row(D - 1)[d] > buf[b][a]
      BY <1>1, <1>4, <2>3, <3>1 DEF SavedInv, CarryInv, D
    <3>3. D - 1 \in Pages
      BY <1>2, <1>3, <3>2 DEF Pages
    <3>4. mem'[D - 1] = Row(D - 1)
      BY <1>1, <2>1, <3>3, <1>2 DEF Row
    <3>5. QED
      BY <3>2, <3>4
  <2>4. ASSUME NEW a \in Address, InTurn(mem', D, a), ~(a < DataSetAddress) PROVE FALSE
    <3>1. DataSetAddress <= a
      BY <1>1, <2>4, FlashAssumption DEF IInv, TypeOK, Position, DataSetSize, Address
    <3>2. mem'[D] = buf[b] /\ mem'[D][a] > 0
      BY <1>1, <2>1, <2>4 DEF InTurn
    <3>3. PICK d \in Address : D >= 1 /\ mem'[D - 1][d] > mem'[D][a]
      BY <2>3, <3>1, <3>2
    <3>4. D - 1 \in 0 .. D /\ D - 1 < D
      BY <1>2, <3>3
    <3>5. mem'[D - 1][d] < mem'[D][a]
      BY <2>4, <3>4 DEF InTurn
    <3>6. mem'[D][a] \in Int /\ mem'[D - 1][d] \in Int
      <4>1. \A c \in Cell : c \in Int
        BY DEF Cell, Filler, Erased, Blank, NullHeader, Header
      <4>2. IInv'
        BY ChipStepInv
      <4>3. D - 1 \in Pages
        BY <1>2, <1>3, <3>3 DEF Pages
      <4>4. mem' \in [Pages -> [Address -> Cell]]
        BY <4>2 DEF IInv, TypeOK, FlashTypeOK
      <4>5. QED
        BY <4>1, <4>3, <4>4
    <3>7. QED
      BY <3>3, <3>5, <3>6
  <2>5. QED
    BY <2>2, <2>3, <2>4
<1>11. QED
  BY <1>9, <1>10

\* A full page has reached the array.
LEMMA FullSaved ==
  ASSUME Planned, Layout, IInv, SavedInv, ChipStep, busy.op = "program", pc # "saveWait"
  PROVE  ShapeInv' /\ CarryInv'
<1> DEFINE D == DataPageAddress
           b == BufferInUse
           P == busy.page
<1>1. /\ Collecting /\ P \in Pages /\ b \in Buffers
      /\ mem'[P] = buf[busy.buffer]
      /\ \A p \in Pages : p # P => mem'[p] = mem[p]
      /\ \A p \in Pages : mem'[p] = Row(p) /\ Row(p)' = Row(p)
      /\ buf' = buf /\ busy'.op = "idle" /\ pc' = pc
      /\ BufferInUse' = b /\ DataPageAddress' = D /\ DataSetAddress' = DataSetAddress /\ Collecting'
      /\ nextSet' = nextSet
  BY ProgramIs, CollectingType
<1>2. /\ HoldsTo(buf[busy.buffer], PageSize - 1)
      /\ D = P + 1 \/ (D = 0 /\ ~HasRoom)
  BY DEF SavedInv, BusyInv
<1>3. LastPage \in Nat /\ LastPage >= 1 /\ LastPage \in Pages /\ LastPage - 1 \in Pages /\ P \in Nat
  BY <1>1, FlashAssumption DEF Layout, Pages
<1>4. Current' = Current /\ CurrentEnd' = CurrentEnd
  BY <1>1 DEF Current, CurrentEnd
<1> HIDE DEF D, b, P
<1>5. mem'[P][0] = Header
  BY <1>1, <1>2, RowFacts
<1>6. HasRoom' => HasRoom /\ P # LastPage - 1 /\ P # LastPage
  BY <1>1, <1>3, <1>5 DEF HasRoom
<1>7. HasRoom' => D = P + 1 /\ D # P
  BY <1>2, <1>3, <1>6
<1>8. ShapeInv'
  <2>1. ASSUME HasRoom', NEW p \in Pages, p > D PROVE IsErased(mem'[p])
    <3>1. IsErased(mem[p])
      BY <1>1, <1>6, <2>1 DEF SavedInv, ShapeInv, D
    <3>2. p # P
      BY <1>3, <1>7, <2>1
    <3>3. QED
      BY <1>1, <3>1, <3>2
  <2>2. \A p \in Pages : p < D /\ p # ChipPage(D) => LooksFull(Row(p)')
    BY <1>1 DEF SavedInv, ShapeInv, D
  <2>3. QED
    BY <1>1, <2>1, <2>2 DEF ShapeInv
<1>9. CarryInv'
  <2> SUFFICES ASSUME HasRoom', D \in Pages PROVE CarryInv'
    BY <1>1 DEF CarryInv
  <2>1. HasRoom /\ D = P + 1 /\ D # P
    BY <1>6, <1>7
  <2>2. IsErased(mem[D]) /\ mem'[D] = mem[D]
    BY <1>1, <2>1 DEF SavedInv, ShapeInv, D
  <2>3. \A a \in Address : ~InTurn(mem, DataPageAddress, a)'
    BY <1>1, <2>2, NoneInErased DEF InTurn
  <2>4. Row(DataPageAddress - 1)' = Row(D - 1)
    <3>1. D - 1 = P
      BY <1>3, <2>1
    <3>2. QED
      BY <1>1, <3>1 DEF Row
  <2>5. \A a \in Address : CurrentEnd <= a /\ Current[a] > 0 =>
          D >= 1 /\ \E d \in Address : Row(D - 1)[d] > Current[a]
    BY <1>1, <2>1 DEF SavedInv, CarryInv, D
  <2>6. Carries(DataPageAddress, buf[BufferInUse])'
    BY <2>3 DEF Carries
  <2>7. QED
    BY <1>1, <1>4, <2>3, <2>4, <2>5, <2>6 DEF CarryInv
<1>10. QED
  BY <1>8, <1>9

\* A program ends.
LEMMA ProgrammedSaved ==
  ASSUME Planned, Layout, IInv, SavedInv, ChipStep, busy.op = "program"
  PROVE  SavedInv'
<1>1. /\ busy.page \in Pages /\ busy.buffer \in Buffers /\ Collecting
      /\ mem'[busy.page] = buf[busy.buffer]
      /\ \A p \in Pages : p # busy.page => mem'[p] = mem[p]
      /\ WellFormed(buf[busy.buffer])
      /\ buf' = buf /\ busy'.op = "idle" /\ nextSet' = nextSet
      /\ pc' = pc /\ pc \in {"idle", "addData", "addFull", "saveWait"}
      /\ BufferInUse' = BufferInUse /\ DataPageAddress' = DataPageAddress
      /\ DataSetAddress' = DataSetAddress /\ (Collecting' <=> Collecting)
  BY ProgramIs
<1>2. Current' = Current /\ CurrentEnd' = CurrentEnd
  BY <1>1 DEF Current, CurrentEnd
<1>3. RowsInv'
  <2>1. \A p \in Pages : WellFormed(mem'[p])
    BY <1>1 DEF SavedInv, RowsInv
  <2>2. QED
    BY <1>1, <1>2, <2>1 DEF SavedInv, RowsInv
<1>4. BusyInv' /\ ScanInv'
  BY <1>1 DEF BusyInv, ScanInv, InScan
<1>5. ValuesInv'
  <2>1. \A p \in Pages, a \in Address : mem'[p][a] < nextSet
    BY <1>1 DEF SavedInv, ValuesInv
  <2>2. QED
    BY <1>1, <2>1 DEF SavedInv, ValuesInv
<1>6. ShapeInv' /\ CarryInv'
  BY PartialSaved, FullSaved
<1>7. QED
  BY <1>3, <1>4, <1>5, <1>6 DEF SavedInv

\* The chip ends an operation.
LEMMA ChipStepSaved ==
  ASSUME Planned, Layout, IInv, SavedInv, ChipStep
  PROVE  SavedInv'
<1>1. busy.op \in {"program", "load"}
  BY DEF ChipStep, FlashDone, Ready, IInv, TypeOK, FlashTypeOK, Operation
<1>2. QED
  BY <1>1, LoadedSaved, ProgrammedSaved

\* A restart between two operations.
LEMMA PlannedResetSaved ==
  ASSUME Planned, Layout, IInv, SavedInv, PlannedReset
  PROVE  SavedInv'
<1>1. /\ pc = "idle" /\ pc' = "boot" /\ busy.op = "idle"
      /\ mem' = mem /\ buf' = buf /\ busy' = busy /\ nextSet' = nextSet
      /\ ~Collecting' /\ BufferInUse' = 0 /\ (HasRoom' <=> HasRoom)
  BY DEF PlannedReset, Restart, Ready, Collecting, HasRoom, flashVars
<1>2. RowsInv' /\ ValuesInv'
  BY <1>1 DEF SavedInv, RowsInv, ValuesInv
<1>3. BusyInv' /\ ScanInv'
  BY <1>1 DEF BusyInv, ScanInv, InScan
<1>4. HasRoom => \E t \in Pages : UsedTo(t)
  <2>1. CASE Collecting /\ HasRoom
    <3>1. /\ DataPageAddress \in Pages
          /\ \A p \in Pages : p < DataPageAddress => LooksFull(mem[p])
      BY <1>1, <2>1, BelowPage
    <3>2. \A p \in Pages : p > DataPageAddress => IsErased(mem[p])
      BY <2>1 DEF SavedInv, ShapeInv
    <3>3. QED
      BY <3>1, <3>2 DEF UsedTo
  <2>2. CASE ~Collecting
    BY <2>2 DEF SavedInv, ShapeInv
  <2>3. QED
    BY <2>1, <2>2
<1>5. ShapeInv'
  <2>1. \A t : UsedTo(t)' <=> UsedTo(t)
    BY <1>1 DEF UsedTo
  <2>2. QED
    BY <1>1, <1>4, <2>1 DEF ShapeInv
<1>6. CarryInv'
  BY <1>1 DEF CarryInv
<1>7. QED
  BY <1>2, <1>3, <1>5, <1>6 DEF SavedInv

\* A step that changes nothing.
LEMMA StutterSaved ==
  ASSUME SavedInv, UNCHANGED vars
  PROVE  SavedInv'
<1>1. /\ UNCHANGED <<mem, buf, busy, DataSetAddress, DataPageAddress, BufferInUse>>
      /\ UNCHANGED <<DataloggerInitalized, pc, scan, nextSet>>
  BY DEF vars, flashVars, loggerVars, historyVars
<1>2. RowsInv'
  BY <1>1 DEF SavedInv, RowsInv, Collecting, Current, CurrentEnd
<1>3. BusyInv' /\ ValuesInv'
  BY <1>1 DEF SavedInv, BusyInv, ValuesInv, HasRoom, Collecting
<1>4. ShapeInv'
  BY <1>1 DEF SavedInv, ShapeInv, HasRoom, Collecting, Row, UsedTo
<1>5. ScanInv'
  BY <1>1 DEF SavedInv, ScanInv, InScan, Collecting
<1>6. CarryInv'
  BY <1>1 DEF SavedInv, CarryInv, HasRoom, Collecting, Carries, Current, CurrentEnd, Row
<1>7. QED
  BY <1>2, <1>3, <1>4, <1>5, <1>6 DEF SavedInv

\* The invariant is inductive.
THEOREM SavedNext ==
  ASSUME Planned, Layout, IInv, SavedInv, [Next]_vars
  PROVE  SavedInv'
<1>1. ~(InitCommand \/ Reset \/ PowerLoss)
  BY DEF Planned, InitCommand, Command, Reset, PowerLoss
<1>2. CASE Boot \/ ScanCopy \/ ScanRead \/ ScanNextPage \/ ScanEnd
  BY <1>2, BootSaved, ScanCopySaved, ScanReadSaved, ScanNextPageSaved, ScanEndSaved
<1>3. CASE AddHeader \/ AddData \/ AddNotFull \/ AddFull
  BY <1>3, AddHeaderSaved, AddDataSaved, AddNotFullSaved, AddFullSaved
<1>4. CASE Datalogger_SaveDataToFlash \/ SaveWait \/ Datalogger_ReadBackData
  BY <1>4, SaveSaved, SaveWaitSaved, ReadBackSaved
<1>5. CASE ChipStep \/ PlannedReset
  BY <1>5, ChipStepSaved, PlannedResetSaved
<1>6. CASE UNCHANGED vars
  BY <1>6, StutterSaved
<1>7. QED
  BY <1>1, <1>2, <1>3, <1>4, <1>5, <1>6 DEF Next, Continue

-----------------------------------------------------------------------------
(***************************************************************************)
(* The theorem.                                                            *)
(***************************************************************************)
\* A program keeps what came into the array in its turn.
LEMMA ProgramKeeps ==
  ASSUME Layout, IInv, SavedInv, ChipStep, busy.op = "program", HasRoom,
         NEW p \in Pages, NEW a \in Address, InTurn(mem, p, a)
  PROVE  mem'[p][a] = mem[p][a] /\ InTurn(mem', p, a)
<1> DEFINE P == busy.page
<1>1. /\ P \in Pages /\ mem'[P] = buf[busy.buffer]
      /\ \A q \in Pages : q # P => mem'[q] = mem[q]
      /\ HasRoom
  BY ProgramIs
<1>2. ~(p > P)
  <2> SUFFICES ASSUME p > P PROVE IsErased(mem[p])
    BY NoneInErased DEF InTurn
  <2>1. Collecting
    BY ProgramIs
  <2>2. CASE pc = "saveWait"
    <3>1. P = DataPageAddress
      BY <2>1, <2>2, BelowPage DEF SavedInv, BusyInv
    <3>2. QED
      BY <2>1, <3>1 DEF SavedInv, ShapeInv
  <2>3. CASE pc # "saveWait"
    <3>1. DataPageAddress = P + 1
      BY <2>3 DEF SavedInv, BusyInv
    <3>2. p > DataPageAddress \/ p = DataPageAddress
      BY <1>1, <3>1 DEF Pages
    <3>3. QED
      BY <2>1, <2>3, <3>2 DEF SavedInv, ShapeInv
  <2>4. QED
    BY <2>2, <2>3
<1>3. CASE p = P
  <2>1. \A d \in 0 .. a : mem'[p][d] = mem[p][d]
    BY <1>1, <1>3 DEF SavedInv, CarryInv, Carries
  <2>2. a \in 0 .. a /\ \A d \in Address : d < a => d \in 0 .. a
    BY DEF Address
  <2>3. \A q \in 0 .. p : q < p => q \in Pages /\ mem'[q] = mem[q]
    BY <1>1, <1>3, FlashAssumption DEF Pages
  <2>4. \A q \in 0 .. p : q < p \/ q = p
    BY DEF Pages
  <2>5. QED
    BY <2>1, <2>2, <2>3, <2>4 DEF InTurn
<1>4. CASE p < P
  <2>1. \A q \in 0 .. p : q \in Pages /\ mem'[q] = mem[q]
    BY <1>1, <1>4, FlashAssumption DEF Pages
  <2>2. p \in 0 .. p
    BY DEF Pages
  <2>3. QED
    BY <2>1, <2>2 DEF InTurn
<1>5. QED
  BY <1>1, <1>2, <1>3, <1>4 DEF Pages

\* The pages change only when a program ends.
LEMMA OnlyPrograms ==
  ASSUME Planned, IInv, [Next]_vars
  PROVE  mem' = mem \/ (ChipStep /\ busy.op = "program")
<1>1. ~(InitCommand \/ Reset \/ PowerLoss)
  BY DEF Planned, InitCommand, Command, Reset, PowerLoss
<1>2. CASE Boot \/ ScanCopy \/ ScanRead \/ ScanNextPage \/ ScanEnd
  BY <1>2 DEF Boot, Datalogger_Init, ScanCopy, ScanRead, ScanNextPage, ScanEnd, flashVars
<1>3. CASE AddHeader \/ AddData \/ AddNotFull \/ AddFull
  BY <1>3 DEF AddHeader, AddData, AddNotFull, AddFull, flashVars
<1>4. CASE Datalogger_SaveDataToFlash \/ SaveWait \/ Datalogger_ReadBackData
  BY <1>4 DEF Datalogger_SaveDataToFlash, SaveWait, Datalogger_ReadBackData, flashVars
<1>5. CASE ChipStep \/ PlannedReset
  BY <1>5 DEF ChipStep, FlashDone, PlannedReset, flashVars
<1>6. CASE UNCHANGED vars
  BY <1>6 DEF vars, flashVars
<1>7. QED
  BY <1>1, <1>2, <1>3, <1>4, <1>5, <1>6 DEF Next, Continue

\* No step overwrites a saved set while there is room.
LEMMA NoStepOverwrites ==
  ASSUME Planned, Layout, IInv, SavedInv, [Next]_vars
  PROVE  NoSetOverwritten
<1> SUFFICES ASSUME HasRoom, NEW s \in Saved(mem) PROVE s \in Saved(mem')
  BY DEF NoSetOverwritten
<1>1. CASE mem' = mem
  BY <1>1
<1>2. CASE ChipStep /\ busy.op = "program"
  <2>1. PICK p \in Pages, a \in Address : mem[p][a] = s /\ InTurn(mem, p, a)
    BY DEF Saved
  <2>2. mem'[p][a] = s /\ InTurn(mem', p, a)
    BY <1>2, <2>1, ProgramKeeps
  <2>3. s \in Nat \ {0}
    BY DEF Saved, SetsIn
  <2>4. QED
    BY <2>2, <2>3 DEF Saved, SetsIn
<1>3. QED
  BY <1>1, <1>2, OnlyPrograms

\* A data set that has come into the array in its turn is not overwritten
\* while there is room, for every size of the array and of its pages, any
\* number of data sets, partial saves, read backs and planned restarts: the
\* program that adds to a page carries along what the page held.
THEOREM SetsStay == Planned /\ Layout /\ Spec => SavedSetsStay
<1>1. Planned /\ Layout /\ Init => IInv /\ SavedInv
  BY InitInv, SavedInit
<1>2. Planned /\ Layout /\ IInv /\ SavedInv /\ [Next]_vars => IInv' /\ SavedInv'
  BY NextInv, SavedNext
<1>3. Planned /\ Layout /\ IInv /\ SavedInv /\ [Next]_vars => [NoSetOverwritten]_vars
  BY NoStepOverwrites
<1>4. Planned /\ Layout => (Planned /\ Layout)'
  BY DEF Planned, Paced, Layout
<1>5. QED
  BY <1>1, <1>2, <1>3, <1>4, PTL DEF Spec, SavedSetsStay

-----------------------------------------------------------------------------
(***************************************************************************)
(* Data sets by number.                                                    *)
(***************************************************************************)
\* The data sets before a page.
Before(p) == p * PerPage

\* A page is data sets of two cells, and one cell.
LEMMA PageIs ==
  ASSUME Layout
  PROVE  PerPage \in Nat /\ PerPage >= 1 /\ PageSize = 2 * PerPage + 1
BY FlashAssumption DEF Layout, PerPage, DataSetSize

\* Page by page the data sets add up.
LEMMA BeforeIs ==
  ASSUME Layout
  PROVE  /\ Before(0) = 0
         /\ \A p \in Nat : Before(p) \in Nat /\ Before(p + 1) = Before(p) + PerPage
         /\ \A p, q \in Nat : p < q => Before(p) + PerPage <= Before(q)
<1>1. PerPage \in Nat
  BY PageIs
<1>2. \A p \in Nat : Before(p) \in Nat /\ Before(p + 1) = Before(p) + PerPage
  BY <1>1 DEF Before
<1>3. ASSUME NEW p \in Nat, NEW q \in Nat, p < q PROVE Before(p) + PerPage <= Before(q)
  <2>1. PICK d \in Nat : q = (p + 1) + d
    <3>1. q - (p + 1) \in Nat
      BY <1>3
    <3>2. q = (p + 1) + (q - (p + 1))
      OBVIOUS
    <3>3. QED
      BY <3>1, <3>2
  <2>2. q * PerPage = p * PerPage + PerPage + d * PerPage
    BY <1>1, <2>1
  <2>3. d * PerPage \in Nat /\ p * PerPage \in Nat
    BY <1>1
  <2>4. QED
    BY <1>1, <2>2, <2>3 DEF Before
<1>4. QED
  BY <1>1, <1>2, <1>3 DEF Before

\* The place of a data set, from its page and its number in the page.
LEMMA PlaceIs ==
  ASSUME Layout, NEW p \in Nat, NEW s \in Nat, s < PerPage
  PROVE  PageOfSet(Before(p) + s + 1) = p /\ HeaderOfSet(Before(p) + s + 1) = 2 * s
<1>1. PerPage \in Nat /\ PerPage >= 1 /\ p * PerPage \in Nat
  BY PageIs
<1>2. (p * PerPage + s + 1) - 1 = p * PerPage + s
  BY <1>1
<1>3. (p * PerPage + s) \div PerPage = p
  BY <1>1
<1>4. (p * PerPage + s) % PerPage = s
  BY <1>1
<1>5. QED
  BY <1>2, <1>3, <1>4 DEF PageOfSet, HeaderOfSet, DataSetSize, Before

\* Every number has such a place.
LEMMA PlaceOf ==
  ASSUME Layout, NEW n \in Nat \ {0}
  PROVE  \E p \in Nat, s \in Nat : s < PerPage /\ n = Before(p) + s + 1
<1>1. PerPage \in Nat /\ PerPage >= 1 /\ n - 1 \in Nat
  BY PageIs
<1>2. /\ (n - 1) \div PerPage \in Nat /\ (n - 1) % PerPage \in Nat
      /\ (n - 1) % PerPage < PerPage
      /\ n - 1 = (((n - 1) \div PerPage) * PerPage) + ((n - 1) % PerPage)
  BY <1>1
<1>3. n = (((n - 1) \div PerPage) * PerPage) + ((n - 1) % PerPage) + 1
  <2>1. ((n - 1) \div PerPage) * PerPage \in Nat
    BY <1>1, <1>2
  <2>2. QED
    BY <1>2, <2>1
<1>4. QED
  BY <1>2, <1>3 DEF Before

\* Below or not below a page, by number or by page.
LEMMA PageOrder ==
  ASSUME Layout, NEW p \in Nat, NEW q \in Nat, NEW s \in Nat, s < PerPage
  PROVE  /\ p < q => Before(p) + s + 1 <= Before(q)
         /\ q <= p => Before(p) + s + 1 > Before(q)
<1>1. /\ PerPage \in Nat /\ Before(p) \in Nat /\ Before(q) \in Nat
      /\ p < q => Before(p) + PerPage <= Before(q)
      /\ q < p => Before(q) + PerPage <= Before(p)
  BY PageIs, BeforeIs
<1>2. CASE p < q
  BY <1>1, <1>2
<1>3. CASE q < p
  BY <1>1, <1>3
<1>4. CASE p = q
  BY <1>1, <1>4
<1>5. QED
  BY <1>2, <1>3, <1>4

-----------------------------------------------------------------------------
(***************************************************************************)
(* The order in which the pages are filled, until the first restart.  The  *)
(* page filled in turn t holds the data sets that are numbered from        *)
(* Before(t) + 1 on; after the last page comes the first again.            *)
(***************************************************************************)
\* The page holds the data sets of its turn, and no others; before the first
\* turn it holds none.
Numbered(row, t) ==
  \A a \in Address :
    IF t >= 0 /\ a % 2 = 1 THEN row[a] = Before(t) + (a \div 2) + 1 ELSE ~(row[a] > 0)

\* How many turns before page d page p was filled.
Age(d, p) == IF p < d THEN d - p ELSE (d - p) + (LastPage + 1)
After(p)  == IF p = LastPage THEN 0 ELSE p + 1


\* The logger collects turn t: what it has added is in its buffer, the other
\* pages were filled in their turns, and while the page before is still on
\* its way to the array the page collected holds what it will overwrite.
TurnInv(t) ==
  /\ DataPageAddress \in Pages
  /\ nextSet = Before(t) + (DataSetAddress \div DataSetSize) + 1
  /\ \A a \in Address :
       a < DataSetAddress /\ a % 2 = 1 => buf[BufferInUse][a] = Before(t) + (a \div 2) + 1
  /\ \A p \in Pages \ {DataPageAddress} : Numbered(Row(p), t - Age(DataPageAddress, p))
  /\ busy.op = "program" /\ pc # "saveWait" =>
       /\ DataPageAddress = After(busy.page)
       /\ Numbered(mem[DataPageAddress], t - (LastPage + 1))
       /\ \A p \in Pages, a \in Address : mem[p][a] <= Before(t)

OldInv ==
  restarts = 0 =>
    IF Collecting THEN \E t \in Nat : TurnInv(t)
                  ELSE nextSet = 1 /\ \A p \in Pages : IsErased(mem[p])

\* The ages of the other pages are those between this turn and the last one
\* of the page itself; a turn later they are one more.
LEMMA AgeIs ==
  ASSUME Layout, NEW d \in Pages
  PROVE  /\ \A p \in Pages \ {d} : Age(d, p) \in 1 .. LastPage
         /\ \A j \in 1 .. LastPage : \E p \in Pages \ {d} : Age(d, p) = j
         /\ After(d) \in Pages \ {d} /\ Age(After(d), d) = 1 /\ Age(d, After(d)) = LastPage
         /\ \A p \in Pages \ {d, After(d)} : Age(After(d), p) = Age(d, p) + 1
<1>1. LastPage \in Nat /\ LastPage >= 1 /\ d \in Nat /\ d <= LastPage
  BY FlashAssumption DEF Layout, Pages
<1>2. \A p \in Pages \ {d} : Age(d, p) \in 1 .. LastPage
  BY <1>1 DEF Age, Pages
<1>3. ASSUME NEW j \in 1 .. LastPage PROVE \E p \in Pages \ {d} : Age(d, p) = j
  <2>1. CASE j <= d
    <3>1. d - j \in Pages \ {d} /\ Age(d, d - j) = j
      BY <1>1, <2>1 DEF Age, Pages
    <3>2. QED
      BY <3>1
  <2>2. CASE ~(j <= d)
    <3>1. (d - j) + (LastPage + 1) \in Pages \ {d} /\ Age(d, (d - j) + (LastPage + 1)) = j
      BY <1>1, <2>2 DEF Age, Pages
    <3>2. QED
      BY <3>1
  <2>3. QED
    BY <2>1, <2>2
<1>4. After(d) \in Pages \ {d} /\ Age(After(d), d) = 1 /\ Age(d, After(d)) = LastPage
  BY <1>1 DEF Age, After, Pages
<1>5. \A p \in Pages \ {d, After(d)} : Age(After(d), p) = Age(d, p) + 1
  BY <1>1 DEF Age, After, Pages
<1>6. QED
  BY <1>2, <1>3, <1>4, <1>5

\* Where in its page a data set is, from its number in the turn.
LEMMA PlaceInPage ==
  ASSUME Layout, NEW s \in Nat, s < PerPage
  PROVE  2 * s + 1 \in Address /\ (2 * s + 1) % 2 = 1 /\ (2 * s + 1) \div 2 = s
<1>1. PerPage \in Nat /\ PageSize = 2 * PerPage + 1
  BY PageIs
<1>2. QED
  BY <1>1 DEF Address

\* What is older than the turn is in one of the other pages, or older than
\* everything in them.
LEMMA InRing ==
  ASSUME Layout, NEW m, NEW d \in Pages, NEW t \in Int,
         \A p \in Pages \ {d} : Numbered(m[p], t - Age(d, p)),
         NEW s \in Nat \ {0}, t >= 0 => s <= Before(t)
  PROVE  \/ \E p \in Pages \ {d}, a \in Address : m[p][a] = s
         \/ \A p \in Pages \ {d}, a \in Address : m[p][a] > 0 => s < m[p][a]
<1>1. PICK k \in Nat, i \in Nat : i < PerPage /\ s = Before(k) + i + 1
  BY PlaceOf
<1>2. (LastPage \in Nat /\ k < t) \/ t < 0
  <2>1. t \in Nat /\ t <= k => s > Before(t)
    BY <1>1, PageOrder
  <2>2. Before(k) \in Nat /\ (t \in Nat => Before(t) \in Nat)
    BY BeforeIs
  <2>3. QED
    BY <1>1, <2>1, <2>2, FlashAssumption
<1>3. CASE t >= 0 /\ t - k <= LastPage
  <2>1. t - k \in 1 .. LastPage
    BY <1>2, <1>3, FlashAssumption
  <2>2. PICK p \in Pages \ {d} : Age(d, p) = t - k
    BY <2>1, AgeIs
  <2>3. Numbered(m[p], k)
    <3>1. t - (t - k) = k
      OBVIOUS
    <3>2. QED
      BY <2>2, <3>1
  <2>4. 2 * i + 1 \in Address /\ (2 * i + 1) % 2 = 1 /\ (2 * i + 1) \div 2 = i
    BY <1>1, PlaceInPage
  <2>5. m[p][2 * i + 1] = s
    BY <1>1, <2>3, <2>4 DEF Numbered
  <2>6. QED
    BY <2>4, <2>5
<1>4. CASE t < 0 \/ t - k > LastPage
  <2> SUFFICES ASSUME NEW p \in Pages \ {d}, NEW a \in Address, m[p][a] > 0 PROVE s < m[p][a]
    OBVIOUS
  <2> DEFINE u == t - Age(d, p)
  <2>1. Age(d, p) \in 1 .. LastPage /\ LastPage \in Nat /\ Numbered(m[p], u)
    BY AgeIs, FlashAssumption
  <2>2. u \in Int
    BY <2>1
  <2>3. u >= 0 /\ m[p][a] = Before(u) + (a \div 2) + 1
    BY <2>1 DEF Numbered
  <2>4. u \in Nat /\ k < u
    BY <1>4, <2>1, <2>3
  <2>5. s <= Before(u)
    BY <1>1, <2>4, PageOrder
  <2>6. a \div 2 \in Nat /\ Before(u) \in Nat
    BY <2>4, BeforeIs DEF Address
  <2> HIDE DEF u
  <2>7. QED
    BY <2>3, <2>5, <2>6
<1>5. QED
  BY <1>2, <1>3, <1>4, FlashAssumption

\* The pages but the one of this turn are in the array.
LEMMA RingOf ==
  ASSUME NEW t, TurnInv(t), busy.op = "program" => busy.page = DataPageAddress
  PROVE  \A p \in Pages \ {DataPageAddress} : Numbered(mem[p], t - Age(DataPageAddress, p))
BY DEF TurnInv, Row

\* A step that leaves alone what the logger collects, the array and what is
\* on its way there.
Aside ==
  /\ UNCHANGED <<mem, loggerVars, nextSet, restarts>>
  /\ Collecting => buf'[BufferInUse] = buf[BufferInUse]
  /\ \/ busy' = busy /\ buf' = buf /\ (pc' = "saveWait" <=> pc = "saveWait")
     \/ busy.op # "program" /\ busy'.op # "program"

\* Such a step leaves the turn as it is.
LEMMA AsideOld ==
  ASSUME OldInv, Aside PROVE OldInv'
<1>1. /\ mem' = mem /\ nextSet' = nextSet /\ restarts' = restarts /\ (Collecting' <=> Collecting)
      /\ DataPageAddress' = DataPageAddress /\ DataSetAddress' = DataSetAddress
      /\ BufferInUse' = BufferInUse
  BY DEF Aside, loggerVars, Collecting
<1>2. \A p : Row(p)' = Row(p)
  BY DEF Aside, Row
<1>3. ASSUME NEW t \in Nat, Collecting, TurnInv(t) PROVE TurnInv(t)'
  <2>1. buf'[BufferInUse] = buf[BufferInUse]
    BY <1>3 DEF Aside
  <2>2. busy'.op = "program" /\ pc' # "saveWait" =>
          busy.op = "program" /\ pc # "saveWait" /\ busy' = busy
    BY DEF Aside
  <2>3. QED
    BY <1>1, <1>2, <1>3, <2>1, <2>2 DEF TurnInv
<1>4. QED
  BY <1>1, <1>3 DEF OldInv

\* The logger starts with an erased array.
LEMMA OldInit == Init => OldInv
<1> SUFFICES ASSUME Init PROVE OldInv
  OBVIOUS
<1>1. ~Collecting /\ nextSet = 1 /\ \A p \in Pages : IsErased(mem[p])
  BY DEF Init, FlashInit, PageOf, IsErased, Collecting
<1>2. QED
  BY <1>1 DEF OldInv

\* The steps of a walk, and those that only wait.
LEMMA WalkOld ==
  ASSUME Planned, Layout, IInv, SavedInv, OldInv,
         \/ Boot \/ ScanCopy \/ ScanRead \/ ScanNextPage
         \/ AddNotFull \/ SaveWait \/ Datalogger_ReadBackData \/ UNCHANGED vars
  PROVE  OldInv'
<1>1. UNCHANGED <<mem, buf, loggerVars, nextSet, restarts>>
  BY DEF Planned, Paced, Boot, Datalogger_Init, ScanCopy, ScanRead, ScanNextPage, AddNotFull,
         SaveWait, Datalogger_ReadBackData, flashVars, historyVars, vars
<1>2. CASE ScanCopy
  <2>1. busy.op = "idle" /\ busy'.op = "load"
    BY <1>2, IdleBefore DEF ScanCopy, CopyPageToBuffer, Issue, Ready
  <2>2. QED
    BY <1>1, <2>1, AsideOld DEF Aside
<1>3. CASE ~ScanCopy
  <2>1. busy' = busy
    BY <1>3 DEF Planned, Paced, Boot, Datalogger_Init, ScanRead, ScanNextPage, AddNotFull,
           SaveWait, Datalogger_ReadBackData, flashVars, vars
  <2>2. busy.op # "program" \/ (pc' = "saveWait" <=> pc = "saveWait")
    BY <1>3 DEF Planned, Paced, Boot, Datalogger_Init, StartScan, ScanRead, ScanNextPage,
           AddNotFull, SaveWait, Ready, Datalogger_ReadBackData, Command, vars
  <2>3. QED
    BY <1>1, <2>1, <2>2, AsideOld DEF Aside
<1>4. QED
  BY <1>2, <1>3

\* The first walk ends where it began, and turn 0 begins.
LEMMA ScanEndOld ==
  ASSUME Planned, Layout, IInv, SavedInv, OldInv, ScanEnd
  PROVE  OldInv'
<1>1. /\ pc = "scanFull" /\ pc' = "idle" /\ UNCHANGED <<flashVars, nextSet, restarts>>
      /\ busy.op = "idle"
  BY IdleBefore DEF ScanEnd
<1>2. CASE scan.goal = "read"
  <2>1. Aside
    BY <1>1, <1>2 DEF ScanEnd, Aside, flashVars
  <2>2. QED
    BY <2>1, AsideOld
<1>3. CASE scan.goal # "read" /\ restarts = 0
  <2>1. scan.goal = "init"
    BY <1>3 DEF IInv, TypeOK, Walk
  <2>2. /\ HoldsTo(mem[scan.page], scan.addr) /\ scan.addr \in Ends /\ scan.page \in Pages
        /\ \A p \in Pages : p < scan.page => LooksFull(mem[p])
        /\ ~Collecting
    BY <1>1, <2>1, WalkedTo
  <2>3. nextSet = 1 /\ \A p \in Pages : IsErased(mem[p])
    BY <1>3, <2>2 DEF OldInv
  <2>4. LastPage \in Nat /\ LastPage >= 1 /\ PageSize \in Nat /\ PageSize >= 3
        /\ ErasedSize \in Nat /\ ErasedSize <= PageSize
    BY FlashAssumption, LoggerAssumption DEF Layout
  <2>5. scan.page = 0
    <3>1. 0 \in Pages /\ ~LooksFull(mem[0])
      BY <2>3, <2>4, RowFacts DEF Pages
    <3>2. ~(0 < scan.page)
      BY <2>2, <3>1
    <3>3. QED
      BY <2>2, <3>2 DEF Pages
  <2>6. scan.addr = 0
    <3>1. 0 \in Address /\ mem[scan.page][0] = Erased /\ scan.addr \in Nat
      BY <2>2, <2>3, <2>4 DEF IsErased, Address, Ends
    <3>2. ~(0 < scan.addr)
      BY <2>2, <3>1, SMT DEF HoldsTo, Header, Erased
    <3>3. QED
      BY <3>1, <3>2
  <2>7. scan.size = ErasedSize
    BY <1>1, <2>1 DEF SavedInv, ScanInv, InScan
  <2>8. PlaceLogger([page |-> 0, addr |-> 0]) /\ [page |-> 0, addr |-> 0] # Full
    <3>1. ~(scan.addr + scan.size > PageSize)
      BY <2>4, <2>6, <2>7
    <3>2. FoundPlace(scan.page, scan.addr) = [page |-> 0, addr |-> 0]
      BY <2>4, <2>5, <2>6 DEF FoundPlace
    <3>3. [page |-> 0, addr |-> 0] # Full
      BY <2>4 DEF Full
    <3>4. QED
      BY <1>3, <3>1, <3>2, <3>3 DEF ScanEnd
  <2>9. /\ DataSetAddress' = 0 /\ DataPageAddress' = 0 /\ Collecting'
    BY <2>8 DEF PlaceLogger, Collecting
  <2>10. TurnInv(0)'
    <3>1. 0 \in Pages /\ Before(0) = 0 /\ 0 \div DataSetSize = 0
      BY <2>4, BeforeIs DEF Pages, DataSetSize
    <3>2. \A a \in Address : ~(a < 0)
      BY DEF Address
    <3>3. ASSUME NEW p \in Pages \ {0} PROVE Numbered(mem[p], 0 - Age(0, p))
      <4>1. Age(0, p) \in 1 .. LastPage
        BY <3>1, AgeIs
      <4>2. ~(0 - Age(0, p) >= 0)
        BY <2>4, <4>1
      <4>3. QED
        BY <2>3, <4>2, NoneInErased DEF Numbered
    <3>4. \A p : Row(p)' = mem[p]
      BY <1>1 DEF Row, flashVars
    <3>5. busy'.op = "idle" /\ mem' = mem /\ nextSet' = 1
      BY <1>1, <2>3 DEF flashVars
    <3>6. QED
      BY <2>9, <3>1, <3>2, <3>3, <3>4, <3>5 DEF TurnInv
  <2>11. QED
    BY <2>9, <2>10 DEF OldInv
<1>4. CASE restarts # 0
  BY <1>1, <1>4 DEF OldInv
<1>5. QED
  BY <1>2, <1>3, <1>4

\* Header and payload of the next data set of the turn.
LEMMA AddOld ==
  ASSUME Planned, Layout, IInv, SavedInv, OldInv, AddHeader \/ AddData
  PROVE  OldInv'
<1> DEFINE b == BufferInUse
           e == DataSetAddress
<1>1. /\ Collecting /\ mem' = mem /\ busy' = busy /\ restarts' = restarts
      /\ DataPageAddress' = DataPageAddress /\ BufferInUse' = b /\ DataSetAddress' = e + 1
      /\ (Collecting' <=> Collecting)
      /\ pc \in {"idle", "addData"} /\ pc' \in {"addData", "addFull"}
  BY DEF AddHeader, AddData, Command, Collecting, historyVars, IInv, InitalizedInv
<1>2. /\ b \in Buffers /\ buf[b] \in [Address -> Cell] /\ nextSet \in Nat /\ PageSize \in Nat
      /\ busy.buffer \in Buffers
  BY <1>1, CollectingType, FlashAssumption DEF Operation
<1>3. /\ e \in Address /\ e \in Nat
      /\ IF AddHeader THEN e % 2 = 0 ELSE (e + 1) % 2 = 0
      /\ AddHeader => pc = "idle"
      /\ ~AddHeader => AddData /\ pc = "addData"
  <2>1. /\ CurrentEnd \in Ends /\ (pc = "idle" => CurrentEnd + DataSetSize <= PageSize)
        /\ e \in Nat
    BY <1>1 DEF SavedInv, RowsInv, IInv, TypeOK, Position
  <2>2. AddHeader => pc = "idle" /\ CurrentEnd = e
    BY DEF AddHeader, Command, CurrentEnd
  <2>3. ~AddHeader => AddData /\ pc = "addData" /\ CurrentEnd = e + 1
    BY DEF AddData, CurrentEnd
  <2>4. QED
    BY <1>2, <2>1, <2>2, <2>3 DEF Ends, Address
<1>4. SUFFICES ASSUME restarts = 0, NEW t \in Nat, TurnInv(t) PROVE TurnInv(t)'
  BY <1>1 DEF OldInv
<1>5. Before(t) \in Nat
  BY BeforeIs
<1>6. \A o \in Buffers : o # b => buf'[o] = buf[o]
  BY <1>1, <1>2, <1>3, WriteIs DEF AddHeader, AddData
<1>7. /\ nextSet' = Before(t) + (DataSetAddress' \div DataSetSize) + 1
      /\ \A a \in Address :
           a < DataSetAddress' /\ a % 2 = 1 => buf'[b][a] = Before(t) + (a \div 2) + 1
  <2>1. /\ nextSet = Before(t) + (e \div 2) + 1
        /\ \A a \in Address : a < e /\ a % 2 = 1 => buf[b][a] = Before(t) + (a \div 2) + 1
    BY <1>4 DEF TurnInv, DataSetSize
  <2>2. CASE AddHeader
    <3>1. nextSet' = nextSet /\ \A o \in Address : o # e => buf'[b][o] = buf[b][o]
      BY <1>2, <1>3, <2>2, WriteIs DEF AddHeader, historyVars
    <3>2. (e + 1) \div 2 = e \div 2
      BY <1>3, <2>2
    <3>3. \A a \in Address : a < e + 1 /\ a % 2 = 1 => a < e /\ a # e
      BY <1>3, <2>2 DEF Address
    <3>4. QED
      BY <1>1, <2>1, <3>1, <3>2, <3>3 DEF DataSetSize
  <2>3. CASE ~AddHeader
    <3>1. /\ nextSet' = nextSet + 1 /\ buf'[b][e] = nextSet
          /\ \A o \in Address : o # e => buf'[b][o] = buf[b][o]
      <4>1. BufferWrite(b, e, nextSet) /\ nextSet' = nextSet + 1
        BY <1>3, <2>3 DEF AddData
      <4>2. /\ buf'[b] = [buf[b] EXCEPT ![e] = nextSet]
            /\ \A o \in Buffers : o # b => buf'[o] = buf[o]
            /\ buf'[b][e] = nextSet
            /\ \A o \in Address : o # e => buf'[b][o] = buf[b][o]
        BY <1>2, <1>3, <4>1, WriteIs
      <4>3. QED
        BY <4>1, <4>2
    <3>2. (e + 1) \div 2 = (e \div 2) + 1 /\ e \div 2 \in Nat
      BY <1>3, <2>3
    <3>3. \A a \in Address : a < e + 1 => a < e \/ a = e
      BY <1>3 DEF Address
    <3>4. nextSet' = Before(t) + ((e + 1) \div 2) + 1
      BY <1>5, <2>1, <3>1, <3>2
    <3>5. QED
      BY <1>1, <2>1, <3>1, <3>3, <3>4 DEF DataSetSize
  <2>4. QED
    BY <2>2, <2>3
<1>8. busy.op = "program" => pc # "saveWait" /\ pc' # "saveWait" /\ buf'[busy.buffer] = buf[busy.buffer]
  BY <1>1, <1>2, <1>6 DEF SavedInv, BusyInv
<1>9. \A p : Row(p)' = Row(p)
  BY <1>1, <1>8 DEF Row
<1>10. QED
  BY <1>1, <1>4, <1>7, <1>8, <1>9 DEF TurnInv

\* A full page: the next turn begins.
LEMMA AddFullOld ==
  ASSUME Planned, Layout, IInv, SavedInv, OldInv, AddFull
  PROVE  OldInv'
<1> DEFINE b == BufferInUse
           D == DataPageAddress
<1>1. /\ pc = "addFull" /\ pc' = "idle" /\ PageIsFull /\ Collecting /\ busy.op = "idle"
      /\ mem' = mem /\ buf' = buf /\ nextSet' = nextSet /\ restarts' = restarts
      /\ BufferInUse' = SwitchedBuffer /\ DataPageAddress' = NextDataPage /\ DataSetAddress' = 0
      /\ (Collecting' <=> Collecting)
  BY DEF AddFull, Planned, Paced, Ready, Collecting, IInv, InitalizedInv
<1>2. SUFFICES ASSUME restarts = 0, NEW t \in Nat, TurnInv(t) PROVE TurnInv(t + 1)'
  BY <1>1 DEF OldInv
<1>3. /\ D \in Pages /\ LastPage \in Nat /\ LastPage >= 1 /\ PageSize \in Nat /\ nextSet \in Nat
      /\ D \in Nat /\ D <= LastPage
  BY <1>1, <1>2, CollectingType, FlashAssumption DEF TurnInv, Layout, Pages
<1>4. DataPageAddress' = After(D) /\ ChipPage(D) = D
  BY <1>1, <1>3 DEF NextDataPage, After, ChipPage
<1>5. busy' = [op |-> "program", buffer |-> b, page |-> D]
  BY <1>1, <1>4 DEF AddFull, CopyBufferToPage, Issue, Ready
<1>6. DataSetAddress = PageSize - 1 /\ HoldsTo(buf[b], PageSize - 1)
  <2>1. PICK e \in Ends : HoldsTo(buf[b], e) /\ DataSetAddress <= e
    BY <1>1 DEF SavedInv, RowsInv, Current, CurrentEnd
  <2>2. DataSetAddress \in Ends
    BY <1>1 DEF SavedInv, RowsInv, CurrentEnd
  <2>3. /\ DataSetAddress \in Nat /\ e \in Nat /\ e <= PageSize - 1
        /\ DataSetAddress + 2 > PageSize /\ DataSetSize = 2
    BY <1>1, <2>1, <2>2, EndsAre DEF PageIsFull, DataSetSize
  <2>4. e = PageSize - 1 /\ DataSetAddress = PageSize - 1
    BY <1>3, <2>1, <2>3
  <2>5. QED
    BY <2>1, <2>4
<1>7. /\ PerPage \in Nat /\ PageSize = 2 * PerPage + 1
      /\ Before(t) \in Nat /\ Before(t + 1) = Before(t) + PerPage
  BY PageIs, BeforeIs
<1>8. nextSet = Before(t + 1) + 1
  <2>1. (2 * PerPage) \div 2 = PerPage /\ PageSize - 1 = 2 * PerPage
    BY <1>7
  <2>2. nextSet = Before(t) + ((PageSize - 1) \div 2) + 1
    BY <1>2, <1>6 DEF TurnInv, DataSetSize
  <2>3. QED
    BY <1>7, <2>1, <2>2
<1>9. Numbered(buf[b], t)
  <2> SUFFICES ASSUME NEW a \in Address
               PROVE  IF t >= 0 /\ a % 2 = 1 THEN buf[b][a] = Before(t) + (a \div 2) + 1
                                             ELSE ~(buf[b][a] > 0)
    BY DEF Numbered
  <2>1. CASE a % 2 = 1
    <3>1. a < DataSetAddress
      BY <1>6, <1>7, <2>1, SMT DEF Address
    <3>2. QED
      BY <1>2, <2>1, <3>1 DEF TurnInv
  <2>2. CASE a % 2 # 1
    <3>1. buf[b][a] \in {Header, Erased}
      BY <1>6, <2>2, SMT DEF HoldsTo, Address
    <3>2. QED
      BY <2>2, <3>1 DEF Header, Erased
  <2>3. QED
    BY <2>1, <2>2
<1> HIDE DEF b, D
<1>10. /\ After(D) \in Pages \ {D} /\ Age(After(D), D) = 1 /\ Age(D, After(D)) = LastPage
       /\ \A p \in Pages \ {D, After(D)} : Age(After(D), p) = Age(D, p) + 1
       /\ \A p \in Pages \ {D} : Age(D, p) \in 1 .. LastPage
  BY <1>3, AgeIs
<1>11. \A p \in Pages \ {D} : Numbered(mem[p], t - Age(D, p))
  BY <1>1, <1>2, RingOf DEF D
<1>12. ASSUME NEW p \in Pages \ {After(D)} PROVE Numbered(Row(p)', (t + 1) - Age(After(D), p))
  <2>1. CASE p = D
    <3>1. Row(p)' = buf[b] /\ (t + 1) - 1 = t
      BY <1>1, <1>5, <2>1 DEF Row
    <3>2. QED
      BY <1>9, <1>10, <2>1, <3>1
  <2>2. CASE p # D
    <3>1. Row(p)' = mem[p]
      BY <1>1, <1>5, <2>2 DEF Row
    <3>2. (t + 1) - (Age(D, p) + 1) = t - Age(D, p)
      BY <1>10, <2>2
    <3>3. QED
      BY <1>10, <1>11, <2>2, <3>1, <3>2
  <2>3. QED
    BY <2>1, <2>2
<1>13. Numbered(mem[After(D)], (t + 1) - (LastPage + 1))
  <2>1. (t + 1) - (LastPage + 1) = t - LastPage
    BY <1>3
  <2>2. QED
    BY <1>10, <1>11, <2>1
<1>14. \A p \in Pages, a \in Address : mem[p][a] <= Before(t + 1)
  <2>1. \A p \in Pages, a \in Address : mem[p][a] < nextSet /\ mem[p][a] \in Int
    BY <1>1, CollectingType DEF SavedInv, ValuesInv, Cell, Filler, Header, Erased, Blank, NullHeader
  <2>2. QED
    BY <1>7, <1>8, <2>1
<1>15. nextSet' = Before(t + 1) + (DataSetAddress' \div DataSetSize) + 1
  <2>1. 0 \div 2 = 0
    OBVIOUS
  <2>2. QED
    BY <1>1, <1>7, <1>8, <2>1 DEF DataSetSize
<1>16. \A a \in Address : ~(a < DataSetAddress')
  BY <1>1 DEF Address
<1>17. QED
  BY <1>1, <1>4, <1>5, <1>10, <1>12, <1>13, <1>14, <1>15, <1>16 DEF TurnInv, D

\* A partial save begins: it goes to the page of this turn.
LEMMA SaveOld ==
  ASSUME Planned, Layout, IInv, SavedInv, OldInv, Datalogger_SaveDataToFlash
  PROVE  OldInv'
<1> DEFINE D == DataPageAddress
<1>1. /\ pc' = "saveWait" /\ Collecting /\ busy.op = "idle"
      /\ UNCHANGED <<mem, buf, loggerVars, nextSet, restarts>>
      /\ (Collecting' <=> Collecting)
  BY DEF Datalogger_SaveDataToFlash, Command, Planned, Paced, Ready, Collecting, loggerVars,
         historyVars
<1>2. SUFFICES ASSUME restarts = 0, NEW t \in Nat, TurnInv(t) PROVE TurnInv(t)'
  BY <1>1 DEF OldInv
<1>3. busy' = [op |-> "program", buffer |-> BufferInUse, page |-> D]
  <2>1. ChipPage(D) = D
    BY <1>2, FlashAssumption DEF TurnInv, ChipPage, Pages
  <2>2. QED
    BY <1>1, <2>1 DEF Datalogger_SaveDataToFlash, CopyBufferToPage, Issue, Ready
<1>4. \A p : p # D => Row(p)' = Row(p)
  BY <1>1, <1>3 DEF Row
<1>5. QED
  BY <1>1, <1>2, <1>4 DEF TurnInv, loggerVars

\* Which page a program goes to, and what the other pages hold by then: the
\* page of this turn, or the page of the turn before, to which the others
\* are in order too.
LEMMA ProgramInTurn ==
  ASSUME Planned, Layout, IInv, SavedInv, busy.op = "program",
         NEW t \in Nat, TurnInv(t)
  PROVE  LET u == IF pc = "saveWait" THEN t ELSE t - 1
         IN  /\ busy.page \in Pages
             /\ \A p \in Pages \ {busy.page} : Numbered(mem[p], u - Age(busy.page, p))
             /\ pc = "saveWait" => busy.page = DataPageAddress /\ busy.buffer = BufferInUse
             /\ pc # "saveWait" => /\ DataPageAddress = After(busy.page)
                                   /\ Numbered(buf[busy.buffer], u)
<1> DEFINE D == DataPageAddress
           B == busy.page
<1>1. D \in Pages /\ B \in Pages /\ LastPage \in Nat
  BY FlashAssumption DEF TurnInv, IInv, TypeOK, FlashTypeOK, Operation
<1>2. CASE pc = "saveWait"
  <2>1. B = D /\ busy.buffer = BufferInUse
    <3>1. ChipPage(D) = D
      BY <1>1, FlashAssumption DEF ChipPage, Pages
    <3>2. QED
      BY <1>2, <3>1 DEF SavedInv, BusyInv
  <2>2. \A p \in Pages \ {D} : Numbered(mem[p], t - Age(D, p))
    BY <1>2, <2>1, RingOf
  <2>3. QED
    BY <1>1, <1>2, <2>1, <2>2
<1>3. CASE pc # "saveWait"
  <2>1. D = After(B) /\ Numbered(mem[D], t - (LastPage + 1))
    BY <1>3 DEF TurnInv
  <2>2. /\ D \in Pages \ {B} /\ Age(D, B) = 1 /\ Age(B, D) = LastPage
        /\ \A p \in Pages \ {B, D} : Age(D, p) = Age(B, p) + 1
        /\ \A p \in Pages \ {B} : Age(B, p) \in 1 .. LastPage
    BY <1>1, <2>1, AgeIs
  <2>3. Numbered(buf[busy.buffer], t - 1)
    <3>1. Row(B) = buf[busy.buffer]
      BY DEF Row
    <3>2. Numbered(Row(B), t - Age(D, B))
      BY <1>1, <2>2 DEF TurnInv
    <3>3. QED
      BY <2>2, <3>1, <3>2
  <2>4. ASSUME NEW p \in Pages \ {B} PROVE Numbered(mem[p], (t - 1) - Age(B, p))
    <3>1. CASE p = D
      <4>1. (t - 1) - LastPage = t - (LastPage + 1)
        BY <1>1
      <4>2. QED
        BY <2>1, <2>2, <3>1, <4>1
    <3>2. CASE p # D
      <4>1. Row(p) = mem[p]
        BY DEF Row
      <4>2. Numbered(Row(p), t - Age(D, p))
        BY <3>2 DEF TurnInv
      <4>3. t - Age(D, p) = (t - 1) - Age(B, p)
        BY <2>2, <3>2
      <4>4. QED
        BY <4>1, <4>2, <4>3
    <3>3. QED
      BY <3>1, <3>2
  <2>5. QED
    BY <1>1, <1>3, <2>1, <2>3, <2>4
<1>4. QED
  BY <1>2, <1>3

\* A program or a transfer ends.
LEMMA ChipStepOld ==
  ASSUME Planned, Layout, IInv, SavedInv, OldInv, ChipStep
  PROVE  OldInv'
<1>1. busy.op \in {"program", "load"} /\ restarts' = restarts
  BY DEF ChipStep, FlashDone, Ready, IInv, TypeOK, FlashTypeOK, Operation, historyVars
<1>2. CASE busy.op = "load"
  <2>1. /\ mem' = mem /\ UNCHANGED <<loggerVars, nextSet, restarts>> /\ busy'.op = "idle"
        /\ buf' = [buf EXCEPT ![busy.buffer] = mem[busy.page]]
    BY <1>2 DEF ChipStep, FlashDone, Idle, historyVars
  <2>2. Collecting => busy.buffer # BufferInUse
    BY <1>2 DEF SavedInv, BusyInv, ScanInv, InScan
  <2>3. Collecting => buf'[BufferInUse] = buf[BufferInUse]
    BY <2>1, <2>2, CollectingType
  <2>4. Aside
    BY <1>2, <2>1, <2>3 DEF Aside
  <2>5. QED
    BY <2>4, AsideOld
<1>3. CASE busy.op = "program"
  <2>1. /\ Collecting /\ (Collecting' <=> Collecting)
        /\ \A p \in Pages : Row(p)' = Row(p)
        /\ buf' = buf /\ busy'.op = "idle" /\ nextSet' = nextSet
        /\ BufferInUse' = BufferInUse /\ DataPageAddress' = DataPageAddress
        /\ DataSetAddress' = DataSetAddress
    BY <1>3, ProgramIs
  <2>2. ASSUME NEW t \in Nat, TurnInv(t) PROVE TurnInv(t)'
    BY <2>1, <2>2 DEF TurnInv
  <2>3. QED
    BY <1>1, <2>1, <2>2 DEF OldInv
<1>4. QED
  BY <1>1, <1>2, <1>3

\* The turns go on as long as there is no restart.
LEMMA OldNext ==
  ASSUME Planned, Layout, IInv, SavedInv, OldInv, [Next]_vars
  PROVE  OldInv'
<1>1. ~(InitCommand \/ Reset \/ PowerLoss)
  BY DEF Planned, InitCommand, Command, Reset, PowerLoss
<1>2. CASE \/ Boot \/ ScanCopy \/ ScanRead \/ ScanNextPage
           \/ AddNotFull \/ SaveWait \/ Datalogger_ReadBackData \/ UNCHANGED vars
  BY <1>2, WalkOld
<1>3. CASE ScanEnd
  BY <1>3, ScanEndOld
<1>4. CASE AddHeader \/ AddData
  BY <1>4, AddOld
<1>5. CASE AddFull
  BY <1>5, AddFullOld
<1>6. CASE Datalogger_SaveDataToFlash
  BY <1>6, SaveOld
<1>7. CASE ChipStep
  BY <1>7, ChipStepOld
<1>8. CASE PlannedReset
  <2>1. restarts \in Nat /\ restarts' = restarts + 1
    BY <1>8 DEF PlannedReset, Restart, IInv, TypeOK
  <2>2. QED
    BY <2>1 DEF OldInv
<1>9. QED
  BY <1>1, <1>2, <1>3, <1>4, <1>5, <1>6, <1>7, <1>8 DEF Next, Continue

\* A data set of the page being programmed that is not in the buffer it is
\* programmed from is not newer than the turns before.
LEMMA GoneBefore ==
  ASSUME Planned, Layout, IInv, SavedInv, busy.op = "program",
         NEW t \in Nat, TurnInv(t),
         NEW s \in Nat \ {0}, NEW q \in Pages, NEW d \in Address, mem[q][d] = s,
         \A a \in Address : buf[busy.buffer][a] # s,
         NEW u, u = IF pc = "saveWait" THEN t ELSE t - 1
  PROVE  u >= 0 => s <= Before(u)
<1>0. SUFFICES ASSUME u >= 0, s > Before(u) PROVE FALSE
  <2>1. u \in Int /\ (u \in Nat => Before(u) \in Nat)
    BY BeforeIs
  <2>2. QED
    BY <2>1
<1>1. u \in Nat /\ Before(u) \in Nat /\ Before(u + 1) = Before(u) + PerPage
      /\ PerPage \in Nat /\ PageSize = 2 * PerPage + 1
  <2>1. u \in Nat
    BY <1>0
  <2>2. QED
    BY <2>1, PageIs, BeforeIs
<1>2. PICK i \in Nat : s = Before(u) + i + 1
  <2>1. s - Before(u) - 1 \in Nat /\ s = Before(u) + (s - Before(u) - 1) + 1
    BY <1>0, <1>1
  <2>2. QED
    BY <2>1
<1>3. CASE pc = "saveWait"
  <2>1. u = t /\ busy.buffer = BufferInUse /\ Collecting
    BY <1>3, ProgramInTurn DEF SavedInv, BusyInv
  <2>2. s < nextSet /\ nextSet = Before(t) + (DataSetAddress \div 2) + 1
    BY DEF SavedInv, ValuesInv, TurnInv, DataSetSize
  <2>3. DataSetAddress \in Nat /\ DataSetAddress <= PageSize - 1 /\ DataSetAddress % 2 = 0
    <3>1. DataSetAddress \in Ends
      BY <1>3, <2>1 DEF SavedInv, RowsInv, CurrentEnd
    <3>2. QED
      BY <3>1, EndsAre DEF Ends
  <2>4. 2 * i + 1 < DataSetAddress /\ i < PerPage
    <3>1. i < DataSetAddress \div 2
      BY <1>1, <1>2, <2>1, <2>2, <2>3
    <3>2. QED
      BY <1>1, <2>3, <3>1
  <2>5. 2 * i + 1 \in Address /\ (2 * i + 1) % 2 = 1 /\ (2 * i + 1) \div 2 = i
    BY <2>4, PlaceInPage
  <2>6. buf[busy.buffer][2 * i + 1] = s
    BY <1>2, <2>1, <2>4, <2>5 DEF TurnInv
  <2>7. QED
    BY <2>5, <2>6
<1>4. CASE pc # "saveWait"
  <2>1. u = t - 1 /\ u + 1 = t /\ Numbered(buf[busy.buffer], u)
    BY <1>1, <1>4, ProgramInTurn
  <2>2. s <= Before(t)
    BY <1>4 DEF TurnInv
  <2>3. i < PerPage
    BY <1>1, <1>2, <2>1, <2>2
  <2>4. 2 * i + 1 \in Address /\ (2 * i + 1) % 2 = 1 /\ (2 * i + 1) \div 2 = i
    BY <2>3, PlaceInPage
  <2>5. buf[busy.buffer][2 * i + 1] = s
    BY <1>0, <1>2, <2>1, <2>4 DEF Numbered
  <2>6. QED
    BY <2>4, <2>5
<1>5. QED
  BY <1>3, <1>4

\* What a program takes from the array is older than what it leaves in the
\* other pages.
LEMMA NoNewerGone ==
  ASSUME Planned, Layout, IInv, SavedInv, OldInv, [Next]_vars
  PROVE  OldestOverwritten
<1> SUFFICES ASSUME restarts = 0,
                    NEW s \in SetsIn(mem) \ SetsIn(mem'),
                    NEW p \in Pages \ {busy.page}, NEW a \in Address, mem[p][a] > 0
             PROVE  s < mem[p][a]
  BY DEF OldestOverwritten
<1>1. ChipStep /\ busy.op = "program"
  BY OnlyPrograms
<1>2. /\ busy.page \in Pages /\ Collecting
      /\ mem'[busy.page] = buf[busy.buffer]
      /\ \A q \in Pages : q # busy.page => mem'[q] = mem[q]
  BY <1>1, ProgramIs
<1>3. PICK t \in Nat : TurnInv(t)
  BY <1>2 DEF OldInv
<1>4. PICK q \in Pages, d \in Address : s = mem[q][d]
  BY DEF SetsIn
<1>5. s \in Nat \ {0} /\ \A r \in Pages, x \in Address : mem'[r][x] # s
  BY DEF SetsIn
<1> DEFINE u == IF pc = "saveWait" THEN t ELSE t - 1
<1>6. \A r \in Pages \ {busy.page} : Numbered(mem[r], u - Age(busy.page, r))
  BY <1>1, <1>3, ProgramInTurn
<1>7. \A x \in Address : buf[busy.buffer][x] # s
  BY <1>2, <1>5
<1>8. u >= 0 => s <= Before(u)
  BY <1>1, <1>3, <1>4, <1>5, <1>7, GoneBefore
<1>9. \A r \in Pages \ {busy.page}, x \in Address : mem[r][x] # s
  BY <1>2, <1>5
<1>10. u \in Int
  OBVIOUS
<1> HIDE DEF u
<1>11. \/ \E r \in Pages \ {busy.page}, x \in Address : mem[r][x] = s
       \/ \A r \in Pages \ {busy.page}, x \in Address : mem[r][x] > 0 => s < mem[r][x]
  BY <1>2, <1>5, <1>6, <1>8, <1>10, InRing
<1>12. QED
  BY <1>9, <1>11

\* Until the first restart, the oldest data sets are overwritten first, for
\* every size of the array and of its pages and any number of data sets,
\* partial saves and read backs: the page that a program replaces held the
\* data sets of the oldest turn, or stale copies of data sets that are in
\* other pages or older than all of them.
THEOREM OldestFirst == Planned /\ Layout /\ Spec => OldestGoFirst
<1>1. Planned /\ Layout /\ Init => IInv /\ SavedInv /\ OldInv
  BY InitInv, SavedInit, OldInit
<1>2. Planned /\ Layout /\ IInv /\ SavedInv /\ OldInv /\ [Next]_vars => IInv' /\ SavedInv' /\ OldInv'
  BY NextInv, SavedNext, OldNext
<1>3. Planned /\ Layout /\ IInv /\ SavedInv /\ OldInv /\ [Next]_vars => [OldestOverwritten]_vars
  BY NoNewerGone
<1>4. Planned /\ Layout => (Planned /\ Layout)'
  BY DEF Planned, Paced, Layout
<1>5. QED
  BY <1>1, <1>2, <1>3, <1>4, PTL DEF Spec, OldestGoFirst
=============================================================================
