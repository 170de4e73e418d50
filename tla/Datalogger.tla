----------------------------- MODULE Datalogger -----------------------------
(***************************************************************************)
(* Board/Datalogger.c on top of the dataflash: data sets are collected in  *)
(* one of the two chip buffers, a full buffer is programmed into the next  *)
(* page, and Datalogger_Init finds the place to continue by walking the    *)
(* headers in the pages.                                                   *)
(*                                                                         *)
(* The main thread is the only one that uses the logger, so what can come  *)
(* between two of its steps is the chip, a restart of the controller and   *)
(* a loss of power.                                                        *)
(***************************************************************************)
EXTENDS Dataflash, Sequences

CONSTANTS
  ErasedSize,      \* data set size that two erased bytes decode to (255)
  SetupBytes,      \* the SetupByte values given to Datalogger_Init
  ReadCount,       \* data sets one ReadBackData command asks for (5)
  Commands,        \* terminal commands the host uses: add, save, init, read
  Pace,            \* how fast they come: "any" or "page"
  Restarts,        \* restarts the controller can see, a set of the below
  Fills,           \* contents of the chip buffers at power up
  MaxRestarts,     \* bound on restarts
  MaxSets          \* bound on data sets

ASSUME LoggerAssumption ==
  /\ ErasedSize \in 1 .. PageSize
  /\ SetupBytes \subseteq SUBSET {"APPEND", "OVERWRITE", "RESTART_IF_FULL", "STOP_IF_FULL"}
  /\ ReadCount \in Nat \ {0}
  /\ Commands \subseteq {"add", "save", "init", "read"}
  /\ Pace \in {"any", "page"}
  /\ Restarts \subseteq {"reset", "planned", "power"}
  /\ Fills \subseteq Filler
  /\ MaxRestarts \in Nat
  /\ MaxSets \in Nat

VARIABLES
  DataSetAddress,       \* where in the page the next data set goes
  DataPageAddress,      \* the page being collected
  BufferInUse,          \* the buffer it is collected in
  DataloggerInitalized,
  SetupByte,            \* argument of the last call of Datalogger_Init
  pc,                   \* where the main thread is
  scan,                 \* locals of the walk: FindLastDataSet, ReadBackData
  printed,              \* what the last ReadBackData wrote to the terminal
  nextSet,              \* number of the next data set (history)
  held,                 \* data sets added to the current page (history)
  restarts              \* restarts so far (history)

loggerVars == <<DataSetAddress, DataPageAddress, BufferInUse, DataloggerInitalized>>
historyVars == <<nextSet, held, restarts>>
vars == <<flashVars, loggerVars, SetupByte, pc, scan, printed, historyVars>>

\* DataSetSizeBytes: one header cell and one payload cell.
DataSetSize == 2

InScan   == pc \in {"scanCopy", "scanRead", "scanFull"}
Position == 0 .. PageSize + DataSetSize

\* One data set in the buffer being filled: its address and its number.
HeldSet == [addr : Address, set : Nat \ {0}]

\* The locals of a walk: whose they are, the page, the address in the page,
\* the buffer used, the last size decoded, the data sets still to print.
Walk == [goal   : {"init", "read"},
         page   : 0 .. LastPage + 1,
         addr   : Position,
         buffer : Buffers,
         size   : Nat,
         left   : Nat]

TypeOK ==
  /\ FlashTypeOK
  /\ DataSetAddress \in Position
  /\ DataPageAddress \in 0 .. LastPage + 1
  /\ BufferInUse \in 0 .. 2
  /\ DataloggerInitalized \in 0 .. 1
  /\ SetupByte \in SetupBytes \cup {{}}
  /\ pc \in {"boot", "idle", "addData", "addFull", "saveWait",
             "scanCopy", "scanRead", "scanFull"}
  /\ scan \in Walk
  /\ printed \in Seq(Cell)
  /\ nextSet \in Nat \ {0}
  /\ held \subseteq HeldSet
  /\ restarts \in 0 .. MaxRestarts

Init ==
  /\ FlashInit(Fills)
  /\ DataSetAddress = 0
  /\ DataPageAddress = 0
  /\ BufferInUse = 0
  /\ DataloggerInitalized = 0
  /\ SetupByte = {}
  /\ pc = "boot"
  /\ scan = [goal |-> "init", page |-> 0, addr |-> 0, buffer |-> 1, size |-> 0, left |-> 0]
  /\ printed = <<>>
  /\ nextSet = 1
  /\ held = {}
  /\ restarts = 0

-----------------------------------------------------------------------------
(***************************************************************************)
(* The walk over the headers, shared by Datalogger_FindLastDataSet and     *)
(* Datalogger_ReadBackData.                                                *)
(***************************************************************************)

\* The size the two bytes at a header position decode to.  Only the size
\* of erased bytes makes the end of a page look full.  (The variant keeps
\* the size only if the bytes are a header.)
SizeFieldOfHeader(c) == IF c = Header THEN DataSetSize ELSE 0
SizeField(c) ==
  CASE c = Header -> DataSetSize
    [] c = Erased -> ErasedSize
    [] OTHER      -> 0

\* A data set header.  (The variant accepts a size of zero.)
IsHeaderAnySize(c) == c \in {Header, NullHeader}
IsHeader(c) == c \in {Header, NullHeader} /\ SizeField(c) > 0

\* The buffer that is not in use.  (The variants always take the same one.)
TempBufferOne == 1
TempBufferTwo == 2
TempBuffer == IF BufferInUse = 1 THEN 2 ELSE 1

StartScan(goal, count) ==
  /\ scan' = [goal |-> goal, page |-> 0, addr |-> 0,
              buffer |-> TempBuffer, size |-> 0, left |-> count]
  /\ pc' = "scanCopy"

\* Retrieve the memory page.
ScanCopy ==
  /\ pc = "scanCopy"
  /\ CopyPageToBuffer(scan.buffer, scan.page)
  /\ pc' = "scanRead"
  /\ UNCHANGED <<mem, buf, loggerVars, SetupByte, scan, printed, historyVars>>

\* One round of the inner loop, after WaitForReady.  ReadBackData prints
\* the payload and stops when it has printed what it was asked for.  (The
\* variant prints one more.)
EnoughLate == scan.left = 0
Enough     == scan.left = 1

ScanRead ==
  LET cell == BufferRead(scan.buffer, scan.addr)
      reading == scan.goal = "read" /\ IsHeader(cell)
      more == ~(reading /\ Enough)
  IN
  /\ pc = "scanRead"
  /\ Ready
  /\ IF scan.addr > PageSize
       THEN /\ pc' = "scanFull"
            /\ UNCHANGED <<scan, printed>>
       ELSE /\ pc' = IF ~more THEN "idle" ELSE IF IsHeader(cell) THEN "scanRead" ELSE "scanFull"
            /\ scan' = [scan EXCEPT
                 !.size = SizeField(cell),
                 !.addr = IF IsHeader(cell) /\ more THEN @ + SizeField(cell) ELSE @,
                 !.left = IF reading THEN @ - 1 ELSE @]
            /\ printed' = IF reading
                            THEN Append(printed, BufferRead(scan.buffer, scan.addr + 1))
                            ELSE printed
  /\ UNCHANGED <<flashVars, loggerVars, SetupByte, historyVars>>

\* The page is full, on to the next one.
ScanNextPage ==
  /\ pc = "scanFull"
  /\ scan.addr + scan.size > PageSize
  /\ scan.page < LastPage
  /\ scan' = [scan EXCEPT !.page = @ + 1, !.addr = 0]
  /\ pc' = "scanCopy"
  /\ UNCHANGED <<flashVars, loggerVars, SetupByte, printed, historyVars>>

\* What FindLastDataSet returns when the outer loop ends on page p at
\* address a: the place after the last data set, or 0xFFFF for both.
Full == [page |-> LastPage + 1, addr |-> PageSize + 1]
FoundPlace(p, a) == IF p = LastPage THEN Full ELSE [page |-> p, addr |-> a]

\* The rest of Datalogger_Init.
PlaceLogger(found) ==
  /\ DataSetAddress'  = IF found = Full THEN 0 ELSE found.addr
  /\ DataPageAddress' = IF found = Full THEN 0 ELSE found.page
  /\ BufferInUse' = 1
  /\ DataloggerInitalized' = 1

\* The walk ends: on a page with room left, or behind the last page.
ScanEnd ==
  LET full == scan.addr + scan.size > PageSize
      p    == IF full THEN LastPage + 1 ELSE scan.page
      a    == IF full THEN 0 ELSE scan.addr
      found == FoundPlace(p, a)
      stop == found = Full /\ "RESTART_IF_FULL" \notin SetupByte
  IN
  /\ pc = "scanFull"
  /\ full => scan.page = LastPage
  /\ pc' = "idle"
  /\ IF scan.goal = "read"
       THEN UNCHANGED <<loggerVars, held>>
       ELSE /\ held' = {}
            /\ IF stop
                 THEN /\ DataloggerInitalized' = 0
                      /\ UNCHANGED <<DataSetAddress, DataPageAddress, BufferInUse>>
                 ELSE PlaceLogger(found)
  /\ UNCHANGED <<flashVars, SetupByte, scan, printed, nextSet, restarts>>

-----------------------------------------------------------------------------
(***************************************************************************)
(* The operations: HardwareInit calls Datalogger_Init, the memread command *)
(* calls all four.                                                         *)
(***************************************************************************)

Datalogger_Init ==
  /\ UNCHANGED <<flashVars, printed, nextSet, restarts>>
  /\ SetupByte' \in SetupBytes
  /\ IF "APPEND" \in SetupByte'
       THEN /\ StartScan("init", 0)
            /\ UNCHANGED <<loggerVars, held>>
       ELSE /\ PlaceLogger([page |-> 0, addr |-> 0])
            /\ pc' = "idle"
            /\ held' = {}
            /\ UNCHANGED scan

Boot == pc = "boot" /\ Datalogger_Init

\* The main loop picks up a command.  The commands that are not add take
\* nine characters and more to type, at 8 ms each: at "page" pace the chip
\* is ready again.
Command(name) ==
  /\ pc = "idle"
  /\ name \in Commands
  /\ Pace = "page" /\ name # "add" => Ready

InitCommand == Command("init") /\ Datalogger_Init

\* Datalogger_AddDataSet, in the order of its three flash commands.
AddHeader ==
  /\ Command("add")
  /\ nextSet <= MaxSets
  /\ DataloggerInitalized = 1
  /\ BufferWrite(BufferInUse, DataSetAddress, Header)
  /\ DataSetAddress' = DataSetAddress + 1
  /\ pc' = "addData"
  /\ UNCHANGED <<mem, busy, DataPageAddress, BufferInUse, DataloggerInitalized,
                 SetupByte, scan, printed, historyVars>>

AddData ==
  /\ pc = "addData"
  /\ BufferWrite(BufferInUse, DataSetAddress, nextSet)
  /\ DataSetAddress' = DataSetAddress + 1
  /\ held' = held \cup {[addr |-> Wrap(DataSetAddress - 1), set |-> nextSet]}
  /\ nextSet' = nextSet + 1
  /\ pc' = "addFull"
  /\ UNCHANGED <<mem, busy, DataPageAddress, BufferInUse, DataloggerInitalized,
                 SetupByte, scan, printed, restarts>>

\* No room for another data set.  (The variant forgets that the cells left
\* may be too few.)
PageIsFullAtEnd == DataSetAddress = PageSize
PageIsFull == DataSetAddress + DataSetSize > PageSize

AddNotFull ==
  /\ pc = "addFull"
  /\ ~PageIsFull
  /\ pc' = "idle"
  /\ UNCHANGED <<flashVars, loggerVars, SetupByte, scan, printed, historyVars>>

\* Switch to the other buffer.  (The variant goes on with the same one.)
SameBuffer     == BufferInUse
SwitchedBuffer == IF BufferInUse = 1 THEN 2 ELSE 1

\* After the last page the first.  (The variant takes the second.)
NextDataPageSecond == IF DataPageAddress + 1 > LastPage THEN 1 ELSE DataPageAddress + 1
NextDataPage == IF DataPageAddress + 1 > LastPage THEN 0 ELSE DataPageAddress + 1

\* The page is full.  At "page" pace the previous program has ended by the
\* time the next page is full: collecting one data set takes 105 ms.
AddFull ==
  /\ pc = "addFull"
  /\ PageIsFull
  /\ Pace = "page" => Ready
  /\ CopyBufferToPage(BufferInUse, DataPageAddress)
  /\ BufferInUse' = SwitchedBuffer
  /\ DataPageAddress' = NextDataPage
  /\ DataSetAddress' = 0
  /\ held' = {}
  /\ pc' = "idle"
  /\ UNCHANGED <<mem, buf, DataloggerInitalized, SetupByte, scan, printed, nextSet, restarts>>

Datalogger_SaveDataToFlash ==
  /\ Command("save")
  /\ DataloggerInitalized = 1
  /\ CopyBufferToPage(BufferInUse, DataPageAddress)
  /\ pc' = "saveWait"
  /\ UNCHANGED <<mem, buf, loggerVars, SetupByte, scan, printed, historyVars>>

SaveWait ==
  /\ pc = "saveWait"
  /\ Ready
  /\ pc' = "idle"
  /\ UNCHANGED <<flashVars, loggerVars, SetupByte, scan, printed, historyVars>>

Datalogger_ReadBackData ==
  /\ Command("read")
  /\ StartScan("read", ReadCount)
  /\ printed' = <<>>
  /\ UNCHANGED <<flashVars, loggerVars, SetupByte, historyVars>>

-----------------------------------------------------------------------------
(***************************************************************************)
(* The environment.                                                        *)
(***************************************************************************)

ChipStep ==
  /\ FlashDone
  /\ UNCHANGED <<loggerVars, SetupByte, pc, scan, printed, historyVars>>

\* The C runtime clears the globals; what was only in RAM is gone.
Restart ==
  /\ restarts < MaxRestarts
  /\ restarts' = restarts + 1
  /\ DataSetAddress' = 0
  /\ DataPageAddress' = 0
  /\ BufferInUse' = 0
  /\ DataloggerInitalized' = 0
  /\ held' = {}
  /\ pc' = "boot"
  /\ UNCHANGED <<SetupByte, scan, printed, nextSet>>

\* The controller restarts at any moment.
Reset ==
  /\ "reset" \in Restarts
  /\ FlashKeepsPower
  /\ Restart

\* The controller restarts when the logger is between two operations and
\* the chip is ready.
PlannedReset ==
  /\ "planned" \in Restarts
  /\ pc = "idle"
  /\ Ready
  /\ UNCHANGED flashVars
  /\ Restart

PowerLoss ==
  /\ "power" \in Restarts
  /\ FlashLosesPower(Fills)
  /\ Restart

Continue ==
  \/ Boot
  \/ ScanCopy \/ ScanRead \/ ScanNextPage \/ ScanEnd
  \/ AddData \/ AddNotFull \/ AddFull \/ SaveWait

Next ==
  \/ Continue
  \/ InitCommand \/ AddHeader \/ Datalogger_SaveDataToFlash \/ Datalogger_ReadBackData
  \/ ChipStep
  \/ Reset \/ PlannedReset \/ PowerLoss

Spec == Init /\ [][Next]_vars

\* An operation the main thread has begun goes on, and the chip ends its
\* internal operation; nothing makes the host send a command.
FairSpec == Spec /\ WF_vars(Continue) /\ WF_vars(ChipStep)

-----------------------------------------------------------------------------
(***************************************************************************)
(* Properties.                                                             *)
(***************************************************************************)

\* While the main thread has data sets in the buffer it collects in, every
\* one of them is there, behind its header, at the address it was added at:
\* neither the walk of FindLastDataSet and ReadBackData, which loads pages
\* into "the buffer that is not in use", nor the end of a program or a
\* transfer, nor a late data set touches them.
HeldSetsIntact ==
  \A h \in held :
    /\ BufferInUse \in Buffers
    /\ BufferRead(BufferInUse, h.addr) = Header
    /\ BufferRead(BufferInUse, h.addr + 1) = h.set

\* While the chip programs a page from a buffer, that buffer keeps its
\* contents: this is what the switch to the other buffer in AddDataSet and
\* the wait in SaveDataToFlash are for.  (Losing power is the exception.)
SourceKept ==
  busy.op = "program" /\ busy' = busy => buf'[busy.buffer] = buf[busy.buffer]
ProgramSourceStable == [][SourceKept]_vars

\* The numbers of the data sets in the main array.
SetsIn(m) == {m[p][a] : p \in Pages, a \in Address} \cap (Nat \ {0})

\* The walk reports a full device as soon as the pages before the last are
\* full; there is room while the last two of them are unused.
HasRoom == \A p \in {LastPage - 1, LastPage} : mem[p][0] # Header

\* The place of a data set that came into the array in its turn: it is newer
\* than all that lies before it.  What is left in a buffer from a page that
\* was collected or read back earlier, and comes into the array with the
\* next partial save, is not.
InTurn(m, p, a) ==
  /\ m[p][a] > 0
  /\ \A q \in 0 .. p, d \in Address : q < p \/ d < a => m[q][d] < m[p][a]
Saved(m) == {s \in SetsIn(m) : \E p \in Pages, a \in Address : m[p][a] = s /\ InTurn(m, p, a)}

\* A data set that has reached the array is never overwritten while there
\* is room: whatever is added, saved partially, read back or found again
\* after a restart, the program that adds to a page carries along what the
\* page held before (FindLastDataSet leaves that page in buffer 1, the
\* buffer Datalogger_Init goes on with).
NoSetOverwritten == HasRoom => Saved(mem) \subseteq Saved(mem')
SavedSetsStay == [][NoSetOverwritten]_vars

\* When the array has no room left the oldest data sets are overwritten
\* first: what a program takes from the array is older than everything in
\* the other pages, whatever stale data sets partial saves have carried
\* along.  (Until a restart, after which the logger cannot tell the oldest
\* page.)
OldestOverwritten ==
  restarts = 0 =>
    \A gone \in SetsIn(mem) \ SetsIn(mem'), p \in Pages \ {busy.page}, a \in Address :
      mem[p][a] > 0 => gone < mem[p][a]
OldestGoFirst == [][OldestOverwritten]_vars

\* Whatever the pages and buffers contain, an operation of the main thread
\* comes back to the main loop: the walk leaves every page (a header of
\* size zero does not hold it up) and every wait for the chip ends.
MainLoopReturns == pc # "idle" ~> pc = "idle"
=============================================================================
