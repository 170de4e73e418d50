------------------------------ MODULE Dataflash ------------------------------
(***************************************************************************)
(* The AT45DB321D dataflash as Board/at45db321d.c drives it: a main array  *)
(* of pages, two SRAM page buffers, and one internal operation at a time   *)
(* (a page program or a page-to-buffer transfer) that goes on after the    *)
(* driver function has returned.                                           *)
(*                                                                         *)
(* A page is a row of cells.  A cell stands for one half of a data set:    *)
(* its two header bytes, or its payload (the number of the data set).      *)
(* What is left of a page after the last whole data set (8 of 528 bytes)   *)
(* is one cell.                                                            *)
(***************************************************************************)
EXTENDS Integers

CONSTANTS
  LastPage,    \* number of the last page, 0x1FFF on the chip
  PageSize     \* cells in a page, 528 bytes on the chip

ASSUME FlashAssumption ==
  /\ LastPage \in Nat
  /\ PageSize \in Nat
  /\ PageSize >= 3

VARIABLES
  mem,         \* main array: page -> address -> cell
  buf,         \* the two SRAM buffers: 1..2 -> address -> cell
  busy         \* the internal operation in progress

flashVars == <<mem, buf, busy>>

Pages   == 0 .. LastPage
Address == 0 .. PageSize - 1
Buffers == 1 .. 2

(***************************************************************************)
(* Cells.  A positive number is the payload of the data set so numbered.   *)
(***************************************************************************)
Header     == 0 - 1    \* 0xA1 0x40: prefix, size of a data set, suffix
Erased     == 0 - 2    \* 0xFF 0xFF: the erased state of the array
Blank      == 0 - 3    \* 0x00 0x00
NullHeader == 0 - 4    \* 0xA0 0x00: prefix and suffix of a header, size 0
Filler     == {Erased, Blank, NullHeader}
Cell       == Filler \cup {Header} \cup (Nat \ {0})

PageOf(c) == [a \in Address |-> c]

Idle      == [op |-> "idle", buffer |-> 1, page |-> 0]
Operation == [op : {"idle", "program", "load"}, buffer : Buffers, page : Pages]

FlashTypeOK ==
  /\ mem \in [Pages -> [Address -> Cell]]
  /\ buf \in [Buffers -> [Address -> Cell]]
  /\ busy \in Operation

(* A buffer address past the end of the buffer starts again at its first   *)
(* cell; of a page number the chip keeps the bits that number its pages.   *)
Wrap(a)     == IF a < PageSize THEN a ELSE a - PageSize
ChipPage(p) == IF p <= LastPage THEN p ELSE p - (LastPage + 1)

-----------------------------------------------------------------------------
(***************************************************************************)
(* The driver functions.  The chip ignores a program or a transfer while   *)
(* it is busy; its buffers can be read and written at any time.            *)
(***************************************************************************)

\* The RDY/BUSY bit, what WaitForReady polls for.
Ready == busy.op = "idle"

BufferRead(b, a) == buf[b][Wrap(a)]

BufferWrite(b, a, c) ==
  buf' = [buf EXCEPT ![b][Wrap(a)] = c]

\* Issue an internal operation on buffer b and page p.
Issue(op, b, p) ==
  busy' = IF Ready THEN [op |-> op, buffer |-> b, page |-> ChipPage(p)]
                   ELSE busy

CopyPageToBuffer(b, p) == Issue("load", b, p)
CopyBufferToPage(b, p) == Issue("program", b, p)

-----------------------------------------------------------------------------
(***************************************************************************)
(* The chip itself.                                                        *)
(***************************************************************************)

FlashInit(fills) ==
  /\ mem = [p \in Pages |-> PageOf(Erased)]
  /\ buf \in [Buffers -> {PageOf(c) : c \in fills}]
  /\ busy = Idle

\* The operation in progress ends: its effect and the end of BUSY.
FlashDone ==
  /\ ~Ready
  /\ busy' = Idle
  /\ IF busy.op = "program"
       THEN /\ mem' = [mem EXCEPT ![busy.page] = buf[busy.buffer]]
            /\ UNCHANGED buf
       ELSE /\ buf' = [buf EXCEPT ![busy.buffer] = mem[busy.page]]
            /\ UNCHANGED mem

\* The controller restarts and the chip does not.  A page transfer takes
\* 0.4 ms, the way from the reset vector to the first flash command 25 ms
\* and more (DelayMS(10) and DelayMS(15) in the sensor drivers): it has
\* ended by then.  A page program (up to 40 ms) may still be going on.
FlashKeepsPower ==
  IF busy.op = "load"
    THEN FlashDone
    ELSE UNCHANGED flashVars

\* Chip and controller lose power: the buffers come back with the contents
\* of an SRAM, and the page being programmed is old, erased or complete.
FlashLosesPower(fills) ==
  /\ busy' = Idle
  /\ buf' \in [Buffers -> {PageOf(c) : c \in fills}]
  /\ IF busy.op = "program"
       THEN \E page \in {mem[busy.page], PageOf(Erased), buf[busy.buffer]} :
              mem' = [mem EXCEPT ![busy.page] = page]
       ELSE UNCHANGED mem
=============================================================================
