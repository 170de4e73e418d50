------------------------------ MODULE SampleLog ------------------------------
(***************************************************************************)
(* What the data logger promises: data sets are stored in the order they   *)
(* were added, each once; they reach the flash array some at a time; a     *)
(* restart loses nothing of what is in the array, and of what is not it    *)
(* may lose only the newest part.                                          *)
(***************************************************************************)
EXTENDS Naturals, Sequences

VARIABLES
  saved,      \* the data sets in the flash array, oldest first
  unsaved,    \* the data sets added since, oldest first
  next        \* the number of the next data set

logVars == <<saved, unsaved, next>>

LogTypeOK ==
  /\ saved \in Seq(Nat \ {0})
  /\ unsaved \in Seq(Nat \ {0})
  /\ next \in Nat \ {0}

LogInit ==
  /\ saved = <<>>
  /\ unsaved = <<>>
  /\ next = 1

Add ==
  /\ unsaved' = Append(unsaved, next)
  /\ next' = next + 1
  /\ UNCHANGED saved

First(n) == SubSeq(unsaved, 1, n)
Rest(n)  == SubSeq(unsaved, n + 1, Len(unsaved))

\* The n oldest of the unsaved data sets are in the array now.
Flush ==
  \E n \in 1 .. Len(unsaved) :
    /\ saved' = saved \o First(n)
    /\ unsaved' = Rest(n)
    /\ UNCHANGED next

\* A restart, or Datalogger_Init called again: a flush may still come to its
\* end, the rest is gone.
Lose ==
  \E n \in 0 .. Len(unsaved) :
    /\ saved' = saved \o First(n)
    /\ unsaved' = <<>>
    /\ UNCHANGED next

LogNext == Add \/ Flush \/ Lose

LogSpec == LogInit /\ [][LogNext]_logVars
=============================================================================
