----------------------------- MODULE MCDatalogger -----------------------------
(***************************************************************************)
(* Instances of Datalogger for TLC.                                        *)
(***************************************************************************)
EXTENDS Datalogger

\* What HardwareInit and the memread command pass to Datalogger_Init.
FirmwareSetup == {{"APPEND", "RESTART_IF_FULL"}}

\* The other options of datalogger.h.
OtherSetups == {{"APPEND", "STOP_IF_FULL"}, {"OVERWRITE"}}

MixedFills == {Erased, NullHeader}
CleanFills == {Erased}
=============================================================================
