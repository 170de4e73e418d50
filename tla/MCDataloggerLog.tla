--------------------------- MODULE MCDataloggerLog ---------------------------
(***************************************************************************)
(* Instances of DataloggerLog for TLC.                                     *)
(***************************************************************************)
EXTENDS DataloggerLog

\* What HardwareInit and the memread command pass to Datalogger_Init.
FirmwareSetup == {{"APPEND", "RESTART_IF_FULL"}}
StopSetup     == {{"APPEND", "STOP_IF_FULL"}}
CleanFills    == {Erased}
BlankFills    == {Blank}
=============================================================================
