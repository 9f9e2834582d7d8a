---------------------- MODULE MCTerminalNotification ----------------------
(***************************************************************************)
(* Small instances of TerminalNotification for TLC.                        *)
(***************************************************************************)
EXTENDS TerminalNotification

\* Every turn waits for a run of its own.
OwnRun == [t \in Turns |-> t]
=============================================================================
