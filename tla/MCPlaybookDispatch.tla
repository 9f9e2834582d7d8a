------------------------- MODULE MCPlaybookDispatch -------------------------
(***************************************************************************)
(* Small instances of PlaybookDispatch for TLC.                            *)
(***************************************************************************)
EXTENDS PlaybookDispatch, TLC

\* One user started every run.
OneUser == [r \in Runs |-> "alice"]

WorkerSymmetry == Permutations(Workers)
=============================================================================
