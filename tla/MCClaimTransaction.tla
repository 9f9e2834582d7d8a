------------------------- MODULE MCClaimTransaction -------------------------
(***************************************************************************)
(* Small instances of ClaimTransaction for TLC.                            *)
(***************************************************************************)
EXTENDS ClaimTransaction, TLC

WorkerSymmetry == Permutations(Workers)
=============================================================================
