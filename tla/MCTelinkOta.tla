----------------------------- MODULE MCTelinkOta -----------------------------
(***************************************************************************)
(* TelinkOta for TLC: an image of two full windows and a partial one.      *)
(***************************************************************************)
EXTENDS TelinkOta

Blocks_mc     == 5
Window_mc     == 2
MaxRetries_mc == 1
MaxLoss_mc    == 1
MaxRuns_mc    == 2
=============================================================================
