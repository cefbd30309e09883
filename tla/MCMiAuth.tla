------------------------------ MODULE MCMiAuth ------------------------------
(***************************************************************************)
(* MiAuth for TLC: the thermometer goes on sending while up to three       *)
(* writes wait, so a frame meets all of the four pieces of the public key. *)
(***************************************************************************)
EXTENDS MiAuth

MaxQueue_mc == 4
=============================================================================
