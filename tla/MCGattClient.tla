---------------------------- MODULE MCGattClient ----------------------------
(***************************************************************************)
(* Two characteristics, one of which has no client configuration           *)
(* descriptor.                                                             *)
(***************************************************************************)
EXTENDS GattClient

CONSTANTS h1, h2

MCHandle == {h1, h2}
MCSilent == {h2}
=============================================================================
