--------------------------- MODULE MCFirmwareStore ---------------------------
(***************************************************************************)
(* FirmwareStore for TLC: three slots, so that an image that spans two of  *)
(* them leaves one, and more uploads than slots.  Names are only compared, *)
(* so they are symmetric.                                                  *)
(***************************************************************************)
EXTENDS FirmwareStore, TLC

CONSTANTS a, b, c, none

Slots_mc      == 3
Name_mc       == {a, b, c}
MaxUploads_mc == 5
Symmetry_mc   == Permutations(Name_mc)
=============================================================================
