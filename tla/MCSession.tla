------------------------------ MODULE MCSession ------------------------------
(***************************************************************************)
(* Session for TLC: one thermometer with all kinds of jobs, which may run  *)
(* stock or custom firmware; and a fleet of two with custom firmware whose *)
(* update needs the extended OTA.                                          *)
(***************************************************************************)
EXTENDS Session

CONSTANTS d1, d2, old, new, none

Version_mc == {old, new}

Device_mc == {d1}
Stock_mc  == {old}
Ext_mc    == {}

FleetDevice_mc == {d1, d2}
FleetStock_mc  == {}
FleetExt_mc    == {new}
=============================================================================
