--------------------------- MODULE MCEventStream ---------------------------
(***************************************************************************)
(* Three connections for two places, so that one is evicted, and as many   *)
(* blocks, so that `new` can reuse a deleted record's.                     *)
(***************************************************************************)
EXTENDS EventStream
=============================================================================
