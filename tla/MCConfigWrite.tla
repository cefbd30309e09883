--------------------------- MODULE MCConfigWrite ---------------------------
(***************************************************************************)
(* Versions on both sides of the steps of the format.  The thermometer     *)
(* holds its defaults or flags in the offset bytes; a request gives        *)
(* nothing, one byte, or values that every limit touches.                  *)
(***************************************************************************)
EXTENDS ConfigWrite

MCVersion == {25, 70, 73, 89}

MCBytes == {<<0, 0, 7, 2, 40, 4, 191, 60, 55>>, <<0, 0, 0, 0, 40, 4, 191, 49, 55>>}

MCGiven == {<<>>,
            [i \in {1} |-> 1],
            [i \in 3..9 |-> <<0, 0, 128, 3, 0, 0, 100, 60, 0>>[i]]}

MCWords == {"default", "warm"}

MCTriggers == {[threshold |-> 2100, hysteresis |-> -55, rds |-> 3600]}
=============================================================================
