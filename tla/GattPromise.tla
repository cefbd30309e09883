---------------------------- MODULE GattPromise ----------------------------
(***************************************************************************)
(* What the asynchronous operations of TelinkBleClient promise to their    *)
(* callers (telink_ble_client.h): one at a time, and every operation calls *)
(* back exactly once, whatever becomes of the connection.                  *)
(***************************************************************************)
CONSTANT Call            \* the operations

VARIABLE phase           \* of an operation

Phase == {"new", "pending", "done"}

Init == phase = [c \in Call |-> "new"]

(* An operation is accepted, or refused by its callback, or completed.  A
   callback may issue the next operation before it returns. *)
Step(c) == \/ phase[c] = "new"     /\ phase'[c] \in {"pending", "done"}
           \/ phase[c] = "pending" /\ phase'[c] = "done"

Next == /\ phase' \in [Call -> Phase]
        /\ \A c \in Call : phase'[c] = phase[c] \/ Step(c)
        /\ \A b, c \in Call : phase'[b] = "pending" /\ phase'[c] = "pending" => b = c

(* Once, and one at a time. *)
Safe == Init /\ [][Next]_phase

(* No caller waits for ever. *)
Live == \A c \in Call : phase[c] = "pending" ~> phase[c] = "done"

Spec == Safe /\ Live
=============================================================================
