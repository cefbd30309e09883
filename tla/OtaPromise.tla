----------------------------- MODULE OtaPromise -----------------------------
(***************************************************************************)
(* What an OTA transfer promises, without the protocol: the thermometer    *)
(* takes the blocks of the image one after another, installs the image     *)
(* only when it holds all of them, and the hub gives one verdict per       *)
(* transfer.  A verdict is "confirmed" only for an image that the          *)
(* thermometer has installed; "presumed" leaves the answer to the          *)
(* verification by reconnect.                                              *)
(***************************************************************************)
EXTENDS Integers

CONSTANT Blocks          \* number of 16-byte blocks of the image

VARIABLES verdict,       \* of the current transfer
          received,      \* blocks the thermometer has accepted, in order
          installed      \* the thermometer has accepted the whole image

promise == <<verdict, received, installed>>

Init == verdict = "idle" /\ received = 0 /\ installed = FALSE

(* The hub begins a transfer; the previous one has its verdict. *)
Begin == /\ verdict # "pending"
         /\ verdict' = "pending"
         /\ UNCHANGED <<received, installed>>

(* The thermometer enters OTA mode and clears its new-firmware area. *)
Clear == received' = 0 /\ installed' = FALSE /\ UNCHANGED verdict

(* The thermometer accepts the next block. *)
Accept == /\ received < Blocks
          /\ received' = received + 1
          /\ UNCHANGED <<verdict, installed>>

(* The thermometer accepts the image. *)
Install == /\ received = Blocks
           /\ installed' = TRUE
           /\ UNCHANGED <<verdict, received>>

(* The hub's verdict. *)
Confirm == verdict = "pending" /\ installed /\ verdict' = "confirmed"
Presume == verdict = "pending" /\ verdict' = "presumed"
Fail    == verdict = "pending" /\ verdict' = "failed"
Verdict == (Confirm \/ Presume \/ Fail) /\ UNCHANGED <<received, installed>>

Next == Begin \/ Clear \/ Accept \/ Install \/ Verdict

Spec == Init /\ [][Next]_promise
=============================================================================
