------------------------------ MODULE TelinkOta ------------------------------
(***************************************************************************)
(* TelinkOtaProtocol (telink_ota.cpp): the OTA transfer, driven by the     *)
(* completions of the one GATT operation its TelinkBleClient has in        *)
(* flight, over a link whose writes without response wait in the local     *)
(* stack, into the thermometer's OTA service.                              *)
(*                                                                         *)
(* Timers are actions that may fire whenever they are armed: every order   *)
(* of a timeout and the answer it races with is a behaviour.               *)
(***************************************************************************)
EXTENDS Integers, Sequences

CONSTANTS
  Blocks,      \* blocks_total: 16-byte blocks of the image
  Window,      \* blocks between two status reads (8 in the code)
  MaxRetries,  \* retries of one congested write (20 in the code)
  MaxLoss,     \* bound: data packets the thermometer misses in a behaviour
  MaxRuns      \* bound: transfers begun in a behaviour

ASSUME OtaAssumption ==
  /\ Blocks \in Nat \ {0}
  /\ Window \in Nat \ {0}
  /\ MaxRetries \in Nat /\ MaxLoss \in Nat /\ MaxRuns \in Nat

VARIABLES
  state,       \* progress_.state
  stage,       \* stage_: 0 before 00ff is sent, 1 after
  settle,      \* settle_until_ is set
  sent,        \* progress_.blocks_sent
  retries,     \* write_retries_
  message,     \* how the final status read ended (progress_.message)
  calls,       \* times done_cb_ ran for this transfer
  op,          \* the client's operation in flight: whose callback waits
  link,        \* the connection, as the hub sees it
  air,         \* writes queued in the local stack, oldest first
  devOn,       \* the thermometer is in OTA mode
  devNext,     \* the block index it expects
  devStatus,   \* the status byte of the OTA characteristic
  devApplied,  \* it accepted the whole image and will boot it
  losses, runs \* counters for the two bounds

proto  == <<state, stage, settle, sent, retries, message, calls>>
device == <<devOn, devNext, devStatus, devApplied>>
bounds == <<losses, runs>>
vars   == <<state, stage, settle, sent, retries, message, calls, op, link, air,
            devOn, devNext, devStatus, devApplied, losses, runs>>

Active  == state \in {"STARTING", "WRITING", "CHECKING", "FINISHING"}
Settled == state \in {"DONE", "FAILED"}

Packet == [kind : {"ver", "start", "block", "end"}, idx : 0..Blocks]
Ctl(k) == [kind |-> k, idx |-> 0]
Blk(i) == [kind |-> "block", idx |-> i]

Init ==
  /\ state = "IDLE" /\ stage = 0 /\ settle = FALSE /\ sent = 0 /\ retries = 0
  /\ message = "none" /\ calls = 0 /\ op = "none"
  /\ link = "down" /\ air = <<>>
  /\ devOn = FALSE /\ devNext = 0 /\ devStatus = "ok" /\ devApplied = FALSE
  /\ losses = 0 /\ runs = 0

----------------------------------------------------------------------------
(* Steps shared by several callbacks *)

(* fail_, and what its done callback does: the session fails and closes the
   link (on_ota_done_, fail_session_, end_connection). *)
Fail ==
  /\ state' = "FAILED" /\ calls' = calls + 1
  /\ link' = IF link = "up" THEN "closing" ELSE link
  /\ UNCHANGED <<stage, settle, sent, message>>

(* The end of the final status read: DONE and the done callback. *)
Succeed(how) ==
  /\ state' = "DONE" /\ calls' = calls + 1 /\ message' = how
  /\ UNCHANGED <<stage, settle, sent, retries>>

(* send_end_: the end packet announces the last index. *)
SendEnd ==
  /\ state' = "FINISHING" /\ op' = "end" /\ air' = Append(air, Ctl("end"))
  /\ UNCHANGED <<calls, link>>

(* send_block_ for index n of a transfer in WRITING; q is the stack's queue.
   The write reads the image first, and that read may fail. *)
SendBlock(n, q) ==
  \/ /\ n < Blocks
     /\ state' = "WRITING" /\ op' = "block" /\ air' = Append(q, Blk(n))
     /\ UNCHANGED <<calls, link>>
  \/ /\ n < Blocks
     /\ state' = "FAILED" /\ op' = "none" /\ air' = q
     /\ calls' = calls + 1 /\ link' = "closing"
  \/ /\ n >= Blocks
     /\ SendEnd

----------------------------------------------------------------------------
(* The hub *)

(* begin, which step_start_ota_ calls once per connection, on an established
   link with a free client: the connection is part of the step. *)
Begin ==
  /\ ~Active /\ link = "down" /\ runs < MaxRuns
  /\ link' = "up"
  /\ state' = "STARTING" /\ stage' = 0 /\ settle' = TRUE
  /\ sent' = 0 /\ retries' = 0 /\ message' = "none" /\ calls' = 0
  /\ runs' = runs + 1
  /\ UNCHANGED <<op, air, devOn, devNext, devStatus, devApplied, losses>>

(* loop(): the 500 ms before 00ff have passed. *)
SettleStart ==
  /\ state = "STARTING" /\ settle /\ stage = 0
  /\ settle' = FALSE /\ stage' = 1
  /\ op' = "ver" /\ air' = Append(air, Ctl("ver"))
  /\ UNCHANGED <<state, sent, retries, message, calls, link, devOn, devNext,
                 devStatus, devApplied, losses, runs>>

(* loop(): the 300 ms after 01ff have passed, the first block goes out. *)
SettleBlocks ==
  /\ state = "STARTING" /\ settle /\ stage = 1
  /\ settle' = FALSE
  /\ SendBlock(sent, air)
  /\ UNCHANGED <<stage, sent, retries, message, devOn, devNext, devStatus,
                 devApplied, losses, runs>>

(* 00ff is queued: send 01ff. *)
VerQueued ==
  /\ op = "ver"
  /\ op' = "start" /\ air' = Append(air, Ctl("start"))
  /\ UNCHANGED <<link, state, stage, settle, sent, retries, message, calls,
                 devOn, devNext, devStatus, devApplied, losses, runs>>

(* Mutant: the timer of the first block is never armed. *)
StartQueuedNoTimer ==
  /\ op = "start"
  /\ op' = "none"
  /\ UNCHANGED <<link, air, state, stage, settle, sent, retries, message, calls,
                 devOn, devNext, devStatus, devApplied, losses, runs>>

(* 01ff is queued: wait 300 ms. *)
StartQueued ==
  /\ op = "start"
  /\ op' = "none" /\ settle' = TRUE
  /\ UNCHANGED <<link, air, state, stage, sent, retries, message, calls,
                 devOn, devNext, devStatus, devApplied, losses, runs>>

(* Mutant: no status reads, the blocks are sent back to back. *)
BlockQueuedNoRead ==
  /\ op = "block"
  /\ sent' = sent + 1 /\ retries' = 0
  /\ SendBlock(sent + 1, air)
  /\ UNCHANGED <<stage, settle, message, devOn, devNext, devStatus,
                 devApplied, losses, runs>>

(* The write of a block is queued: next block, or a status read. *)
BlockQueued ==
  /\ op = "block"
  /\ sent' = sent + 1 /\ retries' = 0
  /\ IF (sent + 1) % Window = 0
     THEN state' = "CHECKING" /\ op' = "status" /\ UNCHANGED <<calls, link, air>>
     ELSE SendBlock(sent + 1, air)
  /\ UNCHANGED <<stage, settle, message, devOn, devNext, devStatus,
                 devApplied, losses, runs>>

(* The write of a block comes back CONGESTED or BUSY: the same index again, at
   most MaxRetries times.  The stack may or may not have kept the packet. *)
Withdrawn == IF air # <<>> /\ air[Len(air)] = Blk(sent)
             THEN SubSeq(air, 1, Len(air) - 1) ELSE air

(* Mutant: the retries are not limited. *)
BlockCongestedNoLimit ==
  /\ op = "block" /\ retries <= MaxRetries + 1
  /\ retries' = retries + 1
  /\ \E q \in {air, Withdrawn} : SendBlock(sent, q)
  /\ UNCHANGED <<stage, settle, sent, message, devOn, devNext, devStatus,
                 devApplied, losses, runs>>

BlockCongested ==
  /\ op = "block"
  /\ retries' = retries + 1
  /\ \E q \in {air, Withdrawn} :
       IF retries < MaxRetries
       THEN SendBlock(sent, q)
       ELSE /\ state' = "FAILED" /\ op' = "none" /\ air' = q
            /\ calls' = calls + 1 /\ link' = "closing"
  /\ UNCHANGED <<stage, settle, sent, message, devOn, devNext, devStatus,
                 devApplied, losses, runs>>

(* The status read is answered: with 0 or empty, which is taken as no error, or
   with the thermometer's error.  A read request is ordered behind the queued
   writes, so its answer means that they were consumed. *)
StatusRead ==
  /\ op = "status" /\ air = <<>>
  /\ \/ SendBlock(sent, air)
     \/ devStatus # "ok" /\ Fail /\ op' = "none" /\ UNCHANGED air
  /\ UNCHANGED <<stage, settle, sent, retries, message, devOn, devNext,
                 devStatus, devApplied, losses, runs>>

(* Mutant: the end packet that left for the stack counts as the confirmation. *)
EndQueuedNoRead ==
  /\ op = "end" /\ state = "FINISHING"
  /\ op' = "none" /\ Succeed("confirmed")
  /\ UNCHANGED <<link, air, devOn, devNext, devStatus, devApplied, losses, runs>>

(* The end packet is queued: read the final status. *)
EndQueued ==
  /\ op = "end"
  /\ op' = "final"
  /\ UNCHANGED <<link, air, state, stage, settle, sent, retries, message, calls,
                 devOn, devNext, devStatus, devApplied, losses, runs>>

(* Mutant: an answer without a status byte counts as status 0. *)
FinalReadHasty ==
  /\ op = "final" /\ state = "FINISHING" /\ air = <<>>
  /\ op' = "none" /\ Succeed("confirmed")
  /\ UNCHANGED <<link, air, devOn, devNext, devStatus, devApplied, losses, runs>>

(* The final status read is answered: with the status byte, or empty. *)
FinalRead ==
  /\ op = "final" /\ state = "FINISHING" /\ air = <<>>
  /\ op' = "none"
  /\ \/ devStatus = "ok" /\ Succeed("confirmed") /\ UNCHANGED link
     \/ devStatus # "ok" /\ Fail /\ UNCHANGED retries
     \/ Succeed("unread") /\ UNCHANGED link
  /\ UNCHANGED <<air, devOn, devNext, devStatus, devApplied, losses, runs>>

(* Mutant: the callback of the final read does not look at the state. *)
LateFinalUnguarded ==
  /\ op = "final" /\ state # "FINISHING"
  /\ op' = "none" /\ Succeed("unread")
  /\ UNCHANGED <<link, air, devOn, devNext, devStatus, devApplied, losses, runs>>

(* The final status read of a transfer that was aborted meanwhile ends. *)
LateFinal ==
  /\ op = "final" /\ state # "FINISHING"
  /\ op' = "none"
  /\ UNCHANGED <<state, stage, settle, sent, retries, message, calls, link, air,
                 devOn, devNext, devStatus, devApplied, losses, runs>>

(* The operation in flight times out or is refused by the stack.  Only a final
   status read may fail without failing the transfer. *)
OpFails ==
  /\ op # "none" /\ Active
  /\ op' = "none"
  /\ IF op = "final" THEN Succeed("unread") /\ UNCHANGED link
                     ELSE Fail /\ UNCHANGED retries
  /\ UNCHANGED <<air, devOn, devNext, devStatus, devApplied, losses, runs>>

(* Mutant: the failed session leaves the connection and its operation alone. *)
AbortOpenLink ==
  /\ Active /\ link = "up"
  /\ state' = "FAILED" /\ calls' = calls + 1
  /\ UNCHANGED <<link, op, stage, settle, sent, message, retries, air, devOn,
                 devNext, devStatus, devApplied, losses, runs>>

(* fail_session_ ends an active transfer from outside.  abort runs first, then
   end_connection completes the operation in flight with DISCONNECTED: the
   callback of the end packet still asks for the final status. *)
Abort ==
  /\ Active /\ link = "up"
  /\ Fail
  /\ op' = IF op = "end" THEN "final" ELSE "none"
  /\ UNCHANGED <<retries, air, devOn, devNext, devStatus, devApplied, losses, runs>>

(* The link is gone and with it what the stack had queued.  An operation in
   flight completes with DISCONNECTED, which ends a FINISHING transfer well;
   without one the session's own handler aborts the transfer. *)
LinkDrop ==
  /\ link # "down"
  /\ link' = "down" /\ op' = "none" /\ air' = <<>> /\ devOn' = FALSE
  /\ IF state = "FINISHING"
     THEN Succeed("dropped")
     ELSE /\ IF Active THEN state' = "FAILED" /\ calls' = calls + 1
                       ELSE UNCHANGED <<state, calls>>
          /\ UNCHANGED <<stage, settle, sent, retries, message>>
  /\ UNCHANGED <<devNext, devStatus, devApplied, losses, runs>>

----------------------------------------------------------------------------
(* The thermometer (the SDK's OTA service, external) *)

(* It consumes the oldest queued write. *)
DevStart ==
  /\ Head(air).kind = "start"
  /\ devOn' = TRUE /\ devNext' = 0 /\ devStatus' = "ok" /\ devApplied' = FALSE

DevBlock ==
  /\ Head(air).kind = "block" /\ devOn /\ devStatus = "ok"
  /\ \/ Head(air).idx = devNext /\ devNext < Blocks
        /\ devNext' = devNext + 1 /\ UNCHANGED devStatus
     \/ devStatus' = "err" /\ UNCHANGED devNext   \* wrong index, CRC or flash error
  /\ UNCHANGED <<devOn, devApplied>>

DevEnd ==
  /\ Head(air).kind = "end" /\ devOn /\ devStatus = "ok"
  /\ \/ devNext = Blocks /\ devApplied' = TRUE /\ UNCHANGED devStatus
     \/ devStatus' = "err" /\ UNCHANGED devApplied  \* incomplete, or image check
  /\ UNCHANGED <<devOn, devNext>>

DevIgnore ==
  /\ Head(air).kind = "ver" \/ (Head(air).kind # "start" /\ ~(devOn /\ devStatus = "ok"))
  /\ UNCHANGED device

Deliver ==
  /\ link # "down" /\ air # <<>>
  /\ air' = Tail(air)
  /\ DevStart \/ DevBlock \/ DevEnd \/ DevIgnore
  /\ UNCHANGED <<state, stage, settle, sent, retries, message, calls, op, link,
                 losses, runs>>

(* A data packet never reaches the OTA service. *)
Lose ==
  /\ link # "down" /\ air # <<>> /\ Head(air).kind = "block" /\ losses < MaxLoss
  /\ air' = Tail(air) /\ losses' = losses + 1
  /\ UNCHANGED <<state, stage, settle, sent, retries, message, calls, op, link,
                 devOn, devNext, devStatus, devApplied, runs>>

----------------------------------------------------------------------------
OpResolves == \/ VerQueued \/ StartQueued \/ BlockQueued \/ BlockCongested
              \/ StatusRead \/ EndQueued \/ FinalRead \/ LateFinal
Hub  == Begin \/ SettleStart \/ SettleBlocks \/ OpResolves \/ OpFails \/ Abort
Link == LinkDrop \/ Deliver \/ Lose
Next == Hub \/ Link

(* The hub's loops run for ever: a settle timer that is set expires, and an
   operation that is not answered times out.  Nothing is assumed of the link
   or of the thermometer. *)
Fairness == /\ WF_vars(SettleStart \/ SettleBlocks)
            /\ WF_vars(OpFails)

Spec     == Init /\ [][Next]_vars
FairSpec == Spec /\ Fairness

----------------------------------------------------------------------------
(* Every variable has its type; the counters keep their bounds. *)
TypeOK ==
  /\ state \in {"IDLE", "STARTING", "WRITING", "CHECKING", "FINISHING", "DONE", "FAILED"}
  /\ stage \in {0, 1} /\ settle \in BOOLEAN
  /\ sent \in 0..Blocks /\ retries \in 0..(MaxRetries + 1)
  /\ message \in {"none", "confirmed", "dropped", "unread"} /\ calls \in Nat
  /\ op \in {"none", "ver", "start", "block", "status", "end", "final"}
  /\ link \in {"up", "closing", "down"} /\ air \in Seq(Packet)
  /\ devOn \in BOOLEAN /\ devNext \in 0..Blocks
  /\ devStatus \in {"ok", "err"} /\ devApplied \in BOOLEAN
  /\ losses \in 0..MaxLoss /\ runs \in 0..MaxRuns

(* "device confirmed the image" is said only of an image the thermometer holds
   completely and has accepted, whatever was lost, repeated or aborted before:
   the answer to the read behind the end packet proves it. *)
ConfirmedIsInstalled == message = "confirmed" => devApplied /\ devNext = Blocks

(* The status reads are the flow control: data packets of two windows are never
   in flight at the same time, however often a congested write is repeated. *)
OneWindowInFlight ==
  \A i, j \in DOMAIN air :
    air[i].kind = "block" /\ air[j].kind = "block"
      => air[i].idx \div Window = air[j].idx \div Window

(* The done callback has run exactly when the transfer is over, and once, though
   an abort, a disconnect and a late callback may all try to end it. *)
OneVerdict == calls = IF Settled THEN 1 ELSE 0

(* Nothing more is handed to the stack once the verdict is known: the callbacks
   of the start packets do not look at the state and rely on it. *)
SilentAfterVerdict == [][Settled => Len(air') <= Len(air)]_vars

(* A transfer always reaches its verdict, although the session sets no deadline
   while it runs: the settle timers and the timeouts of the operations do it. *)
EveryTransferEnds == (state = "STARTING") ~> Settled

(* The transfer implements its abstract specification. *)
Outcome == CASE state = "IDLE"   -> "idle"
             [] state = "FAILED" -> "failed"
             [] state = "DONE"   -> IF message = "confirmed" THEN "confirmed" ELSE "presumed"
             [] OTHER            -> "pending"
Promise == INSTANCE OtaPromise
             WITH verdict <- Outcome, received <- devNext, installed <- devApplied
KeepsPromise == Promise!Spec
=============================================================================
