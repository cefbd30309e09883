--------------------------- MODULE TelinkOtaProofs ---------------------------
(***************************************************************************)
(* Proofs about TelinkOta for every size of the image, every window and    *)
(* every number of retries, losses and transfers.                          *)
(***************************************************************************)
EXTENDS TelinkOta, TLAPS

----------------------------------------------------------------------------
(* The inductive invariant *)

(* Of a queue q: it holds a packet of kind k; it holds nothing but 00ff; 01ff
   stands before every block and before the end packet. *)
Holds(q, k) == \E i \in DOMAIN q : q[i].kind = k
OnlyVer(q)  == \A i \in DOMAIN q : q[i].kind = "ver"
Ordered(q)  == \A i, j \in DOMAIN q : q[i].kind = "start" /\ j < i => q[j].kind = "ver"

(* A connection that is down holds nothing: no transfer, no operation in
   flight, no queued write.  A new transfer therefore starts from nothing. *)
Down == link = "down" => ~Active /\ op = "none" /\ air = <<>>

(* The state of the transfer that an operation in flight belongs to.  Only a
   final status read outlives its transfer (LateFinal). *)
OpState ==
  /\ op \in {"ver", "start"} => state = "STARTING"
  /\ op = "block"  => state = "WRITING" /\ sent < Blocks
  /\ op = "status" => state = "CHECKING"
  /\ op = "end"    => state = "FINISHING"
  /\ Active => retries <= MaxRetries

(* Before 00ff is sent nothing is queued, and until 01ff is only 00ff is. *)
Fresh ==
  /\ state = "STARTING" /\ stage = 0 => op = "none" /\ air = <<>>
  /\ op = "ver" => ~settle /\ OnlyVer(air)
  /\ state \in {"WRITING", "CHECKING", "FINISHING"} \/ op # "none" => stage = 1

(* A transfer that has sent 01ff has a thermometer in OTA mode, or 01ff is
   still on its way to it. *)
Started == Active /\ stage = 1 /\ op # "ver" => devOn \/ Holds(air, "start")

(* Once the end packet is sent it is queued, or the thermometer has judged the
   image of this transfer. *)
EndSeen ==
  state = "FINISHING" =>
    \/ Holds(air, "end")
    \/ devOn /\ ~Holds(air, "start") /\ (devStatus = "ok" => devApplied)

AppliedComplete == devApplied => devNext = Blocks

(* After a confirmation nothing is left that could change the thermometer. *)
Quiet == message = "confirmed" =>
           state = "DONE" /\ op = "none" /\ air = <<>> /\ devApplied

IInv == /\ TypeOK /\ Down /\ OpState /\ Fresh /\ Ordered(air) /\ Started /\ EndSeen
        /\ AppliedComplete /\ Quiet /\ OneVerdict

----------------------------------------------------------------------------
(* Lemmas about the queue of the local stack *)

(* The packets that the code sends. *)
LEMMA Packets ==
  /\ \A k \in {"ver", "start", "block", "end"} : Ctl(k) \in Packet /\ Ctl(k).kind = k
  /\ \A n \in 0..Blocks : Blk(n) \in Packet /\ Blk(n).kind = "block"
  BY OtaAssumption DEF Ctl, Blk, Packet

(* No link, no queue. *)
LEMMA EmptyQueue == /\ <<>> \in Seq(Packet) /\ Ordered(<<>>) /\ OnlyVer(<<>>)
                    /\ \A k : ~Holds(<<>>, k)
  BY DEF Ordered, OnlyVer, Holds

(* Handing one more packet to the stack. *)
LEMMA AppendPacket ==
  ASSUME NEW q \in Seq(Packet), NEW p \in Packet
  PROVE  /\ Append(q, p) \in Seq(Packet)
         /\ \A k : Holds(Append(q, p), k) <=> Holds(q, k) \/ p.kind = k
         /\ OnlyVer(q) /\ p.kind = "ver" => OnlyVer(Append(q, p))
         /\ Ordered(q) /\ (p.kind # "start" \/ OnlyVer(q)) => Ordered(Append(q, p))
<1>1. /\ Append(q, p) \in Seq(Packet)
      /\ DOMAIN q = 1..Len(q) /\ Len(q) \in Nat
      /\ DOMAIN Append(q, p) = 1..(Len(q) + 1)
      /\ Append(q, p)[Len(q) + 1] = p
      /\ \A i \in 1..Len(q) : Append(q, p)[i] = q[i]
  OBVIOUS
<1>. DEFINE r == Append(q, p)
<1>. HIDE DEF r
<1>. USE <1>1 DEF r
<1>2. \A k : Holds(r, k) <=> Holds(q, k) \/ p.kind = k
  BY DEF Holds
<1>3. OnlyVer(q) /\ p.kind = "ver" => OnlyVer(r)
  BY DEF OnlyVer
<1>4. Ordered(q) /\ (p.kind # "start" \/ OnlyVer(q)) => Ordered(r)
  BY DEF Ordered, OnlyVer
<1>. QED  BY <1>2, <1>3, <1>4

(* The oldest packet is consumed or lost.  Behind a packet that is not 00ff
   there is no 01ff. *)
LEMMA TailPacket ==
  ASSUME NEW q \in Seq(Packet), q # <<>>
  PROVE  /\ Tail(q) \in Seq(Packet) /\ Head(q) \in Packet
         /\ \A k : Holds(Tail(q), k) => Holds(q, k)
         /\ \A k : Holds(q, k) => Holds(Tail(q), k) \/ Head(q).kind = k
         /\ OnlyVer(q) => OnlyVer(Tail(q))
         /\ Ordered(q) => Ordered(Tail(q))
         /\ Ordered(q) /\ Head(q).kind # "ver" => ~Holds(Tail(q), "start")
<1>1. /\ Tail(q) \in Seq(Packet) /\ Head(q) = q[1] /\ Head(q) \in Packet
      /\ DOMAIN q = 1..Len(q) /\ Len(q) \in Nat \ {0}
      /\ DOMAIN Tail(q) = 1..(Len(q) - 1)
      /\ \A i \in 1..(Len(q) - 1) : Tail(q)[i] = q[i + 1]
  OBVIOUS
<1>. DEFINE r == Tail(q)
<1>2. \A k : Holds(r, k) => Holds(q, k)
  BY <1>1 DEF Holds
<1>3. \A k : Holds(q, k) => Holds(r, k) \/ q[1].kind = k
  <2>. SUFFICES ASSUME NEW k, NEW i \in DOMAIN q, q[i].kind = k, q[1].kind # k
                PROVE  Holds(r, k)
    BY DEF Holds
  <2>1. i - 1 \in 1..(Len(q) - 1) /\ (i - 1) + 1 = i
    BY <1>1
  <2>2. r[i - 1].kind = k /\ i - 1 \in DOMAIN r
    BY <1>1, <2>1
  <2>. QED  BY <2>2 DEF Holds
<1>4. OnlyVer(q) => OnlyVer(r)
  BY <1>1 DEF OnlyVer
<1>5. Ordered(q) => Ordered(r)
  BY <1>1 DEF Ordered
<1>6. Ordered(q) /\ q[1].kind # "ver" => ~Holds(r, "start")
  BY <1>1 DEF Ordered, Holds
<1>. QED  BY <1>1, <1>2, <1>3, <1>4, <1>5, <1>6

(* What is left when the stack gives back a congested block. *)
LEMMA WithdrawnPrefix ==
  ASSUME air \in Seq(Packet)
  PROVE  /\ Withdrawn \in Seq(Packet)
         /\ \A k : Holds(Withdrawn, k) => Holds(air, k)
         /\ \A k : k # "block" /\ Holds(air, k) => Holds(Withdrawn, k)
         /\ Ordered(air) => Ordered(Withdrawn)
<1>1. CASE air # <<>> /\ air[Len(air)] = Blk(sent)
  <2>1. Withdrawn = SubSeq(air, 1, Len(air) - 1)
    BY <1>1 DEF Withdrawn
  <2>2. air[Len(air)].kind = "block"
    BY <1>1 DEF Blk
  <2>3. /\ Withdrawn \in Seq(Packet) /\ Len(air) \in Nat \ {0}
        /\ DOMAIN air = 1..Len(air) /\ DOMAIN Withdrawn = 1..(Len(air) - 1)
        /\ \A i \in 1..(Len(air) - 1) : Withdrawn[i] = air[i]
    BY <1>1, <2>1
  <2>4. \A k : Holds(Withdrawn, k) => Holds(air, k)
    BY <2>3 DEF Holds
  <2>5. \A k : k # "block" /\ Holds(air, k) => Holds(Withdrawn, k)
    <3>. SUFFICES ASSUME NEW k, k # "block", NEW i \in DOMAIN air, air[i].kind = k
                  PROVE  Holds(Withdrawn, k)
      BY DEF Holds
    <3>1. i # Len(air)
      BY <2>2
    <3>2. i \in 1..(Len(air) - 1)
      BY <2>3, <3>1
    <3>. QED  BY <2>3, <3>2 DEF Holds
  <2>6. Ordered(air) => Ordered(Withdrawn)
    BY <2>3 DEF Ordered
  <2>. QED  BY <2>3, <2>4, <2>5, <2>6
<1>2. CASE ~(air # <<>> /\ air[Len(air)] = Blk(sent))
  BY <1>2 DEF Withdrawn
<1>. QED  BY <1>1, <1>2

(* The three outcomes of send_block_, for a queue q that lacks at most blocks of
   the queue before. *)
LEMMA SendBlockOutcome ==
  ASSUME NEW n \in 0..Blocks, NEW q \in Seq(Packet), SendBlock(n, q), air \in Seq(Packet)
  PROVE  \/ /\ n < Blocks /\ state' = "WRITING" /\ op' = "block"
            /\ air' = Append(q, Blk(n)) /\ calls' = calls /\ link' = link
         \/ /\ state' = "FAILED" /\ op' = "none" /\ air' = q
            /\ calls' = calls + 1 /\ link' = "closing"
         \/ /\ state' = "FINISHING" /\ op' = "end" /\ air' = Append(air, Ctl("end"))
            /\ n = Blocks /\ calls' = calls /\ link' = link
  BY OtaAssumption DEF SendBlock, SendEnd

----------------------------------------------------------------------------
(* The invariant is inductive *)

LEMMA InitIInv == Init => IInv
<1>. SUFFICES ASSUME Init PROVE IInv
  OBVIOUS
<1>1. air \in Seq(Packet)
  BY EmptyQueue DEF Init
<1>2. Ordered(air)
  BY EmptyQueue DEF Init
<1>3. /\ 0 \in 0..Blocks /\ 0 \in 0..(MaxRetries + 1)
      /\ 0 \in 0..MaxLoss /\ 0 \in 0..MaxRuns
  BY OtaAssumption
<1>4. TypeOK
  BY <1>1, <1>3 DEF Init, TypeOK
<1>. QED  BY <1>2, <1>4
          DEF Init, IInv, Down, OpState, Fresh, Started, EndSeen, AppliedComplete,
              Quiet, OneVerdict, Active, Settled

(* The steps that hand nothing to the stack. *)
LEMMA BeginStep == IInv /\ Begin => IInv'
<1>. SUFFICES ASSUME IInv, Begin PROVE IInv'
  OBVIOUS
<1>1. TypeOK'
  BY OtaAssumption DEF IInv, TypeOK, Begin
<1>2. op' = "none" /\ air' = <<>> /\ state' = "STARTING" /\ stage' = 0
  BY DEF IInv, Down, Begin
<1>3. Ordered(air')
  BY <1>2, EmptyQueue
<1>. QED  BY <1>1, <1>2, <1>3, OtaAssumption
          DEF IInv, Down, OpState, Fresh, Started, EndSeen, AppliedComplete, Quiet,
              OneVerdict, Active, Settled, Begin

LEMMA StartQueuedStep == IInv /\ StartQueued => IInv'
  BY DEF IInv, TypeOK, Down, OpState, Fresh, Started, EndSeen, AppliedComplete, Quiet,
         OneVerdict, Active, Settled, StartQueued

LEMMA EndQueuedStep == IInv /\ EndQueued => IInv'
  BY DEF IInv, TypeOK, Down, OpState, Fresh, Started, EndSeen, AppliedComplete, Quiet,
         OneVerdict, Active, Settled, EndQueued

LEMMA LateFinalStep == IInv /\ LateFinal => IInv'
  BY DEF IInv, TypeOK, Down, OpState, Fresh, Started, EndSeen, AppliedComplete, Quiet,
         OneVerdict, Active, Settled, LateFinal

LEMMA FinalReadStep == IInv /\ FinalRead => IInv'
  BY EmptyQueue
  DEF IInv, TypeOK, Down, OpState, Fresh, Started, EndSeen, AppliedComplete, Quiet,
         OneVerdict, Active, Settled, FinalRead, Fail, Succeed

LEMMA OpFailsStep == IInv /\ OpFails => IInv'
  BY DEF IInv, TypeOK, Down, OpState, Fresh, Started, EndSeen, AppliedComplete, Quiet,
         OneVerdict, Active, Settled, OpFails, Fail, Succeed

LEMMA AbortStep == IInv /\ Abort => IInv'
  BY DEF IInv, TypeOK, Down, OpState, Fresh, Started, EndSeen, AppliedComplete, Quiet,
         OneVerdict, Active, Settled, Abort, Fail

(* The link drops with everything that was queued on it. *)
LEMMA LinkDropStep == IInv /\ LinkDrop => IInv'
<1>. SUFFICES ASSUME IInv, LinkDrop PROVE IInv'
  OBVIOUS
<1>1. /\ op' = "none" /\ air' = <<>> /\ link' = "down" /\ ~Active'
      /\ UNCHANGED <<devApplied, devNext>>
      /\ message' = "confirmed" => state' = "DONE" /\ devApplied
      /\ calls' = IF Settled' THEN 1 ELSE 0
  BY DEF IInv, TypeOK, Quiet, OneVerdict, Active, Settled, LinkDrop, Succeed
<1>2. air' \in Seq(Packet) /\ Ordered(air')
  BY <1>1, EmptyQueue
<1>3. /\ state' \in {state, "DONE", "FAILED"} /\ calls' \in Nat
      /\ message' \in {message, "dropped"}
      /\ UNCHANGED <<stage, settle, sent, retries, devNext, devStatus, devApplied, losses, runs>>
      /\ devOn' = FALSE
  BY DEF IInv, TypeOK, LinkDrop, Succeed
<1>4. TypeOK'
  BY <1>1, <1>2, <1>3 DEF IInv, TypeOK
<1>. QED  BY <1>1, <1>2, <1>4
          DEF IInv, Down, OpState, Fresh, Started, EndSeen, AppliedComplete, Quiet,
              OneVerdict, Active

(* The start packets. *)
LEMMA SettleStartStep == IInv /\ SettleStart => IInv'
<1>. SUFFICES ASSUME IInv, SettleStart PROVE IInv'
  OBVIOUS
<1>1. /\ air' = Append(air, Ctl("ver")) /\ air \in Seq(Packet)
      /\ OnlyVer(air) /\ Ordered(air)
      /\ Ctl("ver") \in Packet /\ Ctl("ver").kind = "ver"
  BY Packets, EmptyQueue DEF IInv, TypeOK, Fresh, SettleStart
<1>2. air' \in Seq(Packet) /\ OnlyVer(air') /\ Ordered(air')
  BY <1>1, AppendPacket
<1>3. TypeOK'
  BY <1>2 DEF IInv, TypeOK, SettleStart
<1>4. /\ UNCHANGED <<state, retries, message, calls, link, devApplied, devNext>>
      /\ op' = "ver" /\ stage' = 1 /\ settle' = FALSE
      /\ state = "STARTING" /\ link # "down"
  BY DEF IInv, Down, Active, SettleStart
<1>. QED  BY <1>2, <1>3, <1>4
          DEF IInv, Down, OpState, Fresh, Started, EndSeen, AppliedComplete,
              Quiet, OneVerdict, Active, Settled

LEMMA VerQueuedStep == IInv /\ VerQueued => IInv'
<1>. SUFFICES ASSUME IInv, VerQueued PROVE IInv'
  OBVIOUS
<1>1. /\ air' = Append(air, Ctl("start")) /\ air \in Seq(Packet) /\ OnlyVer(air)
      /\ Ctl("start") \in Packet /\ Ctl("start").kind = "start"
  BY Packets DEF IInv, TypeOK, Fresh, VerQueued
<1>2. air' \in Seq(Packet) /\ Ordered(air') /\ Holds(air', "start")
  BY <1>1, AppendPacket DEF IInv
<1>. QED  BY <1>2
          DEF IInv, TypeOK, Down, OpState, Fresh, Started, EndSeen, AppliedComplete,
              Quiet, OneVerdict, Active, Settled, VerQueued

(* A step that ends in send_block_ for the block to send next. *)
LEMMA SendBlockStep ==
  ASSUME IInv, state \in {"STARTING", "WRITING", "CHECKING"}, stage = 1, op # "ver",
         NEW q \in Seq(Packet), Ordered(q),
         Holds(air, "start") => Holds(q, "start"),
         sent' \in 0..Blocks, settle' \in BOOLEAN,
         retries' \in 0..(MaxRetries + 1), state' # "FAILED" => retries' <= MaxRetries,
         SendBlock(sent', q),
         UNCHANGED <<stage, message, devOn, devNext, devStatus, devApplied, losses, runs>>
  PROVE  IInv'
<1>1. /\ TypeOK /\ air \in Seq(Packet) /\ Ordered(air) /\ link # "down"
      /\ devOn \/ Holds(air, "start")
      /\ message # "confirmed" /\ calls = 0 /\ AppliedComplete
  BY DEF IInv, TypeOK, Down, Started, Quiet, OneVerdict, Active, Settled
<1>2. \/ /\ sent' < Blocks /\ state' = "WRITING" /\ op' = "block"
         /\ air' = Append(q, Blk(sent')) /\ calls' = calls /\ link' = link
      \/ /\ state' = "FAILED" /\ op' = "none" /\ air' = q
         /\ calls' = calls + 1 /\ link' = "closing"
      \/ /\ state' = "FINISHING" /\ op' = "end" /\ air' = Append(air, Ctl("end"))
         /\ calls' = calls /\ link' = link
  BY <1>1, SendBlockOutcome
<1>3. /\ air' \in Seq(Packet) /\ Ordered(air')
      /\ devOn \/ Holds(air', "start")
      /\ state' = "FINISHING" => Holds(air', "end")
  <2>1. /\ Ctl("end") \in Packet /\ Ctl("end").kind = "end"
        /\ Blk(sent') \in Packet /\ Blk(sent').kind = "block"
    BY Packets
  <2>2. /\ Append(q, Blk(sent')) \in Seq(Packet) /\ Ordered(Append(q, Blk(sent')))
        /\ Holds(q, "start") => Holds(Append(q, Blk(sent')), "start")
    BY <2>1, AppendPacket
  <2>3. /\ Append(air, Ctl("end")) \in Seq(Packet) /\ Ordered(Append(air, Ctl("end")))
        /\ Holds(air, "start") => Holds(Append(air, Ctl("end")), "start")
        /\ Holds(Append(air, Ctl("end")), "end")
    BY <1>1, <2>1, AppendPacket
  <2>. QED  BY <1>1, <1>2, <2>2, <2>3
<1>4. TypeOK'
  BY <1>1, <1>2, <1>3 DEF TypeOK
<1>. QED  BY <1>1, <1>2, <1>3, <1>4
          DEF IInv, Down, OpState, Fresh, Started, EndSeen, AppliedComplete, Quiet,
              OneVerdict, Active, Settled

LEMMA SettleBlocksStep == IInv /\ SettleBlocks => IInv'
<1>. SUFFICES ASSUME IInv, SettleBlocks PROVE IInv'
  OBVIOUS
<1>1. SendBlock(sent', air)
  BY DEF SettleBlocks
<1>2. /\ state \in {"STARTING", "WRITING", "CHECKING"} /\ stage = 1 /\ op # "ver"
      /\ air \in Seq(Packet) /\ Ordered(air) /\ sent' \in 0..Blocks /\ settle' \in BOOLEAN
      /\ retries' \in 0..(MaxRetries + 1) /\ retries' <= MaxRetries
      /\ UNCHANGED <<stage, message, devOn, devNext, devStatus, devApplied, losses, runs>>
  BY DEF IInv, TypeOK, Fresh, OpState, Active, SettleBlocks
<1>. QED  BY <1>1, <1>2, SendBlockStep

(* A completed or congested write of a block, an answered status read. *)
LEMMA BlockQueuedStep == IInv /\ BlockQueued => IInv'
<1>. SUFFICES ASSUME IInv, BlockQueued PROVE IInv'
  OBVIOUS
<1>1. /\ state = "WRITING" /\ stage = 1 /\ op = "block"
      /\ air \in Seq(Packet) /\ Ordered(air) /\ settle' \in BOOLEAN
      /\ sent' \in 0..Blocks /\ sent' = sent + 1 /\ retries' = 0
      /\ retries' \in 0..(MaxRetries + 1) /\ retries' <= MaxRetries
      /\ UNCHANGED <<stage, message, settle, devOn, devNext, devStatus, devApplied,
                     losses, runs>>
  BY OtaAssumption DEF IInv, TypeOK, Fresh, OpState, BlockQueued
<1>2. CASE (sent + 1) % Window = 0
  <2>1. /\ state' = "CHECKING" /\ op' = "status" /\ UNCHANGED <<calls, link, air>>
    BY <1>2 DEF BlockQueued
  <2>2. TypeOK'
    BY <1>1, <2>1 DEF IInv, TypeOK
  <2>. QED  BY <1>1, <2>1, <2>2
            DEF IInv, Down, OpState, Fresh, Started, EndSeen, AppliedComplete, Quiet,
                OneVerdict, Active, Settled
<1>3. CASE (sent + 1) % Window # 0
  <2>1. SendBlock(sent', air)
    BY <1>1, <1>3 DEF BlockQueued
  <2>. QED  BY <1>1, <2>1, SendBlockStep
<1>. QED  BY <1>2, <1>3

LEMMA BlockCongestedStep == IInv /\ BlockCongested => IInv'
<1>. SUFFICES ASSUME IInv, BlockCongested PROVE IInv'
  OBVIOUS
<1>1. /\ state = "WRITING" /\ stage = 1 /\ op = "block" /\ sent < Blocks
      /\ air \in Seq(Packet) /\ Ordered(air) /\ settle' \in BOOLEAN
      /\ sent' \in 0..Blocks /\ sent' = sent
      /\ retries' = retries + 1 /\ retries \in 0..MaxRetries
      /\ UNCHANGED <<stage, message, settle, devOn, devNext, devStatus, devApplied,
                     losses, runs>>
  BY OtaAssumption DEF IInv, TypeOK, Fresh, OpState, Active, BlockCongested
<1>2. PICK q \in {air, Withdrawn} :
        IF retries < MaxRetries
        THEN SendBlock(sent, q)
        ELSE /\ state' = "FAILED" /\ op' = "none" /\ air' = q
             /\ calls' = calls + 1 /\ link' = "closing"
  BY DEF BlockCongested
<1>3. /\ q \in Seq(Packet) /\ Ordered(q)
      /\ Holds(air, "start") => Holds(q, "start")
  BY <1>1, WithdrawnPrefix
<1>4. CASE retries < MaxRetries
  <2>1. retries' \in 0..(MaxRetries + 1) /\ retries' <= MaxRetries
    BY <1>1, <1>4, OtaAssumption
  <2>2. SendBlock(sent', q)
    BY <1>1, <1>2, <1>4
  <2>. QED  BY <1>1, <1>3, <2>1, <2>2, SendBlockStep
<1>5. CASE ~(retries < MaxRetries)
  <2>1. /\ state' = "FAILED" /\ op' = "none" /\ air' = q
        /\ calls' = calls + 1 /\ link' = "closing"
    BY <1>2, <1>5
  <2>2. retries' \in 0..(MaxRetries + 1)
    BY <1>1, OtaAssumption
  <2>3. TypeOK'
    BY <1>1, <1>3, <2>1, <2>2 DEF IInv, TypeOK
  <2>. QED  BY <1>1, <1>3, <2>1, <2>3
            DEF IInv, Down, OpState, Fresh, Started, EndSeen, AppliedComplete, Quiet,
                OneVerdict, Active, Settled
<1>. QED  BY <1>4, <1>5

LEMMA StatusReadStep == IInv /\ StatusRead => IInv'
<1>. SUFFICES ASSUME IInv, StatusRead PROVE IInv'
  OBVIOUS
<1>1. /\ state = "CHECKING" /\ stage = 1 /\ op = "status"
      /\ air \in Seq(Packet) /\ Ordered(air) /\ settle' \in BOOLEAN
      /\ sent' \in 0..Blocks /\ sent' = sent
      /\ retries' \in 0..(MaxRetries + 1) /\ retries' <= MaxRetries
      /\ UNCHANGED <<stage, message, settle, devOn, devNext, devStatus, devApplied,
                     losses, runs>>
  BY OtaAssumption DEF IInv, TypeOK, Fresh, OpState, Active, StatusRead
<1>2. CASE SendBlock(sent, air)
  BY <1>1, <1>2, SendBlockStep
<1>3. CASE devStatus # "ok" /\ Fail /\ op' = "none" /\ UNCHANGED air
  <2>1. TypeOK'
    BY <1>1, <1>3 DEF IInv, TypeOK, Fail
  <2>. QED  BY <1>1, <1>3, <2>1
            DEF IInv, Down, OpState, Fresh, Started, EndSeen, AppliedComplete, Quiet,
                OneVerdict, Active, Settled, Fail
<1>. QED  BY <1>2, <1>3 DEF StatusRead

(* The thermometer consumes a packet, or misses one. *)
LEMMA DeliverStep == IInv /\ Deliver => IInv'
<1>. SUFFICES ASSUME IInv, Deliver PROVE IInv'
  OBVIOUS
<1>1. /\ air' = Tail(air) /\ air \in Seq(Packet) /\ air # <<>> /\ Ordered(air)
      /\ UNCHANGED <<state, stage, settle, sent, retries, message, calls, op, link,
                     losses, runs>>
      /\ DevStart \/ DevBlock \/ DevEnd \/ DevIgnore
  BY DEF IInv, TypeOK, Deliver
<1>2. /\ air' \in Seq(Packet) /\ Head(air) \in Packet /\ Ordered(air')
      /\ OnlyVer(air) => OnlyVer(air')
      /\ Head(air).kind # "ver" => ~Holds(air', "start")
      /\ \A k : Holds(air', k) => Holds(air, k)
      /\ \A k : Holds(air, k) => Holds(air', k) \/ Head(air).kind = k
  BY <1>1, TailPacket
<1>3. /\ devOn' \in BOOLEAN /\ devNext' \in 0..Blocks /\ devStatus' \in {"ok", "err"}
      /\ devApplied' \in BOOLEAN /\ AppliedComplete'
      /\ Head(air).kind = "start" => devOn'
      /\ devOn => devOn'
  <2>1. CASE DevStart
    <3>1. devOn' = TRUE /\ devNext' = 0 /\ devStatus' = "ok" /\ devApplied' = FALSE
      BY <2>1 DEF DevStart
    <3>2. 0 \in 0..Blocks
      BY OtaAssumption
    <3>. QED  BY <3>1, <3>2 DEF AppliedComplete
  <2>2. CASE DevBlock
    BY <2>2, OtaAssumption DEF IInv, TypeOK, AppliedComplete, DevBlock
  <2>3. CASE DevEnd
    <3>1. devOn /\ UNCHANGED <<devOn, devNext>> /\ Head(air).kind # "start"
      BY <2>3 DEF DevEnd
    <3>2. \/ devNext = Blocks /\ devApplied' = TRUE /\ UNCHANGED devStatus
          \/ devStatus' = "err" /\ UNCHANGED devApplied
      BY <2>3 DEF DevEnd
    <3>3. devStatus' \in {"ok", "err"} /\ devApplied' \in BOOLEAN
      BY <3>2 DEF IInv, TypeOK
    <3>4. AppliedComplete'
      BY <3>1, <3>2 DEF IInv, AppliedComplete
    <3>. QED  BY <3>1, <3>3, <3>4 DEF IInv, TypeOK
  <2>4. CASE DevIgnore
    BY <2>4 DEF IInv, TypeOK, AppliedComplete, DevIgnore, device
  <2>. QED  BY <1>1, <2>1, <2>2, <2>3, <2>4
<1>4. TypeOK'
  BY <1>1, <1>2, <1>3 DEF IInv, TypeOK
<1>5. Started' /\ Fresh' /\ Quiet' /\ Down'
  BY <1>1, <1>2, <1>3 DEF IInv, Started, Fresh, Quiet, Down, Active
<1>6. EndSeen'
  <2>. SUFFICES ASSUME state = "FINISHING", ~Holds(air', "end")
                PROVE  devOn' /\ ~Holds(air', "start") /\ (devStatus' = "ok" => devApplied')
    BY <1>1 DEF EndSeen
  <2>1. CASE Head(air).kind = "end"
    <3>1. ~Holds(air', "start") /\ ~Holds(air, "start")
      BY <1>2, <2>1
    <3>2. devOn
      BY <3>1 DEF IInv, Started, Fresh, OpState, Active
    <3>. QED  BY <1>1, <1>3, <2>1, <3>1, <3>2 DEF IInv, TypeOK, DevStart, DevBlock, DevEnd, DevIgnore, device
  <2>2. CASE Head(air).kind # "end"
    <3>1. devOn /\ ~Holds(air, "start") /\ (devStatus = "ok" => devApplied)
      BY <1>2, <2>2 DEF IInv, EndSeen
    <3>2. Head(air).kind # "start"
      BY <1>1, <3>1 DEF Holds
    <3>. QED  BY <1>1, <1>2, <1>3, <2>2, <3>1, <3>2
              DEF IInv, TypeOK, DevStart, DevBlock, DevEnd, DevIgnore, device
  <2>. QED  BY <2>1, <2>2
<1>. QED  BY <1>1, <1>2, <1>3, <1>4, <1>5, <1>6
          DEF IInv, OpState, OneVerdict, Active, Settled

LEMMA LoseStep == IInv /\ Lose => IInv'
<1>. SUFFICES ASSUME IInv, Lose PROVE IInv'
  OBVIOUS
<1>1. /\ air' = Tail(air) /\ air \in Seq(Packet) /\ air # <<>> /\ Ordered(air)
      /\ Head(air).kind = "block" /\ losses' \in 0..MaxLoss
      /\ UNCHANGED <<state, stage, settle, sent, retries, message, calls, op, link,
                     devOn, devNext, devStatus, devApplied, runs>>
  BY OtaAssumption DEF IInv, TypeOK, Lose
<1>2. /\ air' \in Seq(Packet) /\ Ordered(air')
      /\ OnlyVer(air) => OnlyVer(air')
      /\ \A k : Holds(air', k) => Holds(air, k)
      /\ \A k : Holds(air, k) => Holds(air', k) \/ k = "block"
  BY <1>1, TailPacket
<1>3. TypeOK'
  BY <1>1, <1>2 DEF IInv, TypeOK
<1>. QED  BY <1>1, <1>2, <1>3
          DEF IInv, Down, OpState, Fresh, Started, EndSeen, AppliedComplete, Quiet,
              OneVerdict, Active, Settled

LEMMA IInvStep == IInv /\ [Next]_vars => IInv'
<1>. SUFFICES ASSUME IInv, [Next]_vars PROVE IInv'
  OBVIOUS
<1>1. CASE UNCHANGED vars
  BY <1>1
  DEF vars, IInv, TypeOK, Down, OpState, Fresh, Started, EndSeen, AppliedComplete, Quiet,
      OneVerdict, Active, Settled
<1>2. CASE Hub
  BY <1>2, BeginStep, SettleStartStep, SettleBlocksStep, VerQueuedStep, StartQueuedStep,
     BlockQueuedStep, BlockCongestedStep, StatusReadStep, EndQueuedStep, FinalReadStep,
     LateFinalStep, OpFailsStep, AbortStep
  DEF Hub, OpResolves
<1>3. CASE Link
  BY <1>3, LinkDropStep, DeliverStep, LoseStep DEF Link
<1>. QED  BY <1>1, <1>2, <1>3 DEF Next

LEMMA Inductive == Spec => []IInv
<1>. QED  BY InitIInv, IInvStep, PTL DEF Spec

----------------------------------------------------------------------------
(* Every variable has its type in every reachable state; in particular the block
   index never passes the end of the image and a congested block is repeated at
   most MaxRetries times (send_block_). *)
THEOREM TypesHold == Spec => []TypeOK
<1>1. IInv => TypeOK
  BY DEF IInv
<1>. QED  BY <1>1, Inductive, PTL

(* "device confirmed the image" is true: the thermometer holds the whole image
   and has accepted it (send_end_). *)
THEOREM ConfirmedHolds == Spec => []ConfirmedIsInstalled
<1>1. IInv => ConfirmedIsInstalled
  BY DEF IInv, Quiet, AppliedComplete, ConfirmedIsInstalled
<1>. QED  BY <1>1, Inductive, PTL

(* The done callback runs once per transfer, when it is over, whichever of the
   abort, the disconnect and the callbacks comes first (fail_, send_end_). *)
THEOREM OneVerdictHolds == Spec => []OneVerdict
<1>1. IInv => OneVerdict
  BY DEF IInv
<1>. QED  BY <1>1, Inductive, PTL

(* Nothing is handed to the stack after the verdict (send_start_, send_block_,
   read_status_, send_end_). *)
LEMMA SilentStep == IInv /\ [Next]_vars => [Settled => Len(air') <= Len(air)]_vars
<1>. SUFFICES ASSUME IInv, Next, Settled PROVE Len(air') <= Len(air)
  BY DEF vars
<1>1. ~Active /\ op \in {"none", "final"} /\ state # "STARTING" /\ air \in Seq(Packet)
  BY DEF IInv, TypeOK, OpState, Active, Settled
<1>2. air' = air \/ air' = <<>> \/ (air # <<>> /\ air' = Tail(air))
  BY <1>1
  DEF Next, Hub, Link, OpResolves, Begin, SettleStart, SettleBlocks, VerQueued,
      StartQueued, BlockQueued, BlockCongested, StatusRead, EndQueued, FinalRead,
      LateFinal, OpFails, Abort, LinkDrop, Deliver, Lose, Active
<1>3. Len(air) \in Nat /\ Len(<<>>) = 0 /\ (air # <<>> => Len(Tail(air)) = Len(air) - 1)
  BY <1>1
<1>. QED  BY <1>2, <1>3

THEOREM SilenceHolds == Spec => SilentAfterVerdict
<1>. QED  BY SilentStep, Inductive, PTL DEF Spec, SilentAfterVerdict

----------------------------------------------------------------------------
(* Flow control *)

(* Division with remainder. *)
LEMMA DivMod ==
  \A w \in Nat \ {0}, k \in Nat :
    k = w * (k \div w) + (k % w) /\ k % w \in 0..(w - 1) /\ k \div w \in Nat
  BY SMTT(30)

LEMMA QuotientUnique ==
  ASSUME NEW w \in Nat \ {0}, NEW a \in Nat, NEW b \in Nat, NEW r \in Nat, NEW s \in Nat,
         w * b + s = w * a + r + 1, r < w, s < w, s # 0
  PROVE  a = b
<1>1. a < b => w * b >= w * a + w
  <2>1. ASSUME b >= a + 1 PROVE w * b >= w * (a + 1)
    BY <2>1, SMTT(30)
  <2>2. w * (a + 1) = w * a + w
    BY SMTT(30)
  <2>. QED  BY <2>1, <2>2
<1>2. b < a => w * a >= w * b + w
  <2>1. ASSUME a >= b + 1 PROVE w * a >= w * (b + 1)
    BY <2>1, SMTT(30)
  <2>2. w * (b + 1) = w * b + w
    BY SMTT(30)
  <2>. QED  BY <2>1, <2>2
<1>. QED  BY <1>1, <1>2

(* The next block is of the same window unless a status read comes first. *)
LEMMA SameWindow ==
  ASSUME NEW k \in Nat, (k + 1) % Window # 0
  PROVE  (k + 1) \div Window = k \div Window
<1>. DEFINE a == k \div Window
            b == (k + 1) \div Window
            r == k % Window
            s == (k + 1) % Window
<1>1. Window \in Nat \ {0} /\ k + 1 \in Nat
  BY OtaAssumption
<1>2. k = Window * a + r /\ r \in 0..(Window - 1) /\ a \in Nat
  BY <1>1, DivMod
<1>3. k + 1 = Window * b + s /\ s \in 0..(Window - 1) /\ b \in Nat
  BY <1>1, DivMod
<1>4. s # 0
  OBVIOUS
<1>. HIDE DEF a, b, r, s
<1>5. Window * b + s = Window * a + r + 1 /\ r \in Nat /\ s \in Nat /\ r < Window /\ s < Window
  BY <1>1, <1>2, <1>3
<1>6. a = b
  BY <1>1, <1>2, <1>3, <1>4, <1>5, QuotientUnique
<1>. QED  BY <1>6 DEF a, b

(* All blocks queued in q are of window w. *)
OfWindow(q, w) == \A i \in DOMAIN q : q[i].kind = "block" => q[i].idx \div Window = w

(* The blocks in flight are of one window: of the block that is being written if
   one is, and none is left when an answered status read starts the next. *)
WInv == /\ \E w \in Nat : OfWindow(air, w)
        /\ op = "block" => OfWindow(air, sent \div Window)
        /\ state = "STARTING" => ~Holds(air, "block")

LEMMA OfWindowAppend ==
  ASSUME NEW q \in Seq(Packet), NEW w, OfWindow(q, w), NEW p \in Packet,
         p.kind = "block" => p.idx \div Window = w
  PROVE  OfWindow(Append(q, p), w)
<1>1. /\ DOMAIN q = 1..Len(q) /\ Len(q) \in Nat
      /\ DOMAIN Append(q, p) = 1..(Len(q) + 1)
      /\ Append(q, p)[Len(q) + 1] = p
      /\ \A i \in 1..Len(q) : Append(q, p)[i] = q[i]
  OBVIOUS
<1>. DEFINE r == Append(q, p)
<1>2. SUFFICES ASSUME NEW i \in DOMAIN r, r[i].kind = "block"
               PROVE  r[i].idx \div Window = w
  BY DEF OfWindow
<1>3. CASE i = Len(q) + 1
  BY <1>1, <1>2, <1>3
<1>4. CASE i \in 1..Len(q)
  BY <1>1, <1>2, <1>4 DEF OfWindow
<1>. QED  BY <1>1, <1>3, <1>4

LEMMA OfWindowTail ==
  ASSUME NEW q \in Seq(Packet), q # <<>>, NEW w, OfWindow(q, w)
  PROVE  OfWindow(Tail(q), w)
<1>1. /\ DOMAIN q = 1..Len(q) /\ Len(q) \in Nat \ {0}
      /\ DOMAIN Tail(q) = 1..(Len(q) - 1)
      /\ \A i \in 1..(Len(q) - 1) : Tail(q)[i] = q[i + 1]
  OBVIOUS
<1>2. \A i \in 1..(Len(q) - 1) : i + 1 \in DOMAIN q
  BY <1>1
<1>. QED  BY <1>1, <1>2 DEF OfWindow

LEMMA OfWindowWithdrawn ==
  ASSUME air \in Seq(Packet), NEW w, OfWindow(air, w)
  PROVE  OfWindow(Withdrawn, w)
<1>1. CASE air # <<>> /\ air[Len(air)] = Blk(sent)
  <2>1. Withdrawn = SubSeq(air, 1, Len(air) - 1)
    BY <1>1 DEF Withdrawn
  <2>2. /\ Len(air) \in Nat \ {0}
        /\ DOMAIN air = 1..Len(air) /\ DOMAIN Withdrawn = 1..(Len(air) - 1)
        /\ \A i \in 1..(Len(air) - 1) : Withdrawn[i] = air[i]
    BY <1>1, <2>1
  <2>. QED  BY <2>2 DEF OfWindow
<1>2. CASE ~(air # <<>> /\ air[Len(air)] = Blk(sent))
  BY <1>2 DEF Withdrawn
<1>. QED  BY <1>1, <1>2

(* A queue without blocks is of every window. *)
LEMMA NoBlocks ==
  ASSUME NEW q \in Seq(Packet), ~Holds(q, "block"), NEW w
  PROVE  OfWindow(q, w)
  BY DEF Holds, OfWindow

LEMMA WindowOf == \A n \in 0..Blocks : n \div Window \in Nat /\ Blk(n).idx = n
  BY OtaAssumption, DivMod DEF Blk

(* A step that ends in send_block_ for a block of window sent' \div Window. *)
LEMMA SendBlockWindow ==
  ASSUME IInv, WInv, sent' \in 0..Blocks, NEW q \in Seq(Packet), SendBlock(sent', q),
         OfWindow(q, sent' \div Window)
  PROVE  WInv'
<1>1. air \in Seq(Packet)
  BY DEF IInv, TypeOK
<1>. DEFINE w == sent' \div Window
<1>2. /\ w \in Nat
      /\ Blk(sent') \in Packet /\ Blk(sent').idx = sent'
      /\ Ctl("end") \in Packet /\ Ctl("end").kind = "end"
  BY WindowOf, Packets
<1>3. state' # "STARTING" /\ (op' = "block" => air' = Append(q, Blk(sent')))
  BY <1>1, SendBlockOutcome
<1>4. CASE air' = Append(q, Blk(sent'))
  <2>1. OfWindow(air', w)
    BY <1>2, <1>4, OfWindowAppend
  <2>. QED  BY <1>2, <1>3, <2>1 DEF WInv
<1>5. CASE air' = q /\ op' # "block"
  BY <1>2, <1>3, <1>5 DEF WInv
<1>6. CASE air' = Append(air, Ctl("end")) /\ op' # "block"
  <2>1. PICK v \in Nat : OfWindow(air, v)
    BY DEF WInv
  <2>2. OfWindow(air', v)
    BY <1>1, <1>2, <1>6, <2>1, OfWindowAppend
  <2>. QED  BY <1>3, <1>6, <2>2 DEF WInv
<1>. QED  BY <1>1, <1>3, <1>4, <1>5, <1>6, SendBlockOutcome

LEMMA WInvStep == IInv /\ WInv /\ [Next]_vars => WInv'
<1>. SUFFICES ASSUME IInv, WInv, [Next]_vars PROVE WInv'
  OBVIOUS
<1>0. /\ air \in Seq(Packet) /\ sent \in 0..Blocks
      /\ Ctl("ver") \in Packet /\ Ctl("ver").kind = "ver"
      /\ Ctl("start") \in Packet /\ Ctl("start").kind = "start"
  BY Packets DEF IInv, TypeOK
<1>1. PICK w \in Nat : OfWindow(air, w)
  BY DEF WInv
<1>2. CASE Begin \/ LinkDrop
  <2>1. air' = <<>> /\ op' = "none"
    BY <1>2 DEF IInv, Down, Begin, LinkDrop
  <2>2. ~Holds(air', "block") /\ OfWindow(air', w)
    BY <2>1, EmptyQueue, NoBlocks
  <2>. QED  BY <2>1, <2>2 DEF WInv
<1>3. CASE SettleStart
  <2>1. /\ air' = Append(air, Ctl("ver")) /\ op' = "ver" /\ state = "STARTING"
    BY <1>3 DEF SettleStart
  <2>2. OfWindow(air', w) /\ ~Holds(air', "block")
    BY <1>0, <1>1, <2>1, OfWindowAppend, AppendPacket DEF WInv
  <2>. QED  BY <2>1, <2>2 DEF WInv
<1>4. CASE VerQueued
  <2>1. /\ air' = Append(air, Ctl("start")) /\ op' = "start" /\ state = "STARTING"
    BY <1>4 DEF VerQueued, IInv, OpState
  <2>2. OfWindow(air', w) /\ ~Holds(air', "block")
    BY <1>0, <1>1, <2>1, OfWindowAppend, AppendPacket DEF WInv
  <2>. QED  BY <2>1, <2>2 DEF WInv
<1>5. CASE SettleBlocks
  <2>1. /\ SendBlock(sent', air) /\ sent' = sent /\ ~Holds(air, "block")
    BY <1>5 DEF SettleBlocks, WInv
  <2>2. OfWindow(air, sent' \div Window)
    BY <1>0, <2>1, NoBlocks
  <2>. QED  BY <1>0, <2>1, <2>2, SendBlockWindow
<1>6. CASE BlockQueued
  <2>1. /\ op = "block" /\ sent < Blocks /\ sent' = sent + 1 /\ state = "WRITING"
        /\ OfWindow(air, sent \div Window)
    BY <1>6 DEF BlockQueued, IInv, OpState, WInv
  <2>2. CASE (sent + 1) % Window = 0
    BY <1>1, <1>6, <2>2 DEF BlockQueued, WInv
  <2>3. CASE (sent + 1) % Window # 0
    <3>1. SendBlock(sent', air) /\ sent' \in 0..Blocks
      BY <1>0, <1>6, <2>1, <2>3, OtaAssumption DEF BlockQueued
    <3>2. OfWindow(air, sent' \div Window)
      BY <1>0, <2>1, <2>3, SameWindow
    <3>. QED  BY <1>0, <3>1, <3>2, SendBlockWindow
  <2>. QED  BY <2>2, <2>3
<1>7. CASE BlockCongested
  <2>1. /\ sent' = sent /\ state = "WRITING" /\ OfWindow(air, sent' \div Window)
    BY <1>7 DEF BlockCongested, IInv, OpState, WInv
  <2>2. PICK q \in {air, Withdrawn} :
          IF retries < MaxRetries
          THEN SendBlock(sent, q)
          ELSE state' = "FAILED" /\ op' = "none" /\ air' = q
    BY <1>7 DEF BlockCongested
  <2>3. q \in Seq(Packet) /\ OfWindow(q, sent' \div Window)
    BY <1>0, <2>1, WithdrawnPrefix, OfWindowWithdrawn
  <2>4. CASE retries < MaxRetries
    BY <1>0, <2>1, <2>2, <2>3, <2>4, SendBlockWindow
  <2>5. CASE ~(retries < MaxRetries)
    <3>1. state' = "FAILED" /\ op' = "none" /\ air' = q /\ sent' \div Window \in Nat
      BY <1>0, <2>1, <2>2, <2>5, WindowOf
    <3>. QED  BY <2>3, <3>1 DEF WInv
  <2>. QED  BY <2>4, <2>5
<1>8. CASE StatusRead
  <2>1. /\ sent' = sent /\ air = <<>> /\ state = "CHECKING" /\ op = "status"
    BY <1>8 DEF StatusRead, IInv, OpState
  <2>2. CASE SendBlock(sent, air)
    <3>1. OfWindow(air, sent' \div Window)
      BY <1>0, <2>1, EmptyQueue, NoBlocks
    <3>. QED  BY <1>0, <2>1, <2>2, <3>1, SendBlockWindow
  <2>3. CASE Fail /\ op' = "none" /\ UNCHANGED air
    BY <1>1, <2>3 DEF Fail, WInv
  <2>. QED  BY <1>8, <2>2, <2>3 DEF StatusRead
<1>9. CASE StartQueued \/ EndQueued \/ FinalRead \/ LateFinal \/ OpFails \/ Abort
           \/ UNCHANGED vars
  BY <1>1, <1>9
  DEF WInv, IInv, OpState, StartQueued, EndQueued, FinalRead, LateFinal, OpFails, Abort,
      Fail, Succeed, vars
<1>10. CASE Deliver \/ Lose
  <2>1. /\ air' = Tail(air) /\ air # <<>> /\ UNCHANGED <<state, op, sent>>
    BY <1>10 DEF Deliver, Lose
  <2>2. OfWindow(air', w) /\ (Holds(air', "block") => Holds(air, "block"))
    BY <1>0, <1>1, <2>1, OfWindowTail, TailPacket
  <2>3. op = "block" => OfWindow(air', sent \div Window)
    BY <1>0, <2>1, OfWindowTail DEF WInv
  <2>. QED  BY <2>1, <2>2, <2>3 DEF WInv
<1>. QED  BY <1>2, <1>3, <1>4, <1>5, <1>6, <1>7, <1>8, <1>9, <1>10
          DEF Next, Hub, Link, OpResolves

(* The status reads are the flow control (send_block_, read_status_): data packets
   of two windows are never in flight together, so the thermometer never has to
   buffer more than one window, whatever is congested, lost or aborted. *)
THEOREM OneWindowHolds == Spec => []OneWindowInFlight
<1>1. Init => WInv
  <2>. SUFFICES ASSUME Init PROVE WInv
    OBVIOUS
  <2>1. ~Holds(air, "block") /\ air \in Seq(Packet) /\ op = "none"
    BY EmptyQueue DEF Init
  <2>2. OfWindow(air, 0)
    BY <2>1, NoBlocks
  <2>. QED  BY <2>1, <2>2 DEF WInv
<1>2. WInv => OneWindowInFlight
  BY DEF WInv, OfWindow, OneWindowInFlight
<1>. QED  BY <1>1, <1>2, WInvStep, Inductive, PTL DEF Spec

----------------------------------------------------------------------------
(* The refinement *)

(* The hub and the thermometer of the protocol make, under the mapping of
   Promise, a step of the abstract transfer or none. *)
LEMMA PromiseInit == Init => Promise!Init
  BY DEF Init, Promise!Init, Outcome

LEMMA PromiseStep == IInv /\ [Next]_vars => [Promise!Next]_(Promise!promise)
<1>. SUFFICES ASSUME IInv, [Next]_vars PROVE Promise!Next \/ UNCHANGED Promise!promise
  OBVIOUS
<1>1. CASE Begin
  <2>1. Outcome # "pending" /\ Outcome' = "pending" /\ UNCHANGED <<devNext, devApplied>>
    BY <1>1 DEF IInv, TypeOK, Outcome, Begin, Active
  <2>. QED  BY <2>1 DEF Promise!Next, Promise!Begin
<1>2. CASE FinalRead
  <2>1. UNCHANGED <<devNext, devApplied>> /\ Outcome = "pending"
    BY <1>2 DEF FinalRead, Outcome
  <2>2. CASE devStatus = "ok" /\ Succeed("confirmed")
    <3>1. devApplied
      BY <1>2, <2>2, EmptyQueue DEF IInv, EndSeen, FinalRead
    <3>2. Outcome' = "confirmed"
      BY <2>2 DEF Succeed, Outcome
    <3>. QED  BY <2>1, <3>1, <3>2 DEF Promise!Next, Promise!Verdict, Promise!Confirm
  <2>3. CASE Fail
    <3>1. Outcome' = "failed"
      BY <2>3 DEF Fail, Outcome
    <3>. QED  BY <2>1, <3>1 DEF Promise!Next, Promise!Verdict, Promise!Fail
  <2>4. CASE Succeed("unread")
    <3>1. Outcome' = "presumed"
      BY <2>4 DEF Succeed, Outcome
    <3>. QED  BY <2>1, <3>1 DEF Promise!Next, Promise!Verdict, Promise!Presume
  <2>. QED  BY <1>2, <2>2, <2>3, <2>4 DEF FinalRead
<1>3. CASE SettleStart \/ SettleBlocks \/ VerQueued \/ StartQueued \/ BlockQueued
           \/ BlockCongested \/ StatusRead \/ EndQueued \/ OpFails \/ Abort
  <2>1. UNCHANGED <<devNext, devApplied>>
    BY <1>3 DEF SettleStart, SettleBlocks, VerQueued, StartQueued, BlockQueued,
                BlockCongested, StatusRead, EndQueued, OpFails, Abort
  <2>2. Active
    BY <1>3 DEF IInv, OpState, Active, SettleStart, SettleBlocks, VerQueued, StartQueued,
                BlockQueued, BlockCongested, StatusRead, EndQueued, OpFails, Abort
  <2>3. Active' \/ state' = "FAILED" \/ (state' = "DONE" /\ message' = "unread")
    BY <1>3, <2>2 DEF Active, SettleStart, SettleBlocks, SendBlock, SendEnd, VerQueued,
                StartQueued, BlockQueued, BlockCongested, StatusRead, EndQueued,
                OpFails, Abort, Fail, Succeed
  <2>4. Outcome = "pending" /\ Outcome' \in {"pending", "failed", "presumed"}
    BY <2>2, <2>3 DEF Active, Outcome
  <2>. QED  BY <2>1, <2>4
            DEF Promise!Next, Promise!promise, Promise!Verdict, Promise!Fail, Promise!Presume
<1>4. CASE LateFinal \/ Lose \/ UNCHANGED vars
  BY <1>4 DEF LateFinal, Lose, vars, Outcome, Promise!promise
<1>5. CASE LinkDrop
  <2>1. UNCHANGED <<devNext, devApplied>>
    BY <1>5 DEF LinkDrop
  <2>2. CASE Active
    <3>1. Outcome = "pending" /\ Outcome' \in {"failed", "presumed"}
      BY <1>5, <2>2 DEF LinkDrop, Succeed, Active, Outcome
    <3>. QED  BY <2>1, <3>1
              DEF Promise!Next, Promise!Verdict, Promise!Fail, Promise!Presume
  <2>3. CASE ~Active
    <3>1. UNCHANGED <<state, message>>
      BY <1>5, <2>3 DEF LinkDrop, Active
    <3>. QED  BY <2>1, <3>1 DEF Outcome, Promise!promise
  <2>. QED  BY <2>2, <2>3
<1>6. CASE Deliver
  <2>1. UNCHANGED Outcome
    BY <1>6 DEF Deliver, Outcome
  <2>2. CASE DevStart
    BY <2>1, <2>2 DEF DevStart, Promise!Next, Promise!Clear
  <2>3. CASE DevBlock
    BY <2>1, <2>3 DEF DevBlock, Promise!Next, Promise!Accept, Promise!promise
  <2>4. CASE DevEnd
    BY <2>1, <2>4 DEF DevEnd, Promise!Next, Promise!Install, Promise!promise
  <2>5. CASE DevIgnore
    BY <2>1, <2>5 DEF DevIgnore, device, Promise!promise
  <2>. QED  BY <1>6, <2>2, <2>3, <2>4, <2>5 DEF Deliver
<1>. QED  BY <1>1, <1>2, <1>3, <1>4, <1>5, <1>6 DEF Next, Hub, Link, OpResolves

(* Every run of the transfer is a run of the abstract one: the thermometer takes
   the blocks in order, accepts an image only when it holds all of it, and the
   hub gives one verdict, "confirmed" only for an accepted image. *)
THEOREM Refinement == Spec => KeepsPromise
<1>. QED  BY PromiseInit, PromiseStep, Inductive, PTL DEF Spec, KeepsPromise, Promise!Spec
=============================================================================
