---------------------------- MODULE ConfigWrite ----------------------------
(***************************************************************************)
(* A WRITE_CONFIG job on its connection: the identification reads the      *)
(* parts of the configuration, the job writes those that were requested    *)
(* and compares the answers, and a last read confirms them                 *)
(* (xiaomi_esp_flasher.cpp).  One command waits for the answer with its id *)
(* or for its time-out; an answer that comes later is in the air until     *)
(* then.  Session has the rest of the session.                             *)
(***************************************************************************)
EXTENDS ConfigCodec, FiniteSets

CONSTANTS
  Version,   \* versions of the thermometer's firmware
  Bytes,     \* configurations that it may hold: the nine bytes
  Given,     \* cfg objects of a request: functions from positions to bytes
  Words,     \* comfort parameters and calibrations
  Triggers,  \* trigger parameters
  Hver, Av,  \* the thermometer's own bytes
  MaxAir     \* bound: answers in the air

Nine == [1..9 -> 0..255]

ASSUME ConfigAssumption ==
  /\ Version \subseteq 0..255 /\ Hver \in 0..255 /\ Av \in 0..255
  /\ Bytes \subseteq Nine /\ \A g \in Given : \A i \in DOMAIN g : g[i] \in 0..255
  /\ MaxAir \in Nat \ {0}

VARIABLES
  ver,      \* the thermometer's version
  limit,    \* the longest connection latency that it keeps
  device,   \* what it has stored, by part
  cache,    \* what the hub knows of it: XiaomiDevice
  job,      \* the requested parts
  at,       \* the command: a position of Steps, or after the last
  wait,     \* cmd_waiting_
  air,      \* answers on their way
  outcome   \* of the session

thermometer == <<ver, limit, device>>
vars == <<thermometer, cache, job, at, wait, air, outcome>>

Part == {"cfg", "comfort", "sensor", "trigger"}

DefaultWords == [valid |-> FALSE, words |-> "default"]

(* The commands in their order.  The reads before the writes belong to     *)
(* step_identify_custom_, the last two are step_readback_.                 *)
Steps ==
  <<<<"read", "cfg">>, <<"read", "comfort">>, <<"read", "sensor">>, <<"read", "trigger">>,
    <<"write", "cfg">>, <<"write", "comfort">>, <<"write", "sensor">>, <<"write", "trigger">>,
    <<"check", "cfg">>, <<"check", "comfort">>>>

Do == Steps[at][1]
Of == Steps[at][2]

(* A calibration is there from 4.7 on. *)
Applies(i, c) ==
  CASE Steps[i][1] = "read"  -> Steps[i][2] = "sensor" => ~c.cfg.valid \/ c.cfg.ver >= V47
    [] Steps[i][1] = "write" -> /\ Steps[i][2] \in job.parts
                                /\ Steps[i][2] = "sensor" => c.cfg.ver >= V47
    [] OTHER -> TRUE

(* The next command from i on. *)
From(i, c) ==
  CHOOSE j \in i..(Len(Steps) + 1) :
    /\ j = Len(Steps) + 1 \/ Applies(j, c)
    /\ \A k \in i..(j - 1) : ~Applies(k, c)

(* step_write_config_ asks for a configuration that was read once. *)
Gate(c) == c.cfg.valid

(* After a command: on to the next, or the session's end. *)
GoOn(c) ==
  LET next == From(at + 1, c)
  IN /\ cache' = c
     /\ IF at <= 4 /\ next > 4 /\ ~Gate(c) THEN outcome' = "unsupported" /\ UNCHANGED at
        ELSE /\ at' = next
             /\ outcome' = IF next > Len(Steps) THEN "ok" ELSE "none"
----------------------------------------------------------------------------
(* The request *)

(* The cfg object of parse_job_from_json_: what is not given is a default, *)
(* not what the thermometer has.                                           *)
Parsed(given) ==
  [i \in 1..9 |-> IF i \in DOMAIN given THEN given[i] ELSE DefaultConfig.bytes[i]]

Requests ==
  [parts   : SUBSET Part \ {{}},
   cfg     : {Parsed(g) : g \in Given},
   words   : Words,
   trigger : Triggers]

(* Mutant: The offsets are those of the request in every version. *)
OffsetsGiven == job.cfg

(* From 4.7 on the offset bytes are flags, and zeros stand for the ones    *)
(* the thermometer has.                                                    *)
Offsets ==
  LET b == job.cfg
  IN IF cache.cfg.ver >= V47 /\ b[TempOffset] = 0 /\ b[HumiOffset] = 0
     THEN [b EXCEPT ![TempOffset] = cache.cfg.bytes[TempOffset],
                    ![HumiOffset] = cache.cfg.bytes[HumiOffset]]
     ELSE b

(* What step_write_config_ sends. *)
ToSend == [cache.cfg EXCEPT !.bytes = Clamp(cache.cfg.ver, Offsets), !.av = 0]
----------------------------------------------------------------------------
(* The thermometer: it stores what it is sent, with the connection latency *)
(* that it keeps, or refuses, and answers with what it has.  A trigger is  *)
(* what was sent, encoded for the version that the hub knows.              *)

Stored(part) ==
  CASE part = "cfg" -> {[ToSend.bytes EXCEPT ![Latency] = AtMost(limit, @)], device["cfg"]}
    [] part = "trigger" -> {EncodeTrigger(cache.cfg.ver, job.trigger), device["trigger"]}
    [] OTHER -> {job.words, device[part]}

(* Its answer, unless it is one that is too short. *)
Frame(part, d) ==
  CASE part = "cfg"     -> <<ver>> \o d["cfg"] \o IF ver >= V20 THEN <<Hver, Av>> ELSE <<>>
    [] part = "trigger" -> <<[threshold  |-> d["trigger"].threshold,
                              hysteresis |-> d["trigger"].hysteresis,
                              rds        |-> d["trigger"].rds,
                              wide       |-> ver >= V26]>>
    [] OTHER            -> <<d[part]>>

(* custom_cmd_: the write reaches the thermometer or does not, and it      *)
(* answers or does not.                                                    *)
Command ==
  /\ outcome = "none" /\ ~wait
  /\ wait' = TRUE
  /\ \/ UNCHANGED <<device, air>>
     \/ \E d \in IF Do = "write" THEN {[device EXCEPT ![Of] = s] : s \in Stored(Of)} ELSE {device} :
          /\ device' = d
          /\ \/ UNCHANGED air
             \/ \E f \in {<<>>, Frame(Of, d)} :
                  Len(air) < MaxAir /\ air' = Append(air, [part |-> Of, frame |-> f])
  /\ UNCHANGED <<ver, limit, cache, job, at, outcome>>
----------------------------------------------------------------------------
(* The answers *)

(* What an answer is read as: over the old values by a read, over fresh    *)
(* ones by a write.                                                        *)
Read(part, old, frame) ==
  CASE part = "cfg"     -> DecodeConfig(old, frame)
    [] part = "trigger" -> DecodeTrigger(cache.cfg.ver, old, frame)
    [] OTHER            -> DecodeWords(old, frame)

Fresh(part) ==
  CASE part = "cfg"     -> DefaultConfig
    [] part = "trigger" -> DefaultTrigger
    [] OTHER            -> DefaultWords

(* Mutant: Any answer confirms the write. *)
SameAnswered(part, back) == TRUE

(* The comparison of each write's callback.  A whole cfg that differs is   *)
(* judged by its nine bytes; a trigger is not compared.                    *)
Same(part, back) ==
  CASE part = "cfg"     -> back.bytes = ToSend.bytes
    [] part = "trigger" -> TRUE
    [] OTHER            -> back.words = job.words

Answered(part, frame) ==
  IF Do = "write"
  THEN LET back == Read(part, Fresh(part), frame)
           c    == [cache EXCEPT ![part] = back]
       IN IF Same(part, back) THEN GoOn(c)
          ELSE cache' = c /\ outcome' = "mismatch" /\ UNCHANGED at
  ELSE GoOn([cache EXCEPT ![part] = Read(part, cache[part], frame)])

(* on_notify_: an answer with the awaited id, whichever command it is of;  *)
(* any other is dropped.                                                   *)
Notify ==
  /\ outcome = "none" /\ air # <<>>
  /\ air' = Tail(air)
  /\ IF wait /\ Head(air).part = Of
     THEN wait' = FALSE /\ Answered(Of, Head(air).frame)
     ELSE UNCHANGED <<cache, at, wait, outcome>>
  /\ UNCHANGED <<thermometer, job>>

(* Only an unanswered write ends the session. *)
MustAnswer == Do = "write"

(* Mutant: The command is sent again. *)
PassOverAgain == UNCHANGED <<cache, at, outcome>>

(* A read without an answer is passed over. *)
PassOver == GoOn(cache)

(* The deadline of the command passes, or the write failed. *)
NoAnswer ==
  /\ outcome = "none" /\ wait
  /\ wait' = FALSE
  /\ IF MustAnswer THEN outcome' = "timeout" /\ UNCHANGED <<cache, at>> ELSE PassOver
  /\ UNCHANGED <<thermometer, job, air>>
----------------------------------------------------------------------------
Unknown == [p \in Part |-> Fresh(p)]

(* The configuration of an earlier connection may still be cached. *)
Init ==
  /\ ver \in Version /\ limit \in {49, 255}
  /\ \E b \in {b \in Bytes : b[Latency] <= limit}, w \in Words, t \in Triggers :
       device = [cfg |-> b, comfort |-> w, sensor |-> w, trigger |-> EncodeTrigger(ver, t)]
  /\ cache \in {Unknown} \cup
       {[Unknown EXCEPT !.cfg = DecodeConfig(@, Frame("cfg", [cfg |-> b]))] : b \in Bytes}
  /\ job \in Requests
  /\ at = 1 /\ wait = FALSE /\ air = <<>> /\ outcome = "none"

Next == Command \/ Notify \/ NoAnswer

(* The loop sends the next command and looks at the deadline of the one    *)
(* that waits; no answer is owed.                                          *)
Fairness == WF_vars(Command) /\ WF_vars(NoAnswer)

Spec == Init /\ [][Next]_vars /\ Fairness
----------------------------------------------------------------------------
Limited(v, b) ==
  /\ b[5] >= 1 /\ b[6] >= 1 /\ b[7] \in (23..63) \cup (130..191) /\ b[9] >= 10
  /\ v > V40 => b[Latency] <= 49

(* Besides the types: a running write stays inside the limits that the     *)
(* firmware's own editor keeps.                                            *)
TypeOK ==
  /\ at \in 1..(Len(Steps) + 1) /\ wait \in BOOLEAN /\ Len(air) <= MaxAir
  /\ outcome \in {"none", "ok", "mismatch", "timeout", "unsupported"}
  /\ at \in DOMAIN Steps /\ Do = "write" /\ Of = "cfg" => Limited(cache.cfg.ver, ToSend.bytes)

(* What a successful job calls verified is in the thermometer, whatever it *)
(* refused or limited and however late its answers came; but an answer too *)
(* short to be read is compared as if it held the default values, and the  *)
(* version that it leaves, 0, skips the calibration without a word.        *)
VerifiedIsStored ==
  outcome = "ok" =>
    /\ "cfg" \in job.parts =>
         \/ \A i \in (1..9) \ {TempOffset, HumiOffset} : device.cfg[i] = Clamp(ver, job.cfg)[i]
         \/ Clamp(ver, job.cfg) = DefaultConfig.bytes
    /\ "comfort" \in job.parts =>
         device.comfort = job.words \/ job.words = DefaultWords.words
    /\ "sensor" \in job.parts /\ ver >= V47 =>
         \/ device.sensor = job.words \/ job.words = DefaultWords.words
         \/ "cfg" \in job.parts /\ Clamp(ver, job.cfg) = DefaultConfig.bytes

(* After a successful job the hub's snapshot of the parts that were        *)
(* compared is what the thermometer has, not an answer from before the     *)
(* write.                                                                  *)
CacheIsDevice ==
  outcome = "ok" =>
    /\ "cfg" \in job.parts /\ cache.cfg.valid => cache.cfg.bytes = device.cfg
    /\ "comfort" \in job.parts /\ cache.comfort.valid => cache.comfort.words = device.comfort

VerifiedIsTrue == VerifiedIsStored /\ CacheIsDevice

(* From 4.7 on a request without offsets leaves the flags in those bytes   *)
(* as the thermometer has them, when the hub knows them; only the count of *)
(* advertisements is raised to its limit.                                  *)
OffsetsKept ==
  [][device'.cfg # device.cfg /\ cache.cfg.bytes = device.cfg /\ ver >= V47
       /\ job.cfg[TempOffset] = 0 /\ job.cfg[HumiOffset] = 0
     => /\ device'.cfg[TempOffset] = device.cfg[TempOffset]
        /\ device'.cfg[HumiOffset] \in {device.cfg[HumiOffset], 5}]_vars

(* A job ends by the deadlines of its commands, whatever the thermometer   *)
(* answers.                                                                *)
JobEnds == <>(outcome # "none")
=============================================================================
