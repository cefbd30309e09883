---------------------------- MODULE ConfigCodec ----------------------------
(***************************************************************************)
(* The frames of the configuration channel (device_config.cpp): what is    *)
(* sent, what an answer is read as, and the limits of the values.  A       *)
(* firmware version is one byte, 0x47 is 4.7.  The nine bytes that every   *)
(* version has are a sequence; a comfort or a calibration is one value, as *)
(* its words are copied one by one.                                        *)
(***************************************************************************)
EXTENDS Integers, Sequences

V20 == 32
V26 == 38
V36 == 54
V37 == 55
V40 == 64
V47 == 71
V50 == 80

(* The positions of the nine bytes: flg, flg2, temp_offset, humi_offset,   *)
(* advertising_interval, measure_interval, rf_tx_power, connect_latency,   *)
(* lcd_tint.                                                               *)
TempOffset == 3
HumiOffset == 4
Latency    == 8

Signed8(b) == IF b < 128 THEN b ELSE b - 256

(* Division as in C: towards zero. *)
Tenth(x) == IF x >= 0 THEN x \div 10 ELSE -((-x) \div 10)

AtLeast(low, x) == IF x < low THEN low ELSE x
AtMost(high, x) == IF x > high THEN high ELSE x
----------------------------------------------------------------------------
(* DeviceConfig *)

(* What the members are before anything was read. *)
DefaultConfig ==
  [valid |-> FALSE, ver |-> 0, bytes |-> <<0, 0, 0, 0, 40, 4, 191, 49, 55>>, hver |-> 0, av |-> 0]

(* hver & 0x87 *)
OldHver(h) == (h % 8) + (IF h >= 128 THEN 128 ELSE 0)

(* DeviceConfig::decode; frame is what follows the id.  A frame that is    *)
(* too short leaves everything as it was.                                  *)
DecodeConfig(c, frame) ==
  LET n    == Len(frame)
      ver  == frame[1]
      hver == IF n >= 11 THEN frame[11] ELSE 128
  IN IF n < 9 THEN c
     ELSE [valid |-> TRUE,
           ver   |-> ver,
           bytes |-> Append(SubSeq(frame, 2, 9), IF n >= 10 THEN frame[10] ELSE 55),
           hver  |-> IF ver < V36 THEN OldHver(hver) ELSE hver,
           av    |-> IF n >= 12 THEN frame[12] ELSE 0]

(* DeviceConfig::encode, without the id *)
EncodeConfig(c) == c.bytes \o IF c.ver >= V20 THEN <<c.hver, c.av>> ELSE <<>>

(* VBAT below 128, VANT above. *)
Power(p) == IF p >= 128 THEN AtLeast(130, AtMost(191, p)) ELSE AtLeast(23, AtMost(63, p))

(* Mutant: The limits of the power are those of VANT. *)
ClampVant(ver, bytes) == [bytes EXCEPT ![7] = AtLeast(130, AtMost(191, @))]

(* DeviceConfig::clamp *)
Clamp(ver, bytes) ==
  LET offset(b) == IF ver < V47 /\ b = 128 THEN 129 ELSE b
  IN [bytes EXCEPT ![5] = AtLeast(1, @),
                   ![6] = AtLeast(1, @),
                   ![7] = Power(@),
                   ![Latency] = IF ver > V40 THEN AtMost(49, @) ELSE @,
                   ![9] = AtLeast(10, @),
                   ![TempOffset] = offset(@),
                   ![HumiOffset] = IF ver > V50 /\ @ < 6 THEN 5 ELSE offset(@)]
----------------------------------------------------------------------------
(* TriggerConfig *)

DefaultTrigger == [valid |-> FALSE, threshold |-> 2100, hysteresis |-> -55, rds |-> 3600]

(* TriggerConfig::encode: the hysteresis is a byte of tenths before 2.6,   *)
(* the reed switch is there from 3.7 on.                                   *)
EncodeTrigger(ver, t) ==
  [threshold  |-> t.threshold,
   hysteresis |-> IF ver >= V26 THEN t.hysteresis ELSE Tenth(t.hysteresis) % 256,
   rds        |-> IF ver >= V37 THEN <<t.rds>> ELSE <<>>]

(* TriggerConfig::decode of an answer with a byte or a word of hysteresis: *)
(* the flags at the end tell the lengths apart.  Unknown are the members   *)
(* that a frame too short leaves as they were.                             *)
DecodeTrigger(ver, t, frame) ==
  IF frame = <<>> THEN t
  ELSE LET f == frame[1]
       IN [valid      |-> TRUE,
           threshold  |-> f.threshold,
           hysteresis |-> IF f.wide THEN f.hysteresis ELSE Signed8(f.hysteresis) * 10,
           rds        |-> IF f.wide /\ f.rds # <<>> /\ ver >= V37 THEN f.rds[1] ELSE 0]
----------------------------------------------------------------------------
(* ComfortConfig and SensorConfig: the members, or what a frame too short  *)
(* leaves.                                                                 *)

DecodeWords(w, frame) == IF frame = <<>> THEN w ELSE [valid |-> TRUE, words |-> frame[1]]
=============================================================================
