-------------------------- MODULE ConfigWriteProofs --------------------------
(***************************************************************************)
(* Theorems about ConfigWrite, for every version, request, stored value    *)
(* and number of answers in the air.                                       *)
(***************************************************************************)
EXTENDS ConfigWrite, SequenceTheorems, TLAPS

(* The answer of a thermometer that has stored b. *)
CfgFrame(b) == <<ver>> \o b \o IF ver >= V20 THEN <<Hver, Av>> ELSE <<>>

AnyWords == Words \cup {DefaultWords.words}
Codes    == {EncodeTrigger(v, t) : v \in 0..255, t \in Triggers}
Frames   == {<<>>} \cup {CfgFrame(b) : b \in Nine} \cup {<<w>> : w \in Words}
              \cup {<<[threshold |-> g.threshold, hysteresis |-> g.hysteresis,
                       rds |-> g.rds, wide |-> w]>> : g \in Codes, w \in BOOLEAN}
Answer   == [part : Part, frame : Frames]

Good == outcome \in {"none", "ok"}

(* The request for which an unreadable answer passes. *)
IsDefault == "cfg" \in job.parts /\ Clamp(ver, job.cfg) = DefaultConfig.bytes

(* What the thermometer keeps of what is sent. *)
Accepted == [ToSend.bytes EXCEPT ![Latency] = AtMost(limit, @)]

DeviceTypes ==
  /\ ver \in 0..255 /\ limit \in Nat
  /\ device = [p \in Part |-> device[p]]
  /\ device["cfg"] \in Nine /\ device["cfg"][Latency] <= limit
  /\ device["comfort"] \in Words /\ device["sensor"] \in Words
  /\ device["trigger"] \in Codes

CacheTypes ==
  /\ cache = [p \in Part |-> cache[p]]
  /\ cache["cfg"] \in [valid : BOOLEAN, ver : 0..255, bytes : Nine, hver : Nat, av : Nat]
  /\ cache["comfort"] \in [valid : BOOLEAN, words : AnyWords]

JobTypes ==
  /\ job \in Requests
  /\ job.parts \in SUBSET Part /\ job.cfg \in Nine /\ job.words \in Words

ControlTypes ==
  /\ at \in 1..11 /\ wait \in BOOLEAN
  /\ outcome \in {"none", "ok", "mismatch", "timeout", "unsupported"}
  /\ air \in Seq(Answer) /\ Len(air) <= MaxAir

Types == DeviceTypes /\ CacheTypes /\ JobTypes /\ ControlTypes

(* What the hub holds of the configuration: nothing, or one of the         *)
(* thermometer's version.                                                  *)
Known ==
  /\ cache["cfg"].valid => cache["cfg"].ver = ver
  /\ ~cache["cfg"].valid => cache["cfg"] = DefaultConfig
  /\ outcome = "none" /\ at = 5 => cache["cfg"].valid /\ "cfg" \in job.parts
  /\ Good /\ at >= 5 => cache["cfg"].valid \/ IsDefault

(* A configuration in the air is the thermometer's, but for the first one  *)
(* while a write waits for its answer.                                     *)
CfgAir ==
  outcome = "none" =>
  \A k \in 1..Len(air) : air[k].part = "cfg" =>
    /\ at < 5 \/ (at = 5 /\ ~wait) => \A l \in 1..Len(air) : air[l].part = "cfg" => l = k
    /\ \/ air[k].frame = <<>>
       \/ \E b \in Nine :
            /\ air[k].frame = CfgFrame(b) /\ b[Latency] <= limit
            /\ \/ b = device["cfg"]
               \/ /\ at = 5 /\ wait /\ device["cfg"] = Accepted
                  /\ \A l \in 1..(k - 1) : air[l].part # "cfg"

(* So are the comfort parameters; *)
ComfortAir ==
  outcome = "none" =>
  \A k \in 1..Len(air) : air[k].part = "comfort" =>
    /\ at < 6 \/ (at = 6 /\ ~wait) => \A l \in 1..Len(air) : air[l].part = "comfort" => l = k
    /\ \/ air[k].frame = <<>>
       \/ \E w \in Words :
            /\ air[k].frame = <<w>>
            /\ \/ w = device["comfort"]
               \/ /\ at = 6 /\ wait /\ device["comfort"] = job.words
                  /\ \A l \in 1..(k - 1) : air[l].part # "comfort"

(* of a calibration the hub reads none after its write. *)
SensorAir ==
  outcome = "none" =>
  \A k \in 1..Len(air) : air[k].part = "sensor" /\ at <= 7 =>
    \/ air[k].frame = <<>>
    \/ \E w \in Words :
         /\ air[k].frame = <<w>>
         /\ w = device["sensor"] \/ (at = 7 /\ wait /\ device["sensor"] = job.words)

(* Nothing is in the air of what no command has asked for. *)
Early ==
  outcome = "none" =>
  /\ at = 1 /\ ~wait => air = <<>>
  /\ at = 1 \/ (at = 2 /\ ~wait) => \A k \in 1..Len(air) : air[k].part # "comfort"

(* What the writes that are over have left. *)
CfgDone ==
  Good /\ at >= 6 /\ "cfg" \in job.parts =>
    /\ \/ \A i \in (1..9) \ {TempOffset, HumiOffset} : device["cfg"][i] = Clamp(ver, job.cfg)[i]
       \/ IsDefault
    /\ cache["cfg"].valid => cache["cfg"].bytes = device["cfg"]

ComfortDone ==
  Good /\ at >= 7 /\ "comfort" \in job.parts =>
    /\ device["comfort"] = job.words \/ job.words = DefaultWords.words
    /\ cache["comfort"].valid => cache["comfort"].words = device["comfort"]

SensorDone ==
  Good /\ at >= 8 /\ "sensor" \in job.parts /\ ver >= V47 =>
    device["sensor"] = job.words \/ job.words = DefaultWords.words \/ IsDefault

Ends ==
  /\ outcome = "ok" => at = 11
  /\ outcome = "none" => at # 11

IInv == /\ Types /\ Known /\ CfgAir /\ ComfortAir /\ SensorAir /\ Early
        /\ CfgDone /\ ComfortDone /\ SensorDone /\ Ends
----------------------------------------------------------------------------
(* The commands *)

(* The table, row by row. *)
LEMMA StepsTable ==
  /\ Len(Steps) = 10 /\ DOMAIN Steps = 1..10
  /\ \A i \in 1..4 : Steps[i][1] = "read"
  /\ \A i \in 5..8 : Steps[i][1] = "write"
  /\ \A i \in 9..10 : Steps[i][1] = "check"
  /\ Steps[1][2] = "cfg" /\ Steps[2][2] = "comfort" /\ Steps[3][2] = "sensor"
  /\ Steps[4][2] = "trigger"
  /\ Steps[5][2] = "cfg" /\ Steps[6][2] = "comfort" /\ Steps[7][2] = "sensor"
  /\ Steps[8][2] = "trigger" /\ Steps[9][2] = "cfg" /\ Steps[10][2] = "comfort"
BY DEF Steps

(* Which commands apply. *)
LEMMA AppliesTable ==
  ASSUME NEW c
  PROVE  /\ Applies(1, c) /\ Applies(2, c) /\ Applies(4, c) /\ Applies(9, c) /\ Applies(10, c)
         /\ Applies(5, c) <=> "cfg" \in job.parts
         /\ Applies(6, c) <=> "comfort" \in job.parts
         /\ Applies(7, c) <=> "sensor" \in job.parts /\ c["cfg"].ver >= V47
BY StepsTable DEF Applies

(* There is a next command, or the end of the table. *)
LEMMA NextExists ==
  ASSUME NEW c, NEW i \in 1..11
  PROVE  \E j \in i..11 : (j = 11 \/ Applies(j, c)) /\ \A k \in i..(j - 1) : ~Applies(k, c)
<1> DEFINE N == {m \in 1..11 : \E j \in m..11 : /\ j = 11 \/ Applies(j, c)
                                                /\ \A k \in m..(j - 1) : ~Applies(k, c)}
<1>1. 11 \in N
  OBVIOUS
<1>2. ASSUME NEW m \in 1..10, m + 1 \in N PROVE m \in N
  <2>1. CASE Applies(m, c)
    BY <2>1
  <2>2. CASE ~Applies(m, c)
    BY <1>2, <2>2
  <2> QED
    BY <2>1, <2>2
<1> HIDE DEF N
<1>3. \A m \in 1..10 : m + 1 \in N => m \in N
  BY <1>2
<1>4. 10 \in N /\ 9 \in N /\ 8 \in N
  <2>1. 10 + 1 = 11 /\ 9 + 1 = 10 /\ 8 + 1 = 9 /\ {8, 9, 10} \subseteq 1..10
    OBVIOUS
  <2>2. (10 + 1 \in N => 10 \in N) /\ (9 + 1 \in N => 9 \in N) /\ (8 + 1 \in N => 8 \in N)
    BY <1>3, <2>1, Zenon
  <2> QED
    BY <1>1, <2>1, <2>2, Zenon
<1>5. 7 \in N /\ 6 \in N /\ 5 \in N
  BY <1>4, <1>3
<1>6. 4 \in N /\ 3 \in N /\ 2 \in N /\ 1 \in N
  BY <1>5, <1>3
<1>7. i \in N
  BY <1>1, <1>4, <1>5, <1>6
<1> QED
  BY <1>7 DEF N

(* From finds it. *)
LEMMA FromFinds ==
  ASSUME NEW c, NEW i \in 1..11
  PROVE  /\ From(i, c) \in i..11
         /\ From(i, c) = 11 \/ Applies(From(i, c), c)
         /\ \A k \in i..(From(i, c) - 1) : ~Applies(k, c)
<1>1. \E j \in i..11 : (j = 11 \/ Applies(j, c)) /\ \A k \in i..(j - 1) : ~Applies(k, c)
  BY NextExists
<1>2. Len(Steps) + 1 = 11
  BY StepsTable
<1> QED
  BY <1>1, <1>2 DEF From

(* Going on: past no write that was requested, and to the writes only with *)
(* a configuration.                                                        *)
LEMMA Onward ==
  ASSUME NEW c, at \in 1..10, GoOn(c)
  PROVE  /\ cache' = c
         /\ \/ outcome' = "unsupported" /\ at' = at
            \/ /\ at' \in (at + 1)..11 /\ outcome' = IF at' = 11 THEN "ok" ELSE "none"
               /\ at <= 4 /\ at' > 4 => c["cfg"].valid
               /\ at = 1 => at' = 2
               /\ at' = 5 => "cfg" \in job.parts
               /\ at <= 4 /\ "cfg" \in job.parts => at' <= 5
               /\ at <= 5 /\ "comfort" \in job.parts => at' <= 6
               /\ at <= 6 /\ "sensor" \in job.parts /\ c["cfg"].ver >= V47 => at' <= 7
<1> DEFINE next == From(at + 1, c)
<1>1. /\ next \in (at + 1)..11 /\ \A k \in (at + 1)..(next - 1) : ~Applies(k, c)
  BY FromFinds
<1>2. /\ at = 1 => next = 2
      /\ next = 5 => "cfg" \in job.parts
      /\ at <= 4 /\ "cfg" \in job.parts => next <= 5
      /\ at <= 5 /\ "comfort" \in job.parts => next <= 6
      /\ at <= 6 /\ "sensor" \in job.parts /\ c["cfg"].ver >= V47 => next <= 7
  <2>1. at = 1 => next = 2
    BY <1>1, AppliesTable
  <2>2. at <= 4 /\ "cfg" \in job.parts => next <= 5
    BY <1>1, AppliesTable
  <2>3. at <= 5 /\ "comfort" \in job.parts => next <= 6
    BY <1>1, AppliesTable
  <2>4. at <= 6 /\ "sensor" \in job.parts /\ c["cfg"].ver >= V47 => next <= 7
    BY <1>1, AppliesTable
  <2>5. next = 5 => "cfg" \in job.parts
    BY FromFinds, AppliesTable
  <2> QED
    BY <2>1, <2>2, <2>3, <2>4, <2>5
<1>3. cache' = c /\ IF at <= 4 /\ next > 4 /\ ~Gate(c) THEN outcome' = "unsupported" /\ at' = at
                    ELSE at' = next /\ outcome' = IF next > 10 THEN "ok" ELSE "none"
  BY StepsTable DEF GoOn
<1> HIDE DEF next
<1> QED
  BY <1>1, <1>2, <1>3 DEF Gate
----------------------------------------------------------------------------
(* The codec *)

(* clamp, byte by byte. *)
LEMMA ClampBytes ==
  ASSUME NEW v \in 0..255, NEW b \in Nine
  PROVE  /\ Clamp(v, b) \in Nine
         /\ Limited(v, Clamp(v, b))
         /\ Clamp(v, b)[TempOffset] = IF v < V47 /\ b[TempOffset] = 128 THEN 129 ELSE b[TempOffset]
         /\ v > V50 => Clamp(v, b)[HumiOffset] = IF b[HumiOffset] < 6 THEN 5 ELSE b[HumiOffset]
         /\ v <= V50 => Clamp(v, b)[HumiOffset] =
                          IF v < V47 /\ b[HumiOffset] = 128 THEN 129 ELSE b[HumiOffset]
<1> DEFINE off(x) == IF v < V47 /\ x = 128 THEN 129 ELSE x
           humi == IF v > V50 /\ b[4] < 6 THEN 5 ELSE off(b[4])
           late == IF v > V40 THEN AtMost(49, b[8]) ELSE b[8]
           c1 == [b EXCEPT ![5] = AtLeast(1, b[5]), ![6] = AtLeast(1, b[6]), ![7] = Power(b[7])]
           c2 == [c1 EXCEPT ![8] = late, ![9] = AtLeast(10, b[9])]
           c3 == [c2 EXCEPT ![3] = off(b[3]), ![4] = humi]
<1>1. \A i \in 1..9 : b[i] \in 0..255
  BY DEF Nine
<1>2. /\ AtLeast(1, b[5]) \in 1..255 /\ AtLeast(1, b[6]) \in 1..255
      /\ Power(b[7]) \in (23..63) \cup (130..191)
      /\ AtLeast(10, b[9]) \in 10..255
  BY <1>1 DEF AtLeast, AtMost, Power
<1> DEFINE x5 == AtLeast(1, b[5])  x6 == AtLeast(1, b[6])  x7 == Power(b[7])
           x9 == AtLeast(10, b[9])
<1>3. x5 \in 0..255 /\ x6 \in 0..255 /\ x7 \in 0..255 /\ x9 \in 0..255
  BY <1>2
<1>4. late \in 0..255 /\ (v > V40 => late <= 49)
  BY <1>1 DEF AtMost, V40
<1>5. off(b[3]) \in 0..255 /\ humi \in 0..255
  BY <1>1
<1>6. Clamp(v, b) = c3
  BY DEF Clamp, Nine, TempOffset, HumiOffset, Latency
<1>7. c1 \in Nine /\ c1[5] = x5 /\ c1[6] = x6 /\ c1[7] = x7
  <2> HIDE DEF off, humi, late, x5, x6, x7
  <2> DEFINE c0 == [b EXCEPT ![5] = x5, ![6] = x6]
  <2>1. c1 = [c0 EXCEPT ![7] = x7]
    BY DEF x5, x6, x7, c1
  <2>2. c0 \in Nine /\ c0[5] = x5 /\ c0[6] = x6
    BY <1>3 DEF Nine
  <2> HIDE DEF c0, c1
  <2> QED
    BY <1>3, <2>1, <2>2 DEF Nine
<1> HIDE DEF c1
<1>8. c2 \in Nine /\ c2[5] = c1[5] /\ c2[6] = c1[6] /\ c2[7] = c1[7]
      /\ c2[8] = late /\ c2[9] = x9
  <2> HIDE DEF off, humi, late, x9
  <2>1. c2 = [c1 EXCEPT ![8] = late, ![9] = x9]
    BY DEF x9, c2
  <2> QED
    BY <1>3, <1>4, <1>7, <2>1 DEF Nine
<1> HIDE DEF c2
<1>9. c3 \in Nine /\ c3[3] = off(b[3]) /\ c3[4] = humi
      /\ \A i \in 5..9 : c3[i] = c2[i]
  <2> DEFINE y3 == off(b[3])
  <2>1. y3 \in 0..255 /\ c3 = [c2 EXCEPT ![3] = y3, ![4] = humi]
    BY <1>5
  <2> HIDE DEF off, humi, late, y3, c3
  <2>2. c3 \in Nine /\ c3[3] = y3 /\ c3[4] = humi /\ \A i \in 5..9 : c3[i] = c2[i]
    BY <1>5, <1>8, <2>1 DEF Nine
  <2> QED
    BY <2>2 DEF y3
<1> HIDE DEF c3, late
<1>10. Limited(v, c3)
  BY <1>2, <1>4, <1>7, <1>8, <1>9 DEF Limited, Latency
<1>11. v > V50 => humi = IF b[4] < 6 THEN 5 ELSE b[4]
  BY <1>1 DEF V50, V47
<1>12. v <= V50 => humi = IF v < V47 /\ b[4] = 128 THEN 129 ELSE b[4]
  BY <1>1 DEF V50, V47
<1> HIDE DEF humi
<1> QED
  BY <1>6, <1>9, <1>10, <1>11, <1>12 DEF TempOffset, HumiOffset

(* The other bytes do not depend on the offsets. *)
LEMMA ClampOthers ==
  ASSUME NEW v \in 0..255, NEW b \in Nine, NEW d \in Nine,
         \A i \in (1..9) \ {TempOffset, HumiOffset} : b[i] = d[i]
  PROVE  \A i \in (1..9) \ {TempOffset, HumiOffset} : Clamp(v, b)[i] = Clamp(v, d)[i]
  BY DEF Clamp, Nine, Power, AtLeast, AtMost, TempOffset, HumiOffset, Latency

(* The nine bytes are a sequence. *)
LEMMA NineIsSeq ==
  ASSUME NEW b \in Nine
  PROVE  b \in Seq(0..255) /\ Len(b) = 9
<1> DEFINE S(n) == [1..n -> 0..255]
           A == {S(n) : n \in Nat}
<1>1. b \in S(9) /\ 9 \in Nat
  BY DEF Nine
<1>2. Seq(0..255) = UNION A
  BY SeqDef
<1> HIDE DEF S
<1>3. S(9) \in A
  BY <1>1
<1> HIDE DEF A
<1>4. b \in Seq(0..255)
  BY <1>1, <1>2, <1>3
<1>5. b \in [1..9 -> 0..255]
  BY DEF Nine
<1> QED
  BY <1>4, <1>5, LenProperties

(* An answer is read as what it was made of. *)
LEMMA FrameIsRead ==
  ASSUME NEW c, NEW b \in Nine, ver \in 0..255
  PROVE  /\ DecodeConfig(c, CfgFrame(b)).valid
         /\ DecodeConfig(c, CfgFrame(b)).ver = ver
         /\ DecodeConfig(c, CfgFrame(b)).bytes = b
         /\ DecodeConfig(c, CfgFrame(b))
              \in [valid : BOOLEAN, ver : 0..255, bytes : Nine, hver : Nat, av : Nat]
<1> DEFINE f == CfgFrame(b)
<1>1. b \in Seq(0..255) /\ Len(b) = 9
  BY NineIsSeq
<1>2. /\ f \in Seq(0..255) /\ Len(f) \in {10, 12}
      /\ f[1] = ver /\ \A i \in 1..9 : f[i + 1] = b[i]
  <2>1. <<ver>> \o b \in Seq(0..255) /\ Len(<<ver>> \o b) = 10 /\ (<<ver>> \o b)[1] = ver
        /\ \A i \in 1..9 : (<<ver>> \o b)[i + 1] = b[i]
    <3>1. <<ver>> \in Seq(0..255) /\ Len(<<ver>>) = 1 /\ <<ver>>[1] = ver
      OBVIOUS
    <3>2. /\ <<ver>> \o b \in Seq(0..255)
          /\ Len(<<ver>> \o b) = Len(<<ver>>) + Len(b)
          /\ \A i \in 1..(Len(<<ver>>) + Len(b)) :
               (<<ver>> \o b)[i] = IF i <= Len(<<ver>>) THEN <<ver>>[i] ELSE b[i - Len(<<ver>>)]
      BY <1>1, <3>1, ConcatProperties
    <3> DEFINE h == <<ver>> \o b
    <3>3. h \in Seq(0..255) /\ Len(h) = 10
          /\ \A i \in 1..10 : h[i] = IF i <= 1 THEN <<ver>>[i] ELSE b[i - 1]
      BY <1>1, <3>1, <3>2
    <3> HIDE DEF h
    <3>4. h[1] = ver /\ \A i \in 1..9 : h[i + 1] = b[i]
      BY <3>1, <3>3
    <3> QED
      BY <3>3, <3>4 DEF h
  <2> DEFINE g == <<ver>> \o b
  <2>2. g \in Seq(0..255) /\ Len(g) = 10 /\ g[1] = ver /\ \A i \in 1..9 : g[i + 1] = b[i]
    BY <2>1
  <2> HIDE DEF g
  <2>3. CASE ver >= V20
    <3>1. g \o <<Hver, Av>> \in Seq(0..255) /\ Len(g \o <<Hver, Av>>) = 12
          /\ \A i \in 1..10 : (g \o <<Hver, Av>>)[i] = g[i]
      <4>1. <<Hver, Av>> \in Seq(0..255) /\ Len(<<Hver, Av>>) = 2
        BY ConfigAssumption
      <4> DEFINE e == <<Hver, Av>>
      <4>2. e \in Seq(0..255) /\ Len(e) = 2
        BY <4>1
      <4> HIDE DEF e
      <4>3. /\ g \o e \in Seq(0..255) /\ Len(g \o e) = Len(g) + Len(e)
            /\ \A i \in 1..(Len(g) + Len(e)) :
                 (g \o e)[i] = IF i <= Len(g) THEN g[i] ELSE e[i - Len(g)]
        BY <2>2, <4>2, ConcatProperties, ZenonT(30)
      <4> DEFINE h == g \o e
      <4>4. h \in Seq(0..255) /\ Len(h) = 12 /\ \A i \in 1..10 : h[i] = g[i]
        <5> HIDE DEF h
        <5>1. /\ h \in Seq(0..255) /\ Len(h) = Len(g) + Len(e)
              /\ \A i \in 1..(Len(g) + Len(e)) :
                   h[i] = IF i <= Len(g) THEN g[i] ELSE e[i - Len(g)]
          BY <4>3 DEF h
        <5> QED
          BY <2>2, <4>2, <5>1
      <4> QED
        BY <4>4 DEF e
    <3>2. f = g \o <<Hver, Av>>
      BY <2>3 DEF CfgFrame, g
    <3> QED
      BY <2>2, <3>1, <3>2
  <2>4. CASE ~(ver >= V20)
    <3>1. g \o <<>> = g
      BY <2>2
    <3>2. f = g \o <<>>
      BY <2>4 DEF CfgFrame, g
    <3> QED
      BY <2>2, <3>1, <3>2
  <2> QED
    BY <2>3, <2>4
<1> HIDE DEF f
<1>3. SubSeq(f, 2, 9) \in Seq(0..255) /\ Len(SubSeq(f, 2, 9)) = 8
      /\ \A i \in 1..8 : SubSeq(f, 2, 9)[i] = b[i]
  <2>1. \A i \in 2..9 : f[i] \in 0..255
    <3> SUFFICES ASSUME NEW i \in 2..9 PROVE f[i] \in 0..255
      OBVIOUS
    <3>1. i \in 1..Len(f)
      BY <1>2
    <3> QED
      BY <1>2, <3>1, ElementOfSeq
  <2>2. /\ SubSeq(f, 2, 9) \in Seq(0..255) /\ Len(SubSeq(f, 2, 9)) = 8
        /\ \A i \in 1..8 : SubSeq(f, 2, 9)[i] = f[2 + i - 1]
    BY <2>1, SubSeqProperties
  <2>3. \A i \in 1..8 : f[2 + i - 1] = b[i]
    <3> SUFFICES ASSUME NEW i \in 1..8 PROVE f[2 + i - 1] = b[i]
      OBVIOUS
    <3>1. 2 + i - 1 = i + 1 /\ i \in 1..9
      OBVIOUS
    <3> QED
      BY <1>2, <3>1
  <2> QED
    BY <2>2, <2>3
<1>4. Append(SubSeq(f, 2, 9), f[10]) = b
  <2> DEFINE s == SubSeq(f, 2, 9)
  <2>1. s \in Seq(0..255) /\ Len(s) = 8 /\ (\A i \in 1..8 : s[i] = b[i]) /\ f[10] = b[9]
    BY <1>2, <1>3
  <2> HIDE DEF s
  <2>2. Append(s, f[10]) \in Seq(0..255) /\ Len(Append(s, f[10])) = 9
        /\ \A i \in 1..9 : Append(s, f[10])[i] = b[i]
    <3>1. f[10] \in 0..255
      <4>1. 10 \in 1..Len(f)
        BY <1>2
      <4> QED
        BY <1>2, <4>1, ElementOfSeq
    <3>2. /\ Append(s, f[10]) \in Seq(0..255) /\ Len(Append(s, f[10])) = 9
          /\ \A i \in 1..8 : Append(s, f[10])[i] = s[i]
          /\ Append(s, f[10])[9] = f[10]
      <4> DEFINE e == f[10]
      <4>1. e \in 0..255
        BY <3>1
      <4> HIDE DEF e
      <4>2. /\ Append(s, e) \in Seq(0..255) /\ Len(Append(s, e)) = Len(s) + 1
            /\ \A i \in 1..Len(s) : Append(s, e)[i] = s[i]
            /\ Append(s, e)[Len(s) + 1] = e
        <5>1. s \in Seq(0..255)
          BY <2>1
        <5> QED
          BY <4>1, <5>1, AppendProperties
      <4> DEFINE u == Append(s, e)
      <4>3. /\ u \in Seq(0..255) /\ Len(u) = 9 /\ u[9] = e
            /\ \A i \in 1..8 : u[i] = s[i]
        <5> HIDE DEF u
        <5>1. /\ u \in Seq(0..255) /\ Len(u) = Len(s) + 1
              /\ (\A i \in 1..Len(s) : u[i] = s[i]) /\ u[Len(s) + 1] = e
          BY <4>2 DEF u
        <5> QED
          BY <2>1, <5>1
      <4> QED
        BY <4>3 DEF e
    <3>3. \A i \in 1..9 : i \in 1..8 \/ i = 9
      OBVIOUS
    <3> QED
      BY <2>1, <3>2, <3>3
  <2>3. DOMAIN Append(s, f[10]) = 1..9 /\ DOMAIN b = 1..9
    BY <1>1, <2>2
  <2>4. Append(s, f[10]) = b
    BY <1>1, <2>2, <2>3, SMTT(20)
  <2> QED
    BY <2>4 DEF s
<1>5. /\ Len(f) >= 11 => f[11] \in 0..255
      /\ Len(f) >= 12 => f[12] \in 0..255
  BY <1>2, ElementOfSeq, SMTT(20)
<1>6. \A h \in 0..255 : OldHver(h) \in Nat
  BY DEF OldHver
<1>7. \A h \in 0..255 : OldHver(h) \in Nat /\ 128 \in 0..255
  BY <1>6
<1> DEFINE hver == IF Len(f) >= 11 THEN f[11] ELSE 128
           r == DecodeConfig(c, f)
<1>8. hver \in 0..255
  BY <1>2, <1>5
<1> HIDE DEF hver
<1>9. r = [valid |-> TRUE, ver |-> f[1],
           bytes |-> Append(SubSeq(f, 2, 9), f[10]),
           hver |-> IF f[1] < V36 THEN OldHver(hver) ELSE hver,
           av |-> IF Len(f) >= 12 THEN f[12] ELSE 0]
  <2>1. ~(Len(f) < 9) /\ Len(f) >= 10
    BY <1>2
  <2>2. r = [valid |-> TRUE, ver |-> f[1],
             bytes |-> Append(SubSeq(f, 2, 9), IF Len(f) >= 10 THEN f[10] ELSE 55),
             hver |-> IF f[1] < V36 THEN OldHver(hver) ELSE hver,
             av |-> IF Len(f) >= 12 THEN f[12] ELSE 0]
    BY <2>1, Zenon DEF DecodeConfig, hver
  <2>3. (IF Len(f) >= 10 THEN f[10] ELSE 55) = f[10]
    BY <2>1
  <2> QED
    BY <2>2, <2>3, Zenon
<1> HIDE DEF r
<1>10. (IF f[1] < V36 THEN OldHver(hver) ELSE hver) \in Nat
  BY <1>6, <1>8
<1>11. (IF Len(f) >= 12 THEN f[12] ELSE 0) \in Nat
  <2>1. CASE Len(f) >= 12
    <3>1. f[12] \in 0..255
      BY <1>5, <2>1, Zenon
    <3>2. f[12] \in Nat
      BY <3>1
    <3> QED
      BY <2>1, <3>2, Zenon
  <2>2. CASE ~(Len(f) >= 12)
    BY <2>2
  <2> QED
    BY <2>1, <2>2
<1>12. /\ r.valid /\ r.ver = ver /\ r.bytes = b
       /\ r \in [valid : BOOLEAN, ver : 0..255, bytes : Nine, hver : Nat, av : Nat]
  BY <1>2, <1>4, <1>9, <1>10, <1>11
<1> QED
  BY <1>12 DEF r, f

(* An answer that is too short leaves what was there. *)
LEMMA ShortIsIgnored == ASSUME NEW c PROVE DecodeConfig(c, <<>>) = c
  BY DEF DecodeConfig

(* The defaults. *)
LEMMA Defaults ==
  /\ DefaultConfig \in [valid : BOOLEAN, ver : 0..255, bytes : Nine, hver : Nat, av : Nat]
  /\ ~DefaultConfig.valid
  /\ DefaultConfig.bytes[TempOffset] = 0 /\ DefaultConfig.bytes[HumiOffset] = 0
  /\ DefaultWords \in [valid : BOOLEAN, words : AnyWords]
  /\ ~DefaultWords.valid
  BY DEF DefaultConfig, DefaultWords, AnyWords, Nine, TempOffset, HumiOffset
----------------------------------------------------------------------------
(* The steps *)

(* What the cache holds is of the right type and version. *)
CacheFits(c) ==
  /\ c = [p \in Part |-> c[p]]
  /\ c["cfg"] \in [valid : BOOLEAN, ver : 0..255, bytes : Nine, hver : Nat, av : Nat]
  /\ c["comfort"] \in [valid : BOOLEAN, words : AnyWords]
  /\ c["cfg"].valid => c["cfg"].ver = ver
  /\ ~c["cfg"].valid => c["cfg"] = DefaultConfig

(* What is sent. *)
LEMMA Sent ==
  ASSUME Types
  PROVE  /\ Offsets \in Nine
         /\ ToSend.bytes = Clamp(cache["cfg"].ver, Offsets)
         /\ ToSend.bytes \in Nine /\ Limited(cache["cfg"].ver, ToSend.bytes)
         /\ Accepted \in Nine /\ Accepted[Latency] <= limit
         /\ \A i \in (1..9) \ {Latency} : Accepted[i] = ToSend.bytes[i]
         /\ ToSend.bytes[Latency] <= limit => Accepted = ToSend.bytes
<1>1. Offsets \in Nine
  BY ZenonT(30) DEF Types, CacheTypes, JobTypes, Offsets, Nine, TempOffset, HumiOffset
<1>2. ToSend.bytes = Clamp(cache["cfg"].ver, Offsets)
  BY DEF Types, CacheTypes, ToSend
<1> DEFINE s == ToSend.bytes
<1>3. s \in Nine /\ Limited(cache["cfg"].ver, s)
  BY <1>1, <1>2, ClampBytes, SMTT(20) DEF Types, CacheTypes
<1> HIDE DEF s
<1>4. Accepted = [s EXCEPT ![8] = AtMost(limit, s[8])]
  BY DEF Accepted, s, Latency
<1>5. s[8] \in 0..255 /\ limit \in Nat
  <2>1. s[8] \in 0..255
    BY <1>3 DEF Nine
  <2>2. limit \in Nat
    BY DEF Types, DeviceTypes
  <2> QED
    BY <2>1, <2>2
<1>6. AtMost(limit, s[8]) \in 0..255 /\ AtMost(limit, s[8]) <= limit
      /\ (s[8] <= limit => AtMost(limit, s[8]) = s[8])
  BY <1>5 DEF AtMost
<1> DEFINE m == AtMost(limit, s[8])
<1> HIDE DEF m
<1>7. /\ [s EXCEPT ![8] = m] \in Nine /\ [s EXCEPT ![8] = m][8] = m
      /\ \A i \in (1..9) \ {8} : [s EXCEPT ![8] = m][i] = s[i]
      /\ m = s[8] => [s EXCEPT ![8] = m] = s
  BY <1>3, <1>6 DEF Nine, m
<1>8. Accepted = [s EXCEPT ![8] = m]
  BY <1>4 DEF m
<1>9. m <= limit /\ (s[8] <= limit => m = s[8])
  BY <1>6 DEF m
<1>10. s \in Nine /\ Limited(cache["cfg"].ver, s) /\ Accepted \in Nine /\ Accepted[8] <= limit
       /\ (\A i \in (1..9) \ {8} : Accepted[i] = s[i])
       /\ (s[8] <= limit => Accepted = s)
  BY <1>3, <1>7, <1>8, <1>9
<1> QED
  BY <1>1, <1>2, <1>10 DEF s, Latency

(* Taking the first answer moves the others up. *)
LEMMA Shorter ==
  ASSUME air \in Seq(Answer), Len(air) <= MaxAir, air # <<>>, air' = Tail(air)
  PROVE  /\ air' \in Seq(Answer) /\ Len(air') <= MaxAir
         /\ Len(air') = Len(air) - 1 /\ Len(air) >= 1
         /\ Head(air) = air[1] /\ air[1] \in Answer
         /\ \A k \in 1..Len(air') : k + 1 \in 1..Len(air) /\ air'[k] = air[k + 1]
<1>1. Len(air) \in Nat \ {0}
  BY EmptySeq
<1>2. /\ Tail(air) \in Seq(Answer) /\ Len(Tail(air)) = Len(air) - 1
      /\ \A k \in 1..Len(Tail(air)) : Tail(air)[k] = air[k + 1]
  BY HeadTailProperties
<1>3. 1 \in 1..Len(air)
  BY <1>1
<1>4. air[1] \in Answer
  BY <1>3, ElementOfSeq
<1>5. Head(air) = air[1]
  OBVIOUS
<1>6. MaxAir \in Nat
  BY ConfigAssumption
<1> QED
  BY <1>1, <1>2, <1>4, <1>5, <1>6

(* A command is over, by its answer or, unless it was a write, without:    *)
(* the invariant goes on with the next one.                                *)
LEMMA Continued ==
  ASSUME IInv, outcome = "none", wait, wait' = FALSE,
         UNCHANGED <<ver, limit, device, job>>,
         NEW c, CacheFits(c), GoOn(c),
         \/ air' = air /\ at \notin 5..8
         \/ air # <<>> /\ air' = Tail(air) /\ Head(air).part = Of,
         at >= 5 => c["cfg"].valid \/ IsDefault,
         at >= 5 /\ "cfg" \in job.parts =>
           /\ \/ \A i \in (1..9) \ {TempOffset, HumiOffset} :
                   device["cfg"][i] = Clamp(ver, job.cfg)[i]
              \/ IsDefault
           /\ c["cfg"].valid => c["cfg"].bytes = device["cfg"],
         at >= 6 /\ "comfort" \in job.parts =>
           /\ device["comfort"] = job.words \/ job.words = DefaultWords.words
           /\ c["comfort"].valid => c["comfort"].words = device["comfort"],
         at >= 7 /\ "sensor" \in job.parts /\ ver >= V47 =>
           device["sensor"] = job.words \/ job.words = DefaultWords.words \/ IsDefault
  PROVE  IInv'
<1>1. at \in 1..10
  BY DEF IInv, Types, ControlTypes, Ends
<1>2. /\ cache' = c
      /\ \/ outcome' = "unsupported" /\ at' = at
         \/ /\ at' \in (at + 1)..11 /\ outcome' = IF at' = 11 THEN "ok" ELSE "none"
            /\ at <= 4 /\ at' > 4 => c["cfg"].valid
            /\ at = 1 => at' = 2
            /\ at' = 5 => "cfg" \in job.parts
            /\ at <= 4 /\ "cfg" \in job.parts => at' <= 5
            /\ at <= 5 /\ "comfort" \in job.parts => at' <= 6
            /\ at <= 6 /\ "sensor" \in job.parts /\ c["cfg"].ver >= V47 => at' <= 7
  BY <1>1, Onward
<1>3. /\ air' \in Seq(Answer) /\ Len(air') <= MaxAir
      /\ \E d \in {0, 1} :
           /\ \A k \in 1..Len(air') : k + d \in 1..Len(air) /\ air'[k] = air[k + d]
           /\ at \in 5..8 => d = 1
           /\ d = 1 => 1 \in 1..Len(air) /\ air[1].part = Of
  <2>1. air \in Seq(Answer) /\ Len(air) <= MaxAir /\ Len(air) \in Nat
    BY LenProperties DEF IInv, Types, ControlTypes
  <2>2. CASE air' = air /\ at \notin 5..8
    <3>1. \A k \in 1..Len(air') : k + 0 \in 1..Len(air) /\ air'[k] = air[k + 0]
      BY <2>1, <2>2
    <3> QED
      BY <2>1, <2>2, <3>1
  <2>3. CASE air # <<>> /\ air' = Tail(air) /\ Head(air).part = Of
    <3>1. /\ air' \in Seq(Answer) /\ Len(air') <= MaxAir
          /\ Len(air) >= 1 /\ Head(air) = air[1]
          /\ \A k \in 1..Len(air') : k + 1 \in 1..Len(air) /\ air'[k] = air[k + 1]
      BY <2>1, <2>3, Shorter
    <3>2. 1 \in 1..Len(air) /\ air[1].part = Of
      BY <2>1, <2>3, <3>1
    <3> QED
      BY <3>1, <3>2
  <2> QED
    BY <2>2, <2>3
<1>4. PICK d \in {0, 1} :
           /\ \A k \in 1..Len(air') : k + d \in 1..Len(air) /\ air'[k] = air[k + d]
           /\ at \in 5..8 => d = 1
           /\ d = 1 => 1 \in 1..Len(air) /\ air[1].part = Of
  BY <1>3
<1>5. Len(air) \in Nat /\ Len(air') \in Nat
  BY <1>3, LenProperties DEF IInv, Types, ControlTypes
<1>6. Types'
  <2>1. DeviceTypes'
    <3>1. DeviceTypes
      BY DEF IInv, Types
    <3> QED
      BY <3>1 DEF DeviceTypes
  <2>2. CacheTypes'
    BY <1>2 DEF CacheTypes, CacheFits
  <2>3. JobTypes'
    BY DEF IInv, Types, JobTypes, Requests
  <2>4. ControlTypes'
    <3>1. Answer' = Answer
      BY DEF Answer, Frames, CfgFrame, Codes
    <3>2. at' \in 1..11 /\ outcome' \in {"none", "ok", "unsupported"}
      BY <1>1, <1>2
    <3> QED
      BY <1>3, <3>1, <3>2 DEF ControlTypes
  <2> QED
    BY <2>1, <2>2, <2>3, <2>4 DEF Types
<1>7. CASE outcome' = "unsupported"
  <2>1. Known'
    BY <1>2, <1>7 DEF Known, CacheFits, Good
  <2> QED
    BY <1>6, <1>7, <2>1 DEF IInv, CfgAir, ComfortAir, SensorAir, Early, CfgDone, ComfortDone,
       SensorDone, Ends, Good
<1>8. CASE outcome' # "unsupported"
  <2>1. /\ at' \in (at + 1)..11 /\ outcome' = IF at' = 11 THEN "ok" ELSE "none"
        /\ at <= 4 /\ at' > 4 => c["cfg"].valid
        /\ at = 1 => at' = 2
        /\ at' = 5 => "cfg" \in job.parts
        /\ at <= 4 /\ "cfg" \in job.parts => at' <= 5
        /\ at <= 5 /\ "comfort" \in job.parts => at' <= 6
        /\ at <= 6 /\ "sensor" \in job.parts /\ c["cfg"].ver >= V47 => at' <= 7
    BY <1>2, <1>8
  <2>2. IsDefault' = IsDefault
    BY DEF IsDefault
  <2>3. Known'
    <3>1. /\ cache'["cfg"].valid => cache'["cfg"].ver = ver
          /\ ~cache'["cfg"].valid => cache'["cfg"] = DefaultConfig
      BY <1>2 DEF CacheFits
    <3>2. at' = 5 => cache'["cfg"].valid /\ "cfg" \in job.parts
      BY <1>1, <1>2, <2>1
    <3>3. at' >= 5 => cache'["cfg"].valid \/ IsDefault
      BY <1>1, <1>2, <2>1
    <3> QED
      BY <2>2, <3>1, <3>2, <3>3 DEF Known
  <2>4. CfgAir'
    <3> SUFFICES ASSUME outcome' = "none", NEW k \in 1..Len(air'), air'[k].part = "cfg"
                 PROVE  /\ at' < 5 \/ (at' = 5 /\ ~wait') =>
                             \A l \in 1..Len(air') : air'[l].part = "cfg" => l = k
                        /\ \/ air'[k].frame = <<>>
                           \/ \E b \in Nine : /\ air'[k].frame = CfgFrame(b)' /\ b[Latency] <= limit
                                             /\ b = device["cfg"]
      BY DEF CfgAir
    <3>1. k + d \in 1..Len(air) /\ air'[k] = air[k + d]
      BY <1>4
    <3>2. air[k + d].part = "cfg"
      BY <3>1
    <3>3. /\ at < 5 \/ (at = 5 /\ ~wait) => \A l \in 1..Len(air) : air[l].part = "cfg" => l = k + d
          /\ \/ air[k + d].frame = <<>>
             \/ \E b \in Nine :
                  /\ air[k + d].frame = CfgFrame(b) /\ b[Latency] <= limit
                  /\ \/ b = device["cfg"]
                     \/ /\ at = 5 /\ wait /\ device["cfg"] = Accepted
                        /\ \A l \in 1..(k + d - 1) : air[l].part # "cfg"
      BY <3>1, <3>2 DEF IInv, CfgAir
    <3>4. at' <= 5 => \A l \in 1..Len(air') : air'[l].part = "cfg" => l = k
      BY <1>1, <1>4, <2>1, <3>3, SMTT(20)
    <3>5. at = 5 => d = 1 /\ 1 \in 1..(k + d - 1) /\ air[1].part = "cfg"
      BY <1>4, StepsTable DEF Of
    <3>6. CASE air[k + d].frame = <<>>
      BY <1>1, <2>1, <3>1, <3>4, <3>6
    <3>7. CASE air[k + d].frame # <<>>
      <4>1. PICK b \in Nine :
                  /\ air[k + d].frame = CfgFrame(b) /\ b[Latency] <= limit
                  /\ \/ b = device["cfg"]
                     \/ /\ at = 5 /\ wait /\ device["cfg"] = Accepted
                        /\ \A l \in 1..(k + d - 1) : air[l].part # "cfg"
        BY <3>3, <3>7
      <4>2. b = device["cfg"]
        BY <3>5, <4>1
      <4>3. CfgFrame(b)' = CfgFrame(b)
        BY DEF CfgFrame
      <4> QED
        BY <1>1, <2>1, <3>1, <3>4, <4>1, <4>2, <4>3
    <3> QED
      BY <3>6, <3>7
  <2>5. ComfortAir'
    <3> SUFFICES ASSUME outcome' = "none", NEW k \in 1..Len(air'), air'[k].part = "comfort"
                 PROVE  /\ at' < 6 \/ (at' = 6 /\ ~wait') =>
                             \A l \in 1..Len(air') : air'[l].part = "comfort" => l = k
                        /\ \/ air'[k].frame = <<>>
                           \/ \E w \in Words : air'[k].frame = <<w>> /\ w = device["comfort"]
      BY DEF ComfortAir
    <3>1. k + d \in 1..Len(air) /\ air'[k] = air[k + d]
      BY <1>4
    <3>2. air[k + d].part = "comfort"
      BY <3>1
    <3>3. /\ at < 6 \/ (at = 6 /\ ~wait) => \A l \in 1..Len(air) : air[l].part = "comfort" => l = k + d
          /\ \/ air[k + d].frame = <<>>
             \/ \E w \in Words :
                  /\ air[k + d].frame = <<w>>
                  /\ \/ w = device["comfort"]
                     \/ /\ at = 6 /\ wait /\ device["comfort"] = job.words
                        /\ \A l \in 1..(k + d - 1) : air[l].part # "comfort"
      BY <3>1, <3>2 DEF IInv, ComfortAir
    <3>4. at' <= 6 => \A l \in 1..Len(air') : air'[l].part = "comfort" => l = k
      <4> SUFFICES ASSUME at' <= 6, NEW l \in 1..Len(air'), air'[l].part = "comfort" PROVE l = k
        OBVIOUS
      <4>1. at < 6
        BY <1>1, <2>1
      <4>2. l + d \in 1..Len(air) /\ air[l + d].part = "comfort"
        BY <1>4
      <4>3. l + d = k + d
        BY <3>3, <4>1, <4>2
      <4> QED
        BY <1>5, <4>3
    <3>5. at = 6 => d = 1 /\ 1 \in 1..(k + d - 1) /\ air[1].part = "comfort"
      BY <1>4, StepsTable DEF Of
    <3> QED
      BY <1>1, <2>1, <3>1, <3>3, <3>4, <3>5
  <2>6. SensorAir'
    <3> SUFFICES ASSUME outcome' = "none", NEW k \in 1..Len(air'), air'[k].part = "sensor", at' <= 7
                 PROVE  \/ air'[k].frame = <<>>
                        \/ \E w \in Words : air'[k].frame = <<w>> /\ w = device["sensor"]
      BY DEF SensorAir
    <3>1. k + d \in 1..Len(air) /\ air'[k] = air[k + d] /\ at <= 6
      BY <1>1, <1>4, <2>1
    <3> QED
      BY <1>1, <3>1 DEF IInv, SensorAir
  <2>7. Early'
    <3>1. at' # 1
      BY <1>1, <2>1
    <3>2. at' = 2 => at = 1
      BY <1>1, <2>1
    <3>3. at = 1 => \A k \in 1..Len(air') : air'[k].part # "comfort"
      BY <1>4 DEF IInv, Early
    <3> QED
      BY <3>1, <3>2, <3>3 DEF Early
  <2>8. CfgDone' /\ ComfortDone' /\ SensorDone'
    <3>1. CfgDone'
      BY <1>1, <1>2, <2>1, <2>2 DEF CfgDone
    <3>2. ComfortDone'
      BY <1>1, <1>2, <2>1 DEF ComfortDone
    <3>3. ASSUME at' >= 8, "sensor" \in job.parts, ver >= V47
          PROVE  device["sensor"] = job.words \/ job.words = DefaultWords.words \/ IsDefault
      <4>1. CASE at >= 7
        BY <3>3, <4>1
      <4>2. CASE at <= 6
        <5>1. ~(c["cfg"].ver >= V47)
          BY <2>1, <3>3, <4>2
        <5>2. ~c["cfg"].valid
          BY <3>3, <5>1 DEF CacheFits
        <5> QED
          BY <1>1, <2>1, <3>3, <5>2
      <4> QED
        BY <1>1, <4>1, <4>2
    <3>4. SensorDone'
      BY <2>2, <3>3 DEF SensorDone
    <3> QED
      BY <3>1, <3>2, <3>4
  <2>9. Ends'
    BY <2>1 DEF Ends
  <2> QED
    BY <1>6, <2>3, <2>4, <2>5, <2>6, <2>7, <2>8, <2>9 DEF IInv
<1> QED
  BY <1>7, <1>8

(* A job that ends without success keeps only what the types say. *)
LEMMA Ended ==
  ASSUME IInv, at' = at, wait' = FALSE, outcome' \in {"mismatch", "timeout"},
         UNCHANGED <<ver, limit, device, job>>,
         NEW c, CacheFits(c), cache' = c,
         air' = air \/ (air # <<>> /\ air' = Tail(air))
  PROVE  IInv'
<1>1. DeviceTypes'
  <2>1. DeviceTypes
    BY DEF IInv, Types
  <2> QED
    BY <2>1 DEF DeviceTypes
<1>2. CacheTypes'
  BY DEF CacheTypes, CacheFits
<1>3. JobTypes'
  BY DEF IInv, Types, JobTypes, Requests
<1>4. ControlTypes'
  <2>1. Answer' = Answer
    BY DEF Answer, Frames, CfgFrame, Codes
  <2>2. ControlTypes
    BY DEF IInv, Types
  <2>3. air' \in Seq(Answer) /\ Len(air') <= MaxAir
    BY <2>2, Shorter DEF ControlTypes
  <2> QED
    BY <2>1, <2>2, <2>3 DEF ControlTypes
<1>5. Known'
  BY DEF Known, CacheFits, Good
<1> QED
  BY <1>1, <1>2, <1>3, <1>4, <1>5 DEF IInv, Types, CfgAir, ComfortAir, SensorAir, Early, CfgDone,
     ComfortDone, SensorDone, Ends, Good

(* The cache fits now. *)
LEMMA CacheFitsNow == ASSUME IInv PROVE CacheFits(cache)
  BY DEF IInv, Types, CacheTypes, Known, CacheFits

(* Replacing one part keeps the cache fitting. *)
LEMMA Replaced ==
  ASSUME CacheFits(cache), NEW p \in Part, NEW x,
         p = "cfg" =>
           /\ x \in [valid : BOOLEAN, ver : 0..255, bytes : Nine, hver : Nat, av : Nat]
           /\ x.valid => x.ver = ver
           /\ ~x.valid => x = DefaultConfig,
         p = "comfort" => x \in [valid : BOOLEAN, words : AnyWords]
  PROVE  /\ CacheFits([cache EXCEPT ![p] = x])
         /\ [cache EXCEPT ![p] = x][p] = x
         /\ \A q \in Part \ {p} : [cache EXCEPT ![p] = x][q] = cache[q]
<1> DEFINE c == [cache EXCEPT ![p] = x]
<1>1. /\ c = [q \in Part |-> c[q]] /\ c[p] = x
      /\ \A q \in Part \ {p} : c[q] = cache[q]
  BY DEF CacheFits
<1> HIDE DEF c
<1>2. "cfg" \in Part /\ "comfort" \in Part
  BY DEF Part
<1>3. c["cfg"] = IF p = "cfg" THEN x ELSE cache["cfg"]
  BY <1>1, <1>2
<1>4. c["comfort"] = IF p = "comfort" THEN x ELSE cache["comfort"]
  BY <1>1, <1>2
<1>5. /\ c["cfg"] \in [valid : BOOLEAN, ver : 0..255, bytes : Nine, hver : Nat, av : Nat]
      /\ c["cfg"].valid => c["cfg"].ver = ver
      /\ ~c["cfg"].valid => c["cfg"] = DefaultConfig
  BY <1>3 DEF CacheFits
<1>6. c["comfort"] \in [valid : BOOLEAN, words : AnyWords]
  BY <1>4 DEF CacheFits
<1>7. CacheFits(c)
  BY <1>1, <1>5, <1>6 DEF CacheFits
<1> QED
  BY <1>1, <1>7 DEF c

(* The deadline passes. *)
LEMMA NoAnswerKeeps ==
  ASSUME IInv, NoAnswer
  PROVE  IInv'
<1>1. at \in 1..10 /\ CacheFits(cache)
  BY CacheFitsNow DEF IInv, Types, ControlTypes, Ends, NoAnswer
<1>2. /\ outcome = "none" /\ wait /\ wait' = FALSE /\ UNCHANGED <<ver, limit, device, job, air>>
      /\ IF Do = "write" THEN outcome' = "timeout" /\ UNCHANGED <<cache, at>> ELSE GoOn(cache)
  BY DEF NoAnswer, thermometer, MustAnswer, PassOver
<1>3. CASE Do = "write"
  BY <1>1, <1>2, <1>3, Ended
<1>4. CASE Do # "write"
  <2>1. at \notin 5..8
    BY <1>4, StepsTable DEF Do
  <2>2. GoOn(cache)
    BY <1>2, <1>4
  <2>3. /\ at >= 5 => at >= 6 /\ at >= 7 /\ at >= 8
        /\ Good
    BY <1>1, <1>2, <2>1 DEF Good
  <2>4. at >= 5 => cache["cfg"].valid \/ IsDefault
    BY <2>3 DEF IInv, Known
  <2>5. at >= 5 /\ "cfg" \in job.parts =>
           /\ \/ \A i \in (1..9) \ {TempOffset, HumiOffset} :
                   device["cfg"][i] = Clamp(ver, job.cfg)[i]
              \/ IsDefault
           /\ cache["cfg"].valid => cache["cfg"].bytes = device["cfg"]
    BY <2>3 DEF IInv, CfgDone
  <2>6. at >= 6 /\ "comfort" \in job.parts =>
           /\ device["comfort"] = job.words \/ job.words = DefaultWords.words
           /\ cache["comfort"].valid => cache["comfort"].words = device["comfort"]
    BY <1>1, <2>3 DEF IInv, ComfortDone
  <2>7. at >= 7 /\ "sensor" \in job.parts /\ ver >= V47 =>
           device["sensor"] = job.words \/ job.words = DefaultWords.words \/ IsDefault
    BY <1>1, <2>3 DEF IInv, SensorDone
  <2>8. air' = air /\ at \notin 5..8
    BY <1>2, <2>1
  <2> QED
    BY <1>1, <1>2, <2>2, <2>4, <2>5, <2>6, <2>7, <2>8, Continued
<1> QED
  BY <1>3, <1>4

(* An answer that nobody waits for is dropped. *)
LEMMA DroppedKeeps ==
  ASSUME IInv, outcome = "none", air # <<>>, air' = Tail(air),
         UNCHANGED <<ver, limit, device, cache, job, at, wait, outcome>>
  PROVE  IInv'
<1>1. /\ air \in Seq(Answer) /\ Len(air) <= MaxAir
  BY DEF IInv, Types, ControlTypes
<1>2. /\ air' \in Seq(Answer) /\ Len(air') <= MaxAir
      /\ \A k \in 1..Len(air') : k + 1 \in 1..Len(air) /\ air'[k] = air[k + 1]
  BY <1>1, Shorter
<1>3. Len(air) \in Nat /\ Len(air') \in Nat
  BY <1>1, <1>2, LenProperties
<1>4. /\ ToSend' = ToSend /\ Accepted' = Accepted /\ IsDefault' = IsDefault /\ Answer' = Answer
      /\ \A b \in Nine : CfgFrame(b)' = CfgFrame(b)
  BY DEF ToSend, Offsets, Accepted, IsDefault, Answer, Frames, CfgFrame, Codes
<1>5. Types'
  <2>1. DeviceTypes'
    BY DEF IInv, Types, DeviceTypes
  <2>2. CacheTypes'
    BY DEF IInv, Types, CacheTypes
  <2>3. JobTypes'
    BY DEF IInv, Types, JobTypes, Requests
  <2>4. ControlTypes'
    BY <1>2, <1>4 DEF IInv, Types, ControlTypes
  <2> QED
    BY <2>1, <2>2, <2>3, <2>4 DEF Types
<1>6. Known' /\ Ends'
  BY <1>4 DEF IInv, Known, Ends, Good
<1>7. CfgDone' /\ ComfortDone' /\ SensorDone'
  BY <1>4 DEF IInv, CfgDone, ComfortDone, SensorDone, Good
<1>8. CfgAir'
  <2> SUFFICES ASSUME NEW k \in 1..Len(air'), air'[k].part = "cfg"
               PROVE  /\ at < 5 \/ (at = 5 /\ ~wait) =>
                           \A l \in 1..Len(air') : air'[l].part = "cfg" => l = k
                      /\ \/ air'[k].frame = <<>>
                         \/ \E b \in Nine :
                              /\ air'[k].frame = CfgFrame(b) /\ b[Latency] <= limit
                              /\ \/ b = device["cfg"]
                                 \/ /\ at = 5 /\ wait /\ device["cfg"] = Accepted
                                    /\ \A l \in 1..(k - 1) : air'[l].part # "cfg"
    BY <1>4 DEF CfgAir
  <2>1. k + 1 \in 1..Len(air) /\ air'[k] = air[k + 1] /\ air[k + 1].part = "cfg"
    BY <1>2
  <2>2. /\ at < 5 \/ (at = 5 /\ ~wait) => \A l \in 1..Len(air) : air[l].part = "cfg" => l = k + 1
        /\ \/ air[k + 1].frame = <<>>
           \/ \E b \in Nine :
                /\ air[k + 1].frame = CfgFrame(b) /\ b[Latency] <= limit
                /\ \/ b = device["cfg"]
                   \/ /\ at = 5 /\ wait /\ device["cfg"] = Accepted
                      /\ \A l \in 1..(k + 1 - 1) : air[l].part # "cfg"
    BY <2>1 DEF IInv, CfgAir
  <2>3. at < 5 \/ (at = 5 /\ ~wait) => \A l \in 1..Len(air') : air'[l].part = "cfg" => l = k
    <3> SUFFICES ASSUME at < 5 \/ (at = 5 /\ ~wait), NEW l \in 1..Len(air'), air'[l].part = "cfg"
                 PROVE  l = k
      OBVIOUS
    <3>1. l + 1 \in 1..Len(air) /\ air[l + 1].part = "cfg"
      BY <1>2
    <3>2. l + 1 = k + 1
      BY <2>2, <3>1
    <3> QED
      BY <1>3, <3>2
  <2>4. (\A l \in 1..(k + 1 - 1) : air[l].part # "cfg") => \A l \in 1..(k - 1) : air'[l].part # "cfg"
    <3> SUFFICES ASSUME \A l \in 1..(k + 1 - 1) : air[l].part # "cfg", NEW l \in 1..(k - 1)
                 PROVE  air'[l].part # "cfg"
      OBVIOUS
    <3>1. l \in 1..Len(air') /\ l + 1 \in 1..(k + 1 - 1)
      BY <1>3
    <3> QED
      BY <1>2, <3>1
  <2> QED
    BY <2>1, <2>2, <2>3, <2>4
<1>9. ComfortAir'
  <2> SUFFICES ASSUME NEW k \in 1..Len(air'), air'[k].part = "comfort"
               PROVE  /\ at < 6 \/ (at = 6 /\ ~wait) =>
                           \A l \in 1..Len(air') : air'[l].part = "comfort" => l = k
                      /\ \/ air'[k].frame = <<>>
                         \/ \E w \in Words :
                              /\ air'[k].frame = <<w>>
                              /\ \/ w = device["comfort"]
                                 \/ /\ at = 6 /\ wait /\ device["comfort"] = job.words
                                    /\ \A l \in 1..(k - 1) : air'[l].part # "comfort"
    BY DEF ComfortAir
  <2>1. k + 1 \in 1..Len(air) /\ air'[k] = air[k + 1] /\ air[k + 1].part = "comfort"
    BY <1>2
  <2>2. /\ at < 6 \/ (at = 6 /\ ~wait) => \A l \in 1..Len(air) : air[l].part = "comfort" => l = k + 1
        /\ \/ air[k + 1].frame = <<>>
           \/ \E w \in Words :
                /\ air[k + 1].frame = <<w>>
                /\ \/ w = device["comfort"]
                   \/ /\ at = 6 /\ wait /\ device["comfort"] = job.words
                      /\ \A l \in 1..(k + 1 - 1) : air[l].part # "comfort"
    BY <2>1 DEF IInv, ComfortAir
  <2>3. at < 6 \/ (at = 6 /\ ~wait) => \A l \in 1..Len(air') : air'[l].part = "comfort" => l = k
    <3> SUFFICES ASSUME at < 6 \/ (at = 6 /\ ~wait), NEW l \in 1..Len(air'), air'[l].part = "comfort"
                 PROVE  l = k
      OBVIOUS
    <3>1. l + 1 \in 1..Len(air) /\ air[l + 1].part = "comfort"
      BY <1>2
    <3>2. l + 1 = k + 1
      BY <2>2, <3>1
    <3> QED
      BY <1>3, <3>2
  <2>4. (\A l \in 1..(k + 1 - 1) : air[l].part # "comfort") =>
          \A l \in 1..(k - 1) : air'[l].part # "comfort"
    <3> SUFFICES ASSUME \A l \in 1..(k + 1 - 1) : air[l].part # "comfort", NEW l \in 1..(k - 1)
                 PROVE  air'[l].part # "comfort"
      OBVIOUS
    <3>1. l \in 1..Len(air') /\ l + 1 \in 1..(k + 1 - 1)
      BY <1>3
    <3> QED
      BY <1>2, <3>1
  <2> QED
    BY <2>1, <2>2, <2>3, <2>4
<1>10. SensorAir'
  BY <1>2 DEF IInv, SensorAir
<1>11. Early'
  <2>1. at = 1 /\ ~wait => FALSE
    BY DEF IInv, Early
  <2>2. at = 1 \/ (at = 2 /\ ~wait) => \A k \in 1..Len(air') : air'[k].part # "comfort"
    BY <1>2 DEF IInv, Early
  <2> QED
    BY <2>1, <2>2 DEF Early
<1> QED
  BY <1>5, <1>6, <1>7, <1>8, <1>9, <1>10, <1>11 DEF IInv

(* An answer to a read, in the identification or at the end. *)
LEMMA ReadKeeps ==
  ASSUME IInv, outcome = "none", wait, wait' = FALSE, air # <<>>, air' = Tail(air),
         UNCHANGED <<ver, limit, device, job>>, Do # "write",
         Head(air).part = Of, Answered(Of, Head(air).frame)
  PROVE  IInv'
<1>1. at \in 1..10 /\ at \notin 5..8 /\ CacheFits(cache) /\ Good
  BY CacheFitsNow, StepsTable DEF IInv, Types, ControlTypes, Ends, Do, Good
<1>2. /\ Of \in Part
      /\ Of = "cfg" => at \in {1, 9}
      /\ Of = "comfort" => at \in {2, 10}
  BY <1>1, StepsTable DEF Of, Part
<1>3. 1 \in 1..Len(air) /\ Head(air) = air[1]
  <2>1. air \in Seq(Answer) /\ Len(air) <= MaxAir
    BY DEF IInv, Types, ControlTypes
  <2>2. Len(air) \in Nat
    BY <2>1, LenProperties
  <2>3. Len(air) >= 1 /\ Head(air) = air[1]
    BY <2>1, Shorter
  <2> QED
    BY <2>2, <2>3
<1> DEFINE f == Head(air).frame
           x == Read(Of, cache[Of], f)
           c == [cache EXCEPT ![Of] = x]
<1>4. GoOn(c)
  BY DEF Answered
<1>5. Of = "cfg" =>
        /\ x \in [valid : BOOLEAN, ver : 0..255, bytes : Nine, hver : Nat, av : Nat]
        /\ x.valid => x.ver = ver
        /\ ~x.valid => x = DefaultConfig
        /\ x = cache["cfg"] \/ (x.valid /\ (at = 9 => x.bytes = device["cfg"]))
  <2> SUFFICES ASSUME Of = "cfg"
               PROVE  /\ x \in [valid : BOOLEAN, ver : 0..255, bytes : Nine, hver : Nat, av : Nat]
                      /\ x.valid => x.ver = ver
                      /\ ~x.valid => x = DefaultConfig
                      /\ x = cache["cfg"] \/ (x.valid /\ (at = 9 => x.bytes = device["cfg"]))
    OBVIOUS
  <2>1. x = DecodeConfig(cache["cfg"], f)
    BY DEF Read
  <2>2. CASE f = <<>>
    <3>1. x = cache["cfg"]
      BY <2>1, <2>2, ShortIsIgnored
    <3> HIDE DEF x
    <3> QED
      BY <1>1, <3>1 DEF CacheFits
  <2>3. CASE f # <<>>
    <3>1. PICK b \in Nine : f = CfgFrame(b) /\ (at = 9 => b = device["cfg"])
      BY <1>3, <2>3 DEF IInv, CfgAir
    <3>2. ver \in 0..255
      BY DEF IInv, Types, DeviceTypes
    <3>3. x = DecodeConfig(cache["cfg"], CfgFrame(b))
      BY <2>1, <3>1
    <3> HIDE DEF x
    <3>4. /\ x.valid /\ x.ver = ver /\ x.bytes = b
          /\ x \in [valid : BOOLEAN, ver : 0..255, bytes : Nine, hver : Nat, av : Nat]
      BY <3>2, <3>3, FrameIsRead
    <3> QED
      BY <3>1, <3>4
  <2> QED
    BY <2>2, <2>3
<1>6. Of = "comfort" =>
        /\ x \in [valid : BOOLEAN, words : AnyWords]
        /\ x = cache["comfort"] \/ (x.valid /\ (at = 10 => x.words = device["comfort"]))
  <2> SUFFICES ASSUME Of = "comfort"
               PROVE  /\ x \in [valid : BOOLEAN, words : AnyWords]
                      /\ x = cache["comfort"] \/ (x.valid /\ (at = 10 => x.words = device["comfort"]))
    OBVIOUS
  <2>1. x = DecodeWords(cache["comfort"], f)
    BY DEF Read
  <2>2. CASE f = <<>>
    <3>1. x = cache["comfort"]
      BY <2>1, <2>2 DEF DecodeWords
    <3> HIDE DEF x
    <3> QED
      BY <1>1, <3>1 DEF CacheFits
  <2>3. CASE f # <<>>
    <3>1. PICK w \in Words : f = <<w>> /\ (at = 10 => w = device["comfort"])
      BY <1>3, <2>3 DEF IInv, ComfortAir
    <3>2. x = [valid |-> TRUE, words |-> w]
      <4>1. DecodeWords(cache["comfort"], <<w>>) = [valid |-> TRUE, words |-> w]
        BY DEF DecodeWords
      <4> QED
        BY <2>1, <3>1, <4>1
    <3> HIDE DEF x
    <3> QED
      BY <3>1, <3>2 DEF AnyWords
  <2> QED
    BY <2>2, <2>3
<1> HIDE DEF x
<1>7. /\ CacheFits(c) /\ c[Of] = x
      /\ \A q \in Part \ {Of} : c[q] = cache[q]
  BY <1>1, <1>2, <1>5, <1>6, Replaced
<1> HIDE DEF c
<1>8. "cfg" \in Part /\ "comfort" \in Part
  BY DEF Part
<1>9. at >= 5 => c["cfg"].valid \/ IsDefault
  BY <1>1, <1>5, <1>7, <1>8 DEF IInv, Known
<1>10. at >= 5 /\ "cfg" \in job.parts =>
         /\ \/ \A i \in (1..9) \ {TempOffset, HumiOffset} :
                 device["cfg"][i] = Clamp(ver, job.cfg)[i]
            \/ IsDefault
         /\ c["cfg"].valid => c["cfg"].bytes = device["cfg"]
  <2> SUFFICES ASSUME at >= 5, "cfg" \in job.parts
               PROVE  /\ \/ \A i \in (1..9) \ {TempOffset, HumiOffset} :
                               device["cfg"][i] = Clamp(ver, job.cfg)[i]
                          \/ IsDefault
                      /\ c["cfg"].valid => c["cfg"].bytes = device["cfg"]
    OBVIOUS
  <2>1. at >= 6
    BY <1>1
  <2>2. /\ \/ \A i \in (1..9) \ {TempOffset, HumiOffset} :
                 device["cfg"][i] = Clamp(ver, job.cfg)[i]
            \/ IsDefault
        /\ cache["cfg"].valid => cache["cfg"].bytes = device["cfg"]
    BY <1>1, <2>1 DEF IInv, CfgDone
  <2>3. c["cfg"].valid => c["cfg"].bytes = device["cfg"]
    BY <1>2, <1>5, <1>7, <1>8, <2>1, <2>2
  <2> QED
    BY <2>2, <2>3
<1>11. at >= 6 /\ "comfort" \in job.parts =>
         /\ device["comfort"] = job.words \/ job.words = DefaultWords.words
         /\ c["comfort"].valid => c["comfort"].words = device["comfort"]
  <2> SUFFICES ASSUME at >= 6, "comfort" \in job.parts
               PROVE  /\ device["comfort"] = job.words \/ job.words = DefaultWords.words
                      /\ c["comfort"].valid => c["comfort"].words = device["comfort"]
    OBVIOUS
  <2>1. at >= 7
    BY <1>1
  <2>2. /\ device["comfort"] = job.words \/ job.words = DefaultWords.words
        /\ cache["comfort"].valid => cache["comfort"].words = device["comfort"]
    BY <1>1, <2>1 DEF IInv, ComfortDone
  <2>3. c["comfort"].valid => c["comfort"].words = device["comfort"]
    BY <1>2, <1>6, <1>7, <1>8, <2>1, <2>2
  <2> QED
    BY <2>2, <2>3
<1>12. at >= 7 /\ "sensor" \in job.parts /\ ver >= V47 =>
         device["sensor"] = job.words \/ job.words = DefaultWords.words \/ IsDefault
  BY <1>1 DEF IInv, SensorDone
<1> QED
  BY <1>4, <1>7, <1>9, <1>10, <1>11, <1>12, Continued

(* Only the offsets of a request are ever replaced, and a request for the  *)
(* defaults stays one.                                                     *)
LEMMA OffsetsOnly ==
  ASSUME Types, cache["cfg"].ver = ver
  PROVE  /\ \A i \in (1..9) \ {TempOffset, HumiOffset} : ToSend.bytes[i] = Clamp(ver, job.cfg)[i]
         /\ ToSend.bytes = DefaultConfig.bytes => Clamp(ver, job.cfg) = DefaultConfig.bytes
<1>1. ver \in 0..255 /\ job.cfg \in Nine /\ cache["cfg"].bytes \in Nine
  BY DEF Types, DeviceTypes, JobTypes, CacheTypes
<1>2. Offsets \in Nine /\ ToSend.bytes = Clamp(ver, Offsets) /\ ToSend.bytes \in Nine
  BY Sent
<1>3. /\ \A i \in (1..9) \ {3, 4} : Offsets[i] = job.cfg[i]
      /\ \/ Offsets[3] = job.cfg[3] /\ Offsets[4] = job.cfg[4]
         \/ job.cfg[3] = 0 /\ job.cfg[4] = 0
  <2> DEFINE b == job.cfg
             x == cache["cfg"].bytes[3]
             y == cache["cfg"].bytes[4]
  <2>1. \/ Offsets = b
        \/ b[3] = 0 /\ b[4] = 0 /\ Offsets = [b EXCEPT ![3] = x, ![4] = y]
    BY DEF Offsets, TempOffset, HumiOffset
  <2>2. b \in Nine
    BY <1>1
  <2> HIDE DEF b, x, y
  <2>3. \A i \in (1..9) \ {3, 4} : [b EXCEPT ![3] = x, ![4] = y][i] = b[i]
    BY <2>2 DEF Nine
  <2>4. /\ \A i \in (1..9) \ {3, 4} : Offsets[i] = b[i]
        /\ \/ Offsets[3] = b[3] /\ Offsets[4] = b[4]
           \/ b[3] = 0 /\ b[4] = 0
    BY <2>1, <2>3
  <2> QED
    BY <2>4 DEF b
<1>4. \A i \in (1..9) \ {TempOffset, HumiOffset} : ToSend.bytes[i] = Clamp(ver, job.cfg)[i]
  <2>1. \A i \in (1..9) \ {TempOffset, HumiOffset} : Offsets[i] = job.cfg[i]
    BY <1>3 DEF TempOffset, HumiOffset
  <2>2. \A i \in (1..9) \ {TempOffset, HumiOffset} :
          Clamp(ver, Offsets)[i] = Clamp(ver, job.cfg)[i]
    BY <1>1, <1>2, <2>1, ClampOthers
  <2> QED
    BY <1>2, <2>2
<1>5. ASSUME ToSend.bytes = DefaultConfig.bytes
      PROVE  Clamp(ver, job.cfg) = DefaultConfig.bytes
  <2>1. DefaultConfig.bytes \in Nine /\ DefaultConfig.bytes[3] = 0 /\ DefaultConfig.bytes[4] = 0
    BY Defaults DEF TempOffset, HumiOffset
  <2>2. Clamp(ver, Offsets)[3] = 0 /\ Clamp(ver, Offsets)[4] = 0
    BY <1>2, <1>5, <2>1
  <2>3. Offsets[3] \in 0..255 /\ Offsets[4] \in 0..255 /\ job.cfg[3] \in 0..255
        /\ job.cfg[4] \in 0..255
    <3>1. \A b \in Nine : b[3] \in 0..255 /\ b[4] \in 0..255
      BY DEF Nine
    <3> QED
      BY <1>1, <1>2, <3>1
  <2>4. /\ Clamp(ver, Offsets)[3] = IF ver < V47 /\ Offsets[3] = 128 THEN 129 ELSE Offsets[3]
        /\ ver > V50 => Clamp(ver, Offsets)[4] = IF Offsets[4] < 6 THEN 5 ELSE Offsets[4]
        /\ ver <= V50 => Clamp(ver, Offsets)[4] =
                           IF ver < V47 /\ Offsets[4] = 128 THEN 129 ELSE Offsets[4]
    BY <1>1, <1>2, ClampBytes, ZenonT(30) DEF TempOffset, HumiOffset
  <2>5. /\ Clamp(ver, job.cfg) \in Nine
        /\ Clamp(ver, job.cfg)[3] = IF ver < V47 /\ job.cfg[3] = 128 THEN 129 ELSE job.cfg[3]
        /\ ver <= V50 => Clamp(ver, job.cfg)[4] =
                           IF ver < V47 /\ job.cfg[4] = 128 THEN 129 ELSE job.cfg[4]
    BY <1>1, ClampBytes, ZenonT(30) DEF TempOffset, HumiOffset
  <2>6. ver <= V50
    BY <1>1, <2>2, <2>3, <2>4 DEF V50
  <2>7. Offsets[3] = 0 /\ Offsets[4] = 0
    BY <2>2, <2>3, <2>4, <2>6
  <2>8. job.cfg[3] = 0 /\ job.cfg[4] = 0
    BY <1>3, <2>7
  <2>9. Clamp(ver, job.cfg)[3] = 0 /\ Clamp(ver, job.cfg)[4] = 0
    BY <2>5, <2>6, <2>8
  <2> DEFINE u == Clamp(ver, job.cfg)
             v == DefaultConfig.bytes
  <2>10. u \in Nine /\ v \in Nine /\ \A i \in 1..9 : u[i] = v[i]
    BY <1>4, <1>5, <2>1, <2>5, <2>9 DEF TempOffset, HumiOffset
  <2> HIDE DEF u, v
  <2>11. u = v
    BY <2>10 DEF Nine
  <2> QED
    BY <2>11 DEF u, v
<1> QED
  BY <1>4, <1>5

(* An answer to a write: the job goes on if it confirms what was sent. *)
LEMMA WriteKeeps ==
  ASSUME IInv, outcome = "none", wait, wait' = FALSE, air # <<>>, air' = Tail(air),
         UNCHANGED <<ver, limit, device, job>>, Do = "write",
         Head(air).part = Of, Answered(Of, Head(air).frame)
  PROVE  IInv'
<1>1. at \in 5..8 /\ CacheFits(cache) /\ Good /\ Types
  <2>1. at \in 1..10
    BY DEF IInv, Types, ControlTypes, Ends
  <2>2. at \in 5..8
    BY <2>1, StepsTable DEF Do
  <2> QED
    BY <2>2, CacheFitsNow DEF IInv, Good
<1>2. /\ Of \in Part
      /\ Of = "cfg" <=> at = 5
      /\ Of = "comfort" <=> at = 6
      /\ Of = "sensor" <=> at = 7
  BY <1>1, StepsTable DEF Of, Part
<1>3. 1 \in 1..Len(air) /\ Head(air) = air[1]
  <2>1. air \in Seq(Answer) /\ Len(air) <= MaxAir
    BY DEF IInv, Types, ControlTypes
  <2>2. Len(air) \in Nat
    BY <2>1, LenProperties
  <2>3. Len(air) >= 1 /\ Head(air) = air[1]
    BY <2>1, Shorter
  <2> QED
    BY <2>2, <2>3
<1> DEFINE f == Head(air).frame
           x == Read(Of, Fresh(Of), f)
           c == [cache EXCEPT ![Of] = x]
<1>4. IF Same(Of, x) THEN GoOn(c) ELSE cache' = c /\ outcome' = "mismatch" /\ at' = at
  BY DEF Answered
<1>5. ASSUME at = 5
      PROVE  /\ x \in [valid : BOOLEAN, ver : 0..255, bytes : Nine, hver : Nat, av : Nat]
             /\ x.valid => x.ver = ver
             /\ ~x.valid => x = DefaultConfig
             /\ Same("cfg", x) =>
                  \/ ~x.valid /\ IsDefault
                  \/ /\ x.valid /\ x.bytes = device["cfg"]
                     /\ \A i \in (1..9) \ {TempOffset, HumiOffset} :
                          device["cfg"][i] = Clamp(ver, job.cfg)[i]
  <2>1. x = DecodeConfig(DefaultConfig, f)
    BY <1>2, <1>5 DEF Read, Fresh
  <2>2. cache["cfg"].valid /\ "cfg" \in job.parts /\ cache["cfg"].ver = ver
    BY <1>5 DEF IInv, Known
  <2>3. /\ \A i \in (1..9) \ {TempOffset, HumiOffset} : ToSend.bytes[i] = Clamp(ver, job.cfg)[i]
        /\ ToSend.bytes = DefaultConfig.bytes => Clamp(ver, job.cfg) = DefaultConfig.bytes
    BY <1>1, <2>2, OffsetsOnly
  <2>4. Same("cfg", x) <=> x.bytes = ToSend.bytes
    BY DEF Same
  <2>5. CASE f = <<>>
    <3>1. x = DefaultConfig
      BY <2>1, <2>5, ShortIsIgnored
    <3> HIDE DEF x
    <3>2. Same("cfg", x) => IsDefault
      BY <2>2, <2>3, <2>4, <3>1 DEF IsDefault
    <3> QED
      BY <3>1, <3>2, Defaults
  <2>6. CASE f # <<>>
    <3>1. PICK b \in Nine :
            /\ f = CfgFrame(b) /\ b[Latency] <= limit
            /\ b = device["cfg"] \/ device["cfg"] = Accepted
      BY <1>3, <1>5, <2>6, <1>2 DEF IInv, CfgAir
    <3>2. ver \in 0..255
      BY <1>1 DEF Types, DeviceTypes
    <3>3. x = DecodeConfig(DefaultConfig, CfgFrame(b))
      BY <2>1, <3>1
    <3> HIDE DEF x
    <3>4. /\ x.valid /\ x.ver = ver /\ x.bytes = b
          /\ x \in [valid : BOOLEAN, ver : 0..255, bytes : Nine, hver : Nat, av : Nat]
      BY <3>2, <3>3, FrameIsRead
    <3>5. ASSUME Same("cfg", x)
          PROVE  /\ x.bytes = device["cfg"]
                 /\ \A i \in (1..9) \ {TempOffset, HumiOffset} :
                      device["cfg"][i] = Clamp(ver, job.cfg)[i]
      <4>1. b = ToSend.bytes
        BY <2>4, <3>4, <3>5
      <4>2. Accepted = ToSend.bytes
        BY <1>1, <3>1, <4>1, Sent
      <4>3. device["cfg"] = b
        BY <3>1, <4>1, <4>2
      <4> QED
        BY <2>3, <3>4, <4>1, <4>3
    <3> QED
      BY <3>4, <3>5
  <2> QED
    BY <2>5, <2>6
<1>6. ASSUME at \in {6, 7}
      PROVE  /\ x \in [valid : BOOLEAN, words : AnyWords]
             /\ Same(Of, x) =>
                  LET now == device[Of]
                  IN /\ now = job.words \/ job.words = DefaultWords.words
                     /\ at = 6 /\ x.valid => x.words = now
  <2>1. x = DecodeWords(DefaultWords, f)
    BY <1>2, <1>6 DEF Read, Fresh
  <2>2. Same(Of, x) <=> x.words = job.words
    <3>1. Of = "comfort" \/ Of = "sensor"
      BY <1>2, <1>6
    <3> QED
      BY <3>1 DEF Same
  <2>3. CASE f = <<>>
    <3>1. x = DefaultWords
      BY <2>1, <2>3 DEF DecodeWords
    <3> HIDE DEF x
    <3> QED
      BY <2>2, <3>1, Defaults
  <2>4. CASE f # <<>>
    <3>1. PICK w \in Words : f = <<w>> /\ (w = device[Of] \/ device[Of] = job.words)
      <4>1. CASE at = 6
        <5>1. Of = "comfort"
          BY <1>2, <4>1
        <5> QED
          BY <1>3, <2>4, <4>1, <5>1 DEF IInv, ComfortAir
      <4>2. CASE at = 7
        <5>1. Of = "sensor"
          BY <1>2, <4>2
        <5> QED
          BY <1>3, <2>4, <4>2, <5>1 DEF IInv, SensorAir
      <4> QED
        BY <1>6, <4>1, <4>2
    <3>2. x = [valid |-> TRUE, words |-> w]
      <4>1. DecodeWords(DefaultWords, <<w>>) = [valid |-> TRUE, words |-> w]
        BY DEF DecodeWords
      <4> QED
        BY <2>1, <3>1, <4>1
    <3> HIDE DEF x
    <3> QED
      BY <2>2, <3>1, <3>2 DEF AnyWords
  <2> QED
    BY <2>3, <2>4
<1> HIDE DEF x
<1>7. /\ CacheFits(c) /\ c[Of] = x
      /\ \A q \in Part \ {Of} : c[q] = cache[q]
  BY <1>1, <1>2, <1>5, <1>6, Replaced
<1> HIDE DEF c
<1>8. CASE ~Same(Of, x)
  BY <1>4, <1>7, <1>8, Ended
<1>9. CASE Same(Of, x)
  <2>1. GoOn(c)
    BY <1>4, <1>9
  <2>2. "cfg" \in Part /\ "comfort" \in Part
    BY DEF Part
  <2>3. c["cfg"].valid \/ IsDefault
    <3>1. CASE at = 5
      <4>1. Of = "cfg"
        BY <1>2, <3>1
      <4> QED
        BY <1>5, <1>7, <1>9, <3>1, <4>1
    <3>2. CASE at # 5
      BY <1>1, <1>2, <1>7, <2>2, <3>2 DEF IInv, Known
    <3> QED
      BY <3>1, <3>2
  <2>4. "cfg" \in job.parts =>
          /\ \/ \A i \in (1..9) \ {TempOffset, HumiOffset} :
                  device["cfg"][i] = Clamp(ver, job.cfg)[i]
             \/ IsDefault
          /\ c["cfg"].valid => c["cfg"].bytes = device["cfg"]
    <3>1. CASE at = 5
      <4>1. Of = "cfg"
        BY <1>2, <3>1
      <4> QED
        BY <1>5, <1>7, <1>9, <3>1, <4>1
    <3>2. CASE at # 5
      <4>1. at >= 6 /\ c["cfg"] = cache["cfg"]
        BY <1>1, <1>2, <1>7, <2>2, <3>2
      <4> QED
        BY <1>1, <4>1 DEF IInv, CfgDone
    <3> QED
      BY <3>1, <3>2
  <2>5. at >= 6 /\ "comfort" \in job.parts =>
          /\ device["comfort"] = job.words \/ job.words = DefaultWords.words
          /\ c["comfort"].valid => c["comfort"].words = device["comfort"]
    <3>1. CASE at = 6
      <4>1. Of = "comfort"
        BY <1>2, <3>1
      <4> QED
        BY <1>6, <1>7, <1>9, <3>1, <4>1
    <3>2. CASE at >= 7
      <4>1. c["comfort"] = cache["comfort"]
        BY <1>1, <1>2, <1>7, <2>2, <3>2
      <4> QED
        BY <1>1, <3>2, <4>1 DEF IInv, ComfortDone
    <3> QED
      BY <1>1, <3>1, <3>2
  <2>6. at >= 7 /\ "sensor" \in job.parts /\ ver >= V47 =>
          device["sensor"] = job.words \/ job.words = DefaultWords.words \/ IsDefault
    <3>1. CASE at = 7
      <4>1. Of = "sensor"
        BY <1>2, <3>1
      <4> QED
        BY <1>6, <1>9, <3>1, <4>1
    <3>2. CASE at = 8
      BY <1>1, <3>2 DEF IInv, SensorDone
    <3> QED
      BY <1>1, <3>1, <3>2
  <2> QED
    BY <1>7, <2>1, <2>3, <2>4, <2>5, <2>6, Continued
<1> QED
  BY <1>8, <1>9

(* on_notify_. *)
LEMMA NotifyKeeps ==
  ASSUME IInv, Notify
  PROVE  IInv'
<1>1. /\ outcome = "none" /\ air # <<>> /\ air' = Tail(air)
      /\ UNCHANGED <<ver, limit, device, job>>
      /\ IF wait /\ Head(air).part = Of
         THEN wait' = FALSE /\ Answered(Of, Head(air).frame)
         ELSE UNCHANGED <<cache, at, wait, outcome>>
  BY DEF Notify, thermometer
<1>2. CASE wait /\ Head(air).part = Of /\ Do = "write"
  BY <1>1, <1>2, WriteKeeps
<1>3. CASE wait /\ Head(air).part = Of /\ Do # "write"
  BY <1>1, <1>3, ReadKeeps
<1>4. CASE ~(wait /\ Head(air).part = Of)
  BY <1>1, <1>4, DroppedKeeps
<1> QED
  BY <1>2, <1>3, <1>4

(* What a command leaves in the thermometer and puts in the air. *)
LEMMA Commanded ==
  ASSUME IInv, Command
  PROVE  /\ outcome = "none" /\ ~wait /\ wait' = TRUE /\ at \in 1..10
         /\ UNCHANGED <<ver, limit, cache, job, at, outcome>>
         /\ DeviceTypes'
         /\ device'["cfg"] = device["cfg"] \/ (at = 5 /\ device'["cfg"] = Accepted)
         /\ device'["comfort"] = device["comfort"] \/ (at = 6 /\ device'["comfort"] = job.words)
         /\ device'["sensor"] = device["sensor"] \/ (at = 7 /\ device'["sensor"] = job.words)
         /\ \/ air' = air
            \/ \E f \in {<<>>, Frame(Of, device')} :
                 Len(air) < MaxAir /\ air' = Append(air, [part |-> Of, frame |-> f])
<1>1. /\ outcome = "none" /\ ~wait /\ wait' = TRUE
      /\ UNCHANGED <<ver, limit, cache, job, at, outcome>>
  BY DEF Command
<1>2. at \in 1..10 /\ DeviceTypes /\ Types
  BY <1>1 DEF IInv, Types, ControlTypes, Ends
<1>3. \/ device' = device
      \/ Do = "write" /\ \E s \in Stored(Of) : device' = [device EXCEPT ![Of] = s]
  BY DEF Command
<1>4. \/ air' = air
      \/ \E f \in {<<>>, Frame(Of, device')} :
           Len(air) < MaxAir /\ air' = Append(air, [part |-> Of, frame |-> f])
  BY DEF Command
<1>5. /\ DeviceTypes'
      /\ device'["cfg"] = device["cfg"] \/ (at = 5 /\ device'["cfg"] = Accepted)
      /\ device'["comfort"] = device["comfort"] \/ (at = 6 /\ device'["comfort"] = job.words)
      /\ device'["sensor"] = device["sensor"] \/ (at = 7 /\ device'["sensor"] = job.words)
  <2>1. CASE device' = device
    BY <1>1, <1>2, <2>1 DEF DeviceTypes
  <2>2. CASE Do = "write" /\ \E s \in Stored(Of) : device' = [device EXCEPT ![Of] = s]
    <3>1. PICK s \in Stored(Of) : device' = [device EXCEPT ![Of] = s]
      BY <2>2
    <3>2. at \in 5..8
      BY <1>2, <2>2, StepsTable DEF Do
    <3>3. /\ Of \in Part /\ (Of = "cfg" => at = 5) /\ (Of = "comfort" => at = 6)
          /\ (Of = "sensor" => at = 7)
      BY <3>2, StepsTable DEF Of, Part
    <3>4. {"cfg", "comfort", "sensor", "trigger"} = Part
      BY DEF Part
    <3>5. /\ device' = [p \in Part |-> device'[p]] /\ device'[Of] = s
          /\ \A p \in Part \ {Of} : device'[p] = device[p]
      BY <1>2, <3>1, <3>3 DEF DeviceTypes
    <3>6. /\ Of = "cfg" => s = device["cfg"] \/ s = Accepted
          /\ Of = "comfort" => s = device["comfort"] \/ s = job.words
          /\ Of = "sensor" => s = device["sensor"] \/ s = job.words
          /\ Of = "trigger" => s = device["trigger"] \/ s = EncodeTrigger(cache["cfg"].ver, job.trigger)
      BY DEF Stored, Accepted
    <3>7. device'["cfg"] = device["cfg"] \/ (at = 5 /\ device'["cfg"] = Accepted)
      BY <3>3, <3>4, <3>5, <3>6
    <3>8. device'["comfort"] = device["comfort"] \/ (at = 6 /\ device'["comfort"] = job.words)
      BY <3>3, <3>4, <3>5, <3>6
    <3>9. device'["sensor"] = device["sensor"] \/ (at = 7 /\ device'["sensor"] = job.words)
      BY <3>3, <3>4, <3>5, <3>6
    <3>10. EncodeTrigger(cache["cfg"].ver, job.trigger) \in Codes
      <4>1. job.trigger \in Triggers /\ cache["cfg"].ver \in 0..255
        BY <1>2 DEF Types, JobTypes, CacheTypes, Requests
      <4> QED
        BY <4>1 DEF Codes
    <3>11. device'["trigger"] \in Codes
      BY <1>2, <3>3, <3>4, <3>5, <3>6, <3>10 DEF DeviceTypes
    <3>12. Accepted \in Nine /\ Accepted[Latency] <= limit /\ job.words \in Words
      BY <1>2, Sent DEF Types, JobTypes
    <3>13. /\ device'["cfg"] \in Nine /\ device'["cfg"][Latency] <= limit
           /\ device'["comfort"] \in Words /\ device'["sensor"] \in Words
      BY <1>2, <3>7, <3>8, <3>9, <3>12 DEF DeviceTypes
    <3>14. DeviceTypes'
      BY <1>1, <1>2, <3>5, <3>11, <3>13 DEF DeviceTypes
    <3> QED
      BY <3>7, <3>8, <3>9, <3>14
  <2> QED
    BY <1>3, <2>1, <2>2
<1> QED
  BY <1>1, <1>2, <1>4, <1>5

(* An answer in the air is one of the answers. *)
LEMMA Appended ==
  ASSUME IInv, DeviceTypes', UNCHANGED <<ver, limit, job, at>>, at \in 1..10,
         \/ air' = air
         \/ \E f \in {<<>>, Frame(Of, device')} :
              Len(air) < MaxAir /\ air' = Append(air, [part |-> Of, frame |-> f])
  PROVE  /\ air' \in Seq(Answer) /\ Len(air') <= MaxAir /\ Len(air) \in Nat
         /\ \A k \in 1..Len(air') :
              \/ k \in 1..Len(air) /\ air'[k] = air[k]
              \/ /\ k = Len(air) + 1 /\ air'[k].part = Of
                 /\ \/ air'[k].frame = <<>>
                    \/ Of = "cfg" /\ air'[k].frame = CfgFrame(device'["cfg"])
                    \/ Of \in {"comfort", "sensor"} /\ air'[k].frame = <<device'[Of]>>
                    \/ Of = "trigger"
<1>1. air \in Seq(Answer) /\ Len(air) <= MaxAir /\ Len(air) \in Nat /\ MaxAir \in Nat
  BY LenProperties, ConfigAssumption DEF IInv, Types, ControlTypes
<1>2. CASE air' = air
  BY <1>1, <1>2
<1>3. ASSUME NEW f \in {<<>>, Frame(Of, device')}, Len(air) < MaxAir,
             air' = Append(air, [part |-> Of, frame |-> f])
      PROVE  /\ air' \in Seq(Answer) /\ Len(air') <= MaxAir
             /\ \A k \in 1..Len(air') :
                  \/ k \in 1..Len(air) /\ air'[k] = air[k]
                  \/ /\ k = Len(air) + 1 /\ air'[k].part = Of
                     /\ \/ air'[k].frame = <<>>
                        \/ Of = "cfg" /\ air'[k].frame = CfgFrame(device'["cfg"])
                        \/ Of \in {"comfort", "sensor"} /\ air'[k].frame = <<device'[Of]>>
                        \/ Of = "trigger"
  <2>1. Of \in Part
    BY StepsTable DEF Of, Part
  <2>2. /\ \/ f = <<>>
           \/ Of = "cfg" /\ f = CfgFrame(device'["cfg"])
           \/ Of \in {"comfort", "sensor"} /\ f = <<device'[Of]>>
           \/ Of = "trigger"
        /\ f \in Frames
    <3>1. CASE f = <<>>
      BY <3>1 DEF Frames
    <3>2. CASE f # <<>> /\ Of = "cfg"
      <4>1. f = CfgFrame(device'["cfg"])
        BY <3>2 DEF Frame, CfgFrame
      <4>2. device'["cfg"] \in Nine
        BY DEF DeviceTypes
      <4> QED
        BY <3>2, <4>1, <4>2 DEF Frames
    <3>3. CASE f # <<>> /\ Of \in {"comfort", "sensor"}
      <4>1. f = <<device'[Of]>>
        BY <3>3 DEF Frame
      <4>2. device'[Of] \in Words
        BY <3>3 DEF DeviceTypes
      <4> QED
        BY <3>3, <4>1, <4>2 DEF Frames
    <3>4. CASE f # <<>> /\ Of = "trigger"
      <4>1. f = <<[threshold |-> device'["trigger"].threshold,
                   hysteresis |-> device'["trigger"].hysteresis,
                   rds |-> device'["trigger"].rds, wide |-> ver >= V26]>>
        BY <3>4 DEF Frame
      <4>2. device'["trigger"] \in Codes /\ (ver >= V26) \in BOOLEAN
        BY DEF DeviceTypes
      <4> DEFINE h == device'["trigger"]
                 v == ver >= V26
      <4>3. /\ h \in Codes /\ v \in BOOLEAN
            /\ f = <<[threshold |-> h.threshold, hysteresis |-> h.hysteresis,
                      rds |-> h.rds, wide |-> v]>>
        BY <4>1, <4>2
      <4> HIDE DEF h, v
      <4>4. f \in {<<[threshold |-> g.threshold, hysteresis |-> g.hysteresis,
                       rds |-> g.rds, wide |-> w]>> : g \in Codes, w \in BOOLEAN}
        <5> DEFINE r(g, w) == <<[threshold |-> g.threshold, hysteresis |-> g.hysteresis,
                                 rds |-> g.rds, wide |-> w]>>
        <5>1. h \in Codes /\ v \in BOOLEAN /\ f = r(h, v)
          BY <4>3
        <5>2. f \in {r(g, w) : g \in Codes, w \in BOOLEAN}
          <6> HIDE DEF r
          <6> QED
            BY <5>1
        <5> QED
          BY <5>2
      <4> QED
        BY <3>4, <4>4 DEF Frames
    <3> QED
      BY <2>1, <3>1, <3>2, <3>3, <3>4 DEF Part
  <2> DEFINE a == [part |-> Of, frame |-> f]
  <2>3. a \in Answer /\ a.part = Of /\ a.frame = f
    BY <2>1, <2>2 DEF Answer
  <2>4. air' = Append(air, a)
    BY <1>3
  <2> HIDE DEF a
  <2>5. /\ air' \in Seq(Answer) /\ Len(air') = Len(air) + 1
        /\ \A k \in 1..Len(air) : air'[k] = air[k]
        /\ air'[Len(air) + 1] = a
    BY <1>1, <2>3, <2>4, AppendProperties
  <2>6. ASSUME NEW k \in 1..Len(air')
        PROVE  (k \in 1..Len(air) /\ air'[k] = air[k]) \/ (k = Len(air) + 1 /\ air'[k] = a)
    BY <1>1, <2>5
  <2>7. Len(air') <= MaxAir
    BY <1>1, <1>3, <2>5
  <2> QED
    BY <2>2, <2>3, <2>5, <2>6, <2>7
<1> QED
  BY <1>1, <1>2, <1>3

(* custom_cmd_. *)
LEMMA CommandKeeps ==
  ASSUME IInv, Command
  PROVE  IInv'
<1>1. /\ outcome = "none" /\ ~wait /\ wait' = TRUE /\ at \in 1..10
      /\ UNCHANGED <<ver, limit, cache, job, at, outcome>>
      /\ DeviceTypes'
      /\ device'["cfg"] = device["cfg"] \/ (at = 5 /\ device'["cfg"] = Accepted)
      /\ device'["comfort"] = device["comfort"] \/ (at = 6 /\ device'["comfort"] = job.words)
      /\ device'["sensor"] = device["sensor"] \/ (at = 7 /\ device'["sensor"] = job.words)
  BY Commanded
<1>2. \/ air' = air
      \/ \E f \in {<<>>, Frame(Of, device')} :
           Len(air) < MaxAir /\ air' = Append(air, [part |-> Of, frame |-> f])
  BY Commanded
<1>3. /\ air' \in Seq(Answer) /\ Len(air') <= MaxAir /\ Len(air) \in Nat
      /\ \A k \in 1..Len(air') :
           \/ k \in 1..Len(air) /\ air'[k] = air[k]
           \/ /\ k = Len(air) + 1 /\ air'[k].part = Of
              /\ \/ air'[k].frame = <<>>
                 \/ Of = "cfg" /\ air'[k].frame = CfgFrame(device'["cfg"])
                 \/ Of \in {"comfort", "sensor"} /\ air'[k].frame = <<device'[Of]>>
                 \/ Of = "trigger"
  BY <1>1, <1>2, Appended
<1>4. /\ ToSend' = ToSend /\ Accepted' = Accepted /\ IsDefault' = IsDefault /\ Answer' = Answer
      /\ (Good' <=> Good) /\ \A b \in Nine : CfgFrame(b)' = CfgFrame(b)
  BY <1>1 DEF ToSend, Offsets, Accepted, IsDefault, Answer, Frames, CfgFrame, Codes, Good
<1>5. /\ Of = "cfg" => at \in {1, 5, 9}
      /\ Of = "comfort" => at \in {2, 6, 10}
      /\ Of = "sensor" => at \in {3, 7}
      /\ at = 1 => Of = "cfg"
  BY <1>1, StepsTable DEF Of
<1>6. Types'
  <2>1. CacheTypes'
    BY <1>1 DEF IInv, Types, CacheTypes
  <2>2. JobTypes'
    BY <1>1 DEF IInv, Types, JobTypes, Requests
  <2>3. ControlTypes'
    BY <1>1, <1>3, <1>4 DEF IInv, Types, ControlTypes
  <2> QED
    BY <1>1, <2>1, <2>2, <2>3 DEF Types
<1>7. Known' /\ Ends'
  BY <1>1, <1>4 DEF IInv, Known, Ends
<1>8. CfgAir'
  <2> SUFFICES ASSUME NEW k \in 1..Len(air'), air'[k].part = "cfg"
               PROVE  /\ at < 5 => \A l \in 1..Len(air') : air'[l].part = "cfg" => l = k
                      /\ \/ air'[k].frame = <<>>
                         \/ \E b \in Nine :
                              /\ air'[k].frame = CfgFrame(b) /\ b[Latency] <= limit
                              /\ \/ b = device'["cfg"]
                                 \/ /\ at = 5 /\ device'["cfg"] = Accepted
                                    /\ \A l \in 1..(k - 1) : air'[l].part # "cfg"
    BY <1>1, <1>4 DEF CfgAir
  <2>1. at < 5 => \A l \in 1..Len(air') : air'[l].part = "cfg" => l = k
    <3> SUFFICES ASSUME at < 5, NEW l \in 1..Len(air'), air'[l].part = "cfg" PROVE l = k
      OBVIOUS
    <3>1. CASE at = 1
      <4>1. Len(air) = 0
        BY <1>1, <3>1 DEF IInv, Early
      <4> QED
        BY <1>3, <4>1
    <3>2. CASE at # 1
      <4>1. Of # "cfg"
        BY <1>1, <1>5, <3>2
      <4>2. k \in 1..Len(air) /\ air[k].part = "cfg" /\ l \in 1..Len(air) /\ air[l].part = "cfg"
        BY <1>3, <4>1
      <4> QED
        BY <1>1, <4>2 DEF IInv, CfgAir
    <3> QED
      BY <3>1, <3>2
  <2>2. CASE k \in 1..Len(air) /\ air'[k] = air[k]
    <3>1. \/ air[k].frame = <<>>
          \/ \E b \in Nine :
               air[k].frame = CfgFrame(b) /\ b[Latency] <= limit /\ b = device["cfg"]
      BY <1>1, <2>2 DEF IInv, CfgAir
    <3>2. ASSUME at = 5, NEW l \in 1..(k - 1) PROVE air'[l].part # "cfg"
      <4>1. l \in 1..Len(air') /\ l \in 1..Len(air) /\ l # k /\ l # Len(air) + 1
        BY <1>3, <2>2
      <4>2. air'[l] = air[l]
        BY <1>3, <4>1
      <4>3. \A m \in 1..Len(air) : air[m].part = "cfg" => m = k
        BY <1>1, <2>2, <3>2 DEF IInv, CfgAir
      <4> QED
        BY <4>1, <4>2, <4>3
    <3>3. CASE air[k].frame = <<>>
      BY <2>1, <2>2, <3>3
    <3>4. CASE air[k].frame # <<>>
      <4>1. PICK b \in Nine :
               air[k].frame = CfgFrame(b) /\ b[Latency] <= limit /\ b = device["cfg"]
        BY <3>1, <3>4
      <4>2. \/ b = device'["cfg"]
            \/ at = 5 /\ device'["cfg"] = Accepted /\ \A l \in 1..(k - 1) : air'[l].part # "cfg"
        BY <1>1, <3>2, <4>1
      <4> QED
        BY <2>1, <2>2, <4>1, <4>2
    <3> QED
      BY <3>3, <3>4
  <2>3. CASE k = Len(air) + 1
    <3>1. Of = "cfg" /\ (air'[k].frame = <<>> \/ air'[k].frame = CfgFrame(device'["cfg"]))
      BY <1>3, <2>3
    <3>2. device'["cfg"] \in Nine /\ device'["cfg"][Latency] <= limit
      BY <1>1 DEF DeviceTypes
    <3> QED
      BY <2>1, <3>1, <3>2
  <2> QED
    BY <1>3, <2>2, <2>3
<1>9. ComfortAir'
  <2> SUFFICES ASSUME NEW k \in 1..Len(air'), air'[k].part = "comfort"
               PROVE  /\ at < 6 => \A l \in 1..Len(air') : air'[l].part = "comfort" => l = k
                      /\ \/ air'[k].frame = <<>>
                         \/ \E w \in Words :
                              /\ air'[k].frame = <<w>>
                              /\ \/ w = device'["comfort"]
                                 \/ /\ at = 6 /\ device'["comfort"] = job.words
                                    /\ \A l \in 1..(k - 1) : air'[l].part # "comfort"
    BY <1>1 DEF ComfortAir
  <2>1. at < 6 => \A l \in 1..Len(air') : air'[l].part = "comfort" => l = k
    <3> SUFFICES ASSUME at < 6, NEW l \in 1..Len(air'), air'[l].part = "comfort" PROVE l = k
      OBVIOUS
    <3>1. CASE at = 2
      <4>1. \A m \in 1..Len(air) : air[m].part # "comfort"
        BY <1>1, <3>1 DEF IInv, Early
      <4> QED
        BY <1>3, <4>1
    <3>2. CASE at # 2
      <4>1. Of # "comfort"
        BY <1>1, <1>5, <3>2
      <4>2. /\ k \in 1..Len(air) /\ air[k].part = "comfort"
            /\ l \in 1..Len(air) /\ air[l].part = "comfort"
        BY <1>3, <4>1
      <4> QED
        BY <1>1, <4>2 DEF IInv, ComfortAir
    <3> QED
      BY <3>1, <3>2
  <2>2. CASE k \in 1..Len(air) /\ air'[k] = air[k]
    <3>1. \/ air[k].frame = <<>>
          \/ \E w \in Words : air[k].frame = <<w>> /\ w = device["comfort"]
      BY <1>1, <2>2 DEF IInv, ComfortAir
    <3>2. ASSUME at = 6, NEW l \in 1..(k - 1) PROVE air'[l].part # "comfort"
      <4>1. l \in 1..Len(air') /\ l \in 1..Len(air) /\ l # k /\ l # Len(air) + 1
        BY <1>3, <2>2
      <4>2. air'[l] = air[l]
        BY <1>3, <4>1
      <4>3. \A m \in 1..Len(air) : air[m].part = "comfort" => m = k
        BY <1>1, <2>2, <3>2 DEF IInv, ComfortAir
      <4> QED
        BY <4>1, <4>2, <4>3
    <3> QED
      BY <1>1, <2>1, <2>2, <3>1, <3>2
  <2>3. CASE k = Len(air) + 1
    <3>1. Of = "comfort" /\ (air'[k].frame = <<>> \/ air'[k].frame = <<device'["comfort"]>>)
      BY <1>3, <2>3
    <3>2. device'["comfort"] \in Words
      BY <1>1 DEF DeviceTypes
    <3> QED
      BY <2>1, <3>1, <3>2
  <2> QED
    BY <1>3, <2>2, <2>3
<1>10. SensorAir'
  <2> SUFFICES ASSUME NEW k \in 1..Len(air'), air'[k].part = "sensor", at <= 7
               PROVE  \/ air'[k].frame = <<>>
                      \/ \E w \in Words :
                           /\ air'[k].frame = <<w>>
                           /\ w = device'["sensor"] \/ (at = 7 /\ device'["sensor"] = job.words)
    BY <1>1 DEF SensorAir
  <2>1. CASE k \in 1..Len(air) /\ air'[k] = air[k]
    <3>1. \/ air[k].frame = <<>>
          \/ \E w \in Words : air[k].frame = <<w>> /\ w = device["sensor"]
      BY <1>1, <2>1 DEF IInv, SensorAir
    <3> QED
      BY <1>1, <2>1, <3>1
  <2>2. CASE k = Len(air) + 1
    <3>1. Of = "sensor" /\ (air'[k].frame = <<>> \/ air'[k].frame = <<device'["sensor"]>>)
      BY <1>3, <2>2
    <3>2. device'["sensor"] \in Words
      BY <1>1 DEF DeviceTypes
    <3> QED
      BY <3>1, <3>2
  <2> QED
    BY <1>3, <2>1, <2>2
<1>11. Early'
  <2> SUFFICES ASSUME at = 1, NEW k \in 1..Len(air') PROVE air'[k].part # "comfort"
    BY <1>1 DEF Early
  <2>1. Of = "cfg" /\ \A m \in 1..Len(air) : air[m].part # "comfort"
    BY <1>1, <1>5 DEF IInv, Early
  <2> QED
    BY <1>3, <2>1
<1>12. CfgDone' /\ ComfortDone' /\ SensorDone'
  BY <1>1, <1>4 DEF IInv, CfgDone, ComfortDone, SensorDone
<1> QED
  BY <1>6, <1>7, <1>8, <1>9, <1>10, <1>11, <1>12 DEF IInv

(* The beginning. *)
LEMMA InitHolds ==
  ASSUME Init
  PROVE  IInv
<1>1. /\ at = 1 /\ wait = FALSE /\ air = <<>> /\ outcome = "none" /\ job \in Requests
      /\ ver \in Version /\ limit \in {49, 255}
  BY DEF Init
<1>2. ver \in 0..255
  BY <1>1, ConfigAssumption
<1>3. DeviceTypes
  <2>1. PICK b \in {b \in Bytes : b[Latency] <= limit}, w \in Words, t \in Triggers :
          device = [cfg |-> b, comfort |-> w, sensor |-> w, trigger |-> EncodeTrigger(ver, t)]
    BY DEF Init
  <2>2. b \in Nine /\ b[Latency] <= limit
    BY <2>1, ConfigAssumption
  <2>3. EncodeTrigger(ver, t) \in Codes
    BY <1>2 DEF Codes
  <2> DEFINE e == EncodeTrigger(ver, t)
  <2>4. device = [cfg |-> b, comfort |-> w, sensor |-> w, trigger |-> e] /\ e \in Codes
    BY <2>1, <2>3
  <2> HIDE DEF e
  <2>5. /\ device = [p \in Part |-> device[p]]
        /\ device["cfg"] = b /\ device["comfort"] = w /\ device["sensor"] = w
        /\ device["trigger"] = e
    BY <2>4 DEF Part
  <2> QED
    BY <1>1, <1>2, <2>2, <2>4, <2>5 DEF DeviceTypes
<1>4. CacheFits(cache)
  <2>1. /\ Unknown = [p \in Part |-> Unknown[p]]
        /\ Unknown["cfg"] = DefaultConfig /\ Unknown["comfort"] = DefaultWords
    BY DEF Unknown, Fresh, Part
  <2>2. CacheFits(Unknown)
    BY <2>1, Defaults DEF CacheFits
  <2>3. CASE cache = Unknown
    BY <2>2, <2>3
  <2>4. ASSUME NEW b \in Bytes,
               cache = [Unknown EXCEPT !.cfg = DecodeConfig(@, Frame("cfg", [cfg |-> b]))]
        PROVE  CacheFits(cache)
    <3> DEFINE x == DecodeConfig(Unknown["cfg"], Frame("cfg", [cfg |-> b]))
    <3>1. cache = [Unknown EXCEPT !["cfg"] = x]
      BY <2>4
    <3>2. Frame("cfg", [cfg |-> b]) = CfgFrame(b) /\ b \in Nine
      BY ConfigAssumption DEF Frame, CfgFrame
    <3>3. /\ x.valid /\ x.ver = ver
          /\ x \in [valid : BOOLEAN, ver : 0..255, bytes : Nine, hver : Nat, av : Nat]
      BY <1>2, <3>2, FrameIsRead
    <3> HIDE DEF x
    <3>4. /\ cache = [p \in Part |-> cache[p]] /\ cache["cfg"] = x
          /\ cache["comfort"] = Unknown["comfort"]
      BY <2>1, <3>1 DEF Part
    <3> QED
      BY <2>2, <3>3, <3>4 DEF CacheFits
  <2>5. cache \in {Unknown} \cup
          {[Unknown EXCEPT !.cfg = DecodeConfig(@, Frame("cfg", [cfg |-> b]))] : b \in Bytes}
    BY DEF Init
  <2> QED
    BY <2>3, <2>4, <2>5
<1>5. JobTypes
  <2>1. job.parts \in SUBSET Part /\ job.words \in Words
    BY <1>1 DEF Requests
  <2>2. PICK g \in Given : job.cfg = Parsed(g)
    BY <1>1 DEF Requests
  <2>3. \A i \in 1..9 : (IF i \in DOMAIN g THEN g[i] ELSE DefaultConfig.bytes[i]) \in 0..255
    BY ConfigAssumption, Defaults DEF Nine
  <2>4. job.cfg \in Nine
    BY <2>2, <2>3 DEF Parsed, Nine
  <2> QED
    BY <1>1, <2>1, <2>4 DEF JobTypes
<1>6. ControlTypes
  <2>1. Len(air) = 0 /\ air \in Seq(Answer)
    BY <1>1
  <2>2. MaxAir \in Nat
    BY ConfigAssumption
  <2>3. Len(air) <= MaxAir
    BY <2>1, <2>2
  <2>4. at \in 1..11 /\ outcome \in {"none", "ok", "mismatch", "timeout", "unsupported"}
    BY <1>1
  <2>5. wait \in BOOLEAN
    BY <1>1
  <2> QED
    BY <2>1, <2>3, <2>4, <2>5 DEF ControlTypes
<1>7. Len(air) = 0
  BY <1>1
<1> QED
  BY <1>1, <1>3, <1>4, <1>5, <1>6, <1>7 DEF IInv, Types, CacheTypes, CacheFits, Known, CfgAir,
     ComfortAir, SensorAir, Early, CfgDone, ComfortDone, SensorDone, Ends, Good
----------------------------------------------------------------------------
(* The theorems *)

(* The invariant holds in every behaviour: what is cached, what is in the  *)
(* air and what the thermometer has stored stay related command by         *)
(* command.                                                                *)
THEOREM Inductive == Spec => []IInv
<1>1. Init => IInv
  BY InitHolds
<1>2. IInv /\ [Next]_vars => IInv'
  <2>1. ASSUME IInv, UNCHANGED vars PROVE IInv'
    <3>1. UNCHANGED <<ver, limit, device, cache, job, at, wait, air, outcome>>
      BY <2>1 DEF vars, thermometer
    <3>2. UNCHANGED <<Types, Known, CfgAir>>
      BY <3>1 DEF Types, DeviceTypes, CacheTypes, JobTypes, ControlTypes, Known, Good, IsDefault,
         CfgAir, CfgFrame, Accepted, ToSend, Offsets, Answer, Frames, Codes, Requests
    <3>3. UNCHANGED <<ComfortAir, SensorAir, Early, CfgDone, ComfortDone, SensorDone, Ends>>
      BY <3>1 DEF ComfortAir, SensorAir, Early, CfgDone, ComfortDone, SensorDone, Ends, Good,
         IsDefault
    <3> QED
      BY <2>1, <3>2, <3>3 DEF IInv
  <2> QED
    BY <2>1, CommandKeeps, NotifyKeeps, NoAnswerKeeps DEF Next
<1> QED
  BY <1>1, <1>2, PTL DEF Spec

(* The variables have their types, and whatever was requested, read or     *)
(* stored before, what a write sends keeps the limits of the firmware's    *)
(* own editor (clamp).                                                     *)
THEOREM TypeCorrect == Spec => []TypeOK
<1>1. IInv => TypeOK
  <2> SUFFICES ASSUME IInv PROVE TypeOK
    OBVIOUS
  <2>1. Types
    BY DEF IInv
  <2> QED
    BY <2>1, Sent, StepsTable DEF Types, ControlTypes, TypeOK
<1> QED
  BY <1>1, Inductive, PTL

(* A job that ends well has told the truth: what it wrote and compared is  *)
(* in the thermometer, and the hub's copy is not an answer from before the *)
(* write (step_write_config_ to step_readback_).                           *)
THEOREM VerifiedHolds == Spec => []VerifiedIsTrue
<1>1. IInv => VerifiedIsTrue
  <2> SUFFICES ASSUME IInv, outcome = "ok" PROVE VerifiedIsTrue
    BY DEF VerifiedIsTrue, VerifiedIsStored, CacheIsDevice
  <2>1. at = 11 /\ Good
    BY DEF IInv, Ends, Good
  <2>2. VerifiedIsStored
    BY <2>1 DEF IInv, VerifiedIsStored, CfgDone, ComfortDone, SensorDone, IsDefault
  <2>3. CacheIsDevice
    BY <2>1 DEF IInv, CacheIsDevice, CfgDone, ComfortDone
  <2> QED
    BY <2>2, <2>3 DEF VerifiedIsTrue
<1> QED
  BY <1>1, Inductive, PTL

(* No write without offsets changes the flags that 4.7 and later keep in   *)
(* those bytes (step_write_config_).                                       *)
THEOREM OffsetsAreKept == Spec => OffsetsKept
<1> DEFINE Keeps ==
      device'.cfg # device.cfg /\ cache.cfg.bytes = device.cfg /\ ver >= V47
        /\ job.cfg[TempOffset] = 0 /\ job.cfg[HumiOffset] = 0
      => /\ device'.cfg[TempOffset] = device.cfg[TempOffset]
         /\ device'.cfg[HumiOffset] \in {device.cfg[HumiOffset], 5}
<1>1. IInv /\ [Next]_vars => [Keeps]_vars
  <2> SUFFICES ASSUME IInv, [Next]_vars, device'["cfg"] # device["cfg"],
                      cache["cfg"].bytes = device["cfg"], ver >= V47,
                      job.cfg[TempOffset] = 0, job.cfg[HumiOffset] = 0
               PROVE  /\ device'["cfg"][TempOffset] = device["cfg"][TempOffset]
                      /\ device'["cfg"][HumiOffset] \in {device["cfg"][HumiOffset], 5}
    OBVIOUS
  <2>1. Command
    BY DEF Next, Notify, NoAnswer, vars, thermometer
  <2>2. at = 5 /\ device'["cfg"] = Accepted /\ outcome = "none"
    BY <2>1, Commanded
  <2>3. Types /\ cache["cfg"].ver = ver
    BY <2>2 DEF IInv, Known
  <2>4. ver \in 0..255 /\ job.cfg \in Nine /\ device["cfg"] \in Nine
    BY <2>3 DEF Types, DeviceTypes, JobTypes
  <2>5. Offsets[3] = device["cfg"][3] /\ Offsets[4] = device["cfg"][4]
    BY <2>3, <2>4 DEF Offsets, Nine, TempOffset, HumiOffset
  <2>6. Offsets \in Nine /\ ToSend.bytes = Clamp(ver, Offsets)
    BY <2>3, Sent
  <2>7. Accepted[3] = ToSend.bytes[3] /\ Accepted[4] = ToSend.bytes[4]
    BY <2>3, Sent DEF Latency
  <2>8. /\ Clamp(ver, Offsets)[3] = Offsets[3]
        /\ Clamp(ver, Offsets)[4] \in {Offsets[4], 5}
    <3>1. Offsets[3] \in 0..255 /\ Offsets[4] \in 0..255
      BY <2>6 DEF Nine
    <3>2. /\ Clamp(ver, Offsets)[3] = IF ver < V47 /\ Offsets[3] = 128 THEN 129 ELSE Offsets[3]
          /\ ver > V50 => Clamp(ver, Offsets)[4] = IF Offsets[4] < 6 THEN 5 ELSE Offsets[4]
          /\ ver <= V50 => Clamp(ver, Offsets)[4] =
                             IF ver < V47 /\ Offsets[4] = 128 THEN 129 ELSE Offsets[4]
      BY <2>4, <2>6, ClampBytes, ZenonT(30) DEF TempOffset, HumiOffset
    <3>3. ~(ver < V47) /\ (ver > V50 \/ ver <= V50)
      BY <2>4 DEF V47, V50
    <3> QED
      BY <3>1, <3>2, <3>3
  <2> QED
    BY <2>2, <2>5, <2>6, <2>7, <2>8 DEF TempOffset, HumiOffset
<1> QED
  BY <1>1, Inductive, PTL DEF Spec, OffsetsKept
----------------------------------------------------------------------------
(* The codec there and back *)

(* An offset byte of clamp.                                                *)
Off(v, x) == IF v < V47 /\ x = 128 THEN 129 ELSE x

(* What clamp makes of b, byte by byte.                                    *)
IsClamped(v, b, c) ==
  /\ c[1] = b[1] /\ c[2] = b[2]
  /\ c[3] = Off(v, b[3]) /\ c[4] = IF v > V50 /\ b[4] < 6 THEN 5 ELSE Off(v, b[4])
  /\ c[5] = AtLeast(1, b[5]) /\ c[6] = AtLeast(1, b[6]) /\ c[7] = Power(b[7])
  /\ c[8] = IF v > V40 THEN AtMost(49, b[8]) ELSE b[8]
  /\ c[9] = AtLeast(10, b[9])

(* clamp works byte by byte.                                               *)
LEMMA ClampEach ==
  ASSUME NEW v \in 0..255, NEW b \in Nine
  PROVE  IsClamped(v, b, Clamp(v, b))
  BY DEF IsClamped, Off, Clamp, Nine, TempOffset, HumiOffset, Latency

(* What clamp has limited it leaves alone: to write a configuration that   *)
(* was written and read back changes nothing in the thermometer (clamp,    *)
(* step_write_config_).                                                    *)
THEOREM ClampOnce ==
  ASSUME NEW v \in 0..255, NEW b \in Nine
  PROVE  Clamp(v, Clamp(v, b)) = Clamp(v, b)
<1> DEFINE c == Clamp(v, b)
           d == Clamp(v, c)
<1>1. c \in Nine
  BY ClampBytes
<1>2. IsClamped(v, b, c)
  BY ClampEach
<1> HIDE DEF c
<1>3. d \in Nine
  BY <1>1, ClampBytes
<1>4. IsClamped(v, c, d)
  BY <1>1, ClampEach
<1> HIDE DEF d
<1>5. \A i \in 1..9 : b[i] \in 0..255
  BY DEF Nine
<1>6. d[3] = c[3] /\ d[4] = c[4]
  BY <1>2, <1>4, <1>5 DEF IsClamped, Off, V47, V50
<1>7. d[5] = c[5] /\ d[6] = c[6] /\ d[8] = c[8] /\ d[9] = c[9]
  BY <1>2, <1>4, <1>5 DEF IsClamped, Off, AtLeast, AtMost
<1>8. d[7] = c[7]
  BY <1>2, <1>4, <1>5 DEF IsClamped, Off, Power, AtLeast, AtMost
<1>9. \A i \in 1..9 : d[i] = c[i]
  BY <1>4, <1>6, <1>7, <1>8 DEF IsClamped
<1>10. d = c
  BY <1>1, <1>3, <1>9 DEF Nine
<1> QED
  BY <1>10 DEF d, c

(* A configuration in the firmware's own limits is sent as it was given    *)
(* (clamp): nothing but what the editor of the firmware would refuse is    *)
(* ever changed.                                                           *)
THEOREM ClampKeepsLimited ==
  ASSUME NEW v \in 0..255, NEW b \in Nine, Limited(v, b),
         v < V47 => b[TempOffset] # 128 /\ b[HumiOffset] # 128,
         v > V50 => b[HumiOffset] >= 5
  PROVE  Clamp(v, b) = b
<1> DEFINE c == Clamp(v, b)
<1>1. c \in Nine
  BY ClampBytes
<1>2. IsClamped(v, b, c)
  BY ClampEach
<1> HIDE DEF c
<1>3. \A i \in 1..9 : b[i] \in 0..255
  BY DEF Nine
<1>4. /\ b[5] >= 1 /\ b[6] >= 1 /\ b[7] \in (23..63) \cup (130..191) /\ b[9] >= 10
      /\ v > V40 => b[8] <= 49
  BY DEF Limited, Latency
<1>5. c[3] = b[3] /\ c[4] = b[4]
  <2>1. b[3] \in 0..255 /\ b[4] \in 0..255
    BY <1>3
  <2>2. /\ v < V47 => b[3] # 128 /\ b[4] # 128
        /\ v > V50 => b[4] >= 5
    BY DEF TempOffset, HumiOffset
  <2>3. Off(v, b[3]) = b[3] /\ Off(v, b[4]) = b[4]
    BY <2>2 DEF Off
  <2>4. v > V50 /\ b[4] < 6 => b[4] = 5
    BY <2>1, <2>2
  <2>5. c[3] = Off(v, b[3]) /\ c[4] = IF v > V50 /\ b[4] < 6 THEN 5 ELSE Off(v, b[4])
    BY <1>2 DEF IsClamped
  <2> QED
    BY <2>3, <2>4, <2>5, Zenon
<1>6. c[5] = b[5] /\ c[6] = b[6] /\ c[8] = b[8] /\ c[9] = b[9]
  <2>1. b[5] \in 0..255 /\ b[6] \in 0..255 /\ b[8] \in 0..255 /\ b[9] \in 0..255
    BY <1>3
  <2>2. AtLeast(1, b[5]) = b[5] /\ AtLeast(1, b[6]) = b[6] /\ AtLeast(10, b[9]) = b[9]
    BY <1>4, <2>1 DEF AtLeast
  <2>3. v > V40 => AtMost(49, b[8]) = b[8]
    BY <1>4, <2>1 DEF AtMost
  <2>4. /\ c[5] = AtLeast(1, b[5]) /\ c[6] = AtLeast(1, b[6]) /\ c[9] = AtLeast(10, b[9])
        /\ c[8] = IF v > V40 THEN AtMost(49, b[8]) ELSE b[8]
    BY <1>2, Zenon DEF IsClamped
  <2> QED
    BY <2>2, <2>3, <2>4, Zenon
<1>7. c[7] = b[7]
  BY <1>2, <1>4 DEF IsClamped, Power, AtLeast, AtMost
<1>8. \A i \in 1..9 : c[i] = b[i]
  BY <1>2, <1>5, <1>6, <1>7 DEF IsClamped
<1>9. c = b
  BY <1>1, <1>8 DEF Nine
<1> QED
  BY <1>9 DEF c

(* Ten times a tenth is what it was a tenth of.                            *)
LEMMA TenthIs ==
  ASSUME NEW x \in Int
  PROVE  /\ Tenth(x) \in Int
         /\ \A b \in Int : x = 10 * b => Tenth(x) = b
<1>1. CASE x >= 0
  <2>1. Tenth(x) = x \div 10
    BY <1>1 DEF Tenth
  <2> QED
    BY <1>1, <2>1
<1>2. CASE x < 0
  <2> DEFINE y == -x
             q == y \div 10
  <2>1. Tenth(x) = -q
    BY <1>2 DEF Tenth
  <2>2. y \in Nat /\ x = -y
    BY <1>2
  <2> HIDE DEF y
  <2>3. q \in Int /\ \A b \in Int : y = 10 * b => q = b
    BY <2>2
  <2> HIDE DEF q
  <2>4. \A b \in Int : x = 10 * b => y = 10 * (-b)
    BY <2>2
  <2>5. ASSUME NEW b \in Int, x = 10 * b  PROVE -q = b
    <3>1. -b \in Int /\ y = 10 * (-b)
      BY <2>4, <2>5
    <3>2. q = -b
      BY <2>3, <3>1
    <3> QED
      BY <3>2
  <2> QED
    BY <2>1, <2>3, <2>5
<1> QED
  BY <1>1, <1>2

(* A signed byte holds -128 to 127.                                        *)
LEMMA Signed8Is ==
  ASSUME NEW h \in Int
  PROVE  /\ Signed8(h % 256) \in -128..127
         /\ h \in -128..127 => Signed8(h % 256) = h
<1> DEFINE w == h % 256
<1>1. w \in 0..255
  OBVIOUS
<1>2. h \in 0..127 => w = h
  OBVIOUS
<1>3. h \in -128..-1 => w = h + 256
  OBVIOUS
<1> HIDE DEF w
<1>4. Signed8(w) \in -128..127 /\ (h \in -128..127 => Signed8(w) = h)
  BY <1>1, <1>2, <1>3 DEF Signed8
<1> QED
  BY <1>4 DEF w

(* What becomes of a hysteresis that is sent as a byte of tenths.          *)
LEMMA TenthsComeBack ==
  ASSUME NEW x \in Int
  PROVE  Signed8(Tenth(x) % 256) * 10 = x <=> \E b \in -128..127 : x = 10 * b
<1> DEFINE h == Tenth(x)
           s == Signed8(h % 256)
<1>1. h \in Int /\ \A b \in Int : x = 10 * b => h = b
  BY TenthIs
<1> HIDE DEF h
<1>2. s \in -128..127 /\ (h \in -128..127 => s = h)
  BY <1>1, Signed8Is
<1> HIDE DEF s
<1>3. s * 10 = x => \E b \in -128..127 : x = 10 * b
  BY <1>2
<1>4. ASSUME NEW b \in -128..127, x = 10 * b  PROVE s * 10 = x
  <2>1. h = b
    BY <1>1, <1>4
  <2> QED
    BY <1>2, <1>4, <2>1
<1> QED
  BY <1>3, <1>4 DEF s, h

(* The members of a trigger; a word is a number.                           *)
Trigger == [valid : BOOLEAN, threshold : Int, hysteresis : Int, rds : Nat]

(* The answer of a thermometer that has stored e.                          *)
LEMMA TriggerFrame ==
  ASSUME NEW e
  PROVE  Frame("trigger", [trigger |-> e]) =
           <<[threshold |-> e.threshold, hysteresis |-> e.hysteresis, rds |-> e.rds,
              wide |-> ver >= V26]>>
  BY DEF Frame

(* Before 2.6 the hysteresis crosses the channel as a signed byte of       *)
(* tenths: what comes back is what was set exactly when it is ten times a  *)
(* signed byte; the reed switch's report is kept from 3.7 on *)
(* and read as 0 before; the threshold always comes back                   *)
(* (TriggerConfig::encode, TriggerConfig::decode).                         *)
THEOREM TriggerComesBack ==
  ASSUME NEW old, NEW t \in Trigger, ver \in 0..255
  PROVE  LET r == DecodeTrigger(ver, old, Frame("trigger", [trigger |-> EncodeTrigger(ver, t)]))
         IN /\ r.valid /\ r.threshold = t.threshold
            /\ r.hysteresis = t.hysteresis
                 <=> ver >= V26 \/ \E b \in -128..127 : t.hysteresis = 10 * b
            /\ r.rds = IF ver >= V37 THEN t.rds ELSE 0
<1> DEFINE e == EncodeTrigger(ver, t)
           w == Tenth(t.hysteresis) % 256
           s == Signed8(w) * 10
           f == [threshold |-> e.threshold, hysteresis |-> e.hysteresis, rds |-> e.rds,
                 wide |-> ver >= V26]
           r == DecodeTrigger(ver, old, <<f>>)
<1>1. t.hysteresis \in Int
  BY DEF Trigger
<1>2. s = t.hysteresis <=> \E b \in -128..127 : t.hysteresis = 10 * b
  BY <1>1, TenthsComeBack
<1>3. Frame("trigger", [trigger |-> e]) = <<f>>
  BY TriggerFrame
<1>4. /\ e.threshold = t.threshold /\ e.hysteresis = IF ver >= V26 THEN t.hysteresis ELSE w
      /\ e.rds = (IF ver >= V37 THEN <<t.rds>> ELSE <<>>)
  BY DEF EncodeTrigger
<1> HIDE DEF e, w
<1>5. /\ f.threshold = e.threshold /\ f.hysteresis = e.hysteresis /\ f.rds = e.rds
      /\ f.wide <=> ver >= V26
  OBVIOUS
<1> HIDE DEF f
<1>6. /\ r.valid /\ r.threshold = f.threshold
      /\ r.hysteresis = IF f.wide THEN f.hysteresis ELSE Signed8(f.hysteresis) * 10
      /\ r.rds = IF f.wide /\ f.rds # <<>> /\ ver >= V37 THEN f.rds[1] ELSE 0
  <2>1. <<f>> # <<>> /\ <<f>>[1] = f
    OBVIOUS
  <2> QED
    BY <2>1 DEF DecodeTrigger
<1> HIDE DEF r
<1>7. r.threshold = t.threshold
  BY <1>4, <1>5, <1>6
<1>8. r.hysteresis = IF ver >= V26 THEN t.hysteresis ELSE s
  BY <1>4, <1>5, <1>6
<1>9. r.rds = IF ver >= V37 THEN t.rds ELSE 0
  <2>1. ver >= V37 => ver >= V26
    BY DEF V37, V26
  <2>2. <<t.rds>> # <<>> /\ <<t.rds>>[1] = t.rds
    OBVIOUS
  <2> QED
    BY <1>4, <1>5, <1>6, <2>1, <2>2
<1> HIDE DEF s
<1>10. r.hysteresis = t.hysteresis
         <=> ver >= V26 \/ \E b \in -128..127 : t.hysteresis = 10 * b
  BY <1>2, <1>8
<1>11. r = DecodeTrigger(ver, old, Frame("trigger", [trigger |-> EncodeTrigger(ver, t)]))
  BY <1>3 DEF r, e
<1> QED
  BY <1>6, <1>7, <1>9, <1>10, <1>11

(* What the members become of a frame of the two lengths in use.           *)
LEMMA Decoded ==
  ASSUME NEW old, NEW f
  PROVE  /\ Len(f) = 12 =>
              DecodeConfig(old, f) =
                [valid |-> TRUE, ver |-> f[1], bytes |-> Append(SubSeq(f, 2, 9), f[10]),
                 hver |-> IF f[1] < V36 THEN OldHver(f[11]) ELSE f[11], av |-> f[12]]
         /\ Len(f) = 10 =>
              DecodeConfig(old, f) =
                [valid |-> TRUE, ver |-> f[1], bytes |-> Append(SubSeq(f, 2, 9), f[10]),
                 hver |-> IF f[1] < V36 THEN OldHver(128) ELSE 128, av |-> 0]
<1> DEFINE n == Len(f)
<1>1. ASSUME n = 12 PROVE ~(n < 9) /\ n >= 10 /\ n >= 11 /\ n >= 12
  BY <1>1
<1>2. ASSUME n = 10 PROVE ~(n < 9) /\ n >= 10 /\ ~(n >= 11) /\ ~(n >= 12)
  BY <1>2
<1> HIDE DEF n
<1>3. DecodeConfig(old, f) =
        IF n < 9 THEN old
        ELSE [valid |-> TRUE, ver |-> f[1],
              bytes |-> Append(SubSeq(f, 2, 9), IF n >= 10 THEN f[10] ELSE 55),
              hver |-> IF f[1] < V36 THEN OldHver(IF n >= 11 THEN f[11] ELSE 128)
                       ELSE IF n >= 11 THEN f[11] ELSE 128,
              av |-> IF n >= 12 THEN f[12] ELSE 0]
  BY Zenon DEF DecodeConfig, n
<1>4. ASSUME n = 12
      PROVE  DecodeConfig(old, f) =
               [valid |-> TRUE, ver |-> f[1], bytes |-> Append(SubSeq(f, 2, 9), f[10]),
                hver |-> IF f[1] < V36 THEN OldHver(f[11]) ELSE f[11], av |-> f[12]]
  BY <1>1, <1>3, <1>4, Zenon
<1>5. ASSUME n = 10
      PROVE  DecodeConfig(old, f) =
               [valid |-> TRUE, ver |-> f[1], bytes |-> Append(SubSeq(f, 2, 9), f[10]),
                hver |-> IF f[1] < V36 THEN OldHver(128) ELSE 128, av |-> 0]
  BY <1>2, <1>3, <1>5, Zenon
<1> QED
  BY <1>4, <1>5 DEF n

(* A configuration that is sent and stored as it is reads back with the    *)
(* same version and the same nine bytes, whatever was cached before: of    *)
(* the hardware byte all bits from 3.6 on, else the two fields of the mask *)
(* 0x87; before 2.0 neither it nor the last byte crosses the channel       *)
(* (DeviceConfig::encode, DeviceConfig::decode).                           *)
THEOREM ConfigComesBack ==
  ASSUME NEW old, NEW c \in [valid : BOOLEAN, ver : 0..255, bytes : Nine, hver : 0..255, av : 0..255]
  PROVE  DecodeConfig(old, <<c.ver>> \o EncodeConfig(c)) =
           [valid |-> TRUE, ver |-> c.ver, bytes |-> c.bytes,
            hver |-> IF c.ver < V20 THEN 128 ELSE IF c.ver < V36 THEN OldHver(c.hver) ELSE c.hver,
            av |-> IF c.ver < V20 THEN 0 ELSE c.av]
<1> DEFINE v == c.ver
           b == c.bytes
           tail == IF v >= V20 THEN <<c.hver, c.av>> ELSE <<>>
           f == <<v>> \o (b \o tail)
<1>1. v \in 0..255 /\ b \in Nine /\ c.hver \in 0..255 /\ c.av \in 0..255
  OBVIOUS
<1>2. tail \in Seq(0..255) /\ (v >= V20 => Len(tail) = 2) /\ (v < V20 => Len(tail) = 0)
  <2>1. CASE v >= V20
    <3>1. <<c.hver, c.av>> \in Seq(0..255) /\ Len(<<c.hver, c.av>>) = 2
      BY <1>1
    <3>2. tail = <<c.hver, c.av>>
      BY <2>1
    <3>3. ~(v < V20)
      BY <1>1, <2>1 DEF V20
    <3> HIDE DEF v, b, tail, f
    <3> QED
      BY <3>1, <3>2, <3>3
  <2>2. CASE ~(v >= V20)
    <3>1. <<>> \in Seq(0..255) /\ Len(<<>>) = 0
      OBVIOUS
    <3>2. tail = <<>>
      BY <2>2
    <3> HIDE DEF v, b, tail, f
    <3> QED
      BY <2>2, <3>1, <3>2
  <2> QED
    BY <2>1, <2>2
<1>3. v >= V20 => tail[1] = c.hver /\ tail[2] = c.av
  OBVIOUS
<1>4. EncodeConfig(c) = b \o tail
  BY DEF EncodeConfig
<1> HIDE DEF v, b, tail
<1>5. b \in Seq(0..255) /\ Len(b) = 9
  BY <1>1, NineIsSeq
<1>6. /\ f \in Seq(0..255) /\ Len(f) = 10 + Len(tail) /\ f[1] = v
      /\ \A i \in 1..9 : f[i + 1] = b[i]
      /\ \A i \in 1..Len(tail) : f[i + 10] = tail[i]
  <2> DEFINE g == b \o tail
  <2>1. /\ g \in Seq(0..255) /\ Len(g) = 9 + Len(tail)
        /\ \A i \in 1..(9 + Len(tail)) : g[i] = IF i <= 9 THEN b[i] ELSE tail[i - 9]
    <3>1. tail \in Seq(0..255)
      BY <1>2
    <3>2. /\ b \o tail \in Seq(0..255) /\ Len(b \o tail) = Len(b) + Len(tail)
          /\ \A i \in 1..(Len(b) + Len(tail)) :
               (b \o tail)[i] = IF i <= Len(b) THEN b[i] ELSE tail[i - Len(b)]
      BY <1>5, <3>1, ConcatProperties, ZenonT(60)
    <3>3. Len(b) = 9
      BY <1>5
    <3> QED
      BY <3>2, <3>3, ZenonT(30) DEF g
  <2>2. <<v>> \in Seq(0..255) /\ Len(<<v>>) = 1 /\ <<v>>[1] = v
    BY <1>1
  <2> HIDE DEF g
  <2>3. /\ <<v>> \o g \in Seq(0..255) /\ Len(<<v>> \o g) = 1 + Len(g)
        /\ \A i \in 1..(1 + Len(g)) : (<<v>> \o g)[i] = IF i <= 1 THEN <<v>>[i] ELSE g[i - 1]
    BY <2>1, <2>2, ConcatProperties
  <2> DEFINE h == <<v>> \o g
  <2>4. h \in Seq(0..255) /\ Len(h) = 1 + Len(g) /\ h[1] = v /\ \A i \in 1..Len(g) : h[i + 1] = g[i]
    BY <2>1, <2>2, <2>3
  <2> HIDE DEF h
  <2>5. Len(tail) \in 0..2
    BY <1>1, <1>2 DEF V20
  <2>6. \A i \in 1..9 : h[i + 1] = b[i]
    BY <2>1, <2>4, <2>5
  <2>7. \A i \in 1..Len(tail) : h[i + 10] = tail[i]
    <3> SUFFICES ASSUME NEW i \in 1..Len(tail) PROVE h[i + 10] = tail[i]
      OBVIOUS
    <3>1. i + 9 \in 1..Len(g) /\ g[i + 9] = tail[i] /\ (i + 9) + 1 = i + 10
      BY <2>1, <2>5
    <3> QED
      BY <2>4, <3>1
  <2>8. f = h
    BY DEF h, g
  <2>9. Len(h) = 10 + Len(tail)
    BY <2>1, <2>4, <2>5
  <2> HIDE DEF f
  <2> QED
    BY <2>4, <2>6, <2>7, <2>8, <2>9
<1>7. <<c.ver>> \o EncodeConfig(c) = f
  BY <1>4 DEF v
<1> HIDE DEF f
<1>8. Append(SubSeq(f, 2, 9), f[10]) = b
  <2> DEFINE p == SubSeq(f, 2, 9)
             x == f[10]
  <2>1. \A i \in 2..9 : f[i] \in 0..255
    <3> SUFFICES ASSUME NEW i \in 2..9 PROVE f[i] \in 0..255
      OBVIOUS
    <3>1. i - 1 \in 1..9 /\ (i - 1) + 1 = i
      OBVIOUS
    <3>2. f[(i - 1) + 1] = b[i - 1]
      BY <1>6, <3>1
    <3>3. b[i - 1] \in 0..255
      BY <1>1, <3>1 DEF Nine
    <3> QED
      BY <3>1, <3>2, <3>3
  <2>2. p \in Seq(0..255) /\ Len(p) = 8 /\ \A i \in 1..8 : p[i] = f[i + 1]
    <3>1. p \in Seq(0..255) /\ Len(p) = 8 /\ \A i \in 1..8 : p[i] = f[2 + i - 1]
      BY <2>1, SubSeqProperties
    <3>2. \A i \in 1..8 : 2 + i - 1 = i + 1
      OBVIOUS
    <3> HIDE DEF p
    <3> QED
      BY <3>1, <3>2
  <2>3. x = b[9] /\ x \in 0..255
    BY <1>1, <1>6 DEF Nine
  <2> HIDE DEF p, x
  <2>4. /\ Append(p, x) \in Seq(0..255) /\ Len(Append(p, x)) = 9 /\ Append(p, x)[9] = x
        /\ \A i \in 1..8 : Append(p, x)[i] = p[i]
    <3> DEFINE u == Append(p, x)
    <3>1. p \in Seq(0..255) /\ x \in 0..255
      BY <2>2, <2>3
    <3>2. /\ u \in Seq(0..255) /\ Len(u) = Len(p) + 1 /\ u[Len(p) + 1] = x
          /\ \A i \in 1..Len(p) : u[i] = p[i]
      BY <3>1, AppendProperties
    <3> HIDE DEF u
    <3>3. u \in Seq(0..255) /\ Len(u) = 9 /\ u[9] = x /\ \A i \in 1..8 : u[i] = p[i]
      BY <2>2, <3>2
    <3> QED
      BY <3>3 DEF u
  <2>5. \A i \in 1..9 : Append(p, x)[i] = b[i]
    BY <1>6, <2>2, <2>3, <2>4
  <2> DEFINE y == Append(p, x)
  <2>6. y \in Seq(0..255) /\ Len(y) = 9 /\ \A i \in 1..9 : y[i] = b[i]
    BY <2>4, <2>5
  <2> HIDE DEF y
  <2>7. y = b
    BY <1>5, <2>6, SeqEqual
  <2> QED
    BY <2>7 DEF y, p, x
<1>9. CASE v >= V20
  <2>1. Len(f) = 12 /\ f[1] = v /\ f[11] = c.hver /\ f[12] = c.av
    <3>1. Len(tail) = 2
      BY <1>2, <1>9
    <3>2. 1 \in 1..Len(tail) /\ 2 \in 1..Len(tail) /\ 1 + 10 = 11 /\ 2 + 10 = 12
      BY <3>1
    <3>3. f[1 + 10] = tail[1] /\ f[2 + 10] = tail[2]
      BY <1>6, <3>2
    <3>4. f[11] = c.hver /\ f[12] = c.av
      BY <1>3, <1>9, <3>2, <3>3
    <3> QED
      BY <1>6, <3>1, <3>4
  <2>2. DecodeConfig(old, f) =
          [valid |-> TRUE, ver |-> v, bytes |-> b,
           hver |-> IF v < V36 THEN OldHver(c.hver) ELSE c.hver, av |-> c.av]
    BY <1>8, <2>1, Decoded
  <2>3. ~(v < V20)
    BY <1>1, <1>9 DEF V20
  <2> QED
    BY <1>7, <2>2, <2>3 DEF v, b
<1>10. CASE v < V20
  <2>1. Len(f) = 10 /\ f[1] = v
    BY <1>1, <1>2, <1>6, <1>10 DEF V20
  <2>2. v < V36
    BY <1>1, <1>10 DEF V20, V36
  <2>3. DecodeConfig(old, f) =
          [valid |-> TRUE, ver |-> v, bytes |-> b, hver |-> OldHver(128), av |-> 0]
    BY <1>8, <2>1, <2>2, Decoded
  <2>4. OldHver(128) = 128
    BY DEF OldHver
  <2> QED
    BY <1>7, <1>10, <2>3, <2>4 DEF v, b
<1> QED
  BY <1>1, <1>9, <1>10 DEF V20
=============================================================================
