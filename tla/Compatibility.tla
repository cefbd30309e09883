---------------------------- MODULE Compatibility ----------------------------
(***************************************************************************)
(* The rules that decide which firmware a thermometer may get              *)
(* (compatibility.cpp) and the list of images the rules choose from        *)
(* (firmware_provider.cpp).  Versions are compared by number, so a version *)
(* is a number here; sizes are told apart by the limits they are held to.  *)
(***************************************************************************)
EXTENDS Integers, Sequences, SequencesExt

UnknownHw == -1                        \* HW_UNKNOWN
Lywsd03   == {0, 3, 4, 5, 10, 14}      \* is_lywsd03mmc_id

FirmwareKind == {"UNKNOWN", "CUSTOM_PVVX", "STOCK_XIAOMI", "ATC1441", "OTHER_TELINK"}
ImageKind    == {"CUSTOM", "BETA", "ORIGINAL", "SIGNED", "USER_UPLOAD"}

(* What the I2C addresses say: nothing, a known revision, or none. *)
I2c == {"unknown", "known", "mismatch"}

(* Sizes: no bytes; within the limit of the Telink OTA; within that of the extended
   OTA; over both. *)
NoBytes == 0
BleSize == 1
ExtSize == 2
Size    == 0..3

Limit(hw) == IF hw.big THEN ExtSize ELSE BleSize

(* check_compatibility: the rules in the order they are applied. *)
Rules(hw, fw) ==
  << [broken |-> hw.id = UnknownHw,                            code |-> "HW_UNKNOWN"],
     [broken |-> hw.kind = "UNKNOWN",                          code |-> "FW_UNKNOWN"],
     [broken |-> hw.token,                                     code |-> "ACTIVATION_REQUIRED"],
     [broken |-> hw.id \notin fw.hw,                           code |-> "INCOMPATIBLE_FIRMWARE"],
     [broken |-> /\ hw.kind = "CUSTOM_PVVX" /\ hw.id \in Lywsd03
                 /\ hw.i2c = "mismatch",                       code |-> "HW_UNKNOWN"],
     [broken |-> fw.size = NoBytes \/ fw.size > Limit(hw),     code |-> "INCOMPATIBLE_FIRMWARE"],
     [broken |-> fw.kind \in {"ORIGINAL", "SIGNED"} /\ hw.id = 14,
                                                               code |-> "INCOMPATIBLE_FIRMWARE"] >>

Check(hw, fw) ==
  LET r == Rules(hw, fw)
      i == SelectInSeq(r, LAMBDA rule : rule.broken)
  IN IF i = 0 THEN "NONE" ELSE r[i].code

Compatible(hw, fw) == Check(hw, fw) = "NONE"

----------------------------------------------------------------------------
(* find: the first image of that name in the store, which is kept in slot order. *)
Stored(store, name) == SelectSeq(store, LAMBDA i : i.name = name)

SizeIn(store, name) == IF Stored(store, name) = <<>> THEN NoBytes ELSE Stored(store, name)[1].size

Sourced(e, source, size) ==
  [source |-> source, name |-> e.name, version |-> e.version, kind |-> e.kind, hw |-> e.hw,
   size |-> size]

(* An entry of the manifest: its bytes are in the program, in the store, or nowhere. *)
FromManifest(e, program, store) ==
  IF e.name \in DOMAIN program THEN Sourced(e, "bundled", program[e.name])
  ELSE IF Stored(store, e.name) # <<>> THEN Sourced(e, "store", SizeIn(store, e.name))
  ELSE Sourced(e, "bundled", NoBytes)

FromRemote(e, store) ==
  Sourced(e, IF Stored(store, e.name) # <<>> THEN "store" ELSE "remote", SizeIn(store, e.name))

Lists(seq, e) == \E i \in DOMAIN seq : seq[i].name = e.name
Merges(seq, e) == \E i \in DOMAIN seq : seq[i].name = e.name /\ seq[i].kind = e.kind

(* get_available_firmwares: the manifest, what the online manifest adds to it, and
   what the store holds beside them.  A loop is told by what it has after i passes. *)
Available(manifest, program, store, remote) ==
  LET first == [i \in DOMAIN manifest |-> FromManifest(manifest[i], program, store)]
      online[i \in 0..Len(remote)] ==
        IF i = 0 THEN first
        ELSE LET out == online[i - 1] IN
             IF Merges(out, remote[i]) THEN out ELSE Append(out, FromRemote(remote[i], store))
      listed[i \in 0..Len(store)] ==
        IF i = 0 THEN online[Len(remote)]
        ELSE LET out == listed[i - 1] IN
             IF Lists(out, store[i]) THEN out
             ELSE Append(out, Sourced(store[i], "store", store[i].size))
  IN listed[Len(store)]

(* get_firmware_info: the first image of that id. *)
IdOf(fw) == <<fw.source, fw.name>>
WithId(list, id) == SelectSeq(list, LAMBDA fw : IdOf(fw) = id)

(* An image that get_latest_for_device considers: one whose bytes are not here counts
   for its version. *)
Eligible(hw, fw) ==
  /\ fw.kind = "CUSTOM" /\ hw.id \in fw.hw
  /\ fw.size = NoBytes \/ Compatible(hw, fw)

(* Mutant: The first of equal versions, stored or not. *)
BetterFirst(fw, best) == fw.version > best.version

Better(fw, best) ==
  \/ fw.version > best.version
  \/ fw.version = best.version /\ best.size = NoBytes /\ fw.size # NoBytes

(* get_latest_for_device: <<>> if there is none. *)
Latest(hw, list) ==
  LET best[i \in 0..Len(list)] ==
        IF i = 0 THEN <<>>
        ELSE LET so_far == best[i - 1] IN
             IF Eligible(hw, list[i]) /\ (so_far = <<>> \/ Better(list[i], so_far[1]))
             THEN <<list[i]>> ELSE so_far
  IN best[Len(list)]

(* recompute_eligibility_ *)
NoOffer == [id |-> <<>>, version |-> 0, ok |-> FALSE, update |-> FALSE]

Offer(hw, list) ==
  LET best == Latest(hw, list)
      ok   == Compatible(hw, best[1])
  IN IF best = <<>> THEN NoOffer
     ELSE [id |-> IdOf(best[1]), version |-> best[1].version, ok |-> ok,
           update |-> /\ ok
                      /\ \/ hw.kind = "CUSTOM_PVVX" /\ hw.version < best[1].version
                         \/ hw.kind \in {"STOCK_XIAOMI", "ATC1441"}]
=============================================================================
