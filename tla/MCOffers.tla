------------------------------ MODULE MCOffers ------------------------------
(***************************************************************************)
(* Two thermometers and room for one saved record.  f1 is bundled with its *)
(* bytes, f2 is the newer entry of a manifest that a browser posts, g2 has *)
(* the version of f2 and is uploaded beside it, o1 is an original image.   *)
(***************************************************************************)
EXTENDS Offers

CONSTANTS d1, d2

MCDevice == {d1, d2}

Custom(name, version, size) ==
  [name |-> name, kind |-> "CUSTOM", version |-> version, hw |-> {0, 14}, size |-> size]
Original == [name |-> "o1", kind |-> "ORIGINAL", version |-> 0, hw |-> {0, 14}, size |-> BleSize]

Base == [id |-> 0, kind |-> "CUSTOM_PVVX", version |-> 1, big |-> FALSE, token |-> FALSE,
         i2c |-> "known"]
Stock(token) == [Base EXCEPT !.kind = "STOCK_XIAOMI", !.version = 0, !.token = token,
                             !.i2c = "unknown"]

MCFleet == {[d \in MCDevice |-> IF d = d1 THEN Base ELSE Stock(TRUE)]}

MCProgram  == [name \in {"f1"} |-> BleSize]
MCBundled  == <<Custom("f1", 1, BleSize)>>
MCNewer    == <<Custom("f2", 2, BleSize)>>
MCManifest == {MCBundled, MCNewer}
MCUpload   == {Custom("f2", 2, ExtSize), Custom("g2", 2, BleSize), Original}
MCOnline   == <<Custom("f2", 2, BleSize)>>
=============================================================================
