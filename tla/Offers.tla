------------------------------- MODULE Offers -------------------------------
(***************************************************************************)
(* What the hub offers to which thermometer: the registry of devices with  *)
(* the eligibility cached in each of them, the list of firmware it is      *)
(* computed from, the update queue, and the records that survive a restart *)
(* (xiaomi_esp_flasher.cpp).  The HTTP server's task replaces the manifest *)
(* and stores images while the main loop reads both.  Of a session only    *)
(* what concerns the choice of the image is kept; Session has the rest.    *)
(***************************************************************************)
EXTENDS Compatibility, Selection

CONSTANTS
  Device,      \* addresses
  Fleet,       \* what the devices may be: functions from Device to hardware and firmware
  Program,     \* bytes bundled with the program: name -> size
  Bundled,     \* the manifest bundled with the program
  Manifest,    \* the manifests a browser may post
  Upload,      \* the images a client may upload
  Online,      \* the online manifest; <<>>: none is configured
  Slots,       \* of the store
  MaxKnown,    \* MAX_KNOWN
  MaxQueue,    \* bound: entries of the update queue
  MaxChanges,  \* bound: uploads and manifests in a behaviour
  None

ASSUME OffersAssumption ==
  /\ IsFiniteSet(Device) /\ None \notin Device
  /\ Slots \in Nat /\ MaxKnown \in Nat /\ MaxQueue \in Nat
  /\ MaxChanges \in Nat
  /\ Bundled \in Manifest
  /\ \A list \in Manifest \cup {Online} :
       /\ list \in Seq({list[i] : i \in DOMAIN list})
       /\ \A i \in DOMAIN list : list[i].version \in Int
  /\ \A image \in Upload : image.version \in Int

VARIABLES
  truth,     \* what the devices are
  manifest,  \* bundled_ of the provider, and the manifest in NVS
  store,     \* images_ of the store, in slot order
  remote,    \* remote_ of the provider
  upload,    \* the image that is written, and the slot it overwrites
  posting,   \* the server's task has replaced the manifest and not yet said so
  recompute, \* recompute_requested_
  todo,      \* devices the running recomputation has not reached
  devices,   \* devices_
  known,     \* the blob of known devices in NVS
  queue,     \* update_queue_
  session,   \* the FLASH session
  spoiled,   \* history: a failed upload took an image that was listed
  changes    \* bound

firmware == <<manifest, store, remote, upload, posting>>
cache    == <<recompute, todo, spoiled>>
work     == <<queue, session>>
vars     == <<truth, firmware, cache, devices, known, work, changes>>

NoHw == [id |-> UnknownHw, kind |-> "UNKNOWN", version |-> 0, big |-> FALSE,
         token |-> FALSE, i2c |-> "unknown"]

(* get_available_firmwares *)
Listed == Available(manifest, Program, store, remote)

Macs(regs) == {regs[i].mac : i \in DOMAIN regs}
At(d)      == CHOOSE i \in DOMAIN devices : devices[i].mac = d
Of(d)      == devices[At(d)]

(* The main loop is not inside a recomputation. *)
Free == todo = {}

----------------------------------------------------------------------------
(* The registry *)

New(d) == [mac |-> d, identified |-> FALSE, added |-> FALSE, hw |-> NoHw, offer |-> NoOffer]

(* get_or_create_device_ *)
With(d) == IF d \in Macs(devices) THEN devices ELSE Append(devices, New(d))

(* The records that the blob has room for. *)
Room(n) == IF n < MaxKnown THEN n ELSE MaxKnown

(* save_known_devices_: the first MAX_KNOWN that are worth it, without what only an
   identification can tell. *)
Saved(regs) ==
  LET worth == Keep(regs, {i \in DOMAIN regs : regs[i].identified \/ regs[i].added})
  IN [i \in 1..Room(Len(worth)) |->
        [mac |-> worth[i].mac, id |-> worth[i].hw.id, kind |-> worth[i].hw.kind,
         version |-> worth[i].hw.version]]

(* load_known_devices_: the offers are computed from the records. *)
Loaded(list) ==
  [i \in DOMAIN known |->
     LET hw == [NoHw EXCEPT !.id = known[i].id, !.kind = known[i].kind,
                            !.version = known[i].version]
         identified == hw.id # UnknownHw \/ hw.kind # "UNKNOWN"
     IN [mac |-> known[i].mac, identified |-> identified, added |-> TRUE, hw |-> hw,
         offer |-> IF identified THEN Offer(hw, list) ELSE NoOffer]]

(* recompute_eligibility_ *)
Refreshed(r, list) == [r EXCEPT !.offer = IF r.identified THEN Offer(r.hw, list) ELSE NoOffer]

(* finish_identification_: the device is what it is; offer and record follow. *)
Identified(regs, d) ==
  [i \in DOMAIN regs |-> IF regs[i].mac # d THEN regs[i]
                         ELSE Refreshed([regs[i] EXCEPT !.hw = truth[d], !.identified = TRUE], Listed)]

(* parse_device *)
Advertise(d) ==
  /\ Free
  /\ devices' = With(d)
  /\ UNCHANGED <<truth, firmware, cache, known, work, changes>>

(* handle_post_ (add): the record is not saved. *)
Add(d) ==
  /\ devices' = [i \in DOMAIN With(d) |->
                   IF With(d)[i].mac = d THEN [With(d)[i] EXCEPT !.added = TRUE] ELSE With(d)[i]]
  /\ UNCHANGED <<truth, firmware, cache, known, work, changes>>

(* set_alias *)
SetAlias(d) ==
  /\ d \in Macs(devices)
  /\ devices' = [devices EXCEPT ![At(d)].added = TRUE]
  /\ known' = Saved(devices')
  /\ UNCHANGED <<truth, firmware, cache, work, changes>>

(* Mutant: The device of the session is forgotten too. *)
ForgetAny(d) ==
  /\ devices' = Keep(devices, {i \in DOMAIN devices : devices[i].mac # d})
  /\ todo' = todo \ {d}
  /\ UNCHANGED <<truth, firmware, recompute, spoiled, known, work, changes>>

(* forget_device: not the device of the session; the saved record stays. *)
Forget(d) ==
  /\ session # None => session.mac # d
  /\ devices' = Keep(devices, {i \in DOMAIN devices : devices[i].mac # d})
  /\ todo' = todo \ {d}
  /\ UNCHANGED <<truth, firmware, recompute, spoiled, known, work, changes>>

(* A session that only identifies. *)
Identify(d) ==
  /\ Free /\ session = None /\ d \in Macs(devices)
  /\ devices' = Identified(devices, d) /\ known' = Saved(devices')
  /\ UNCHANGED <<truth, firmware, cache, work, changes>>

----------------------------------------------------------------------------
(* The firmware list *)

(* handle_post_ (manifest): the provider's list, NVS, and last the request to the main
   loop. *)
PostManifest(m) ==
  /\ posting = FALSE /\ changes < MaxChanges
  /\ manifest' = m /\ posting' = TRUE /\ changes' = changes + 1
  /\ UNCHANGED <<truth, store, remote, upload, cache, devices, known, work>>

PostedManifest ==
  /\ posting /\ posting' = FALSE /\ recompute' = TRUE
  /\ UNCHANGED <<truth, manifest, store, remote, upload, todo, spoiled, devices, known,
                 work, changes>>

(* begin_write: where an image goes (FirmwareStore). *)
Places(name) ==
  LET same == {i \in DOMAIN store : store[i].name = name}
  IN IF same # {} THEN same
     ELSE IF Len(store) < Slots THEN {Len(store) + 1} ELSE DOMAIN store

Put(image, place) == IF place > Len(store) THEN Append(store, image)
                     ELSE [store EXCEPT ![place] = image]
Without(place)    == IF place > Len(store) THEN store ELSE RemoveAt(store, place)

(* handleBody, begin_write: an OTA refuses uploads.  The list still shows the image
   whose slot is erased. *)
BeginUpload(image, place) ==
  /\ upload = None /\ session = None /\ changes < MaxChanges
  /\ upload' = [image |-> image, place |-> place] /\ changes' = changes + 1
  /\ UNCHANGED <<truth, manifest, store, remote, posting, cache, devices, known, work>>

(* loop (upload): the image is listed, and the devices are looked at again. *)
UploadStored ==
  /\ Free /\ upload # None
  /\ store' = Put(upload.image, upload.place) /\ upload' = None /\ recompute' = TRUE
  /\ UNCHANGED <<truth, manifest, remote, posting, todo, spoiled, devices, known, work,
                 changes>>

(* The upload is rejected or breaks off: the image it overwrote is gone. *)
UploadRejected ==
  /\ upload # None
  /\ store' = Without(upload.place) /\ upload' = None
  /\ spoiled' = (spoiled \/ upload.place <= Len(store))
  /\ UNCHANGED <<truth, manifest, remote, posting, recompute, todo, devices, known, work,
                 changes>>

(* Mutant: The request is taken back when its work is done. *)
RecomputeEnds(d) == recompute' = FALSE

(* The request was taken back when the work began. *)
RecomputeGoesOn(d) == UNCHANGED recompute

(* loop (recompute): the request is taken, then every device is looked at. *)
Recompute ==
  /\ Free /\ recompute /\ recompute' = FALSE
  /\ todo' = Macs(devices) /\ spoiled' = FALSE
  /\ UNCHANGED <<truth, firmware, devices, known, work, changes>>

RecomputeDevice(d) ==
  /\ d \in todo /\ todo' = todo \ {d}
  /\ devices' = [devices EXCEPT ![At(d)] = Refreshed(@, Listed)]
  /\ RecomputeGoesOn(d)
  /\ UNCHANGED <<truth, firmware, spoiled, known, work, changes>>

(* An image of the online manifest that a device needs and that is not bundled. *)
Needed(e) ==
  /\ e.kind = "CUSTOM"
  /\ \E i \in DOMAIN devices : devices[i].identified /\ devices[i].hw.id \in e.hw
  /\ \A i \in DOMAIN Listed : IdOf(Listed[i]) = <<"bundled", e.name>> /\ Listed[i].size # NoBytes
                               => Listed[i].version < e.version

(* loop (check online): the first image that is needed is downloaded. *)
CheckOnline ==
  /\ Free /\ session = None /\ upload = None /\ Online # <<>> /\ changes < MaxChanges
  /\ remote' = Online /\ changes' = changes + 1
  /\ LET need  == {i \in DOMAIN Online : Needed(Online[i])}
         image == Online[Min(need)]
     IN IF need = {} THEN UNCHANGED store
        ELSE \E place \in Places(image.name) :
               store' \in {Put(image, place), Without(place), store}
  /\ devices' = [i \in DOMAIN devices |->
                   Refreshed(devices[i], Available(manifest, Program, store', remote'))]
  /\ spoiled' = FALSE
  /\ UNCHANGED <<truth, manifest, upload, posting, recompute, todo, known, work>>

----------------------------------------------------------------------------
(* What is flashed *)

Image(id) == WithId(Listed, id)

(* The bytes of an image are there and valid. *)
Readable(fw) ==
  /\ fw.size # NoBytes
  /\ upload # None /\ fw.source = "store" /\ upload.place <= Len(store) =>
       store[upload.place].name # fw.name

(* start_job_: the image is chosen by the offer if the job names none; a job whose
   device or image is gone ends here.  A signed image does not: the validation never
   answers "sign". *)
Begun(d, id) ==
  IF d \in Macs(devices) /\ Image(id) # <<>> /\ Readable(Image(id)[1])
  THEN [mac |-> d, fw |-> Image(id)[1], passed |-> FALSE]
  ELSE None

(* A FLASH job whose image the user chose: handle_post_ refuses it unless the cached
   identification and the list allow it. *)
Choose(d, id) ==
  /\ Free /\ session = None /\ d \in Macs(devices)
  /\ Image(id) # <<>> /\ Of(d).identified /\ Compatible(Of(d).hw, Image(id)[1])
  /\ session' = Begun(d, id)
  /\ UNCHANGED <<truth, firmware, cache, devices, known, queue, changes>>

(* XiaomiFirmwareUpdate::perform: Home Assistant asks for the update, or forces it. *)
Perform(d, force) ==
  /\ Free /\ session = None /\ d \in Macs(devices)
  /\ Of(d).offer.update \/ force
  /\ Of(d).offer.ok
  /\ session' = Begun(d, Of(d).offer.id)
  /\ UNCHANGED <<truth, firmware, cache, devices, known, queue, changes>>

(* loop (update all): the devices in range with a compatible update are queued. *)
UpdateAll(near) ==
  /\ Free
  /\ LET due == Keep(devices, {i \in DOMAIN devices : /\ devices[i].offer.update /\ devices[i].offer.ok
                                                     /\ devices[i].mac \in near})
     IN /\ due # <<>> /\ Len(queue) + Len(due) <= MaxQueue
        /\ queue' = queue \o [i \in DOMAIN due |-> due[i].mac]
  /\ UNCHANGED <<truth, firmware, cache, devices, known, session, changes>>

LatestOf(d) == IF d \in Macs(devices) THEN Of(d).offer.id ELSE <<>>

(* loop (next job): the queue names a device, and the offer of that moment the image. *)
StartQueued ==
  /\ Free /\ session = None /\ queue # <<>>
  /\ queue' = Tail(queue) /\ session' = Begun(Head(queue), LatestOf(Head(queue)))
  /\ UNCHANGED <<truth, firmware, cache, devices, known, changes>>

(* Mutant: The gate asks the identification of an earlier connection. *)
GateCached(d) == Of(d).hw

(* step_prepare_ota_: the gate asks the fresh identification. *)
GateHw(d) == truth[d]

(* Mutant: The identification is saved when the session ends. *)
GateUnsaved ==
  /\ Free /\ session # None /\ ~session.passed
  /\ devices' = Identified(devices, session.mac) /\ UNCHANGED known
  /\ session' = IF Compatible(GateHw(session.mac), session.fw)
                THEN [session EXCEPT !.passed = TRUE] ELSE None
  /\ UNCHANGED <<truth, firmware, cache, queue, changes>>

(* The session identifies its device and asks the gate. *)
Gate ==
  /\ Free /\ session # None /\ ~session.passed
  /\ devices' = Identified(devices, session.mac) /\ known' = Saved(devices')
  /\ session' = IF Compatible(GateHw(session.mac), session.fw)
                THEN [session EXCEPT !.passed = TRUE] ELSE None
  /\ UNCHANGED <<truth, firmware, cache, queue, changes>>

(* What a device is after an image was installed. *)
Running(hw, fw) ==
  IF fw.kind = "ORIGINAL" THEN [hw EXCEPT !.kind = "STOCK_XIAOMI", !.version = 0, !.i2c = "unknown"]
  ELSE [hw EXCEPT !.kind = "CUSTOM_PVVX", !.version = fw.version]

(* The OTA installs the image, and the verification identifies the device again. *)
Installed ==
  /\ Free /\ session # None /\ session.passed
  /\ truth' = [truth EXCEPT ![session.mac] = Running(@, session.fw)]
  /\ devices' = [i \in DOMAIN devices |->
                   IF devices[i].mac # session.mac THEN devices[i]
                   ELSE Refreshed([devices[i] EXCEPT !.hw = truth'[session.mac]], Listed)]
  /\ known' = Saved(devices') /\ session' = None
  /\ UNCHANGED <<firmware, cache, queue, changes>>

(* The session fails, before its image is installed or after it. *)
SessionFails ==
  /\ Free /\ session # None /\ session' = None
  /\ truth' \in {truth} \cup (IF session.passed
                              THEN {[truth EXCEPT ![session.mac] = Running(@, session.fw)]}
                              ELSE {})
  /\ known' = Saved(devices)
  /\ UNCHANGED <<firmware, cache, devices, queue, changes>>

(* The ESP32 restarts at any time: flash and NVS stay. *)
Restart ==
  /\ remote' = <<>> /\ upload' = None /\ posting' = FALSE
  /\ store' = IF upload = None THEN store ELSE Without(upload.place)
  /\ devices' = Loaded(Available(manifest, Program, store', <<>>))
  /\ recompute' = FALSE /\ todo' = {} /\ spoiled' = FALSE
  /\ queue' = <<>> /\ session' = None
  /\ UNCHANGED <<truth, manifest, known, changes>>

Init ==
  /\ truth \in Fleet
  /\ manifest = Bundled /\ store = <<>> /\ remote = <<>>
  /\ upload = None /\ posting = FALSE
  /\ recompute = FALSE /\ todo = {} /\ devices = <<>> /\ known = <<>>
  /\ queue = <<>> /\ session = None
  /\ spoiled = FALSE /\ changes = 0

Registry == \E d \in Device : Advertise(d) \/ Add(d) \/ SetAlias(d) \/ Forget(d) \/ Identify(d)
Provider == \/ \E m \in Manifest : PostManifest(m)
            \/ PostedManifest
            \/ \E i \in Upload : \E place \in Places(i.name) : BeginUpload(i, place)
            \/ UploadStored \/ UploadRejected
            \/ Recompute \/ (\E d \in Device : RecomputeDevice(d))
            \/ CheckOnline
Flashing == \/ \E d \in Device, i \in DOMAIN Listed : Choose(d, IdOf(Listed[i]))
            \/ \E d \in Device, force \in BOOLEAN : Perform(d, force)
            \/ \E near \in SUBSET Device : UpdateAll(near)
            \/ StartQueued \/ Gate \/ Installed \/ SessionFails

Next == Registry \/ Provider \/ Flashing \/ Restart

Spec == Init /\ [][Next]_vars

----------------------------------------------------------------------------
(* Type correctness. *)
TypeOK ==
  /\ posting \in BOOLEAN /\ recompute \in BOOLEAN /\ spoiled \in BOOLEAN
  /\ manifest \in Manifest /\ remote \in {<<>>, Online}
  /\ Len(store) <= Slots
  /\ Macs(devices) \subseteq Device /\ Cardinality(Macs(devices)) = Len(devices)
  /\ todo \subseteq Macs(devices)
  /\ Len(known) <= MaxKnown /\ Len(queue) <= MaxQueue
  /\ session # None => session.mac \in Macs(devices)

(* The cached offer of a device is what the rules say of its hardware and of the
   firmware list now, unless a recomputation is due or under way, or a failed upload
   took an image since (recompute_eligibility_ and its callers: two tasks change
   what it reads). *)
Current(i, list) ==
  devices[i].offer = IF devices[i].identified THEN Offer(devices[i].hw, list) ELSE NoOffer
OffersAreCurrent ==
  recompute \/ posting \/ spoiled
  \/ LET list == Listed IN
     \A i \in DOMAIN devices : devices[i].mac \in todo \/ Current(i, list)

(* get_latest_for_device finds the newest image that the rules allow, and one with
   its bytes at hand if there is one of that version, whatever the order of manifest,
   online manifest and store. *)
LatestIsNewest ==
  LET list == Listed IN
  \A d \in Device :
    LET best     == Latest(truth[d], list)
        eligible == {i \in DOMAIN list : Eligible(truth[d], list[i])}
    IN /\ best = <<>> <=> eligible = {}
       /\ \A i \in eligible :
            /\ list[i].version <= best[1].version
            /\ list[i].version = best[1].version /\ list[i].size # NoBytes
               => best[1].size # NoBytes

(* An image goes only to a device that may have it as the device is, not as a record,
   a restored record or a cached offer has it (step_prepare_ota_ and the session's
   own identification). *)
OtaFits == session # None /\ session.passed => Compatible(truth[session.mac], session.fw)

(* A saved record never lags the last identification of its device, through other
   devices' sessions, forgotten devices and restarts (save_known_devices_). *)
SavedIsCurrent ==
  \A k \in DOMAIN known, i \in DOMAIN devices :
    known[k].mac = devices[i].mac /\ devices[i].identified =>
      /\ known[k].id = devices[i].hw.id /\ known[k].kind = devices[i].hw.kind
      /\ known[k].version = devices[i].hw.version

(* An identified device would survive a restart, unless the blob is full
   (save_known_devices_, MAX_KNOWN). *)
UnsavedOnlyIfFull ==
  \A i \in DOMAIN devices :
    devices[i].identified /\ devices[i].mac \notin {known[k].mac : k \in DOMAIN known}
      => Len(known) = MaxKnown

SavedIsTrue == SavedIsCurrent /\ UnsavedOnlyIfFull
=============================================================================
