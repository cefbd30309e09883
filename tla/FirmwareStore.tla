---------------------------- MODULE FirmwareStore ----------------------------
(***************************************************************************)
(* FirmwareStore (firmware_store.cpp): firmware images in the slots of a   *)
(* raw flash partition, uploaded by the HTTP server's task (handleBody,    *)
(* handle_post_), validated and committed by the main loop, and read by an *)
(* OTA meanwhile.  The power may fail between any two flash operations.    *)
(***************************************************************************)
EXTENDS Integers, FiniteSets

LOCAL INSTANCE FiniteSetsExt

CONSTANTS
  Slots,       \* slots_: of 128 KiB each
  Name,        \* names of images
  None,
  MaxUploads   \* bound: uploads in a behaviour

Slot   == 0..(Slots - 1)
Upload == 1..MaxUploads   \* uploads in the order of their beginning

VARIABLES
  header,    \* flash: the StoreHeader at the start of a slot, if it holds one
  data,      \* flash: the upload whose part fills the slot, 0 if none, negative if not a
             \* valid Telink image
  index,     \* images_
  nextSeq,   \* next_seq_
  image,     \* the current upload: what the client sends
  writing,   \* writing_
  slot,      \* write_slot_
  pos,       \* write_pos_: slots filled
  http,      \* where the server's task is
  active,    \* upload_.active
  requested, \* upload_.finish_requested
  done,      \* upload_.done, with its verdict
  ota,       \* the image that a FLASH job has validated and reads
  early      \* history: the OTA began while an upload was written

flash  == <<header, data>>
store  == <<index, nextSeq, writing, slot, pos>>
upload == <<image, http, active, requested, done>>
vars   == <<header, data, index, nextSeq, image, writing, slot, pos, http, active,
            requested, done, ota, early>>

Image  == [id : 0..MaxUploads, name : Name, span : 1..(Slots + 1), good : BOOLEAN]
Content(i) == IF i.good THEN i.id ELSE -i.id
Header == [slot : Slot, id : Upload, name : Name, span : 1..Slots, seq : Nat]

Reading == [slot : Slot, span : 1..Slots, id : Upload]

ASSUME StoreAssumption ==
  /\ Slots \in Nat \ {0} /\ MaxUploads \in Nat
  /\ IsFiniteSet(Name) /\ None \notin Header \cup Reading

Part(s, span) == s..(s + span - 1)

----------------------------------------------------------------------------
(* rescan_: the headers whose image is whole and valid.  One that is inside a
   spanning image is skipped. *)
Valid(h, d) == {i \in {h[s] : s \in Slot} \ {None} : \A t \in Part(i.slot, i.span) : d[t] = i.id}
Scan(h, d)  == {i \in Valid(h, d) : \A j \in Valid(h, d) : i.slot \notin Part(j.slot, j.span) \ {j.slot}}

(* Mutant: The write counter is derived from the number of images. *)
SeqCounted(found) == Cardinality(found) + 1

(* rescan_ continues the write counter behind the newest image. *)
SeqAfter(found) == Max({0} \cup {i.seq : i \in found}) + 1

Rescan(h, d) == index' = Scan(h, d) /\ nextSeq' = SeqAfter(Scan(h, d))

(* find: the first image of that name. *)
Named(n) == {i \in index : i.name = n}
Find(n)  == CHOOSE i \in Named(n) : \A j \in Named(n) : i.slot <= j.slot

Used == UNION {Part(i.slot, i.span) : i \in index}

(* Mutant: A large image is put behind the others. *)
TargetLast(i) == IF i.span = 1 THEN 0 ELSE Slots - 1

(* begin_write: an image that spans slots goes to slot 0.  Any other one replaces
   the image of its name, takes a free slot, or takes the slot of the oldest. *)
Target(i) ==
  LET same == {j.slot : j \in {k \in Named(i.name) : k.span = 1}}
      free == Slot \ Used
      old  == CHOOSE j \in index : \A k \in index : j.seq <= k.seq
  IN  IF i.span > 1 THEN 0
      ELSE IF same # {} THEN Max(same)
      ELSE IF free # {} THEN Min(free)
      ELSE old.slot

----------------------------------------------------------------------------
Init ==
  /\ header = [s \in Slot |-> None] /\ data = [s \in Slot |-> 0]
  /\ index = {} /\ nextSeq = 1
  /\ image \in [id : {0}, name : Name, span : {1}, good : {FALSE}]
  /\ writing = FALSE /\ slot = 0 /\ pos = 0
  /\ http = "idle" /\ active = FALSE /\ requested = FALSE /\ done = "no"
  /\ ota = None /\ early = FALSE

(* The server's task *)

(* Mutant: Uploads are taken during an OTA. *)
BodyAlways(n, span, good) ==
  /\ http = "idle" /\ image.id < MaxUploads
  /\ image' = [id |-> image.id + 1, name |-> n, span |-> span, good |-> good]
  /\ requested' = FALSE /\ done' = "no"
  /\ active' = TRUE /\ http' = "checked"
  /\ UNCHANGED <<flash, store, ota, early>>

(* The first piece of a body: upload_ is reset, and an OTA refuses the upload. *)
Body(n, span, good) ==
  /\ http = "idle" /\ image.id < MaxUploads
  /\ image' = [id |-> image.id + 1, name |-> n, span |-> span, good |-> good]
  /\ requested' = FALSE /\ done' = "no"
  /\ active' = (ota = None) /\ http' = (IF ota = None THEN "checked" ELSE "idle")
  /\ UNCHANGED <<flash, store, ota, early>>

(* begin_write, after the session was looked at: the target is chosen. *)
BeginWrite ==
  /\ http = "checked"
  /\ IF image.span > Slots
     THEN http' = "idle" /\ active' = FALSE /\ UNCHANGED <<writing, slot, pos>>
     ELSE /\ http' = "erase" /\ slot' = Target(image) /\ pos' = 0
          /\ UNCHANGED <<active, writing>>
  /\ UNCHANGED <<flash, index, nextSeq, image, requested, done, ota, early>>

(* Mutant: The headers of the slots that are overrun stay. *)
EraseDataOnly ==
  /\ http = "erase"
  /\ header' = [header EXCEPT ![slot] = None]
  /\ data' = [data EXCEPT ![slot + pos] = 0]
  /\ IF pos + 1 = image.span THEN http' = "body" /\ writing' = TRUE /\ pos' = 0
                             ELSE pos' = pos + 1 /\ UNCHANGED <<http, writing>>
  /\ UNCHANGED <<index, nextSeq, image, slot, active, requested, done, ota, early>>

(* begin_write: The slots are erased one after another, each from its header. *)
Erase ==
  /\ http = "erase"
  /\ header' = [header EXCEPT ![slot + pos] = None]
  /\ data' = [data EXCEPT ![slot + pos] = 0]
  /\ IF pos + 1 = image.span THEN http' = "body" /\ writing' = TRUE /\ pos' = 0
                             ELSE pos' = pos + 1 /\ UNCHANGED <<http, writing>>
  /\ UNCHANGED <<index, nextSeq, image, slot, active, requested, done, ota, early>>

(* write_chunk: one more slot is full. *)
Chunk ==
  /\ http = "body" /\ pos < image.span
  /\ data' = [data EXCEPT ![slot + pos] = Content(image)] /\ pos' = pos + 1
  /\ UNCHANGED <<header, index, nextSeq, image, writing, slot, http, active, requested,
                 done, ota, early>>

(* The flash refuses a piece: abort_write. *)
ChunkFails ==
  /\ http = "body" /\ pos < image.span
  /\ writing' = FALSE /\ http' = "idle" /\ active' = FALSE
  /\ Rescan(header, data)
  /\ UNCHANGED <<flash, image, slot, pos, requested, done, ota, early>>

(* The client goes away in the middle of the body: nothing is called. *)
Break ==
  /\ http = "body" /\ pos < image.span
  /\ http' = "idle"
  /\ UNCHANGED <<flash, store, image, active, requested, done, ota, early>>

(* handle_post_, after the whole body or for a request without one: the main loop
   shall finish the upload. *)
Post ==
  /\ (http = "body" /\ pos = image.span) \/ (http = "idle" /\ active)
  /\ http' = "wait" /\ requested' = TRUE /\ done' = "no"
  /\ UNCHANGED <<flash, store, image, active, ota, early>>

(* handle_post_ has its answer, or gives up after 20 s. *)
Answer ==
  /\ http = "wait" /\ done # "no"
  /\ http' = "idle" /\ active' = FALSE
  /\ UNCHANGED <<flash, store, image, requested, done, ota, early>>

GiveUp ==
  /\ http = "wait" /\ done = "no"
  /\ http' = "idle" /\ active' = FALSE
  /\ UNCHANGED <<flash, store, image, requested, done, ota, early>>

----------------------------------------------------------------------------
(* The main loop *)

Committed == [slot |-> slot, id |-> image.id, name |-> image.name, span |-> image.span,
              seq |-> nextSeq]
Commit    == [header EXCEPT ![slot] = Committed]

(* finish_write: a short upload and a flash error leave the index alone, an image
   that is not valid does not; the header comes last. *)
Finish ==
  /\ requested
  /\ requested' = FALSE /\ writing' = FALSE
  /\ \/ done' = "failed" /\ UNCHANGED <<header, index, nextSeq>>
     \/ /\ writing /\ pos = image.span /\ ~image.good
        /\ done' = "failed" /\ Rescan(header, data) /\ UNCHANGED header
     \/ /\ writing /\ pos = image.span /\ image.good
        /\ done' = "ok" /\ header' = Commit /\ Rescan(Commit, data)
  /\ UNCHANGED <<data, image, slot, pos, http, active, ota, early>>

(* start_job_ of a FLASH job: open_image finds the image in the index, and what its
   slots hold must be a valid image of that size. *)
StartOta(n) ==
  /\ ota = None /\ Named(n) # {}
  /\ LET i == Find(n)
         d == data[i.slot]
     IN  /\ d > 0
         /\ \A t \in Part(i.slot, i.span) : data[t] = d
         /\ ota' = [slot |-> i.slot, span |-> i.span, id |-> d]
         /\ early' = (http \in {"checked", "erase", "body"})
  /\ UNCHANGED <<flash, store, upload>>

EndOta ==
  /\ ota # None /\ ota' = None /\ early' = FALSE
  /\ UNCHANGED <<flash, store, upload>>

(* The power fails; init scans the partition. *)
Restart ==
  /\ Rescan(header, data)
  /\ writing' = FALSE /\ slot' = 0 /\ pos' = 0
  /\ http' = "idle" /\ active' = FALSE /\ requested' = FALSE /\ done' = "no"
  /\ ota' = None /\ early' = FALSE
  /\ UNCHANGED <<flash, image>>

Server == \/ \E n \in Name, span \in 1..(Slots + 1), good \in BOOLEAN : Body(n, span, good)
          \/ BeginWrite \/ Erase \/ Chunk \/ ChunkFails \/ Break \/ Post \/ Answer \/ GiveUp
Main   == Finish \/ EndOta \/ \E n \in Name : StartOta(n)
Next   == Server \/ Main \/ Restart
Spec   == Init /\ [][Next]_vars

----------------------------------------------------------------------------
(* Every variable has its type; a write never leaves the partition. *)
TypeOK ==
  /\ header \in [Slot -> Header \cup {None}] /\ data \in [Slot -> (-MaxUploads)..MaxUploads]
  /\ index \in SUBSET Header /\ nextSeq \in Nat \ {0}
  /\ image \in Image /\ writing \in BOOLEAN
  /\ slot \in Slot /\ pos \in 0..Slots
  /\ http \in {"erase", "body"} => slot + image.span <= Slots
  /\ http \in {"idle", "checked", "erase", "body", "wait"}
  /\ active \in BOOLEAN /\ requested \in BOOLEAN /\ done \in {"no", "ok", "failed"}
  /\ ota \in Reading \cup {None} /\ early \in BOOLEAN

(* The header is the commit record of an image (begin_write erases it first,
   finish_write writes it last): wherever the power fails, a header in flash stands
   for an image whose every slot is whole. *)
HeaderMeansWhole ==
  \A s \in Slot : header[s] # None =>
    header[s].slot = s /\ \A t \in Part(s, header[s].span) : data[t] = header[s].id

(* An image in flash is always in the index, which may be stale in the other
   direction only: begin_write, which trusts the index, never takes the slots of an
   image for free ones. *)
IndexCovers == Scan(header, data) \subseteq index

FlashIsConsistent == HeaderMeansWhole /\ IndexCovers

(* The write counters order the images by age, through restarts and rescans that
   compute the counter anew: the image that begin_write evicts is the oldest. *)
SeqIsAge == \A i, j \in index : i.id < j.id => i.seq < j.seq

(* An OTA reads the image that its job has validated, to the end.  An upload that
   came before it is the exception: handleBody looks at the session once. *)
OtaImageStays ==
  ota # None => early \/ \A t \in Part(ota.slot, ota.span) : data[t] = ota.id
=============================================================================
