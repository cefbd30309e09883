------------------------- MODULE FirmwareStoreProofs -------------------------
(***************************************************************************)
(* Proofs about FirmwareStore for any number of slots, names and uploads.  *)
(***************************************************************************)
EXTENDS FirmwareStore, WellFoundedInduction, TLAPS

LOCAL INSTANCE FiniteSetsExt

----------------------------------------------------------------------------
(* The inductive invariant *)

(* The headers in flash. *)
InFlash(h) == {h[s] : s \in Slot} \ {None}

(* Images that do not overlap. *)
Apart(S) == \A i, j \in S : \/ i = j
                            \/ i.slot + i.span <= j.slot
                            \/ j.slot + j.span <= i.slot

(* An upload has a target that finish_write may still commit. *)
Writes == \/ http = "body"
          \/ http \in {"idle", "wait"} /\ writing /\ (active \/ requested)

Types ==
  /\ TypeOK
  /\ active \/ requested \/ http # "idle" => image.id # 0
  /\ requested => http \in {"idle", "wait"}

(* The index holds every header; its images lie apart within the partition, and are
   older than what is counted or uploaded next. *)
Indexed ==
  /\ HeaderMeansWhole /\ InFlash(header) \subseteq index
  /\ Apart(index)
  /\ \A i \in index : i.slot + i.span <= Slots /\ i.seq < nextSeq /\ i.id <= image.id
  /\ SeqIsAge

(* No image reaches into the target from below, and what was erased or written has no
   header; what was written is the upload. *)
TargetIsClear ==
  /\ http \in {"checked", "erase"} \/ Writes => \A i \in index : i.id < image.id
  /\ http = "erase" \/ Writes =>
       /\ slot + image.span <= Slots /\ pos <= image.span
       /\ \A s \in Slot : header[s] # None /\ s < slot => s + header[s].span <= slot
  /\ http = "erase" =>
       pos < image.span /\ \A s \in Slot : slot <= s /\ s < slot + pos => header[s] = None
  /\ Writes =>
       /\ \A s \in Slot : slot <= s /\ s < slot + image.span => header[s] = None
       /\ \A s \in Slot : slot <= s /\ s < slot + pos => data[s] = Content(image)

(* While an OTA reads, nothing is erased, unless an upload had begun before it. *)
ReadIsKept ==
  ota # None /\ ~early =>
    /\ http \in {"idle", "wait"}
    /\ \A t \in Part(ota.slot, ota.span) : data[t] = ota.id

IInv == Types /\ Indexed /\ TargetIsClear /\ ReadIsKept

----------------------------------------------------------------------------
(* Least and greatest *)

(* A set of naturals that is not empty has a least member. *)
LEMMA LeastNatural ==
  ASSUME NEW T, T \subseteq Nat, T # {}
  PROVE  \E m \in T : \A k \in T : m <= k
<1>. DEFINE R == OpToRel(<, Nat)
<1>1. IsWellFoundedOn(R, Nat)
  BY NatLessThanWellFounded
<1>. HIDE DEF R
<1>2. PICK m \in T : \A k \in T : <<k, m>> \notin R
  BY <1>1, WFMin
<1>3. \A k \in T : <<k, m>> \notin R => m <= k
  BY DEF R, OpToRel
<1>. QED  BY <1>2, <1>3

(* Min is that member. *)
LEMMA MinIsLeast ==
  ASSUME NEW T, T \subseteq Nat, T # {}
  PROVE  Min(T) \in T /\ \A k \in T : Min(T) <= k
BY LeastNatural DEF Min

(* A bounded one has a greatest member. *)
LEMMA MaxIsGreatest ==
  ASSUME NEW T, T \subseteq Nat, T # {}, NEW bound \in Nat, \A k \in T : k <= bound
  PROVE  Max(T) \in T /\ \A k \in T : k <= Max(T)
<1>. DEFINE bounds == {b \in Nat : \A k \in T : k <= b}
<1>1. bounds \subseteq Nat /\ bound \in bounds
  OBVIOUS
<1>2. PICK m \in bounds : \A b \in bounds : m <= b
  BY <1>1, LeastNatural
<1>3. m \in T
  <2>1. SUFFICES ASSUME m \notin T PROVE FALSE
    OBVIOUS
  <2>2. \A k \in T : k <= m - 1
    BY <1>2, <2>1
  <2>3. m - 1 \in Nat
    <3>1. PICK k \in T : TRUE
      OBVIOUS
    <3>. QED  BY <1>2, <2>2, <3>1
  <2>4. m - 1 \in bounds
    BY <2>2, <2>3
  <2>. QED  BY <1>2, <2>4
<1>4. \A k \in T : m >= k
  BY <1>2
<1>. HIDE DEF bounds
<1>. QED  BY <1>3, <1>4 DEF Max

----------------------------------------------------------------------------
(* rescan_ and begin_write *)

(* Where the headers in flash stand for whole images that lie apart, rescan_ finds
   each of them. *)
LEMMA ScanFindsAll ==
  ASSUME NEW h \in [Slot -> Header \cup {None}], NEW d,
         \A s \in Slot : h[s] # None =>
           h[s].slot = s /\ \A t \in Part(s, h[s].span) : d[t] = h[s].id,
         Apart(InFlash(h))
  PROVE  Scan(h, d) = InFlash(h)
<1>1. \A i \in InFlash(h) : i \in Header /\ \A t \in Part(i.slot, i.span) : d[t] = i.id
  BY DEF InFlash
<1>2. Valid(h, d) = InFlash(h)
  BY <1>1 DEF Valid, InFlash
<1>3. \A i, j \in InFlash(h) : i.slot \notin Part(j.slot, j.span) \ {j.slot}
  <2>1. TAKE i, j \in InFlash(h)
  <2>2. /\ i.slot \in Int /\ j.slot \in Int /\ i.span \in Nat \ {0} /\ j.span \in Nat \ {0}
    BY <1>1, StoreAssumption DEF Header, Slot
  <2>3. \/ i = j \/ i.slot + i.span <= j.slot \/ j.slot + j.span <= i.slot
    BY DEF Apart
  <2>. QED  BY <2>2, <2>3 DEF Part
<1>. QED  BY <1>2, <1>3 DEF Scan

(* ... and counts on behind the newest. *)
LEMMA RescanSound ==
  ASSUME NEW h \in [Slot -> Header \cup {None}], NEW d,
         \A s \in Slot : h[s] # None =>
           h[s].slot = s /\ \A t \in Part(s, h[s].span) : d[t] = h[s].id,
         Apart(InFlash(h)),
         NEW bound \in Nat, \A i \in InFlash(h) : i.seq <= bound,
         Rescan(h, d)
  PROVE  /\ index' = InFlash(h) /\ index' \subseteq Header
         /\ nextSeq' \in Nat \ {0} /\ \A i \in index' : i.seq < nextSeq'
<1>1. index' = InFlash(h) /\ nextSeq' = SeqAfter(InFlash(h))
  BY ScanFindsAll DEF Rescan
<1>2. InFlash(h) \subseteq Header
  BY DEF InFlash
<1>. DEFINE seqs == {0} \cup {i.seq : i \in InFlash(h)}
<1>3. seqs \subseteq Nat /\ seqs # {} /\ \A k \in seqs : k <= bound
  BY <1>2 DEF Header
<1>4. Max(seqs) \in seqs /\ \A k \in seqs : k <= Max(seqs)
  BY <1>3, MaxIsGreatest
<1>5. nextSeq' = Max(seqs) + 1
  BY <1>1 DEF SeqAfter
<1>6. \A i \in InFlash(h) : i.seq \in seqs
  OBVIOUS
<1>. HIDE DEF seqs
<1>7. nextSeq' \in Nat \ {0} /\ \A k \in seqs : k < nextSeq'
  <2>. DEFINE m == Max(seqs)
  <2>1. m \in Nat /\ nextSeq' = m + 1 /\ \A k \in seqs : k \in Nat /\ k <= m
    BY <1>3, <1>4, <1>5
  <2>. HIDE DEF m
  <2>. QED  BY <2>1
<1>. QED  BY <1>1, <1>2, <1>6, <1>7

(* The target of begin_write holds the image, and no image in flash reaches into it
   from below. *)
LEMMA TargetFits ==
  ASSUME Types, Indexed, image.span <= Slots
  PROVE  /\ Target(image) \in Slot /\ Target(image) + image.span <= Slots
         /\ \A s \in Slot : header[s] # None /\ s < Target(image) =>
              s + header[s].span <= Target(image)
<1>0. /\ Slots \in Nat \ {0} /\ image.span \in 1..(Slots + 1) /\ Slot = 0..(Slots - 1)
      /\ index \subseteq Header
      /\ \A i \in index : /\ i.slot \in Slot /\ i.span \in 1..Slots /\ i.seq \in Nat
                          /\ i.slot + i.span <= Slots
  BY StoreAssumption DEF Types, TypeOK, Image, Slot, Header, Indexed
<1>1. \A s \in Slot : header[s] # None =>
        header[s] \in index /\ header[s].slot = s /\ header[s].span \in 1..Slots
  BY <1>0 DEF Indexed, HeaderMeansWhole, InFlash
<1>2. ASSUME NEW j \in index, image.span = 1, Target(image) = j.slot
      PROVE  /\ Target(image) \in Slot /\ Target(image) + image.span <= Slots
             /\ \A s \in Slot : header[s] # None /\ s < Target(image) =>
                  s + header[s].span <= Target(image)
  <2>1. \A s \in Slot : header[s] # None /\ s < j.slot => s + header[s].span <= j.slot
    <3>1. SUFFICES ASSUME NEW s \in Slot, header[s] # None, s < j.slot
                   PROVE  s + header[s].span <= j.slot
      OBVIOUS
    <3>2. header[s] \in index /\ header[s].slot = s
      BY <1>1, <3>1
    <3>3. \/ header[s] = j \/ s + header[s].span <= j.slot
          \/ j.slot + j.span <= s
      BY <3>2 DEF Indexed, Apart
    <3>. QED  BY <1>0, <3>1, <3>2, <3>3
  <2>. QED  BY <1>0, <1>2, <2>1
<1>. DEFINE same == {j.slot : j \in {k \in Named(image.name) : k.span = 1}}
            free == Slot \ Used
            old  == CHOOSE j \in index : \A k \in index : j.seq <= k.seq
<1>3. CASE image.span > 1
  <2>1. Target(image) = 0
    BY <1>3 DEF Target
  <2>. QED  BY <1>0, <2>1
<1>4. CASE image.span = 1 /\ same # {}
  <2>1. Target(image) = Max(same)
    BY <1>4 DEF Target
  <2>2. same \subseteq Nat /\ \A k \in same : k <= Slots
    BY <1>0 DEF Named
  <2>3. Max(same) \in same
    BY <1>0, <1>4, <2>2, MaxIsGreatest
  <2>4. PICK j \in index : Target(image) = j.slot
    BY <2>1, <2>3 DEF Named
  <2>. QED  BY <1>2, <1>4, <2>4
<1>5. CASE image.span = 1 /\ same = {} /\ free # {}
  <2>1. Target(image) = Min(free)
    BY <1>5 DEF Target
  <2>2. Min(free) \in free
    <3>1. free \subseteq Nat /\ free # {}
      BY <1>0, <1>5
    <3>. HIDE DEF free
    <3>. QED  BY <3>1, MinIsLeast
  <2>3. \A i \in index : Min(free) \notin Part(i.slot, i.span)
    BY <2>2 DEF Used
  <2>4. Min(free) \in Slot
    BY <2>2
  <2>. HIDE DEF free
  <2>5. \A s \in Slot : header[s] # None /\ s < Min(free) => s + header[s].span <= Min(free)
    <3>. DEFINE m == Min(free)
    <3>. SUFFICES ASSUME NEW s \in Slot, header[s] # None, s < m
                  PROVE  s + header[s].span <= m
      OBVIOUS
    <3>1. m \notin Part(s, header[s].span) /\ header[s].span \in Nat
      BY <1>0, <1>1, <2>3
    <3>2. m \in Nat /\ s \in Nat
      BY <1>0, <2>4
    <3>. HIDE DEF m
    <3>. QED  BY <3>1, <3>2 DEF Part
  <2>. QED  BY <1>0, <1>5, <2>1, <2>4, <2>5
<1>6. CASE image.span = 1 /\ same = {} /\ free = {}
  <2>1. Target(image) = old.slot
    <3>1. ~(image.span > 1)
      BY <1>6
    <3>. QED  BY <1>6, <3>1, Zenon DEF Target
  <2>2. index # {}
    <3>1. 0 \in Slot
      BY <1>0
    <3>2. 0 \in Used
      BY <1>6, <3>1
    <3>. QED  BY <3>2 DEF Used
  <2>3. \E j \in index : \A k \in index : j.seq <= k.seq
    <3>. DEFINE seqs == {i.seq : i \in index}
    <3>1. seqs \subseteq Nat /\ seqs # {}
      BY <1>0, <2>2
    <3>2. PICK m \in seqs : \A k \in seqs : m <= k
      BY <3>1, LeastNatural
    <3>. QED  BY <3>2
  <2>4. old \in index
    BY <2>3
  <2>. QED  BY <1>2, <1>6, <2>1, <2>4
<1>. QED  BY <1>0, <1>3, <1>4, <1>5, <1>6

----------------------------------------------------------------------------
(* The inductive invariant is one *)

(* It holds of an empty partition. *)
LEMMA InitIInv == Init => IInv
<1>. SUFFICES ASSUME Init PROVE IInv
  OBVIOUS
<1>1. Types
  <2>1. Slots \in Nat \ {0} /\ MaxUploads \in Nat
    BY StoreAssumption
  <2>2. image \in Image /\ image.id = 0 /\ image.span = 1
    <3>1. image \in [id : {0}, name : Name, span : {1}, good : {FALSE}]
      BY DEF Init
    <3>2. {0} \subseteq 0..MaxUploads /\ {1} \subseteq 1..(Slots + 1)
      BY <2>1
    <3>. QED  BY <3>1, <3>2 DEF Image
  <2>3. /\ header \in [Slot -> Header \cup {None}] /\ data \in [Slot -> (-MaxUploads)..MaxUploads]
        /\ slot \in Slot /\ pos \in 0..Slots
    BY <2>1 DEF Init, Slot
  <2>4. TypeOK
    <3>1. /\ nextSeq \in Nat \ {0} /\ index \in SUBSET Header /\ writing \in BOOLEAN
          /\ http = "idle" /\ active = FALSE /\ requested = FALSE /\ done = "no"
          /\ ota = None /\ early = FALSE
      <4>1. nextSeq = 1 /\ index = {} /\ writing = FALSE
        BY DEF Init
      <4>2. http = "idle" /\ active = FALSE /\ requested = FALSE /\ done = "no"
        BY DEF Init
      <4>3. ota = None /\ early = FALSE
        BY DEF Init
      <4>4. 1 \in Nat \ {0} /\ {} \in SUBSET Header /\ FALSE \in BOOLEAN
        OBVIOUS
      <4>. QED  BY <4>1, <4>2, <4>3, <4>4, Zenon
    <3>. QED  BY <2>2, <2>3, <3>1 DEF TypeOK
  <2>. QED  BY <2>4 DEF Init, Types
<1>2. Indexed
  BY DEF Init, Indexed, HeaderMeansWhole, InFlash, Apart, SeqIsAge
<1>3. TargetIsClear /\ ReadIsKept
  BY DEF Init, TargetIsClear, Writes, ReadIsKept
<1>. QED  BY <1>1, <1>2, <1>3 DEF IInv

(* The ranges of the numbers. *)
LEMMA Numbers ==
  ASSUME Types
  PROVE  /\ Slots \in Nat \ {0} /\ MaxUploads \in Nat
         /\ Slot = 0..(Slots - 1) /\ Slot \subseteq Nat
         /\ slot \in Slot /\ slot \in Nat /\ pos \in 0..Slots /\ pos \in Nat
         /\ image.span \in 1..(Slots + 1) /\ image.span \in Nat /\ image.id \in Nat
         /\ nextSeq \in Nat
<1>1. Slots \in Nat \ {0} /\ MaxUploads \in Nat
  BY StoreAssumption
<1>. QED  BY <1>1 DEF Types, TypeOK, Image, Slot

(* What the first two parts say of a header. *)
LEMMA Facts ==
  ASSUME Types, Indexed, NEW s \in Slot, header[s] # None
  PROVE  /\ header[s] \in index /\ header[s] \in Header
         /\ header[s].slot = s /\ header[s].span \in 1..Slots
         /\ header[s].seq \in Nat /\ header[s].id \in Nat
         /\ header[s].seq < nextSeq /\ header[s].id <= image.id
         /\ s + header[s].span <= Slots
         /\ \A t \in Part(s, header[s].span) : data[t] = header[s].id
<1>1. header[s] \in index /\ header[s].slot = s
  BY DEF Indexed, InFlash, HeaderMeansWhole
<1>2. header[s] \in Header
  BY <1>1 DEF Types, TypeOK
<1>3. \A t \in Part(s, header[s].span) : data[t] = header[s].id
  BY DEF Indexed, HeaderMeansWhole
<1>4. header[s].span \in 1..Slots /\ header[s].seq \in Nat /\ header[s].id \in Nat
  BY <1>2 DEF Header, Upload
<1>. QED  BY <1>1, <1>2, <1>3, <1>4 DEF Indexed

(* Images in flash lie apart: they are in the index. *)
LEMMA FlashIsApart == Indexed => Apart(InFlash(header))
BY DEF Indexed, Apart

(* The index stays sound while it and the flash stay as they are. *)
LEMMA IndexedKept ==
  ASSUME Types, Indexed, UNCHANGED <<flash, index, nextSeq>>,
         image'.id \in Nat, image'.id >= image.id
  PROVE  Indexed'
<1>1. HeaderMeansWhole' /\ InFlash(header') \subseteq index'
  BY DEF Indexed, HeaderMeansWhole, InFlash, flash
<1>2. Apart(index') /\ SeqIsAge'
  BY DEF Indexed, Apart, SeqIsAge
<1>3. \A i \in index' : i.slot + i.span <= Slots /\ i.seq < nextSeq' /\ i.id <= image'.id
  <2>1. SUFFICES ASSUME NEW i \in index
                 PROVE  i.slot + i.span <= Slots /\ i.seq < nextSeq /\ i.id <= image'.id
    OBVIOUS
  <2>2. i.id \in Nat
    BY DEF Types, TypeOK, Header, Upload
  <2>3. i.slot + i.span <= Slots /\ i.seq < nextSeq /\ i.id <= image.id
    BY DEF Indexed
  <2>. QED  BY <2>2, <2>3, Numbers
<1>. QED  BY <1>1, <1>2, <1>3 DEF Indexed

(* A rescan of the flash as it is forgets at most what the flash does not hold. *)
LEMMA RescanKeeps ==
  ASSUME Types, Indexed, Rescan(header, data), UNCHANGED <<flash, image>>
  PROVE  Indexed' /\ index' \subseteq Header /\ nextSeq' \in Nat \ {0} /\ index' \subseteq index
<1>1. header \in [Slot -> Header \cup {None}]
  BY DEF Types, TypeOK
<1>2. \A s \in Slot : header[s] # None =>
        header[s].slot = s /\ \A t \in Part(s, header[s].span) : data[t] = header[s].id
  BY DEF Indexed, HeaderMeansWhole
<1>3. nextSeq \in Nat /\ \A i \in InFlash(header) : i.seq <= nextSeq
  BY Numbers, Facts DEF InFlash
<1>4. /\ index' = InFlash(header) /\ index' \subseteq Header
      /\ nextSeq' \in Nat \ {0} /\ \A i \in index' : i.seq < nextSeq'
  BY <1>1, <1>2, <1>3, RescanSound, FlashIsApart
<1>5. index' \subseteq index
  BY <1>4 DEF Indexed
<1>6. HeaderMeansWhole' /\ InFlash(header') \subseteq index'
  BY <1>4 DEF Indexed, HeaderMeansWhole, InFlash, flash
<1>7. Apart(index') /\ SeqIsAge'
  BY <1>5 DEF Indexed, Apart, SeqIsAge
<1>8. \A i \in index' : i.slot + i.span <= Slots /\ i.seq < nextSeq' /\ i.id <= image'.id
  BY <1>4, <1>5 DEF Indexed
<1>. QED  BY <1>4, <1>5, <1>6, <1>7, <1>8 DEF Indexed

(* The first piece of a body. *)
LEMMA BodyKeeps ==
  ASSUME IInv, NEW n \in Name, NEW span \in 1..(Slots + 1), NEW good \in BOOLEAN,
         Body(n, span, good)
  PROVE  IInv'
<1>. USE DEF IInv
<1>0. /\ http = "idle" /\ image.id \in Nat /\ image.id < MaxUploads /\ MaxUploads \in Nat
      /\ image' = [id |-> image.id + 1, name |-> n, span |-> span, good |-> good]
      /\ requested' = FALSE /\ done' = "no"
      /\ active' = (ota = None) /\ http' = (IF ota = None THEN "checked" ELSE "idle")
      /\ UNCHANGED <<flash, store, ota, early>>
  BY Numbers DEF Body
<1>1. Types'
  <2>1. image' \in Image /\ image'.id # 0
    BY <1>0 DEF Image
  <2>2. TypeOK'
    BY <1>0, <2>1 DEF Types, TypeOK, flash, store
  <2>. QED  BY <1>0, <2>1, <2>2 DEF Types
<1>2. Indexed'
  BY <1>0, IndexedKept DEF store
<1>3. TargetIsClear'
  <2>1. \A i \in index' : i.id < image'.id
    BY <1>0 DEF Indexed, Types, TypeOK, Header, Upload, store
  <2>. QED  BY <1>0, <2>1 DEF TargetIsClear, Writes
<1>4. ReadIsKept'
  BY <1>0 DEF ReadIsKept, flash
<1>. QED  BY <1>1, <1>2, <1>3, <1>4

(* begin_write chooses a target. *)
LEMMA BeginWriteKeeps == ASSUME IInv, BeginWrite PROVE IInv'
<1>. USE DEF IInv
<1>0. /\ http = "checked" /\ requested = FALSE /\ image.id # 0
      /\ UNCHANGED <<flash, index, nextSeq, image, requested, done, ota, early, writing>>
  BY DEF BeginWrite, Types
<1>1. Indexed'
  BY <1>0, IndexedKept, Numbers
<1>2. ReadIsKept'
  BY <1>0 DEF ReadIsKept, flash
<1>3. CASE image.span > Slots
  <2>1. http' = "idle" /\ active' = FALSE /\ UNCHANGED <<slot, pos>>
    BY <1>3 DEF BeginWrite
  <2>2. Types'
    BY <1>0, <2>1 DEF Types, TypeOK, flash
  <2>3. TargetIsClear'
    BY <1>0, <2>1 DEF TargetIsClear, Writes
  <2>. QED  BY <1>1, <1>2, <2>2, <2>3
<1>4. CASE ~(image.span > Slots)
  <2>1. http' = "erase" /\ slot' = Target(image) /\ pos' = 0 /\ active' = active
    BY <1>4 DEF BeginWrite
  <2>2. /\ slot' \in Slot /\ slot' + image.span <= Slots
        /\ \A s \in Slot : header[s] # None /\ s < slot' => s + header[s].span <= slot'
    BY <1>4, <2>1, TargetFits, Numbers
  <2>3. Types'
    BY <1>0, <2>1, <2>2, Numbers, SMTT(20) DEF Types, TypeOK, flash
  <2>4. TargetIsClear'
    BY <1>0, <2>1, <2>2, Numbers DEF TargetIsClear, Writes, flash
  <2>. QED  BY <1>1, <1>2, <2>3, <2>4
<1>. QED  BY <1>3, <1>4

(* One more slot of the target is erased. *)
LEMMA EraseKeeps == ASSUME IInv, Erase PROVE IInv'
<1>. USE DEF IInv
<1>. DEFINE e == slot + pos
<1>0. /\ http = "erase" /\ requested = FALSE /\ image.id # 0
      /\ header' = [header EXCEPT ![e] = None] /\ data' = [data EXCEPT ![e] = 0]
      /\ UNCHANGED <<index, nextSeq, image, slot, active, requested, done, ota, early>>
  BY DEF Erase, Types
<1>1. /\ \/ pos + 1 = image.span /\ http' = "body" /\ writing' = TRUE /\ pos' = 0
         \/ pos + 1 # image.span /\ http' = "erase" /\ writing' = writing /\ pos' = pos + 1
  BY DEF Erase
<1>2. /\ slot + image.span <= Slots /\ pos < image.span /\ e \in Slot
      /\ \A s \in Slot : header[s] # None /\ s < slot => s + header[s].span <= slot
      /\ \A s \in Slot : slot <= s /\ s < e => header[s] = None
      /\ \A i \in index : i.id < image.id
  BY <1>0, Numbers DEF TargetIsClear
<1>3. /\ header \in [Slot -> Header \cup {None}] /\ data \in [Slot -> (-MaxUploads)..MaxUploads]
      /\ \A s \in Slot : header'[s] = IF s = e THEN None ELSE header[s]
      /\ \A s \in Slot : data'[s] = IF s = e THEN 0 ELSE data[s]
      /\ e = slot + pos
  BY <1>0 DEF Types, TypeOK
<1>. HIDE DEF e
<1>4. Types'
  <2>1. header' \in [Slot -> Header \cup {None}] /\ data' \in [Slot -> (-MaxUploads)..MaxUploads]
    <3>1. 0 \in (-MaxUploads)..MaxUploads
      BY Numbers
    <3>. QED  BY <1>0, <1>3, <3>1
  <2>2. pos' \in 0..Slots
    BY <1>1, <1>2, Numbers, SMTT(20)
  <2>3. TypeOK'
    BY <1>0, <1>1, <1>2, <2>1, <2>2 DEF Types, TypeOK
  <2>. QED  BY <1>0, <1>1, <2>3 DEF Types
<1>5. HeaderMeansWhole'
  <2>1. SUFFICES ASSUME NEW s \in Slot, header'[s] # None
                 PROVE  /\ header'[s].slot = s
                        /\ \A t \in Part(s, header'[s].span) : data'[t] = header'[s].id
    BY DEF HeaderMeansWhole
  <2>2. s # e /\ header'[s] = header[s] /\ header[s] # None
    BY <1>3, <2>1
  <2>3. \A t \in Part(s, header[s].span) : t \in Slot /\ t # e
    <3>. TAKE t \in Part(s, header[s].span)
    <3>1. s \in Nat /\ header[s].span \in Nat /\ s + header[s].span <= Slots
      BY <2>2, Facts, Numbers
    <3>2. t \in Nat /\ s <= t /\ t < s + header[s].span
      BY <3>1 DEF Part
    <3>3. t \in Slot
      BY <3>1, <3>2, Numbers
    <3>4. s < slot => s + header[s].span <= slot
      BY <1>2, <2>2
    <3>5. ~(slot <= s /\ s < e)
      BY <1>2, <2>2
    <3>6. slot \in Nat /\ pos \in Nat /\ e = slot + pos /\ s # e
      BY <1>3, <2>2, Numbers
    <3>7. t # e
      BY <3>1, <3>2, <3>4, <3>5, <3>6
    <3>. QED  BY <3>3, <3>7
  <2>. QED  BY <1>3, <2>2, <2>3, Facts
<1>6. Indexed'
  <2>1. InFlash(header') \subseteq index'
    BY <1>0, <1>3 DEF InFlash, Indexed
  <2>2. Apart(index') /\ SeqIsAge'
    BY <1>0 DEF Indexed, Apart, SeqIsAge
  <2>3. \A i \in index' : i.slot + i.span <= Slots /\ i.seq < nextSeq' /\ i.id <= image'.id
    BY <1>0 DEF Indexed
  <2>. QED  BY <1>5, <2>1, <2>2, <2>3 DEF Indexed
<1>7. TargetIsClear'
  <2>1. /\ slot' + image'.span <= Slots /\ pos' <= image'.span
        /\ \A s \in Slot : header'[s] # None /\ s < slot' => s + header'[s].span <= slot'
    BY <1>0, <1>1, <1>2, <1>3, Numbers, SMTT(20)
  <2>2. \A s \in Slot : slot <= s /\ s < slot + pos + 1 => header'[s] = None
    <3>. SUFFICES ASSUME NEW s \in Slot, slot <= s, s < slot + pos + 1
                  PROVE  header'[s] = None
      OBVIOUS
    <3>1. s \in Nat /\ slot \in Nat /\ pos \in Nat
      BY Numbers
    <3>2. s < e \/ s = e
      BY <1>3, <3>1
    <3>. QED  BY <1>2, <1>3, <3>2
  <2>3. CASE pos + 1 = image.span
    <3>1. \A s \in Slot : slot' <= s /\ s < slot' + image'.span => header'[s] = None
      BY <1>0, <2>2, <2>3, Numbers
    <3>2. \A s \in Slot : ~(slot' <= s /\ s < slot' + pos')
      BY <1>0, <1>1, <2>3, Numbers
    <3>. QED  BY <1>0, <1>1, <1>2, <2>1, <2>3, <3>1, <3>2 DEF TargetIsClear
  <2>4. CASE pos + 1 # image.span
    <3>1. pos' < image'.span /\ \A s \in Slot : slot' <= s /\ s < slot' + pos' => header'[s] = None
      BY <1>0, <1>1, <1>2, <2>2, <2>4, Numbers
    <3>. QED  BY <1>0, <1>1, <1>2, <2>1, <2>4, <3>1 DEF TargetIsClear, Writes
  <2>. QED  BY <2>3, <2>4
<1>8. ReadIsKept'
  BY <1>0 DEF ReadIsKept
<1>. QED  BY <1>4, <1>6, <1>7, <1>8

(* One more slot of the target is full. *)
LEMMA ChunkKeeps == ASSUME IInv, Chunk PROVE IInv'
<1>. USE DEF IInv
<1>. DEFINE e == slot + pos
<1>0. /\ http = "body" /\ pos < image.span /\ requested = FALSE
      /\ data' = [data EXCEPT ![e] = Content(image)] /\ pos' = pos + 1
      /\ UNCHANGED <<header, index, nextSeq, image, writing, slot, http, active, requested,
                     done, ota, early>>
  BY DEF Chunk, Types
<1>1. Writes
  BY <1>0 DEF Writes
<1>2. /\ slot + image.span <= Slots /\ e \in Slot
      /\ \A s \in Slot : header[s] # None /\ s < slot => s + header[s].span <= slot
      /\ \A s \in Slot : slot <= s /\ s < slot + image.span => header[s] = None
      /\ \A s \in Slot : slot <= s /\ s < e => data[s] = Content(image)
  BY <1>0, <1>1, Numbers DEF TargetIsClear
<1>3. /\ data \in [Slot -> (-MaxUploads)..MaxUploads] /\ Content(image) \in (-MaxUploads)..MaxUploads
      /\ \A s \in Slot : data'[s] = IF s = e THEN Content(image) ELSE data[s]
      /\ e = slot + pos
  <2>1. data \in [Slot -> (-MaxUploads)..MaxUploads]
    BY DEF Types, TypeOK
  <2>2. image.id \in 0..MaxUploads /\ image.good \in BOOLEAN
    BY DEF Types, TypeOK, Image
  <2>3. Content(image) \in (-MaxUploads)..MaxUploads
    BY <2>2, Numbers DEF Content
  <2>. QED  BY <1>0, <2>1, <2>3
<1>. HIDE DEF e
<1>4. Types'
  <2>1. data' \in [Slot -> (-MaxUploads)..MaxUploads]
    BY <1>0, <1>3
  <2>2. pos' \in 0..Slots
    BY <1>0, <1>2, Numbers
  <2>3. TypeOK'
    BY <1>0, <1>2, <2>1, <2>2 DEF Types, TypeOK
  <2>. QED  BY <1>0, <2>3 DEF Types
<1>5. HeaderMeansWhole'
  <2>1. SUFFICES ASSUME NEW s \in Slot, header[s] # None
                 PROVE  /\ header[s].slot = s
                        /\ \A t \in Part(s, header[s].span) : data'[t] = header[s].id
    BY <1>0 DEF HeaderMeansWhole
  <2>2. \A t \in Part(s, header[s].span) : t \in Slot /\ t # e
    <3>. TAKE t \in Part(s, header[s].span)
    <3>1. s \in Nat /\ header[s].span \in Nat /\ s + header[s].span <= Slots
      BY <2>1, Facts, Numbers
    <3>2. t \in Nat /\ s <= t /\ t < s + header[s].span
      BY <3>1 DEF Part
    <3>3. t \in Slot
      BY <3>1, <3>2, Numbers
    <3>4. s < slot => s + header[s].span <= slot
      BY <1>2, <2>1
    <3>5. ~(slot <= s /\ s < slot + image.span)
      BY <1>2, <2>1
    <3>6. /\ slot \in Nat /\ pos \in Nat /\ e = slot + pos
          /\ image.span \in Nat /\ pos < image.span
      BY <1>0, <1>3, Numbers
    <3>7. t # e
      BY <3>1, <3>2, <3>4, <3>5, <3>6
    <3>. QED  BY <3>3, <3>7
  <2>. QED  BY <1>3, <2>1, <2>2, Facts
<1>6. Indexed'
  <2>1. InFlash(header') \subseteq index'
    BY <1>0 DEF InFlash, Indexed
  <2>2. Apart(index') /\ SeqIsAge'
    BY <1>0 DEF Indexed, Apart, SeqIsAge
  <2>3. \A i \in index' : i.slot + i.span <= Slots /\ i.seq < nextSeq' /\ i.id <= image'.id
    BY <1>0 DEF Indexed
  <2>. QED  BY <1>5, <2>1, <2>2, <2>3 DEF Indexed
<1>7. TargetIsClear'
  <2>1. \A s \in Slot : slot' <= s /\ s < slot' + pos' => data'[s] = Content(image')
    <3>1. \A s \in Slot : slot <= s /\ s < slot + pos + 1 => data'[s] = Content(image)
      <4>. SUFFICES ASSUME NEW s \in Slot, slot <= s, s < slot + pos + 1
                    PROVE  data'[s] = Content(image)
        OBVIOUS
      <4>1. s \in Nat /\ slot \in Nat /\ pos \in Nat
        BY Numbers
      <4>2. s < e \/ s = e
        BY <1>3, <4>1
      <4>. QED  BY <1>2, <1>3, <4>2
    <3>. QED  BY <1>0, <3>1, Numbers, SMTT(20) DEF Content
  <2>2. pos' <= image'.span
    BY <1>0, Numbers
  <2>3. \A i \in index : i.id < image.id
    BY <1>1 DEF TargetIsClear
  <2>. QED  BY <1>0, <1>2, <2>1, <2>2, <2>3 DEF TargetIsClear
<1>8. ReadIsKept'
  BY <1>0 DEF ReadIsKept
<1>. QED  BY <1>4, <1>6, <1>7, <1>8

(* The steps of the server's task that leave flash and index alone. *)
LEMMA ServerKeeps ==
  ASSUME IInv, Break \/ Post \/ Answer \/ GiveUp
  PROVE  IInv'
<1>. USE DEF IInv
<1>0. /\ UNCHANGED <<flash, index, nextSeq, image, writing, slot, pos, ota, early>>
      /\ http \in {"idle", "wait", "body"} /\ http' \in {"idle", "wait"}
      /\ requested' \in BOOLEAN /\ active' \in BOOLEAN /\ done' \in {"no", "ok", "failed"}
      /\ active' \/ requested' \/ http' # "idle" => active \/ requested \/ http # "idle"
  BY DEF Break, Post, Answer, GiveUp, store, Types, TypeOK
<1>1. Types'
  <2>1. TypeOK'
    BY <1>0 DEF Types, TypeOK, flash
  <2>. QED  BY <1>0, <2>1 DEF Types
<1>2. Indexed'
  BY <1>0, Numbers, IndexedKept
<1>3. TargetIsClear'
  <2>1. Writes' => Writes
    BY DEF Break, Post, Answer, GiveUp, store, Types, TypeOK, Writes
  <2>2. http' \notin {"checked", "erase"}
    BY <1>0
  <2>. QED  BY <1>0, <2>1, <2>2 DEF TargetIsClear, flash, Content
<1>4. ReadIsKept'
  BY <1>0 DEF ReadIsKept, flash
<1>. QED  BY <1>1, <1>2, <1>3, <1>4

(* The steps that rescan the flash as it is: abort_write and the power failure. *)
LEMMA RescansKeep ==
  ASSUME IInv, ChunkFails \/ Restart
  PROVE  IInv'
<1>. USE DEF IInv
<1>0. /\ Rescan(header, data) /\ UNCHANGED <<flash, image>>
      /\ http' = "idle" /\ active' = FALSE /\ writing' = FALSE
      /\ slot' \in Slot /\ pos' \in 0..Slots
      /\ requested' = FALSE /\ done' \in {"no", "ok", "failed"}
      /\ UNCHANGED <<ota, early>> \/ (ota' = None /\ early' = FALSE)
  <2>1. CASE ChunkFails
    <3>1. requested = FALSE /\ done \in {"no", "ok", "failed"}
      BY <2>1 DEF ChunkFails, Types, TypeOK
    <3>. QED  BY <2>1, <3>1, Numbers DEF ChunkFails
  <2>2. CASE Restart
    <3>1. 0 \in Slot /\ 0 \in 0..Slots
      BY Numbers
    <3>. QED  BY <2>2, <3>1 DEF Restart
  <2>. QED  BY <2>1, <2>2
<1>1. Indexed' /\ index' \subseteq Header /\ nextSeq' \in Nat \ {0}
  BY <1>0, RescanKeeps
<1>2. Types'
  <2>1. TypeOK'
    BY <1>0, <1>1 DEF Types, TypeOK, flash
  <2>. QED  BY <1>0, <2>1 DEF Types
<1>3. TargetIsClear'
  BY <1>0 DEF TargetIsClear, Writes
<1>4. ReadIsKept'
  BY <1>0 DEF ReadIsKept, flash
<1>. QED  BY <1>1, <1>2, <1>3, <1>4

(* An image is committed: its header comes after its slots are whole. *)
LEMMA CommitKeeps ==
  ASSUME Types, Indexed, TargetIsClear, Writes, pos = image.span, image.good,
         header' = Commit, Rescan(Commit, data), UNCHANGED <<data, image>>
  PROVE  /\ Indexed' /\ index' \subseteq Header /\ nextSeq' \in Nat \ {0}
         /\ header' \in [Slot -> Header \cup {None}]
<1>0. /\ slot + image.span <= Slots /\ image.id # 0
      /\ \A s \in Slot : header[s] # None /\ s < slot => s + header[s].span <= slot
      /\ \A s \in Slot : slot <= s /\ s < slot + image.span => header[s] = None
      /\ \A s \in Slot : slot <= s /\ s < slot + pos => data[s] = image.id
      /\ \A i \in index : i.id < image.id
  BY DEF TargetIsClear, Writes, Content, Types
<1>1. Committed \in Header
  <2>1. image.id \in Upload /\ image.name \in Name
    BY <1>0 DEF Types, TypeOK, Image, Upload
  <2>2. slot \in Slot /\ image.span \in 1..Slots /\ nextSeq \in Nat
    BY <1>0, Numbers
  <2>. QED  BY <2>1, <2>2 DEF Committed, Header
<1>2. /\ Committed.slot = slot /\ Committed.id = image.id /\ Committed.span = image.span
      /\ Committed.seq = nextSeq
  BY DEF Committed
<1>. DEFINE new == Committed
<1>. HIDE DEF new
<1>3. /\ new \in Header /\ new # None
      /\ new.slot = slot /\ new.id = image.id /\ new.span = image.span /\ new.seq = nextSeq
  BY <1>1, <1>2, StoreAssumption DEF new
<1>4. /\ header' \in [Slot -> Header \cup {None}]
      /\ \A s \in Slot : header'[s] = IF s = slot THEN new ELSE header[s]
  BY <1>3, Numbers DEF Commit, Types, TypeOK, new
<1>5. \A s \in Slot : header'[s] # None =>
        header'[s].slot = s /\ \A t \in Part(s, header'[s].span) : data[t] = header'[s].id
  <2>. SUFFICES ASSUME NEW s \in Slot, header'[s] # None
                PROVE  /\ header'[s].slot = s
                       /\ \A t \in Part(s, header'[s].span) : data[t] = header'[s].id
    OBVIOUS
  <2>1. CASE s = slot
    <3>1. header'[s] = new
      BY <1>4, <2>1
    <3>2. \A t \in Part(slot, image.span) : t \in Slot /\ slot <= t /\ t < slot + pos
      BY <1>0, Numbers DEF Part
    <3>. QED  BY <1>0, <1>3, <2>1, <3>1, <3>2
  <2>2. CASE s # slot
    <3>1. header'[s] = header[s]
      BY <1>4, <2>2
    <3>. QED  BY <3>1, Facts
  <2>. QED  BY <2>1, <2>2
<1>6. InFlash(header') \subseteq InFlash(header) \cup {new}
  BY <1>4 DEF InFlash
<1>7. ASSUME NEW i \in InFlash(header)
      PROVE  /\ i \in index /\ i \in Header /\ i.seq \in Nat /\ i.seq < nextSeq
             /\ i.id < image.id /\ i.slot + i.span <= Slots
             /\ i.slot + i.span <= slot \/ slot + image.span <= i.slot
  <2>1. PICK s \in Slot : i = header[s] /\ header[s] # None
    BY DEF InFlash
  <2>2. /\ i \in index /\ i \in Header /\ i.slot = s /\ i.seq \in Nat /\ i.seq < nextSeq
        /\ s + i.span <= Slots
    BY <2>1, Facts
  <2>3. /\ s < slot => s + i.span <= slot
        /\ ~(slot <= s /\ s < slot + image.span)
    BY <1>0, <2>1
  <2>4. s \in Nat /\ slot \in Nat /\ image.span \in Nat
    BY Numbers
  <2>5. s + i.span <= slot \/ slot + image.span <= s
    BY <2>3, <2>4
  <2>. QED  BY <1>0, <2>2, <2>5
<1>8. Apart(InFlash(header'))
  <2>. SUFFICES ASSUME NEW i \in InFlash(header'), NEW j \in InFlash(header')
                PROVE  \/ i = j
                       \/ i.slot + i.span <= j.slot
                       \/ j.slot + j.span <= i.slot
    BY DEF Apart
  <2>1. CASE i = new
    BY <1>3, <1>6, <1>7, <2>1
  <2>2. CASE j = new
    BY <1>3, <1>6, <1>7, <2>2
  <2>3. CASE i # new /\ j # new
    BY <1>6, <2>3, FlashIsApart DEF Apart
  <2>. QED  BY <2>1, <2>2, <2>3
<1>9. nextSeq \in Nat /\ \A i \in InFlash(header') : i.seq <= nextSeq
  BY <1>3, <1>6, <1>7, Numbers
<1>10. /\ index' = InFlash(header') /\ index' \subseteq Header
       /\ nextSeq' \in Nat \ {0} /\ \A i \in index' : i.seq < nextSeq'
  BY <1>4, <1>5, <1>8, <1>9, RescanSound
<1>11. HeaderMeansWhole' /\ InFlash(header') \subseteq index' /\ Apart(index')
  BY <1>5, <1>8, <1>10 DEF HeaderMeansWhole
<1>12. \A i \in index' : i.slot + i.span <= Slots /\ i.seq < nextSeq' /\ i.id <= image'.id
  <2>1. ASSUME NEW i \in index'
        PROVE  i.slot + i.span <= Slots /\ i.id <= image.id
    <3>1. CASE i = new
      BY <1>0, <1>3, <3>1, Numbers
    <3>2. CASE i # new
      <4>1. i \in InFlash(header) /\ i.id \in Nat
        BY <1>6, <1>7, <1>10, <3>2 DEF Header, Upload
      <4>. QED  BY <1>7, <4>1, Numbers
    <3>. QED  BY <3>1, <3>2
  <2>. QED  BY <1>10, <2>1
<1>13. SeqIsAge'
  <2>. SUFFICES ASSUME NEW i \in index', NEW j \in index', i.id < j.id
                PROVE  i.seq < j.seq
    BY DEF SeqIsAge
  <2>1. /\ i \in InFlash(header) \/ (i = new /\ i.id = image.id /\ i.seq = nextSeq)
        /\ j \in InFlash(header) \/ (j = new /\ j.id = image.id /\ j.seq = nextSeq)
    <3>1. i \in InFlash(header) \cup {new} /\ j \in InFlash(header) \cup {new}
      BY <1>6, <1>10
    <3>. QED  BY <1>3, <3>1
  <2>2. i.id \in Nat /\ j.id \in Nat
    BY <1>10 DEF Header, Upload
  <2>3. CASE i = new
    BY <1>3, <1>7, <2>1, <2>2, <2>3, Numbers
  <2>4. CASE j = new
    BY <1>3, <1>7, <2>1, <2>2, <2>4, Numbers
  <2>5. CASE i \in InFlash(header) /\ j \in InFlash(header)
    BY <1>7, <2>5 DEF Indexed, SeqIsAge
  <2>. QED  BY <2>1, <2>3, <2>4, <2>5
<1>. QED  BY <1>4, <1>10, <1>11, <1>12, <1>13 DEF Indexed

(* finish_write. *)
LEMMA FinishKeeps == ASSUME IInv, Finish PROVE IInv'
<1>. USE DEF IInv
<1>0. /\ requested = TRUE /\ http \in {"idle", "wait"} /\ image.id # 0
      /\ requested' = FALSE /\ writing' = FALSE /\ done' \in {"no", "ok", "failed"}
      /\ UNCHANGED <<data, image, slot, pos, http, active, ota, early>>
  BY DEF Finish, Types, TypeOK
<1>1. /\ Indexed' /\ index' \subseteq Header /\ nextSeq' \in Nat \ {0}
      /\ header' \in [Slot -> Header \cup {None}]
  <2>1. CASE UNCHANGED <<header, index, nextSeq>>
    <3>1. Indexed'
      BY <1>0, <2>1, Numbers, IndexedKept DEF flash
    <3>. QED  BY <2>1, <3>1 DEF Types, TypeOK
  <2>2. CASE Rescan(header, data) /\ UNCHANGED header
    <3>1. Indexed' /\ index' \subseteq Header /\ nextSeq' \in Nat \ {0}
      BY <1>0, <2>2, RescanKeeps DEF flash
    <3>. QED  BY <2>2, <3>1 DEF Types, TypeOK
  <2>3. CASE writing /\ pos = image.span /\ image.good /\ header' = Commit /\ Rescan(Commit, data)
    <3>1. Writes
      BY <1>0, <2>3 DEF Writes
    <3>. QED  BY <1>0, <2>3, <3>1, CommitKeeps
  <2>. QED  BY <2>1, <2>2, <2>3 DEF Finish
<1>2. Types'
  <2>1. TypeOK'
    BY <1>0, <1>1 DEF Types, TypeOK
  <2>. QED  BY <1>0, <2>1 DEF Types
<1>3. TargetIsClear'
  BY <1>0 DEF TargetIsClear, Writes
<1>4. ReadIsKept'
  BY <1>0 DEF ReadIsKept
<1>. QED  BY <1>1, <1>2, <1>3, <1>4

(* A FLASH job validates its image, and ends. *)
LEMMA OtaKeeps ==
  ASSUME IInv, EndOta \/ \E n \in Name : StartOta(n)
  PROVE  IInv'
<1>. USE DEF IInv
<1>0. /\ UNCHANGED <<flash, index, nextSeq, writing, slot, pos, image, http, active,
                     requested, done>>
      /\ early' \in BOOLEAN
  <2>1. CASE EndOta
    BY <2>1 DEF EndOta, store, upload
  <2>2. CASE \E n \in Name : StartOta(n)
    <3>1. PICK n \in Name : StartOta(n)
      BY <2>2
    <3>2. early' = (http \in {"checked", "erase", "body"})
      BY <3>1 DEF StartOta
    <3>. QED  BY <3>1, <3>2 DEF StartOta, store, upload
  <2>. QED  BY <2>1, <2>2
<1>1. /\ ota' \in Reading \cup {None}
      /\ ota' # None /\ ~early' =>
           /\ http \in {"idle", "wait"}
           /\ \A t \in Part(ota'.slot, ota'.span) : data[t] = ota'.id
  <2>1. CASE EndOta
    BY <2>1 DEF EndOta
  <2>2. CASE \E n \in Name : StartOta(n)
    <3>1. PICK n \in Name : StartOta(n)
      BY <2>2
    <3>. DEFINE i == Find(n)
                d == data[i.slot]
    <3>2. i \in Named(n)
      <4>. DEFINE slots == {k.slot : k \in Named(n)}
      <4>1. \A k \in Named(n) : k.slot \in Nat
        BY Numbers DEF Named, Types, TypeOK, Header
      <4>2. slots \subseteq Nat /\ slots # {}
        BY <3>1, <4>1 DEF StartOta
      <4>3. PICK m \in slots : \A k \in slots : m <= k
        BY <4>2, LeastNatural
      <4>4. \E k \in Named(n) : \A j \in Named(n) : k.slot <= j.slot
        BY <4>3
      <4>. QED  BY <4>4 DEF Find
    <3>3. i \in Header
      BY <3>2 DEF Named, Types, TypeOK
    <3>4. /\ d > 0 /\ \A t \in Part(i.slot, i.span) : data[t] = d
          /\ ota' = [slot |-> i.slot, span |-> i.span, id |-> d]
          /\ early' = (http \in {"checked", "erase", "body"})
      BY <3>1 DEF StartOta
    <3>. HIDE DEF i
    <3>5. i.slot \in Slot /\ i.span \in 1..Slots
      BY <3>3 DEF Header
    <3>6. d \in Upload
      <4>1. d \in (-MaxUploads)..MaxUploads
        BY <3>5 DEF Types, TypeOK
      <4>. QED  BY <3>4, <4>1, Numbers DEF Upload
    <3>. HIDE DEF d
    <3>7. ota' \in Reading /\ ota'.slot = i.slot /\ ota'.span = i.span /\ ota'.id = d
      BY <3>4, <3>5, <3>6 DEF Reading
    <3>8. http \in {"idle", "checked", "erase", "body", "wait"}
      BY DEF Types, TypeOK
    <3>. QED  BY <3>4, <3>7, <3>8
  <2>. QED  BY <2>1, <2>2
<1>2. Types'
  <2>1. TypeOK'
    BY <1>0, <1>1 DEF Types, TypeOK, flash
  <2>. QED  BY <1>0, <2>1 DEF Types
<1>3. Indexed'
  BY <1>0, Numbers, IndexedKept
<1>4. TargetIsClear'
  BY <1>0 DEF TargetIsClear, Writes, flash, Content
<1>5. ReadIsKept'
  BY <1>0, <1>1 DEF ReadIsKept, flash
<1>. QED  BY <1>2, <1>3, <1>4, <1>5

(* A step that changes nothing. *)
LEMMA StutterKeeps == ASSUME IInv, UNCHANGED vars PROVE IInv'
<1>1. UNCHANGED <<flash, index, nextSeq, image, writing, slot, pos, http, active, requested,
                  done, ota, early>>
  BY DEF vars, flash
<1>2. Types' /\ TargetIsClear' /\ ReadIsKept'
  BY <1>1 DEF IInv, Types, TypeOK, TargetIsClear, Writes, ReadIsKept, flash, Content
<1>3. Indexed'
  BY <1>1, Numbers, IndexedKept DEF IInv
<1>. QED  BY <1>2, <1>3 DEF IInv

(* Every step preserves it, so it holds of every behaviour. *)
THEOREM Inductive == Spec => []IInv
<1>1. IInv /\ [Next]_vars => IInv'
  <2>. SUFFICES ASSUME IInv, [Next]_vars PROVE IInv'
    OBVIOUS
  <2>1. CASE Server
    BY <2>1, BodyKeeps, BeginWriteKeeps, EraseKeeps, ChunkKeeps, RescansKeep, ServerKeeps DEF Server
  <2>2. CASE Main
    BY <2>2, FinishKeeps, OtaKeeps DEF Main
  <2>3. CASE Restart
    BY <2>3, RescansKeep
  <2>4. CASE UNCHANGED vars
    BY <2>4, StutterKeeps
  <2>. QED  BY <2>1, <2>2, <2>3, <2>4 DEF Next
<1>. QED  BY <1>1, InitIInv, PTL DEF Spec

----------------------------------------------------------------------------
(* What the store promises *)

(* begin_write and write_chunk stay inside the partition, whatever is uploaded: the
   target that is chosen holds the image. *)
THEOREM TypeCorrect == Spec => []TypeOK
BY Inductive, PTL DEF IInv, Types

(* After any power failure, every header in flash stands for a whole image, and
   rescan_ finds every one of them; begin_write takes none of their slots for free. *)
THEOREM FlashStaysConsistent == Spec => []FlashIsConsistent
<1>1. IInv => FlashIsConsistent
  <2>. SUFFICES ASSUME IInv PROVE FlashIsConsistent
    OBVIOUS
  <2>1. HeaderMeansWhole /\ InFlash(header) \subseteq index /\ Apart(InFlash(header))
    BY FlashIsApart DEF IInv, Indexed
  <2>2. header \in [Slot -> Header \cup {None}]
    BY DEF IInv, Types, TypeOK
  <2>3. Scan(header, data) = InFlash(header)
    BY <2>1, <2>2, ScanFindsAll DEF HeaderMeansWhole
  <2>. QED  BY <2>1, <2>3 DEF FlashIsConsistent, IndexCovers
<1>. QED  BY <1>1, Inductive, PTL

(* The write counters that rescan_ computes anew after each restart never put an older
   image behind a newer one. *)
THEOREM SeqStaysAge == Spec => []SeqIsAge
BY Inductive, PTL DEF IInv, Indexed

(* No upload that begins during an OTA changes the image that the OTA reads. *)
THEOREM OtaReadsOneImage == Spec => []OtaImageStays
<1>1. IInv => OtaImageStays
  BY DEF IInv, Types, TypeOK, ReadIsKept, OtaImageStays
<1>. QED  BY <1>1, Inductive, PTL
=============================================================================
