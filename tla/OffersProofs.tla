---------------------------- MODULE OffersProofs ----------------------------
(***************************************************************************)
(* Theorems about Offers, for every set of devices, manifests, images and  *)
(* rules, and any size of the store, the saved records and the queue.      *)
(***************************************************************************)
EXTENDS FiniteSetTheorems, SequenceTheorems, FunctionTheorems, Offers,
        WellFoundedInduction, TLAPS

----------------------------------------------------------------------------
(* What a loop keeps of a list *)

(* No two positions have the same rank. *)
LEMMA RanksDiffer ==
  ASSUME NEW K \in SUBSET Nat, IsFiniteSet(K)
  PROVE  /\ Cardinality(K) \in Nat
         /\ \A i \in K : Rank(K, i) \in 1..Cardinality(K)
         /\ \A i, j \in K : Rank(K, i) = Rank(K, j) => i = j
<1> DEFINE below(i) == {j \in K : j <= i}
<1>1. Cardinality(K) \in Nat
  BY FS_CardinalityType
<1>2. ASSUME NEW i \in K
      PROVE  /\ IsFiniteSet(below(i)) /\ Cardinality(below(i)) \in 1..Cardinality(K)
             /\ i \in below(i) /\ Rank(K, i) = Cardinality(below(i))
  <2>1. below(i) \in SUBSET K /\ i \in below(i)
    OBVIOUS
  <2>2. IsFiniteSet(below(i)) /\ Cardinality(below(i)) <= Cardinality(K)
    BY <2>1, FS_Subset
  <2>3. Cardinality(below(i)) \in Nat /\ Cardinality(below(i)) # 0
    BY <2>1, <2>2, FS_CardinalityType, FS_EmptySet
  <2> QED
    BY <1>1, <2>1, <2>2, <2>3 DEF Rank
<1>3. ASSUME NEW i \in K, NEW j \in K, i < j
      PROVE  Rank(K, i) # Rank(K, j)
  <2>1. i \in Nat /\ j \in Nat /\ \A k \in K : k \in Nat /\ (k <= i => k <= j)
    BY <1>3
  <2>2. /\ \A k \in below(i) : k \in below(j)
        /\ ~(j <= i) /\ j <= j
    BY <1>3, <2>1
  <2>3. IsFiniteSet(below(j))
    BY <1>2
  <2>4. below(i) \in SUBSET below(j) /\ j \notin below(i) /\ j \in below(j)
    BY <2>2, Zenon
  <2> HIDE DEF below
  <2>5. Cardinality(below(i)) # Cardinality(below(j))
    BY <2>3, <2>4, FS_Subset
  <2> QED
    BY <1>2, <2>5
<1>4. \A i, j \in K : Rank(K, i) = Rank(K, j) => ~(i < j) /\ ~(j < i)
  BY <1>3
<1>5. \A i, j \in K : ~(i < j) /\ ~(j < i) => i = j
  OBVIOUS
<1> HIDE DEF below
<1> QED
  BY <1>1, <1>2, <1>4, <1>5

(* Every rank is one of a position. *)
LEMMA RanksReached ==
  ASSUME NEW K \in SUBSET Nat, IsFiniteSet(K)
  PROVE  \A p \in 1..Cardinality(K) : \E i \in K : Rank(K, i) = p
<1> DEFINE T == 1..Cardinality(K)
           f == [i \in K |-> Rank(K, i)]
<1>1. f \in [K -> T] /\ \A i, j \in K : f[i] = f[j] => i = j
  BY RanksDiffer
<1>2. f \in Injection(K, T)
  BY <1>1 DEF Injection, IsInjective
<1>3. IsFiniteSet(T) /\ Cardinality(T) = Cardinality(K)
  BY RanksDiffer, FS_Interval
<1> HIDE DEF T
<1>4. f \in Surjection(K, T)
  BY <1>2, <1>3, FS_Injection
<1>5. \A p \in T : \E i \in K : f[i] = p
  BY <1>4 DEF Surjection
<1> QED
  BY <1>5 DEF T

(* The elements at the positions K are kept, each once. *)
LEMMA Keeps ==
  ASSUME NEW S, NEW s \in Seq(S), NEW K \in SUBSET (DOMAIN s)
  PROVE  /\ Cardinality(K) \in Nat /\ Cardinality(K) <= Len(s) /\ IsFiniteSet(K)
         /\ \E q \in [1..Cardinality(K) -> K] :
              /\ Keep(s, K) = [p \in 1..Cardinality(K) |-> s[q[p]]]
              /\ \A p, r \in 1..Cardinality(K) : q[p] = q[r] => p = r
              /\ \A i \in K : \E p \in 1..Cardinality(K) : q[p] = i
<1> DEFINE n == Cardinality(K)
           q == [p \in 1..n |-> CHOOSE i \in K : Rank(K, i) = p]
<1>1. DOMAIN s = 1..Len(s) /\ Len(s) \in Nat /\ K \in SUBSET Nat
  BY LenProperties
<1>2. /\ IsFiniteSet(DOMAIN s) /\ Cardinality(DOMAIN s) = Len(s)
  BY <1>1, FS_Interval
<1>3. IsFiniteSet(K) /\ n <= Len(s) /\ n \in Nat
  BY <1>2, FS_Subset, FS_CardinalityType
<1>4. \A p \in 1..n : q[p] \in K /\ Rank(K, q[p]) = p
  BY <1>1, <1>3, RanksReached
<1>5. q \in [1..n -> K]
  BY <1>4
<1>6. Keep(s, K) = [p \in 1..n |-> s[q[p]]]
  BY DEF Keep
<1>7. \A i \in K : Rank(K, i) \in 1..n
  BY <1>1, <1>3, RanksDiffer
<1>8. \A i \in K : q[Rank(K, i)] = i
  <2>1. ASSUME NEW i \in K PROVE q[Rank(K, i)] = i
    <3>1. q[Rank(K, i)] \in K /\ Rank(K, q[Rank(K, i)]) = Rank(K, i)
      BY <1>4, <1>7
    <3> HIDE DEF q
    <3> QED
      BY <1>1, <1>3, <3>1, RanksDiffer
  <2> QED
    BY <2>1
<1> HIDE DEF q
<1>9. \A p, r \in 1..n : q[p] = q[r] => p = r
  BY <1>4
<1> QED
  BY <1>3, <1>5, <1>6, <1>7, <1>8, <1>9

----------------------------------------------------------------------------
(* The inductive invariant *)

Entries(s) == {s[i] : i \in DOMAIN s}

Distinct(s) == \A i, j \in DOMAIN s : s[i].mac = s[j].mac => i = j

IsDevice(r) ==
  /\ r = [mac |-> r.mac, identified |-> r.identified, added |-> r.added, hw |-> r.hw,
          offer |-> r.offer]
  /\ r.mac \in Device /\ r.identified \in BOOLEAN

IsRecord(r) ==
  /\ r = [mac |-> r.mac, id |-> r.id, kind |-> r.kind, version |-> r.version]
  /\ r.mac \in Device

(* A list of devices, and what is saved of one: no device twice. *)
IsRegistry(regs) ==
  /\ regs \in Seq(Entries(regs)) /\ Distinct(regs)
  /\ \A i \in DOMAIN regs : IsDevice(regs[i])
IsBlob(list) ==
  /\ list \in Seq(Entries(list)) /\ Distinct(list) /\ Len(list) <= MaxKnown
  /\ \A i \in DOMAIN list : IsRecord(list[i])

(* The offer of a record is that of the list. *)
UpToDate(r, list) == r.offer = IF r.identified THEN Offer(r.hw, list) ELSE NoOffer

(* What is saved says of every device what the registry says, and lacks one only when
   it is full. *)
Tells(list, regs) ==
  /\ \A k \in DOMAIN list, i \in DOMAIN regs :
       list[k].mac = regs[i].mac /\ regs[i].identified =>
         /\ list[k].id = regs[i].hw.id /\ list[k].kind = regs[i].hw.kind
         /\ list[k].version = regs[i].hw.version
  /\ \A i \in DOMAIN regs :
       regs[i].identified /\ regs[i].mac \notin Macs(list) => Len(list) = MaxKnown

(* What the store may hold. *)
Holdable == Upload \cup {Online[i] : i \in DOMAIN Online}

(* A running upload has a slot of its own, or that of an image. *)
InPlace ==
  /\ store \in Seq(Holdable) /\ Len(store) <= Slots
  /\ upload # None => /\ upload.image \in Holdable /\ upload.place \in 1..(Len(store) + 1)
                      /\ upload.place <= Slots

Flags ==
  /\ posting \in BOOLEAN /\ recompute \in BOOLEAN /\ spoiled \in BOOLEAN
  /\ manifest \in Manifest /\ remote \in {<<>>, Online}
  /\ queue \in Seq(Device) /\ Len(queue) <= MaxQueue

Busy ==
  /\ todo \subseteq Macs(devices)
  /\ session # None =>
       /\ session = [mac |-> session.mac, fw |-> session.fw, passed |-> session.passed]
       /\ session.mac \in Macs(devices)

IInv == /\ IsRegistry(devices) /\ IsBlob(known) /\ InPlace /\ Flags /\ Busy
        /\ OffersAreCurrent /\ OtaFits /\ Tells(known, devices)

----------------------------------------------------------------------------
(* Records *)

(* A record is its fields. *)
LEMMA DeviceIsRecord ==
  ASSUME NEW m \in Device, NEW b \in BOOLEAN, NEW a, NEW h, NEW o,
         NEW t \in [mac : {m}, identified : {b}, added : {a}, hw : {h}, offer : {o}]
  PROVE  /\ IsDevice(t) /\ t.mac = m /\ t.identified = b /\ t.added = a /\ t.hw = h
         /\ t.offer = o
<1>1. t.mac = m /\ t.identified = b /\ t.added = a /\ t.hw = h /\ t.offer = o
  OBVIOUS
<1>2. t = [mac |-> t.mac, identified |-> t.identified, added |-> t.added, hw |-> t.hw,
           offer |-> t.offer]
  OBVIOUS
<1> QED
  BY <1>1, <1>2 DEF IsDevice

LEMMA RecordOfDevice ==
  ASSUME NEW r, IsDevice(r)
  PROVE  /\ r.mac \in Device /\ r.identified \in BOOLEAN
         /\ r \in [mac : {r.mac}, identified : {r.identified}, added : {r.added}, hw : {r.hw},
                   offer : {r.offer}]
<1> DEFINE m == r.mac  b == r.identified  a == r.added  h == r.hw  o == r.offer
<1>1. /\ r = [mac |-> m, identified |-> b, added |-> a, hw |-> h, offer |-> o]
      /\ m \in Device /\ b \in BOOLEAN
  BY DEF IsDevice
<1> HIDE DEF m, b, a, h, o
<1>2. r \in [mac : {m}, identified : {b}, added : {a}, hw : {h}, offer : {o}]
  BY <1>1
<1> QED
  BY <1>1, <1>2 DEF m, b, a, h, o

(* A record with another offer. *)
LEMMA WithOffer ==
  ASSUME NEW r, IsDevice(r), NEW x, NEW t, t = [r EXCEPT !.offer = x]
  PROVE  /\ IsDevice(t) /\ t.mac = r.mac /\ t.identified = r.identified
         /\ t.added = r.added /\ t.hw = r.hw /\ t.offer = x
<1> DEFINE m == r.mac  b == r.identified  a == r.added  h == r.hw  o == r.offer
<1>1. /\ m \in Device /\ b \in BOOLEAN
      /\ r \in [mac : {m}, identified : {b}, added : {a}, hw : {h}, offer : {o}]
  BY RecordOfDevice
<1> HIDE DEF m, b, a, h, o
<1>2. t \in [mac : {m}, identified : {b}, added : {a}, hw : {h}, offer : {x}]
  BY <1>1
<1>3. /\ IsDevice(t) /\ t.mac = m /\ t.identified = b /\ t.added = a /\ t.hw = h
      /\ t.offer = x
  BY <1>1, <1>2, DeviceIsRecord
<1> QED
  BY <1>3 DEF m, b, a, h

(* A record that was added by hand. *)
LEMMA WithAdded ==
  ASSUME NEW r, IsDevice(r), NEW t, t = [r EXCEPT !.added = TRUE]
  PROVE  /\ IsDevice(t) /\ t.mac = r.mac /\ t.identified = r.identified
         /\ t.hw = r.hw /\ t.offer = r.offer
<1> DEFINE m == r.mac  b == r.identified  a == r.added  h == r.hw  o == r.offer
<1>1. /\ m \in Device /\ b \in BOOLEAN
      /\ r \in [mac : {m}, identified : {b}, added : {a}, hw : {h}, offer : {o}]
  BY RecordOfDevice
<1> HIDE DEF m, b, a, h, o
<1>2. t \in [mac : {m}, identified : {b}, added : {TRUE}, hw : {h}, offer : {o}]
  BY <1>1
<1>3. IsDevice(t) /\ t.mac = m /\ t.identified = b /\ t.hw = h /\ t.offer = o
  BY <1>1, <1>2, DeviceIsRecord
<1> QED
  BY <1>3 DEF m, b, h, o

(* A record with other hardware. *)
LEMMA WithHw ==
  ASSUME NEW r, IsDevice(r), NEW x, NEW t, t = [r EXCEPT !.hw = x]
  PROVE  /\ IsDevice(t) /\ t.mac = r.mac /\ t.identified = r.identified
         /\ t.hw = x
<1> DEFINE m == r.mac  b == r.identified  a == r.added  h == r.hw  o == r.offer
<1>1. /\ m \in Device /\ b \in BOOLEAN
      /\ r \in [mac : {m}, identified : {b}, added : {a}, hw : {h}, offer : {o}]
  BY RecordOfDevice
<1> HIDE DEF m, b, a, h, o
<1>2. t \in [mac : {m}, identified : {b}, added : {a}, hw : {x}, offer : {o}]
  BY <1>1
<1>3. IsDevice(t) /\ t.mac = m /\ t.identified = b /\ t.hw = x
  BY <1>1, <1>2, DeviceIsRecord
<1> QED
  BY <1>3 DEF m, b

(* A record of an identified device. *)
LEMMA WithIdentity ==
  ASSUME NEW r, IsDevice(r), NEW x
  PROVE  LET t == [r EXCEPT !.hw = x, !.identified = TRUE]
         IN  IsDevice(t) /\ t.mac = r.mac /\ t.identified = TRUE /\ t.hw = x
<1> DEFINE m == r.mac  b == r.identified  a == r.added  h == r.hw  o == r.offer
<1>1. /\ m \in Device /\ b \in BOOLEAN
      /\ r \in [mac : {m}, identified : {b}, added : {a}, hw : {h}, offer : {o}]
  BY RecordOfDevice
<1> HIDE DEF m, b, a, h, o
<1> DEFINE y == TRUE
           t == [r EXCEPT !.hw = x, !.identified = y]
<1>2. t \in [mac : {m}, identified : {y}, added : {a}, hw : {x}, offer : {o}]
  BY <1>1
<1>3. y \in BOOLEAN
  OBVIOUS
<1> HIDE DEF t, y
<1>4. IsDevice(t) /\ t.mac = m /\ t.identified = y /\ t.hw = x
  BY <1>1, <1>2, <1>3, DeviceIsRecord
<1> QED
  BY <1>4 DEF m, y, t

(* recompute_eligibility_ computes the offer, and nothing else. *)
LEMMA RefreshedFields ==
  ASSUME NEW r, IsDevice(r), NEW list
  PROVE  LET t == Refreshed(r, list)
         IN  /\ IsDevice(t) /\ t.mac = r.mac /\ t.identified = r.identified
             /\ t.added = r.added /\ t.hw = r.hw /\ UpToDate(t, list)
<1> DEFINE x == IF r.identified THEN Offer(r.hw, list) ELSE NoOffer
           t == [r EXCEPT !.offer = x]
<1>1. Refreshed(r, list) = t
  BY DEF Refreshed
<1>2. /\ IsDevice(t) /\ t.mac = r.mac /\ t.identified = r.identified
      /\ t.added = r.added /\ t.hw = r.hw /\ t.offer = x
  <2> HIDE DEF x
  <2> QED
    BY WithOffer
<1> HIDE DEF t
<1>3. UpToDate(t, list)
  BY <1>2 DEF UpToDate
<1> QED
  BY <1>1, <1>2, <1>3

(* A list of records is a function on its positions. *)
LEMMA RegistryShape ==
  ASSUME NEW regs, regs \in Seq(Entries(regs))
  PROVE  Len(regs) \in Nat /\ DOMAIN regs = 1..Len(regs)
BY LenProperties

(* Records that are changed one by one stay a registry of the same devices. *)
LEMMA RecordByRecord ==
  ASSUME NEW regs, IsRegistry(regs), NEW t, t = [i \in DOMAIN regs |-> t[i]],
         \A i \in DOMAIN regs : IsDevice(t[i]) /\ t[i].mac = regs[i].mac
  PROVE  /\ IsRegistry(t) /\ DOMAIN t = DOMAIN regs /\ Len(t) = Len(regs)
         /\ Macs(t) = Macs(regs)
<1>1. Len(regs) \in Nat /\ DOMAIN regs = 1..Len(regs)
  BY RegistryShape DEF IsRegistry
<1>2. DOMAIN t = 1..Len(regs)
  BY <1>1
<1>3. t \in [1..Len(regs) -> Entries(t)]
  BY <1>1, <1>2 DEF Entries
<1>4. t \in Seq(Entries(t)) /\ Len(t) = Len(regs)
  BY <1>1, <1>2, <1>3, SeqDef, LenProperties
<1>5. Distinct(t)
  BY <1>1, <1>2 DEF IsRegistry, Distinct
<1>6. Macs(t) = Macs(regs)
  BY <1>1, <1>2 DEF Macs
<1> QED
  BY <1>1, <1>2, <1>4, <1>5, <1>6 DEF IsRegistry

(* One record that is changed. *)
LEMMA OneRecord ==
  ASSUME NEW regs, IsRegistry(regs), NEW j \in DOMAIN regs, NEW r, IsDevice(r),
         r.mac = regs[j].mac
  PROVE  LET t == [regs EXCEPT ![j] = r]
         IN  /\ IsRegistry(t) /\ DOMAIN t = DOMAIN regs /\ Macs(t) = Macs(regs)
             /\ t[j] = r /\ \A i \in DOMAIN regs : i # j => t[i] = regs[i]
<1> DEFINE t == [regs EXCEPT ![j] = r]
<1>1. regs = [i \in DOMAIN regs |-> regs[i]]
  <2>1. Len(regs) \in Nat /\ regs \in [1..Len(regs) -> Entries(regs)]
    BY LenProperties DEF IsRegistry
  <2> QED
    BY <2>1
<1>2. /\ t = [i \in DOMAIN regs |-> t[i]] /\ t[j] = r
      /\ \A i \in DOMAIN regs : i # j => t[i] = regs[i]
  BY <1>1
<1> HIDE DEF t
<1>3. \A i \in DOMAIN regs : IsDevice(t[i]) /\ t[i].mac = regs[i].mac
  BY <1>2 DEF IsRegistry
<1>4. IsRegistry(t) /\ DOMAIN t = DOMAIN regs /\ Macs(t) = Macs(regs)
  BY <1>2, <1>3, RecordByRecord
<1> QED
  BY <1>2, <1>4 DEF t

(* The device of an address has one record. *)
LEMMA AtDevice ==
  ASSUME IsRegistry(devices), NEW d \in Macs(devices)
  PROVE  /\ At(d) \in DOMAIN devices /\ devices[At(d)].mac = d
         /\ \A i \in DOMAIN devices : devices[i].mac = d => i = At(d)
<1>1. \E i \in DOMAIN devices : devices[i].mac = d
  BY DEF Macs
<1>2. At(d) \in DOMAIN devices /\ devices[At(d)].mac = d
  BY <1>1 DEF At
<1> QED
  BY <1>2 DEF IsRegistry, Distinct

(* Some records of a list. *)
LEMMA SomeRecords ==
  ASSUME NEW regs, IsRegistry(regs), NEW K \in SUBSET (DOMAIN regs)
  PROVE  LET t == Keep(regs, K)
         IN  /\ IsRegistry(t) /\ Len(t) \in Nat /\ DOMAIN t = 1..Len(t)
             /\ \A j \in DOMAIN t : \E i \in K : t[j] = regs[i]
             /\ \A i \in K : \E j \in DOMAIN t : t[j] = regs[i]
<1> DEFINE n == Cardinality(K)
           t == Keep(regs, K)
<1>1. regs \in Seq(Entries(regs))
  BY DEF IsRegistry
<1>2. /\ n \in Nat
      /\ \E q \in [1..n -> K] :
           /\ t = [p \in 1..n |-> regs[q[p]]]
           /\ \A p, r \in 1..n : q[p] = q[r] => p = r
           /\ \A i \in K : \E p \in 1..n : q[p] = i
  BY <1>1, Keeps
<1> HIDE DEF n, t
<1>3. PICK q \in [1..n -> K] :
           /\ t = [p \in 1..n |-> regs[q[p]]]
           /\ \A p, r \in 1..n : q[p] = q[r] => p = r
           /\ \A i \in K : \E p \in 1..n : q[p] = i
  BY <1>2
<1>4. DOMAIN t = 1..n /\ \A p \in 1..n : q[p] \in K /\ t[p] = regs[q[p]]
  BY <1>3
<1>5. t \in [1..n -> Entries(t)]
  BY <1>3, <1>4 DEF Entries
<1>6. t \in Seq(Entries(t)) /\ Len(t) = n
  BY <1>2, <1>5, SeqDef, LenProperties, <1>4
<1>7. Distinct(t)
  BY <1>3, <1>4 DEF IsRegistry, Distinct
<1>8. \A p \in DOMAIN t : IsDevice(t[p])
  BY <1>4 DEF IsRegistry
<1>9. IsRegistry(t)
  BY <1>6, <1>7, <1>8 DEF IsRegistry
<1> QED
  BY <1>2, <1>3, <1>4, <1>6, <1>9 DEF t

(* get_or_create_device_ *)
LEMMA WithDevice ==
  ASSUME IsRegistry(devices), NEW d \in Device
  PROVE  /\ IsRegistry(With(d)) /\ Macs(With(d)) = Macs(devices) \cup {d}
         /\ \A i \in DOMAIN With(d) :
              \/ i \in DOMAIN devices /\ With(d)[i] = devices[i]
              \/ /\ With(d)[i].identified = FALSE /\ With(d)[i].offer = NoOffer
<1>1. CASE d \in Macs(devices)
  BY <1>1 DEF With
<1>2. CASE d \notin Macs(devices)
  <2> DEFINE r == New(d)
             t == Append(devices, r)
             S == Entries(devices) \cup {r}
  <2>1. IsDevice(r) /\ r.mac = d /\ r.identified = FALSE /\ r.offer = NoOffer
    <3>1. /\ r = [mac |-> d, identified |-> FALSE, added |-> FALSE, hw |-> NoHw,
                  offer |-> NoOffer]
      BY DEF New
    <3> HIDE DEF r
    <3> QED
      BY <3>1 DEF IsDevice
  <2>2. With(d) = t
    BY <1>2 DEF With
  <2> HIDE DEF r
  <2>3. devices \in Seq(S) /\ r \in S
    BY DEF IsRegistry
  <2>4. /\ Len(devices) \in Nat /\ DOMAIN devices = 1..Len(devices)
        /\ Len(t) = Len(devices) + 1 /\ DOMAIN t = 1..(Len(devices) + 1)
        /\ \A i \in 1..Len(devices) : t[i] = devices[i]
        /\ t[Len(devices) + 1] = r /\ t \in Seq(S)
    BY <2>3, AppendProperties, LenProperties
  <2> HIDE DEF t, S
  <2>5. \A i \in DOMAIN t : i \in DOMAIN devices \/ i = Len(devices) + 1
    BY <2>4
  <2>6. t \in Seq(Entries(t))
    <3>1. t \in [1..Len(t) -> Entries(t)]
      BY <2>4 DEF Entries
    <3> QED
      BY <2>4, <3>1, SeqDef
  <2>7. \A i \in DOMAIN devices : devices[i].mac # d
    BY <1>2 DEF Macs
  <2>8. Distinct(t)
    BY <2>1, <2>4, <2>5, <2>7 DEF IsRegistry, Distinct
  <2>9. \A i \in DOMAIN t : IsDevice(t[i])
    BY <2>1, <2>4, <2>5 DEF IsRegistry
  <2>10. Macs(t) = Macs(devices) \cup {d}
    <3>1. Macs(t) \subseteq Macs(devices) \cup {d}
      BY <2>1, <2>4, <2>5 DEF Macs
    <3>2. d \in Macs(t)
      BY <2>1, <2>4 DEF Macs
    <3>3. \A i \in DOMAIN devices : i \in DOMAIN t /\ t[i] = devices[i]
      BY <2>4
    <3> QED
      BY <3>1, <3>2, <3>3 DEF Macs
  <2> QED
    BY <2>1, <2>2, <2>4, <2>5, <2>6, <2>8, <2>9, <2>10 DEF IsRegistry
<1> QED
  BY <1>1, <1>2

(* save_known_devices_: what is saved tells of the devices what they are. *)
LEMMA SavedTells ==
  ASSUME NEW regs, IsRegistry(regs)
  PROVE  IsBlob(Saved(regs)) /\ Tells(Saved(regs), regs)
<1> DEFINE K     == {i \in DOMAIN regs : regs[i].identified \/ regs[i].added}
           worth == Keep(regs, K)
           n     == Room(Len(worth))
           list  == Saved(regs)
           r(i)  == [mac |-> worth[i].mac, id |-> worth[i].hw.id, kind |-> worth[i].hw.kind,
                     version |-> worth[i].hw.version]
<1>1. /\ IsRegistry(worth) /\ Len(worth) \in Nat /\ DOMAIN worth = 1..Len(worth)
      /\ \A j \in DOMAIN worth : \E i \in K : worth[j] = regs[i]
      /\ \A i \in K : \E j \in DOMAIN worth : worth[j] = regs[i]
  <2> HIDE DEF K
  <2>1. K \in SUBSET DOMAIN regs
    BY DEF K
  <2> QED
    BY <2>1, SomeRecords
<1>2. list = [i \in 1..n |-> r(i)]
  BY DEF Saved
<1>3. \A i \in K : i \in DOMAIN regs
  OBVIOUS
<1>4. \A i \in DOMAIN regs : regs[i].identified => i \in K
  OBVIOUS
<1> HIDE DEF worth, K
<1>5. n \in Nat /\ n <= Len(worth) /\ n <= MaxKnown /\ (n < Len(worth) => n = MaxKnown)
  <2> DEFINE l == Len(worth)
  <2>1. MaxKnown \in Nat /\ l \in Nat /\ n = IF l < MaxKnown THEN l ELSE MaxKnown
    BY <1>1, OffersAssumption DEF Room, n
  <2> HIDE DEF l
  <2>2. n \in Nat /\ n <= l /\ n <= MaxKnown /\ (n < l => n = MaxKnown)
    BY <2>1
  <2> QED
    BY <2>2 DEF l
<1> HIDE DEF n, list
<1>6. \A i \in 1..n : i \in DOMAIN worth /\ worth[i].mac \in Device
  <2>1. \A i \in DOMAIN worth : worth[i].mac \in Device
    BY <1>1 DEF IsRegistry, IsDevice
  <2>2. \A i \in 1..n : i \in 1..Len(worth)
    BY <1>1, <1>5
  <2> QED
    BY <1>1, <2>1, <2>2
<1>7. \A i \in 1..n : /\ IsRecord(r(i)) /\ r(i).mac = worth[i].mac /\ r(i).id = worth[i].hw.id
                      /\ r(i).kind = worth[i].hw.kind /\ r(i).version = worth[i].hw.version
  <2> TAKE i \in 1..n
  <2> DEFINE m == worth[i].mac  d == worth[i].hw.id  k == worth[i].hw.kind
             v == worth[i].hw.version
             t == r(i)
  <2>1. t = [mac |-> m, id |-> d, kind |-> k, version |-> v] /\ m \in Device
    BY <1>6
  <2> HIDE DEF m, d, k, v, t
  <2>2. IsRecord(t) /\ t.mac = m /\ t.id = d /\ t.kind = k /\ t.version = v
    BY <2>1 DEF IsRecord
  <2> QED
    BY <2>2 DEF m, d, k, v, t
<1> HIDE DEF r
<1>8. DOMAIN list = 1..n /\ \A i \in 1..n : list[i] = r(i)
  BY <1>2
<1>9. list \in Seq(Entries(list)) /\ Len(list) = n
  <2>1. list \in [1..n -> Entries(list)]
    BY <1>2, <1>8 DEF Entries
  <2> QED
    BY <1>5, <1>8, <2>1, SeqDef, LenProperties
<1>10. IsBlob(list)
  <2>1. Distinct(list)
    <3>1. \A i \in 1..n : list[i].mac = worth[i].mac
      BY <1>7, <1>8
    <3>2. \A i, j \in 1..n : worth[i].mac = worth[j].mac => i = j
      BY <1>1, <1>6 DEF IsRegistry, Distinct
    <3> QED
      BY <1>8, <3>1, <3>2 DEF Distinct
  <2>2. \A i \in DOMAIN list : IsRecord(list[i])
    BY <1>7, <1>8
  <2> QED
    BY <1>5, <1>9, <2>1, <2>2 DEF IsBlob
<1>11. ASSUME NEW k \in DOMAIN list, NEW i \in DOMAIN regs, list[k].mac = regs[i].mac
       PROVE  /\ list[k].id = regs[i].hw.id /\ list[k].kind = regs[i].hw.kind
              /\ list[k].version = regs[i].hw.version
  <2>1. k \in 1..n /\ worth[k].mac = regs[i].mac
    BY <1>7, <1>8, <1>11
  <2>2. PICK j \in K : worth[k] = regs[j]
    BY <1>1, <1>6, <2>1
  <2>3. j = i
    BY <1>3, <2>1, <2>2 DEF IsRegistry, Distinct
  <2> QED
    BY <1>7, <1>8, <2>1, <2>2, <2>3
<1>12. ASSUME NEW i \in DOMAIN regs, regs[i].identified, regs[i].mac \notin Macs(list)
       PROVE  Len(list) = MaxKnown
  <2>1. PICK j \in DOMAIN worth : worth[j] = regs[i]
    BY <1>1, <1>4, <1>12
  <2>2. j \notin 1..n
    BY <1>7, <1>8, <1>12, <2>1 DEF Macs
  <2> QED
    BY <1>1, <1>5, <1>9, <2>1, <2>2
<1> QED
  BY <1>10, <1>11, <1>12 DEF Tells, list

(* load_known_devices_: the restored devices are the saved ones, with offers of that
   list. *)
LEMMA LoadedTells ==
  ASSUME IsBlob(known), NEW firmwares
  PROVE  /\ IsRegistry(Loaded(firmwares)) /\ Tells(known, Loaded(firmwares))
         /\ \A i \in DOMAIN Loaded(firmwares) : UpToDate(Loaded(firmwares)[i], firmwares)
<1> DEFINE hw(i)  == [NoHw EXCEPT !.id = known[i].id, !.kind = known[i].kind,
                                  !.version = known[i].version]
           is(i)  == hw(i).id # UnknownHw \/ hw(i).kind # "UNKNOWN"
           offer(i) == IF is(i) THEN Offer(hw(i), firmwares) ELSE NoOffer
           r(i)   == [mac |-> known[i].mac, identified |-> is(i), added |-> TRUE,
                      hw |-> hw(i), offer |-> offer(i)]
           t      == Loaded(firmwares)
<1>1. t = [i \in DOMAIN known |-> r(i)]
  BY DEF Loaded
<1>2. \A i \in DOMAIN known : /\ hw(i).id = known[i].id /\ hw(i).kind = known[i].kind
                              /\ hw(i).version = known[i].version
  BY DEF NoHw
<1>3. \A i \in DOMAIN known : is(i) \in BOOLEAN
  OBVIOUS
<1> HIDE DEF is, hw
<1>4. \A i \in DOMAIN known : /\ r(i).mac = known[i].mac /\ r(i).identified = is(i)
                              /\ r(i).hw = hw(i) /\ r(i).offer = offer(i)
                              /\ r(i) = [mac |-> r(i).mac, identified |-> r(i).identified,
                                         added |-> r(i).added, hw |-> r(i).hw,
                                         offer |-> r(i).offer]
  <2> HIDE DEF offer
  <2> QED
    OBVIOUS
<1> HIDE DEF r, t
<1>5. \A i \in DOMAIN known : known[i].mac \in Device
  BY DEF IsBlob, IsRecord
<1>6. \A i \in DOMAIN known : IsDevice(r(i)) /\ UpToDate(r(i), firmwares)
  BY <1>3, <1>4, <1>5 DEF IsDevice, UpToDate
<1> HIDE DEF offer
<1>7. Len(known) \in Nat /\ DOMAIN known = 1..Len(known)
  BY LenProperties DEF IsBlob
<1>8. DOMAIN t = DOMAIN known /\ \A i \in DOMAIN known : t[i] = r(i)
  BY <1>1
<1>9. t \in Seq(Entries(t))
  <2>1. t \in [1..Len(known) -> Entries(t)]
    BY <1>1, <1>7, <1>8 DEF Entries
  <2> QED
    BY <1>7, <2>1, SeqDef
<1>10. Distinct(t)
  BY <1>4, <1>8 DEF IsBlob, Distinct
<1>11. IsRegistry(t) /\ \A i \in DOMAIN t : UpToDate(t[i], firmwares)
  BY <1>6, <1>8, <1>9, <1>10 DEF IsRegistry
<1>12. \A k \in DOMAIN known, i \in DOMAIN t : known[k].mac = t[i].mac => k = i
  BY <1>4, <1>8 DEF IsBlob, Distinct
<1>13. \A i \in DOMAIN t : t[i].mac \in Macs(known)
  BY <1>4, <1>8 DEF Macs
<1>14. Tells(known, t)
  BY <1>2, <1>4, <1>8, <1>12, <1>13 DEF Tells
<1> QED
  BY <1>11, <1>14 DEF t

----------------------------------------------------------------------------
(* The store *)

(* An image that was written is in its slot. *)
LEMMA PutHolds ==
  ASSUME store \in Seq(Holdable), Len(store) <= Slots, NEW image \in Holdable,
         NEW place \in 1..(Len(store) + 1), place <= Slots
  PROVE  Put(image, place) \in Seq(Holdable) /\ Len(Put(image, place)) <= Slots
<1>1. Len(store) \in Nat /\ DOMAIN store = 1..Len(store)
  BY LenProperties
<1>2. CASE place > Len(store)
  <2>1. Append(store, image) \in Seq(Holdable) /\ Len(Append(store, image)) = Len(store) + 1
    BY AppendProperties
  <2> DEFINE t == Append(store, image)
  <2>2. Put(image, place) = t
    BY <1>2 DEF Put
  <2> HIDE DEF t
  <2>3. t \in Seq(Holdable) /\ Len(t) = Len(store) + 1
    BY <2>1 DEF t
  <2> QED
    BY <1>1, <1>2, <2>2, <2>3, OffersAssumption
<1>3. CASE ~(place > Len(store))
  <2> DEFINE t == [store EXCEPT ![place] = image]
  <2>1. place \in 1..Len(store) /\ Put(image, place) = t
    BY <1>1, <1>3 DEF Put
  <2>2. t \in Seq(Holdable) /\ Len(t) = Len(store)
    BY <2>1, ExceptSeq
  <2> HIDE DEF t
  <2> QED
    BY <2>1, <2>2
<1> QED
  BY <1>2, <1>3

(* An image that was erased is gone. *)
LEMMA WithoutHolds ==
  ASSUME store \in Seq(Holdable), Len(store) <= Slots, NEW place \in 1..(Len(store) + 1)
  PROVE  Without(place) \in Seq(Holdable) /\ Len(Without(place)) <= Len(store)
<1>1. Len(store) \in Nat /\ DOMAIN store = 1..Len(store)
  BY LenProperties
<1>2. CASE place > Len(store)
  BY <1>1, <1>2 DEF Without
<1>3. CASE ~(place > Len(store))
  <2> DEFINE a == SubSeq(store, 1, place - 1)
             b == SubSeq(store, place + 1, Len(store))
  <2>1. place \in 1..Len(store) /\ \A i \in 1..Len(store) : store[i] \in Holdable
    BY <1>1, <1>3, ElementOfSeq
  <2>2. Without(place) = a \o b
    BY <1>3, Zenon DEF Without, RemoveAt
  <2>3. a \in Seq(Holdable) /\ Len(a) = place - 1
    <3>1. \A i \in 1..(place - 1) : store[i] \in Holdable
      BY <1>1, <2>1
    <3> QED
      BY <1>1, <2>1, <3>1, SubSeqProperties
  <2>4. b \in Seq(Holdable) /\ Len(b) = Len(store) - place
    <3>1. \A i \in (place + 1)..Len(store) : store[i] \in Holdable
      BY <1>1, <2>1
    <3>2. place + 1 \in Int /\ Len(store) \in Int
      BY <1>1, <2>1
    <3>3. /\ b \in Seq(Holdable)
          /\ Len(b) = IF place + 1 <= Len(store) THEN Len(store) - (place + 1) + 1 ELSE 0
      BY <3>1, <3>2, SubSeqProperties
    <3> DEFINE n == Len(store)
               k == Len(b)
    <3>4. /\ n \in Nat /\ place \in 1..n
          /\ k = IF place + 1 <= n THEN n - (place + 1) + 1 ELSE 0
      BY <1>1, <2>1, <3>3
    <3> HIDE DEF b, n, k
    <3>5. k = n - place
      BY <3>4
    <3> QED
      BY <3>3, <3>5 DEF n, k
  <2> HIDE DEF a, b
  <2>5. a \o b \in Seq(Holdable) /\ Len(a \o b) = Len(a) + Len(b)
    BY <2>3, <2>4, ConcatProperties
  <2> DEFINE c == a \o b
  <2>6. c \in Seq(Holdable) /\ Len(c) = Len(a) + Len(b) /\ Without(place) = c
    BY <2>2, <2>5
  <2> HIDE DEF c
  <2> QED
    BY <1>1, <2>1, <2>3, <2>4, <2>6
<1> QED
  BY <1>2, <1>3

(* begin_write: the place is a slot of the store. *)
LEMMA PlacesAreSlots ==
  ASSUME store \in Seq(Holdable), Len(store) <= Slots, NEW name
  PROVE  \A place \in Places(name) : place \in 1..(Len(store) + 1) /\ place <= Slots
<1> DEFINE same == {i \in DOMAIN store : store[i].name = name}
<1>1. Len(store) \in Nat /\ DOMAIN store = 1..Len(store)
  BY LenProperties
<1>2. same \subseteq DOMAIN store
  OBVIOUS
<1>3. Places(name) = IF same # {} THEN same
                     ELSE IF Len(store) < Slots THEN {Len(store) + 1} ELSE DOMAIN store
  BY DEF Places
<1> HIDE DEF same
<1> QED
  BY <1>1, <1>2, <1>3, OffersAssumption

(* The first image that is needed is one of the online manifest. *)
LEMMA FirstNeeded ==
  ASSUME NEW need \in SUBSET DOMAIN Online, need # {}
  PROVE  Min(need) \in need
<1>1. DOMAIN Online = 1..Len(Online) /\ Len(Online) \in Nat
  BY OffersAssumption, LenProperties
<1>2. need \subseteq Nat
  BY <1>1
<1>3. \E x \in need : \A y \in need : x <= y
  <2> SUFFICES ASSUME \A x \in need : ~(\A y \in need : x <= y)
               PROVE  FALSE
    OBVIOUS
  <2> DEFINE R == OpToRel(<, Nat)
  <2>1. IsWellFoundedOn(R, Nat)
    BY NatLessThanWellFounded
  <2>2. PICK x \in need : \A y \in need : ~(<<y, x>> \in R)
    BY <1>2, <2>1, WFMin
  <2>3. \A y \in need : ~(y < x)
    BY <1>2, <2>2 DEF OpToRel
  <2> QED
    BY <1>2, <2>3
<1> QED
  BY <1>3 DEF Min

----------------------------------------------------------------------------
(* What a step leaves true *)

(* Every device of t is unknown, or as it was in regs. *)
Same(t, regs) ==
  \A i \in DOMAIN t :
    \/ t[i].identified = FALSE /\ t[i].offer = NoOffer
    \/ \E j \in DOMAIN regs :
         /\ t[i].mac = regs[j].mac /\ t[i].identified = regs[j].identified
         /\ t[i].hw = regs[j].hw /\ t[i].offer = regs[j].offer

(* What is saved stays true of devices that stay what they are. *)
LEMMA SameTells ==
  ASSUME NEW list, NEW regs, NEW t, Tells(list, regs),
         \A i \in DOMAIN t :
           \/ t[i].identified = FALSE
           \/ \E j \in DOMAIN regs :
                /\ t[i].mac = regs[j].mac /\ t[i].identified = regs[j].identified
                /\ t[i].hw = regs[j].hw
  PROVE  Tells(list, t)
<1>1. ASSUME NEW k \in DOMAIN list, NEW i \in DOMAIN t, list[k].mac = t[i].mac,
             t[i].identified
      PROVE  /\ list[k].id = t[i].hw.id /\ list[k].kind = t[i].hw.kind
             /\ list[k].version = t[i].hw.version
  <2>1. PICK j \in DOMAIN regs : /\ t[i].mac = regs[j].mac /\ t[i].hw = regs[j].hw
                                 /\ t[i].identified = regs[j].identified
    BY <1>1
  <2> QED
    BY <1>1, <2>1 DEF Tells
<1>2. ASSUME NEW i \in DOMAIN t, t[i].identified, t[i].mac \notin Macs(list)
      PROVE  Len(list) = MaxKnown
  <2>1. PICK j \in DOMAIN regs : /\ t[i].mac = regs[j].mac
                                 /\ t[i].identified = regs[j].identified
    BY <1>2
  <2> QED
    BY <1>2, <2>1 DEF Tells
<1> QED
  BY <1>1, <1>2 DEF Tells

(* The offers of such devices are current if they were. *)
LEMMA SameCurrent ==
  ASSUME OffersAreCurrent, IsRegistry(devices)', Same(devices', devices),
         UNCHANGED <<manifest, store, remote, posting, recompute, spoiled>>,
         \A i \in DOMAIN devices' : devices'[i].mac \in todo => devices'[i].mac \in todo'
  PROVE  OffersAreCurrent'
<1>1. Listed' = Listed
  BY DEF Listed
<1>2. CASE recompute \/ posting \/ spoiled
  BY <1>2 DEF OffersAreCurrent
<1>3. CASE ~(recompute \/ posting \/ spoiled)
  <2>1. \A j \in DOMAIN devices :
          devices[j].mac \in todo \/ UpToDate(devices[j], Listed)
    BY <1>3 DEF OffersAreCurrent, Current, UpToDate
  <2>2. ASSUME NEW i \in DOMAIN devices', devices'[i].mac \notin todo
        PROVE  UpToDate(devices'[i], Listed)
    <3>1. CASE devices'[i].identified = FALSE /\ devices'[i].offer = NoOffer
      BY <3>1 DEF UpToDate
    <3>2. CASE \E j \in DOMAIN devices :
                 /\ devices'[i].mac = devices[j].mac
                 /\ devices'[i].identified = devices[j].identified
                 /\ devices'[i].hw = devices[j].hw /\ devices'[i].offer = devices[j].offer
      BY <2>1, <2>2, <3>2 DEF UpToDate
    <3> QED
      BY <3>1, <3>2 DEF Same
  <2>3. \A i \in DOMAIN devices' : devices'[i].mac \in todo' \/ UpToDate(devices'[i], Listed')
    BY <1>1, <2>2
  <2> QED
    BY <2>3 DEF OffersAreCurrent, Current, UpToDate
<1> QED
  BY <1>2, <1>3

(* If nothing changes of what an offer is computed from, offers stay current. *)
LEMMA StillCurrent ==
  ASSUME OffersAreCurrent,
         UNCHANGED <<manifest, store, remote, posting, recompute, spoiled, todo, devices>>
  PROVE  OffersAreCurrent'
<1>1. Listed' = Listed
  BY DEF Listed
<1> QED
  BY <1>1 DEF OffersAreCurrent, Current

(* Nothing stands against it at the start. *)
LEMMA Start == Init => IInv
<1> SUFFICES ASSUME Init PROVE IInv
  OBVIOUS
<1>1. /\ devices = <<>> /\ known = <<>> /\ store = <<>> /\ queue = <<>>
      /\ DOMAIN devices = {} /\ DOMAIN known = {} /\ Len(known) = 0 /\ Len(queue) = 0
      /\ Len(store) = 0
  BY DEF Init
<1>2. /\ Slots \in Nat /\ MaxKnown \in Nat /\ MaxQueue \in Nat /\ Bundled \in Manifest
  BY OffersAssumption
<1>3. IsRegistry(devices) /\ IsBlob(known)
  BY <1>1, <1>2 DEF IsRegistry, IsBlob, Distinct
<1>4. InPlace
  BY <1>1, <1>2 DEF Init, InPlace
<1>5. Flags /\ Busy
  <2>1. queue \in Seq(Device)
    BY <1>1
  <2>2. manifest \in Manifest /\ remote \in {<<>>, Online} /\ Len(queue) <= MaxQueue
    <3>1. 0 <= MaxQueue
      BY <1>2
    <3> QED
      BY <1>1, <1>2, <3>1, Zenon DEF Init
  <2>3. posting \in BOOLEAN /\ recompute \in BOOLEAN /\ spoiled \in BOOLEAN
    BY DEF Init
  <2>4. Flags
    BY <2>1, <2>2, <2>3 DEF Flags
  <2> QED
    BY <2>4 DEF Init, Busy
<1>6. OffersAreCurrent /\ OtaFits /\ Tells(known, devices)
  BY <1>1 DEF Init, OffersAreCurrent, OtaFits, Tells
<1> QED
  BY <1>3, <1>4, <1>5, <1>6 DEF IInv

----------------------------------------------------------------------------
(* The steps of the registry *)

LEMMA AdvertiseStep ==
  ASSUME IInv, NEW d \in Device, Advertise(d) PROVE IInv'
<1> DEFINE t == With(d)
<1>1. /\ IsRegistry(t) /\ Macs(t) = Macs(devices) \cup {d}
      /\ \A i \in DOMAIN t : \/ i \in DOMAIN devices /\ t[i] = devices[i]
                             \/ t[i].identified = FALSE /\ t[i].offer = NoOffer
  BY WithDevice DEF IInv
<1>2. devices' = t /\ UNCHANGED <<truth, firmware, cache, known, work, changes>>
  BY DEF Advertise
<1> HIDE DEF t
<1>3. Same(t, devices)
  BY <1>1 DEF Same
<1>4. Tells(known, t)
  BY <1>1, SameTells DEF IInv
<1>5. OffersAreCurrent'
  BY <1>1, <1>2, <1>3, SameCurrent DEF IInv, firmware, cache
<1>6. InPlace' /\ Flags' /\ OtaFits'
  BY <1>2 DEF IInv, InPlace, Flags, OtaFits, firmware, cache, work
<1>7. Busy'
  BY <1>1, <1>2 DEF IInv, Busy, firmware, cache, work
<1> QED
  BY <1>1, <1>2, <1>4, <1>5, <1>6, <1>7 DEF IInv

LEMMA AddStep ==
  ASSUME IInv, NEW d \in Device, Add(d) PROVE IInv'
<1> DEFINE w == With(d)
<1>1. /\ IsRegistry(w) /\ Macs(w) = Macs(devices) \cup {d}
      /\ \A i \in DOMAIN w : \/ i \in DOMAIN devices /\ w[i] = devices[i]
                             \/ w[i].identified = FALSE /\ w[i].offer = NoOffer
  BY WithDevice DEF IInv
<1>2. /\ devices' = [i \in DOMAIN w |->
                       IF w[i].mac = d THEN [w[i] EXCEPT !.added = TRUE] ELSE w[i]]
      /\ UNCHANGED <<truth, firmware, cache, known, work, changes>>
  BY DEF Add
<1> HIDE DEF w
<1>3. \A i \in DOMAIN w : /\ IsDevice(devices'[i]) /\ devices'[i].mac = w[i].mac
                          /\ devices'[i].identified = w[i].identified
                          /\ devices'[i].hw = w[i].hw /\ devices'[i].offer = w[i].offer
  <2> SUFFICES ASSUME NEW i \in DOMAIN w
               PROVE  /\ IsDevice(devices'[i]) /\ devices'[i].mac = w[i].mac
                      /\ devices'[i].identified = w[i].identified
                      /\ devices'[i].hw = w[i].hw /\ devices'[i].offer = w[i].offer
    OBVIOUS
  <2>1. IsDevice(w[i])
    BY <1>1 DEF IsRegistry
  <2> DEFINE r == w[i]
             a == [r EXCEPT !.added = TRUE]
  <2>2. devices'[i] = r \/ devices'[i] = a
    BY <1>2
  <2>3. /\ IsDevice(a) /\ a.mac = r.mac /\ a.identified = r.identified
        /\ a.hw = r.hw /\ a.offer = r.offer
    <3> HIDE DEF r
    <3> QED
      BY <2>1, WithAdded DEF r
  <2> HIDE DEF a
  <2> QED
    BY <2>1, <2>2, <2>3
<1>4. devices' = [i \in DOMAIN w |-> devices'[i]]
  BY <1>2
<1>5. IsRegistry(devices') /\ DOMAIN devices' = DOMAIN w /\ Macs(devices') = Macs(w)
  BY <1>1, <1>3, <1>4, RecordByRecord
<1>6. Same(devices', devices)
  BY <1>1, <1>3, <1>5 DEF Same
<1>7. Tells(known, devices')
  BY <1>1, <1>3, <1>5, SameTells DEF IInv
<1>8. OffersAreCurrent'
  BY <1>2, <1>5, <1>6, SameCurrent DEF IInv, firmware, cache
<1>9. InPlace' /\ Flags' /\ OtaFits'
  BY <1>2 DEF IInv, InPlace, Flags, OtaFits, firmware, cache, work
<1>10. Busy'
  BY <1>1, <1>2, <1>5 DEF IInv, Busy, firmware, cache, work
<1> QED
  BY <1>2, <1>5, <1>7, <1>8, <1>9, <1>10 DEF IInv

LEMMA SetAliasStep ==
  ASSUME IInv, NEW d \in Device, SetAlias(d) PROVE IInv'
<1> DEFINE j == At(d)
           r == devices[j]
           a == [r EXCEPT !.added = TRUE]
           t == [devices EXCEPT ![j] = a]
<1>1. /\ d \in Macs(devices) /\ known' = Saved(devices')
      /\ UNCHANGED <<truth, firmware, cache, work, changes>>
  BY DEF SetAlias
<1>2. devices' = t
  BY DEF SetAlias
<1>3. j \in DOMAIN devices /\ r.mac = d /\ IsDevice(r)
  BY <1>1, AtDevice DEF IInv, IsRegistry
<1>4. /\ IsDevice(a) /\ a.mac = r.mac /\ a.identified = r.identified
      /\ a.hw = r.hw /\ a.offer = r.offer
  <2> HIDE DEF r
  <2> QED
    BY <1>3, WithAdded
<1> HIDE DEF a
<1>5. /\ IsRegistry(t) /\ DOMAIN t = DOMAIN devices /\ Macs(t) = Macs(devices)
      /\ t[j] = a /\ \A i \in DOMAIN devices : i # j => t[i] = devices[i]
  <2> HIDE DEF j
  <2> QED
    BY <1>3, <1>4, OneRecord DEF IInv
<1> HIDE DEF t, j
<1>6. Same(t, devices)
  BY <1>3, <1>4, <1>5 DEF Same
<1>7. IsBlob(known') /\ Tells(known', devices')
  BY <1>1, <1>2, <1>5, SavedTells
<1>8. OffersAreCurrent'
  BY <1>1, <1>2, <1>5, <1>6, SameCurrent DEF IInv, firmware, cache
<1>9. InPlace' /\ Flags' /\ OtaFits'
  BY <1>1 DEF IInv, InPlace, Flags, OtaFits, firmware, cache, work
<1>10. Busy'
  BY <1>1, <1>2, <1>5 DEF IInv, Busy, firmware, cache, work
<1> QED
  BY <1>2, <1>5, <1>7, <1>8, <1>9, <1>10 DEF IInv

LEMMA ForgetStep ==
  ASSUME IInv, NEW d \in Device, Forget(d) PROVE IInv'
<1> DEFINE K == {i \in DOMAIN devices : devices[i].mac # d}
           t == Keep(devices, K)
<1>1. /\ session # None => session.mac # d
      /\ devices' = t /\ todo' = todo \ {d}
      /\ UNCHANGED <<truth, firmware, recompute, spoiled, known, work, changes>>
  BY DEF Forget
<1>2. K \in SUBSET DOMAIN devices /\ \A i \in K : i \in DOMAIN devices /\ devices[i].mac # d
  OBVIOUS
<1>3. \A i \in DOMAIN devices : devices[i].mac # d => i \in K
  OBVIOUS
<1> HIDE DEF K
<1>4. /\ IsRegistry(t) /\ \A i \in DOMAIN t : \E j \in K : t[i] = devices[j]
      /\ \A i \in K : \E j \in DOMAIN t : t[j] = devices[i]
  BY <1>2, SomeRecords DEF IInv
<1> HIDE DEF t
<1>5. Same(t, devices) /\ \A i \in DOMAIN t : t[i].mac # d
  BY <1>2, <1>4 DEF Same
<1>6. \A m \in Macs(devices) : m # d => m \in Macs(t)
  BY <1>3, <1>4 DEF Macs
<1>7. Tells(known, t)
  <2>1. \A i \in DOMAIN t : \E j \in DOMAIN devices : t[i] = devices[j]
    BY <1>2, <1>4
  <2>2. \A i \in DOMAIN t : \E j \in DOMAIN devices :
          /\ t[i].mac = devices[j].mac /\ t[i].identified = devices[j].identified
          /\ t[i].hw = devices[j].hw
    BY <2>1
  <2> QED
    BY <2>2, SameTells DEF IInv
<1>8. OffersAreCurrent'
  BY <1>1, <1>4, <1>5, SameCurrent DEF IInv, firmware
<1>9. InPlace' /\ Flags' /\ OtaFits'
  BY <1>1 DEF IInv, InPlace, Flags, OtaFits, firmware, work
<1>10. Busy'
  BY <1>1, <1>6 DEF IInv, Busy, work
<1> QED
  BY <1>1, <1>4, <1>7, <1>8, <1>9, <1>10 DEF IInv

(* finish_identification_, and the verification of an installed image: the records of a
   registry after one device was looked at. *)
Seen(regs, d, t, list) ==
  /\ IsRegistry(t) /\ DOMAIN t = DOMAIN regs /\ Macs(t) = Macs(regs)
  /\ \A i \in DOMAIN regs : \/ regs[i].mac # d /\ t[i] = regs[i]
                            \/ regs[i].mac = d /\ UpToDate(t[i], list)

LEMMA IdentifiedSeen ==
  ASSUME NEW regs, IsRegistry(regs), NEW d
  PROVE  Seen(regs, d, Identified(regs, d), Listed)
<1> DEFINE u(i) == Refreshed([regs[i] EXCEPT !.hw = truth[d], !.identified = TRUE], Listed)
           t == Identified(regs, d)
<1>1. t = [i \in DOMAIN regs |-> IF regs[i].mac # d THEN regs[i] ELSE u(i)]
  BY DEF Identified
<1>2. \A i \in DOMAIN regs : IsDevice(regs[i])
  BY DEF IsRegistry
<1>3. \A i \in DOMAIN regs : /\ IsDevice(u(i)) /\ u(i).mac = regs[i].mac
                             /\ UpToDate(u(i), Listed)
  <2> SUFFICES ASSUME NEW i \in DOMAIN regs
               PROVE  IsDevice(u(i)) /\ u(i).mac = regs[i].mac /\ UpToDate(u(i), Listed)
    OBVIOUS
  <2> DEFINE r == regs[i]
             x == truth[d]
             firmwares == Listed
  <2>1. IsDevice(r)
    BY <1>2
  <2> HIDE DEF r, x, firmwares
  <2> DEFINE w == [r EXCEPT !.hw = x, !.identified = TRUE]
             v == Refreshed(w, firmwares)
  <2>2. IsDevice(w) /\ w.mac = r.mac
    BY <2>1, WithIdentity
  <2>3. u(i) = v
    BY DEF r, x, firmwares
  <2> HIDE DEF w
  <2>4. IsDevice(v) /\ v.mac = r.mac /\ UpToDate(v, firmwares)
    BY <2>2, RefreshedFields
  <2> HIDE DEF u, v
  <2> QED
    BY <2>3, <2>4 DEF r, firmwares
<1> HIDE DEF u, t
<1>4. /\ t = [i \in DOMAIN regs |-> t[i]]
      /\ \A i \in DOMAIN regs : t[i] = IF regs[i].mac # d THEN regs[i] ELSE u(i)
  BY <1>1
<1>5. \A i \in DOMAIN regs : IsDevice(t[i]) /\ t[i].mac = regs[i].mac
  BY <1>2, <1>3, <1>4
<1>6. IsRegistry(t) /\ DOMAIN t = DOMAIN regs /\ Macs(t) = Macs(regs)
  BY <1>4, <1>5, RecordByRecord
<1>7. Seen(regs, d, t, Listed)
  BY <1>3, <1>4, <1>6 DEF Seen
<1> QED
  BY <1>7 DEF t

(* A device that was looked at has a current offer, and the others keep theirs. *)
LEMMA SeenCurrent ==
  ASSUME OffersAreCurrent, NEW d, Seen(devices, d, devices', Listed),
         UNCHANGED <<manifest, store, remote, posting, recompute, spoiled, todo>>
  PROVE  OffersAreCurrent'
<1>1. Listed' = Listed
  BY DEF Listed
<1>2. CASE recompute \/ posting \/ spoiled
  BY <1>2 DEF OffersAreCurrent
<1>3. CASE ~(recompute \/ posting \/ spoiled)
  <2>1. \A i \in DOMAIN devices :
          devices[i].mac \in todo \/ UpToDate(devices[i], Listed)
    BY <1>3 DEF OffersAreCurrent, Current, UpToDate
  <2>2. \A i \in DOMAIN devices' :
          devices'[i].mac \in todo' \/ UpToDate(devices'[i], Listed')
    BY <1>1, <2>1 DEF Seen
  <2> QED
    BY <2>2 DEF OffersAreCurrent, Current, UpToDate
<1> QED
  BY <1>2, <1>3

LEMMA IdentifyStep ==
  ASSUME IInv, NEW d \in Device, Identify(d) PROVE IInv'
<1>1. /\ devices' = Identified(devices, d) /\ known' = Saved(devices')
      /\ UNCHANGED <<truth, firmware, cache, work, changes>>
  BY DEF Identify
<1>2. Seen(devices, d, devices', Listed)
  BY <1>1, IdentifiedSeen DEF IInv
<1>3. IsRegistry(devices') /\ Macs(devices') = Macs(devices)
  BY <1>2 DEF Seen
<1>4. IsBlob(known') /\ Tells(known', devices')
  BY <1>1, <1>3, SavedTells
<1>5. OffersAreCurrent'
  BY <1>1, <1>2, SeenCurrent DEF IInv, firmware, cache
<1>6. InPlace' /\ Flags' /\ OtaFits'
  BY <1>1 DEF IInv, InPlace, Flags, OtaFits, firmware, cache, work
<1>7. Busy'
  BY <1>1, <1>3 DEF IInv, Busy, firmware, cache, work
<1> QED
  BY <1>3, <1>4, <1>5, <1>6, <1>7 DEF IInv

----------------------------------------------------------------------------
(* The steps of the firmware list *)

LEMMA PostManifestStep ==
  ASSUME IInv, NEW m \in Manifest, PostManifest(m) PROVE IInv'
<1> USE DEF PostManifest, cache, work
<1>1. OffersAreCurrent'
  BY DEF OffersAreCurrent
<1>2. InPlace' /\ Flags' /\ Busy' /\ OtaFits'
  BY DEF IInv, InPlace, Flags, Busy, OtaFits
<1> QED
  BY <1>1, <1>2 DEF IInv

LEMMA PostedManifestStep ==
  ASSUME IInv, PostedManifest PROVE IInv'
<1> USE DEF PostedManifest, work
<1>1. OffersAreCurrent'
  BY DEF OffersAreCurrent
<1>2. InPlace' /\ Flags' /\ Busy' /\ OtaFits'
  BY DEF IInv, InPlace, Flags, Busy, OtaFits
<1> QED
  BY <1>1, <1>2 DEF IInv

LEMMA BeginUploadStep ==
  ASSUME IInv, NEW image \in Upload, NEW place \in Places(image.name),
         BeginUpload(image, place)
  PROVE  IInv'
<1>1. place \in 1..(Len(store) + 1) /\ place <= Slots
  BY PlacesAreSlots DEF IInv, InPlace
<1>2. /\ upload' = [image |-> image, place |-> place]
      /\ UNCHANGED <<truth, manifest, store, remote, posting, cache, devices, known, work>>
  BY DEF BeginUpload
<1>3. upload'.image = image /\ upload'.place = place
  BY <1>2
<1>4. image \in Holdable
  BY DEF Holdable
<1>5. InPlace'
  <2>1. Holdable' = Holdable
    BY DEF Holdable
  <2> QED
    BY <1>1, <1>2, <1>3, <1>4 DEF IInv, InPlace
<1>6. OffersAreCurrent'
  BY <1>2, StillCurrent DEF IInv, cache
<1>7. Flags' /\ Busy' /\ OtaFits'
  BY <1>2 DEF IInv, Flags, Busy, OtaFits, cache, work
<1> QED
  BY <1>2, <1>5, <1>6, <1>7 DEF IInv

LEMMA UploadStoredStep ==
  ASSUME IInv, UploadStored PROVE IInv'
<1>1. /\ upload # None /\ store' = Put(upload.image, upload.place) /\ upload' = None
      /\ recompute' = TRUE
      /\ UNCHANGED <<truth, manifest, remote, posting, todo, spoiled, devices, known, work,
                     changes>>
  BY DEF UploadStored
<1>2. InPlace'
  <2>1. store' \in Seq(Holdable) /\ Len(store') <= Slots
    BY <1>1, PutHolds DEF IInv, InPlace
  <2> QED
    BY <1>1, <2>1 DEF InPlace
<1>3. OffersAreCurrent'
  BY <1>1 DEF OffersAreCurrent
<1>4. Flags' /\ Busy' /\ OtaFits'
  BY <1>1 DEF IInv, Flags, Busy, OtaFits, work
<1> QED
  BY <1>1, <1>2, <1>3, <1>4 DEF IInv

LEMMA UploadRejectedStep ==
  ASSUME IInv, UploadRejected PROVE IInv'
<1>1. /\ upload # None /\ store' = Without(upload.place) /\ upload' = None
      /\ spoiled' = (spoiled \/ upload.place <= Len(store))
      /\ UNCHANGED <<truth, manifest, remote, posting, recompute, todo, devices, known, work,
                     changes>>
  BY DEF UploadRejected
<1>2. /\ Len(store) \in Nat /\ Slots \in Nat /\ store \in Seq(Holdable) /\ Len(store) <= Slots
      /\ upload.place \in 1..(Len(store) + 1)
  BY <1>1, OffersAssumption, LenProperties DEF IInv, InPlace
<1>3. InPlace'
  <2>1. store' \in Seq(Holdable) /\ Len(store') <= Len(store)
    BY <1>1, <1>2, WithoutHolds
  <2>2. Len(store') \in Nat
    BY <2>1, LenProperties
  <2>3. Len(store') <= Slots
    BY <1>2, <2>1, <2>2
  <2> QED
    BY <1>1, <2>1, <2>3 DEF InPlace
<1>4. OffersAreCurrent'
  <2>1. CASE upload.place <= Len(store)
    BY <1>1, <2>1 DEF OffersAreCurrent
  <2>2. CASE ~(upload.place <= Len(store))
    <3>1. store' = store
      BY <1>1, <1>2, <2>2 DEF Without
    <3>2. Listed' = Listed
      BY <1>1, <3>1 DEF Listed
    <3>3. spoiled' <=> spoiled
      BY <1>1, <2>2
    <3> QED
      BY <1>1, <3>2, <3>3 DEF IInv, OffersAreCurrent, Current
  <2> QED
    BY <2>1, <2>2
<1>5. Flags' /\ Busy' /\ OtaFits'
  BY <1>1 DEF IInv, Flags, Busy, OtaFits, work
<1> QED
  BY <1>1, <1>3, <1>4, <1>5 DEF IInv

LEMMA RecomputeStep ==
  ASSUME IInv, Recompute PROVE IInv'
<1>1. /\ recompute' = FALSE /\ todo' = Macs(devices) /\ spoiled' = FALSE
      /\ UNCHANGED <<truth, firmware, devices, known, work, changes>>
  BY DEF Recompute
<1>2. \A i \in DOMAIN devices : devices[i].mac \in Macs(devices)
  BY DEF Macs
<1>3. OffersAreCurrent'
  BY <1>1, <1>2 DEF OffersAreCurrent
<1>4. InPlace' /\ Flags' /\ Busy' /\ OtaFits'
  BY <1>1 DEF IInv, InPlace, Flags, Busy, OtaFits, firmware, work
<1> QED
  BY <1>1, <1>3, <1>4 DEF IInv

LEMMA RecomputeDeviceStep ==
  ASSUME IInv, NEW d \in Device, RecomputeDevice(d) PROVE IInv'
<1> DEFINE j == At(d)
           r == devices[j]
           a == Refreshed(r, Listed)
           t == [devices EXCEPT ![j] = a]
<1>1. /\ d \in todo /\ todo' = todo \ {d} /\ devices' = t
      /\ UNCHANGED <<truth, firmware, recompute, spoiled, known, work, changes>>
  BY DEF RecomputeDevice, RecomputeGoesOn
<1>2. j \in DOMAIN devices /\ r.mac = d /\ IsDevice(r)
  BY <1>1, AtDevice DEF IInv, IsRegistry, Busy
<1>3. /\ IsDevice(a) /\ a.mac = r.mac /\ a.identified = r.identified
      /\ a.hw = r.hw /\ UpToDate(a, Listed)
  BY <1>2, RefreshedFields
<1> HIDE DEF a
<1>4. /\ IsRegistry(t) /\ DOMAIN t = DOMAIN devices /\ Macs(t) = Macs(devices)
      /\ t[j] = a /\ \A i \in DOMAIN devices : i # j => t[i] = devices[i]
  <2> HIDE DEF j
  <2> QED
    BY <1>2, <1>3, OneRecord DEF IInv
<1> HIDE DEF t, j
<1>5. Tells(known, t)
  <2>1. \A i \in DOMAIN t : \E k \in DOMAIN devices :
          /\ t[i].mac = devices[k].mac /\ t[i].identified = devices[k].identified
          /\ t[i].hw = devices[k].hw
    BY <1>2, <1>3, <1>4
  <2> QED
    BY <2>1, SameTells DEF IInv
<1>6. OffersAreCurrent'
  <2>1. Listed' = Listed
    BY <1>1 DEF Listed, firmware
  <2>2. CASE recompute \/ posting \/ spoiled
    BY <1>1, <2>2 DEF OffersAreCurrent, firmware
  <2>3. CASE ~(recompute \/ posting \/ spoiled)
    <3>1. \A i \in DOMAIN devices :
            devices[i].mac \in todo \/ UpToDate(devices[i], Listed)
      BY <2>3 DEF IInv, OffersAreCurrent, Current, UpToDate
    <3>2. \A i \in DOMAIN devices : devices[i].mac = d => i = j
      BY <1>2 DEF IInv, IsRegistry, Distinct
    <3>3. \A i \in DOMAIN t : t[i].mac \in todo' \/ UpToDate(t[i], Listed)
      BY <1>1, <1>3, <1>4, <3>1, <3>2
    <3> QED
      BY <1>1, <2>1, <3>3 DEF OffersAreCurrent, Current, UpToDate
  <2> QED
    BY <2>2, <2>3
<1>7. InPlace' /\ Flags' /\ OtaFits'
  BY <1>1 DEF IInv, InPlace, Flags, OtaFits, firmware, work
<1>8. Busy'
  BY <1>1, <1>4 DEF IInv, Busy, firmware, work
<1> QED
  BY <1>1, <1>4, <1>5, <1>6, <1>7, <1>8 DEF IInv

LEMMA CheckOnlineStep ==
  ASSUME IInv, CheckOnline PROVE IInv'
<1> DEFINE list == Available(manifest, Program, store', remote')
           need == {i \in DOMAIN Online : Needed(Online[i])}
           image == Online[Min(need)]
<1>1. /\ upload = None /\ remote' = Online
      /\ need = {} => store' = store
      /\ need # {} => \E place \in Places(image.name) :
                        store' \in {Put(image, place), Without(place), store}
      /\ devices' = [i \in DOMAIN devices |-> Refreshed(devices[i], list)]
      /\ spoiled' = FALSE
      /\ UNCHANGED <<truth, manifest, upload, posting, recompute, todo, known, work>>
  BY DEF CheckOnline
<1>2. store \in Seq(Holdable) /\ Len(store) <= Slots /\ Len(store) \in Nat /\ Slots \in Nat
  BY OffersAssumption, LenProperties DEF IInv, InPlace
<1>3. store' \in Seq(Holdable) /\ Len(store') <= Slots
  <2>1. CASE need = {}
    BY <1>1, <1>2, <2>1
  <2>2. CASE need # {}
    <3>1. image \in Holdable
      <4>1. need \in SUBSET DOMAIN Online
        OBVIOUS
      <4> HIDE DEF need
      <4>2. Min(need) \in DOMAIN Online
        BY <2>2, <4>1, FirstNeeded
      <4> QED
        BY <4>2 DEF Holdable
    <3> HIDE DEF need, image
    <3>2. PICK place \in Places(image.name) :
            store' \in {Put(image, place), Without(place), store}
      BY <1>1, <2>2
    <3>3. place \in 1..(Len(store) + 1) /\ place <= Slots
      BY <1>2, PlacesAreSlots
    <3>4. CASE store' = Put(image, place)
      BY <1>2, <3>1, <3>3, <3>4, PutHolds
    <3>5. CASE store' = Without(place)
      <4>1. store' \in Seq(Holdable) /\ Len(store') <= Len(store)
        BY <1>2, <3>3, <3>5, WithoutHolds
      <4>2. Len(store') \in Nat
        BY <4>1, LenProperties
      <4> QED
        BY <1>2, <4>1, <4>2
    <3> QED
      BY <1>2, <3>2, <3>4, <3>5
  <2> QED
    BY <2>1, <2>2
<1> HIDE DEF need, image
<1>4. \A i \in DOMAIN devices : IsDevice(devices[i])
  BY DEF IInv, IsRegistry
<1>5. \A i \in DOMAIN devices :
        LET u == Refreshed(devices[i], list)
        IN  /\ IsDevice(u) /\ u.mac = devices[i].mac
            /\ u.identified = devices[i].identified /\ u.hw = devices[i].hw
            /\ UpToDate(u, list)
  <2> HIDE DEF list
  <2> QED
    BY <1>4, RefreshedFields
<1>6. list = Listed'
  BY <1>1 DEF Listed
<1> HIDE DEF list
<1>7. /\ devices' = [i \in DOMAIN devices |-> devices'[i]]
      /\ \A i \in DOMAIN devices :
           /\ IsDevice(devices'[i]) /\ devices'[i].mac = devices[i].mac
           /\ devices'[i].identified = devices[i].identified
           /\ devices'[i].hw = devices[i].hw /\ UpToDate(devices'[i], list)
  BY <1>1, <1>5
<1>8. /\ IsRegistry(devices') /\ DOMAIN devices' = DOMAIN devices
      /\ Macs(devices') = Macs(devices)
  BY <1>7, RecordByRecord DEF IInv
<1>9. Tells(known, devices')
  <2>1. \A i \in DOMAIN devices' : \E k \in DOMAIN devices :
          /\ devices'[i].mac = devices[k].mac
          /\ devices'[i].identified = devices[k].identified
          /\ devices'[i].hw = devices[k].hw
    BY <1>7, <1>8
  <2> QED
    BY <2>1, SameTells DEF IInv
<1>10. OffersAreCurrent'
  <2>1. \A i \in DOMAIN devices' : UpToDate(devices'[i], Listed')
    BY <1>6, <1>7, <1>8
  <2> QED
    BY <2>1 DEF OffersAreCurrent, Current, UpToDate
<1>11. InPlace'
  BY <1>1, <1>3 DEF InPlace
<1>12. Flags' /\ OtaFits'
  BY <1>1 DEF IInv, Flags, OtaFits, work
<1>13. Busy'
  BY <1>1, <1>8 DEF IInv, Busy, work
<1> QED
  BY <1>1, <1>8, <1>9, <1>10, <1>11, <1>12, <1>13 DEF IInv

----------------------------------------------------------------------------
(* The steps of the flashing *)

(* start_job_: a session is of a device that is known, and has not passed the gate. *)
LEMMA BegunSession ==
  ASSUME NEW d, NEW id, Begun(d, id) # None
  PROVE  LET s == Begun(d, id)
         IN  /\ s = [mac |-> s.mac, fw |-> s.fw, passed |-> s.passed]
             /\ s.mac \in Macs(devices) /\ s.passed = FALSE
<1> DEFINE fw == Image(id)[1]
           s  == Begun(d, id)
<1>1. d \in Macs(devices) /\ s = [mac |-> d, fw |-> fw, passed |-> FALSE]
  BY DEF Begun
<1> HIDE DEF s, fw
<1>2. /\ s = [mac |-> s.mac, fw |-> s.fw, passed |-> s.passed] /\ s.mac = d
      /\ s.passed = FALSE
  BY <1>1
<1> QED
  BY <1>1, <1>2 DEF s

(* A step that at most begins a session. *)
LEMMA BeginsStep ==
  ASSUME IInv, NEW d, NEW id, session' = Begun(d, id),
         UNCHANGED <<truth, firmware, cache, devices, known>>,
         queue' \in Seq(Device), Len(queue') <= MaxQueue
  PROVE  IInv'
<1> DEFINE s == Begun(d, id)
<1>1. s # None => /\ s = [mac |-> s.mac, fw |-> s.fw, passed |-> s.passed]
                  /\ s.mac \in Macs(devices) /\ s.passed = FALSE
  BY BegunSession
<1>2. session' = s
  OBVIOUS
<1> HIDE DEF s
<1>3. OtaFits' /\ Busy'
  BY <1>1, <1>2 DEF IInv, Busy, OtaFits, cache
<1>4. OffersAreCurrent'
  BY StillCurrent DEF IInv, cache, firmware
<1>5. InPlace' /\ Flags'
  BY DEF IInv, InPlace, Flags, cache, firmware
<1> QED
  BY <1>3, <1>4, <1>5 DEF IInv

LEMMA ChooseStep ==
  ASSUME IInv, NEW d, NEW id, Choose(d, id) PROVE IInv'
<1>1. /\ session' = Begun(d, id)
      /\ UNCHANGED <<truth, firmware, cache, devices, known, queue, changes>>
  BY DEF Choose
<1> QED
  BY <1>1, BeginsStep DEF IInv, Flags

LEMMA PerformStep ==
  ASSUME IInv, NEW d, NEW force, Perform(d, force) PROVE IInv'
<1> DEFINE id == Of(d).offer.id
<1>1. /\ session' = Begun(d, id)
      /\ UNCHANGED <<truth, firmware, cache, devices, known, queue, changes>>
  BY DEF Perform
<1> HIDE DEF id
<1> QED
  BY <1>1, BeginsStep DEF IInv, Flags

LEMMA StartQueuedStep ==
  ASSUME IInv, StartQueued PROVE IInv'
<1> DEFINE d  == Head(queue)
           id == LatestOf(d)
<1>1. /\ session' = Begun(d, id) /\ queue # <<>> /\ queue' = Tail(queue)
      /\ UNCHANGED <<truth, firmware, cache, devices, known, changes>>
  BY DEF StartQueued
<1>2. queue' \in Seq(Device) /\ Len(queue') <= MaxQueue
  <2>1. queue \in Seq(Device) /\ Len(queue) \in Nat /\ Len(queue) <= MaxQueue /\ MaxQueue \in Nat
    BY OffersAssumption, LenProperties DEF IInv, Flags
  <2>2. Tail(queue) \in Seq(Device) /\ Len(Tail(queue)) = Len(queue) - 1
    BY <1>1, <2>1, HeadTailProperties
  <2> QED
    BY <1>1, <2>1, <2>2
<1> HIDE DEF d, id
<1> QED
  BY <1>1, <1>2, BeginsStep

LEMMA UpdateAllStep ==
  ASSUME IInv, NEW near, UpdateAll(near) PROVE IInv'
<1> DEFINE K   == {i \in DOMAIN devices : /\ devices[i].offer.update /\ devices[i].offer.ok
                                          /\ devices[i].mac \in near}
           due == Keep(devices, K)
           more == [i \in DOMAIN due |-> due[i].mac]
<1>1. /\ Len(queue) + Len(due) <= MaxQueue /\ queue' = queue \o more
      /\ UNCHANGED <<truth, firmware, cache, devices, known, session, changes>>
  BY DEF UpdateAll
<1>2. K \in SUBSET DOMAIN devices
  OBVIOUS
<1> HIDE DEF K
<1>3. IsRegistry(due) /\ Len(due) \in Nat /\ DOMAIN due = 1..Len(due)
  BY <1>2, SomeRecords DEF IInv
<1> HIDE DEF due
<1>4. more \in Seq(Device) /\ Len(more) = Len(due)
  <2>1. \A i \in 1..Len(due) : due[i].mac \in Device
    BY <1>3 DEF IsRegistry, IsDevice
  <2>2. more \in [1..Len(due) -> Device] /\ DOMAIN more = 1..Len(due)
    BY <1>3, <2>1
  <2> QED
    BY <1>3, <2>2, SeqDef, LenProperties
<1> HIDE DEF more
<1>5. queue \in Seq(Device) /\ Len(queue) \in Nat
  BY LenProperties DEF IInv, Flags
<1>6. queue' \in Seq(Device) /\ Len(queue') <= MaxQueue
  <2>1. queue \o more \in Seq(Device) /\ Len(queue \o more) = Len(queue) + Len(more)
    BY <1>4, <1>5, ConcatProperties
  <2> QED
    BY <1>1, <1>4, <2>1
<1>7. OffersAreCurrent'
  BY <1>1, StillCurrent DEF IInv, cache, firmware
<1>8. InPlace' /\ Flags' /\ Busy' /\ OtaFits'
  BY <1>1, <1>6 DEF IInv, InPlace, Flags, Busy, OtaFits, cache, firmware
<1> QED
  BY <1>1, <1>7, <1>8 DEF IInv

(* The gate compares what the device is with the image, and only that opens it. *)
LEMMA GateStep ==
  ASSUME IInv, Gate PROVE IInv'
<1> DEFINE d == session.mac
<1>1. /\ session # None /\ devices' = Identified(devices, d) /\ known' = Saved(devices')
      /\ session' = IF Compatible(truth[d], session.fw)
                    THEN [session EXCEPT !.passed = TRUE] ELSE None
      /\ UNCHANGED <<truth, firmware, cache, queue, changes>>
  BY DEF Gate, GateHw
<1>2. /\ session = [mac |-> d, fw |-> session.fw, passed |-> session.passed]
      /\ d \in Macs(devices)
  BY <1>1 DEF IInv, Busy
<1> HIDE DEF d
<1>3. Seen(devices, d, devices', Listed)
  BY <1>1, IdentifiedSeen DEF IInv
<1>4. IsRegistry(devices') /\ Macs(devices') = Macs(devices)
  BY <1>3 DEF Seen
<1>5. IsBlob(known') /\ Tells(known', devices')
  BY <1>1, <1>4, SavedTells
<1>6. OffersAreCurrent'
  BY <1>1, <1>3, SeenCurrent DEF IInv, firmware, cache
<1>7. session' # None =>
        /\ session' = [mac |-> session'.mac, fw |-> session'.fw, passed |-> session'.passed]
        /\ session'.mac = d /\ session'.fw = session.fw
        /\ Compatible(truth[d], session.fw)
  <2> DEFINE f == session.fw
             y == TRUE
             s == [session EXCEPT !.passed = y]
  <2>1. session = [mac |-> d, fw |-> f, passed |-> session.passed]
    BY <1>2
  <2>3. session' = IF Compatible(truth[d], f) THEN s ELSE None
    BY <1>1 DEF f
  <2> HIDE DEF f, y
  <2>4. s \in [mac : {d}, fw : {f}, passed : {y}]
    BY <2>1
  <2> HIDE DEF s
  <2>2. s = [mac |-> s.mac, fw |-> s.fw, passed |-> s.passed] /\ s.mac = d /\ s.fw = f
    BY <2>4
  <2> QED
    BY <2>2, <2>3 DEF f
<1>8. OtaFits'
  BY <1>1, <1>7 DEF OtaFits
<1>9. Busy'
  BY <1>1, <1>2, <1>4, <1>7 DEF IInv, Busy, cache
<1>10. InPlace' /\ Flags'
  BY <1>1 DEF IInv, InPlace, Flags, firmware, cache
<1> QED
  BY <1>4, <1>5, <1>6, <1>8, <1>9, <1>10 DEF IInv

LEMMA InstalledStep ==
  ASSUME IInv, Installed PROVE IInv'
<1> DEFINE d    == session.mac
           x    == truth'[d]
           u(i) == Refreshed([devices[i] EXCEPT !.hw = x], Listed)
<1>1. /\ devices' = [i \in DOMAIN devices |->
                       IF devices[i].mac # d THEN devices[i] ELSE u(i)]
      /\ known' = Saved(devices') /\ session' = None
      /\ UNCHANGED <<firmware, cache, queue, changes>>
  BY DEF Installed
<1>2. \A i \in DOMAIN devices : IsDevice(devices[i])
  BY DEF IInv, IsRegistry
<1>3. \A i \in DOMAIN devices : /\ IsDevice(u(i)) /\ u(i).mac = devices[i].mac
                                /\ UpToDate(u(i), Listed)
  <2> SUFFICES ASSUME NEW i \in DOMAIN devices
               PROVE  IsDevice(u(i)) /\ u(i).mac = devices[i].mac /\ UpToDate(u(i), Listed)
    OBVIOUS
  <2> DEFINE r == devices[i]
             a == [r EXCEPT !.hw = x]
             firmwares == Listed
  <2>1. IsDevice(r) /\ u(i) = Refreshed(a, firmwares)
    BY <1>2
  <2> HIDE DEF r, x, firmwares, u
  <2>2. IsDevice(a) /\ a.mac = r.mac
    BY <2>1, WithHw
  <2> HIDE DEF a
  <2>3. IsDevice(u(i)) /\ u(i).mac = r.mac /\ UpToDate(u(i), firmwares)
    BY <2>1, <2>2, RefreshedFields
  <2> QED
    BY <2>3 DEF r, firmwares
<1> HIDE DEF u, d
<1>4. \A i \in DOMAIN devices : IsDevice(devices'[i]) /\ devices'[i].mac = devices[i].mac
  BY <1>1, <1>2, <1>3
<1>5. /\ IsRegistry(devices') /\ DOMAIN devices' = DOMAIN devices
      /\ Macs(devices') = Macs(devices)
  <2>1. devices' = [i \in DOMAIN devices |-> devices'[i]]
    BY <1>1
  <2> QED
    BY <1>4, <2>1, RecordByRecord DEF IInv
<1>6. Seen(devices, d, devices', Listed)
  BY <1>1, <1>3, <1>5 DEF Seen
<1>7. IsBlob(known') /\ Tells(known', devices')
  BY <1>1, <1>5, SavedTells
<1>8. OffersAreCurrent'
  BY <1>1, <1>6, SeenCurrent DEF IInv, firmware, cache
<1>9. InPlace' /\ Flags' /\ OtaFits'
  BY <1>1 DEF IInv, InPlace, Flags, OtaFits, firmware, cache
<1>10. Busy'
  BY <1>1, <1>5 DEF IInv, Busy, cache
<1> QED
  BY <1>5, <1>7, <1>8, <1>9, <1>10 DEF IInv

LEMMA SessionFailsStep ==
  ASSUME IInv, SessionFails PROVE IInv'
<1>1. /\ session' = None /\ known' = Saved(devices)
      /\ UNCHANGED <<firmware, cache, devices, queue, changes>>
  BY DEF SessionFails
<1>2. IsBlob(known') /\ Tells(known', devices)
  BY <1>1, SavedTells DEF IInv
<1>3. OffersAreCurrent'
  BY <1>1, StillCurrent DEF IInv, firmware, cache
<1>4. InPlace' /\ Flags' /\ OtaFits' /\ Busy'
  BY <1>1 DEF IInv, InPlace, Flags, OtaFits, Busy, firmware, cache
<1> QED
  BY <1>1, <1>2, <1>3, <1>4 DEF IInv

(* After a restart the offers are those of what flash and NVS hold. *)
LEMMA RestartStep ==
  ASSUME IInv, Restart PROVE IInv'
<1> DEFINE list == Available(manifest, Program, store', <<>>)
<1>1. /\ remote' = <<>> /\ upload' = None /\ posting' = FALSE
      /\ store' = IF upload = None THEN store ELSE Without(upload.place)
      /\ devices' = Loaded(list)
      /\ recompute' = FALSE /\ todo' = {} /\ spoiled' = FALSE
      /\ queue' = <<>> /\ session' = None
      /\ UNCHANGED <<truth, manifest, known, changes>>
  BY DEF Restart
<1>2. list = Listed'
  BY <1>1 DEF Listed
<1> HIDE DEF list
<1>3. /\ IsRegistry(devices') /\ Tells(known, devices')
      /\ \A i \in DOMAIN devices' : UpToDate(devices'[i], list)
  BY <1>1, LoadedTells DEF IInv
<1>4. OffersAreCurrent'
  BY <1>2, <1>3 DEF OffersAreCurrent, Current, UpToDate
<1>5. InPlace'
  <2>1. store \in Seq(Holdable) /\ Len(store) <= Slots /\ Len(store) \in Nat /\ Slots \in Nat
    BY OffersAssumption, LenProperties DEF IInv, InPlace
  <2>2. CASE upload = None
    BY <1>1, <2>1, <2>2 DEF InPlace
  <2>3. CASE upload # None
    <3>1. upload.place \in 1..(Len(store) + 1)
      BY <2>3 DEF IInv, InPlace
    <3>2. store' \in Seq(Holdable) /\ Len(store') <= Len(store)
      BY <1>1, <2>1, <2>3, <3>1, WithoutHolds
    <3>3. Len(store') \in Nat
      BY <3>2, LenProperties
    <3>4. Len(store') <= Slots
      BY <2>1, <3>2, <3>3
    <3> QED
      BY <1>1, <3>2, <3>4 DEF InPlace
  <2> QED
    BY <2>2, <2>3
<1>6. Flags'
  <2>1. queue' \in Seq(Device) /\ Len(queue') = 0 /\ 0 <= MaxQueue
    BY <1>1, OffersAssumption
  <2>2. Len(queue') <= MaxQueue
    BY <2>1
  <2> QED
    BY <1>1, <2>1, <2>2 DEF IInv, Flags
<1>7. Busy' /\ OtaFits'
  BY <1>1 DEF Busy, OtaFits
<1> QED
  BY <1>1, <1>3, <1>4, <1>5, <1>6, <1>7 DEF IInv

LEMMA StutterStep ==
  ASSUME IInv, UNCHANGED vars PROVE IInv'
<1> USE DEF vars, firmware, cache, work
<1>1. OffersAreCurrent'
  BY StillCurrent DEF IInv
<1> QED
  BY <1>1 DEF IInv, InPlace, Flags, Busy, OtaFits

----------------------------------------------------------------------------
(* Loops *)

(* A set of numbers that has 0, and with a number below n the next one, has all up to n. *)
LEMMA NumbersReached ==
  ASSUME NEW n \in Nat, NEW S, 0 \in S, \A i \in 1..n : i - 1 \in S => i \in S
  PROVE  0..n \subseteq S
<1> DEFINE rest == (0..n) \ S
           R == OpToRel(<, Nat)
<1> SUFFICES ASSUME rest # {} PROVE FALSE
  OBVIOUS
<1>1. rest \subseteq Nat
  OBVIOUS
<1>2. IsWellFoundedOn(R, Nat)
  BY NatLessThanWellFounded
<1>3. PICK least \in rest : \A j \in rest : ~(<<j, least>> \in R)
  BY <1>1, <1>2, WFMin
<1>4. \A j \in rest : ~(j < least)
  BY <1>1, <1>3 DEF OpToRel
<1>5. least \in 1..n /\ least - 1 \in 0..n /\ least - 1 < least
  OBVIOUS
<1>6. least - 1 \in S
  BY <1>4, <1>5
<1> QED
  BY <1>5, <1>6

(* What n passes of a loop over X do, and what f they leave. *)
Passes(n, X) == [1..n -> [X -> X]]

IsRun(f, n, X, start, pass) ==
  f \in [0..n -> X] /\ f[0] = start /\ \A i \in 1..n : f[i] = pass[i][f[i - 1]]

(* A loop of n passes has a run, whatever a pass does. *)
LEMMA LoopRuns ==
  ASSUME NEW n \in Nat, NEW X, NEW start \in X, NEW pass \in Passes(n, X)
  PROVE  \E f : IsRun(f, n, X, start, pass)
<1> DEFINE Run(k) == {f \in [0..k -> X] : /\ f[0] = start
                                          /\ \A i \in 1..k : f[i] = pass[i][f[i - 1]]}
           S == {k \in 0..n : Run(k) # {}}
<1>1. 0 \in S
  <2>1. [k \in 0..0 |-> start] \in Run(0)
    OBVIOUS
  <2> QED
    BY <2>1
<1>2. ASSUME NEW k \in 1..n, k - 1 \in S PROVE k \in S
  <2>1. PICK f : f \in Run(k - 1)
    BY <1>2
  <2> DEFINE g == [i \in 0..k |-> IF i = k THEN pass[k][f[k - 1]] ELSE f[i]]
  <2>2. /\ k \in 0..n /\ k - 1 \in 0..(k - 1)
        /\ \A i \in 0..k : i # k => i \in 0..(k - 1)
        /\ \A i \in 1..k : i - 1 \in 0..(k - 1) /\ i - 1 # k /\ (i # k => i \in 1..(k - 1))
        /\ 0 \in 0..k /\ 0 # k /\ \A i \in 1..k : i \in 0..k /\ i - 1 \in 0..k
    OBVIOUS
  <2>3. /\ f \in [0..(k - 1) -> X] /\ f[0] = start
        /\ \A i \in 1..(k - 1) : f[i] = pass[i][f[i - 1]]
    BY <2>1
  <2>4. f[k - 1] \in X
    BY <2>2, <2>3
  <2>5. pass[k][f[k - 1]] \in X
    BY <2>4 DEF Passes
  <2>6. g \in [0..k -> X]
    BY <2>2, <2>3, <2>5
  <2>7. g[0] = start
    BY <2>2, <2>3
  <2>8. ASSUME NEW i \in 1..k PROVE g[i] = pass[i][g[i - 1]]
    BY <2>2, <2>3
  <2> HIDE DEF g
  <2>9. g \in Run(k)
    BY <2>6, <2>7, <2>8
  <2> QED
    BY <2>2, <2>9
<1> HIDE DEF S
<1>3. 0..n \subseteq S
  BY <1>1, <1>2, NumbersReached
<1>4. n \in S
  BY <1>3
<1> QED
  BY <1>4 DEF S, IsRun

(* What get_latest_for_device has found after each pass. *)
LEMMA LatestLoop ==
  ASSUME NEW hw, NEW T, NEW list \in Seq(T)
  PROVE  \E best : /\ best[0] = <<>>
                   /\ \A i \in 1..Len(list) :
                        best[i] = IF /\ Eligible(hw, list[i])
                                     /\ best[i - 1] = <<>> \/ Better(list[i], best[i - 1][1])
                                  THEN <<list[i]>> ELSE best[i - 1]
                   /\ Latest(hw, list) = best[Len(list)]
<1> DEFINE n == Len(list)
           X == {<<>>} \cup {<<list[i]>> : i \in 1..n}
           After(i, so_far) == IF Eligible(hw, list[i]) /\ (so_far = <<>> \/ Better(list[i], so_far[1]))
                         THEN <<list[i]>> ELSE so_far
           pass == [i \in 1..n |-> [so_far \in X |-> After(i, so_far)]]
           IsLoop(f) == f = [i \in 0..n |-> IF i = 0 THEN <<>> ELSE After(i, f[i - 1])]
<1>1. n \in Nat
  BY LenProperties
<1>2. Latest(hw, list) = (CHOOSE f : IsLoop(f))[n]
  BY DEF Latest
<1>3. \E f : IsLoop(f)
  <2>1. \A i \in 1..n, so_far \in X : After(i, so_far) \in X
    OBVIOUS
  <2>2. pass \in Passes(n, X) /\ <<>> \in X
    BY <2>1 DEF Passes
  <2> HIDE DEF X, After
  <2>3. \A i \in 1..n, so_far \in X : pass[i][so_far] = After(i, so_far)
    OBVIOUS
  <2> HIDE DEF pass, n
  <2>4. PICK f : IsRun(f, n, X, <<>>, pass)
    BY <1>1, <2>2, LoopRuns
  <2>5. \A i \in 1..n : f[i - 1] \in X
    BY <1>1, <2>4 DEF IsRun
  <2>6. \A i \in 0..n : f[i] = IF i = 0 THEN <<>> ELSE After(i, f[i - 1])
    BY <1>1, <2>3, <2>4, <2>5 DEF IsRun
  <2> QED
    BY <2>4, <2>6 DEF IsRun
<1>4. PICK best : best = (CHOOSE f : IsLoop(f))
  OBVIOUS
<1> HIDE DEF After
<1>5. IsLoop(best)
  BY <1>3, <1>4
<1>6. best[0] = <<>> /\ \A i \in 1..n : best[i] = After(i, best[i - 1])
  BY <1>1, <1>5
<1>7. Latest(hw, list) = best[n]
  BY <1>2, <1>4
<1> HIDE DEF IsLoop, n
<1> QED
  BY <1>6, <1>7, Zenon DEF After, n

(* The newest of the eligible images among the first k, b, or that there is none. *)
Newest(hw, list, k, b) ==
  LET eligible == {i \in 1..k : Eligible(hw, list[i])} IN
  \/ b = <<>> /\ eligible = {}
  \/ \E m \in eligible :
       /\ b = <<list[m]>>
       /\ \A i \in eligible :
            /\ list[i].version <= list[m].version
            /\ list[i].version = list[m].version /\ list[i].size # NoBytes
               => list[m].size # NoBytes

(* get_latest_for_device finds the newest. *)
LEMMA LatestFinds ==
  ASSUME NEW hw, NEW T, NEW list \in Seq(T), \A i \in 1..Len(list) : list[i].version \in Int
  PROVE  Newest(hw, list, Len(list), Latest(hw, list))
<1> DEFINE n == Len(list)
<1>1. n \in Nat
  BY LenProperties
<1>2. PICK best : /\ best[0] = <<>>
                  /\ \A i \in 1..n :
                       best[i] = IF /\ Eligible(hw, list[i])
                                    /\ best[i - 1] = <<>> \/ Better(list[i], best[i - 1][1])
                                 THEN <<list[i]>> ELSE best[i - 1]
                  /\ Latest(hw, list) = best[n]
  BY LatestLoop
<1> HIDE DEF n
<1> DEFINE S == {k \in 0..n : Newest(hw, list, k, best[k])}
<1>3. 0 \in S
  BY <1>1, <1>2 DEF Newest
<1>4. ASSUME NEW k \in 1..n, k - 1 \in S PROVE k \in S
  <2> DEFINE b == best[k - 1]
             old == {i \in 1..(k - 1) : Eligible(hw, list[i])}
             new == {i \in 1..k : Eligible(hw, list[i])}
  <2>1. Newest(hw, list, k - 1, b)
    BY <1>4
  <2>2. /\ k \in new <=> Eligible(hw, list[k])
        /\ \A i \in new : i \in old \/ i = k
        /\ \A i \in old : i \in new
    BY <1>1
  <2>3. /\ k \in 0..n /\ list[k].version \in Int
        /\ \A i \in new : list[i].version \in Int
        /\ \A i \in old : list[i].version \in Int
    BY <1>1 DEF n
  <2>4. best[k] = IF Eligible(hw, list[k]) /\ (b = <<>> \/ Better(list[k], b[1]))
                  THEN <<list[k]>> ELSE b
    BY <1>2
  <2>5. \/ b = <<>> /\ old = {}
        \/ \E m \in old :
             /\ b = <<list[m]>>
             /\ \A i \in old :
                  /\ list[i].version <= list[m].version
                  /\ list[i].version = list[m].version /\ list[i].size # NoBytes
                     => list[m].size # NoBytes
    BY <2>1 DEF Newest
  <2> HIDE DEF b, old
  <2>6. SUFFICES
          \/ best[k] = <<>> /\ new = {}
          \/ \E m \in new :
               /\ best[k] = <<list[m]>>
               /\ \A i \in new :
                    /\ list[i].version <= list[m].version
                    /\ list[i].version = list[m].version /\ list[i].size # NoBytes
                       => list[m].size # NoBytes
    BY <2>3 DEF Newest
  <2> HIDE DEF new
  <2>7. CASE ~Eligible(hw, list[k])
    <3>1. best[k] = b /\ \A i \in new : i \in old
      BY <2>2, <2>4, <2>7, Zenon
    <3> QED
      BY <2>2, <2>5, <3>1
  <2>8. CASE Eligible(hw, list[k]) /\ b = <<>> /\ old = {}
    BY <2>2, <2>3, <2>4, <2>8
  <2>9. ASSUME Eligible(hw, list[k]), NEW m \in old, b = <<list[m]>>,
               \A i \in old :
                 /\ list[i].version <= list[m].version
                 /\ list[i].version = list[m].version /\ list[i].size # NoBytes
                    => list[m].size # NoBytes
        PROVE  \E j \in new :
                 /\ best[k] = <<list[j]>>
                 /\ \A i \in new :
                      /\ list[i].version <= list[j].version
                      /\ list[i].version = list[j].version /\ list[i].size # NoBytes
                         => list[j].size # NoBytes
    <3>1. b # <<>> /\ b[1] = list[m]
      BY <2>9
    <3>2. m \in new /\ k \in new /\ list[m].version \in Int
      BY <2>2, <2>3, <2>9
    <3>3. CASE Better(list[k], list[m])
      <4>1. best[k] = <<list[k]>>
        BY <2>4, <2>9, <3>1, <3>3
      <4>2. ASSUME NEW i \in new
            PROVE  /\ list[i].version <= list[k].version
                   /\ list[i].version = list[k].version /\ list[i].size # NoBytes
                      => list[k].size # NoBytes
        <5>1. /\ list[i].version \in Int /\ list[k].version \in Int
              /\ list[m].version <= list[k].version
              /\ list[m].version = list[k].version => list[k].size # NoBytes
          BY <2>3, <3>2, <3>3 DEF Better
        <5>2. CASE i = k
          BY <5>1, <5>2
        <5>3. CASE i \in old
          <6>1. list[i].version <= list[m].version
            BY <2>9, <5>3
          <6> QED
            BY <3>2, <5>1, <6>1
        <5> QED
          BY <2>2, <5>2, <5>3
      <4> QED
        BY <3>2, <4>1, <4>2
    <3>4. CASE ~Better(list[k], list[m])
      <4>1. best[k] = <<list[m]>>
        BY <2>4, <2>9, <3>1, <3>4
      <4>2. ASSUME NEW i \in new
            PROVE  /\ list[i].version <= list[m].version
                   /\ list[i].version = list[m].version /\ list[i].size # NoBytes
                      => list[m].size # NoBytes
        <5>1. /\ list[k].version \in Int /\ list[k].version <= list[m].version
              /\ list[k].version = list[m].version /\ list[k].size # NoBytes
                 => list[m].size # NoBytes
          BY <2>3, <3>2, <3>4 DEF Better
        <5>2. CASE i = k
          BY <5>1, <5>2
        <5>3. CASE i \in old
          BY <2>9, <5>3
        <5> QED
          BY <2>2, <5>2, <5>3
      <4> QED
        BY <3>2, <4>1, <4>2
    <3> QED
      BY <3>3, <3>4
  <2> QED
    BY <2>5, <2>7, <2>8, <2>9
<1> HIDE DEF S
<1>5. 0..n \subseteq S
  BY <1>1, <1>3, <1>4, NumbersReached
<1>6. n \in S
  BY <1>1, <1>5
<1> QED
  BY <1>2, <1>6 DEF S, n

(* The images that a list may show. *)
Shown(m, program, s, r) ==
  {FromManifest(m[i], program, s) : i \in 1..Len(m)}
  \cup {FromRemote(r[i], s) : i \in 1..Len(r)}
  \cup {Sourced(s[i], "store", s[i].size) : i \in 1..Len(s)}

First(m, program, s) == [i \in DOMAIN m |-> FromManifest(m[i], program, s)]

(* The two loops of get_available_firmwares. *)
OnlineRun(out, n, first, r, s) ==
  out = CHOOSE f : f = [i \in 0..n |->
          IF i = 0 THEN first
          ELSE IF Merges(f[i - 1], r[i]) THEN f[i - 1]
               ELSE Append(f[i - 1], FromRemote(r[i], s))]

StoredRun(out, n, first, s) ==
  out = CHOOSE f : f = [i \in 0..n |->
          IF i = 0 THEN first
          ELSE IF Lists(f[i - 1], s[i]) THEN f[i - 1]
               ELSE Append(f[i - 1], Sourced(s[i], "store", s[i].size))]

(* What the first has after each pass. *)
LEMMA OnlineLoop ==
  ASSUME NEW E, NEW n \in Nat, NEW first \in Seq(E), NEW r, NEW s,
         \A i \in 1..n : FromRemote(r[i], s) \in E, NEW out,
         OnlineRun(out, n, first, r, s)
  PROVE  /\ out[0] = first
         /\ \A i \in 1..n : out[i] = IF Merges(out[i - 1], r[i]) THEN out[i - 1]
                                     ELSE Append(out[i - 1], FromRemote(r[i], s))
         /\ \A i \in 0..n : out[i] \in Seq(E)
<1> DEFINE X == Seq(E)
           After(i, so_far) == IF Merges(so_far, r[i]) THEN so_far
                               ELSE Append(so_far, FromRemote(r[i], s))
           pass == [i \in 1..n |-> [so_far \in X |-> After(i, so_far)]]
           IsLoop(f) == f = [i \in 0..n |-> IF i = 0 THEN first ELSE After(i, f[i - 1])]
<1>1. out = CHOOSE f : IsLoop(f)
  BY DEF OnlineRun
<1>2. \A i \in 1..n, so_far \in X : After(i, so_far) \in X
  BY AppendProperties
<1>3. first \in X
  OBVIOUS
<1> HIDE DEF X, After
<1>4. \E f : IsLoop(f)
  <2>1. pass \in Passes(n, X)
    BY <1>2 DEF Passes
  <2>2. \A i \in 1..n, so_far \in X : pass[i][so_far] = After(i, so_far)
    OBVIOUS
  <2> HIDE DEF pass
  <2>3. PICK f : IsRun(f, n, X, first, pass)
    BY <1>3, <2>1, LoopRuns
  <2>4. \A i \in 1..n : f[i - 1] \in X
    BY <2>3 DEF IsRun
  <2>5. \A i \in 0..n : f[i] = IF i = 0 THEN first ELSE After(i, f[i - 1])
    BY <2>2, <2>3, <2>4 DEF IsRun
  <2> QED
    BY <2>3, <2>5 DEF IsRun
<1>5. IsLoop(out)
  BY <1>1, <1>4
<1>6. out[0] = first /\ \A i \in 1..n : out[i] = After(i, out[i - 1])
  BY <1>5
<1> DEFINE S == {k \in 0..n : out[k] \in X}
<1>7. 0 \in S /\ \A k \in 1..n : k - 1 \in S => k \in S
  BY <1>2, <1>3, <1>6
<1> HIDE DEF S
<1>8. 0..n \subseteq S
  BY <1>7, NumbersReached
<1>9. \A i \in 0..n : out[i] \in X
  BY <1>8 DEF S
<1> HIDE DEF IsLoop
<1> QED
  BY <1>6, <1>9, Zenon DEF After, X

(* And after each pass of the second. *)
LEMMA StoredLoop ==
  ASSUME NEW E, NEW n \in Nat, NEW first \in Seq(E), NEW s,
         \A i \in 1..n : Sourced(s[i], "store", s[i].size) \in E, NEW out,
         StoredRun(out, n, first, s)
  PROVE  /\ out[0] = first
         /\ \A i \in 1..n : out[i] = IF Lists(out[i - 1], s[i]) THEN out[i - 1]
                                     ELSE Append(out[i - 1], Sourced(s[i], "store", s[i].size))
         /\ \A i \in 0..n : out[i] \in Seq(E)
<1> DEFINE X == Seq(E)
           After(i, so_far) == IF Lists(so_far, s[i]) THEN so_far
                               ELSE Append(so_far, Sourced(s[i], "store", s[i].size))
           pass == [i \in 1..n |-> [so_far \in X |-> After(i, so_far)]]
           IsLoop(f) == f = [i \in 0..n |-> IF i = 0 THEN first ELSE After(i, f[i - 1])]
<1>1. out = CHOOSE f : IsLoop(f)
  BY DEF StoredRun
<1>2. \A i \in 1..n, so_far \in X : After(i, so_far) \in X
  BY AppendProperties
<1>3. first \in X
  OBVIOUS
<1> HIDE DEF X, After
<1>4. \E f : IsLoop(f)
  <2>1. pass \in Passes(n, X)
    BY <1>2 DEF Passes
  <2>2. \A i \in 1..n, so_far \in X : pass[i][so_far] = After(i, so_far)
    OBVIOUS
  <2> HIDE DEF pass
  <2>3. PICK f : IsRun(f, n, X, first, pass)
    BY <1>3, <2>1, LoopRuns
  <2>4. \A i \in 1..n : f[i - 1] \in X
    BY <2>3 DEF IsRun
  <2>5. \A i \in 0..n : f[i] = IF i = 0 THEN first ELSE After(i, f[i - 1])
    BY <2>2, <2>3, <2>4 DEF IsRun
  <2> QED
    BY <2>3, <2>5 DEF IsRun
<1>5. IsLoop(out)
  BY <1>1, <1>4
<1>6. out[0] = first /\ \A i \in 1..n : out[i] = After(i, out[i - 1])
  BY <1>5
<1> DEFINE S == {k \in 0..n : out[k] \in X}
<1>7. 0 \in S /\ \A k \in 1..n : k - 1 \in S => k \in S
  BY <1>2, <1>3, <1>6
<1> HIDE DEF S
<1>8. 0..n \subseteq S
  BY <1>7, NumbersReached
<1>9. \A i \in 0..n : out[i] \in X
  BY <1>8 DEF S
<1> HIDE DEF IsLoop
<1> QED
  BY <1>6, <1>9, Zenon DEF After, X

(* A list that begins with another one. *)
Begins(long, short) == Len(short) <= Len(long) /\ \A j \in 1..Len(short) : long[j] = short[j]

(* An image that a list shows is shown by every list that begins with it. *)
LEMMA StillShown ==
  ASSUME NEW E, NEW short \in Seq(E), NEW long \in Seq(E), Begins(long, short), NEW e
  PROVE  (Merges(short, e) => Merges(long, e)) /\ (Lists(short, e) => Lists(long, e))
<1>1. /\ DOMAIN short = 1..Len(short) /\ Len(short) \in Nat
      /\ DOMAIN long = 1..Len(long) /\ Len(long) \in Nat
  BY LenProperties
<1>2. \A j \in DOMAIN short : j \in DOMAIN long /\ long[j] = short[j]
  BY <1>1 DEF Begins
<1> QED
  BY <1>2, Zenon DEF Merges, Lists

(* A list with one image more begins with the list, and shows the image. *)
LEMMA OneMore ==
  ASSUME NEW E, NEW out \in Seq(E), NEW e \in E
  PROVE  /\ Append(out, e) \in Seq(E) /\ Begins(Append(out, e), out)
         /\ \A x : x.name = e.name => Lists(Append(out, e), x)
         /\ \A x : x.name = e.name /\ x.kind = e.kind => Merges(Append(out, e), x)
<1> DEFINE t == Append(out, e)
<1>1. /\ t \in Seq(E) /\ Len(t) = Len(out) + 1 /\ t[Len(out) + 1] = e
      /\ \A j \in 1..Len(out) : t[j] = out[j]
  BY AppendProperties
<1>2. Len(out) \in Nat /\ DOMAIN t = 1..Len(t)
  BY <1>1, LenProperties
<1> HIDE DEF t
<1>3. Begins(t, out)
  BY <1>1, <1>2 DEF Begins
<1>4. Len(out) + 1 \in DOMAIN t
  BY <1>1, <1>2
<1>5. \A x : (x.name = e.name => Lists(t, x)) /\ (x.name = e.name /\ x.kind = e.kind => Merges(t, x))
  BY <1>1, <1>4, Zenon DEF Lists, Merges
<1> QED
  BY <1>1, <1>3, <1>5 DEF t

(* What an image of the list is called. *)
LEMMA SourcedFields ==
  ASSUME NEW e, NEW source, NEW size
  PROVE  LET fw == Sourced(e, source, size) IN
         /\ fw.name = e.name /\ fw.kind = e.kind /\ fw.version = e.version /\ fw.hw = e.hw
         /\ fw.source = source /\ fw.size = size
  BY DEF Sourced

(* get_available_firmwares shows the manifest in its order, and after it every image of
   the online manifest and of the store, each as one of its kind. *)
LEMMA AvailableShows ==
  ASSUME NEW M, NEW m \in Seq(M), NEW program, NEW R, NEW r \in Seq(R), NEW I, NEW s \in Seq(I)
  PROVE  LET list == Available(m, program, s, r) IN
         /\ list \in Seq(Shown(m, program, s, r)) /\ Begins(list, First(m, program, s))
         /\ \A i \in 1..Len(r) : Merges(list, r[i])
         /\ \A i \in 1..Len(s) : Lists(list, s[i])
<1> DEFINE E == Shown(m, program, s, r)
           first == First(m, program, s)
           a == Len(r)
           b == Len(s)
           one == CHOOSE f : f = [i \in 0..a |->
                    IF i = 0 THEN first
                    ELSE IF Merges(f[i - 1], r[i]) THEN f[i - 1]
                         ELSE Append(f[i - 1], FromRemote(r[i], s))]
           two == CHOOSE f : f = [i \in 0..b |->
                    IF i = 0 THEN one[a]
                    ELSE IF Lists(f[i - 1], s[i]) THEN f[i - 1]
                         ELSE Append(f[i - 1], Sourced(s[i], "store", s[i].size))]
<1>1. Available(m, program, s, r) = two[b]
  BY DEF Available, First
<1>2. Len(m) \in Nat /\ a \in Nat /\ b \in Nat /\ DOMAIN m = 1..Len(m)
  BY LenProperties
<1>3. first \in Seq(E)
  <2>1. first \in [1..Len(m) -> E]
    BY <1>2 DEF First, Shown
  <2> HIDE DEF E, first
  <2> QED
    BY <1>2, <2>1, SeqDef
<1>4. /\ \A i \in 1..a : FromRemote(r[i], s) \in E
      /\ \A i \in 1..b : Sourced(s[i], "store", s[i].size) \in E
  BY DEF Shown
<1> HIDE DEF E, first, a, b
<1>5. OnlineRun(one, a, first, r, s)
  BY DEF OnlineRun
<1>6. StoredRun(two, b, one[a], s)
  BY DEF StoredRun
<1> HIDE DEF one, two
<1>7. /\ one[0] = first
      /\ \A i \in 1..a : one[i] = IF Merges(one[i - 1], r[i]) THEN one[i - 1]
                                  ELSE Append(one[i - 1], FromRemote(r[i], s))
      /\ \A i \in 0..a : one[i] \in Seq(E)
  BY <1>2, <1>3, <1>4, <1>5, OnlineLoop, Zenon
<1>8. one[a] \in Seq(E)
  BY <1>2, <1>7
<1>9. /\ two[0] = one[a]
      /\ \A i \in 1..b : two[i] = IF Lists(two[i - 1], s[i]) THEN two[i - 1]
                                  ELSE Append(two[i - 1], Sourced(s[i], "store", s[i].size))
      /\ \A i \in 0..b : two[i] \in Seq(E)
  BY <1>2, <1>4, <1>6, <1>8, StoredLoop, Zenon
<1>10. Begins(one[a], first) /\ \A i \in 1..a : Merges(one[a], r[i])
  <2> DEFINE S == {k \in 0..a : Begins(one[k], first) /\ \A i \in 1..k : Merges(one[k], r[i])}
  <2>1. 0 \in S
    BY <1>2, <1>3, <1>7, LenProperties DEF Begins
  <2>2. ASSUME NEW k \in 1..a, k - 1 \in S PROVE k \in S
    <3> DEFINE old == one[k - 1]
               new == one[k]
               e == FromRemote(r[k], s)
    <3>1. /\ k \in 0..a /\ old \in Seq(E) /\ new \in Seq(E) /\ e \in E
          /\ \A i \in 1..k : i = k \/ i \in 1..(k - 1)
      BY <1>2, <1>4, <1>7
    <3>2. new = IF Merges(old, r[k]) THEN old ELSE Append(old, e)
      BY <1>7
    <3>3. Begins(old, first) /\ \A i \in 1..(k - 1) : Merges(old, r[i])
      BY <2>2
    <3>4. e.name = r[k].name /\ e.kind = r[k].kind
      BY SourcedFields DEF FromRemote
    <3> HIDE DEF old, new, e
    <3>5. Begins(new, old) /\ Merges(new, r[k])
      <4>1. CASE Merges(old, r[k])
        BY <3>1, <3>2, <4>1, LenProperties DEF Begins
      <4>2. CASE ~Merges(old, r[k])
        BY <3>1, <3>2, <3>4, <4>2, OneMore
      <4> QED
        BY <4>1, <4>2
    <3>6. Len(first) \in Nat /\ Len(old) \in Nat /\ Len(new) \in Nat
      BY <1>3, <3>1, LenProperties
    <3>7. Begins(new, first)
      BY <3>3, <3>5, <3>6 DEF Begins
    <3>8. \A i \in 1..k : Merges(new, r[i])
      BY <3>1, <3>3, <3>5, StillShown
    <3> QED
      BY <3>1, <3>7, <3>8 DEF new
  <2> HIDE DEF S
  <2>3. 0..a \subseteq S
    BY <1>2, <2>1, <2>2, NumbersReached
  <2>4. a \in S
    BY <1>2, <2>3
  <2> QED
    BY <2>4 DEF S
<1>11. Begins(two[b], one[a]) /\ \A i \in 1..b : Lists(two[b], s[i])
  <2> DEFINE S == {k \in 0..b : Begins(two[k], one[a]) /\ \A i \in 1..k : Lists(two[k], s[i])}
  <2>1. 0 \in S
    BY <1>2, <1>8, <1>9, LenProperties DEF Begins
  <2>2. ASSUME NEW k \in 1..b, k - 1 \in S PROVE k \in S
    <3> DEFINE old == two[k - 1]
               new == two[k]
               first2 == one[a]
               e == Sourced(s[k], "store", s[k].size)
    <3>1. /\ k \in 0..b /\ old \in Seq(E) /\ new \in Seq(E) /\ e \in E
          /\ \A i \in 1..k : i = k \/ i \in 1..(k - 1)
      BY <1>2, <1>4, <1>9
    <3>2. new = IF Lists(old, s[k]) THEN old ELSE Append(old, e)
      BY <1>9
    <3>3. Begins(old, first2) /\ \A i \in 1..(k - 1) : Lists(old, s[i])
      BY <2>2
    <3>4. e.name = s[k].name
      BY SourcedFields
    <3>5. first2 \in Seq(E)
      BY <1>8
    <3> HIDE DEF old, new, e, first2
    <3>6. Begins(new, old) /\ Lists(new, s[k])
      <4>1. CASE Lists(old, s[k])
        BY <3>1, <3>2, <4>1, LenProperties DEF Begins
      <4>2. CASE ~Lists(old, s[k])
        BY <3>1, <3>2, <3>4, <4>2, OneMore
      <4> QED
        BY <4>1, <4>2
    <3>7. Len(first2) \in Nat /\ Len(old) \in Nat /\ Len(new) \in Nat
      BY <3>1, <3>5, LenProperties
    <3>8. Begins(new, first2)
      BY <3>3, <3>6, <3>7 DEF Begins
    <3>9. \A i \in 1..k : Lists(new, s[i])
      BY <3>1, <3>3, <3>6, StillShown
    <3> QED
      BY <3>1, <3>8, <3>9 DEF new, first2
  <2> HIDE DEF S
  <2>3. 0..b \subseteq S
    BY <1>2, <2>1, <2>2, NumbersReached
  <2>4. b \in S
    BY <1>2, <2>3
  <2> QED
    BY <2>4 DEF S
<1> DEFINE list == two[b]
           mid == one[a]
<1>12. list \in Seq(E) /\ mid \in Seq(E)
  BY <1>2, <1>8, <1>9
<1>13. /\ Begins(list, mid) /\ Begins(mid, first)
       /\ \A i \in 1..a : Merges(mid, r[i])
       /\ \A i \in 1..b : Lists(list, s[i])
  BY <1>10, <1>11
<1>14. list = Available(m, program, s, r)
  BY <1>1
<1> HIDE DEF list, mid
<1>15. Len(first) \in Nat /\ Len(mid) \in Nat /\ Len(list) \in Nat
  BY <1>3, <1>12, LenProperties
<1>16. Begins(list, first)
  BY <1>13, <1>15 DEF Begins
<1>17. \A i \in 1..a : Merges(list, r[i])
  BY <1>12, <1>13, StillShown
<1> QED
  BY <1>12, <1>13, <1>14, <1>16, <1>17 DEF E, first, a, b

----------------------------------------------------------------------------
(* What the list is made of *)

(* The lists that get_available_firmwares reads are lists of images with versions. *)
LEMMA ListsRead ==
  ASSUME IInv
  PROVE  /\ \E M : manifest \in Seq(M)
         /\ \E R : remote \in Seq(R)
         /\ store \in Seq(Holdable)
         /\ \A i \in 1..Len(manifest) : manifest[i].version \in Int
         /\ \A i \in 1..Len(remote) : remote[i].version \in Int
         /\ \A i \in 1..Len(store) : store[i].version \in Int
<1>1. manifest \in Manifest /\ remote \in {<<>>, Online} /\ store \in Seq(Holdable)
  BY DEF IInv, Flags, InPlace
<1>2. manifest \in Seq({manifest[i] : i \in DOMAIN manifest})
  BY <1>1, OffersAssumption
<1>3. Online \in Seq({Online[i] : i \in DOMAIN Online})
  BY OffersAssumption
<1>4. \A i \in DOMAIN manifest : manifest[i].version \in Int
  BY <1>1, OffersAssumption
<1>5. \A i \in DOMAIN Online : Online[i].version \in Int
  BY OffersAssumption
<1>6. remote \in Seq({Online[i] : i \in DOMAIN Online})
  BY <1>1, <1>3, EmptySeq
<1>7. \A i \in 1..Len(remote) : remote[i].version \in Int
  BY <1>1, <1>3, <1>5, LenProperties
<1>8. \A image \in Holdable : image.version \in Int
  BY <1>5, OffersAssumption DEF Holdable
<1>9. \A i \in 1..Len(store) : store[i] \in Holdable
  BY <1>1, LenProperties, ElementOfSeq
<1>10. DOMAIN manifest = 1..Len(manifest)
  BY <1>2, LenProperties
<1> QED
  BY <1>1, <1>2, <1>4, <1>6, <1>7, <1>8, <1>9, <1>10

(* And so is the list it makes. *)
LEMMA ListedIsList ==
  ASSUME IInv
  PROVE  LET list == Listed IN
         /\ \E E : list \in Seq(E)
         /\ \A i \in 1..Len(list) : list[i].version \in Int
         /\ \A i \in 1..Len(manifest) :
              i \in DOMAIN list /\ list[i] = FromManifest(manifest[i], Program, store)
         /\ \A i \in 1..Len(remote) : Merges(list, remote[i])
         /\ \A i \in 1..Len(store) : Lists(list, store[i])
<1> DEFINE list == Listed
           E == Shown(manifest, Program, store, remote)
           first == First(manifest, Program, store)
<1>1. PICK M, R : manifest \in Seq(M) /\ remote \in Seq(R)
  BY ListsRead
<1>2. store \in Seq(Holdable)
  BY ListsRead
<1>3. /\ list \in Seq(E) /\ Begins(list, first)
      /\ \A i \in 1..Len(remote) : Merges(list, remote[i])
      /\ \A i \in 1..Len(store) : Lists(list, store[i])
  BY <1>1, <1>2, AvailableShows DEF Listed
<1>4. \A e \in E : e.version \in Int
  <2>1. \A i \in 1..Len(manifest) : FromManifest(manifest[i], Program, store).version \in Int
    BY ListsRead, SourcedFields DEF FromManifest
  <2>2. \A i \in 1..Len(remote) : FromRemote(remote[i], store).version \in Int
    BY ListsRead, SourcedFields DEF FromRemote
  <2>3. \A i \in 1..Len(store) : Sourced(store[i], "store", store[i].size).version \in Int
    BY ListsRead, SourcedFields
  <2> QED
    BY <2>1, <2>2, <2>3 DEF Shown
<1>5. /\ first = [i \in 1..Len(manifest) |-> FromManifest(manifest[i], Program, store)]
      /\ Len(manifest) \in Nat
  BY <1>1, LenProperties DEF First
<1>6. Len(first) = Len(manifest)
  BY <1>5
<1> HIDE DEF list, E
<1>7. DOMAIN list = 1..Len(list) /\ Len(list) \in Nat /\ \A i \in 1..Len(list) : list[i] \in E
  BY <1>3, LenProperties, ElementOfSeq
<1>8. \A i \in 1..Len(manifest) :
        i \in DOMAIN list /\ list[i] = FromManifest(manifest[i], Program, store)
  <2> SUFFICES ASSUME NEW i \in 1..Len(manifest)
               PROVE  i \in DOMAIN list /\ list[i] = FromManifest(manifest[i], Program, store)
    OBVIOUS
  <2>1. first[i] = FromManifest(manifest[i], Program, store)
    BY <1>5
  <2> HIDE DEF first
  <2>2. i \in 1..Len(list) /\ list[i] = first[i]
    BY <1>3, <1>5, <1>6, <1>7 DEF Begins
  <2> QED
    BY <1>7, <2>1, <2>2
<1> QED
  BY <1>3, <1>4, <1>7, <1>8 DEF list

----------------------------------------------------------------------------
(* The theorems *)

(* Every step of Offers keeps the inductive invariant. *)
THEOREM Inductive == IInv /\ [Next]_vars => IInv'
<1> SUFFICES ASSUME IInv, [Next]_vars PROVE IInv'
  OBVIOUS
<1>1. ASSUME Registry PROVE IInv'
  <2>1. PICK d \in Device : Advertise(d) \/ Add(d) \/ SetAlias(d) \/ Forget(d) \/ Identify(d)
    BY <1>1 DEF Registry
  <2> QED
    BY <2>1, AdvertiseStep, AddStep, SetAliasStep, ForgetStep, IdentifyStep
<1>2. ASSUME Provider PROVE IInv'
  BY <1>2, PostManifestStep, PostedManifestStep, BeginUploadStep, UploadStoredStep,
     UploadRejectedStep, RecomputeStep, RecomputeDeviceStep, CheckOnlineStep DEF Provider
<1>3. ASSUME Flashing PROVE IInv'
  BY <1>3, ChooseStep, PerformStep, UpdateAllStep, StartQueuedStep, GateStep, InstalledStep,
     SessionFailsStep DEF Flashing
<1> QED
  BY <1>1, <1>2, <1>3, RestartStep, StutterStep DEF Next

(* The inductive invariant holds in every behaviour. *)
THEOREM Invariant == Spec => []IInv
<1>1. Init => IInv
  BY Start
<1>2. IInv /\ [Next]_vars => IInv'
  BY Inductive
<1> QED
  BY <1>1, <1>2, PTL DEF Spec

(* A registry has as many addresses as entries. *)
LEMMA OneEntryEach ==
  ASSUME NEW regs, IsRegistry(regs)
  PROVE  Cardinality(Macs(regs)) = Len(regs)
<1> DEFINE n == Len(regs)
           f == [i \in 1..n |-> regs[i].mac]
<1>1. n \in Nat /\ DOMAIN regs = 1..n
  BY RegistryShape DEF IsRegistry
<1>2. f \in [1..n -> Macs(regs)] /\ \A i, j \in 1..n : f[i] = f[j] => i = j
  BY <1>1 DEF Macs, IsRegistry, Distinct
<1>3. \A m \in Macs(regs) : \E i \in 1..n : f[i] = m
  BY <1>1 DEF Macs
<1> HIDE DEF f, n
<1>4. f \in Bijection(1..n, Macs(regs))
  BY <1>2, <1>3 DEF Bijection, Injection, Surjection, IsInjective
<1>5. ExistsBijection(1..n, Macs(regs))
  BY <1>4 DEF ExistsBijection
<1>6. IsFiniteSet(1..n) /\ Cardinality(1..n) = n
  BY <1>1, FS_Interval
<1> QED
  BY <1>5, <1>6, FS_Bijection DEF n

(* Type correctness of the registry, the saved records, the store and the queue. *)
THEOREM TypeCorrect == Spec => []TypeOK
<1>1. IInv => TypeOK
  <2> SUFFICES ASSUME IInv PROVE TypeOK
    OBVIOUS
  <2>1. Cardinality(Macs(devices)) = Len(devices)
    BY OneEntryEach DEF IInv
  <2>2. Macs(devices) \subseteq Device
    BY DEF IInv, IsRegistry, IsDevice, Macs
  <2>3. /\ posting \in BOOLEAN /\ recompute \in BOOLEAN /\ spoiled \in BOOLEAN
        /\ manifest \in Manifest /\ remote \in {<<>>, Online} /\ Len(queue) <= MaxQueue
    BY DEF IInv, Flags
  <2>4. Len(store) <= Slots /\ Len(known) <= MaxKnown
    BY DEF IInv, InPlace, IsBlob
  <2>5. todo \subseteq Macs(devices) /\ (session # None => session.mac \in Macs(devices))
    BY DEF IInv, Busy
  <2> QED
    BY <2>1, <2>2, <2>3, <2>4, <2>5 DEF TypeOK
<1> QED
  BY <1>1, Invariant, PTL

(* The cached offers are what the rules say of hardware and firmware list now, unless a
   recomputation is due (recompute_eligibility_ and its callers). *)
THEOREM OffersStayCurrent == Spec => []OffersAreCurrent
<1>1. IInv => OffersAreCurrent
  BY DEF IInv
<1> QED
  BY <1>1, Invariant, PTL

(* An image goes only to a device that may have it as the device is
   (step_prepare_ota_). *)
THEOREM OtaAlwaysFits == Spec => []OtaFits
<1>1. IInv => OtaFits
  BY DEF IInv
<1> QED
  BY <1>1, Invariant, PTL

(* What survives a restart is what the last identifications said
   (save_known_devices_, load_known_devices_). *)
THEOREM SavedStaysTrue == Spec => []SavedIsTrue
<1>1. IInv => SavedIsTrue
  <2> SUFFICES ASSUME IInv PROVE SavedIsTrue
    OBVIOUS
  <2>1. Tells(known, devices)
    BY DEF IInv
  <2>2. SavedIsCurrent
    BY <2>1 DEF Tells, SavedIsCurrent
  <2>3. UnsavedOnlyIfFull
    BY <2>1 DEF Tells, Macs, UnsavedOnlyIfFull
  <2> QED
    BY <2>2, <2>3 DEF SavedIsTrue
<1> QED
  BY <1>1, Invariant, PTL

(* The newest image that the rules allow is the one offered, and one with its bytes at
   hand if there is one of that version, whatever the lists and their order
   (get_latest_for_device, get_available_firmwares). *)
THEOREM LatestStaysNewest == Spec => []LatestIsNewest
<1>1. IInv => LatestIsNewest
  <2> DEFINE list == Listed
  <2> SUFFICES ASSUME IInv, NEW d \in Device
               PROVE  LET best     == Latest(truth[d], list)
                          eligible == {i \in DOMAIN list : Eligible(truth[d], list[i])}
                      IN /\ best = <<>> <=> eligible = {}
                         /\ \A i \in eligible :
                              /\ list[i].version <= best[1].version
                              /\ list[i].version = best[1].version /\ list[i].size # NoBytes
                                 => best[1].size # NoBytes
    BY DEF LatestIsNewest
  <2>1. PICK E : list \in Seq(E)
    BY ListedIsList
  <2>2. \A i \in 1..Len(list) : list[i].version \in Int
    BY ListedIsList
  <2>3. DOMAIN list = 1..Len(list)
    BY <2>1, LenProperties
  <2> HIDE DEF list
  <2> DEFINE best == Latest(truth[d], list)
  <2>4. Newest(truth[d], list, Len(list), best)
    BY <2>1, <2>2, LatestFinds
  <2> HIDE DEF best
  <2>5. CASE best = <<>> /\ {i \in DOMAIN list : Eligible(truth[d], list[i])} = {}
    BY <2>5 DEF best
  <2>6. ASSUME NEW m \in DOMAIN list, Eligible(truth[d], list[m]), best = <<list[m]>>,
               \A i \in {j \in DOMAIN list : Eligible(truth[d], list[j])} :
                 /\ list[i].version <= list[m].version
                 /\ list[i].version = list[m].version /\ list[i].size # NoBytes
                    => list[m].size # NoBytes
        PROVE  /\ best # <<>> /\ {i \in DOMAIN list : Eligible(truth[d], list[i])} # {}
               /\ \A i \in {j \in DOMAIN list : Eligible(truth[d], list[j])} :
                    /\ list[i].version <= best[1].version
                    /\ list[i].version = best[1].version /\ list[i].size # NoBytes
                       => best[1].size # NoBytes
    BY <2>6
  <2> QED
    BY <2>3, <2>4, <2>5, <2>6 DEF Newest, best
<1> QED
  BY <1>1, Invariant, PTL

(* Nothing is hidden: the list shows the manifest in its order, every image of the online
   manifest as one of its kind, and every image of the store. *)
NothingIsHidden ==
  LET list == Listed IN
  /\ \A i \in 1..Len(manifest) :
       i \in DOMAIN list /\ list[i] = FromManifest(manifest[i], Program, store)
  /\ \A i \in 1..Len(remote) : Merges(list, remote[i])
  /\ \A i \in 1..Len(store) : Lists(list, store[i])

(* Whatever is posted, uploaded and downloaded in whatever order, it is on the list
   (get_available_firmwares). *)
THEOREM EverythingIsListed == Spec => []NothingIsHidden
<1>1. IInv => NothingIsHidden
  BY ListedIsList DEF NothingIsHidden
<1> QED
  BY <1>1, Invariant, PTL

(* What Home Assistant shows of a device that was identified is the newest image that the
   rules allow it, and as an update only if it may be installed and, on a device with
   custom firmware, is newer than what it runs. *)
OfferedIsNewest ==
  recompute \/ posting \/ spoiled
  \/ LET list == Listed IN
     \A i \in DOMAIN devices :
       devices[i].identified /\ devices[i].mac \notin todo =>
         LET hw       == devices[i].hw
             offer    == devices[i].offer
             eligible == {j \in DOMAIN list : Eligible(hw, list[j])}
         IN \/ eligible = {} /\ offer = NoOffer
            \/ \E m \in eligible :
                 /\ offer.id = IdOf(list[m]) /\ offer.version = list[m].version
                 /\ \A j \in eligible : list[j].version <= list[m].version
                 /\ offer.ok = Compatible(hw, list[m])
                 /\ offer.update => /\ Compatible(hw, list[m])
                                    /\ hw.kind = "CUSTOM_PVVX" => hw.version < list[m].version

(* The offers follow the registry, the manifest, the store and the online manifest
   (recompute_eligibility_, get_latest_for_device). *)
THEOREM OffersStayNewest == Spec => []OfferedIsNewest
<1>1. IInv => OfferedIsNewest
  <2> DEFINE list == Listed
  <2> SUFFICES ASSUME IInv, ~recompute, ~posting, ~spoiled,
                      NEW i \in DOMAIN devices, devices[i].identified, devices[i].mac \notin todo
               PROVE  LET hw       == devices[i].hw
                          offer    == devices[i].offer
                          eligible == {j \in DOMAIN list : Eligible(hw, list[j])}
                      IN \/ eligible = {} /\ offer = NoOffer
                         \/ \E m \in eligible :
                              /\ offer.id = IdOf(list[m]) /\ offer.version = list[m].version
                              /\ \A j \in eligible : list[j].version <= list[m].version
                              /\ offer.ok = Compatible(hw, list[m])
                              /\ offer.update =>
                                   /\ Compatible(hw, list[m])
                                   /\ hw.kind = "CUSTOM_PVVX" => hw.version < list[m].version
    BY DEF OfferedIsNewest
  <2> DEFINE hw == devices[i].hw
             offer == devices[i].offer
             best == Latest(hw, list)
             eligible == {j \in DOMAIN list : Eligible(hw, list[j])}
  <2>1. offer = Offer(hw, list)
    BY DEF IInv, OffersAreCurrent, Current
  <2>2. PICK E : list \in Seq(E)
    BY ListedIsList
  <2>3. \A j \in 1..Len(list) : list[j].version \in Int
    BY ListedIsList
  <2>4. DOMAIN list = 1..Len(list)
    BY <2>2, LenProperties
  <2> HIDE DEF list, hw, offer
  <2>5. Newest(hw, list, Len(list), best)
    BY <2>2, <2>3, LatestFinds
  <2>6. /\ best = <<>> => offer = NoOffer
        /\ best # <<>> =>
             offer = [id |-> IdOf(best[1]), version |-> best[1].version,
                      ok |-> Compatible(hw, best[1]),
                      update |-> /\ Compatible(hw, best[1])
                                 /\ \/ hw.kind = "CUSTOM_PVVX" /\ hw.version < best[1].version
                                    \/ hw.kind \in {"STOCK_XIAOMI", "ATC1441"}]
    BY <2>1 DEF Offer
  <2> HIDE DEF best
  <2>7. CASE best = <<>> /\ eligible = {}
    BY <2>6, <2>7 DEF list, hw, offer
  <2>8. ASSUME NEW m \in eligible, best = <<list[m]>>,
               \A j \in eligible : list[j].version <= list[m].version
        PROVE  /\ offer.id = IdOf(list[m]) /\ offer.version = list[m].version
               /\ \A j \in eligible : list[j].version <= list[m].version
               /\ offer.ok = Compatible(hw, list[m])
               /\ offer.update => /\ Compatible(hw, list[m])
                                  /\ hw.kind = "CUSTOM_PVVX" => hw.version < list[m].version
    <3>1. best # <<>> /\ best[1] = list[m]
      BY <2>8
    <3> QED
      BY <2>6, <2>8, <3>1
  <2>9. \/ best = <<>> /\ eligible = {}
        \/ \E m \in eligible : best = <<list[m]>> /\ \A j \in eligible : list[j].version <= list[m].version
    BY <2>4, <2>5 DEF Newest
  <2> QED
    BY <2>7, <2>8, <2>9 DEF list, hw, offer
<1> QED
  BY <1>1, Invariant, PTL
=============================================================================
