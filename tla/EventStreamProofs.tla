-------------------------- MODULE EventStreamProofs --------------------------
(***************************************************************************)
(* Theorems about EventStream, for any number of connections, records and  *)
(* events, and any limits of clients and backlog.                          *)
(***************************************************************************)
EXTENDS FiniteSetTheorems, SequenceTheorems, FunctionTheorems, EventStream, TLAPS

----------------------------------------------------------------------------
(* What a loop keeps of a list *)

(* No two positions have the same rank. *)
LEMMA RanksDiffer ==
  ASSUME NEW K \in SUBSET Nat, IsFiniteSet(K)
  PROVE  /\ Cardinality(K) \in Nat
         /\ \A i \in K : Rank(K, i) \in 1..Cardinality(K)
         /\ \A i, j \in K : Rank(K, i) = Rank(K, j) => i = j
<1> DEFINE below(i) == {j \in K : j <= i}
<1>1. Cardinality(K) \in Nat
  BY FS_CardinalityType
<1>2. ASSUME NEW i \in K
      PROVE  /\ IsFiniteSet(below(i)) /\ Cardinality(below(i)) \in 1..Cardinality(K)
             /\ i \in below(i) /\ Rank(K, i) = Cardinality(below(i))
  <2>1. below(i) \in SUBSET K /\ i \in below(i)
    OBVIOUS
  <2>2. IsFiniteSet(below(i)) /\ Cardinality(below(i)) <= Cardinality(K)
    BY <2>1, FS_Subset
  <2>3. Cardinality(below(i)) \in Nat /\ Cardinality(below(i)) # 0
    BY <2>1, <2>2, FS_CardinalityType, FS_EmptySet
  <2> QED
    BY <1>1, <2>1, <2>2, <2>3 DEF Rank
<1>3. ASSUME NEW i \in K, NEW j \in K, i < j
      PROVE  Rank(K, i) # Rank(K, j)
  <2>1. i \in Nat /\ j \in Nat /\ \A k \in K : k \in Nat /\ (k <= i => k <= j)
    BY <1>3
  <2>2. /\ \A k \in below(i) : k \in below(j)
        /\ ~(j <= i) /\ j <= j
    BY <1>3, <2>1
  <2>3. IsFiniteSet(below(j))
    BY <1>2
  <2>4. below(i) \in SUBSET below(j) /\ j \notin below(i) /\ j \in below(j)
    BY <2>2, Zenon
  <2> HIDE DEF below
  <2>5. Cardinality(below(i)) # Cardinality(below(j))
    BY <2>3, <2>4, FS_Subset
  <2> QED
    BY <1>2, <2>5
<1>4. \A i, j \in K : Rank(K, i) = Rank(K, j) => ~(i < j) /\ ~(j < i)
  BY <1>3
<1>5. \A i, j \in K : ~(i < j) /\ ~(j < i) => i = j
  OBVIOUS
<1> HIDE DEF below
<1> QED
  BY <1>1, <1>2, <1>4, <1>5

(* Every rank is one of a position. *)
LEMMA RanksReached ==
  ASSUME NEW K \in SUBSET Nat, IsFiniteSet(K)
  PROVE  \A p \in 1..Cardinality(K) : \E i \in K : Rank(K, i) = p
<1> DEFINE T == 1..Cardinality(K)
           f == [i \in K |-> Rank(K, i)]
<1>1. f \in [K -> T] /\ \A i, j \in K : f[i] = f[j] => i = j
  BY RanksDiffer
<1>2. f \in Injection(K, T)
  BY <1>1 DEF Injection, IsInjective
<1>3. IsFiniteSet(T) /\ Cardinality(T) = Cardinality(K)
  BY RanksDiffer, FS_Interval
<1> HIDE DEF T
<1>4. f \in Surjection(K, T)
  BY <1>2, <1>3, FS_Injection
<1>5. \A p \in T : \E i \in K : f[i] = p
  BY <1>4 DEF Surjection
<1> QED
  BY <1>5 DEF T

(* The elements at the positions K are kept, each once. *)
LEMMA Keeps ==
  ASSUME NEW S, NEW s \in Seq(S), NEW K \in SUBSET (DOMAIN s)
  PROVE  /\ Cardinality(K) \in Nat /\ Cardinality(K) <= Len(s) /\ IsFiniteSet(K)
         /\ \E q \in [1..Cardinality(K) -> K] :
              /\ Keep(s, K) = [p \in 1..Cardinality(K) |-> s[q[p]]]
              /\ \A p, r \in 1..Cardinality(K) : q[p] = q[r] => p = r
              /\ \A i \in K : \E p \in 1..Cardinality(K) : q[p] = i
<1> DEFINE size == Cardinality(K)
           q == [p \in 1..size |-> CHOOSE i \in K : Rank(K, i) = p]
<1>1. DOMAIN s = 1..Len(s) /\ Len(s) \in Nat /\ K \in SUBSET Nat
  BY LenProperties
<1>2. /\ IsFiniteSet(DOMAIN s) /\ Cardinality(DOMAIN s) = Len(s)
  BY <1>1, FS_Interval
<1>3. IsFiniteSet(K) /\ size <= Len(s) /\ size \in Nat
  BY <1>2, FS_Subset, FS_CardinalityType
<1>4. \A p \in 1..size : q[p] \in K /\ Rank(K, q[p]) = p
  BY <1>1, <1>3, RanksReached
<1>5. q \in [1..size -> K]
  BY <1>4
<1>6. Keep(s, K) = [p \in 1..size |-> s[q[p]]]
  BY DEF Keep
<1>7. \A i \in K : Rank(K, i) \in 1..size
  BY <1>1, <1>3, RanksDiffer
<1>8. \A i \in K : q[Rank(K, i)] = i
  <2>1. ASSUME NEW i \in K PROVE q[Rank(K, i)] = i
    <3>1. q[Rank(K, i)] \in K /\ Rank(K, q[Rank(K, i)]) = Rank(K, i)
      BY <1>4, <1>7
    <3> HIDE DEF q
    <3> QED
      BY <1>1, <1>3, <3>1, RanksDiffer
  <2> QED
    BY <2>1
<1> HIDE DEF q
<1>9. \A p, r \in 1..size : q[p] = q[r] => p = r
  BY <1>4
<1> QED
  BY <1>3, <1>5, <1>6, <1>7, <1>8, <1>9

----------------------------------------------------------------------------
(* The inductive invariant *)

Record == [owner : Conn \cup {None}, fd : BOOLEAN, allocated : BOOLEAN]

Types ==
  /\ n \in 0..MaxEvents
  /\ events \in Seq(Nat) /\ Len(events) <= EventTrim + LogTrim
  /\ heap \in [Block -> Record]
  /\ ctx \in [Conn -> Block \cup {None}]
  /\ session \in [Conn -> {"none", "open", "closing", "closed"}]
  /\ sse \in Seq(Block)
  /\ got \in [Conn -> Seq(Nat)] /\ joined \in [Conn -> Nat] /\ lost \in [Conn -> SUBSET Nat]

(* A pump visits a record once. *)
IsPump(p) ==
  /\ p = [clients |-> p.clients, pending |-> p.pending, at |-> p.at]
  /\ p.clients \in Seq(Block) /\ IsInjective(p.clients) /\ p.pending \in Seq(Nat)
  /\ p = Idle \/ (p.clients # <<>> /\ p.at \in DOMAIN p.pending)

Records ==
  /\ IsInjective(sse) /\ Len(sse) <= MaxClients
  /\ Range(sse) = {b \in Block : heap[b].allocated}

(* A connection owns one record at most, that of its context. *)
Owners ==
  /\ \A b \in Block, c \in Conn : heap[b].owner = c => ctx[c] = b /\ session[c] # "none"
  /\ \A b \in Block : heap[b].fd => heap[b].owner \in Conn
  /\ \A c \in Conn : session[c] = "none" => got[c] = <<>>

(* The pump p will still send e to the client of b. *)
IsDue(p, b, e) ==
  \E i \in DOMAIN p.clients, j \in DOMAIN p.pending :
    b = p.clients[i] /\ e = p.pending[j] /\ (i = 1 => j >= p.at)

(* What was received is older than what is pending, and that older than the backlog. *)
Backlog ==
  /\ Increasing(events) /\ \A e \in Range(events) : 0 < e /\ e <= n
  /\ Increasing(pump.pending)
  /\ \A e \in Range(pump.pending) : e <= n /\ \A f \in Range(events) : e < f
Received ==
  \A c \in Conn :
    /\ Increasing(got[c])
    /\ \A e \in Range(got[c]) : 0 < e /\ e <= n /\ \A f \in Range(events) : e < f
Ahead ==
  \A b \in Block, c \in Conn : heap[b].owner = c =>
    \A g \in Range(got[c]) : \A e \in Nat : e # 0 /\ IsDue(pump, b, e) => g < e

IInv == Types /\ IsPump(pump) /\ Records /\ Owners /\ Backlog /\ Received /\ Ahead /\ GapIsExplained

----------------------------------------------------------------------------
(* Sequences of events *)

LEMMA Elements ==
  ASSUME NEW S, NEW s \in Seq(S)
  PROVE  /\ Len(s) \in Nat /\ DOMAIN s = 1..Len(s) /\ \A i \in 1..Len(s) : s[i] \in S
         /\ \A e : e \in Range(s) <=> \E i \in 1..Len(s) : s[i] = e
BY LenProperties, ElementOfSeq DEF Range

(* A new last element. *)
LEMMA Appended ==
  ASSUME NEW S, NEW s \in Seq(S), NEW e \in S
  PROVE  /\ Append(s, e) \in Seq(S) /\ Len(Append(s, e)) = Len(s) + 1
         /\ \A x : x \in Range(Append(s, e)) <=> x \in Range(s) \/ x = e
         /\ \A i \in 1..Len(s) : Append(s, e)[i] = s[i]
         /\ Append(s, e)[Len(s) + 1] = e
<1> DEFINE t == Append(s, e)
<1>1. /\ t \in Seq(S) /\ Len(t) = Len(s) + 1 /\ Len(s) \in Nat
      /\ \A i \in 1..Len(s) : t[i] = s[i]
      /\ t[Len(s) + 1] = e
  BY AppendProperties, LenProperties
<1> HIDE DEF t
<1>2. /\ \A x : x \in Range(s) <=> \E i \in 1..Len(s) : s[i] = x
      /\ \A x : x \in Range(t) <=> \E i \in 1..Len(t) : t[i] = x
  BY <1>1, Elements
<1>3. \A i \in 1..Len(t) : i \in 1..Len(s) \/ i = Len(s) + 1
  BY <1>1
<1>4. \A i \in 1..Len(s) : i \in 1..Len(t)
  BY <1>1
<1>5. Len(s) + 1 \in 1..Len(t)
  BY <1>1
<1>6. \A x : x \in Range(t) <=> x \in Range(s) \/ x = e
  BY <1>1, <1>2, <1>3, <1>4, <1>5
<1> QED
  BY <1>1, <1>6 DEF t

(* A newer event behind older ones. *)
LEMMA Newer ==
  ASSUME NEW s \in Seq(Nat), NEW e \in Nat, Increasing(s), \A x \in Range(s) : x < e
  PROVE  Increasing(Append(s, e))
<1> DEFINE t == Append(s, e)
<1>1. /\ t \in Seq(Nat) /\ Len(t) = Len(s) + 1
      /\ \A i \in 1..Len(s) : t[i] = s[i]
      /\ t[Len(s) + 1] = e
  BY Appended
<1> HIDE DEF t
<1>2. /\ Len(s) \in Nat /\ DOMAIN s = 1..Len(s) /\ \A i \in 1..Len(s) : s[i] < e
      /\ DOMAIN t = 1..(Len(s) + 1)
  BY <1>1, Elements
<1>3. ASSUME NEW i \in DOMAIN t, NEW j \in DOMAIN t, i < j PROVE t[i] < t[j]
  <2>1. i \in 1..Len(s)
    BY <1>2, <1>3
  <2>2. CASE j = Len(s) + 1
    BY <1>1, <1>2, <2>1, <2>2
  <2>3. CASE j # Len(s) + 1
    <3>1. j \in 1..Len(s)
      BY <1>2, <2>3
    <3> QED
      BY <1>1, <1>2, <1>3, <2>1, <3>1 DEF Increasing
  <2> QED
    BY <2>2, <2>3
<1> QED
  BY <1>3 DEF Increasing, t

(* Trimming takes the oldest. *)
LEMMA TrimmedKeeps ==
  ASSUME NEW s \in Seq(Nat), Increasing(s), NEW keep \in Nat \ {0}
  PROVE  LET t == Trimmed(s, keep)
         IN  /\ t \in Seq(Nat) /\ Len(t) <= keep /\ Increasing(t)
             /\ \A e \in Range(t) : e \in Range(s)
<1>1. /\ Len(s) \in Nat /\ DOMAIN s = 1..Len(s) /\ \A i \in 1..Len(s) : s[i] \in Nat
      /\ \A e : e \in Range(s) <=> \E i \in 1..Len(s) : s[i] = e
  BY Elements
<1>2. CASE ~(Len(s) > keep)
  BY <1>1, <1>2 DEF Trimmed
<1>3. CASE Len(s) > keep
  <2> DEFINE m == Len(s) - keep + 1
             size == Len(s)
             t == SubSeq(s, m, size)
  <2>1. Trimmed(s, keep) = t
    BY <1>3 DEF Trimmed
  <2>2. m \in Int /\ size \in Int /\ m >= 1 /\ m <= size /\ size - m + 1 = keep
    BY <1>1, <1>3
  <2>3. \A i \in m..size : i \in 1..size /\ s[i] \in Nat
    BY <1>1, <2>2
  <2>4. /\ t \in Seq(Nat) /\ Len(t) = IF m <= size THEN size - m + 1 ELSE 0
        /\ \A i \in 1..(size - m + 1) : t[i] = s[m + i - 1]
    <3> HIDE DEF m, size
    <3> QED
      BY <2>2, <2>3, SubSeqProperties
  <2> HIDE DEF t
  <2>5. Len(t) = keep /\ \A i \in 1..keep : t[i] = s[m + i - 1] /\ m + i - 1 \in 1..Len(s)
    <3> HIDE DEF m
    <3> QED
      BY <1>1, <2>2, <2>4 DEF size
  <2>6. /\ DOMAIN t = 1..keep
        /\ \A e : e \in Range(t) <=> \E i \in 1..keep : t[i] = e
    <3>1. /\ DOMAIN t = 1..Len(t)
          /\ \A e : e \in Range(t) <=> \E i \in 1..Len(t) : t[i] = e
      BY <2>4, Elements
    <3> QED
      BY <2>5, <3>1
  <2> HIDE DEF m
  <2>7. \A e \in Range(t) : e \in Range(s)
    BY <1>1, <2>5, <2>6
  <2>8. ASSUME NEW i \in 1..keep, NEW j \in 1..keep, i < j PROVE t[i] < t[j]
    <3>1. m + i - 1 \in DOMAIN s /\ m + j - 1 \in DOMAIN s /\ m + i - 1 < m + j - 1
      BY <1>1, <2>2, <2>5, <2>8
    <3> QED
      BY <2>5, <3>1 DEF Increasing
  <2>9. Increasing(t)
    BY <2>6, <2>8 DEF Increasing
  <2> QED
    BY <2>1, <2>4, <2>5, <2>7, <2>9
<1> QED
  BY <1>2, <1>3

----------------------------------------------------------------------------
(* What the pump will still send *)

(* The fields of a pump that is sending. *)
LEMMA PumpShape ==
  ASSUME NEW p, IsPump(p), p # Idle
  PROVE  /\ Len(p.clients) \in Nat \ {0} /\ DOMAIN p.clients = 1..Len(p.clients)
         /\ \A i \in 1..Len(p.clients) : p.clients[i] \in Block
         /\ \A i, j \in 1..Len(p.clients) : p.clients[i] = p.clients[j] => i = j
         /\ Head(p.clients) = p.clients[1]
         /\ Len(p.pending) \in Nat /\ DOMAIN p.pending = 1..Len(p.pending)
         /\ \A j \in 1..Len(p.pending) : p.pending[j] \in Nat
         /\ p.at \in 1..Len(p.pending)
<1>1. p.clients \in Seq(Block) /\ p.clients # <<>> /\ p.pending \in Seq(Nat)
  BY DEF IsPump
<1>2. /\ Len(p.clients) \in Nat /\ Len(p.clients) # 0 /\ DOMAIN p.clients = 1..Len(p.clients)
      /\ \A i \in 1..Len(p.clients) : p.clients[i] \in Block
  BY <1>1, Elements, EmptySeq
<1>3. Head(p.clients) = p.clients[1]
  BY <1>1, HeadTailProperties
<1>4. /\ Len(p.pending) \in Nat /\ DOMAIN p.pending = 1..Len(p.pending)
      /\ \A j \in 1..Len(p.pending) : p.pending[j] \in Nat
  BY <1>1, Elements
<1> QED
  BY <1>2, <1>3, <1>4 DEF IsPump, IsInjective

LEMMA IdleSends ==
  IsPump(Idle) /\ Idle.pending = <<>> /\ \A b, e : ~IsDue(Idle, b, e)
<1> DEFINE p == Idle
<1>1. p = [clients |-> <<>>, pending |-> <<>>, at |-> 1]
  BY DEF Idle
<1> HIDE DEF p
<1>2. p = [clients |-> p.clients, pending |-> p.pending, at |-> p.at]
      /\ p.clients = <<>> /\ p.pending = <<>>
  BY <1>1
<1>3. p.clients \in Seq(Block) /\ IsInjective(p.clients) /\ p.pending \in Seq(Nat)
      /\ DOMAIN p.clients = {}
  BY <1>2 DEF IsInjective
<1>4. \A b, e : ~IsDue(p, b, e)
  BY <1>3 DEF IsDue
<1>5. p = Idle
  BY DEF p
<1> QED
  BY <1>2, <1>3, <1>4, <1>5 DEF IsPump

(* Only what is pending is due. *)
LEMMA DueIsPending ==
  ASSUME NEW p, NEW b, NEW e, IsDue(p, b, e)
  PROVE  e \in Range(p.pending)
BY DEF IsDue, Range

(* The next client: what is due to the others stays due. *)
LEMMA NextClientDue ==
  ASSUME IsPump(pump), pump # Idle
  PROVE  /\ IsPump(NextClient) /\ NextClient.pending \in {pump.pending, <<>>}
         /\ \A b, e : IsDue(NextClient, b, e) <=> IsDue(pump, b, e) /\ b # Head(pump.clients)
<1> DEFINE cs == pump.clients
           es == pump.pending
           at == pump.at
           p  == NextClient
<1>1. /\ Len(cs) \in Nat \ {0} /\ DOMAIN cs = 1..Len(cs)
      /\ \A i \in 1..Len(cs) : cs[i] \in Block
      /\ \A i, j \in 1..Len(cs) : cs[i] = cs[j] => i = j
      /\ Head(cs) = cs[1]
      /\ Len(es) \in Nat /\ DOMAIN es = 1..Len(es)
      /\ at \in 1..Len(es)
  BY PumpShape
<1>2. /\ cs \in Seq(Block) /\ cs # <<>> /\ es \in Seq(Nat)
      /\ pump = [clients |-> cs, pending |-> es, at |-> at]
  BY DEF IsPump
<1>3. CASE Len(cs) = 1
  <2>1. p = Idle
    BY <1>3 DEF NextClient
  <2>2. \A b, e : IsDue(pump, b, e) => b = Head(cs)
    <3>1. \A i \in DOMAIN cs : i = 1
      BY <1>1, <1>3
    <3> QED
      BY <1>1, <3>1 DEF IsDue
  <2> QED
    BY <2>1, <2>2, IdleSends
<1>4. CASE Len(cs) # 1
  <2> DEFINE t == Tail(cs)
  <2>1. /\ t \in Seq(Block) /\ Len(t) = Len(cs) - 1
        /\ \A i \in 1..Len(t) : t[i] = cs[i + 1]
    BY <1>1, <1>2, HeadTailProperties
  <2>2. p = [pump EXCEPT !.clients = t, !.at = 1]
    BY <1>4 DEF NextClient
  <2> HIDE DEF t, p
  <2>3. /\ Len(t) \in Nat \ {0} /\ DOMAIN t = 1..Len(t)
        /\ \A i \in 1..Len(t) : i + 1 \in 1..Len(cs) /\ i + 1 # 1 /\ t[i] = cs[i + 1]
        /\ \A i \in 1..Len(cs) : i # 1 => i - 1 \in 1..Len(t) /\ t[i - 1] = cs[i]
    <3>1. DOMAIN t = 1..Len(t)
      BY <2>1, Elements
    <3>2. \A i \in 1..Len(cs) : i # 1 => i - 1 \in 1..Len(t) /\ i - 1 + 1 = i
      BY <1>1, <2>1
    <3>3. \A i \in 1..Len(cs) : i # 1 => i - 1 \in 1..Len(t) /\ t[i - 1] = cs[i]
      BY <2>1, <3>2
    <3>4. Len(t) \in Nat \ {0}
      BY <1>1, <1>4, <2>1
    <3>5. \A i \in 1..Len(t) : i + 1 \in 1..Len(cs) /\ i + 1 # 1
      BY <1>1, <2>1
    <3> QED
      BY <2>1, <3>1, <3>3, <3>4, <3>5
  <2>4. /\ p = [clients |-> p.clients, pending |-> p.pending, at |-> p.at]
        /\ p.clients = t /\ p.pending = es /\ p.at = 1
    <3> HIDE DEF cs, es, at
    <3> QED
      BY <1>2, <2>2
  <2>5. \A i, j \in 1..Len(t) : t[i] = t[j] => i = j
    <3>1. ASSUME NEW i \in 1..Len(t), NEW j \in 1..Len(t), t[i] = t[j]
          PROVE  i + 1 = j + 1
      <4>1. /\ i + 1 \in 1..Len(cs) /\ j + 1 \in 1..Len(cs)
            /\ cs[i + 1] = cs[j + 1]
        BY <2>3, <3>1
      <4> QED
        BY <1>1, <4>1
    <3>2. \A i, j \in 1..Len(t) : i + 1 = j + 1 => i = j
      BY <2>3
    <3> QED
      BY <3>1, <3>2
  <2>6. IsPump(p)
    <3>1. IsInjective(t)
      BY <2>3, <2>5 DEF IsInjective
    <3>2. t # <<>>
      BY <2>1, <2>3, EmptySeq
    <3>3. 1 \in DOMAIN es
      BY <1>1
    <3> QED
      BY <1>2, <2>1, <2>4, <3>1, <3>2, <3>3 DEF IsPump
  <2>7. ASSUME NEW b, NEW e, IsDue(p, b, e)
        PROVE  IsDue(pump, b, e) /\ b # Head(cs)
    <3>1. PICK i \in 1..Len(t), j \in DOMAIN es : b = t[i] /\ e = es[j]
      BY <2>3, <2>4, <2>7 DEF IsDue
    <3>2. i + 1 \in DOMAIN cs /\ i + 1 # 1 /\ b = cs[i + 1]
      BY <1>1, <2>3, <3>1
    <3>3. b # Head(cs)
      BY <1>1, <3>2
    <3> QED
      BY <3>1, <3>2, <3>3 DEF IsDue
  <2>8. ASSUME NEW b, NEW e, IsDue(pump, b, e), b # Head(cs)
        PROVE  IsDue(p, b, e)
    <3>1. PICK i \in DOMAIN cs, j \in DOMAIN es : b = cs[i] /\ e = es[j]
      BY <2>8 DEF IsDue
    <3>2. i # 1
      BY <1>1, <2>8, <3>1
    <3>3. i - 1 \in DOMAIN t /\ b = t[i - 1]
      BY <1>1, <2>3, <3>1, <3>2
    <3>4. j >= 1
      BY <1>1
    <3> QED
      BY <2>4, <3>1, <3>3, <3>4 DEF IsDue
  <2> QED
    BY <2>4, <2>6, <2>7, <2>8 DEF p
<1> QED
  BY <1>3, <1>4

(* The next event: what is due stays due, but the one that was sent, and the client gets
   newer ones only. *)
LEMMA NextEventDue ==
  ASSUME IsPump(pump), pump # Idle, Increasing(pump.pending)
  PROVE  LET b0 == Head(pump.clients)
             e0 == pump.pending[pump.at]
         IN  /\ IsPump(NextEvent) /\ NextEvent.pending \in {pump.pending, <<>>}
             /\ IsDue(pump, b0, e0)
             /\ \A b, e : IsDue(NextEvent, b, e) => IsDue(pump, b, e) /\ (b = b0 => e0 < e)
             /\ \A b, e : IsDue(pump, b, e) /\ (b # b0 \/ e # e0) => IsDue(NextEvent, b, e)
<1> DEFINE cs == pump.clients
           es == pump.pending
           at == pump.at
           b0 == Head(cs)
           e0 == es[at]
           p  == NextEvent
<1>1. /\ Len(cs) \in Nat \ {0} /\ DOMAIN cs = 1..Len(cs)
      /\ \A i, j \in 1..Len(cs) : cs[i] = cs[j] => i = j
      /\ b0 = cs[1]
      /\ Len(es) \in Nat /\ DOMAIN es = 1..Len(es)
      /\ at \in 1..Len(es)
  BY PumpShape
<1>2. /\ cs \in Seq(Block) /\ IsInjective(cs) /\ cs # <<>> /\ es \in Seq(Nat)
      /\ pump = [clients |-> cs, pending |-> es, at |-> at]
  BY DEF IsPump
<1>3. \A i \in DOMAIN cs : cs[i] = b0 => i = 1
  <2>1. 1 \in 1..Len(cs)
    BY <1>1
  <2>2. \A i \in 1..Len(cs) : cs[i] = cs[1] => i = 1
    BY <1>1, <2>1
  <2> QED
    BY <1>1, <2>2
<1>4. IsDue(pump, b0, e0)
  <2>1. 1 \in DOMAIN cs /\ at \in DOMAIN es /\ at >= at
    BY <1>1
  <2> QED
    BY <1>1, <2>1 DEF IsDue
<1>5. \A b, e : IsDue(pump, b, e) =>
        \E i \in DOMAIN cs, j \in DOMAIN es : b = cs[i] /\ e = es[j] /\ (b = b0 => j >= at)
  <2> SUFFICES ASSUME NEW b, NEW e, IsDue(pump, b, e)
               PROVE  \E i \in DOMAIN cs, j \in DOMAIN es :
                        b = cs[i] /\ e = es[j] /\ (b = b0 => j >= at)
    OBVIOUS
  <2>1. PICK i \in DOMAIN cs, j \in DOMAIN es : b = cs[i] /\ e = es[j] /\ (i = 1 => j >= at)
    BY DEF IsDue
  <2>2. b = b0 => i = 1
    BY <1>3, <2>1
  <2> QED
    BY <2>1, <2>2
<1>6. CASE at = Len(es)
  <2>1. p = NextClient
    BY <1>6 DEF NextEvent
  <2>2. ASSUME NEW b, NEW e, IsDue(pump, b, e), b # b0 \/ e # e0 PROVE b # b0
    <3>1. PICK i \in DOMAIN cs, j \in DOMAIN es : b = cs[i] /\ e = es[j] /\ (b = b0 => j >= at)
      BY <1>5, <2>2
    <3>2. j >= at => j = at
      BY <1>1, <1>6, <3>1
    <3> QED
      BY <2>2, <3>1, <3>2
  <2>3. /\ IsPump(NextClient) /\ NextClient.pending \in {pump.pending, <<>>}
        /\ \A b, e : IsDue(NextClient, b, e) <=> IsDue(pump, b, e) /\ b # b0
    BY NextClientDue
  <2> QED
    BY <1>4, <2>1, <2>2, <2>3
<1>7. CASE at # Len(es)
  <2>1. p = [pump EXCEPT !.at = at + 1]
    BY <1>7 DEF NextEvent
  <2>2. /\ p = [clients |-> p.clients, pending |-> p.pending, at |-> p.at]
        /\ p.clients = cs /\ p.pending = es /\ p.at = at + 1
    <3> HIDE DEF p, cs, es, at
    <3> QED
      BY <1>2, <2>1
  <2> HIDE DEF p
  <2>3. IsPump(p)
    <3>1. at + 1 \in DOMAIN es
      BY <1>1, <1>7
    <3> QED
      BY <1>2, <2>2, <3>1 DEF IsPump
  <2>4. ASSUME NEW b, NEW e, IsDue(p, b, e)
        PROVE  IsDue(pump, b, e) /\ (b = b0 => e0 < e)
    <3>1. PICK i \in DOMAIN cs, j \in DOMAIN es :
            b = cs[i] /\ e = es[j] /\ (i = 1 => j >= at + 1)
      BY <2>2, <2>4 DEF IsDue
    <3>2. i = 1 => j >= at /\ at < j
      BY <1>1, <3>1
    <3>3. IsDue(pump, b, e)
      BY <3>1, <3>2 DEF IsDue
    <3>4. b = b0 => i = 1
      BY <1>3, <3>1
    <3>5. at < j => e0 < es[j]
      BY <1>1 DEF Increasing
    <3> QED
      BY <3>1, <3>2, <3>3, <3>4, <3>5
  <2>5. ASSUME NEW b, NEW e, IsDue(pump, b, e), b # b0 \/ e # e0
        PROVE  IsDue(p, b, e)
    <3>1. PICK i \in DOMAIN cs, j \in DOMAIN es : b = cs[i] /\ e = es[j] /\ (i = 1 => j >= at)
      BY <2>5 DEF IsDue
    <3>2. i = 1 => j # at
      BY <1>1, <2>5, <3>1
    <3>3. i = 1 => j >= at + 1
      BY <1>1, <3>1, <3>2
    <3> QED
      BY <2>2, <3>1, <3>3 DEF IsDue
  <2> QED
    BY <1>4, <2>2, <2>3, <2>4, <2>5 DEF p
<1> QED
  BY <1>6, <1>7

(* The clients that stay: each once, and exactly those whose socket is open. *)
LEMMA KeptClients ==
  ASSUME sse \in Seq(Block), IsInjective(sse)
  PROVE  /\ Kept \in Seq(Block) /\ IsInjective(Kept) /\ Len(Kept) <= Len(sse)
         /\ \A b : b \in Range(Kept) <=> b \in Range(sse) /\ heap[b].fd
<1> DEFINE K == {i \in DOMAIN sse : heap[sse[i]].fd}
           size == Cardinality(K)
           t == Keep(sse, K)
<1>1. t = Kept
  BY DEF Kept
<1>2. K \in SUBSET DOMAIN sse
  OBVIOUS
<1>3. \A i : i \in K <=> i \in DOMAIN sse /\ heap[sse[i]].fd
  OBVIOUS
<1> HIDE DEF K
<1>4. /\ size \in Nat /\ size <= Len(sse)
      /\ \E q \in [1..size -> K] :
           /\ t = [p \in 1..size |-> sse[q[p]]]
           /\ \A p, r \in 1..size : q[p] = q[r] => p = r
           /\ \A i \in K : \E p \in 1..size : q[p] = i
  BY <1>2, Keeps
<1> HIDE DEF size, t
<1>5. PICK q \in [1..size -> K] :
           /\ t = [p \in 1..size |-> sse[q[p]]]
           /\ \A p, r \in 1..size : q[p] = q[r] => p = r
           /\ \A i \in K : \E p \in 1..size : q[p] = i
  BY <1>4
<1>6. DOMAIN t = 1..size /\ \A p \in 1..size : q[p] \in K /\ t[p] = sse[q[p]]
  BY <1>5
<1>7. \A i \in DOMAIN sse : sse[i] \in Block
  BY Elements
<1>8. t \in Seq(Block) /\ Len(t) = size
  <2>1. t \in [1..size -> Block]
    BY <1>3, <1>5, <1>6, <1>7
  <2> QED
    BY <1>4, <1>6, <2>1, SeqDef, LenProperties
<1>9. IsInjective(t)
  BY <1>3, <1>5, <1>6 DEF IsInjective
<1>10. \A b : b \in Range(t) <=> b \in Range(sse) /\ heap[b].fd
  <2>1. \A b : b \in Range(t) <=> \E p \in 1..size : sse[q[p]] = b
    BY <1>6 DEF Range
  <2>2. \A b : (\E p \in 1..size : sse[q[p]] = b) <=> (\E i \in K : sse[i] = b)
    BY <1>5, <1>6
  <2>3. \A b : (\E i \in K : sse[i] = b) <=> b \in Range(sse) /\ heap[b].fd
    BY <1>3 DEF Range
  <2> QED
    BY <2>1, <2>2, <2>3
<1> QED
  BY <1>1, <1>4, <1>8, <1>9, <1>10

----------------------------------------------------------------------------
(* What is read from the invariant *)

LEMMA Typed ==
  ASSUME Types
  PROVE  /\ n \in Nat /\ MaxEvents \in Nat /\ MaxConns \in Nat /\ MaxBlocks \in Nat
         /\ MaxClients \in Nat \ {0} /\ LogTrim \in Nat \ {0} /\ EventTrim \in Nat \ {0}
         /\ None \notin Conn
         /\ \A c \in Conn : /\ got[c] \in Seq(Nat) /\ joined[c] \in Nat /\ lost[c] \subseteq Nat
                            /\ ctx[c] \in Block \cup {None}
         /\ \A b \in Block : /\ heap[b].owner \in Conn \cup {None} /\ heap[b].fd \in BOOLEAN
                             /\ heap[b].allocated \in BOOLEAN
BY StreamAssumption DEF Types, Record, Conn

(* An event that the pump still has for a client is due. *)
LEMMA StillToSendIsDue ==
  ASSUME NEW c
  PROVE  \A e : e \in StillToSend(c) <=> IsDue(pump, ctx[c], e)
<1> DEFINE cs == pump.clients
           es == pump.pending
           J(i) == {j \in DOMAIN es : i = 1 => j >= pump.at}
           I == {i \in DOMAIN cs : cs[i] = ctx[c]}
<1>1. StillToSend(c) = UNION {{es[j] : j \in J(i)} : i \in I}
  BY DEF StillToSend
<1>2. \A i, j : j \in J(i) <=> j \in DOMAIN es /\ (i = 1 => j >= pump.at)
  OBVIOUS
<1>3. \A i : i \in I <=> i \in DOMAIN cs /\ cs[i] = ctx[c]
  OBVIOUS
<1> HIDE DEF I, J
<1>4. \A e : e \in StillToSend(c) <=> \E i \in I : \E j \in J(i) : e = es[j]
  BY <1>1
<1>5. \A e : IsDue(pump, ctx[c], e) <=>
        \E i \in DOMAIN cs, j \in DOMAIN es :
          ctx[c] = cs[i] /\ e = es[j] /\ (i = 1 => j >= pump.at)
  BY DEF IsDue
<1> HIDE DEF cs, es
<1> QED
  BY <1>2, <1>3, <1>4, <1>5

(* Where an event of a live client can be. *)
Explained(c, e) ==
  e \in Range(got[c]) \/ e \in lost[c] \/ e \in Range(events) \/ IsDue(pump, ctx[c], e)

LEMMA GapMeans ==
  GapIsExplained <=> \A c \in Live : \A e \in (joined[c] + 1)..n : Explained(c, e)
<1>1. \A c \in Live : \A e : e \in StillToSend(c) <=> IsDue(pump, ctx[c], e)
  BY StillToSendIsDue
<1>2. \A c \in Live : \A e :
        e \in Range(got[c]) \cup lost[c] \cup Range(events) \cup StillToSend(c)
          <=> Explained(c, e)
  BY <1>1 DEF Explained
<1> QED
  BY <1>2 DEF GapIsExplained

LEMMA GapMeansNext ==
  (GapIsExplained <=> \A c \in Live : \A e \in (joined[c] + 1)..n : Explained(c, e))'
BY GapMeans, PTL

(* A client that is alive has its record in the list. *)
LEMMA LiveClient ==
  ASSUME NEW c \in Conn
  PROVE  c \in Live <=> /\ session[c] = "open" /\ ctx[c] \in Range(sse)
                        /\ heap[ctx[c]].owner = c /\ heap[ctx[c]].fd
BY DEF Live

LEMMA Start == Init => IInv
<1> SUFFICES ASSUME Init PROVE IInv
  OBVIOUS
<1> USE DEF Init
<1>1. /\ 0 \in 0..MaxEvents /\ 0 <= EventTrim + LogTrim /\ 0 <= MaxClients
  BY StreamAssumption
<1>2. Types
  <2>1. n \in 0..MaxEvents /\ events \in Seq(Nat) /\ Len(events) <= EventTrim + LogTrim
        /\ sse \in Seq(Block)
    BY <1>1
  <2>2. heap \in [Block -> Record]
    BY DEF Record
  <2>3. /\ ctx \in [Conn -> Block \cup {None}]
        /\ session \in [Conn -> {"none", "open", "closing", "closed"}]
        /\ joined \in [Conn -> Nat] /\ lost \in [Conn -> SUBSET Nat]
    OBVIOUS
  <2>4. got \in [Conn -> Seq(Nat)]
    <3>1. <<>> \in Seq(Nat)
      OBVIOUS
    <3> QED
      BY <3>1
  <2> QED
    BY <2>1, <2>2, <2>3, <2>4 DEF Types
<1>3. IsPump(pump) /\ pump.pending = <<>> /\ \A b, e : ~IsDue(pump, b, e)
  BY IdleSends
<1>4. Range(<<>>) = {} /\ Increasing(<<>>)
  BY DEF Range, Increasing
<1>5. /\ \A b \in Block : heap[b].owner = None /\ heap[b].fd = FALSE /\ heap[b].allocated = FALSE
      /\ None \notin Conn
  BY <1>2, Typed
<1>6. Records
  BY <1>1, <1>4, <1>5 DEF Records, IsInjective
<1>7. Owners
  BY <1>5 DEF Owners
<1>8. Backlog
  BY <1>3, <1>4 DEF Backlog
<1>9. Received
  BY <1>4 DEF Received
<1>10. Ahead
  BY <1>5 DEF Ahead
<1>11. GapIsExplained
  <2>1. \A c \in Conn : c \notin Live
    BY LiveClient
  <2> QED
    BY <2>1 DEF GapIsExplained, Live
<1> QED
  BY <1>2, <1>3, <1>6, <1>7, <1>8, <1>9, <1>10, <1>11 DEF IInv

----------------------------------------------------------------------------
(* The steps *)

(* log(), emit_event_: what falls out of the backlog is lost to the clients that were
   there. *)
LEMMA PushStep ==
  ASSUME IInv, NEW keep \in Nat \ {0}, keep <= EventTrim + LogTrim, Push(keep)
  PROVE  IInv'
<1> DEFINE more == Append(events, n + 1)
           kept == Trimmed(more, keep)
           out  == (Range(events) \cup {n + 1}) \ Range(kept)
<1>1. /\ n < MaxEvents /\ n' = n + 1 /\ events' = kept
      /\ lost' = [c \in Conn |-> IF session[c] = "open"
                                 THEN lost[c] \cup {e \in out : e > joined[c]} ELSE lost[c]]
      /\ UNCHANGED <<clients, pump, got, joined>>
  BY DEF Push
<1>2. Types /\ IsPump(pump) /\ Records /\ Owners /\ Backlog /\ Received /\ Ahead
  BY DEF IInv
<1>3. n \in Nat /\ MaxEvents \in Nat /\ n + 1 \in Nat
  BY <1>2, Typed
<1>4. events \in Seq(Nat)
  BY <1>2 DEF Types
<1>5. \A e \in Range(events) : e \in Nat /\ 0 < e /\ e <= n
  BY <1>2, <1>4, Elements DEF Backlog
<1>6. /\ more \in Seq(Nat) /\ Increasing(more)
      /\ \A e : e \in Range(more) <=> e \in Range(events) \/ e = n + 1
  <2>1. \A e \in Range(events) : e < n + 1
    BY <1>3, <1>5
  <2> QED
    BY <1>2, <1>3, <1>4, <2>1, Appended, Newer DEF Backlog
<1> HIDE DEF more
<1>7. /\ kept \in Seq(Nat) /\ Len(kept) <= keep /\ Increasing(kept)
      /\ \A e \in Range(kept) : e \in Range(events) \/ e = n + 1
  BY <1>6, TrimmedKeeps
<1> HIDE DEF kept
<1>8. out \subseteq Nat /\ \A e : e \in out <=> (e \in Range(events) \/ e = n + 1) /\ e \notin Range(kept)
  BY <1>3, <1>5
<1> HIDE DEF out
<1>9. Types'
  <2>1. n' \in 0..MaxEvents
    BY <1>1, <1>3
  <2>2. events' \in Seq(Nat) /\ Len(events') <= EventTrim + LogTrim
    <3>1. Len(kept) \in Nat /\ EventTrim \in Nat /\ LogTrim \in Nat
      BY <1>2, <1>7, Typed, Elements
    <3> QED
      BY <1>1, <1>7, <3>1
  <2>3. lost' \in [Conn -> SUBSET Nat]
    <3>1. \A c \in Conn : lost[c] \subseteq Nat
      BY <1>2, Typed
    <3>2. \A c \in Conn : lost[c] \cup {e \in out : e > joined[c]} \in SUBSET Nat
      BY <1>8, <3>1
    <3> QED
      BY <1>1, <3>1, <3>2
  <2> QED
    BY <1>1, <1>2, <2>1, <2>2, <2>3 DEF Types, clients, Record
<1>10. IsPump(pump)' /\ Records' /\ Owners' /\ Ahead'
  BY <1>1, <1>2 DEF Records, Owners, Ahead, clients
<1>11. Backlog'
  <2>1. \A e \in Range(kept) : 0 < e /\ e <= n + 1
    BY <1>3, <1>5, <1>7
  <2>2. \A e \in Range(pump.pending) : e \in Nat /\ e <= n
    <3>1. pump.pending \in Seq(Nat)
      BY <1>2 DEF IsPump
    <3> QED
      BY <1>2, <3>1, Elements DEF Backlog
  <2>3. \A e \in Range(pump.pending) : e <= n + 1 /\ \A f \in Range(kept) : e < f
    <3>1. \A e \in Range(pump.pending) : e <= n + 1 /\ e < n + 1
      BY <1>3, <2>2
    <3> QED
      BY <1>2, <1>7, <3>1 DEF Backlog
  <2> QED
    BY <1>1, <1>2, <1>7, <2>1, <2>3 DEF Backlog
<1>12. Received'
  <2>1. ASSUME NEW c \in Conn, NEW e \in Range(got[c])
        PROVE  e \in Nat /\ 0 < e /\ e <= n
    <3>1. got[c] \in Seq(Nat)
      BY <1>2, Typed
    <3>2. e \in Nat
      BY <3>1, Elements
    <3> QED
      BY <1>2, <3>2 DEF Received
  <2>2. \A c \in Conn : \A e \in Range(got[c]) : e <= n + 1 /\ e < n + 1
    BY <1>3, <2>1
  <2>3. ASSUME NEW c \in Conn, NEW e \in Range(got[c]), NEW f \in Range(kept)
        PROVE  e < f
    <3>1. f \in Range(events) \/ f = n + 1
      BY <1>7
    <3> QED
      BY <1>2, <2>2, <3>1 DEF Received
  <2>4. \A c \in Conn : Increasing(got[c])
    BY <1>2 DEF Received
  <2> QED
    BY <1>1, <2>1, <2>2, <2>3, <2>4 DEF Received
<1>13. GapIsExplained'
  <2>1. Live' = Live
    BY <1>1 DEF Live, clients
  <2>2. ASSUME NEW c \in Conn, c \in Live, NEW e \in (joined[c] + 1)..(n + 1)
        PROVE  Explained(c, e)'
    <3>1. session[c] = "open" /\ joined[c] \in Nat /\ e > joined[c]
      BY <1>2, <2>2, Typed, LiveClient
    <3>2. /\ got'[c] = got[c] /\ pump' = pump /\ ctx' = ctx
          /\ lost'[c] = lost[c] \cup {f \in out : f > joined[c]}
      BY <1>1, <3>1 DEF clients
    <3>3. CASE e \in Range(events) \/ e = n + 1
      <4>1. e \in Range(kept) \/ e \in out
        BY <1>8, <3>3
      <4> QED
        BY <1>1, <3>1, <3>2, <4>1 DEF Explained
    <3>4. CASE ~(e \in Range(events) \/ e = n + 1)
      <4>1. e \in (joined[c] + 1)..n
        BY <1>3, <3>1, <3>4
      <4>2. Explained(c, e)
        BY <2>2, <4>1, GapMeans DEF IInv
      <4> QED
        BY <3>2, <3>4, <4>2 DEF Explained
    <3> QED
      BY <3>3, <3>4
  <2>3. \A c \in Live' : \A e \in (joined'[c] + 1)..n' : Explained(c, e)'
    <3>1. joined' = joined /\ \A c \in Live : c \in Conn
      BY <1>1 DEF Live
    <3> QED
      BY <1>1, <2>1, <2>2, <3>1
  <2> QED
    BY <2>3, GapMeansNext
<1> QED
  BY <1>9, <1>10, <1>11, <1>12, <1>13 DEF IInv

(* A step of the server that ends a client: what the others are owed is still on its
   way. *)
LEMMA EndsStep ==
  ASSUME IInv, Types', Records', Owners',
         UNCHANGED <<n, events, pump>>,
         \A c \in Conn : got'[c] = got[c] \/ got'[c] = <<>>,
         \A b \in Block, c \in Conn : heap'[b].owner = c => heap[b].owner = c \/ got'[c] = <<>>,
         \A c \in Conn : c \in Live' =>
           \/ joined'[c] = n
           \/ /\ c \in Live /\ ctx'[c] = ctx[c] /\ got'[c] = got[c] /\ lost'[c] = lost[c]
              /\ joined'[c] = joined[c]
  PROVE  IInv'
<1>1. Types /\ IsPump(pump) /\ Backlog /\ Received /\ Ahead
  BY DEF IInv
<1>2. Range(<<>>) = {} /\ Increasing(<<>>)
  BY DEF Range, Increasing
<1>3. IsPump(pump)' /\ Backlog'
  BY <1>1 DEF Backlog
<1>4. Received'
  BY <1>1, <1>2 DEF Received
<1>5. Ahead'
  <2>1. ASSUME NEW b \in Block, NEW c \in Conn, heap'[b].owner = c, NEW g \in Range(got'[c]),
               NEW e \in Nat, e # 0, IsDue(pump, b, e)
        PROVE  g < e
    <3>1. got'[c] = got[c] /\ heap[b].owner = c
      BY <1>2, <2>1
    <3> QED
      BY <1>1, <2>1, <3>1 DEF Ahead
  <2> QED
    BY <2>1 DEF Ahead
<1>6. GapIsExplained'
  <2>1. ASSUME NEW c \in Conn, c \in Live', NEW e \in (joined'[c] + 1)..n
        PROVE  Explained(c, e)'
    <3>1. CASE joined'[c] = n
      <4>1. n \in Nat
        BY <1>1, Typed
      <4> QED
        BY <2>1, <3>1, <4>1
    <3>2. CASE /\ c \in Live /\ ctx'[c] = ctx[c] /\ got'[c] = got[c] /\ lost'[c] = lost[c]
               /\ joined'[c] = joined[c]
      <4>1. Explained(c, e)
        BY <2>1, <3>2, GapMeans DEF IInv
      <4> QED
        BY <3>2, <4>1 DEF Explained
    <3> QED
      BY <2>1, <3>1, <3>2
  <2>2. \A c \in Live' : \A e \in (joined'[c] + 1)..n' : Explained(c, e)'
    <3>1. \A c \in Live' : c \in Conn
      BY DEF Live
    <3> QED
      BY <2>1, <3>1
  <2> QED
    BY <2>2, GapMeansNext
<1> QED
  BY <1>3, <1>4, <1>5, <1>6 DEF IInv

(* What is forgotten of a connection that is over. *)
LEMMA ForgottenHistory ==
  ASSUME Types, got' = Forgotten(got, <<>>), lost' = Forgotten(lost, {})
  PROVE  /\ got' \in [Conn -> Seq(Nat)] /\ lost' \in [Conn -> SUBSET Nat]
         /\ \A c \in Conn : got'[c] = got[c] \/ got'[c] = <<>>
         /\ \A c \in Conn : session'[c] = "open" => got'[c] = got[c] /\ lost'[c] = lost[c]
<1>1. /\ got' = [c \in Conn |-> IF session'[c] = "open" THEN got[c] ELSE <<>>]
      /\ lost' = [c \in Conn |-> IF session'[c] = "open" THEN lost[c] ELSE {}]
  BY DEF Forgotten
<1>2. \A c \in Conn : got[c] \in Seq(Nat) /\ lost[c] \in SUBSET Nat
  BY DEF Types
<1>3. <<>> \in Seq(Nat) /\ {} \in SUBSET Nat
  OBVIOUS
<1>4. got' \in [Conn -> Seq(Nat)]
  BY <1>1, <1>2, <1>3
<1>5. lost' \in [Conn -> SUBSET Nat]
  BY <1>1, <1>2, <1>3
<1> QED
  BY <1>1, <1>4, <1>5

LEMMA PeerClosesStep ==
  ASSUME IInv, NEW c \in Conn, PeerCloses(c) PROVE IInv'
<1>1. /\ session[c] = "open" /\ session' = [session EXCEPT ![c] = "closing"]
      /\ joined' = Forgotten(joined, 0)
      /\ got' = Forgotten(got, <<>>) /\ lost' = Forgotten(lost, {})
      /\ UNCHANGED <<n, events, heap, ctx, sse, pump>>
  BY DEF PeerCloses
<1>2. Types /\ Records /\ Owners
  BY DEF IInv
<1>3. /\ session' \in [Conn -> {"none", "open", "closing", "closed"}]
      /\ \A d \in Conn : session'[d] = IF d = c THEN "closing" ELSE session[d]
  BY <1>1, <1>2 DEF Types
<1>4. /\ got' \in [Conn -> Seq(Nat)] /\ lost' \in [Conn -> SUBSET Nat]
      /\ \A d \in Conn : got'[d] = got[d] \/ got'[d] = <<>>
      /\ \A d \in Conn : session'[d] = "open" => got'[d] = got[d] /\ lost'[d] = lost[d]
  BY <1>1, <1>2, ForgottenHistory
<1>5. /\ joined' \in [Conn -> Nat]
      /\ \A d \in Conn : session'[d] = "open" => joined'[d] = joined[d]
  <2>1. \A d \in Conn : joined[d] \in Nat
    BY <1>2, Typed
  <2> QED
    BY <1>1, <2>1 DEF Forgotten
<1>6. Types'
  BY <1>1, <1>2, <1>3, <1>4, <1>5 DEF Types, Record
<1>7. Records'
  BY <1>1, <1>2 DEF Records
<1>8. Owners'
  <2>1. \A d \in Conn : session'[d] = "none" <=> session[d] = "none"
    BY <1>1, <1>3
  <2>2. \A d \in Conn : session[d] = "none" => got'[d] = <<>>
    BY <1>2, <1>4 DEF Owners
  <2> QED
    BY <1>1, <1>2, <2>1, <2>2 DEF Owners
<1>9. \A d \in Conn : d \in Live' => session'[d] = "open" /\ d \in Live
  BY <1>1, <1>3 DEF Live
<1> QED
  BY <1>1, <1>4, <1>5, <1>6, <1>7, <1>8, <1>9, EndsStep

(* sse_free_ctx_: the record that is marked may be another client's by now, which is not
   alive then. *)
LEMMA SessionEndsStep ==
  ASSUME IInv, NEW c \in Conn, SessionEnds(c) PROVE IInv'
<1>1. /\ session[c] = "closing" /\ heap' = [heap EXCEPT ![ctx[c]].fd = FALSE]
      /\ session' = [session EXCEPT ![c] = "closed"]
      /\ UNCHANGED <<n, events, ctx, sse, pump, history>>
  BY DEF SessionEnds, Cleared, Zeroed
<1>2. Types /\ Records /\ Owners
  BY DEF IInv
<1>3. /\ session' \in [Conn -> {"none", "open", "closing", "closed"}]
      /\ \A d \in Conn : session'[d] = IF d = c THEN "closed" ELSE session[d]
  BY <1>1, <1>2 DEF Types
<1>4. /\ heap' \in [Block -> Record]
      /\ \A b \in Block : /\ heap'[b].owner = heap[b].owner
                          /\ heap'[b].allocated = heap[b].allocated
                          /\ heap'[b].fd => heap[b].fd
  <2> DEFINE x == ctx[c]
             r(b) == [heap[b] EXCEPT !.fd = FALSE]
  <2>1. heap \in [Block -> Record] /\ \A b \in Block : heap[b] \in Record
    BY <1>2 DEF Types
  <2>2. \A b \in Block : /\ r(b) \in Record /\ r(b).owner = heap[b].owner /\ r(b).fd = FALSE
                         /\ r(b).allocated = heap[b].allocated
    BY <2>1 DEF Record
  <2>3. heap' = [b \in Block |-> IF b = x THEN r(b) ELSE heap[b]]
    <3> HIDE DEF x
    <3>1. heap' = [heap EXCEPT ![x].fd = FALSE]
      BY <1>1 DEF x
    <3> QED
      BY <2>1, <3>1
  <2> HIDE DEF x, r
  <2>4. heap' \in [Block -> Record]
    BY <2>1, <2>2, <2>3
  <2> QED
    BY <2>2, <2>3, <2>4
<1>5. Types'
  BY <1>1, <1>2, <1>3, <1>4 DEF Types, history, Record
<1>6. Records'
  BY <1>1, <1>2, <1>4 DEF Records
<1>7. Owners'
  BY <1>1, <1>2, <1>3, <1>4 DEF Owners, history
<1>8. \A d \in Conn : d \in Live' => d \in Live
  <2>1. \A b : b \in Range(sse) => b \in Block
    BY <1>2 DEF Records
  <2> QED
    BY <1>1, <1>3, <1>4, <2>1 DEF Live
<1> QED
  BY <1>1, <1>4, <1>5, <1>6, <1>7, <1>8, EndsStep DEF history

(* The oldest record makes room for a new one. *)
LEMMA RoomIsMade ==
  ASSUME Types, Records, Owners
  PROVE  /\ MakeRoom.heap \in [Block -> Record]
         /\ \A b \in Block : /\ MakeRoom.heap[b].owner = heap[b].owner
                             /\ MakeRoom.heap[b].fd = heap[b].fd
                             /\ MakeRoom.heap[b].allocated => heap[b].allocated
         /\ MakeRoom.sse \in Seq(Block) /\ IsInjective(MakeRoom.sse)
         /\ Len(MakeRoom.sse) < MaxClients
         /\ Range(MakeRoom.sse) = {b \in Block : MakeRoom.heap[b].allocated}
         /\ MakeRoom.session \in [Conn -> {"none", "open", "closing", "closed"}]
         /\ \A c \in Conn : /\ MakeRoom.session[c] = "open" => session[c] = "open"
                            /\ MakeRoom.session[c] = "none" <=> session[c] = "none"
<1>1. /\ heap \in [Block -> Record] /\ sse \in Seq(Block) /\ IsInjective(sse)
      /\ Len(sse) <= MaxClients /\ Range(sse) = {b \in Block : heap[b].allocated}
      /\ session \in [Conn -> {"none", "open", "closing", "closed"}]
      /\ MaxClients \in Nat \ {0}
  BY Typed DEF Types, Records
<1>2. /\ Len(sse) \in Nat /\ DOMAIN sse = 1..Len(sse) /\ \A i \in 1..Len(sse) : sse[i] \in Block
      /\ \A b : b \in Range(sse) <=> \E i \in 1..Len(sse) : sse[i] = b
  BY <1>1, Elements
<1>3. CASE Len(sse) < MaxClients
  <2>1. MakeRoom = [heap |-> heap, sse |-> sse, session |-> session]
    BY <1>3 DEF MakeRoom
  <2>2. MakeRoom.heap = heap /\ MakeRoom.sse = sse /\ MakeRoom.session = session
    BY <2>1
  <2> QED
    BY <1>1, <1>3, <2>2
<1>4. CASE ~(Len(sse) < MaxClients)
  <2> DEFINE old == Head(sse)
             h   == [heap EXCEPT ![old].allocated = FALSE]
             q   == Tail(sse)
             w   == IF heap[old].fd THEN [session EXCEPT ![heap[old].owner] = "closing"]
                    ELSE session
  <2>1. MakeRoom.heap = h /\ MakeRoom.sse = q /\ MakeRoom.session = w
    <3>1. MakeRoom = [heap |-> h, sse |-> q, session |-> w]
      BY <1>4 DEF MakeRoom, Freed
    <3> HIDE DEF h, q, w
    <3> QED
      BY <3>1
  <2>2. Len(sse) = MaxClients /\ sse # <<>>
    <3> DEFINE l == Len(sse)
    <3>1. l \in Nat /\ MaxClients \in Nat \ {0} /\ l <= MaxClients /\ ~(l < MaxClients)
      BY <1>1, <1>2, <1>4
    <3> HIDE DEF l
    <3>2. l = MaxClients /\ l # 0
      BY <3>1
    <3> QED
      BY <3>2, EmptySeq DEF l
  <2>3. /\ old = sse[1] /\ q \in Seq(Block) /\ Len(q) = Len(sse) - 1
        /\ \A i \in 1..Len(q) : q[i] = sse[i + 1]
    BY <1>1, <2>2, HeadTailProperties
  <2>4. 1 \in DOMAIN sse /\ old \in Block
    BY <1>1, <1>2, <2>2, <2>3
  <2>5. /\ h \in [Block -> Record]
        /\ \A b \in Block : /\ h[b].owner = heap[b].owner /\ h[b].fd = heap[b].fd
                            /\ h[b].allocated <=> heap[b].allocated /\ b # old
    <3> HIDE DEF old
    <3>1. \A b \in Block : heap[b] \in Record
      BY <1>1
    <3> QED
      BY <1>1, <2>4, <3>1 DEF Record
  <2>6. /\ w \in [Conn -> {"none", "open", "closing", "closed"}]
        /\ \A c \in Conn : /\ w[c] = "open" => session[c] = "open"
                           /\ w[c] = "none" <=> session[c] = "none"
    <3> DEFINE o == heap[old].owner
    <3>1. heap[old].fd => o \in Conn /\ session[o] # "none"
      <4> HIDE DEF old
      <4> QED
        BY <2>4 DEF Owners
    <3> HIDE DEF o, old
    <3>2. CASE heap[old].fd
      <4>1. w = [session EXCEPT ![o] = "closing"]
        BY <3>2 DEF o
      <4> HIDE DEF w
      <4> QED
        BY <1>1, <3>1, <3>2, <4>1
    <3>3. CASE ~heap[old].fd
      <4>1. w = session
        BY <3>3
      <4> HIDE DEF w
      <4> QED
        BY <1>1, <4>1
    <3> QED
      BY <3>2, <3>3
  <2> HIDE DEF h, q, w, old
  <2>7. /\ DOMAIN q = 1..Len(q) /\ Len(q) \in Nat
        /\ \A b : b \in Range(q) <=> \E i \in 1..Len(q) : q[i] = b
    BY <2>3, Elements
  <2>8. \A i \in 1..Len(q) : i + 1 \in DOMAIN sse /\ i + 1 # 1 /\ q[i] = sse[i + 1]
    BY <1>2, <2>3, <2>7
  <2>9. \A i \in 1..Len(sse) : i # 1 => i - 1 \in 1..Len(q) /\ q[i - 1] = sse[i]
    <3>1. \A i \in 1..Len(sse) : i # 1 => i - 1 \in 1..Len(q) /\ i - 1 + 1 = i
      BY <1>2, <2>3
    <3> QED
      BY <2>3, <3>1
  <2>10. IsInjective(q)
    <3>1. ASSUME NEW i \in 1..Len(q), NEW j \in 1..Len(q), q[i] = q[j] PROVE i = j
      <4>1. i + 1 = j + 1
        BY <1>1, <2>8, <3>1 DEF IsInjective
      <4> QED
        BY <2>7, <4>1
    <3> QED
      BY <2>7, <3>1 DEF IsInjective
  <2>11. \A b : b \in Range(q) <=> b \in Range(sse) /\ b # old
    <3>1. ASSUME NEW b, b \in Range(q) PROVE b \in Range(sse) /\ b # old
      <4>1. PICK i \in 1..Len(q) : q[i] = b
        BY <2>7, <3>1
      <4>2. i + 1 \in DOMAIN sse /\ sse[i + 1] = b /\ i + 1 # 1
        BY <2>8, <4>1
      <4>3. sse[i + 1] # sse[1]
        BY <1>1, <2>4, <4>2 DEF IsInjective
      <4> QED
        BY <1>2, <2>3, <4>2, <4>3
    <3>2. ASSUME NEW b, b \in Range(sse), b # old PROVE b \in Range(q)
      <4>1. PICK i \in 1..Len(sse) : sse[i] = b
        BY <1>2, <3>2
      <4>2. i # 1
        BY <2>3, <3>2, <4>1
      <4> QED
        BY <2>7, <2>9, <4>1, <4>2
    <3> QED
      BY <3>1, <3>2
  <2>12. Range(q) = {b \in Block : h[b].allocated}
    BY <1>1, <2>5, <2>11
  <2>13. Len(q) < MaxClients
    BY <1>1, <1>2, <2>2, <2>3
  <2> QED
    BY <2>1, <2>3, <2>5, <2>6, <2>10, <2>12, <2>13
<1> QED
  BY <1>3, <1>4

(* handle_sse_: the new client may get the address of a record that was deleted, and is
   owed nothing of what came before it. *)
LEMMA ConnectStep ==
  ASSUME IInv, NEW c \in Conn, Connect(c) PROVE IInv'
<1> DEFINE h == MakeRoom.heap
           q == MakeRoom.sse
           w == MakeRoom.session
           r == [owner |-> c, fd |-> TRUE, allocated |-> TRUE]
<1>1. PICK b \in Free :
        /\ session[c] = "none" /\ heap' = [h EXCEPT ![b] = r]
        /\ ctx' = [ctx EXCEPT ![c] = b] /\ sse' = Append(q, b)
        /\ session' = [w EXCEPT ![c] = "open"]
        /\ joined' = [Forgotten(joined, 0) EXCEPT ![c] = n]
        /\ got' = Forgotten(got, <<>>) /\ lost' = Forgotten(lost, {})
        /\ UNCHANGED <<n, events, pump>>
  BY DEF Connect
<1>2. Types /\ Records /\ Owners
  BY DEF IInv
<1>3. /\ h \in [Block -> Record]
      /\ \A a \in Block : /\ h[a].owner = heap[a].owner /\ h[a].fd = heap[a].fd
                          /\ h[a].allocated => heap[a].allocated
      /\ q \in Seq(Block) /\ IsInjective(q) /\ Len(q) < MaxClients
      /\ Range(q) = {a \in Block : h[a].allocated}
      /\ w \in [Conn -> {"none", "open", "closing", "closed"}]
      /\ \A d \in Conn : /\ w[d] = "open" => session[d] = "open"
                         /\ w[d] = "none" <=> session[d] = "none"
  BY <1>2, RoomIsMade
<1>4. b \in Block /\ ~heap[b].allocated
  BY DEF Free
<1>5. r \in Record /\ r.owner = c /\ r.fd = TRUE /\ r.allocated = TRUE
  BY DEF Record
<1> HIDE DEF h, q, w, r
<1>6. /\ heap' \in [Block -> Record]
      /\ heap'[b] = r /\ \A a \in Block : a # b => heap'[a] = h[a]
  BY <1>1, <1>3, <1>4, <1>5
<1>7. /\ ctx' \in [Conn -> Block \cup {None}]
      /\ ctx'[c] = b /\ \A d \in Conn : d # c => ctx'[d] = ctx[d]
  BY <1>1, <1>2, <1>4 DEF Types
<1>8. /\ session' \in [Conn -> {"none", "open", "closing", "closed"}]
      /\ session'[c] = "open" /\ \A d \in Conn : d # c => session'[d] = w[d]
  BY <1>1, <1>3
<1>9. /\ got' \in [Conn -> Seq(Nat)] /\ lost' \in [Conn -> SUBSET Nat]
      /\ \A d \in Conn : got'[d] = got[d] \/ got'[d] = <<>>
      /\ \A d \in Conn : session'[d] = "open" => got'[d] = got[d] /\ lost'[d] = lost[d]
  BY <1>1, <1>2, ForgottenHistory
<1>10. /\ joined' \in [Conn -> Nat] /\ joined'[c] = n
       /\ \A d \in Conn : d # c /\ session'[d] = "open" => joined'[d] = joined[d]
  <2>1. n \in Nat /\ \A d \in Conn : joined[d] \in Nat
    BY <1>2, Typed
  <2>2. Forgotten(joined, 0) = [d \in Conn |-> IF session'[d] = "open" THEN joined[d] ELSE 0]
    BY DEF Forgotten
  <2> QED
    BY <1>1, <2>1, <2>2
<1>11. /\ sse' \in Seq(Block) /\ Len(sse') = Len(q) + 1
       /\ \A a : a \in Range(sse') <=> a \in Range(q) \/ a = b
       /\ \A i \in 1..Len(q) : sse'[i] = q[i]
       /\ sse'[Len(q) + 1] = b
  <2> DEFINE t == Append(q, b)
  <2>1. /\ t \in Seq(Block) /\ Len(t) = Len(q) + 1
        /\ \A a : a \in Range(t) <=> a \in Range(q) \/ a = b
        /\ \A i \in 1..Len(q) : t[i] = q[i]
        /\ t[Len(q) + 1] = b
    BY <1>3, <1>4, Appended
  <2>2. sse' = t
    BY <1>1
  <2> HIDE DEF t
  <2> QED
    BY <2>1, <2>2
<1>12. b \notin Range(q)
  BY <1>3, <1>4
<1>13. Types'
  BY <1>1, <1>2, <1>6, <1>7, <1>8, <1>9, <1>10, <1>11 DEF Types, Record
<1>14. Records'
  <2>1. Len(q) \in Nat /\ DOMAIN q = 1..Len(q) /\ DOMAIN sse' = 1..Len(sse')
        /\ \A a : a \in Range(q) <=> \E i \in 1..Len(q) : q[i] = a
    BY <1>3, <1>11, Elements
  <2>2. MaxClients \in Nat
    BY <1>2, Typed
  <2>3. Len(sse') <= MaxClients
    BY <1>3, <1>11, <2>1, <2>2
  <2>4. \A i \in DOMAIN sse' : i \in 1..Len(q) \/ i = Len(q) + 1
    BY <1>11, <2>1
  <2>5. \A i \in 1..Len(q) : sse'[i] # b
    BY <1>11, <1>12, <2>1
  <2>6. IsInjective(sse')
    BY <1>3, <1>11, <2>1, <2>4, <2>5 DEF IsInjective
  <2>7. Range(sse') = {a \in Block : heap'[a].allocated}
    <3>1. \A a \in Block : heap'[a].allocated <=> a \in Range(q) \/ a = b
      BY <1>3, <1>5, <1>6
    <3>2. \A a : a \in Range(q) => a \in Block
      BY <1>3
    <3> QED
      BY <1>4, <1>11, <3>1, <3>2
  <2> QED
    BY <2>3, <2>6, <2>7 DEF Records
<1>15. Owners'
  <2>1. ASSUME NEW a \in Block, NEW d \in Conn, heap'[a].owner = d
        PROVE  ctx'[d] = a /\ session'[d] # "none"
    <3>1. CASE a = b
      BY <1>5, <1>6, <1>7, <1>8, <2>1, <3>1
    <3>2. CASE a # b
      <4>1. heap[a].owner = d
        BY <1>3, <1>6, <2>1, <3>2
      <4>2. ctx[d] = a /\ session[d] # "none"
        BY <1>2, <4>1 DEF Owners
      <4>3. d # c
        BY <1>1, <4>2
      <4> QED
        BY <1>3, <1>7, <1>8, <4>2, <4>3
    <3> QED
      BY <3>1, <3>2
  <2>2. \A a \in Block : heap'[a].fd => heap'[a].owner \in Conn
    BY <1>2, <1>3, <1>5, <1>6 DEF Owners
  <2>3. \A d \in Conn : session'[d] = "none" => got'[d] = <<>>
    <3>1. \A d \in Conn : session'[d] = "none" => session[d] = "none"
      BY <1>3, <1>8
    <3>2. \A d \in Conn : session[d] = "none" => got[d] = <<>>
      BY <1>2 DEF Owners
    <3> QED
      BY <1>9, <3>1, <3>2
  <2> QED
    BY <2>1, <2>2, <2>3 DEF Owners
<1>16. \A a \in Block, d \in Conn :
         heap'[a].owner = d => heap[a].owner = d \/ got'[d] = <<>>
  <2>1. got[c] = <<>>
    BY <1>1, <1>2 DEF Owners
  <2>2. got'[c] = <<>>
    BY <1>9, <2>1
  <2>3. ASSUME NEW a \in Block, NEW d \in Conn, heap'[a].owner = d, d # c
        PROVE  heap[a].owner = d
    <3>1. a # b
      BY <1>5, <1>6, <2>3
    <3> QED
      BY <1>3, <1>5, <1>6, <2>3, <3>1
  <2> QED
    BY <2>2, <2>3
<1>17. \A d \in Conn : d \in Live' =>
         \/ joined'[d] = n
         \/ /\ d \in Live /\ ctx'[d] = ctx[d] /\ got'[d] = got[d] /\ lost'[d] = lost[d]
            /\ joined'[d] = joined[d]
  <2>1. ASSUME NEW d \in Conn, d \in Live', d # c
        PROVE  /\ d \in Live /\ ctx'[d] = ctx[d] /\ got'[d] = got[d] /\ lost'[d] = lost[d]
               /\ joined'[d] = joined[d]
    <3>1. /\ session'[d] = "open" /\ ctx'[d] \in Range(sse')
          /\ heap'[ctx'[d]].owner = d /\ heap'[ctx'[d]].fd
      BY <2>1 DEF Live
    <3>2. ctx'[d] = ctx[d] /\ session[d] = "open"
      BY <1>3, <1>7, <1>8, <2>1, <3>1
    <3>3. ctx[d] # b
      BY <1>5, <1>6, <2>1, <3>1, <3>2
    <3>4. ctx[d] \in Range(q)
      BY <1>11, <3>1, <3>2, <3>3
    <3>5. ctx[d] \in Block /\ h[ctx[d]].allocated
      BY <1>3, <3>4
    <3>6. ctx[d] \in Range(sse) /\ heap[ctx[d]].owner = d /\ heap[ctx[d]].fd
      BY <1>2, <1>3, <1>6, <3>1, <3>2, <3>3, <3>5 DEF Records
    <3> QED
      BY <1>9, <1>10, <2>1, <3>1, <3>2, <3>6, LiveClient
  <2> QED
    BY <1>10, <2>1
<1> QED
  BY <1>1, <1>9, <1>13, <1>14, <1>15, <1>16, <1>17, EndsStep

(* The pump takes the backlog for the clients that are alive, and deletes the records of
   the others. *)
LEMMA PumpBeginStep ==
  ASSUME IInv, NEW ping \in BOOLEAN, PumpBegin(ping) PROVE IInv'
<1> DEFINE pending == IF ping THEN Append(events, 0) ELSE events
<1>1. /\ pump = Idle /\ events' = <<>> /\ UNCHANGED <<n, ctx, session, history>>
  BY DEF PumpBegin, Taken
<1>2. Types /\ IsPump(pump) /\ Records /\ Owners /\ Backlog /\ Received /\ Ahead
  BY DEF IInv
<1>3. n \in Nat /\ events \in Seq(Nat)
  BY <1>2, Typed DEF Types
<1>4. Range(<<>>) = {} /\ Increasing(<<>>) /\ Len(<<>>) = 0
  BY DEF Range, Increasing
<1>5. /\ n' = n /\ ctx' = ctx /\ session' = session /\ got' = got /\ joined' = joined
      /\ lost' = lost
  BY <1>1 DEF history
<1>6. events' \in Seq(Nat) /\ Len(events') <= EventTrim + LogTrim
  <2>1. EventTrim \in Nat /\ LogTrim \in Nat
    BY <1>2, Typed
  <2> QED
    BY <1>1, <1>4, <2>1
<1>7. CASE Nobody
  <2>1. UNCHANGED <<heap, sse, pump>>
    BY <1>7 DEF PumpBegin
  <2>2. sse = <<>>
    BY <1>7 DEF Nobody
  <2>3. Types'
    BY <1>2, <1>5, <1>6, <2>1 DEF Types, Record
  <2>4. IsPump(pump)' /\ Records' /\ Owners' /\ Ahead'
    BY <1>2, <1>5, <2>1 DEF Records, Owners, Ahead
  <2>5. Backlog'
    BY <1>1, <1>2, <1>4, <1>5, <2>1 DEF Backlog
  <2>6. Received'
    BY <1>1, <1>2, <1>4, <1>5 DEF Received
  <2>7. GapIsExplained'
    <3>1. \A c \in Conn : c \notin Live'
      BY <1>4, <2>1, <2>2 DEF Live
    <3> QED
      BY <3>1 DEF GapIsExplained, Live
  <2> QED
    BY <2>3, <2>4, <2>5, <2>6, <2>7 DEF IInv
<1>8. CASE ~Nobody
  <2>1. /\ ping => events = <<>>
        /\ heap' = [b \in Block |-> IF b \in Range(sse) \ Range(Kept) THEN Freed(heap, b)[b]
                                    ELSE heap[b]]
        /\ sse' = Kept
        /\ pump' = IF Kept = <<>> \/ pending = <<>> THEN Idle
                   ELSE [clients |-> Kept, pending |-> pending, at |-> 1]
    BY <1>8 DEF PumpBegin
  <2>2. /\ Kept \in Seq(Block) /\ IsInjective(Kept) /\ Len(Kept) <= Len(sse)
        /\ \A b : b \in Range(Kept) <=> b \in Range(sse) /\ heap[b].fd
    BY <1>2, KeptClients DEF Types, Records
  <2>3. /\ heap \in [Block -> Record] /\ \A b \in Block : heap[b] \in Record
        /\ \A b : b \in Range(sse) <=> b \in Block /\ heap[b].allocated
    BY <1>2 DEF Types, Records
  <2>4. /\ heap' \in [Block -> Record]
        /\ \A b \in Block : /\ heap'[b].owner = heap[b].owner /\ heap'[b].fd = heap[b].fd
                            /\ heap'[b].allocated <=> heap[b].allocated /\ heap[b].fd
    <3> DEFINE f(b) == [heap[b] EXCEPT !.allocated = FALSE]
    <3>1. \A b \in Block : /\ f(b) \in Record /\ f(b).owner = heap[b].owner
                           /\ f(b).fd = heap[b].fd /\ f(b).allocated = FALSE
      BY <2>3 DEF Record
    <3>2. \A b \in Block : Freed(heap, b)[b] = f(b)
      BY <2>3 DEF Freed
    <3>3. heap' = [b \in Block |-> IF heap[b].allocated /\ ~heap[b].fd THEN f(b) ELSE heap[b]]
      <4> HIDE DEF f
      <4>1. \A b \in Block : b \in Range(sse) \ Range(Kept) <=> heap[b].allocated /\ ~heap[b].fd
        BY <2>2, <2>3
      <4> QED
        BY <2>1, <3>2, <4>1
    <3> HIDE DEF f
    <3>4. heap' \in [Block -> Record]
      BY <2>3, <3>1, <3>3
    <3> QED
      BY <3>1, <3>3, <3>4
  <2>5. /\ pending \in Seq(Nat) /\ Increasing(pending)
        /\ \A e \in Range(pending) : e <= n /\ (e # 0 => e \in Range(events))
        /\ \A e \in Range(events) : e \in Range(pending)
    <3>1. CASE ping
      <4> DEFINE t == Append(events, 0)
      <4>1. events = <<>>
        BY <2>1, <3>1
      <4>2. t \in Seq(Nat) /\ \A e : e \in Range(t) <=> e \in Range(events) \/ e = 0
        BY <1>3, Appended
      <4>3. Increasing(t)
        BY <1>3, <1>4, <4>1, Newer
      <4> HIDE DEF t
      <4>4. pending = t
        BY <3>1 DEF t
      <4> HIDE DEF pending
      <4> QED
        BY <1>3, <1>4, <4>1, <4>2, <4>3, <4>4
    <3>2. CASE ~ping
      BY <1>2, <1>3, <3>2 DEF Backlog
    <3> QED
      BY <3>1, <3>2
  <2> HIDE DEF pending
  <2>6. /\ IsPump(pump') /\ Increasing(pump'.pending)
        /\ \A e \in Range(pump'.pending) : e \in Range(pending)
    <3>1. CASE Kept = <<>> \/ pending = <<>>
      BY <1>4, <2>1, <3>1, IdleSends
    <3>2. CASE ~(Kept = <<>> \/ pending = <<>>)
      <4> DEFINE p == [clients |-> Kept, pending |-> pending, at |-> 1]
                 k == Kept
      <4>1. pump' = p
        BY <2>1, <3>2
      <4>2. p = [clients |-> p.clients, pending |-> p.pending, at |-> p.at]
            /\ p.clients = k /\ p.pending = pending /\ p.at = 1
        <5> HIDE DEF k
        <5>1. p = [clients |-> k, pending |-> pending, at |-> 1]
          BY DEF k
        <5> HIDE DEF p
        <5> QED
          BY <5>1
      <4> HIDE DEF p
      <4>3. 1 \in DOMAIN pending
        BY <2>5, <3>2, Elements, EmptySeq
      <4>4. IsPump(p)
        BY <2>2, <2>5, <3>2, <4>2, <4>3 DEF IsPump
      <4> QED
        BY <2>5, <4>1, <4>2, <4>4
    <3> QED
      BY <3>1, <3>2
  <2>7. Types'
    BY <1>2, <1>5, <1>6, <2>1, <2>2, <2>4 DEF Types, Record
  <2>8. Records'
    <3>1. Len(Kept) \in Nat /\ Len(sse) \in Nat /\ MaxClients \in Nat /\ Len(sse) <= MaxClients
      BY <1>2, <2>2, Typed, Elements DEF Types, Records
    <3>2. Len(Kept) <= MaxClients
      BY <2>2, <3>1
    <3>3. Range(Kept) = {b \in Block : heap'[b].allocated}
      BY <2>2, <2>3, <2>4
    <3> QED
      BY <2>1, <2>2, <3>2, <3>3 DEF Records
  <2>9. Owners'
    BY <1>2, <1>5, <2>4 DEF Owners
  <2>10. Backlog'
    <3>1. \A e \in Range(pump'.pending) : e <= n
      BY <2>5, <2>6
    <3> QED
      BY <1>1, <1>4, <1>5, <2>6, <3>1 DEF Backlog
  <2>11. Received'
    BY <1>1, <1>2, <1>4, <1>5 DEF Received
  <2>12. Ahead'
    <3>1. ASSUME NEW b \in Block, NEW c \in Conn, NEW g \in Range(got[c]),
                 NEW e \in Nat, e # 0, IsDue(pump', b, e)
          PROVE  g < e
      <4>1. e \in Range(events)
        BY <2>5, <2>6, <3>1, DueIsPending
      <4> QED
        BY <1>2, <4>1 DEF Received
    <3> QED
      BY <1>5, <3>1 DEF Ahead
  <2>13. GapIsExplained'
    <3>1. ASSUME NEW c \in Conn, c \in Live', NEW e \in (joined[c] + 1)..n
          PROVE  Explained(c, e)'
      <4>1. /\ session[c] = "open" /\ ctx[c] \in Range(Kept)
            /\ heap'[ctx[c]].owner = c /\ heap'[ctx[c]].fd
        BY <1>5, <2>1, <3>1 DEF Live
      <4>2. ctx[c] \in Range(sse) /\ ctx[c] \in Block
        BY <2>2, <2>3, <4>1
      <4>3. c \in Live
        BY <2>4, <4>1, <4>2, LiveClient
      <4>4. Explained(c, e)
        BY <3>1, <4>3, GapMeans DEF IInv
      <4>5. ~IsDue(pump, ctx[c], e)
        BY <1>1, IdleSends
      <4>6. CASE e \in Range(events)
        <5>1. PICK j \in DOMAIN pending : pending[j] = e
          BY <2>5, <4>6 DEF Range
        <5>2. PICK i \in DOMAIN Kept : Kept[i] = ctx[c]
          BY <4>1 DEF Range
        <5>3. Kept # <<>> /\ pending # <<>>
          BY <1>4, <2>5, <4>1, <4>6
        <5> DEFINE k == Kept
                   p == [clients |-> k, pending |-> pending, at |-> 1]
        <5>4. pump' = p
          BY <2>1, <5>3
        <5> HIDE DEF k
        <5>5. p.clients = k /\ p.pending = pending /\ p.at = 1
          OBVIOUS
        <5>6. j >= 1
          <6>1. j \in 1..Len(pending) /\ Len(pending) \in Nat
            BY <2>5, <5>1, Elements
          <6> QED
            BY <6>1
        <5> HIDE DEF p
        <5>7. IsDue(p, ctx[c], e)
          BY <5>1, <5>2, <5>5, <5>6 DEF IsDue, k
        <5> QED
          BY <1>5, <5>4, <5>7 DEF Explained
      <4>7. CASE e \notin Range(events)
        BY <1>5, <4>4, <4>5, <4>7 DEF Explained
      <4> QED
        BY <4>6, <4>7
    <3>2. \A c \in Live' : \A e \in (joined'[c] + 1)..n' : Explained(c, e)'
      <4>1. \A c \in Live' : c \in Conn
        BY DEF Live
      <4> QED
        BY <1>5, <3>1, <4>1
    <3> QED
      BY <3>2, GapMeansNext
  <2> QED
    BY <2>6, <2>7, <2>8, <2>9, <2>10, <2>11, <2>12, <2>13 DEF IInv
<1> QED
  BY <1>7, <1>8

(* One send of the pump: what it was for its client is received, overflows or ends the
   client, and the pump goes on. *)
LEMMA PumpSendStep ==
  ASSUME IInv, PumpSend PROVE IInv'
<1> DEFINE b == Head(pump.clients)
           e == pump.pending[pump.at]
           c == heap[b].owner
<1>1. pump # Idle /\ UNCHANGED <<n, events, ctx, session, sse, joined>>
  BY DEF PumpSend
<1>2. Types /\ IsPump(pump) /\ Records /\ Owners /\ Backlog /\ Received /\ Ahead
  BY DEF IInv
<1>3. b \in Block /\ e \in Nat /\ e \in Range(pump.pending)
  <2>1. /\ 1 \in 1..Len(pump.clients) /\ b = pump.clients[1]
        /\ \A i \in 1..Len(pump.clients) : pump.clients[i] \in Block
        /\ \A j \in 1..Len(pump.pending) : pump.pending[j] \in Nat
        /\ DOMAIN pump.pending = 1..Len(pump.pending) /\ pump.at \in 1..Len(pump.pending)
    <3>1. Len(pump.clients) \in Nat \ {0}
      BY <1>1, <1>2, PumpShape
    <3>2. 1 \in 1..Len(pump.clients)
      BY <3>1
    <3> QED
      BY <1>1, <1>2, <3>2, PumpShape
  <2> QED
    BY <2>1 DEF Range
<1>4. /\ IsPump(NextEvent) /\ NextEvent.pending \in {pump.pending, <<>>}
      /\ IsDue(pump, b, e)
      /\ \A a, f : IsDue(NextEvent, a, f) => IsDue(pump, a, f) /\ (a = b => e < f)
      /\ \A a, f : IsDue(pump, a, f) /\ (a # b \/ f # e) => IsDue(NextEvent, a, f)
  BY <1>1, <1>2, NextEventDue DEF Backlog
<1>5. /\ IsPump(NextClient) /\ NextClient.pending \in {pump.pending, <<>>}
      /\ \A a, f : IsDue(NextClient, a, f) <=> IsDue(pump, a, f) /\ a # b
  BY <1>1, <1>2, NextClientDue
<1>6. \/ /\ heap[b].fd
         /\ \/ /\ got' = IF e = 0 \/ session[c] # "open" THEN got
                         ELSE [got EXCEPT ![c] = Append(@, e)]
               /\ lost' = lost
            \/ /\ lost' = IF e = 0 \/ session[c] # "open" THEN lost
                          ELSE [lost EXCEPT ![c] = @ \cup {e}]
               /\ got' = got
         /\ pump' = NextEvent /\ heap' = heap
      \/ /\ heap' = [heap EXCEPT ![b].fd = FALSE]
         /\ pump' = NextClient /\ UNCHANGED <<got, lost>>
  BY DEF PumpSend, Failed, Zeroed, AfterFailure
<1> HIDE DEF b, e
<1>7. n \in Nat /\ e <= n /\ \A f \in Range(events) : e < f
  BY <1>2, <1>3, Typed DEF Backlog
<1>8. Range(<<>>) = {} /\ Increasing(<<>>)
  BY DEF Range, Increasing
<1>9. ASSUME pump'.pending \in {pump.pending, <<>>} PROVE Backlog'
  BY <1>1, <1>2, <1>8, <1>9 DEF Backlog
<1>10. CASE /\ heap' = [heap EXCEPT ![b].fd = FALSE]
            /\ pump' = NextClient /\ UNCHANGED <<got, lost>>
  <2>1. /\ heap' \in [Block -> Record]
        /\ \A a \in Block : /\ heap'[a].owner = heap[a].owner
                            /\ heap'[a].allocated = heap[a].allocated
                            /\ heap'[a].fd <=> heap[a].fd /\ a # b
    <3> DEFINE r(a) == [heap[a] EXCEPT !.fd = FALSE]
    <3>1. heap \in [Block -> Record] /\ \A a \in Block : heap[a] \in Record
      BY <1>2 DEF Types
    <3>2. \A a \in Block : /\ r(a) \in Record /\ r(a).owner = heap[a].owner /\ r(a).fd = FALSE
                           /\ r(a).allocated = heap[a].allocated
      BY <3>1 DEF Record
    <3>3. heap' = [a \in Block |-> IF a = b THEN r(a) ELSE heap[a]]
      BY <1>10, <3>1
    <3> HIDE DEF r
    <3>4. heap' \in [Block -> Record]
      BY <3>1, <3>2, <3>3
    <3> QED
      BY <3>2, <3>3, <3>4
  <2>2. Types'
    BY <1>1, <1>2, <1>10, <2>1 DEF Types, Record
  <2>3. IsPump(pump') /\ Backlog'
    BY <1>5, <1>9, <1>10
  <2>4. Records'
    BY <1>1, <1>2, <2>1 DEF Records
  <2>5. Owners'
    BY <1>1, <1>2, <1>10, <2>1 DEF Owners
  <2>6. Received'
    BY <1>1, <1>2, <1>10 DEF Received
  <2>7. Ahead'
    BY <1>2, <1>5, <1>10, <2>1 DEF Ahead
  <2>8. GapIsExplained'
    <3>1. ASSUME NEW d \in Conn, d \in Live', NEW f \in (joined[d] + 1)..n
          PROVE  Explained(d, f)'
      <4>1. /\ session[d] = "open" /\ ctx[d] \in Range(sse)
            /\ heap'[ctx[d]].owner = d /\ heap'[ctx[d]].fd
        BY <1>1, <3>1 DEF Live
      <4>2. ctx[d] \in Block
        BY <1>2, <4>1 DEF Records
      <4>3. d \in Live /\ ctx[d] # b
        BY <2>1, <4>1, <4>2, LiveClient
      <4>4. Explained(d, f)
        BY <3>1, <4>3, GapMeans DEF IInv
      <4> QED
        BY <1>1, <1>5, <1>10, <4>3, <4>4 DEF Explained
    <3>2. \A d \in Live' : \A f \in (joined'[d] + 1)..n' : Explained(d, f)'
      <4>1. \A d \in Live' : d \in Conn
        BY DEF Live
      <4> QED
        BY <1>1, <3>1, <4>1
    <3> QED
      BY <3>2, GapMeansNext
  <2> QED
    BY <2>2, <2>3, <2>4, <2>5, <2>6, <2>7, <2>8 DEF IInv
<1>11. CASE /\ heap[b].fd
            /\ \/ /\ got' = IF e = 0 \/ session[c] # "open" THEN got
                            ELSE [got EXCEPT ![c] = Append(@, e)]
                  /\ lost' = lost
               \/ /\ lost' = IF e = 0 \/ session[c] # "open" THEN lost
                             ELSE [lost EXCEPT ![c] = @ \cup {e}]
                  /\ got' = got
            /\ pump' = NextEvent /\ heap' = heap
  <2>1. c \in Conn /\ ctx[c] = b
    BY <1>2, <1>3, <1>11 DEF Owners
  <2>2. \A d \in Conn : got[d] \in Seq(Nat) /\ lost[d] \in SUBSET Nat
    BY <1>2 DEF Types
  <2>3. \A g \in Range(got[c]) : e # 0 => g < e
    BY <1>2, <1>3, <1>4, <2>1 DEF Ahead
  <2> HIDE DEF c
  <2> DEFINE t == Append(got[c], e)
  <2>4. /\ t \in Seq(Nat) /\ \A x : x \in Range(t) <=> x \in Range(got[c]) \/ x = e
        /\ (e # 0 => Increasing(t))
    <3>1. got[c] \in Seq(Nat) /\ Increasing(got[c])
      BY <1>2, <2>1, <2>2 DEF Received
    <3> QED
      BY <1>3, <2>3, <3>1, Appended, Newer
  <2> HIDE DEF t
  <2>5. /\ got' \in [Conn -> Seq(Nat)] /\ lost' \in [Conn -> SUBSET Nat]
        /\ \A d \in Conn : \/ got'[d] = got[d]
                           \/ d = c /\ got'[d] = t /\ e # 0
        /\ \A d \in Conn : session[d] # "open" => got'[d] = got[d]
        /\ \A d \in Conn : lost[d] \subseteq lost'[d]
        /\ e # 0 /\ session[c] = "open" => got'[c] = t \/ e \in lost'[c]
    <3>1. CASE e = 0 \/ session[c] # "open"
      <4>1. got' = got /\ lost' = lost
        BY <1>11, <3>1
      <4> QED
        BY <1>2, <3>1, <4>1 DEF Types
    <3>2. CASE ~(e = 0 \/ session[c] # "open")
      <4>1. CASE got' = [got EXCEPT ![c] = t] /\ lost' = lost
        <5>1. \A d \in Conn : got'[d] = IF d = c THEN t ELSE got[d]
          BY <1>2, <4>1 DEF Types
        <5>2. got' \in [Conn -> Seq(Nat)]
          BY <1>2, <2>4, <4>1 DEF Types
        <5> QED
          BY <1>2, <2>1, <3>2, <4>1, <5>1, <5>2 DEF Types
      <4>2. CASE lost' = [lost EXCEPT ![c] = lost[c] \cup {e}] /\ got' = got
        <5> DEFINE l == lost[c] \cup {e}
        <5>1. l \in SUBSET Nat /\ e \in l /\ lost[c] \subseteq l
          BY <1>3, <2>1, <2>2
        <5>2. lost' = [lost EXCEPT ![c] = l]
          BY <4>2
        <5> HIDE DEF l
        <5>3. lost' \in [Conn -> SUBSET Nat]
          BY <1>2, <5>1, <5>2 DEF Types
        <5>4. \A d \in Conn : lost'[d] = IF d = c THEN l ELSE lost[d]
          BY <1>2, <5>2 DEF Types
        <5> QED
          BY <1>2, <2>1, <4>2, <5>1, <5>3, <5>4 DEF Types
      <4> QED
        BY <1>11, <3>2, <4>1, <4>2 DEF t
    <3> QED
      BY <3>1, <3>2
  <2>6. \A d \in Conn : \A x : x \in Range(got'[d]) =>
          x \in Range(got[d]) \/ (d = c /\ x = e /\ e # 0)
    BY <2>4, <2>5
  <2>7. Types'
    BY <1>1, <1>2, <1>11, <2>5 DEF Types, Record
  <2>8. IsPump(pump') /\ Backlog'
    BY <1>4, <1>9, <1>11
  <2>9. Records'
    BY <1>1, <1>2, <1>11 DEF Records
  <2>10. Owners'
    <3>1. \A d \in Conn : session'[d] = "none" => got'[d] = <<>>
      BY <1>1, <1>2, <2>5 DEF Owners
    <3> QED
      BY <1>1, <1>2, <1>11, <3>1 DEF Owners
  <2>11. Received'
    <3>1. \A d \in Conn : Increasing(got'[d])
      BY <1>2, <2>4, <2>5 DEF Received
    <3>2. e # 0 => 0 < e
      BY <1>3
    <3>3. \A d \in Conn : \A x \in Range(got'[d]) :
            0 < x /\ x <= n /\ \A f \in Range(events) : x < f
      BY <1>2, <1>7, <2>6, <3>2 DEF Received
    <3> QED
      BY <1>1, <3>1, <3>3 DEF Received
  <2>12. Ahead'
    <3>1. ASSUME NEW a \in Block, NEW d \in Conn, heap[a].owner = d, NEW g \in Range(got'[d]),
                 NEW f \in Nat, f # 0, IsDue(NextEvent, a, f)
          PROVE  g < f
      <4>1. IsDue(pump, a, f) /\ (a = b => e < f)
        BY <1>4, <3>1
      <4>2. CASE g \in Range(got[d])
        BY <1>2, <3>1, <4>1, <4>2 DEF Ahead
      <4>3. CASE d = c /\ g = e
        <5>1. a = b
          BY <1>2, <2>1, <3>1, <4>3 DEF Owners
        <5> QED
          BY <4>1, <4>3, <5>1
      <4> QED
        BY <2>6, <3>1, <4>2, <4>3
    <3> QED
      BY <1>11, <3>1 DEF Ahead
  <2>13. GapIsExplained'
    <3>1. ASSUME NEW d \in Conn, d \in Live', NEW f \in (joined[d] + 1)..n
          PROVE  Explained(d, f)'
      <4>1. d \in Live
        BY <1>1, <1>11, <3>1 DEF Live
      <4>2. session[d] = "open" /\ heap[ctx[d]].owner = d
        BY <4>1, LiveClient
      <4>3. Explained(d, f)
        BY <3>1, <4>1, GapMeans DEF IInv
      <4>4. \A x \in Range(got[d]) : x \in Range(got'[d])
        BY <2>4, <2>5
      <4>5. CASE IsDue(pump, ctx[d], f)
        <5>1. CASE ctx[d] # b \/ f # e
          BY <1>1, <1>4, <1>11, <4>5, <5>1 DEF Explained
        <5>2. CASE ctx[d] = b /\ f = e
          <6>1. d = c
            BY <4>2, <5>2 DEF c
          <6>2. e # 0
            <7>1. joined[d] \in Nat
              BY <1>2, Typed
            <7> QED
              BY <3>1, <5>2, <7>1
          <6>3. e \in Range(got'[c]) \/ e \in lost'[c]
            BY <2>4, <2>5, <4>2, <6>1, <6>2
          <6> QED
            BY <5>2, <6>1, <6>3 DEF Explained
        <5> QED
          BY <5>1, <5>2
      <4>6. CASE ~IsDue(pump, ctx[d], f)
        BY <1>1, <2>5, <4>3, <4>4, <4>6 DEF Explained
      <4> QED
        BY <4>5, <4>6
    <3>2. \A d \in Live' : \A f \in (joined'[d] + 1)..n' : Explained(d, f)'
      <4>1. \A d \in Live' : d \in Conn
        BY DEF Live
      <4> QED
        BY <1>1, <3>1, <4>1
    <3> QED
      BY <3>2, GapMeansNext
  <2> QED
    BY <2>7, <2>8, <2>9, <2>10, <2>11, <2>12, <2>13 DEF IInv
<1> QED
  BY <1>6, <1>10, <1>11

LEMMA StutterStep ==
  ASSUME IInv, UNCHANGED vars PROVE IInv'
<1> USE DEF vars, clients, history
<1>1. Types'
  BY DEF IInv, Types, Record
<1>2. Live' = Live /\ \A c : StillToSend(c)' = StillToSend(c)
  BY DEF Live, StillToSend
<1>3. GapIsExplained'
  BY <1>2 DEF IInv, GapIsExplained
<1>4. Records' /\ Owners' /\ Backlog' /\ Received' /\ Ahead' /\ IsPump(pump)'
  BY DEF IInv, Records, Owners, Backlog, Received, Ahead
<1> QED
  BY <1>1, <1>3, <1>4 DEF IInv

----------------------------------------------------------------------------
(* The theorems *)

(* Every step of EventStream keeps the inductive invariant. *)
THEOREM Inductive == IInv /\ [Next]_vars => IInv'
<1> SUFFICES ASSUME IInv, [Next]_vars PROVE IInv'
  OBVIOUS
<1>1. LogTrim \in Nat \ {0} /\ EventTrim \in Nat \ {0}
  BY StreamAssumption
<1>2. LogTrim <= EventTrim + LogTrim /\ EventTrim <= EventTrim + LogTrim
  BY <1>1
<1>3. ASSUME Log PROVE IInv'
  BY <1>1, <1>2, <1>3, PushStep DEF Log
<1>4. ASSUME Emit PROVE IInv'
  BY <1>1, <1>2, <1>4, PushStep DEF Emit
<1> QED
  BY <1>3, <1>4, ConnectStep, PeerClosesStep, SessionEndsStep, PumpBeginStep, PumpSendStep,
     StutterStep DEF Next

(* The inductive invariant holds in every behaviour. *)
THEOREM Invariant == Spec => []IInv
<1>1. Init => IInv
  BY Start
<1>2. IInv /\ [Next]_vars => IInv'
  BY Inductive
<1> QED
  BY <1>1, <1>2, PTL DEF Spec

(* The records of the list are those that are allocated, each once and no more than the
   limit: nothing leaks when clients come, go and fail (handle_sse_, sse_pump_). *)
THEOREM TypeCorrect == Spec => []TypeOK
<1>1. IInv => TypeOK
  <2> SUFFICES ASSUME IInv PROVE TypeOK
    OBVIOUS
  <2>1. Types /\ IsPump(pump) /\ Records /\ Backlog
    BY DEF IInv
  <2>2. events \in Seq(1..n)
    <3>1. events \in Seq(Nat) /\ n \in Nat
      BY <2>1, Typed DEF Types
    <3>2. /\ Len(events) \in Nat /\ DOMAIN events = 1..Len(events)
          /\ \A i \in 1..Len(events) : events[i] \in Nat /\ events[i] \in Range(events)
      BY <3>1, Elements
    <3>3. \A i \in 1..Len(events) : events[i] \in 1..n
      BY <2>1, <3>1, <3>2 DEF Backlog
    <3>4. events \in [1..Len(events) -> 1..n]
      BY <3>1, <3>2, <3>3
    <3> QED
      BY <3>2, <3>4, SeqDef
  <2>3. pump = Idle \/ (pump.clients # <<>> /\ pump.at \in DOMAIN pump.pending)
    BY <2>1 DEF IsPump
  <2> QED
    BY <2>1, <2>2, <2>3 DEF Types, Records, Record, TypeOK
<1> QED
  BY <1>1, Invariant, PTL

(* No client gets an event twice or an older one after a newer one, and one that is alive
   misses nothing without a reason, also when records are deleted and their addresses
   reused while the pump sends (handle_sse_, sse_free_ctx_, sse_pump_). *)
THEOREM StreamStaysWhole == Spec => []StreamIsWhole
<1>1. IInv => StreamIsWhole
  BY DEF IInv, Received, StreamInOrder, StreamIsWhole
<1> QED
  BY <1>1, Invariant, PTL
=============================================================================
