-------------------------- MODULE GattClientProofs --------------------------
(***************************************************************************)
(* Proofs about GattClient for every set of characteristics and any number *)
(* of operations and connections.                                          *)
(***************************************************************************)
EXTENDS GattClient, TLAPS

LOCAL INSTANCE SequencesExt

----------------------------------------------------------------------------
(* The inductive invariant *)

(* The events that an operation of a kind may wait for. *)
Serves(kind, event) == \/ kind = "READ" /\ event = "READ"
                       \/ kind = "WRITE" /\ event = "WRITE"
                       \/ kind = "SUBSCRIBE" /\ event \in {"REG", "DESCR"}

(* The operation in flight is the one call that has not called back. *)
OneWaits(s, a) ==
  /\ s.op # None =>
       /\ s.op.call \in DOMAIN s.calls
       /\ s.calls[s.op.call].status = "pending" /\ s.calls[s.op.call].times = 0
       /\ s.calls[s.op.call].attempt = a
       /\ s.calls[s.op.call].handle = s.op.handle
       /\ Serves(s.calls[s.op.call].kind, s.op.wait)
  /\ \A c \in DOMAIN s.calls :
       s.calls[c].times = 0 => s.op # None /\ s.op.call = c

(* Of a list of calls: c was given up before its answer came. *)
Abandoned(seq, c) == \/ seq[c].status \in {"timeout", "disconnected"}
                     \/ seq[c].status = "answered" /\ seq[c].of # c

(* What the stack has still to answer: each request belongs to a call of this
   connection, no call has two, and one that is not of the operation in flight is of
   an older call that was given up. *)
StackIsOrdered(s, a) ==
  /\ \A i \in DOMAIN s.stack :
       LET e == s.stack[i] IN
       /\ e.call \in DOMAIN s.calls
       /\ s.calls[e.call].attempt = a /\ s.calls[e.call].handle = e.handle
       /\ Serves(s.calls[e.call].kind, e.event)
       /\ \/ s.op # None /\ s.op.call = e.call
          \/ Abandoned(s.calls, e.call)
       /\ s.op # None => e.call <= s.op.call
  /\ \A i, j \in DOMAIN s.stack : s.stack[i].call = s.stack[j].call => i = j

(* ForeignAnswersAreLate of a list of calls. *)
Late(seq) ==
  \A c \in DOMAIN seq :
    seq[c].status = "answered" /\ seq[c].of # c =>
      /\ seq[c].of \in DOMAIN seq /\ seq[c].of < c /\ Abandoned(seq, seq[c].of)
      /\ seq[seq[c].of].attempt = seq[c].attempt /\ seq[seq[c].of].kind = seq[c].kind
      /\ seq[c].kind # "SUBSCRIBE" => seq[seq[c].of].handle = seq[c].handle

Typed(s) ==
  /\ s \in [op : Pending \cup {None}, calls : Seq(Call), stack : Seq(Request)]
  /\ Len(s.calls) <= MaxCalls

(* All of it, for the operation and what belongs to it. *)
Sound(s, a) == Typed(s) /\ OneWaits(s, a) /\ StackIsOrdered(s, a) /\ Late(s.calls)

(* What the connection was told so far; without a connection nothing is in flight. *)
LinkInv ==
  /\ link \in Link /\ attempt \in 0..MaxAttempts
  /\ reports \in Seq(BOOLEAN)
  /\ link \in {"discovered", "connecting", "searching"} => reports = <<>>
  /\ link # "idle" => Len(reports) <= 1 /\ attempt # 0
  /\ link = "idle" => Len(reports) <= 2 /\ (reports # <<>> => reports[Len(reports)] = FALSE)
  /\ link \notin {"established", "closing"} => op = None /\ stack = <<>>

IInv == LinkInv /\ Sound(State, attempt)

----------------------------------------------------------------------------
(* A callback runs, a request is made *)

(* A call that has called back did so before, in every later state. *)
Grows(s, t) ==
  /\ Len(s.calls) <= Len(t.calls)
  /\ \A c \in DOMAIN s.calls : s.calls[c].times = 1 => t.calls[c].times = 1

(* The record of a call once its callback ran. *)
CalledBack(q, status, of) ==
  [q EXCEPT !.status = status, !.of = of, !.times = q.times + 1]

(* It differs in what the callback was told, and that it was told. *)
LEMMA ToldRecord ==
  ASSUME NEW q \in Call, q.times = 0, NEW status \in Status, NEW of \in 0..MaxCalls
  PROVE  /\ CalledBack(q, status, of) \in Call
         /\ CalledBack(q, status, of).times = 1
         /\ CalledBack(q, status, of).status = status
         /\ CalledBack(q, status, of).of = of
         /\ CalledBack(q, status, of).attempt = q.attempt
         /\ CalledBack(q, status, of).kind = q.kind
         /\ CalledBack(q, status, of).handle = q.handle
<1>1. q.times + 1 = 1 /\ 1 \in 0..1
  OBVIOUS
<1>2. CalledBack(q, status, of) = [q EXCEPT !.status = status, !.of = of, !.times = 1]
  BY <1>1 DEF CalledBack
<1>. QED  BY <1>1, <1>2 DEF Call

(* finish_op_: what the callback is told may be wrong only in the way that Late
   allows, and nothing that the stack owes the call may be left when it got its own
   answer. *)
LEMMA FinishedIsSound ==
  ASSUME NEW s, NEW a, Sound(s, a), s.op # None,
         NEW status \in {"timeout", "disconnected", "answered"}, NEW of \in 0..MaxCalls,
         status = "answered" =>
           \/ /\ of = s.op.call
              /\ \A i \in DOMAIN s.stack : s.stack[i].call # of
           \/ /\ of \in DOMAIN s.calls /\ of < s.op.call /\ Abandoned(s.calls, of)
              /\ s.calls[of].attempt = a
              /\ s.calls[of].kind = s.calls[s.op.call].kind
              /\ s.calls[of].kind # "SUBSCRIBE" => s.calls[of].handle = s.op.handle
  PROVE  /\ Sound(Finished(s, status, of), a)
         /\ Finished(s, status, of).op = None
         /\ Finished(s, status, of).stack = s.stack
         /\ Len(Finished(s, status, of).calls) = Len(s.calls)
         /\ Grows(s, Finished(s, status, of))
<1>. DEFINE c == s.op.call
            t == Finished(s, status, of)
<1>1. /\ s.op \in Pending /\ s.calls \in Seq(Call) /\ Len(s.calls) \in Nat
      /\ s.stack \in Seq(Request) /\ DOMAIN s.calls = 1..Len(s.calls)
      /\ c \in 1..Len(s.calls) /\ s.calls[c] \in Call
      /\ s.calls[c].times = 0 /\ s.calls[c].status = "pending"
      /\ s.calls[c].attempt = a /\ s.calls[c].handle = s.op.handle
  BY DEF Sound, Typed, OneWaits
<1>2. DEFINE r == CalledBack(s.calls[c], status, of)
<1>3. /\ t.op = None /\ t.stack = s.stack
      /\ t.calls = [s.calls EXCEPT ![c] = r]
      /\ t \in [op : {None}, calls : {t.calls}, stack : {s.stack}]
  <2>1. t = [s EXCEPT !.op = None, !.calls = Told(s.calls, c, status, of)]
    BY DEF Finished
  <2>2. /\ t.op = None /\ t.stack = s.stack /\ t.calls = Told(s.calls, c, status, of)
        /\ t \in [op : {None}, calls : {t.calls}, stack : {s.stack}]
    BY <2>1 DEF Sound, Typed
  <2>3. Told(s.calls, c, status, of) = [s.calls EXCEPT ![c] = r]
    BY DEF Told, CalledBack
  <2>. QED  BY <2>2, <2>3
<1>4. r \in Call /\ r.times = 1 /\ r.status = status /\ r.of = of /\ r.attempt = a
      /\ r.kind = s.calls[c].kind /\ r.handle = s.op.handle
  <2>1. status \in Status
    BY DEF Status
  <2>. QED  BY <1>1, <2>1, ToldRecord
<1>. HIDE DEF t, r, c
<1>5. /\ t.calls \in Seq(Call) /\ Len(t.calls) = Len(s.calls)
      /\ DOMAIN t.calls = 1..Len(s.calls)
      /\ \A d \in 1..Len(s.calls) : t.calls[d] = IF d = c THEN r ELSE s.calls[d]
  BY <1>1, <1>3, <1>4
<1>6. Typed(t)
  BY <1>1, <1>3, <1>5 DEF Sound, Typed
<1>7. OneWaits(t, a)
  BY <1>1, <1>3, <1>4, <1>5 DEF Sound, OneWaits, c
<1>8. \A d \in 1..Len(s.calls) : Abandoned(s.calls, d) => d # c /\ Abandoned(t.calls, d)
  BY <1>1, <1>5 DEF Abandoned
<1>9. StackIsOrdered(t, a)
  <2>1. \A i \in DOMAIN s.stack :
          /\ s.stack[i].call \in 1..Len(s.calls)
          /\ t.calls[s.stack[i].call].attempt = a
          /\ t.calls[s.stack[i].call].handle = s.stack[i].handle
          /\ Serves(t.calls[s.stack[i].call].kind, s.stack[i].event)
    BY <1>1, <1>4, <1>5, SMTT(40) DEF Sound, StackIsOrdered, c
  <2>2. \A i \in DOMAIN s.stack : Abandoned(t.calls, s.stack[i].call)
    <3>1. TAKE i \in DOMAIN s.stack
    <3>2. CASE s.stack[i].call = c
      <4>1. t.calls[c].status = status /\ t.calls[c].of = of
        BY <1>1, <1>4, <1>5
      <4>2. status = "answered" => of # c
        BY <1>1, <3>2 DEF c
      <4>. QED  BY <3>2, <4>1, <4>2 DEF Abandoned
    <3>3. CASE s.stack[i].call # c
      BY <1>1, <1>8, <3>3 DEF Sound, StackIsOrdered, c
    <3>. QED  BY <3>2, <3>3
  <2>. QED  BY <1>3, <1>5, <2>1, <2>2, SMTT(20) DEF Sound, StackIsOrdered
<1>10. Late(t.calls)
  <2>1. SUFFICES ASSUME NEW d \in 1..Len(s.calls),
                        t.calls[d].status = "answered", t.calls[d].of # d
                 PROVE  /\ t.calls[d].of \in 1..Len(s.calls) /\ t.calls[d].of < d
                        /\ Abandoned(t.calls, t.calls[d].of)
                        /\ t.calls[t.calls[d].of].attempt = t.calls[d].attempt
                        /\ t.calls[t.calls[d].of].kind = t.calls[d].kind
                        /\ t.calls[d].kind # "SUBSCRIBE" =>
                             t.calls[t.calls[d].of].handle = t.calls[d].handle
    BY <1>5 DEF Late
  <2>2. CASE d = c
    <3>1. /\ of \in 1..Len(s.calls) /\ of < c /\ Abandoned(s.calls, of)
          /\ s.calls[of].attempt = a /\ s.calls[of].kind = s.calls[c].kind
          /\ s.calls[of].kind # "SUBSCRIBE" => s.calls[of].handle = s.op.handle
      BY <1>1, <1>4, <1>5, <2>1, <2>2 DEF c
    <3>. QED  BY <1>4, <1>5, <1>8, <2>2, <3>1
  <2>3. CASE d # c
    <3>1. t.calls[d] = s.calls[d]
      BY <1>5, <2>3
    <3>2. /\ s.calls[d].of \in 1..Len(s.calls) /\ s.calls[d].of < d
          /\ Abandoned(s.calls, s.calls[d].of)
          /\ s.calls[s.calls[d].of].attempt = s.calls[d].attempt
          /\ s.calls[s.calls[d].of].kind = s.calls[d].kind
          /\ s.calls[d].kind # "SUBSCRIBE" =>
               s.calls[s.calls[d].of].handle = s.calls[d].handle
      BY <1>1, <2>1, <3>1 DEF Sound, Late
    <3>. QED  BY <1>5, <1>8, <3>1, <3>2
  <2>. QED  BY <2>2, <2>3
<1>11. Grows(s, t)
  BY <1>1, <1>4, <1>5 DEF Grows
<1>. QED  BY <1>3, <1>5, <1>6, <1>7, <1>9, <1>10, <1>11 DEF Sound, t

(* read, write or subscribe, accepted or refused. *)
LEMMA IssuedIsSound ==
  ASSUME NEW s, Sound(s, attempt), attempt \in 1..MaxAttempts, Len(s.calls) < MaxCalls,
         NEW kind \in Kind, NEW h \in Handle, NEW est \in BOOLEAN, NEW accepted \in BOOLEAN
  PROVE  LET t == Issued(s, kind, h, est, accepted)
         IN  /\ Sound(t, attempt) /\ Grows(s, t)
             /\ ~est => t.op = s.op /\ t.stack = s.stack
<1>. DEFINE t == Issued(s, kind, h, est, accepted)
            n == Len(s.calls) + 1
            why == Refusal(s, est, accepted)
<1>1. /\ s \in [op : Pending \cup {None}, calls : Seq(Call), stack : Seq(Request)]
      /\ s.calls \in Seq(Call) /\ Len(s.calls) \in Nat
      /\ s.stack \in Seq(Request) /\ DOMAIN s.calls = 1..Len(s.calls)
      /\ s.op \in Pending \cup {None}
      /\ n \in CallId /\ n \notin DOMAIN s.calls /\ MaxCalls \in Nat
  BY ClientAssumption DEF Sound, Typed, CallId
<1>2. CASE why # None
  <2>1. why \in {"disconnected", "busy", "error"}
    BY <1>2 DEF Refusal
  <2>2. /\ Refused(why) \in Call /\ Refused(why).times = 1
        /\ Refused(why).status \in {"disconnected", "busy", "error"}
    BY <1>1, <2>1, ClientAssumption DEF Refused, Call, Status
  <2>3. /\ t.op = s.op /\ t.stack = s.stack /\ t.calls = Append(s.calls, Refused(why))
        /\ t \in [op : {s.op}, calls : {t.calls}, stack : {s.stack}]
    BY <1>1, <1>2 DEF Issued
  <2>. HIDE DEF t, why
  <2>4. /\ t.calls \in Seq(Call) /\ Len(t.calls) = n
        /\ DOMAIN t.calls = 1..n /\ t.calls[n] = Refused(why)
        /\ \A d \in 1..Len(s.calls) : t.calls[d] = s.calls[d]
    BY <1>1, <2>2, <2>3
  <2>5. Typed(t)
    BY <1>1, <2>3, <2>4, SMTT(20) DEF CallId, Typed
  <2>6. OneWaits(t, attempt)
    BY <1>1, <2>2, <2>3, <2>4 DEF Sound, OneWaits
  <2>7. StackIsOrdered(t, attempt)
    BY <1>1, <2>3, <2>4 DEF Sound, StackIsOrdered, Abandoned
  <2>8. Late(t.calls)
    BY <1>1, <2>2, <2>4, SMTT(20) DEF Sound, Late, Abandoned
  <2>9. Grows(s, t)
    BY <1>1, <2>4 DEF Grows
  <2>. QED  BY <2>3, <2>5, <2>6, <2>7, <2>8, <2>9 DEF Sound, t
<1>3. CASE why = None
  <2>. DEFINE r == [kind |-> kind, handle |-> h, attempt |-> attempt,
                    status |-> "pending", of |-> 0, times |-> 0]
              e == [call |-> n, event |-> First(kind), handle |-> h]
  <2>1. est /\ s.op = None
    <3>1. "disconnected" # None /\ "busy" # None
      BY ClientAssumption DEF Status
    <3>. QED  BY <1>3, <3>1 DEF Refusal
  <2>2. /\ First(kind) \in Event /\ Serves(kind, First(kind))
        /\ r \in Call /\ e \in Request
    BY <1>1, ClientAssumption DEF First, Kind, Event, Serves, Call, Status, Request, CallId
  <2>3. t = [op    |-> [call |-> n, wait |-> First(kind), handle |-> h],
             calls |-> Append(s.calls, r), stack |-> Append(s.stack, e)]
    BY <1>3 DEF Issued
  <2>4. /\ t.op \in Pending /\ t.op # None /\ t.op.call = n /\ t.op.wait = First(kind)
        /\ t.op.handle = h
        /\ t.calls = Append(s.calls, r) /\ t.stack = Append(s.stack, e)
    BY <1>1, <2>2, <2>3, ClientAssumption DEF Pending
  <2>5. r.times = 0 /\ r.status = "pending" /\ r.attempt = attempt /\ r.handle = h
        /\ r.kind = kind /\ e.call = n /\ e.event = First(kind) /\ e.handle = h
    OBVIOUS
  <2>. HIDE DEF t, r, e, why
  <2>6. /\ t.calls \in Seq(Call) /\ Len(t.calls) = n
        /\ DOMAIN t.calls = 1..n /\ t.calls[n] = r
        /\ \A d \in 1..Len(s.calls) : t.calls[d] = s.calls[d]
    BY <1>1, <2>2, <2>4
  <2>7. /\ t.stack \in Seq(Request) /\ Len(s.stack) \in Nat /\ DOMAIN s.stack = 1..Len(s.stack)
        /\ DOMAIN t.stack = 1..(Len(s.stack) + 1) /\ t.stack[Len(s.stack) + 1] = e
        /\ \A i \in 1..Len(s.stack) : t.stack[i] = s.stack[i]
    BY <1>1, <2>2, <2>4
  <2>8. Typed(t)
    BY <1>1, <2>3, <2>4, <2>6, <2>7 DEF CallId, Typed
  <2>9. OneWaits(t, attempt)
    BY <1>1, <2>1, <2>2, <2>4, <2>5, <2>6 DEF Sound, OneWaits
  <2>10. \A i \in 1..Len(s.stack) :
           LET f == s.stack[i] IN
           /\ f.call \in 1..Len(s.calls) /\ f.call # n /\ f.call <= n
           /\ Abandoned(s.calls, f.call) /\ Abandoned(t.calls, f.call)
    <3>1. ASSUME NEW i \in 1..Len(s.stack)
          PROVE  s.stack[i].call \in DOMAIN s.calls /\ Abandoned(s.calls, s.stack[i].call)
      BY <2>1, <2>7 DEF Sound, StackIsOrdered
    <3>2. \A d \in DOMAIN s.calls : d \in 1..Len(s.calls) /\ d # n /\ d <= n
      BY <1>1
    <3>3. \A d \in 1..Len(s.calls) : Abandoned(s.calls, d) => Abandoned(t.calls, d)
      BY <2>6 DEF Abandoned
    <3>. QED  BY <3>1, <3>2, <3>3
  <2>11. StackIsOrdered(t, attempt)
    <3>1. SUFFICES ASSUME NEW i \in 1..(Len(s.stack) + 1)
                   PROVE  LET f == t.stack[i] IN
                          /\ f.call \in 1..n
                          /\ t.calls[f.call].attempt = attempt
                          /\ t.calls[f.call].handle = f.handle
                          /\ Serves(t.calls[f.call].kind, f.event)
                          /\ t.op.call = f.call \/ Abandoned(t.calls, f.call)
                          /\ f.call <= n
                          /\ \A j \in 1..(Len(s.stack) + 1) : f.call = t.stack[j].call => i = j
      BY <2>4, <2>6, <2>7 DEF StackIsOrdered
    <3>2. CASE i = Len(s.stack) + 1
      BY <1>1, <2>2, <2>4, <2>5, <2>6, <2>7, <2>10, <3>2
    <3>3. CASE i # Len(s.stack) + 1
      <4>1. i \in 1..Len(s.stack)
        BY <2>7, <3>3
      <4>2. /\ t.stack[i] = s.stack[i] /\ s.stack[i].call \in 1..Len(s.calls)
            /\ s.stack[i].call # n /\ s.stack[i].call <= n
            /\ Abandoned(t.calls, s.stack[i].call)
            /\ t.calls[s.stack[i].call] = s.calls[s.stack[i].call]
        BY <2>6, <2>7, <2>10, <4>1
      <4>3. /\ s.calls[s.stack[i].call].attempt = attempt
            /\ s.calls[s.stack[i].call].handle = s.stack[i].handle
            /\ Serves(s.calls[s.stack[i].call].kind, s.stack[i].event)
            /\ \A j \in 1..Len(s.stack) : s.stack[i].call = s.stack[j].call => i = j
        BY <2>7, <4>1 DEF Sound, StackIsOrdered
      <4>4. \A j \in 1..(Len(s.stack) + 1) : s.stack[i].call = t.stack[j].call => i = j
        <5>1. TAKE j \in 1..(Len(s.stack) + 1)
        <5>2. CASE j = Len(s.stack) + 1
          BY <2>5, <2>7, <4>2, <5>2
        <5>3. CASE j # Len(s.stack) + 1
          <6>1. j \in 1..Len(s.stack) /\ t.stack[j] = s.stack[j]
            BY <2>7, <5>3
          <6>. QED  BY <4>3, <6>1
        <5>. QED  BY <5>2, <5>3
      <4>. QED  BY <1>1, <4>2, <4>3, <4>4
    <3>. QED  BY <3>2, <3>3
  <2>12. Late(t.calls)
    <3>1. \A d \in 1..n : t.calls[d].status = "answered" =>
            d \in 1..Len(s.calls) /\ t.calls[d] = s.calls[d]
      BY <1>1, <2>5, <2>6
    <3>2. \A d \in 1..Len(s.calls) :
            s.calls[d].status = "answered" /\ s.calls[d].of # d =>
              /\ s.calls[d].of \in 1..Len(s.calls) /\ s.calls[d].of < d
              /\ Abandoned(s.calls, s.calls[d].of)
              /\ s.calls[s.calls[d].of].attempt = s.calls[d].attempt
              /\ s.calls[s.calls[d].of].kind = s.calls[d].kind
              /\ s.calls[d].kind # "SUBSCRIBE" =>
                   s.calls[s.calls[d].of].handle = s.calls[d].handle
      BY <1>1 DEF Sound, Late
    <3>3. \A d \in 1..Len(s.calls) : Abandoned(s.calls, d) => Abandoned(t.calls, d)
      BY <2>6 DEF Abandoned
    <3>4. SUFFICES ASSUME NEW d \in 1..n,
                          t.calls[d].status = "answered", t.calls[d].of # d
                   PROVE  /\ t.calls[d].of \in 1..n /\ t.calls[d].of < d
                          /\ Abandoned(t.calls, t.calls[d].of)
                          /\ t.calls[t.calls[d].of].attempt = t.calls[d].attempt
                          /\ t.calls[t.calls[d].of].kind = t.calls[d].kind
                          /\ t.calls[d].kind # "SUBSCRIBE" =>
                               t.calls[t.calls[d].of].handle = t.calls[d].handle
      BY <2>6 DEF Late
    <3>5. d \in 1..Len(s.calls) /\ t.calls[d] = s.calls[d]
      BY <3>1, <3>4
    <3>. QED  BY <1>1, <2>6, <3>2, <3>3, <3>4, <3>5, SMTT(20)
  <2>13. Grows(s, t)
    BY <1>1, <2>6 DEF Grows
  <2>. QED  BY <2>1, <2>8, <2>9, <2>11, <2>12, <2>13 DEF Sound, t
<1>. QED  BY <1>2, <1>3

(* Other requests may be left to the stack, as long as it answers them in order. *)
LEMMA RestackedIsSound ==
  ASSUME NEW s, NEW a, Sound(s, a), NEW new \in Seq(Request),
         \A i \in DOMAIN new :
           /\ new[i].call \in DOMAIN s.calls
           /\ s.calls[new[i].call].attempt = a
           /\ s.calls[new[i].call].handle = new[i].handle
           /\ Serves(s.calls[new[i].call].kind, new[i].event)
           /\ \/ s.op # None /\ s.op.call = new[i].call
              \/ Abandoned(s.calls, new[i].call)
           /\ s.op # None => new[i].call <= s.op.call,
         \A i, j \in DOMAIN new : new[i].call = new[j].call => i = j
  PROVE  LET t == [s EXCEPT !.stack = new]
         IN  /\ Sound(t, a) /\ t.op = s.op /\ t.calls = s.calls /\ t.stack = new
             /\ Grows(s, t)
<1>. DEFINE t == [s EXCEPT !.stack = new]
<1>1. /\ t.op = s.op /\ t.calls = s.calls /\ t.stack = new /\ s.calls \in Seq(Call)
      /\ t \in [op : Pending \cup {None}, calls : Seq(Call), stack : Seq(Request)]
  BY DEF Sound, Typed
<1>. HIDE DEF t
<1>2. Typed(t)
  BY <1>1 DEF Sound, Typed
<1>3. OneWaits(t, a)
  BY <1>1 DEF Sound, OneWaits
<1>4. StackIsOrdered(t, a)
  BY <1>1 DEF StackIsOrdered
<1>5. Late(t.calls)
  BY <1>1 DEF Sound
<1>6. Grows(s, t)
  BY <1>1 DEF Grows
<1>. QED  BY <1>1, <1>2, <1>3, <1>4, <1>5, <1>6 DEF Sound, t

(* What a callback does next is sound too; without a connection it can start nothing. *)
LEMMA FollowIsSound ==
  ASSUME NEW s, Sound(s, attempt), attempt \in 1..MaxAttempts, NEW est \in BOOLEAN,
         NEW t \in Follow(s, est)
  PROVE  /\ Sound(t, attempt) /\ Grows(s, t)
         /\ ~est => t.op = s.op /\ t.stack = s.stack
<1>1. CASE t = s
  BY <1>1 DEF Grows
<1>2. CASE t # s
  <2>1. PICK k \in Kind, h \in Handle, ok \in BOOLEAN : t = Issued(s, k, h, est, ok)
    BY <1>2 DEF Follow
  <2>2. Len(s.calls) < MaxCalls
    <3>1. Len(s.calls) # MaxCalls
      BY <1>2 DEF Follow
    <3>2. Len(s.calls) <= MaxCalls /\ Len(s.calls) \in Nat /\ MaxCalls \in Nat
      BY ClientAssumption DEF Sound, Typed
    <3>. QED  BY <3>1, <3>2
  <2>. QED  BY <2>1, <2>2, IssuedIsSound
<1>. QED  BY <1>1, <1>2

(* Grows, over two steps of one handler. *)
LEMMA GrowsIsTransitive ==
  ASSUME NEW s, NEW t, NEW u, s.calls \in Seq(Call), t.calls \in Seq(Call),
         u.calls \in Seq(Call), Grows(s, t), Grows(t, u)
  PROVE  Grows(s, u)
<1>1. \A c \in DOMAIN s.calls : c \in DOMAIN t.calls
  BY DEF Grows
<1>2. Len(s.calls) \in Nat /\ Len(t.calls) \in Nat /\ Len(u.calls) \in Nat
  OBVIOUS
<1>. QED  BY <1>1, <1>2 DEF Grows

(* The operation and what belongs to it, after the step. *)
LEMMA BecomeState ==
  ASSUME NEW s, Typed(s), Become(s)
  PROVE  State' = s
BY DEF Become, State, Typed

(* An operation that ends by its time limit or with the connection. *)
LEMMA EndsIsSound ==
  ASSUME IInv, attempt' = attempt, NEW status \in {"timeout", "disconnected"},
         NEW est \in BOOLEAN, Ends(status, 0, est)
  PROVE  /\ Sound(State', attempt') /\ Grows(State, State')
         /\ op = None => op' = None /\ stack' = stack
<1>1. Sound(State, attempt) /\ Typed(State) /\ State.calls \in Seq(Call)
  BY DEF IInv, Sound, Typed
<1>2. CASE op = None
  <2>1. State' = State /\ op' = None /\ stack' = stack
    BY <1>2 DEF Ends, State
  <2>. QED  BY <1>1, <2>1 DEF Grows
<1>3. CASE op # None
  <2>. DEFINE u == Finished(State, status, 0)
  <2>1. PICK t \in Follow(u, est) : Become(t)
    BY <1>3 DEF Ends
  <2>2. Sound(u, attempt) /\ Grows(State, u)
    <3>1. State.op # None /\ 0 \in 0..MaxCalls /\ status # "answered"
      BY <1>3, ClientAssumption DEF State
    <3>2. status \in {"timeout", "disconnected", "answered"}
      OBVIOUS
    <3>. QED  BY <1>1, <3>1, <3>2, FinishedIsSound
  <2>3. attempt \in 1..MaxAttempts
    BY <1>3, ClientAssumption DEF IInv, LinkInv
  <2>4. Sound(t, attempt) /\ Grows(u, t)
    BY <2>2, <2>3, FollowIsSound
  <2>5. State' = t
    BY <2>1, <2>4, BecomeState DEF Sound
  <2>6. u.calls \in Seq(Call) /\ t.calls \in Seq(Call)
    BY <2>2, <2>4 DEF Sound, Typed
  <2>. HIDE DEF u
  <2>7. Grows(State, t)
    BY <1>1, <2>2, <2>4, <2>6, GrowsIsTransitive
  <2>. QED  BY <1>3, <2>4, <2>5, <2>7
<1>. QED  BY <1>2, <1>3

----------------------------------------------------------------------------
(* The steps *)

(* Nothing is in flight before the first connection. *)
LEMMA InitIInv == Init => IInv
<1>1. SUFFICES ASSUME Init PROVE IInv
  OBVIOUS
<1>2. State = [op |-> None, calls |-> <<>>, stack |-> <<>>]
  BY <1>1 DEF Init, State
<1>3. Sound(State, attempt)
  BY <1>2, ClientAssumption DEF Sound, Typed, OneWaits, StackIsOrdered, Late
<1>4. LinkInv
  BY <1>1, ClientAssumption DEF Init, LinkInv, Link
<1>. QED  BY <1>3, <1>4 DEF IInv

(* A step that leaves the operation alone. *)
LEMMA StateKept ==
  ASSUME IInv, op' = op, calls' = calls, stack' = stack
  PROVE  /\ State' = State /\ Grows(State, State')
         /\ attempt' = attempt => Sound(State', attempt')
         /\ op = None /\ stack = <<>> /\ attempt' = attempt + 1 => Sound(State', attempt')
<1>1. State' = State
  BY DEF State
<1>2. Grows(State, State)
  BY DEF Grows
<1>3. ASSUME op = None, stack = <<>>
      PROVE  Sound(State, attempt + 1)
  <2>1. State.op = None /\ State.stack = <<>> /\ Sound(State, attempt)
    BY <1>3 DEF State, IInv
  <2>. QED  BY <2>1 DEF Sound, OneWaits, StackIsOrdered
<1>. QED  BY <1>1, <1>2, <1>3 DEF IInv

(* begin_connect *)
LEMMA BeginConnectKeeps ==
  ASSUME IInv, BeginConnect
  PROVE  IInv' /\ Grows(State, State')
<1>1. op = None /\ stack = <<>>
  BY DEF IInv, LinkInv, BeginConnect
<1>2. Sound(State', attempt') /\ Grows(State, State')
  BY <1>1, StateKept DEF BeginConnect
<1>3. LinkInv'
  BY <1>1, ClientAssumption DEF IInv, LinkInv, BeginConnect, Link
<1>. QED  BY <1>2, <1>3 DEF IInv

(* The events of the base class up to the search for services. *)
LEMMA ConnectingKeeps ==
  ASSUME IInv, Promoted \/ Opened \/ OpenFailed \/ SearchComplete
  PROVE  IInv' /\ Grows(State, State')
<1>1. Sound(State', attempt') /\ Grows(State, State')
  BY StateKept DEF Promoted, Opened, OpenFailed, SearchComplete
<1>2. reports = <<>> /\ op = None /\ stack = <<>>
  BY DEF IInv, LinkInv, Promoted, Opened, OpenFailed, SearchComplete
<1>3. /\ \/ reports' = reports /\ link' # "idle"
         \/ \E b \in BOOLEAN : reports' = Append(reports, b) /\ (link' = "idle" => b = FALSE)
      /\ link' \in {"connecting", "searching"} => reports' = <<>>
  BY <1>2 DEF ConnectReported, Promoted, Opened, OpenFailed, SearchComplete
<1>4. /\ reports' \in Seq(BOOLEAN) /\ Len(reports') <= 1
      /\ link' = "idle" => reports'[Len(reports')] = FALSE
  <2>1. reports \in Seq(BOOLEAN) /\ Len(reports) = 0
    BY <1>2
  <2>2. ASSUME NEW b \in BOOLEAN
        PROVE  /\ Append(reports, b) \in Seq(BOOLEAN) /\ Len(Append(reports, b)) = 1
               /\ Append(reports, b)[1] = b
    BY <2>1
  <2>3. CASE reports' = reports /\ link' # "idle"
    BY <2>1, <2>3
  <2>4. ASSUME NEW b \in BOOLEAN, reports' = Append(reports, b), link' = "idle" => b = FALSE
        PROVE  /\ reports' \in Seq(BOOLEAN) /\ Len(reports') <= 1
               /\ link' = "idle" => reports'[Len(reports')] = FALSE
    <3>1. Len(reports') = 1 /\ reports'[1] = b /\ reports' \in Seq(BOOLEAN)
      BY <2>2, <2>4
    <3>. QED  BY <2>4, <3>1
  <2>. QED  BY <1>3, <2>3, <2>4
<1>5. LinkInv'
  <2>1. /\ link' \in Link /\ link' # "discovered" /\ attempt' = attempt
        /\ op' = None /\ stack' = <<>> /\ link # "idle"
    BY <1>2 DEF Link, Promoted, Opened, OpenFailed, SearchComplete
  <2>2. Len(reports') <= 2
    BY <1>4
  <2>. QED  BY <1>3, <1>4, <2>1, <2>2 DEF IInv, LinkInv
<1>. QED  BY <1>1, <1>5 DEF IInv

(* read, write or subscribe. *)
LEMMA IssueKeeps ==
  ASSUME IInv, Issue
  PROVE  IInv' /\ Grows(State, State')
<1>1. PICK k \in Kind, h \in Handle, a \in BOOLEAN :
        attempt > 0 /\ Become(Issued(State, k, h, Established, a))
  BY DEF Issue
<1>. DEFINE t == Issued(State, k, h, Established, a)
<1>2. /\ Sound(t, attempt) /\ Grows(State, t)
      /\ ~Established => t.op = op /\ t.stack = stack
  <2>1. /\ Sound(State, attempt) /\ Len(State.calls) < MaxCalls
        /\ State.op = op /\ State.stack = stack
    BY DEF IInv, Issue, State
  <2>2. attempt \in 1..MaxAttempts /\ Established \in BOOLEAN
    BY <1>1, ClientAssumption DEF IInv, LinkInv, Established
  <2>. QED  BY <2>1, <2>2, IssuedIsSound
<1>. HIDE DEF t
<1>3. State' = t /\ op' = t.op /\ stack' = t.stack
  BY <1>1, <1>2, BecomeState DEF Sound, Become, t
<1>4. LinkInv'
  BY <1>2, <1>3 DEF IInv, LinkInv, Issue, Established
<1>. QED  BY <1>2, <1>3, <1>4 DEF IInv, Issue

(* What the stack has to answer once it answered its oldest request: nothing of that
   call, unless a descriptor is still to be written for it. *)
LEMMA AfterIsSound ==
  ASSUME IInv, stack # <<>>, NEW ok \in BOOLEAN
  PROVE  LET s == [State EXCEPT !.stack = After(Head(stack), ok)]
         IN  /\ Sound(s, attempt) /\ Grows(State, s) /\ s.op = op /\ s.calls = calls
             /\ ~Chained(Head(stack), ok) =>
                  \A i \in DOMAIN s.stack : s.stack[i].call # Head(stack).call
<1>. DEFINE e == Head(stack)
            new == After(e, ok)
            n == Len(stack)
<1>1. /\ Sound(State, attempt) /\ State.op = op /\ State.calls = calls /\ State.stack = stack
      /\ stack \in Seq(Request) /\ n \in Nat /\ n >= 1 /\ e = stack[1] /\ e \in Request
      /\ DOMAIN stack = 1..n
  BY DEF IInv, State, Sound, Typed
<1>2. /\ Tail(stack) \in Seq(Request) /\ Len(Tail(stack)) = n - 1
      /\ \A i \in 1..(n - 1) : Tail(stack)[i] = stack[i + 1]
  BY <1>1
<1>3. \A i \in 1..n :
        /\ stack[i].call \in DOMAIN calls
        /\ calls[stack[i].call].attempt = attempt
        /\ calls[stack[i].call].handle = stack[i].handle
        /\ Serves(calls[stack[i].call].kind, stack[i].event)
        /\ \/ op # None /\ op.call = stack[i].call
           \/ Abandoned(calls, stack[i].call)
        /\ op # None => stack[i].call <= op.call
  BY <1>1 DEF Sound, StackIsOrdered
<1>4. \A i, j \in 1..n : stack[i].call = stack[j].call => i = j
  BY <1>1 DEF Sound, StackIsOrdered
<1>5. ASSUME NEW t \in Seq(Request), t = new,
             \A k \in DOMAIN t :
               /\ t[k].call \in DOMAIN calls
               /\ calls[t[k].call].attempt = attempt
               /\ calls[t[k].call].handle = t[k].handle
               /\ Serves(calls[t[k].call].kind, t[k].event)
               /\ \/ op # None /\ op.call = t[k].call
                  \/ Abandoned(calls, t[k].call)
               /\ op # None => t[k].call <= op.call,
             \A j, k \in DOMAIN t : t[j].call = t[k].call => j = k
      PROVE  LET s == [State EXCEPT !.stack = new]
             IN  /\ Sound(s, attempt) /\ Grows(State, s) /\ s.op = op /\ s.calls = calls
                 /\ s.stack = new
  BY <1>1, <1>5, RestackedIsSound
<1>. HIDE DEF e, n
<1>6. CASE ~Chained(e, ok)
  <2>1. new = Tail(stack)
    BY <1>6 DEF After
  <2>2. DOMAIN Tail(stack) = 1..(n - 1)
    BY <1>2
  <2>3. \A i \in 1..(n - 1) : i + 1 \in 1..n /\ i + 1 # 1 /\ Tail(stack)[i] = stack[i + 1]
    BY <1>1, <1>2
  <2>4. \A i \in DOMAIN Tail(stack) : Tail(stack)[i].call # e.call
    BY <1>1, <1>4, <2>2, <2>3
  <2>5. \A j, k \in DOMAIN Tail(stack) : Tail(stack)[j].call = Tail(stack)[k].call => j = k
    <3>1. TAKE j, k \in DOMAIN Tail(stack)
    <3>2. /\ j + 1 \in 1..n /\ k + 1 \in 1..n
          /\ Tail(stack)[j] = stack[j + 1] /\ Tail(stack)[k] = stack[k + 1]
      BY <2>2, <2>3
    <3>3. stack[j + 1].call = stack[k + 1].call => j + 1 = k + 1
      BY <1>4, <3>2
    <3>. QED  BY <2>2, <3>2, <3>3
  <2>6. /\ new \in Seq(Request)
        /\ \A k \in DOMAIN new :
             /\ new[k].call \in DOMAIN calls
             /\ calls[new[k].call].attempt = attempt
             /\ calls[new[k].call].handle = new[k].handle
             /\ Serves(calls[new[k].call].kind, new[k].event)
             /\ \/ op # None /\ op.call = new[k].call
                \/ Abandoned(calls, new[k].call)
             /\ op # None => new[k].call <= op.call
        /\ \A j, k \in DOMAIN new : new[j].call = new[k].call => j = k
        /\ \A k \in DOMAIN new : new[k].call # e.call
    BY <1>2, <1>3, <2>1, <2>2, <2>3, <2>4, <2>5
  <2>. HIDE DEF new
  <2>. QED  BY <1>5, <2>6 DEF e, new
<1>7. CASE Chained(e, ok)
  <2>. DEFINE f == DescrOf(e)
  <2>1. new = Append(Tail(stack), f)
    BY <1>7 DEF After
  <2>2. f \in Request /\ f.call = e.call /\ f.handle = e.handle /\ f.event = "DESCR"
    BY <1>1 DEF DescrOf, Request, Event
  <2>3. Serves(calls[f.call].kind, f.event)
    BY <1>1, <1>3, <1>7, <2>2 DEF Serves, Chained
  <2>. HIDE DEF f
  <2>4. /\ new \in Seq(Request) /\ DOMAIN new = 1..n /\ new[n] = f
        /\ \A k \in 1..n : k # n => k + 1 \in 1..n /\ k + 1 # 1 /\ new[k] = stack[k + 1]
    BY <1>1, <1>2, <2>1, <2>2
  <2>. HIDE DEF new
  <2>5. \A k \in 1..n :
          /\ new[k].call \in DOMAIN calls
          /\ calls[new[k].call].attempt = attempt
          /\ calls[new[k].call].handle = new[k].handle
          /\ Serves(calls[new[k].call].kind, new[k].event)
          /\ \/ op # None /\ op.call = new[k].call
             \/ Abandoned(calls, new[k].call)
          /\ op # None => new[k].call <= op.call
    <3>1. TAKE k \in 1..n
    <3>2. CASE k = n
      BY <1>1, <1>3, <2>2, <2>3, <2>4, <3>2
    <3>3. CASE k # n
      BY <1>3, <2>4, <3>3
    <3>. QED  BY <3>2, <3>3
  <2>6. \A j, k \in 1..n : new[j].call = new[k].call => j = k
    <3>1. \A k \in 1..n : k # n => new[k].call # e.call
      BY <1>1, <1>4, <2>4
    <3>2. \A j, k \in 1..n : j # n /\ k # n /\ new[j].call = new[k].call => j + 1 = k + 1
      BY <1>4, <2>4
    <3>. QED  BY <2>2, <2>4, <3>1, <3>2
  <2>. QED  BY <1>5, <1>7, <2>4, <2>5, <2>6 DEF e, new
<1>. QED  BY <1>6, <1>7 DEF e

(* An answer comes: to nobody, to a subscription that goes on with its descriptor, or
   to the operation in flight. *)
LEMMA AnsweredKeeps ==
  ASSUME IInv, Answered
  PROVE  IInv' /\ Grows(State, State')
<1>. DEFINE e == Head(stack)
<1>1. stack # <<>> /\ link \in {"established", "closing"}
  BY DEF Answered
<1>2. PICK ok \in BOOLEAN :
        LET s == [State EXCEPT !.stack = After(e, ok)]
        IN  CASE ~Matches(e) -> Become(s)
              [] Matches(e) /\ Chained(e, ok) -> Become([s EXCEPT !.op.wait = "DESCR"])
              [] OTHER -> \E t \in Follow(Finished(s, "answered", e.call), Established) : Become(t)
  BY DEF Answered
<1>. DEFINE s == [State EXCEPT !.stack = After(e, ok)]
<1>3. /\ Sound(s, attempt) /\ Grows(State, s) /\ s.op = op /\ s.calls = calls
      /\ ~Chained(e, ok) => \A i \in DOMAIN s.stack : s.stack[i].call # e.call
  BY <1>1, AfterIsSound
<1>4. /\ e = stack[1] /\ e \in Request /\ e.call \in DOMAIN calls
      /\ calls[e.call].attempt = attempt /\ calls[e.call].handle = e.handle
      /\ Serves(calls[e.call].kind, e.event)
      /\ (op # None /\ op.call = e.call) \/ Abandoned(calls, e.call)
      /\ op # None => e.call <= op.call
  <2>1. /\ Sound(State, attempt) /\ State.op = op /\ State.calls = calls
        /\ State.stack = stack /\ stack \in Seq(Request)
    BY DEF IInv, State, Sound, Typed
  <2>2. 1 \in DOMAIN stack /\ e = stack[1] /\ e \in Request
    BY <1>1, <2>1
  <2>. QED  BY <2>1, <2>2 DEF Sound, StackIsOrdered
<1>5. /\ attempt \in 1..MaxAttempts /\ Established \in BOOLEAN
      /\ State.calls \in Seq(Call) /\ Typed(State)
  BY <1>1, ClientAssumption DEF IInv, LinkInv, Established, Sound, Typed
<1>6. ASSUME NEW t, Become(t), Sound(t, attempt), Grows(State, t)
      PROVE  IInv' /\ Grows(State, State')
  <2>1. State' = t
    BY <1>6, BecomeState DEF Sound
  <2>2. LinkInv'
    BY <1>1 DEF IInv, LinkInv, Answered
  <2>. QED  BY <1>6, <2>1, <2>2 DEF IInv, Answered
<1>. HIDE DEF s, e
<1>7. CASE ~Matches(e)
  <2>1. Become(s)
    BY <1>2, <1>7 DEF s
  <2>. QED  BY <1>3, <1>6, <2>1
<1>8. CASE Matches(e) /\ Chained(e, ok)
  <2>. DEFINE t == [s EXCEPT !.op.wait = "DESCR"]
  <2>1. Become(t)
    BY <1>2, <1>8 DEF s
  <2>2. s.op \in Pending /\ s.op # None /\ s.op.wait = "REG"
    BY <1>3, <1>8 DEF Sound, Typed, Matches, Chained
  <2>3. /\ t.op \in Pending /\ t.op # None /\ t.op.call = s.op.call
        /\ t.op.handle = s.op.handle /\ t.op.wait = "DESCR"
        /\ t.calls = s.calls /\ t.stack = s.stack
        /\ t \in [op : Pending \cup {None}, calls : Seq(Call), stack : Seq(Request)]
    <3>1. t.op = [s.op EXCEPT !.wait = "DESCR"] /\ t.calls = s.calls /\ t.stack = s.stack
      BY <1>3 DEF Sound, Typed
    <3>2. t = [op |-> t.op, calls |-> s.calls, stack |-> s.stack]
      BY <1>3, <3>1, SMTT(20) DEF Sound, Typed
    <3>3. t.op \in Pending /\ t.op.call = s.op.call
          /\ t.op.handle = s.op.handle /\ t.op.wait = "DESCR"
      BY <2>2, <3>1 DEF Pending, Event
    <3>4. t.op # None
      BY <3>3, ClientAssumption
    <3>. QED  BY <1>3, <3>1, <3>2, <3>3, <3>4 DEF Sound, Typed
  <2>. HIDE DEF t
  <2>4. Typed(t)
    BY <1>3, <2>3 DEF Sound, Typed
  <2>5. OneWaits(t, attempt)
    BY <1>3, <2>2, <2>3 DEF Sound, OneWaits, Serves
  <2>6. StackIsOrdered(t, attempt)
    BY <1>3, <2>2, <2>3 DEF Sound, StackIsOrdered
  <2>7. Late(t.calls) /\ Grows(State, t)
    BY <1>3, <2>3 DEF Sound, Grows
  <2>. QED  BY <1>6, <2>1, <2>4, <2>5, <2>6, <2>7 DEF Sound, t
<1>9. CASE Matches(e) /\ ~Chained(e, ok)
  <2>. DEFINE u == Finished(s, "answered", e.call)
  <2>1. PICK t \in Follow(u, Established) : Become(t)
    BY <1>2, <1>9 DEF s
  <2>2. /\ op # None /\ op \in Pending /\ op.wait = e.event
        /\ e.event = "DESCR" \/ op.handle = e.handle
        /\ op.call \in DOMAIN calls /\ op.call \in Nat
        /\ Serves(calls[op.call].kind, op.wait) /\ calls[op.call].handle = op.handle
    <3>1. State.op = op /\ State.calls = calls /\ OneWaits(State, attempt) /\ Typed(State)
      BY DEF State, IInv, Sound
    <3>. QED  BY <1>9, <3>1 DEF Matches, OneWaits, Typed
  <2>3. e.call \in 0..MaxCalls
    BY <1>4, ClientAssumption DEF Request, CallId
  <2>4. \/ e.call = s.op.call /\ \A i \in DOMAIN s.stack : s.stack[i].call # e.call
        \/ /\ e.call \in DOMAIN s.calls /\ e.call < s.op.call /\ Abandoned(s.calls, e.call)
           /\ s.calls[e.call].attempt = attempt
           /\ s.calls[e.call].kind = s.calls[s.op.call].kind
           /\ s.calls[e.call].kind # "SUBSCRIBE" => s.calls[e.call].handle = s.op.handle
    <3>1. CASE e.call = op.call
      BY <1>3, <1>9, <3>1
    <3>2. CASE e.call # op.call
      <4>1. e.call < op.call /\ Abandoned(calls, e.call)
        BY <1>4, <2>2, <2>3, <3>2
      <4>2. /\ calls[e.call].kind = calls[op.call].kind
            /\ calls[e.call].kind # "SUBSCRIBE" => e.event # "DESCR"
        BY <1>4, <2>2 DEF Serves
      <4>. QED  BY <1>3, <1>4, <2>2, <4>1, <4>2
    <3>. QED  BY <3>1, <3>2
  <2>5. Sound(u, attempt) /\ Grows(s, u)
    <3>1. s.op # None
      BY <1>3, <2>2
    <3>. QED  BY <1>3, <2>3, <2>4, <3>1, FinishedIsSound
  <2>. HIDE DEF u
  <2>6. Sound(t, attempt) /\ Grows(u, t)
    BY <1>5, <2>1, <2>5, FollowIsSound
  <2>7. s.calls \in Seq(Call) /\ u.calls \in Seq(Call) /\ t.calls \in Seq(Call)
    BY <1>3, <2>5, <2>6 DEF Sound, Typed
  <2>8. Grows(State, u)
    BY <1>3, <1>5, <2>5, <2>7, GrowsIsTransitive
  <2>9. Grows(State, t)
    BY <1>5, <2>6, <2>7, <2>8, GrowsIsTransitive
  <2>. QED  BY <1>6, <2>1, <2>6, <2>9
<1>. QED  BY <1>7, <1>8, <1>9

(* loop and end_connection end the operation. *)
LEMMA EndedKeeps ==
  ASSUME IInv, Timeout \/ EndConnection \/ DisconnectComplete
  PROVE  IInv' /\ Grows(State, State')
<1>1. /\ attempt' = attempt /\ Sound(State', attempt') /\ Grows(State, State')
      /\ op = None => op' = None /\ stack' = stack
  <2>1. attempt' = attempt /\ Established \in BOOLEAN /\ FALSE \in BOOLEAN
    BY DEF Timeout, EndConnection, DisconnectComplete, Established
  <2>2. \E status \in {"timeout", "disconnected"}, est \in BOOLEAN : Ends(status, 0, est)
    BY <2>1 DEF Timeout, EndConnection, DisconnectComplete
  <2>. QED  BY <2>1, <2>2, EndsIsSound
<1>2. CASE Timeout
  BY <1>1, <1>2 DEF IInv, LinkInv, Timeout
<1>3. CASE EndConnection
  BY <1>1, <1>3 DEF IInv, LinkInv, EndConnection, Link
<1>4. CASE DisconnectComplete
  <2>1. /\ reports \in Seq(BOOLEAN) /\ Len(reports) <= 1 /\ reports' = Append(reports, FALSE)
        /\ link' = "idle" /\ op = None /\ stack = <<>> /\ attempt \in 0..MaxAttempts
    BY <1>4 DEF IInv, LinkInv, DisconnectComplete
  <2>2. /\ reports' \in Seq(BOOLEAN) /\ Len(reports') <= 2 /\ reports'[Len(reports')] = FALSE
    BY <2>1
  <2>3. LinkInv'
    BY <1>1, <2>1, <2>2 DEF LinkInv, Link
  <2>. QED  BY <1>1, <2>3 DEF IInv
<1>. QED  BY <1>2, <1>3, <1>4

(* ESP_GATTC_DISCONNECT_EVT *)
LEMMA DisconnectedKeeps ==
  ASSUME IInv, Disconnected
  PROVE  IInv' /\ Grows(State, State')
<1>. DEFINE s == [State EXCEPT !.stack = <<>>]
            u == Finished(s, "disconnected", 0)
<1>1. PICK t \in Follow(u, FALSE) : Become(t)
  BY DEF Disconnected
<1>2. Sound(s, attempt) /\ Grows(State, s) /\ s.stack = <<>> /\ s.op = op
  <2>1. /\ Sound(State, attempt) /\ State.op = op /\ <<>> \in Seq(Request)
        /\ \A i \in DOMAIN <<>> : FALSE
    BY DEF IInv, State
  <2>. QED  BY <2>1, RestackedIsSound
<1>3. Sound(u, attempt) /\ Grows(s, u) /\ u.op = None /\ u.stack = <<>>
  <2>1. CASE s.op = None
    BY <1>2, <2>1 DEF Finished, Grows
  <2>2. CASE s.op # None
    <3>1. 0 \in 0..MaxCalls
      BY ClientAssumption
    <3>. HIDE DEF s
    <3>. QED  BY <1>2, <2>2, <3>1, FinishedIsSound
  <2>. QED  BY <2>1, <2>2
<1>4. attempt \in 1..MaxAttempts
  BY ClientAssumption DEF IInv, LinkInv, Disconnected
<1>. HIDE DEF s, u
<1>5. Sound(t, attempt) /\ Grows(u, t) /\ t.op = None /\ t.stack = <<>>
  BY <1>1, <1>3, <1>4, FollowIsSound
<1>6. State' = t /\ op' = None /\ stack' = <<>>
  BY <1>1, <1>5, BecomeState DEF Sound, Become
<1>7. Grows(State, t)
  <2>1. /\ State.calls \in Seq(Call) /\ s.calls \in Seq(Call)
        /\ u.calls \in Seq(Call) /\ t.calls \in Seq(Call)
    BY <1>2, <1>3, <1>5 DEF IInv, Sound, Typed
  <2>2. Grows(State, u)
    BY <1>2, <1>3, <2>1, GrowsIsTransitive
  <2>. QED  BY <1>5, <2>1, <2>2, GrowsIsTransitive
<1>8. LinkInv'
  BY <1>6 DEF IInv, LinkInv, Disconnected, Link
<1>. QED  BY <1>5, <1>6, <1>7, <1>8 DEF IInv, Disconnected

(* Every step keeps the invariant, and takes no callback back. *)
LEMMA StepIInv ==
  ASSUME IInv, [Next]_vars
  PROVE  IInv' /\ Grows(State, State')
<1>1. CASE UNCHANGED vars
  <2>1. State' = State /\ LinkInv'
    BY <1>1 DEF vars, State, IInv, LinkInv
  <2>. QED  BY <1>1, <2>1 DEF vars, IInv, Grows
<1>2. CASE BeginConnect
  BY <1>2, BeginConnectKeeps
<1>3. CASE Promoted \/ Opened \/ OpenFailed \/ SearchComplete
  BY <1>3, ConnectingKeeps
<1>4. CASE Issue
  BY <1>4, IssueKeeps
<1>5. CASE Answered
  BY <1>5, AnsweredKeeps
<1>6. CASE Timeout \/ EndConnection \/ DisconnectComplete
  BY <1>6, EndedKeeps
<1>7. CASE Disconnected
  BY <1>7, DisconnectedKeeps
<1>. QED  BY <1>1, <1>2, <1>3, <1>4, <1>5, <1>6, <1>7 DEF Next

(* The invariant holds throughout. *)
THEOREM Inductive == Spec => []IInv
<1>1. IInv /\ [Next]_vars => IInv'
  BY StepIInv
<1>. QED  BY InitIInv, <1>1, PTL DEF Spec

----------------------------------------------------------------------------
(* What the client promises *)

(* Every variable keeps to its type, for any number of calls and connections, and a
   connection is reported at most twice (connect_cb_). *)
THEOREM TypeCorrect == Spec => []TypeOK
<1>1. IInv => TypeOK
  <2>1. SUFFICES ASSUME IInv PROVE TypeOK
    OBVIOUS
  <2>2. /\ op \in Pending \cup {None} /\ calls \in Seq(Call) /\ Len(calls) <= MaxCalls
        /\ stack \in Seq(Request)
    BY <2>1 DEF IInv, Sound, Typed, State
  <2>3. Len(reports) <= 2
    BY <2>1 DEF IInv, LinkInv
  <2>. QED  BY <2>1, <2>2, <2>3 DEF IInv, LinkInv, TypeOK
<1>. QED  BY <1>1, Inductive, PTL

(* No callback waits across the end of a connection, and whoever was told of a
   connection is told of its end before the client can be used again
   (gattc_event_handler, on_disconnect_complete). *)
THEOREM OperationsEndWithTheirLink == Spec => []EndsWithItsLink
<1>1. IInv => EndsWithItsLink
  <2>1. SUFFICES ASSUME IInv PROVE EndsWithItsLink
    OBVIOUS
  <2>2. WaitsOnItsLink
    <3>1. SUFFICES ASSUME op # None
                   PROVE  /\ link \in {"established", "closing"}
                          /\ calls[op.call].attempt = attempt
                          /\ calls[op.call].status = "pending"
      BY DEF WaitsOnItsLink
    <3>2. State.op = op /\ State.calls = calls /\ OneWaits(State, attempt)
      BY <2>1 DEF IInv, Sound, State
    <3>. QED  BY <2>1, <3>1, <3>2 DEF IInv, LinkInv, OneWaits
  <2>3. EndIsTold
    BY <2>1 DEF IInv, LinkInv, EndIsTold, Last
  <2>. QED  BY <2>2, <2>3 DEF EndsWithItsLink
<1>. QED  BY <1>1, Inductive, PTL

(* An answer that reaches the wrong callback is that of an operation given up before,
   of the same kind and connection, and on the same characteristic unless both
   subscribe (gattc_event_handler). *)
THEOREM OutOfStepOnlyWhenLate == Spec => []ForeignAnswersAreLate
<1>1. IInv => ForeignAnswersAreLate
  <2>1. SUFFICES ASSUME IInv PROVE ForeignAnswersAreLate
    OBVIOUS
  <2>2. Late(calls)
    BY <2>1 DEF IInv, Sound, State
  <2>. QED  BY <2>2 DEF Late, Abandoned, ForeignAnswersAreLate, GaveUp
<1>. QED  BY <1>1, Inductive, PTL

(* At first no operation was issued. *)
LEMMA PromiseInit == Init => Promise!Init
<1>1. SUFFICES ASSUME Init, NEW c \in CallId PROVE Phase(c) = "new"
  BY DEF Promise!Init
<1>2. c \in Nat /\ c > 0 /\ Len(calls) = 0
  BY <1>1, ClientAssumption DEF Init, CallId
<1>. QED  BY <1>2 DEF Phase

(* A step maps to a step of GattPromise: calls are only added, those that were called
   back stay so, and the one that waits is that of the operation in flight. *)
LEMMA PromiseStep ==
  ASSUME IInv, IInv', Grows(State, State')
  PROVE  Promise!Next
<1>1. /\ calls \in Seq(Call) /\ calls' \in Seq(Call)
      /\ Len(calls) \in Nat /\ Len(calls') \in Nat /\ Len(calls) <= Len(calls')
      /\ \A c \in 1..Len(calls) : calls[c].times = 1 => calls'[c].times = 1
      /\ \A c \in 1..Len(calls) : calls[c].times \in 0..1
      /\ \A c \in 1..Len(calls') : calls'[c].times \in 0..1
      /\ \A c \in 1..Len(calls') : calls'[c].times = 0 => op' # None /\ op'.call = c
  <2>1. /\ State.calls = calls /\ (State.calls)' = calls' /\ (State.op)' = op'
        /\ calls \in Seq(Call) /\ calls' \in Seq(Call)
    BY DEF IInv, Sound, Typed, State
  <2>2. /\ \A c \in 1..Len(calls) : calls[c].times = 1 => calls'[c].times = 1
        /\ Len(calls) <= Len(calls')
    BY <2>1 DEF Grows
  <2>3. \A c \in 1..Len(calls') : calls'[c].times = 0 => op' # None /\ op'.call = c
    BY <2>1 DEF IInv, Sound, OneWaits
  <2>4. /\ \A c \in 1..Len(calls) : calls[c].times \in 0..1
        /\ \A c \in 1..Len(calls') : calls'[c].times \in 0..1
    <3>1. /\ \A c \in 1..Len(calls) : calls[c] \in Call
          /\ \A c \in 1..Len(calls') : calls'[c] \in Call
      BY <2>1
    <3>2. \A q \in Call : q.times \in 0..1
      BY DEF Call
    <3>. QED  BY <3>1, <3>2
  <2>. QED  BY <2>1, <2>2, <2>3, <2>4
<1>2. \A c \in CallId :
        /\ Phase(c)' \in {"new", "pending", "done"}
        /\ \/ Phase(c)' = Phase(c)
           \/ Phase(c) = "new" /\ Phase(c)' \in {"pending", "done"}
           \/ Phase(c) = "pending" /\ Phase(c)' = "done"
        /\ Phase(c)' = "pending" => op'.call = c
  <2>1. SUFFICES ASSUME NEW c \in CallId
                 PROVE  /\ Phase(c)' \in {"new", "pending", "done"}
                        /\ \/ Phase(c)' = Phase(c)
                           \/ Phase(c) = "new" /\ Phase(c)' \in {"pending", "done"}
                           \/ Phase(c) = "pending" /\ Phase(c)' = "done"
                        /\ Phase(c)' = "pending" => op'.call = c
    OBVIOUS
  <2>2. c \in Nat /\ c >= 1
    BY ClientAssumption DEF CallId
  <2>3. CASE c > Len(calls)
    <3>1. Phase(c) = "new"
      BY <1>1, <2>2, <2>3 DEF Phase
    <3>2. CASE c > Len(calls')
      BY <1>1, <2>2, <3>1, <3>2 DEF Phase
    <3>3. CASE c <= Len(calls')
      BY <1>1, <2>2, <3>1, <3>3 DEF Phase
    <3>. QED  BY <1>1, <2>2, <3>2, <3>3
  <2>4. CASE c <= Len(calls)
    <3>1. /\ calls[c].times \in 0..1 /\ calls'[c].times \in 0..1 /\ c <= Len(calls')
          /\ calls[c].times = 1 => calls'[c].times = 1
          /\ calls'[c].times = 0 => op'.call = c
      BY <1>1, <2>2, <2>4
    <3>2. /\ Phase(c) = IF calls[c].times = 0 THEN "pending" ELSE "done"
          /\ Phase(c)' = IF calls'[c].times = 0 THEN "pending" ELSE "done"
      BY <1>1, <2>2, <2>4, <3>1 DEF Phase
    <3>. QED  BY <3>1, <3>2
  <2>. QED  BY <1>1, <2>2, <2>3, <2>4
<1>3. \A b, c \in CallId : Phase(b)' = "pending" /\ Phase(c)' = "pending" => b = c
  BY <1>2
<1>. DEFINE phase == [c \in CallId |-> Phase(c)]
<1>4. phase' = [c \in CallId |-> Phase(c)']
  OBVIOUS
<1>5. \A b, c \in CallId : phase'[b] = "pending" /\ phase'[c] = "pending" => b = c
  BY <1>3, <1>4
<1>6. phase' \in [CallId -> {"new", "pending", "done"}]
  BY <1>2, <1>4
<1>7. \A c \in CallId : \/ phase'[c] = phase[c]
                        \/ phase[c] = "new" /\ phase'[c] \in {"pending", "done"}
                        \/ phase[c] = "pending" /\ phase'[c] = "done"
  BY <1>2, <1>4
<1>. QED  BY <1>5, <1>6, <1>7 DEF Promise!Next, Promise!Phase, Promise!Step

(* Whatever becomes of the connection, every operation calls back at most once and one
   waits at a time: the client implements GattPromise but for what it promises in the
   end (finish_op_ and its users). *)
THEOREM CallsBackOnce == Spec => Promise!Safe
<1>1. IInv /\ IInv' /\ [Next]_vars => Promise!Next
  BY StepIInv, PromiseStep
<1>. QED  BY PromiseInit, <1>1, Inductive, PTL DEF Spec, Promise!Safe
=============================================================================
