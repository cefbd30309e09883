---------------------------- MODULE MiAuthProofs ----------------------------
(***************************************************************************)
(* Proofs about MiAuth for any bound on the frames that the thermometer    *)
(* sends while writes wait.                                                *)
(***************************************************************************)
EXTENDS MiAuth, SequenceTheorems, TLAPS

----------------------------------------------------------------------------
(* The inductive invariant *)

(* A state of the attempt within its handlers: one verdict at the most, an operation
   only over an open link, no step that uses a secret before it was sent. *)
Sound(s) ==
  /\ s \in Auth
  /\ s.calls <= 1 /\ (s.active => s.calls = 0)
  /\ s.op # "none" => s.link = "up"
  /\ s.registering => (s.step \in {2, 3} => s.shown)
  /\ ~s.registering => (s.step # 0 => s.shown)

(* The attempt spoke to the thermometer with its own command. *)
Spoke(s) == s.active \/ s.op = "auth" => s.told # "none"

(* The timer adds to the queue once, and is set again only by a frame. *)
Room(s) == /\ Len(s.queue) <= MaxQueue + 5
           /\ s.delayed # "none" => Len(s.queue) <= MaxQueue + 3

IInv == Sound(auth) /\ Spoke(auth) /\ Room(auth)

(* What a handler leaves alone while it writes or ends the attempt. *)
SameStep(s, t) ==
  /\ t.job = s.job /\ t.step = s.step /\ t.registering = s.registering
  /\ t.activated = s.activated /\ t.delayed = s.delayed /\ t.shown = s.shown

----------------------------------------------------------------------------
(* The verdict *)

(* finish_ leaves an empty queue. *)
LEMMA OverFields ==
  ASSUME NEW s \in Auth
  PROVE  /\ Over(s) \in Auth /\ SameStep(s, Over(s))
         /\ Over(s).active = FALSE /\ Over(s).queue = <<>> /\ Over(s).calls = s.calls + 1
         /\ Over(s).op = s.op /\ Over(s).link = s.link /\ Over(s).told = s.told
         /\ Over(s).busy = s.busy
<1>. DEFINE k == s.calls + 1
<1>1. k \in Nat /\ <<>> \in Seq(Write)
  BY DEF Auth
<1>2. Over(s) = [s EXCEPT !.active = FALSE, !.queue = <<>>, !.calls = k]
  BY DEF Over
<1>. HIDE DEF k
<1>3. /\ Over(s) \in Auth /\ SameStep(s, Over(s))
      /\ Over(s).active = FALSE /\ Over(s).queue = <<>> /\ Over(s).calls = k
      /\ Over(s).op = s.op /\ Over(s).link = s.link /\ Over(s).told = s.told
      /\ Over(s).busy = s.busy
  BY <1>1, <1>2 DEF Auth, SameStep
<1>. QED  BY <1>3 DEF k

(* Closing the connection ends the operation. *)
LEMMA CloseFields ==
  ASSUME NEW s \in Auth
  PROVE  /\ Close(s) \in Auth /\ SameStep(s, Close(s))
         /\ Close(s).active = s.active /\ Close(s).queue = s.queue /\ Close(s).calls = s.calls
         /\ Close(s).op = "none" /\ Close(s).told = s.told
BY DEF Close, Auth, SameStep

(* A failure is told once. *)
LEMMA FailSound ==
  ASSUME NEW s, Sound(s)
  PROVE  LET t == Fail(s)
         IN  /\ Sound(t) /\ SameStep(s, t) /\ t.told = s.told
             /\ ~t.active /\ (s.active => t.queue = <<>> /\ t.op = "none")
             /\ ~s.active => t = s
<1>. DEFINE t == Fail(s)
<1>1. CASE s.active
  <2>1. t = Close(Over(s))
    BY <1>1 DEF Fail
  <2>. DEFINE u == Over(s)
  <2>2. /\ u \in Auth /\ SameStep(s, u) /\ u.active = FALSE /\ u.queue = <<>>
        /\ u.calls = s.calls + 1 /\ u.told = s.told
    BY OverFields DEF Sound
  <2>. HIDE DEF u
  <2>3. /\ t \in Auth /\ SameStep(u, t) /\ t.active = FALSE /\ t.queue = <<>>
        /\ t.calls = u.calls /\ t.op = "none" /\ t.told = s.told
    BY <2>1, <2>2, CloseFields DEF u
  <2>. HIDE DEF t
  <2>4. SameStep(s, t)
    BY <2>2, <2>3 DEF SameStep
  <2>5. Sound(t)
    BY <1>1, <2>2, <2>3, <2>4 DEF Sound, SameStep
  <2>. QED  BY <1>1, <2>3, <2>4, <2>5 DEF t
<1>2. CASE ~s.active
  BY <1>2 DEF Fail, SameStep
<1>. QED  BY <1>1, <1>2

(* A success too, when the attempt is still active. *)
LEMMA SucceedSound ==
  ASSUME NEW s, Sound(s), s.active, Spoke(s), NEW refused \in BOOLEAN
  PROVE  LET t == Succeed(s, refused)
         IN  Sound(t) /\ SameStep(s, t) /\ ~t.active /\ t.queue = <<>> /\ Spoke(t)
<1>. DEFINE t == Succeed(s, refused)
            u == Over(s)
<1>1. /\ u \in Auth /\ SameStep(s, u) /\ u.active = FALSE /\ u.queue = <<>>
      /\ u.calls = s.calls + 1 /\ u.told = s.told /\ u.op = s.op /\ u.link = s.link
      /\ u.busy = s.busy
  BY OverFields DEF Sound
<1>2. /\ t \in Auth /\ SameStep(u, t) /\ t.active = FALSE /\ t.queue = <<>>
      /\ t.calls = u.calls /\ t.told = u.told
      /\ t.op # "none" => s.link = "up" /\ t.link = s.link
      /\ t.op = "auth" => s.op = "auth"
  <2>1. CASE s.job = "activate"
    <3>1. t = Close(u)
      BY <2>1 DEF Succeed
    <3>. HIDE DEF u
    <3>. QED  BY <1>1, <3>1, CloseFields
  <2>2. CASE s.job # "activate"
    <3>. HIDE DEF u
    <3>1. t = [u EXCEPT !.op = IF u.op = "none" /\ s.link = "up" /\ ~refused THEN "speed" ELSE u.op]
      BY <2>2 DEF Succeed, u
    <3>. QED  BY <1>1, <3>1 DEF Auth, SameStep, Sound
  <2>. QED  BY <2>1, <2>2
<1>. HIDE DEF t, u
<1>3. SameStep(s, t)
  BY <1>1, <1>2 DEF SameStep
<1>4. Sound(t)
  BY <1>1, <1>2, <1>3 DEF Sound, SameStep
<1>. QED  BY <1>1, <1>2, <1>3, <1>4 DEF Spoke, t

----------------------------------------------------------------------------
(* Writing *)

(* pump_: either it does nothing, or the write is refused and the attempt fails, or the
   first frame of the queue is on its way. *)
LEMMA PumpSound ==
  ASSUME NEW s, Sound(s), NEW refused \in BOOLEAN
  PROVE  LET t == Pump(s, refused)
         IN  /\ Sound(t) /\ SameStep(s, t) /\ Len(t.queue) <= Len(s.queue)
             /\ t.active => s.active
             /\ t.op = "auth" => s.op = "auth" \/ t.active
             /\ t.told = s.told \/ t.told # "none"
             /\ s.active /\ ~s.busy /\ s.queue # <<>> /\ s.op = "none"
                  /\ Head(s.queue) \in Control => (t.active => t.told # "none")
             /\ ~s.active => t = s
<1>. DEFINE t == Pump(s, refused)
            idle == ~s.active \/ s.busy \/ s.queue = <<>> \/ s.op # "none"
<1>0. s \in Auth /\ s.queue \in Seq(Write) /\ Len(s.queue) \in Nat
  BY DEF Sound, Auth
<1>1. CASE idle
  <2>1. t = s
    BY <1>1 DEF Pump
  <2>. HIDE DEF t
  <2>. QED  BY <1>0, <1>1, <2>1 DEF SameStep, Sound, t
<1>2. CASE ~idle
  <2>. DEFINE rest == [s EXCEPT !.queue = Tail(s.queue)]
              frame == Head(s.queue)
  <2>1. frame \in Write /\ Tail(s.queue) \in Seq(Write) /\ Len(Tail(s.queue)) <= Len(s.queue)
    BY <1>0, <1>2
  <2>2. /\ rest \in Auth /\ SameStep(s, rest) /\ rest.queue = Tail(s.queue)
        /\ rest.active = s.active /\ rest.calls = s.calls /\ rest.op = s.op
        /\ rest.link = s.link /\ rest.told = s.told /\ rest.busy = s.busy
    BY <1>0, <2>1 DEF Auth, SameStep
  <2>3. t = IF s.link # "up" \/ refused THEN Fail(rest)
            ELSE [rest EXCEPT !.busy = TRUE, !.op = "auth",
                              !.told = IF frame \in Control THEN frame ELSE rest.told]
    BY <1>2 DEF Pump
  <2>. HIDE DEF rest, frame
  <2>4. Sound(rest)
    BY <2>2 DEF Sound, SameStep
  <2>5. CASE s.link # "up" \/ refused
    <3>. HIDE DEF t
    <3>1. t = Fail(rest)
      BY <2>3, <2>5
    <3>2. /\ Sound(t) /\ SameStep(rest, t) /\ t.told = rest.told /\ ~t.active
          /\ t.queue = <<>> /\ t.op = "none"
      BY <1>2, <2>2, <2>4, <3>1, FailSound
    <3>. QED  BY <1>0, <1>2, <2>2, <3>2 DEF SameStep, t
  <2>6. CASE ~(s.link # "up" \/ refused)
    <3>. HIDE DEF t
    <3>1. t = [rest EXCEPT !.busy = TRUE, !.op = "auth",
                           !.told = IF frame \in Control THEN frame ELSE rest.told]
      BY <2>3, <2>6
    <3>2. /\ t \in Auth /\ SameStep(rest, t) /\ t.queue = rest.queue /\ t.active = rest.active
          /\ t.calls = rest.calls /\ t.op = "auth" /\ t.link = rest.link
          /\ t.told = IF frame \in Control THEN frame ELSE rest.told
      BY <2>1, <2>2, <3>1 DEF Auth, SameStep, Write
    <3>3. SameStep(s, t)
      BY <2>2, <3>2 DEF SameStep
    <3>4. Sound(t)
      BY <2>2, <2>4, <2>6, <3>2, <3>3 DEF Sound, SameStep
    <3>5. "none" \notin Control
      BY DEF Control
    <3>. QED  BY <1>0, <1>2, <2>1, <2>2, <3>2, <3>3, <3>4, <3>5 DEF t, frame
  <2>. QED  BY <2>5, <2>6
<1>. QED  BY <1>1, <1>2

(* What writing may change, with k frames more at the most. *)
Wrote(s, t, k) ==
  /\ Sound(t) /\ (Spoke(s) => Spoke(t))
  /\ t.queue \in Seq(Write) /\ Len(t.queue) <= Len(s.queue) + k
  /\ t.active => s.active
  /\ t.op = "auth" => s.op = "auth" \/ t.active

(* enqueue_: the frames wait, or the attempt failed. *)
LEMMA SaySound ==
  ASSUME NEW s, Sound(s), NEW frames \in Seq(Write), frames # <<>>, NEW refused \in BOOLEAN
  PROVE  LET t == Say(s, frames, refused)
         IN  /\ Wrote(s, t, Len(frames)) /\ SameStep(s, t)
             /\ s.active /\ ~s.busy /\ s.queue = <<>> /\ s.op = "none"
                  /\ Head(frames) \in Control => Spoke(t)
<1>. DEFINE t == Say(s, frames, refused)
            r == [s EXCEPT !.queue = Append(s.queue, Head(frames))]
            first == Pump(r, refused)
<1>1. /\ s \in Auth /\ s.queue \in Seq(Write) /\ Len(s.queue) \in Nat
      /\ Head(frames) \in Write /\ Tail(frames) \in Seq(Write)
      /\ Len(frames) \in Nat /\ Len(Tail(frames)) = Len(frames) - 1
  BY DEF Sound, Auth
<1>2. /\ r \in Auth /\ SameStep(s, r) /\ r.queue = Append(s.queue, Head(frames))
      /\ r.active = s.active /\ r.calls = s.calls /\ r.op = s.op
      /\ r.link = s.link /\ r.told = s.told /\ r.busy = s.busy
  <2>1. Append(s.queue, Head(frames)) \in Seq(Write)
    BY <1>1
  <2>. QED  BY <1>1, <2>1 DEF Auth, SameStep
<1>3. t = [first EXCEPT !.queue = first.queue \o Tail(frames)]
  BY DEF Say
<1>. HIDE DEF r
<1>4. Sound(r)
  BY <1>2 DEF Sound, SameStep
<1>5. Len(r.queue) = Len(s.queue) + 1 /\ r.queue # <<>>
  BY <1>1, <1>2
<1>6. /\ Sound(first) /\ SameStep(r, first) /\ Len(first.queue) <= Len(r.queue)
      /\ first.active => r.active
      /\ first.op = "auth" => r.op = "auth" \/ first.active
      /\ first.told = r.told \/ first.told # "none"
      /\ r.active /\ ~r.busy /\ r.queue # <<>> /\ r.op = "none"
           /\ Head(r.queue) \in Control => (first.active => first.told # "none")
  BY <1>4, PumpSound
<1>. HIDE DEF first
<1>7. first \in Auth /\ first.queue \in Seq(Write) /\ Len(first.queue) \in Nat
  BY <1>6 DEF Sound, Auth
<1>8. /\ first.queue \o Tail(frames) \in Seq(Write)
      /\ Len(first.queue \o Tail(frames)) = Len(first.queue) + Len(frames) - 1
  BY <1>1, <1>7
<1>9. /\ t \in Auth /\ SameStep(first, t) /\ t.queue = first.queue \o Tail(frames)
      /\ t.active = first.active /\ t.calls = first.calls /\ t.op = first.op
      /\ t.link = first.link /\ t.told = first.told
  BY <1>3, <1>7, <1>8 DEF Auth, SameStep
<1>. HIDE DEF t
<1>10. SameStep(s, t)
  BY <1>2, <1>6, <1>9 DEF SameStep
<1>11. Sound(t)
  BY <1>6, <1>9 DEF Sound, SameStep
<1>12. Spoke(s) => Spoke(t)
  BY <1>2, <1>6, <1>9 DEF Spoke
<1>13. Len(t.queue) <= Len(s.queue) + Len(frames) /\ t.queue \in Seq(Write)
  BY <1>1, <1>5, <1>6, <1>7, <1>8, <1>9
<1>14. ASSUME s.active, ~s.busy, s.queue = <<>>, s.op = "none", Head(frames) \in Control
       PROVE  Spoke(t)
  <2>1. Head(r.queue) = Head(frames)
    BY <1>1, <1>2, <1>14
  <2>. QED  BY <1>2, <1>5, <1>6, <1>9, <1>14, <2>1 DEF Spoke
<1>. QED  BY <1>2, <1>6, <1>9, <1>10, <1>11, <1>12, <1>13, <1>14 DEF Wrote, t

(* Pieces of data. *)
LEMMA DataFramesAre ==
  ASSUME NEW n \in 1..4
  PROVE  Data(n) \in Seq(Write) /\ Data(n) # <<>> /\ Len(Data(n)) = n
<1>1. Data(n) \in [1..n -> Write] /\ n \in Nat
  BY DEF Data, Write
<1>2. Data(n) \in Seq(Write) /\ Len(Data(n)) = n
  BY <1>1
<1>. QED  BY <1>2

(* Another step, another exchange or another choice of the timer, when the secret is
   accounted for. *)
LEMMA RestepSound ==
  ASSUME NEW s, NEW t \in Auth, Sound(s), NEW k,
         t.active = s.active, t.calls = s.calls, t.op = s.op, t.link = s.link,
         t.told = s.told, t.queue = s.queue,
         t.registering => (t.step \in {2, 3} => t.shown),
         ~t.registering => (t.step # 0 => t.shown)
  PROVE  /\ Sound(t)
         /\ \A r : Wrote(r, s, k) => Wrote(r, t, k)
BY DEF Sound, Spoke, Wrote

(* start_register_ and send_login_ begin with a new secret. *)
LEMMA StartSound ==
  ASSUME NEW s, Sound(s), NEW refused \in BOOLEAN,
         NEW t \in {StartRegister(s, refused), SendLogin(s, refused)}
  PROVE  /\ Wrote(s, t, 2)
         /\ t.delayed = s.delayed
         /\ s.active /\ ~s.busy /\ s.queue = <<>> /\ s.op = "none" => Spoke(t)
<1>1. ASSUME NEW frames \in {<<"register", "data">>, <<"login", "data">>},
             NEW reg \in BOOLEAN, NEW step \in {0, 1}, step = 1 => reg,
             t = [Say(s, frames, refused) EXCEPT
                    !.registering = reg, !.step = step, !.shown = FALSE]
      PROVE  /\ Wrote(s, t, 2) /\ t.delayed = s.delayed
             /\ s.active /\ ~s.busy /\ s.queue = <<>> /\ s.op = "none" => Spoke(t)
  <2>. DEFINE u == Say(s, frames, refused)
  <2>1. /\ frames \in Seq(Write) /\ frames # <<>> /\ Len(frames) = 2
        /\ Head(frames) \in Control
    <3>1. {"register", "login"} \subseteq Control /\ {"register", "login", "data"} \subseteq Write
      BY DEF Write, Control
    <3>2. ASSUME NEW f \in {"register", "login"}
          PROVE  /\ <<f, "data">> \in Seq(Write) /\ <<f, "data">> # <<>>
                 /\ Len(<<f, "data">>) = 2 /\ Head(<<f, "data">>) = f
      BY <3>1
    <3>. QED  BY <3>1, <3>2
  <2>2. /\ Wrote(s, u, 2) /\ SameStep(s, u)
        /\ s.active /\ ~s.busy /\ s.queue = <<>> /\ s.op = "none" => Spoke(u)
    BY <2>1, SaySound
  <2>. HIDE DEF u
  <2>3. u \in Auth /\ Sound(u)
    BY <2>2 DEF Wrote, Sound
  <2>4. /\ t \in Auth /\ t.registering = reg /\ t.step = step /\ t.shown = FALSE
        /\ t.active = u.active /\ t.calls = u.calls /\ t.op = u.op /\ t.link = u.link
        /\ t.told = u.told /\ t.queue = u.queue /\ t.delayed = u.delayed
    <3>1. t = [u EXCEPT !.registering = reg, !.step = step, !.shown = FALSE]
      BY <1>1 DEF u
    <3>2. step \in Step
      BY DEF Step
    <3>. QED  BY <2>3, <3>1, <3>2 DEF Auth
  <2>5. Wrote(s, t, 2)
    <3>1. /\ t.registering => t.step \notin {2, 3}
          /\ ~t.registering => t.step = 0
      BY <1>1, <2>4
    <3>2. \A r : Wrote(r, u, 2) => Wrote(r, t, 2)
      BY <2>3, <2>4, <3>1, RestepSound
    <3>. QED  BY <2>2, <3>2
  <2>. QED  BY <2>2, <2>4, <2>5 DEF SameStep, Spoke
<1>2. CASE t = StartRegister(s, refused)
  <2>1. t = [Say(s, <<"register", "data">>, refused) EXCEPT
               !.registering = TRUE, !.step = 1, !.shown = FALSE]
    BY <1>2 DEF StartRegister
  <2>. QED  BY <1>1, <2>1
<1>3. CASE t = SendLogin(s, refused)
  <2>1. t = [Say(s, <<"login", "data">>, refused) EXCEPT
               !.registering = FALSE, !.step = 0, !.shown = FALSE]
    BY <1>3 DEF SendLogin
  <2>2. FALSE \in BOOLEAN /\ 0 \in {0, 1} /\ (0 = 1 => FALSE)
    OBVIOUS
  <2>. QED  BY <1>1, <2>1, <2>2
<1>. QED  BY <1>2, <1>3

----------------------------------------------------------------------------
(* Frames of the thermometer *)

(* Handling a frame keeps the attempt sound and queues four writes at the most. *)
Handled(s, t) == /\ Sound(t) /\ Spoke(t)
                 /\ t.queue \in Seq(Write) /\ Len(t.queue) <= Len(s.queue) + 4

(* Whatever is written or fails in between. *)
LEMMA WroteIsHandled ==
  ASSUME NEW s, Sound(s), Spoke(s), NEW t, NEW k \in 0..4, Wrote(s, t, k)
  PROVE  Handled(s, t)
<1>1. Len(s.queue) \in Nat /\ Len(t.queue) \in Nat
  BY DEF Sound, Auth, Wrote
<1>. QED  BY <1>1 DEF Handled, Wrote

LEMMA FailIsHandled ==
  ASSUME NEW s, Sound(s), Spoke(s)
  PROVE  Handled(s, Fail(s)) /\ Wrote(s, Fail(s), 0)
<1>. DEFINE t == Fail(s)
<1>1. /\ Sound(t) /\ t.told = s.told /\ ~t.active /\ (s.active => t.queue = <<>> /\ t.op = "none")
      /\ ~s.active => t = s
  BY FailSound
<1>2. /\ s.queue \in Seq(Write) /\ Len(s.queue) \in Nat /\ t.queue \in Seq(Write)
      /\ Len(t.queue) \in Nat
  BY <1>1 DEF Sound, Auth
<1>. HIDE DEF t
<1>3. Len(t.queue) <= Len(s.queue) /\ Spoke(t)
  BY <1>1, <1>2 DEF Spoke
<1>. QED  BY <1>1, <1>2, <1>3 DEF Handled, Wrote, t

(* handle_10_ *)
LEMMA Handle10Sound ==
  ASSUME NEW s, Sound(s), Spoke(s), s.active, NEW f \in ControlFrames, NEW refused \in BOOLEAN
  PROVE  Handled(s, Handle10(s, f, refused))
<1>0. s.queue \in Seq(Write) /\ Len(s.queue) \in Nat
  BY DEF Sound, Auth
<1>1. CASE f = "regOk"
  <2>1. Handle10(s, f, refused) = SendLogin(s, refused)
    BY <1>1 DEF Handle10
  <2>2. Wrote(s, SendLogin(s, refused), 2)
    BY StartSound
  <2>. QED  BY <2>1, <2>2, WroteIsHandled
<1>2. CASE f \in {"logOk", "repeat"}
  <2>1. Handle10(s, f, refused) = Succeed(s, refused)
    BY <1>2 DEF Handle10
  <2>2. Sound(Succeed(s, refused)) /\ Succeed(s, refused).queue = <<>> /\ Spoke(Succeed(s, refused))
    BY SucceedSound
  <2>. QED  BY <1>0, <2>1, <2>2 DEF Handled
<1>3. CASE f \in {"regFailed", "logFailed", "error"}
  <2>1. Handle10(s, f, refused) = Fail(s)
    BY <1>3 DEF Handle10
  <2>. QED  BY <2>1, FailIsHandled
<1>4. CASE f = "regVerified"
  <2>1. Handle10(s, f, refused) = s
    BY <1>4 DEF Handle10
  <2>. QED  BY <1>0, <2>1 DEF Handled
<1>. QED  BY <1>1, <1>2, <1>3, <1>4 DEF ControlFrames

(* Pieces of data are said. *)
LEMMA SayData ==
  ASSUME NEW s, Sound(s), Spoke(s), NEW n \in 1..4, NEW refused \in BOOLEAN
  PROVE  /\ Handled(s, Say(s, Data(n), refused)) /\ SameStep(s, Say(s, Data(n), refused))
         /\ Wrote(s, Say(s, Data(n), refused), n)
<1>1. /\ Wrote(s, Say(s, Data(n), refused), Len(Data(n)))
      /\ SameStep(s, Say(s, Data(n), refused)) /\ Len(Data(n)) = n
  BY DataFramesAre, SaySound
<1>2. n \in 0..4
  OBVIOUS
<1>. QED  BY <1>1, <1>2, WroteIsHandled

(* One frame more behind a queue. *)
LEMMA OneMore ==
  ASSUME NEW q \in Seq(Write), NEW d \in Seq(Write), Len(d) = 1
  PROVE  q \o d \in Seq(Write) /\ Len(q \o d) = Len(q) + 1
<1>1. q \o d \in Seq(Write) /\ Len(q \o d) = Len(q) + Len(d)
  BY ConcatProperties
<1>. QED  BY <1>1

(* The thermometer's key is complete. *)
LEMMA DeriveKeysSound ==
  ASSUME NEW s, Sound(s), Spoke(s), NEW refused \in BOOLEAN, NEW odd \in BOOLEAN
  PROVE  Handled(s, DeriveKeys(s, refused, odd))
<1>. DEFINE acked == Say(s, Data(1), refused)
<1>1. /\ Sound(acked) /\ Spoke(acked) /\ acked.queue \in Seq(Write)
      /\ Len(acked.queue) <= Len(s.queue) + 1
  <2>1. 1 \in 1..4
    OBVIOUS
  <2>2. Wrote(s, acked, 1)
    BY <2>1, SayData
  <2>. QED  BY <2>2 DEF Wrote
<1>2. Len(s.queue) \in Nat /\ Len(acked.queue) \in Nat /\ acked \in Auth
  BY <1>1 DEF Sound, Auth
<1>3. CASE odd
  <2>1. DeriveKeys(s, refused, odd) = Fail(acked)
    BY <1>3 DEF DeriveKeys
  <2>. HIDE DEF acked
  <2>2. Wrote(acked, Fail(acked), 0) /\ Handled(acked, Fail(acked))
    BY <1>1, FailIsHandled
  <2>3. Len(Fail(acked).queue) \in Nat
    BY <2>2 DEF Wrote
  <2>. QED  BY <1>1, <1>2, <2>1, <2>2, <2>3 DEF Handled, Wrote
<1>4. CASE ~odd
  <2>. DEFINE t == [acked EXCEPT !.queue = acked.queue \o Data(1)]
  <2>1. DeriveKeys(s, refused, odd) = t
    BY <1>4 DEF DeriveKeys
  <2>. HIDE DEF acked
  <2>2. /\ acked.queue \o Data(1) \in Seq(Write)
        /\ Len(acked.queue \o Data(1)) = Len(acked.queue) + 1
    <3>. DEFINE d == Data(1)
    <3>1. d \in Seq(Write) /\ Len(d) = 1
      BY DataFramesAre
    <3>. HIDE DEF d
    <3>2. acked.queue \o d \in Seq(Write) /\ Len(acked.queue \o d) = Len(acked.queue) + 1
      BY <1>1, <3>1, OneMore
    <3>. QED  BY <3>2 DEF d
  <2>3. /\ t \in Auth /\ SameStep(acked, t) /\ t.queue = acked.queue \o Data(1)
        /\ t.active = acked.active /\ t.calls = acked.calls /\ t.op = acked.op
        /\ t.link = acked.link /\ t.told = acked.told
    BY <1>2, <2>2 DEF Auth, SameStep
  <2>. HIDE DEF t
  <2>4. Sound(t) /\ Spoke(t)
    BY <1>1, <2>3 DEF Sound, Spoke, SameStep
  <2>. QED  BY <1>1, <1>2, <2>1, <2>2, <2>3, <2>4 DEF Handled
<1>. QED  BY <1>3, <1>4

(* A step of the exchange behind what was said, when the secret is accounted for. *)
LEMMA RestepIsHandled ==
  ASSUME NEW s, NEW u, Handled(s, u), NEW t \in Auth,
         t.active = u.active, t.calls = u.calls, t.op = u.op, t.link = u.link,
         t.told = u.told, t.queue = u.queue,
         t.registering => (t.step \in {2, 3} => t.shown),
         ~t.registering => (t.step # 0 => t.shown)
  PROVE  Handled(s, t)
BY DEF Handled, Sound, Spoke

(* handle_19_register_ *)
LEMMA RegisteringSound ==
  ASSUME NEW s, Sound(s), Spoke(s), s.registering, NEW f \in DataFrames,
         NEW refused \in BOOLEAN, NEW odd \in BOOLEAN
  PROVE  Handled(s, Registering(s, f, refused, odd))
<1>. DEFINE known == s.activated /\ s.step = 0
            t == Registering(s, f, refused, odd)
            u(n) == Say(s, Data(n), refused)
<1>1. ASSUME NEW n \in 1..4
      PROVE  /\ Handled(s, u(n)) /\ u(n) \in Auth
             /\ u(n).registering = s.registering /\ u(n).step = s.step /\ u(n).shown = s.shown
  BY SayData, ZenonT(30) DEF SameStep, Handled, Sound
<1>2. s.step \in {2, 3} => s.shown
  BY DEF Sound
<1>3. Handled(s, s)
  <2>1. s.queue \in Seq(Write) /\ Len(s.queue) \in Nat
    BY DEF Sound, Auth
  <2>. QED  BY <2>1 DEF Handled
<1>4. {1, 2, 4} \subseteq 1..4
  OBVIOUS
<1>. HIDE DEF u
<1>5. CASE f = "newId" \/ (f = "idAck" /\ ~known) \/ (f = "part2" /\ known)
  <2>. DEFINE v == u(1)
  <2>1. t = [v EXCEPT !.delayed = "register"]
    BY <1>5 DEF Registering, Later, u
  <2>2. /\ v \in Auth /\ v.registering = s.registering /\ v.step = s.step
        /\ v.shown = s.shown /\ Handled(s, v)
    BY <1>1, <1>4
  <2>. HIDE DEF t, v
  <2>3. /\ t \in Auth /\ t.registering = s.registering /\ t.step = s.step /\ t.shown = s.shown
        /\ t.active = v.active /\ t.calls = v.calls /\ t.op = v.op
        /\ t.link = v.link /\ t.told = v.told /\ t.queue = v.queue
    BY <2>1, <2>2 DEF Auth
  <2>. QED  BY <1>2, <2>2, <2>3, RestepIsHandled DEF t
<1>6. CASE f \in {"fresh", "activated"}
  <2>. DEFINE v == u(1)
  <2>1. t = [v EXCEPT !.activated = (f = "activated")]
    BY <1>6 DEF Registering, u
  <2>2. /\ v \in Auth /\ v.registering = s.registering /\ v.step = s.step
        /\ v.shown = s.shown /\ Handled(s, v)
    BY <1>1, <1>4
  <2>. HIDE DEF t, v
  <2>3. /\ t \in Auth /\ t.registering = s.registering /\ t.step = s.step /\ t.shown = s.shown
        /\ t.active = v.active /\ t.calls = v.calls /\ t.op = v.op
        /\ t.link = v.link /\ t.told = v.told /\ t.queue = v.queue
    BY <2>1, <2>2 DEF Auth
  <2>. QED  BY <1>2, <2>2, <2>3, RestepIsHandled DEF t
<1>7. CASE f = "keyAsk"
  <2>1. t = u(1)
    BY <1>7 DEF Registering, u
  <2>. QED  BY <1>1, <1>4, <2>1
<1>8. CASE f = "go" /\ s.step = 1
  <2>. DEFINE v == u(4)
  <2>1. t = [v EXCEPT !.step = 2, !.shown = TRUE]
    BY <1>8 DEF Registering, u
  <2>2. v \in Auth /\ Handled(s, v) /\ 2 \in Step
    BY <1>1, <1>4 DEF Step
  <2>. HIDE DEF t, v
  <2>3. /\ t \in Auth /\ t.shown = TRUE
        /\ t.active = v.active /\ t.calls = v.calls /\ t.op = v.op
        /\ t.link = v.link /\ t.told = v.told /\ t.queue = v.queue
    BY <2>1, <2>2 DEF Auth
  <2>. QED  BY <2>2, <2>3, RestepIsHandled DEF t
<1>9. CASE f = "part4" /\ s.step = 2
  <2>1. t = DeriveKeys(s, refused, odd)
    BY <1>9 DEF Registering
  <2>. QED  BY <2>1, DeriveKeysSound
<1>10. CASE f = "go" /\ s.step = 2
  <2>. DEFINE m == IF odd THEN 1 ELSE 2
  <2>. DEFINE v == u(m)
  <2>1. t = [v EXCEPT !.step = 3]
    BY <1>10 DEF Registering, u
  <2>2. m \in 1..4
    OBVIOUS
  <2>. HIDE DEF m
  <2>3. v \in Auth /\ Handled(s, v) /\ 3 \in Step /\ v.shown = s.shown
    BY <1>1, <2>2 DEF Step
  <2>. HIDE DEF t, v
  <2>4. /\ t \in Auth /\ t.shown = v.shown
        /\ t.active = v.active /\ t.calls = v.calls /\ t.op = v.op
        /\ t.link = v.link /\ t.told = v.told /\ t.queue = v.queue
    BY <2>1, <2>3 DEF Auth
  <2>. QED  BY <1>2, <1>10, <2>3, <2>4, RestepIsHandled DEF t
<1>11. CASE f = "done" /\ s.step = 3
  <2>. DEFINE v == Say(s, <<"verify">>, refused)
  <2>1. t = [v EXCEPT !.step = 0]
    BY <1>11 DEF Registering
  <2>2. Handled(s, v) /\ SameStep(s, v)
    <3>1. <<"verify">> \in Seq(Write) /\ <<"verify">> # <<>> /\ Len(<<"verify">>) = 1
      BY DEF Write, Control
    <3>2. Wrote(s, v, 1) /\ SameStep(s, v)
      BY <3>1, SaySound
    <3>3. 1 \in 0..4
      OBVIOUS
    <3>. QED  BY <3>2, <3>3, WroteIsHandled
  <2>3. v \in Auth /\ v.registering /\ 0 \in Step
    <3>1. v \in Auth
      BY <2>2 DEF Handled, Sound
    <3>2. v.registering
      BY <2>2 DEF SameStep
    <3>. QED  BY <3>1, <3>2 DEF Step
  <2>. HIDE DEF t, v
  <2>4. /\ t \in Auth /\ t.step = 0 /\ t.registering = v.registering
        /\ t.active = v.active /\ t.calls = v.calls /\ t.op = v.op
        /\ t.link = v.link /\ t.told = v.told /\ t.queue = v.queue
    BY <2>1, <2>3 DEF Auth
  <2>. QED  BY <2>2, <2>3, <2>4, RestepIsHandled DEF t
<1>12. CASE f = "failed"
  <2>1. t = Fail(s)
    BY <1>12 DEF Registering
  <2>. QED  BY <2>1, FailIsHandled
<1>13. CASE /\ f \notin {"newId", "fresh", "activated", "keyAsk", "failed"}
            /\ ~(f = "idAck" /\ ~known) /\ ~(f = "part2" /\ known)
            /\ ~(f = "go" /\ s.step = 1) /\ ~(f = "part4" /\ s.step = 2)
            /\ ~(f = "go" /\ s.step = 2) /\ ~(f = "done" /\ s.step = 3)
  <2>. HIDE DEF known
  <2>1. t = s
    BY <1>13 DEF Registering, known
  <2>. QED  BY <1>3, <2>1
<1>. QED  BY <1>5, <1>6, <1>7, <1>8, <1>9, <1>10, <1>11, <1>12, <1>13

(* handle_19_login_ *)
LEMMA LoggingInSound ==
  ASSUME NEW s, Sound(s), Spoke(s), ~s.registering, NEW f \in DataFrames,
         NEW refused \in BOOLEAN, NEW odd \in BOOLEAN
  PROVE  Handled(s, LoggingIn(s, f, refused, odd))
<1>. DEFINE moves == {m \in LoginMove : m[1] = s.step /\ m[2] = f}
            move  == CHOOSE m \in moves : TRUE
            next  == IF f = "infoShort" /\ odd THEN 0 ELSE move[3]
            moved == [s EXCEPT !.step = next, !.shown = s.shown \/ s.step = 0]
            t == LoggingIn(s, f, refused, odd)
<1>0. s \in Auth /\ s.queue \in Seq(Write) /\ Len(s.queue) \in Nat
  BY DEF Sound, Auth
<1>1. CASE moves = {}
  <2>1. t = s
    BY <1>1 DEF LoggingIn
  <2>. QED  BY <1>0, <2>1 DEF Handled
<1>2. CASE moves # {}
  <2>1. move \in LoginMove
    BY <1>2
  <2>2. \A m \in LoginMove : m[3] \in Step /\ m[4] \in 0..2
    BY DEF LoginMove, Step
  <2>3. next \in Step /\ move[4] \in 0..2
    <3>1. 0 \in Step
      BY DEF Step
    <3>. QED  BY <2>1, <2>2, <3>1
  <2>4. t = IF move[4] = 0 THEN moved ELSE Say(moved, Data(move[4]), refused)
    BY <1>2 DEF LoggingIn
  <2>. HIDE DEF next, move, t
  <2>5. s.shown \/ s.step = 0
    BY DEF Sound
  <2>6. moved = [s EXCEPT !.step = next, !.shown = TRUE]
    BY <2>5
  <2>7. /\ moved \in Auth /\ moved.shown = TRUE
        /\ moved.active = s.active /\ moved.calls = s.calls /\ moved.op = s.op
        /\ moved.link = s.link /\ moved.told = s.told /\ moved.queue = s.queue
    BY <1>0, <2>3, <2>6 DEF Auth
  <2>. HIDE DEF moved
  <2>8. Sound(moved) /\ Spoke(moved)
    BY <2>7 DEF Sound, Spoke
  <2>9. CASE move[4] = 0
    BY <1>0, <2>4, <2>7, <2>8, <2>9 DEF Handled, t
  <2>10. CASE move[4] # 0
    <3>1. move[4] \in 1..4
      BY <2>3, <2>10
    <3>2. Handled(moved, Say(moved, Data(move[4]), refused))
      BY <2>8, <3>1, SayData
    <3>. QED  BY <2>4, <2>7, <2>10, <3>2 DEF Handled, t
  <2>. QED  BY <2>9, <2>10
<1>. QED  BY <1>1, <1>2

(* handle_19_ *)
LEMMA Handle19Sound ==
  ASSUME NEW s, Sound(s), Spoke(s), NEW f \in DataFrames,
         NEW refused \in BOOLEAN, NEW odd \in BOOLEAN
  PROVE  Handled(s, Handle19(s, f, refused, odd))
<1>. DEFINE t == Handle19(s, f, refused, odd)
            u == Say(s, Data(1), refused)
<1>1. Handled(s, u) /\ SameStep(s, u)
  <2>1. 1 \in 1..4
    OBVIOUS
  <2>. QED  BY <2>1, SayData
<1>2. CASE f = "ack"
  <2>1. t = u
    BY <1>2 DEF Handle19
  <2>. QED  BY <1>1, <2>1
<1>3. CASE f = "ackLogin"
  <2>1. t = [u EXCEPT !.delayed = "login"]
    BY <1>3 DEF Handle19, Later
  <2>2. u \in Auth /\ Sound(u)
    BY <1>1 DEF Handled, Sound
  <2>. HIDE DEF t, u
  <2>3. /\ t \in Auth /\ t.registering = u.registering /\ t.step = u.step /\ t.shown = u.shown
        /\ t.active = u.active /\ t.calls = u.calls /\ t.op = u.op
        /\ t.link = u.link /\ t.told = u.told /\ t.queue = u.queue
    BY <2>1, <2>2 DEF Auth
  <2>. QED  BY <1>1, <2>2, <2>3, RestepIsHandled DEF Sound, t
<1>4. CASE f \notin {"ack", "ackLogin"} /\ s.registering
  <2>1. t = Registering(s, f, refused, odd)
    BY <1>4 DEF Handle19
  <2>. QED  BY <1>4, <2>1, RegisteringSound
<1>5. CASE f \notin {"ack", "ackLogin"} /\ ~s.registering
  <2>1. t = LoggingIn(s, f, refused, odd)
    BY <1>5 DEF Handle19
  <2>. QED  BY <1>5, <2>1, LoggingInSound
<1>. QED  BY <1>2, <1>3, <1>4, <1>5

----------------------------------------------------------------------------
(* The steps *)

(* Nothing happened yet. *)
LEMMA InitIInv == Init => IInv
<1>1. SUFFICES ASSUME Init PROVE IInv
  OBVIOUS
<1>2. /\ auth.active = FALSE /\ auth.step = 0 /\ auth.calls = 0 /\ auth.op = "none"
      /\ auth.queue = <<>> /\ auth.delayed = "none" /\ auth.registering = TRUE
  BY <1>1 DEF Init
<1>3. auth \in Auth
  BY <1>1 DEF Init, Auth, Step, Control
<1>4. Len(auth.queue) = 0
  BY <1>2
<1>. QED  BY <1>2, <1>3, <1>4, AuthAssumption DEF IInv, Sound, Spoke, Room

(* begin opens with the command of the attempt, or fails; then nothing is in flight. *)
LEMMA BeginSound ==
  ASSUME IInv, Begin
  PROVE  IInv' /\ (auth'.calls = 1 => auth'.op # "auth")
<1>1. PICK job \in {"activate", "flash"}, login \in BOOLEAN, refused \in BOOLEAN, odd \in BOOLEAN :
        LET s == [auth EXCEPT !.active = TRUE, !.job = job, !.step = 0, !.activated = FALSE,
                              !.delayed = "none", !.busy = FALSE, !.queue = <<>>, !.link = "up",
                              !.calls = 0, !.told = "none", !.shown = FALSE,
                              !.registering = auth.registering \/ ~login]
        IN  auth' = IF odd THEN Fail(s)
                    ELSE IF login THEN SendLogin(s, refused) ELSE Say(s, <<"hello">>, refused)
  BY DEF Begin
<1>. DEFINE reg == auth.registering \/ ~login
            s == [auth EXCEPT !.active = TRUE, !.job = job, !.step = 0, !.activated = FALSE,
                              !.delayed = "none", !.busy = FALSE, !.queue = <<>>, !.link = "up",
                              !.calls = 0, !.told = "none", !.shown = FALSE,
                              !.registering = reg]
<1>2. auth' = IF odd THEN Fail(s)
              ELSE IF login THEN SendLogin(s, refused) ELSE Say(s, <<"hello">>, refused)
  BY <1>1
<1>3. auth \in Auth /\ auth.op = "none" /\ reg \in BOOLEAN
  BY DEF IInv, Sound, Begin
<1>. HIDE DEF reg
<1>4. 0 \in Step /\ <<>> \in Seq(Write) /\ 0 \in Nat
  BY DEF Step
<1>5. /\ s \in Auth /\ s.active /\ s.step = 0 /\ s.queue = <<>> /\ s.delayed = "none"
      /\ s.busy = FALSE /\ s.link = "up" /\ s.calls = 0 /\ s.op = "none"
  BY <1>3, <1>4, ZenonT(30) DEF Auth
<1>. HIDE DEF s
<1>6. Sound(s) /\ Len(s.queue) = 0
  BY <1>5 DEF Sound
<1>7. ASSUME NEW t, Sound(t), Spoke(t), t.delayed = "none", Len(t.queue) <= 2,
             Len(t.queue) \in Nat, t.op = "auth" => t.active, auth' = t
      PROVE  IInv' /\ (auth'.calls = 1 => auth'.op # "auth")
  <2>1. Len(t.queue) <= MaxQueue + 5
    BY <1>7, AuthAssumption
  <2>2. t.calls = 1 => t.op # "auth"
    BY <1>7 DEF Sound
  <2>. QED  BY <1>7, <2>1, <2>2 DEF IInv, Room
<1>8. CASE odd
  <2>. DEFINE t == Fail(s)
  <2>1. /\ Sound(t) /\ SameStep(s, t) /\ ~t.active /\ t.queue = <<>> /\ t.op = "none"
    BY <1>5, <1>6, FailSound
  <2>2. auth' = t
    BY <1>2, <1>8
  <2>. HIDE DEF t
  <2>3. Len(t.queue) = 0 /\ t.delayed = "none" /\ Spoke(t)
    BY <1>5, <2>1 DEF SameStep, Spoke
  <2>. QED  BY <1>7, <2>1, <2>2, <2>3
<1>9. CASE ~odd /\ login
  <2>. DEFINE t == SendLogin(s, refused)
  <2>1. Wrote(s, t, 2) /\ t.delayed = "none" /\ Spoke(t)
    BY <1>5, <1>6, StartSound
  <2>2. auth' = t
    BY <1>2, <1>9
  <2>. HIDE DEF t
  <2>3. Len(t.queue) <= 2 /\ Len(t.queue) \in Nat /\ Sound(t) /\ (t.op = "auth" => t.active)
    BY <1>5, <1>6, <2>1 DEF Wrote
  <2>. QED  BY <1>7, <2>1, <2>2, <2>3
<1>10. CASE ~odd /\ ~login
  <2>. DEFINE t == Say(s, <<"hello">>, refused)
  <2>1. /\ <<"hello">> \in Seq(Write) /\ <<"hello">> # <<>> /\ Len(<<"hello">>) = 1
        /\ Head(<<"hello">>) \in Control
    BY DEF Write, Control
  <2>2. Wrote(s, t, 1) /\ SameStep(s, t) /\ Spoke(t)
    BY <1>5, <1>6, <2>1, SaySound
  <2>3. auth' = t
    BY <1>2, <1>10
  <2>. HIDE DEF t
  <2>4. /\ Len(t.queue) <= 2 /\ Len(t.queue) \in Nat /\ Sound(t) /\ (t.op = "auth" => t.active)
        /\ t.delayed = "none"
    BY <1>5, <1>6, <2>2 DEF Wrote, SameStep
  <2>. QED  BY <1>7, <2>2, <2>3, <2>4
<1>. QED  BY <1>8, <1>9, <1>10

(* A step within the attempt, or behind it, when what it leaves is sound. *)
LEMMA NextIInv ==
  ASSUME IInv, Next
  PROVE  IInv' /\ (auth.calls = 1 /\ auth'.calls = 1 /\ auth'.op = "auth" => auth.op = "auth")
<1>0. /\ Sound(auth) /\ Spoke(auth) /\ Room(auth) /\ auth \in Auth
      /\ auth.queue \in Seq(Write) /\ Len(auth.queue) \in Nat /\ MaxQueue \in Nat
      /\ auth.calls = 1 => ~auth.active
  BY AuthAssumption DEF IInv, Sound, Auth
<1>1. CASE Begin
  BY <1>1, BeginSound
<1>2. CASE Notify
  <2>1. auth.active /\ Len(auth.queue) < MaxQueue
    BY <1>2 DEF Notify
  <2>2. Handled(auth, auth')
    <3>1. PICK refused \in BOOLEAN, odd \in BOOLEAN :
            \/ \E f \in ControlFrames : auth' = Handle10(auth, f, refused)
            \/ \E f \in DataFrames : auth' = Handle19(auth, f, refused, odd)
      BY <1>2 DEF Notify
    <3>. QED  BY <1>0, <2>1, <3>1, Handle10Sound, Handle19Sound
  <2>3. Len(auth'.queue) <= MaxQueue + 3 /\ Len(auth'.queue) \in Nat
    BY <1>0, <2>1, <2>2 DEF Handled
  <2>. QED  BY <1>0, <2>1, <2>2, <2>3 DEF Handled, IInv, Room
<1>3. CASE WriteDone
  <2>. DEFINE s == [auth EXCEPT !.op = "none", !.busy = FALSE]
  <2>1. PICK refused \in BOOLEAN : auth' = Pump(s, refused)
    BY <1>3 DEF WriteDone
  <2>2. /\ s \in Auth /\ SameStep(auth, s) /\ s.active = auth.active /\ s.calls = auth.calls
        /\ s.op = "none" /\ s.link = auth.link /\ s.told = auth.told /\ s.queue = auth.queue
    BY <1>0 DEF Auth, SameStep
  <2>. HIDE DEF s
  <2>3. Sound(s)
    BY <1>0, <2>2 DEF Sound, SameStep
  <2>4. /\ Sound(auth') /\ SameStep(s, auth') /\ Len(auth'.queue) <= Len(s.queue)
        /\ auth'.active => s.active
        /\ auth'.op = "auth" => s.op = "auth" \/ auth'.active
        /\ auth'.told = s.told \/ auth'.told # "none"
    BY <2>1, <2>3, PumpSound
  <2>5. Len(auth'.queue) \in Nat
    BY <2>4 DEF Sound, Auth
  <2>6. Spoke(auth') /\ Room(auth')
    BY <1>0, <2>2, <2>4, <2>5 DEF Spoke, Room, SameStep
  <2>. QED  BY <1>3, <2>4, <2>6 DEF IInv, WriteDone
<1>4. ASSUME NEW s \in Auth, SameStep(auth, s), s.active = auth.active, s.calls = auth.calls,
             s.told = auth.told, s.queue = auth.queue, s.op \in {auth.op, "none"},
             s.op # "none" => s.link = auth.link
      PROVE  /\ Sound(s) /\ Spoke(s) /\ Room(s)
             /\ Sound(Fail(s)) /\ Spoke(Fail(s)) /\ Room(Fail(s))
             /\ ~auth.active => Fail(s) = s
  <2>1. Sound(s) /\ Spoke(s) /\ Room(s)
    BY <1>0, <1>4 DEF Sound, Spoke, Room, SameStep
  <2>. DEFINE t == Fail(s)
  <2>2. /\ Sound(t) /\ SameStep(s, t) /\ ~t.active
        /\ s.active => t.queue = <<>> /\ t.op = "none"
        /\ ~s.active => t = s
    BY <2>1, FailSound
  <2>. HIDE DEF t
  <2>3. CASE s.active
    <3>1. Len(t.queue) = 0
      BY <2>2, <2>3
    <3>. QED  BY <1>0, <1>4, <2>1, <2>2, <2>3, <3>1 DEF Spoke, Room, t
  <2>4. CASE ~s.active
    BY <1>4, <2>1, <2>2, <2>4 DEF t
  <2>. QED  BY <2>3, <2>4
<1>5. CASE WriteFails
  <2>. DEFINE s == [auth EXCEPT !.op = "none", !.busy = FALSE]
  <2>1. auth' = Fail(s) /\ auth.op = "auth"
    BY <1>5 DEF WriteFails
  <2>2. /\ s \in Auth /\ SameStep(auth, s) /\ s.active = auth.active /\ s.calls = auth.calls
        /\ s.op = "none" /\ s.link = auth.link /\ s.told = auth.told /\ s.queue = auth.queue
    BY <1>0 DEF Auth, SameStep
  <2>. HIDE DEF s
  <2>. QED  BY <1>4, <2>1, <2>2 DEF IInv
<1>6. CASE DelayOver
  <2>. DEFINE s == [auth EXCEPT !.delayed = "none"]
  <2>1. PICK refused \in BOOLEAN : auth' \in {StartRegister(s, refused), SendLogin(s, refused)}
    BY <1>6 DEF DelayOver
  <2>2. /\ s \in Auth /\ s.step = auth.step /\ s.registering = auth.registering
        /\ s.shown = auth.shown /\ s.delayed = "none"
        /\ s.active = auth.active /\ s.calls = auth.calls
        /\ s.op = auth.op /\ s.link = auth.link /\ s.told = auth.told /\ s.queue = auth.queue
    BY <1>0 DEF Auth
  <2>. HIDE DEF s
  <2>3. Sound(s) /\ Spoke(s)
    BY <1>0, <2>2 DEF Sound, Spoke
  <2>4. Wrote(s, auth', 2) /\ auth'.delayed = "none"
    BY <2>1, <2>2, <2>3, StartSound
  <2>5. auth.delayed # "none" /\ auth.active
    BY <1>6 DEF DelayOver
  <2>6. Len(auth'.queue) \in Nat /\ Len(auth'.queue) <= MaxQueue + 5
    BY <1>0, <2>2, <2>4, <2>5 DEF Wrote, Room
  <2>. QED  BY <1>0, <2>3, <2>4, <2>5, <2>6 DEF Wrote, Room, IInv
<1>7. CASE GiveUp
  <2>1. SameStep(auth, auth)
    BY DEF SameStep
  <2>. QED  BY <1>0, <1>4, <1>7, <2>1 DEF GiveUp, IInv
<1>8. CASE SpeedDone
  <2>1. /\ auth' \in Auth /\ SameStep(auth, auth') /\ auth'.active = auth.active
        /\ auth'.calls = auth.calls /\ auth'.told = auth.told /\ auth'.queue = auth.queue
        /\ auth'.op = "none"
    BY <1>0, <1>8 DEF SpeedDone, Auth, SameStep
  <2>. QED  BY <1>4, <2>1 DEF IInv
<1>9. CASE LinkLost
  <2>. DEFINE s == [auth EXCEPT !.link = "gone", !.op = "none", !.busy = FALSE]
  <2>1. auth' = Fail(s) \/ auth' = s
    BY <1>9 DEF LinkLost
  <2>2. /\ s \in Auth /\ SameStep(auth, s) /\ s.active = auth.active /\ s.calls = auth.calls
        /\ s.op = "none" /\ s.told = auth.told /\ s.queue = auth.queue
    BY <1>0 DEF Auth, SameStep
  <2>. HIDE DEF s
  <2>. QED  BY <1>0, <1>4, <2>1, <2>2 DEF IInv
<1>10. CASE LinkClosed
  <2>. DEFINE u == Fail(auth)
  <2>1. auth' = [u EXCEPT !.link = "down"] /\ auth.link = "gone"
    BY <1>10 DEF LinkClosed
  <2>2. /\ Sound(u) /\ Spoke(u) /\ Room(u) /\ (~auth.active => u = auth)
    <3>1. SameStep(auth, auth)
      BY DEF SameStep
    <3>. QED  BY <1>0, <1>4, <3>1
  <2>3. u \in Auth /\ u.op = "none"
    <3>1. auth.op = "none"
      BY <1>0, <2>1 DEF Sound
    <3>. QED  BY <1>0, <2>2, <3>1, FailSound DEF Sound
  <2>. HIDE DEF u
  <2>4. /\ auth' \in Auth /\ SameStep(u, auth') /\ auth'.active = u.active
        /\ auth'.calls = u.calls /\ auth'.op = u.op /\ auth'.told = u.told
        /\ auth'.queue = u.queue
    BY <2>1, <2>3 DEF Auth, SameStep
  <2>. QED  BY <2>2, <2>3, <2>4 DEF IInv, Sound, Spoke, Room, SameStep
<1>. QED  BY <1>1, <1>2, <1>3, <1>5, <1>6, <1>7, <1>8, <1>9, <1>10 DEF Next, Hub, Link

(* The invariant holds throughout. *)
THEOREM Inductive == Spec => []IInv
<1>1. IInv /\ [Next]_vars => IInv'
  <2>1. IInv /\ UNCHANGED vars => IInv'
    BY DEF vars, IInv, Sound, Spoke, Room
  <2>. QED  BY <2>1, NextIInv
<1>. QED  BY InitIInv, <1>1, PTL DEF Spec

----------------------------------------------------------------------------
(* What the attempt promises *)

(* Every member keeps to its type and the queue to its room, however many frames
   the thermometer may send. *)
THEOREM TypeCorrect == Spec => []TypeOK
<1>1. IInv => TypeOK
  BY DEF IInv, Sound, Room, TypeOK
<1>. QED  BY <1>1, Inductive, PTL

(* done_ is called once per attempt at the most (finish_). *)
THEOREM OneVerdictOnly == Spec => []OneVerdict
<1>1. IInv => OneVerdict
  BY DEF IInv, Sound, OneVerdict
<1>. QED  BY <1>1, Inductive, PTL

(* An attempt opens with its own command, and a step that uses the secret is reached
   only when the one at hand was sent (begin, start_register_, send_login_). *)
THEOREM AttemptStandsAlone == Spec => []AttemptIsItsOwn
<1>1. IInv => AttemptIsItsOwn
  <2>1. SUFFICES ASSUME IInv PROVE StartsClean /\ SecretIsShown
    BY DEF AttemptIsItsOwn
  <2>2. StartsClean
    BY <2>1 DEF IInv, Spoke, StartsClean
  <2>3. SecretIsShown
    BY <2>1 DEF IInv, Sound, SecretIsShown
  <2>. QED  BY <2>2, <2>3
<1>. QED  BY <1>1, Inductive, PTL

(* Behind the verdict nothing more is written for the attempt, whoever ended it. *)
THEOREM SilentWhenOver == Spec => SilentAfterVerdict
<1>1. IInv /\ [Next]_vars =>
        [auth.calls = 1 /\ auth'.calls = 1 /\ auth'.op = "auth" => auth.op = "auth"]_vars
  BY NextIInv
<1>. QED  BY <1>1, Inductive, PTL DEF Spec, SilentAfterVerdict
=============================================================================
