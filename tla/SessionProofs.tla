---------------------------- MODULE SessionProofs ----------------------------
(***************************************************************************)
(* Proofs about Session for every set of devices and versions and any      *)
(* limits of attempts, jobs and requests.                                  *)
(*                                                                         *)
(* A handler is an operator on the state of the hub, so that most lemmas   *)
(* are about one: from a state that satisfies the invariant it leads to    *)
(* one that does.  What calls a handler in the middle of another finds a   *)
(* state that satisfies less: Runs says what is left of it.                *)
(***************************************************************************)
EXTENDS Session, FiniteSetTheorems, SequenceTheorems, TLAPS

----------------------------------------------------------------------------
(* The inductive invariant *)

(* The jobs that make a device take an image, or prepare it for one. *)
Flash(s)  == s.job.type = "FLASH"
Taking(s) == s.job.type \in {"FLASH", "ACTIVATE"}

(* Nothing is pending that would run the session on. *)
Quiet(s) == ~s.stock /\ s.later = {} /\ s.cmd = "none" /\ ~s.leaving

(* A device with stock firmware that passed the gate of step_prepare_ota_. *)
Gated(s) ==
  LET k == s.known[s.dev]
  IN  s.chars = "stock" /\ k.kind = "stock" /\ k.hw /\ k.dis # None /\ s.target \notin Ext

(* Outside of a session the hub has let go of everything; in one it is about its job. *)
AtRest(s) ==
  ~Active(s) => /\ s.dev = None /\ s.op = "none" /\ ~s.auth /\ s.ota # "on"
                /\ s.client \in {"IDLE", "DISCONNECTING"}
AtWork(s) ==
  Active(s) => s.job \in Job /\ s.dev = s.job.dev /\ (Flash(s) => s.target = s.job.fw)

(* What is in flight needs the connection, and a session that leaves has none. *)
Wired(s) ==
  /\ s.op # "none" => Linked(s)
  /\ s.client \in {"DISCOVERED", "CONNECTING", "ESTABLISHED"} => ~s.leaving
  /\ s.state \in {"CONNECTING", "RECONNECTING"} => ~Linked(s) /\ s.cmd = "none"
  /\ s.client \in {"DISCOVERED", "CONNECTING"} => s.cmd = "none"

(* Connect attempts: a retry has one left. *)
Counted(s) ==
  /\ s.retry => s.tries < MaxConnects /\ 1 < MaxConnects
  /\ s.state = "CONNECTING" => s.tries >= 1

(* Over a connection such a job knows the firmware it talks to, and with stock firmware
   it only waits for what identifies it. *)
Dialing(s) ==
  Active(s) /\ Taking(s) /\ s.client \in {"DISCOVERED", "CONNECTING"} /\ s.ota = "off"
    => s.state \in {"CONNECTING", "RECONNECTING"}
Taken(s) ==
  Active(s) /\ Taking(s) /\ Linked(s) =>
    /\ s.chars \in {"custom", "stock"} /\ s.chars = s.known[s.dev].kind
    /\ s.chars = "stock" => /\ s.cmd = "none" /\ s.later \subseteq {"identify"}
                            /\ s.op \notin {"env", "subCustom", "write", "raw"}

(* Between the gate and the OTA of a device with stock firmware nothing else happens. *)
Activating(s) ==
  Active(s) =>
    /\ s.auth => /\ Taking(s) /\ s.state = "ACTIVATING" /\ s.op = "none" /\ Quiet(s)
                 /\ s.client \in {"ESTABLISHED", "DISCONNECTING"}
    /\ s.op = "subAuth" => Taking(s) /\ s.state = "ACTIVATING" /\ Quiet(s) /\ ~s.auth
    /\ s.op = "speed" => Flash(s) /\ s.state = "READY"
    /\ Flash(s) /\ s.state \in {"ACTIVATING", "READY"} =>
         Gated(s) /\ Quiet(s) /\ s.op \in {"none", "subAuth", "speed"}

(* A flash job that prepares the extended region talks to identified custom firmware. *)
Commanded(s) ==
  Active(s) =>
    LET k == s.known[s.dev]
    IN  /\ Flash(s) => s.cmd \in {"none", "cfg", "ext", "ext2"}
        /\ s.cmd \in {"ext", "ext2"} => Flash(s) /\ k.kind = "custom" /\ k.hw /\ k.cfg # None

(* An OTA goes to identified custom firmware, or to a device that passed the gate and of
   which nothing is in flight that could spoil it. *)
Flashing(s) ==
  Active(s) /\ s.ota = "on" =>
    LET k == s.known[s.dev]
    IN  /\ Flash(s) /\ s.client \in {"ESTABLISHED", "DISCONNECTING"} /\ ~s.leaving
        /\ \/ /\ s.chars = "custom" /\ k.kind = "custom" /\ k.hw /\ k.cfg # None
              /\ s.target \in Ext => s.erased
              /\ s.state \in {"WRITING", "ERASING"}
           \/ Gated(s) /\ Quiet(s) /\ s.op = "none" /\ ~s.auth /\ s.state = "WRITING"

(* What the registry says of a device, where it says anything, is the version v. *)
Reports(k, v) ==
  IF k.kind = "custom"
  THEN IF k.cfg # None THEN k.cfg = v ELSE IF k.fw # None THEN k.fw = v ELSE k.dis \in {None, v}
  ELSE k.fw \in {None, v} /\ k.dis \in {None, v}

(* A flash job that takes its leave, or has, is verified. *)
Verified(s) ==
  /\ Active(s) /\ Flash(s) /\ s.leaving => Reports(s.known[s.dev], s.target)
  /\ s.state = "SUCCESS" /\ Flash(s) => Reports(s.known[s.job.dev], s.target)

(* The invariant of the state of the hub, part by part. *)
Inv(s) ==
  /\ s \in Hub /\ AtRest(s) /\ AtWork(s) /\ Wired(s) /\ Counted(s) /\ Dialing(s) /\ Taken(s)
  /\ Activating(s) /\ Commanded(s) /\ Flashing(s) /\ Verified(s)

(* The inductive invariant. *)
IInv == Inv(hub) /\ installed \in [Device -> Version] /\ requests \in 0..MaxRequests

(* Nothing relies on the session being quiet. *)
Loose(s) ==
  Active(s) => /\ ~s.auth /\ s.op \notin {"subAuth", "speed"}
               /\ ~(Flash(s) /\ s.state \in {"ACTIVATING", "READY"})
               /\ s.ota = "on" => s.chars = "custom"

(* What holds of a session whatever the state it is in, when nothing relies on its
   being quiet. *)
Runs(s) ==
  LET k == s.known[s.dev]
  IN  /\ s \in Hub /\ Active(s) /\ AtWork(s)
      /\ s.retry => s.tries < MaxConnects /\ 1 < MaxConnects
      /\ s.op # "none" => Linked(s)
      /\ s.client \in {"DISCOVERED", "CONNECTING", "ESTABLISHED"} => ~s.leaving
      /\ s.client \in {"DISCOVERED", "CONNECTING"} => s.cmd = "none"
      /\ ~s.auth /\ s.op \notin {"subAuth", "speed"}
      /\ Taken(s) /\ Commanded(s)
      /\ s.ota = "on" => /\ Flash(s) /\ s.client \in {"ESTABLISHED", "DISCONNECTING"} /\ ~s.leaving
                         /\ s.chars = "custom" /\ k.kind = "custom" /\ k.hw /\ k.cfg # None
                         /\ s.target \in Ext => s.erased
      /\ Flash(s) /\ s.leaving => Reports(k, s.target)

(* A state in which nothing relies on the session being quiet. *)
Placed(s) ==
  /\ s.state \notin {"CONNECTING", "RECONNECTING"}
  /\ s.ota = "on" => s.state \in {"WRITING", "ERASING"}
  /\ Flash(s) => s.state \notin {"ACTIVATING", "READY"}

----------------------------------------------------------------------------
(* What the handlers return *)

(* The states by name. *)
LEMMA Names ==
  /\ "SUCCESS" \in State /\ "ERROR" \in State /\ "CONNECTING" \in State /\ "CONNECTED" \in State
  /\ "IDENTIFYING" \in State /\ "VERIFYING" \in State /\ "ACTIVATING" \in State
  /\ "READY" \in State /\ "ERASING" \in State /\ "WRITING" \in State /\ "REBOOTING" \in State
  /\ "RECONNECTING" \in State
BY DEF State, Rest

(* No command and no operation. *)
LEMMA Nothing == "none" \in Cmd /\ "none" \in Op
BY DEF Cmd, Op

(* Hangup closes the connection, and a transfer goes on without one. *)
LEMMA Hung ==
  ASSUME NEW s \in Hub
  PROVE  /\ Hangup(s) \in Hub
         /\ Closed(s.client) \in {"IDLE", "DISCONNECTING"} /\ Cut(s.ota) \in {"off", "cut"}
         /\ Hangup(s).client = Closed(s.client) /\ Hangup(s).ota = Cut(s.ota)
<1>1. Closed(s.client) \in {"IDLE", "DISCONNECTING"} /\ Cut(s.ota) \in {"off", "cut"}
  BY DEF Closed, Cut
<1>2. QED  BY <1>1, ZenonT(30) DEF Hangup, Hub

(* OTA, authentication and command are given up. *)
LEMMA GivenUp ==
  ASSUME NEW s \in Hub, NEW u, u = [s EXCEPT !.ota = "off", !.auth = FALSE, !.cmd = "none"]
  PROVE  /\ u \in Hub /\ ~u.auth /\ u.ota = "off" /\ u.cmd = "none"
         /\ u.state = s.state /\ u.dev = s.dev /\ u.client = s.client /\ u.op = s.op
         /\ u.retry = s.retry /\ u.tries = s.tries
<1>1. u \in Hub
  BY Nothing, ZenonT(30) DEF Hub
<1>2. QED  BY <1>1 DEF Hub

(* FailIdle lets go of the device and of everything in flight. *)
LEMMA LetGo ==
  ASSUME NEW s \in Hub
  PROVE  /\ FailIdle(s) \in Hub /\ FailIdle(s).state = "ERROR" /\ FailIdle(s).dev = None
         /\ ~FailIdle(s).auth /\ FailIdle(s).ota = "off" /\ FailIdle(s).cmd = "none"
         /\ FailIdle(s).client = Closed(s.client) /\ FailIdle(s).op = s.op
         /\ FailIdle(s).retry = s.retry /\ FailIdle(s).tries = s.tries
<1> DEFINE t == Hangup(s)
           u == [t EXCEPT !.state = "ERROR", !.dev = None, !.deadline = FALSE]
           v == [u EXCEPT !.ota = "off", !.auth = FALSE, !.cmd = "none"]
<1>1. /\ t \in Hub /\ t.client = Closed(s.client) /\ t.op = s.op /\ t.retry = s.retry
      /\ t.tries = s.tries
  BY Hung, ZenonT(30) DEF Hangup, Hub
<1> HIDE DEF t
<1>2. /\ u.state = "ERROR" /\ u.dev = None /\ u.client = t.client
      /\ u.op = t.op /\ u.retry = t.retry /\ u.tries = t.tries
  BY <1>1 DEF Hub
<1>3. u \in Hub
  BY <1>1, Names, ZenonT(30) DEF Hub
<1>4. FailIdle(s) = v
  BY DEF FailIdle, t
<1> HIDE DEF u
<1>5. /\ v \in Hub /\ ~v.auth /\ v.ota = "off" /\ v.cmd = "none" /\ v.state = u.state
      /\ v.dev = u.dev /\ v.client = u.client /\ v.op = u.op /\ v.retry = u.retry
      /\ v.tries = u.tries
  BY <1>3, GivenUp
<1> HIDE DEF v
<1>6. QED  BY <1>1, <1>2, <1>3, <1>4, <1>5

(* Learn changes the record of the device of the session alone. *)
LEMMA Learns ==
  ASSUME NEW s \in Hub, s.dev \in Device, NEW k \in Snapshot
  PROVE  /\ Learn(s, k) \in Hub /\ Learn(s, k).known[s.dev] = k
         /\ \A d \in Device \ {s.dev} : Learn(s, k).known[d] = s.known[d]
BY DEF Learn, Hub

(* A record of the registry stays one. *)
LEMMA Snapshots ==
  ASSUME NEW k \in Snapshot, NEW v \in Image
  PROVE  /\ [k EXCEPT !.dis = v] \in Snapshot /\ [k EXCEPT !.cfg = v] \in Snapshot
BY DEF Snapshot

(* Defer keeps the types. *)
LEMMA Defers ==
  ASSUME NEW s \in Hub, NEW step \in Step
  PROVE  Defer(s, step) \in Hub
BY DEF Defer, Hub

(* StartOta keeps the types. *)
LEMMA OtaStarts ==
  ASSUME NEW s \in Hub
  PROVE  StartOta(s) \in Hub
<1>1. CASE Linked(s)  BY <1>1, Names, ZenonT(30) DEF StartOta, Hub
<1>2. CASE ~Linked(s)  BY <1>2, Names, ZenonT(30) DEF StartOta, Hub
<1>3. QED  BY <1>1, <1>2

(* The callback of an operation that ends with an error starts no operation and no
   authentication, and leaves the connect attempts alone. *)
LEMMA LostKeeps ==
  ASSUME NEW s \in Hub, NEW f \in Hub, NEW o \in Op, Active(s) => s.dev \in Device
  PROVE  /\ Lost(s, o, f) \in Hub
         /\ \E t \in {s, f} : /\ Lost(s, o, f).auth = t.auth /\ Lost(s, o, f).op = t.op
                              /\ Lost(s, o, f).retry = t.retry /\ Lost(s, o, f).tries = t.tries
<1> SUFFICES ASSUME Active(s)
             PROVE  /\ Lost(s, o, f) \in Hub
                    /\ \E t \in {s, f} : /\ Lost(s, o, f).auth = t.auth /\ Lost(s, o, f).op = t.op
                              /\ Lost(s, o, f).retry = t.retry /\ Lost(s, o, f).tries = t.tries
  BY DEF Lost
<1>1. CASE o = "dis"
  <2> DEFINE k == [s.known[s.dev] EXCEPT !.dis = None]
  <2>1. s.known[s.dev] \in Snapshot /\ None \in Image
    BY DEF Hub, Image
  <2>2. k \in Snapshot
    BY <2>1, Snapshots
  <2>3. Lost(s, o, f) = Defer(Learn(s, k), "identify")
    BY <1>1 DEF Lost
  <2> HIDE DEF k
  <2>4. Learn(s, k) \in Hub
    BY <2>2, Learns
  <2>5. Defer(Learn(s, k), "identify") \in Hub
    BY <2>4, Defers DEF Step
  <2>6. QED  BY <2>3, <2>4, <2>5, SMTT(20) DEF Defer, Learn, Hub
<1>2. CASE o = "env"
  <2>1. Lost(s, o, f) = Defer(s, "finish") /\ Defer(s, "finish") \in Hub
    BY <1>2, Defers DEF Lost, Step
  <2>2. QED  BY <2>1, ZenonT(30) DEF Defer, Hub
<1>3. CASE o \in {"subCustom", "subAuth"}
  BY <1>3 DEF Lost
<1>4. CASE o = "subStock"
  BY <1>4 DEF Lost, Hub
<1>5. CASE o = "speed"
  <2>1. Lost(s, o, f) \in {f, StartOta(s)}
    BY <1>5 DEF Lost
  <2>2. /\ StartOta(s).auth = s.auth /\ StartOta(s).op = s.op /\ StartOta(s).retry = s.retry
        /\ StartOta(s).tries = s.tries
    BY DEF StartOta, Hub
  <2>3. QED  BY <2>1, <2>2, OtaStarts
<1>6. CASE o = "write" /\ s.cmd = "cfg"
  <2> DEFINE t == [s EXCEPT !.cmd = "none"]
  <2>1. t \in Hub /\ Lost(s, o, f) = Defer(t, "env")
    BY <1>6, Nothing DEF Lost, Hub
  <2>2. t.auth = s.auth /\ t.op = s.op /\ t.retry = s.retry /\ t.tries = s.tries
    BY DEF Hub
  <2> HIDE DEF t
  <2>3. Defer(t, "env") \in Hub
    BY <2>1, Defers DEF Step
  <2>5. /\ Defer(t, "env").auth = t.auth /\ Defer(t, "env").op = t.op
        /\ Defer(t, "env").retry = t.retry /\ Defer(t, "env").tries = t.tries
    BY <2>1 DEF Defer, Hub
  <2>4. QED  BY <2>1, <2>2, <2>3, <2>5
<1>7. CASE o = "write" /\ s.cmd # "cfg"
  <2>1. Lost(s, o, f) = [s EXCEPT !.cmd = "none"]
    BY <1>7 DEF Lost
  <2>2. [s EXCEPT !.cmd = "none"] \in Hub
    BY Nothing DEF Hub
  <2>3. QED  BY <2>1, <2>2, ZenonT(30) DEF Hub
<1>8. CASE o \in {"none", "raw"}
  BY <1>8 DEF Lost
<1>9. QED  BY <1>1, <1>2, <1>3, <1>4, <1>5, <1>6, <1>7, <1>8 DEF Op

(* fail_session_ restores the invariant from any state that knows its device: nothing of
   the session is left, whatever the callback of the operation in flight did. *)
LEMMA FailEnds ==
  ASSUME NEW s \in Hub, Active(s) => s.dev \in Device,
         s.retry => s.tries < MaxConnects /\ 1 < MaxConnects
  PROVE  Inv(Fail(s)) /\ Fail(s).state = "ERROR"
<1> DEFINE u == [s EXCEPT !.deadline = FALSE, !.ota = "off", !.auth = FALSE]
           given == [u EXCEPT !.cmd = "none", !.op = "none"]
           f == FailIdle(given)
           after == Lost(given, s.op, f)
           last == Hangup(after)
           r == [last EXCEPT !.state = "ERROR", !.dev = None]
<1>10. u \in Hub
  BY DEF Hub
<1>1. /\ ~u.auth /\ u.retry = s.retry /\ u.tries = s.tries
      /\ u.state = s.state /\ u.dev = s.dev /\ s.op \in Op
  BY DEF Hub
<1>2. Fail(s) = r
  BY DEF Fail
<1> HIDE DEF u
<1>3. /\ ~given.auth /\ given.op = "none" /\ given.retry = s.retry
      /\ given.tries = s.tries /\ given.state = s.state /\ given.dev = s.dev
  BY <1>1, <1>10 DEF Hub
<1>11. given \in Hub
  BY <1>10, Nothing DEF Hub
<1> HIDE DEF given
<1>4. f \in Hub /\ ~f.auth /\ f.op = "none" /\ f.retry = s.retry /\ f.tries = s.tries
  BY <1>3, <1>11, LetGo
<1> HIDE DEF f
<1>5. /\ after \in Hub /\ ~after.auth /\ after.op = "none" /\ after.retry = s.retry
      /\ after.tries = s.tries
  <2>1. Active(given) => given.dev \in Device
    BY <1>3 DEF Active
  <2>2. after \in Hub /\ \E t \in {given, f} : /\ after.auth = t.auth /\ after.op = t.op
                                               /\ after.retry = t.retry /\ after.tries = t.tries
    BY <1>1, <1>11, <1>4, <2>1, LostKeeps
  <2>3. QED  BY <1>3, <1>4, <2>2
<1> HIDE DEF after
<1>13. last \in Hub /\ last.client \in {"IDLE", "DISCONNECTING"} /\ last.ota # "on"
  BY <1>5, Hung
<1>6. /\ last \in Hub /\ ~last.auth /\ last.op = "none" /\ last.retry = s.retry
      /\ last.tries = s.tries /\ last.client \in {"IDLE", "DISCONNECTING"} /\ last.ota # "on"
  BY <1>5, <1>13 DEF Hangup, Hub
<1> HIDE DEF last
<1>12. r \in Hub
  BY <1>6, Names DEF Hub
<1>7. /\ ~r.auth /\ r.op = "none" /\ r.retry = s.retry /\ r.tries = s.tries
      /\ r.client \in {"IDLE", "DISCONNECTING"} /\ r.ota # "on" /\ r.state = "ERROR" /\ r.dev = None
  BY <1>6 DEF Hub
<1> HIDE DEF r
<1>8. QED
  BY <1>2, <1>7, <1>12 DEF Inv, AtRest, AtWork, Wired, Counted, Dialing, Taken, Activating, Commanded,
                    Flashing, Verified, Active, Rest, Linked

(* A session has a device. *)
LEMMA Devices ==
  ASSUME NEW s, AtWork(s), Active(s)
  PROVE  s.dev \in Device
BY DEF AtWork, Job

(* What the invariant says of a session that is not bound to be quiet. *)
LEMMA LooseRuns ==
  ASSUME NEW s, Inv(s), Loose(s), Active(s)
  PROVE  Runs(s)
<1>1. s.ota = "on" => s.chars # "stock"
  BY DEF Loose
<1>2. QED
  BY <1>1 DEF Inv, Loose, Runs, Wired, Counted, Activating, Flashing, Verified, Gated

(* A session that runs, in a state that promises nothing, satisfies the invariant. *)
LEMMA RunsOn ==
  ASSUME NEW s, Runs(s), Placed(s), Dialing(s)
  PROVE  Inv(s) /\ Loose(s)
<1>1. AtRest(s) /\ Wired(s) /\ Counted(s) /\ Activating(s) /\ Loose(s)
  BY DEF Runs, Placed, AtRest, Wired, Counted, Activating, Loose
<1>2. Flashing(s)
  BY DEF Runs, Placed, Flashing
<1>3. Verified(s)
  BY DEF Runs, Verified, Active, Rest
<1>4. QED  BY <1>1, <1>2, <1>3 DEF Runs, Inv

----------------------------------------------------------------------------
(* How a session ends *)

(* finish_session_ on a closed connection; a flash job must be verified. *)
LEMMA FinishEnds ==
  ASSUME NEW s \in Hub, s.client = "IDLE", s.op = "none", ~s.auth, s.ota # "on",
         s.retry => s.tries < MaxConnects /\ 1 < MaxConnects,
         Flash(s) => Reports(s.known[s.job.dev], s.target)
  PROVE  Inv(Finish(s))
<1> DEFINE u == Finish(s)
<1>1. u \in Hub
  BY Names DEF Finish, Hub
<1>2. /\ u.state = "SUCCESS" /\ u.dev = None /\ ~u.leaving /\ u.client = "IDLE" /\ u.op = "none"
      /\ ~u.auth /\ u.ota # "on" /\ u.retry = s.retry /\ u.tries = s.tries
      /\ u.job = s.job /\ u.known = s.known /\ u.target = s.target
  BY DEF Finish, Hub
<1> HIDE DEF u
<1>3. Inv(u)
  BY <1>1, <1>2 DEF Inv, AtRest, AtWork, Wired, Counted, Dialing, Taken, Activating, Commanded,
                    Flashing, Verified, Active, Rest, Linked, Flash
<1>4. QED  BY <1>3 DEF u

(* A session that is not bound to be quiet may defer a continuation. *)
LEMMA DeferRuns ==
  ASSUME NEW s, Inv(s), Loose(s), Active(s), NEW step \in Step,
         Taking(s) /\ Linked(s) /\ step # "identify" => s.chars = "custom"
  PROVE  Inv(Defer(s, step)) /\ Loose(Defer(s, step))
<1> DEFINE u == Defer(s, step)
<1>1. s \in Hub /\ u \in Hub
  BY Defers DEF Inv
<1>2. /\ u.later = s.later \cup {step} /\ u.state = s.state /\ u.job = s.job /\ u.dev = s.dev
      /\ u.client = s.client /\ u.op = s.op /\ u.cmd = s.cmd /\ u.chars = s.chars /\ u.ota = s.ota
      /\ u.auth = s.auth /\ u.stock = s.stock /\ u.retry = s.retry /\ u.tries = s.tries
      /\ u.leaving = s.leaving /\ u.known = s.known /\ u.target = s.target /\ u.erased = s.erased
  BY <1>1 DEF Defer, Hub
<1> HIDE DEF u
<1>3. Taken(u)
  BY <1>1, <1>2 DEF Inv, Taken, Active, Taking, Linked, Step
<1>4. AtRest(u) /\ AtWork(u) /\ Wired(u) /\ Counted(u) /\ Dialing(u)
  BY <1>1, <1>2 DEF Inv, AtRest, AtWork, Wired, Counted, Dialing, Active, Taking, Linked, Flash
<1>5. Activating(u) /\ Loose(u)
  BY <1>1, <1>2 DEF Inv, Activating, Loose, Active, Taking, Flash
<1>6. Commanded(u) /\ Flashing(u) /\ Verified(u)
  BY <1>1, <1>2 DEF Inv, Loose, Commanded, Flashing, Verified, Active, Flash, Gated
<1>7. Inv(u)
  BY <1>1, <1>3, <1>4, <1>5, <1>6 DEF Inv
<1>8. QED  BY <1>5, <1>7 DEF u

(* A failed DIS read takes nothing back from a verified device. *)
LEMMA ReportsKept ==
  ASSUME NEW k \in Snapshot, NEW v, Reports(k, v)
  PROVE  Reports([k EXCEPT !.dis = None], v)
BY DEF Reports, Snapshot

(* The connection of a failed session is closed. *)
LEMMA HangupEnds ==
  ASSUME NEW s \in Hub, s.state = "ERROR", s.dev = None, ~s.auth, s.op = "none",
         s.retry => s.tries < MaxConnects /\ 1 < MaxConnects
  PROVE  Inv(Hangup(s))
<1> DEFINE u == Hangup(s)
<1>1. /\ u \in Hub /\ u.client \in {"IDLE", "DISCONNECTING"} /\ u.ota # "on"
  BY Hung
<1>2. /\ u.state = "ERROR" /\ u.dev = None /\ ~u.auth /\ u.op = "none"
      /\ u.retry = s.retry /\ u.tries = s.tries
  BY DEF Hangup, Hub
<1> HIDE DEF u
<1>3. Inv(u)
  BY <1>1, <1>2 DEF Inv, AtRest, AtWork, Wired, Counted, Dialing, Taken, Activating, Commanded,
                    Flashing, Verified, Active, Rest, Linked
<1>4. QED  BY <1>3 DEF u

(* What a session that runs keeps when its connection is closed. *)
Leaves(s) ==
  /\ Active(s) /\ AtWork(s) /\ Commanded(s) /\ ~s.auth
  /\ s.retry => s.tries < MaxConnects /\ 1 < MaxConnects
  /\ s.state \in {"CONNECTING", "RECONNECTING"} => s.cmd = "none"
  /\ s.state = "CONNECTING" => s.tries >= 1
  /\ Flash(s) => s.state \notin {"ACTIVATING", "READY"}
  /\ Flash(s) /\ s.leaving => Reports(s.known[s.dev], s.target)

(* The connection of a session that runs is closed: what waits for it goes on alone. *)
LEMMA HangupRuns ==
  ASSUME NEW s \in Hub, Leaves(s), s.op = "none"
  PROVE  Inv(Hangup(s))
<1> DEFINE u == Hangup(s)
<1>1. /\ u \in Hub /\ u.client \in {"IDLE", "DISCONNECTING"} /\ u.ota # "on"
  BY Hung
<1>2. /\ u.state = s.state /\ u.job = s.job /\ u.dev = s.dev /\ u.auth = s.auth /\ u.op = s.op
      /\ u.retry = s.retry /\ u.tries = s.tries /\ u.cmd = s.cmd /\ u.known = s.known
      /\ u.target = s.target /\ u.leaving = s.leaving
  BY DEF Hangup, Hub
<1> HIDE DEF u
<1>3. AtRest(u) /\ AtWork(u) /\ Wired(u) /\ Counted(u) /\ Dialing(u) /\ Taken(u)
  BY <1>1, <1>2 DEF Leaves, AtRest, AtWork, Wired, Counted, Dialing, Taken, Active, Rest, Linked,
     Flash
<1>4. Activating(u) /\ Commanded(u) /\ Flashing(u) /\ Verified(u)
  BY <1>1, <1>2 DEF Leaves, Activating, Commanded, Flashing, Verified, Active, Rest, Flash
<1>5. Inv(u)
  BY <1>1, <1>3, <1>4 DEF Inv
<1>6. QED  BY <1>5 DEF u

(* disconnect_and_finish_; a flash job must be verified. *)
LEMMA DisconnectEnds ==
  ASSUME NEW s, Inv(s), Loose(s), Active(s), Flash(s) => Reports(s.known[s.dev], s.target)
  PROVE  Inv(Disconnect(s))
<1>1. s \in Hub /\ s.dev \in Device /\ s.op \in Op
  BY Devices DEF Inv, Hub
<1>2. CASE s.client = "IDLE"
  <2>1. s.op = "none" /\ ~s.auth /\ s.ota # "on" /\ s.dev = s.job.dev
    BY <1>2 DEF Inv, Wired, Linked, Loose, Flashing, AtWork
  <2>2. Inv(Finish(s))
    BY <1>1, <1>2, <2>1, FinishEnds DEF Inv, Counted
  <2>3. QED  BY <1>2, <2>2 DEF Disconnect
<1>3. CASE s.client # "IDLE"
  <2> DEFINE left == [s EXCEPT !.leaving = TRUE, !.deadline = TRUE, !.op = "none"]
             f == FailIdle(left)
             after == Lost(left, s.op, f)
  <2>1. Disconnect(s) = Hangup(after)
    BY <1>3 DEF Disconnect
  <2>2. left \in Hub
    BY <1>1, Nothing DEF Hub
  <2>3. /\ left.op = "none" /\ left.state = s.state /\ left.job = s.job /\ left.dev = s.dev
        /\ left.auth = s.auth /\ left.retry = s.retry /\ left.tries = s.tries /\ left.cmd = s.cmd
        /\ left.known = s.known /\ left.target = s.target /\ left.later = s.later
    BY <1>1 DEF Hub
  <2> HIDE DEF left
  <2>4. /\ f \in Hub /\ f.state = "ERROR" /\ f.dev = None /\ ~f.auth /\ f.op = "none"
        /\ f.retry = s.retry /\ f.tries = s.tries
    BY <2>2, <2>3, LetGo
  <2> HIDE DEF f
  <2>5. Active(left) /\ Leaves(left) /\ (Flash(left) => Reports(left.known[left.dev], left.target))
    BY <2>3 DEF Inv, Loose, Leaves, AtWork, Active, Wired, Counted, Commanded, Flash
  <2>6. CASE s.op \in {"subCustom", "subAuth"}
    <3>1. after = f
      BY <2>5, <2>6 DEF Lost
    <3>2. QED  BY <2>1, <2>4, <3>1, HangupEnds DEF Inv, Counted
  <2>7. CASE s.op = "dis"
    <3> DEFINE k == [left.known[left.dev] EXCEPT !.dis = None]
               t == Learn(left, k)
    <3>1. k \in Snapshot /\ left.dev \in Device /\ (Flash(left) => Reports(k, left.target))
      <4>1. left.known[left.dev] \in Snapshot /\ None \in Image
        BY <1>1, <2>2, <2>3 DEF Hub, Image
      <4>2. QED  BY <1>1, <2>3, <2>5, <4>1, Snapshots, ReportsKept
    <3>2. after = Defer(t, "identify")
      BY <2>5, <2>7 DEF Lost
    <3>8. /\ k.kind = left.known[left.dev].kind /\ k.hw = left.known[left.dev].hw
          /\ k.cfg = left.known[left.dev].cfg
      BY <1>1, <2>2, <2>3 DEF Hub, Snapshot
    <3> HIDE DEF k
    <3>3. t \in Hub /\ t.known[t.dev] = k
      <4>1. t.dev = left.dev
        BY <2>2 DEF Learn, Hub
      <4>2. QED  BY <2>2, <3>1, <4>1, Learns
    <3>4. /\ t.op = "none" /\ t.state = left.state /\ t.job = left.job /\ t.dev = left.dev
          /\ t.auth = left.auth /\ t.retry = left.retry /\ t.tries = left.tries /\ t.cmd = left.cmd
          /\ t.target = left.target
      BY <2>2, <2>3 DEF Learn, Hub
    <3> HIDE DEF t
    <3>5. after \in Hub
      BY <3>2, <3>3, Defers DEF Step
    <3>6. /\ after.op = "none" /\ after.state = left.state /\ after.job = left.job
          /\ after.dev = left.dev
          /\ after.auth = left.auth /\ after.retry = left.retry /\ after.tries = left.tries
          /\ after.cmd = left.cmd
          /\ after.target = left.target /\ after.known = t.known
      BY <3>2, <3>3, <3>4 DEF Defer, Hub
    <3> HIDE DEF after
    <3>7. /\ Active(after) /\ Leaves(after)
          /\ (Flash(after) => Reports(after.known[after.dev], after.target))
      BY <2>5, <3>1, <3>3, <3>4, <3>6, <3>8 DEF Leaves, AtWork, Active, Commanded, Flash
    <3>10. QED  BY <2>1, <3>5, <3>6, <3>7, HangupRuns
  <2>8. CASE s.op \in {"env", "subStock", "write", "raw", "none"}
    <3>1. after \in Hub
      BY <1>1, <2>2, <2>3, <2>4, LostKeeps
    <3>2. /\ after.op = "none" /\ after.state = left.state /\ after.job = left.job
          /\ after.dev = left.dev
          /\ after.auth = left.auth /\ after.retry = left.retry /\ after.tries = left.tries
          /\ after.cmd \in {left.cmd, "none"}
          /\ after.target = left.target /\ after.known = left.known
      BY <2>2, <2>3, <2>5, <2>8 DEF Lost, Defer, Hub
    <3> HIDE DEF after
    <3>7. /\ Active(after) /\ Leaves(after)
          /\ (Flash(after) => Reports(after.known[after.dev], after.target))
      BY <2>5, <3>2 DEF Leaves, AtWork, Active, Commanded, Flash
    <3>10. QED  BY <2>1, <3>1, <3>2, <3>7, HangupRuns
  <2>9. s.op # "speed"
    BY DEF Loose
  <2>10. QED  BY <1>1, <2>6, <2>7, <2>8, <2>9 DEF Op
<1>4. QED  BY <1>2, <1>3

(* A session that runs may fail. *)
LEMMA FailRuns ==
  ASSUME NEW s, Runs(s)
  PROVE  Inv(Fail(s))
BY FailEnds, Devices DEF Runs

----------------------------------------------------------------------------
(* Commands and jobs *)

(* step_start_ota_ towards custom firmware that is identified. *)
LEMMA StartsOta ==
  ASSUME NEW s, Runs(s), Flash(s),
         Linked(s) => LET k == s.known[s.dev]
                      IN  /\ s.chars = "custom" /\ k.kind = "custom" /\ k.hw /\ k.cfg # None
                          /\ s.target \in Ext => s.erased
  PROVE  Inv(StartOta(s))
<1> DEFINE u == StartOta(s)
<1>1. s \in Hub /\ u \in Hub
  BY OtaStarts DEF Runs
<1>2. /\ u.state = "WRITING" /\ u.ota = (IF Linked(s) THEN "on" ELSE "cut") /\ u.job = s.job
      /\ u.dev = s.dev /\ u.client = s.client /\ u.op = s.op /\ u.cmd = s.cmd /\ u.chars = s.chars
      /\ u.auth = s.auth /\ u.stock = s.stock /\ u.retry = s.retry /\ u.tries = s.tries
      /\ u.leaving = s.leaving /\ u.known = s.known /\ u.target = s.target /\ u.erased = s.erased
      /\ u.later = s.later
  BY <1>1 DEF StartOta, Hub
<1> HIDE DEF u
<1>3. Runs(u)
  <2>1. Active(u) /\ AtWork(u) /\ Taken(u) /\ Commanded(u)
    BY <1>2 DEF Runs, Active, Rest, AtWork, Taken, Commanded, Linked, Flash, Taking
  <2>2. QED  BY <1>1, <1>2, <2>1 DEF Runs, Linked, Flash
<1>4. Placed(u) /\ Dialing(u)
  BY <1>2 DEF Placed, Dialing
<1>5. QED  BY <1>3, <1>4, RunsOn DEF u

(* Such a command is sent to custom firmware, and a flash job sends no other. *)
Sendable(s, c) ==
  /\ c \in Cmd \ {"none"}
  /\ Flash(s) => c \in {"cfg", "ext", "ext2"}
  /\ c \in {"ext", "ext2"} => LET k == s.known[s.dev]
                              IN  Linked(s) => Flash(s) /\ k.kind = "custom" /\ k.hw /\ k.cfg # None
  /\ c = "cfg" /\ Taking(s) /\ Linked(s) => s.chars = "custom"
  /\ c \in {"cfg", "may"} => Dialing(s)

(* A command ends without an answer. *)
LEMMA CmdFailedEnds ==
  ASSUME NEW s, Runs(s), Placed(s), NEW c, Sendable(s, c)
  PROVE  Inv(CmdFailed(s, c))
<1>1. CASE c = "cfg"
  <2>1. Inv(s) /\ Loose(s) /\ Active(s)
    BY <1>1, RunsOn DEF Runs, Sendable
  <2>2. Inv(Defer(s, "env"))
    BY <1>1, <2>1, DeferRuns DEF Sendable, Step
  <2>3. QED  BY <1>1, <2>1, <2>2 DEF CmdFailed
<1>2. CASE c = "may"
  <2>1. Inv(s) /\ Loose(s) /\ Active(s) /\ ~Flash(s)
    BY <1>2, RunsOn DEF Runs, Sendable
  <2>2. Inv(Disconnect(s))
    BY <2>1, DisconnectEnds
  <2>3. QED  BY <1>2, <2>1, <2>2 DEF CmdFailed
<1>3. CASE c \notin {"cfg", "may"}
  BY <1>3, FailRuns DEF CmdFailed, Runs
<1>4. QED  BY <1>1, <1>2, <1>3

(* A command that is given up leaves the session running. *)
LEMMA CmdGone ==
  ASSUME NEW s, Runs(s), Placed(s), NEW c, Sendable(s, c), NEW u, u = [s EXCEPT !.cmd = "none"]
  PROVE  Runs(u) /\ Placed(u) /\ Sendable(u, c)
<1>1. s \in Hub
  BY DEF Runs
<1>2. u \in Hub
  BY <1>1, Nothing, ZenonT(30) DEF Hub
<1>3. /\ u.cmd = "none" /\ u.state = s.state /\ u.ota = s.ota /\ u.job = s.job
      /\ u.dev = s.dev /\ u.client = s.client /\ u.op = s.op /\ u.chars = s.chars
      /\ u.auth = s.auth /\ u.retry = s.retry /\ u.tries = s.tries
      /\ u.leaving = s.leaving /\ u.known = s.known /\ u.target = s.target /\ u.erased = s.erased
      /\ u.later = s.later
  BY <1>1 DEF Hub
<1>4. Active(u) /\ AtWork(u) /\ Taken(u) /\ Commanded(u)
  BY <1>3 DEF Runs, Active, Rest, AtWork, Taken, Commanded, Linked, Flash, Taking
<1>5. Runs(u)
  BY <1>2, <1>3, <1>4 DEF Runs, Linked, Flash
<1>6. QED  BY <1>3, <1>5 DEF Placed, Sendable, Dialing, Active, Flash, Taking, Linked

(* custom_cmd_: the command is sent, refused or impossible. *)
LEMMA CustomCmdEnds ==
  ASSUME NEW s, Runs(s), Placed(s), NEW c, Sendable(s, c)
  PROVE  Inv(CustomCmd(s, c))
<1>1. CASE s.chars # "custom"
  BY <1>1, CmdFailedEnds DEF CustomCmd
<1>2. CASE s.chars = "custom" /\ Linked(s) /\ s.op = "none"
  <2> DEFINE u == [s EXCEPT !.cmd = c, !.op = "write"]
  <2>1. s \in Hub /\ c \in Cmd /\ "write" \in Op
    BY DEF Runs, Sendable, Op
  <2>2. u \in Hub
    BY <2>1 DEF Hub
  <2>3. /\ u.cmd = c /\ u.op = "write" /\ u.state = s.state /\ u.ota = s.ota /\ u.job = s.job
        /\ u.dev = s.dev /\ u.client = s.client /\ u.chars = s.chars
        /\ u.auth = s.auth /\ u.retry = s.retry /\ u.tries = s.tries
        /\ u.leaving = s.leaving /\ u.known = s.known /\ u.target = s.target /\ u.erased = s.erased
        /\ u.later = s.later
    BY <2>1 DEF Hub
  <2>4. CustomCmd(s, c) = u
    BY <1>2 DEF CustomCmd
  <2> HIDE DEF u
  <2>5. Active(u) /\ AtWork(u) /\ Taken(u) /\ Commanded(u)
    BY <1>2, <2>3 DEF Runs, Active, Rest, AtWork, Taken, Commanded, Linked, Flash, Taking, Sendable
  <2>6. Runs(u)
    BY <1>2, <2>2, <2>3, <2>5 DEF Runs, Linked, Flash
  <2>7. Placed(u) /\ Dialing(u)
    BY <1>2, <2>3 DEF Placed, Dialing, Flash, Linked
  <2>8. QED  BY <2>4, <2>6, <2>7, RunsOn
<1>3. CASE s.chars = "custom" /\ ~(Linked(s) /\ s.op = "none")
  <2>1. CustomCmd(s, c) = CmdFailed([s EXCEPT !.cmd = "none"], c)
    BY <1>3 DEF CustomCmd
  <2> DEFINE u == [s EXCEPT !.cmd = "none"]
  <2>2. Runs(u) /\ Placed(u) /\ Sendable(u, c)
    BY CmdGone
  <2> HIDE DEF u
  <2>3. Inv(CmdFailed(u, c))
    BY <2>2, CmdFailedEnds
  <2>4. QED  BY <2>1, <2>3 DEF u
<1>4. QED  BY <1>1, <1>2, <1>3

(* Two states of a session that differ in its state at most, and in what no proof
   depends on. *)
Rides(u, s) ==
  /\ u.job = s.job /\ u.dev = s.dev /\ u.target = s.target /\ u.client = s.client
  /\ u.op = s.op /\ u.cmd = s.cmd /\ u.chars = s.chars /\ u.ota = s.ota /\ u.auth = s.auth
  /\ u.later = s.later /\ u.stock = s.stock /\ u.retry = s.retry /\ u.tries = s.tries
  /\ u.leaving = s.leaving /\ u.known = s.known /\ u.erased = s.erased

(* A session that runs does so in any other state of a session. *)
LEMMA RidesRuns ==
  ASSUME NEW s, Runs(s), NEW u \in Hub, Rides(u, s), Active(u)
  PROVE  Runs(u)
<1>1. AtWork(u) /\ Taken(u) /\ Commanded(u)
  BY DEF Rides, Runs, AtWork, Taken, Commanded, Linked, Flash, Taking
<1>2. QED  BY <1>1 DEF Rides, Runs, Linked, Flash

(* A handler moves to another state. *)
LEMMA Moves ==
  ASSUME NEW s \in Hub, NEW st \in State, NEW b \in BOOLEAN
  PROVE  LET u == [s EXCEPT !.state = st, !.deadline = b]
         IN  u \in Hub /\ u.state = st /\ Rides(u, s)
<1> DEFINE u == [s EXCEPT !.state = st, !.deadline = b]
<1>1. u \in Hub
  BY DEF Hub
<1>2. u.state = st /\ Rides(u, s)
  BY DEF Hub, Rides
<1>3. QED  BY <1>1, <1>2

(* step_big_ota_prepare_ towards custom firmware that is identified. *)
LEMMA PrepareExtEnds ==
  ASSUME NEW s, Runs(s), Flash(s), s.chars = "custom",
         Linked(s) => LET k == s.known[s.dev] IN k.kind = "custom" /\ k.hw /\ k.cfg # None
  PROVE  Inv(PrepareExt(s))
<1>1. CASE s.target \notin Ext
  BY <1>1, StartsOta DEF PrepareExt
<1>2. CASE s.target \in Ext
  <2> DEFINE u == [s EXCEPT !.state = "ERASING", !.deadline = TRUE]
  <2>1. u \in Hub /\ u.state = "ERASING" /\ Rides(u, s)
    BY Moves, Names DEF Runs
  <2>2. PrepareExt(s) = CustomCmd(u, "ext")
    BY <1>2 DEF PrepareExt
  <2> HIDE DEF u
  <2>3. Runs(u) /\ Placed(u)
    BY <2>1, RidesRuns DEF Active, Rest, Placed
  <2>4. Sendable(u, "ext")
    BY <2>1 DEF Rides, Sendable, Cmd, Flash, Linked
  <2>5. QED  BY <2>2, <2>3, <2>4, CustomCmdEnds
<1>3. QED  BY <1>1, <1>2

(* step_activate_; a flash job has passed the gate before. *)
LEMMA ActivateEnds ==
  ASSUME NEW s, Runs(s), Taking(s),
         Flash(s) => s.known[s.dev].kind = "stock" /\ (Linked(s) => Gated(s)),
         s.chars = "stock" /\ Linked(s) => Quiet(s),
         Inv(s)
  PROVE  Inv(Activate(s))
<1>1. CASE s.chars = "stock"
  <2> DEFINE t == [s EXCEPT !.state = "ACTIVATING", !.deadline = TRUE]
  <2>1. t \in Hub /\ t.state = "ACTIVATING" /\ Rides(t, s)
    BY Moves, Names DEF Runs
  <2>2. Activate(s) = Issue(t, "subAuth")
    BY <1>1 DEF Activate
  <2> HIDE DEF t
  <2>3. Runs(t)
    BY <2>1, RidesRuns DEF Active, Rest
  <2>4. CASE Linked(t) /\ t.op = "none"
    <3> DEFINE u == [t EXCEPT !.op = "subAuth"]
    <3>1. u \in Hub
      BY <2>1 DEF Hub, Op
    <3>2. u.state = "ACTIVATING" /\ u.op = "subAuth"
      BY <2>1 DEF Hub
    <3>3. /\ u.job = s.job /\ u.dev = s.dev /\ u.target = s.target /\ u.client = s.client
          /\ u.cmd = s.cmd /\ u.chars = s.chars /\ u.ota = s.ota /\ u.auth = s.auth
          /\ u.later = s.later /\ u.stock = s.stock /\ u.retry = s.retry /\ u.tries = s.tries
          /\ u.leaving = s.leaving /\ u.known = s.known /\ u.erased = s.erased
      BY <2>1 DEF Hub, Rides
    <3>4. Issue(t, "subAuth") = u
      BY <2>4 DEF Issue
    <3> HIDE DEF u
    <3>5. Linked(s)
      BY <2>1, <2>4 DEF Rides, Linked
    <3>6. AtRest(u) /\ AtWork(u) /\ Wired(u) /\ Counted(u) /\ Dialing(u) /\ Taken(u)
      BY <1>1, <3>2, <3>3, <3>5 DEF Runs, AtRest, AtWork, Wired, Counted, Dialing, Taken, Active,
                                    Rest, Linked, Flash, Taking
    <3>7. Activating(u)
      BY <1>1, <3>2, <3>3, <3>5 DEF Runs, Activating, Quiet, Gated, Flash, Taking
    <3>8. Commanded(u) /\ Flashing(u) /\ Verified(u)
      BY <1>1, <3>2, <3>3, <3>5 DEF Runs, Commanded, Flashing, Verified, Active, Rest, Flash, Linked
    <3>9. QED  BY <2>2, <3>1, <3>4, <3>6, <3>7, <3>8 DEF Inv
  <2>5. CASE ~(Linked(t) /\ t.op = "none")
    BY <2>2, <2>3, <2>5, FailRuns DEF Issue, Lost, Runs
  <2>6. QED  BY <2>4, <2>5
<1>2. CASE s.chars # "stock" /\ s.known[s.dev].kind = "custom"
  <2>1. Loose(s) /\ ~Flash(s)
    BY <1>2 DEF Runs, Loose
  <2>2. QED  BY <1>2, <2>1, DisconnectEnds DEF Activate, Runs
<1>3. CASE s.chars # "stock" /\ s.known[s.dev].kind # "custom"
  BY <1>3, FailRuns DEF Activate
<1>4. QED  BY <1>1, <1>2, <1>3

(* What the identification has just derived. *)
Sure(k) ==
  /\ k.kind = "custom" /\ k.hw => k.cfg # None
  /\ k.kind # "custom" => k.fw = k.dis /\ (k.hw => k.dis # None)

(* step_prepare_ota_ right after the identification: the gate holds. *)
LEMMA PrepareOtaEnds ==
  ASSUME NEW s, Inv(s), Loose(s), Active(s), Flash(s), Sure(s.known[s.dev]),
         s.chars = "stock" /\ Linked(s) => Quiet(s)
  PROVE  Inv(PrepareOta(s))
<1> DEFINE k == s.known[s.dev]
<1>1. Runs(s) /\ Taking(s) /\ s.state \notin {"ACTIVATING", "READY"}
  BY LooseRuns DEF Loose, Flash, Taking
<1>2. CASE s.chars = "none" \/ ~k.hw \/ (s.target \in Ext /\ k.kind = "stock")
  <2>1. PrepareOta(s) = Fail(s)
    BY <1>1, <1>2 DEF PrepareOta
  <2>2. QED  BY <1>1, <2>1, FailRuns
<1>3. CASE s.chars # "none" /\ k.hw /\ ~(s.target \in Ext /\ k.kind = "stock") /\ k.kind = "stock"
  <2>1. PrepareOta(s) = Activate(s)
    BY <1>1, <1>3 DEF PrepareOta
  <2>2. Linked(s) => Gated(s)
    BY <1>1, <1>3 DEF Runs, Taken, Gated, Sure
  <2>3. QED  BY <1>1, <1>3, <2>1, <2>2, ActivateEnds
<1>4. CASE s.chars # "none" /\ k.hw /\ k.kind # "stock"
  <2> DEFINE t == [s EXCEPT !.state = "READY"]
  <2>1. s \in Hub
    BY DEF Inv
  <2>2. t \in Hub
    BY <2>1, Names DEF Hub
  <2>3. t.state = "READY" /\ Rides(t, s)
    BY <2>1 DEF Hub, Rides
  <2>4. PrepareOta(s) = IF s.chars = "stock" THEN Issue(t, "speed") ELSE PrepareExt(t)
    BY <1>1, <1>4 DEF PrepareOta
  <2> HIDE DEF t
  <2>5. Runs(t) /\ Flash(t)
    BY <1>1, <2>2, <2>3, RidesRuns DEF Active, Rest, Rides, Flash
  <2>6. CASE s.chars = "stock"
    <3>1. ~Linked(t)
      BY <1>1, <1>4, <2>3, <2>6 DEF Runs, Taken, Rides, Linked
    <3>2. Issue(t, "speed") \in {Fail(t), StartOta(t)}
      BY <2>5, <3>1 DEF Issue, Lost, Runs
    <3>3. QED  BY <2>4, <2>5, <2>6, <3>1, <3>2, FailRuns, StartsOta
  <2>7. CASE s.chars # "stock"
    <3>1. t.chars = "custom"
      BY <1>4, <2>1, <2>3, <2>7 DEF Rides, Hub
    <3>2. Linked(t) => LET q == t.known[t.dev] IN q.kind = "custom" /\ q.hw /\ q.cfg # None
      BY <1>1, <1>4, <2>3, <2>7 DEF Runs, Taken, Rides, Linked, Sure
    <3>3. QED  BY <2>4, <2>5, <2>7, <3>1, <3>2, PrepareExtEnds
  <2>8. QED  BY <2>6, <2>7
<1>5. QED  BY <1>2, <1>3, <1>4

(* Fields that the invariant does not mention. *)
LEMMA RidesInv ==
  ASSUME NEW s, Inv(s), NEW u \in Hub, Rides(u, s), u.state = s.state
  PROVE  Inv(u) /\ (Loose(s) => Loose(u))
<1>1. AtRest(u) /\ AtWork(u) /\ Wired(u) /\ Counted(u) /\ Dialing(u) /\ Taken(u)
  BY DEF Rides, Inv, AtRest, AtWork, Wired, Counted, Dialing, Taken, Active, Linked, Flash, Taking
<1>2. Activating(u)
  BY DEF Rides, Inv, Activating, Active, Flash, Taking, Quiet, Gated
<1>3. Commanded(u) /\ Flashing(u)
  BY DEF Rides, Inv, Commanded, Flashing, Active, Flash, Quiet, Gated
<1>4. Verified(u)
  BY DEF Rides, Inv, Verified, Active, Flash
<1>5. Loose(s) => Loose(u)
  BY DEF Rides, Loose, Active, Flash
<1>6. QED  BY <1>1, <1>2, <1>3, <1>4, <1>5 DEF Inv

(* evaluate_verify_: success takes the target version. *)
LEMMA EvaluateVerifyEnds ==
  ASSUME NEW s, Inv(s), Loose(s), Active(s), Sure(s.known[s.dev])
  PROVE  Inv(EvaluateVerify(s))
<1> DEFINE t == [s EXCEPT !.verify = FALSE]
           q == IF s.renamed THEN <<JobOf("NAME", s.dev, None)>> \o t.jobs ELSE t.jobs
           u == [t EXCEPT !.jobs = q]
<1>1. s \in Hub /\ s.dev \in Device
  BY Devices DEF Inv
<1>2. t \in Hub
  BY <1>1 DEF Hub
<1>3. Rides(t, s) /\ t.state = s.state
  BY <1>1 DEF Rides, Hub
<1>4. EvaluateVerify(s) = IF InstalledVersion(s.known[s.dev]) = s.target
                          THEN Disconnect(u)
                          ELSE Fail(t)
  BY DEF EvaluateVerify
<1> HIDE DEF t
<1>5. Inv(t) /\ Loose(t) /\ Active(t)
  BY <1>2, <1>3, RidesInv DEF Active
<1>6. CASE InstalledVersion(s.known[s.dev]) = s.target
  <2>1. q \in Seq(Job)
    <3>1. t.jobs \in Seq(Job)
      BY <1>2 DEF Hub
    <3>2. JobOf("NAME", s.dev, None) \in Job
      BY <1>1 DEF Job, JobOf, JobType
    <3>3. QED  BY <3>1, <3>2
  <2> HIDE DEF q
  <2>2. u \in Hub
    BY <1>2, <2>1 DEF Hub
  <2>3. Rides(u, t) /\ u.state = t.state
    BY <1>2 DEF Rides, Hub
  <2> HIDE DEF u
  <2>4. Inv(u) /\ Loose(u) /\ Active(u)
    BY <1>5, <2>2, <2>3, RidesInv DEF Active
  <2>5. Flash(u) => Reports(u.known[u.dev], u.target)
    <3> SUFFICES ASSUME Flash(s)
                 PROVE  Reports(s.known[s.dev], s.target)
      BY <1>3, <2>3 DEF Rides, Flash
    <3>1. s.target \in Version /\ s.target # None
      BY SessionAssumption DEF Inv, AtWork, Job, Flash
    <3>2. QED  BY <1>6, <3>1 DEF InstalledVersion, Reports, Sure
  <2>6. QED  BY <1>4, <1>6, <2>4, <2>5, DisconnectEnds
<1>7. CASE InstalledVersion(s.known[s.dev]) # s.target
  <2>1. Inv(Fail(t))
    BY <1>5, FailEnds, Devices DEF Inv, Counted
  <2>2. QED  BY <1>4, <1>7, <2>1
<1>8. QED  BY <1>6, <1>7

(* The other jobs make their way through any state. *)
LEMMA OtherRuns ==
  ASSUME NEW s, Inv(s), Loose(s), Active(s), ~Taking(s), NEW u \in Hub, Rides(u, s),
         u.state \notin Rest \cup {"CONNECTING", "RECONNECTING"}
  PROVE  Runs(u) /\ Placed(u) /\ Dialing(u) /\ ~Taking(u)
<1>1. Runs(s)
  BY LooseRuns
<1>2. Active(u) /\ ~Taking(u) /\ ~Flash(u) /\ ~Flash(s)
  BY DEF Active, Rides, Taking, Flash
<1>3. Runs(u)
  BY <1>1, <1>2, RidesRuns
<1>4. QED  BY <1>2, <1>3 DEF Placed, Dialing, Runs

(* The commands of the jobs that install nothing. *)
LEMMA OtherSends ==
  ASSUME NEW s, Inv(s), Loose(s), Active(s), ~Taking(s), NEW u \in Hub, Rides(u, s),
         u.state \notin Rest \cup {"CONNECTING", "RECONNECTING"}, NEW c \in {"set", "may"}
  PROVE  Inv(CustomCmd(u, c))
<1>1. Runs(u) /\ Placed(u) /\ Dialing(u) /\ ~Taking(u)
  BY OtherRuns
<1>2. Sendable(u, c)
  BY <1>1 DEF Sendable, Cmd, Taking, Flash
<1>3. QED  BY <1>1, <1>2, CustomCmdEnds

(* continue_after_identify_, for every job. *)
LEMMA ContinueEnds ==
  ASSUME NEW s, Inv(s), Loose(s), Active(s), Sure(s.known[s.dev]),
         Taking(s) /\ s.chars = "stock" /\ Linked(s) => Quiet(s)
  PROVE  Inv(Continue(s))
<1> DEFINE k == s.known[s.dev]
           writing == [s EXCEPT !.state = "WRITING", !.deadline = TRUE]
           booting == [s EXCEPT !.state = "REBOOTING", !.deadline = TRUE]
           held == [s EXCEPT !.state = "READY", !.deadline = FALSE, !.hold = FALSE]
<1>1. s \in Hub /\ Runs(s) /\ s.job \in Job
  BY LooseRuns DEF Inv, AtWork
<1>2. writing \in Hub /\ writing.state = "WRITING" /\ Rides(writing, s)
  BY <1>1, Moves, Names
<1>3. booting \in Hub /\ booting.state = "REBOOTING" /\ Rides(booting, s)
  BY <1>1, Moves, Names
<1>4. held \in Hub
  BY <1>1, Names DEF Hub
<1>5. held.state = "READY" /\ Rides(held, s)
  BY <1>1 DEF Rides, Hub
<1>6. Inv(Fail(s))
  BY <1>1, FailRuns
<1>7. CASE s.verify
  BY <1>7, EvaluateVerifyEnds DEF Continue
<1>8. CASE ~s.verify /\ s.job.type = "IDENTIFY"
  BY <1>8, DisconnectEnds DEF Continue, Flash
<1>9. CASE ~s.verify /\ s.job.type = "CONFIG"
  <2>1. Continue(s) \in {Fail(s), CustomCmd(writing, "set")}
    BY <1>9 DEF Continue
  <2> HIDE DEF writing
  <2>2. Inv(CustomCmd(writing, "set"))
    BY <1>2, <1>9, OtherSends DEF Taking, Rest
  <2>3. QED  BY <1>6, <2>1, <2>2
<1>10. CASE ~s.verify /\ s.job.type \in {"NAME", "PIN"}
  <2>1. Continue(s) \in {CustomCmd(writing, "set"), CustomCmd(writing, "may")}
    BY <1>10 DEF Continue
  <2> HIDE DEF writing
  <2>2. Inv(CustomCmd(writing, "set")) /\ Inv(CustomCmd(writing, "may"))
    BY <1>2, <1>10, OtherSends DEF Taking, Rest
  <2>3. QED  BY <2>1, <2>2
<1>11. CASE ~s.verify /\ s.job.type = "REBOOT"
  <2>1. Continue(s) \in {Fail(s), CustomCmd(booting, "may")}
    BY <1>11 DEF Continue
  <2> HIDE DEF booting
  <2>2. Inv(CustomCmd(booting, "may"))
    BY <1>3, <1>11, OtherSends DEF Taking, Rest
  <2>3. QED  BY <1>6, <2>1, <2>2
<1>12. CASE ~s.verify /\ s.job.type = "ACTIVATE"
  <2>1. Continue(s) = Activate(s) /\ Taking(s) /\ ~Flash(s)
    BY <1>12 DEF Continue, Taking, Flash
  <2>2. QED  BY <1>1, <2>1, ActivateEnds
<1>13. CASE ~s.verify /\ s.job.type = "FLASH"
  <2>1. Continue(s) = PrepareOta(s) /\ Taking(s) /\ Flash(s)
    BY <1>13 DEF Continue, Taking, Flash
  <2>2. QED  BY <2>1, PrepareOtaEnds
<1>14. CASE ~s.verify /\ s.job.type = "CONNECT"
  <2>1. Continue(s) = held
    BY <1>14 DEF Continue
  <2> HIDE DEF held
  <2>2. ~Taking(s) /\ held.state \notin Rest \cup {"CONNECTING", "RECONNECTING"}
    BY <1>5, <1>14 DEF Taking, Rest
  <2>3. QED  BY <1>4, <1>5, <2>1, <2>2, OtherRuns, RunsOn
<1>15. QED
  <2>1. s.job.type \in JobType
    BY <1>1 DEF Job
  <2>2. QED
    BY <1>7, <1>8, <1>9, <1>10, <1>11, <1>12, <1>13, <1>14, <2>1 DEF JobType

----------------------------------------------------------------------------
(* The identification *)

(* The registry learns something that takes back nothing the invariant relies on. *)
LEMMA LearnRuns ==
  ASSUME NEW s, Inv(s), Loose(s), Active(s), NEW k \in Snapshot,
         k.kind = s.known[s.dev].kind,
         LET q == s.known[s.dev] IN q.kind = "custom" /\ q.hw /\ q.cfg # None => k.hw /\ k.cfg # None,
         Flash(s) /\ s.leaving => Reports(k, s.target)
  PROVE  LET u == Learn(s, k)
         IN  /\ Inv(u) /\ Loose(u) /\ Active(u) /\ u.known[u.dev] = k
             /\ u.job = s.job /\ u.client = s.client /\ u.chars = s.chars /\ u.later = s.later
             /\ u.stock = s.stock /\ u.cmd = s.cmd /\ u.leaving = s.leaving /\ u.op = s.op
<1> DEFINE u == Learn(s, k)
<1>1. s \in Hub /\ s.dev \in Device
  BY Devices DEF Inv
<1>2. u \in Hub /\ u.known[s.dev] = k
  BY <1>1, Learns
<1>3. /\ u.state = s.state /\ u.job = s.job /\ u.dev = s.dev /\ u.target = s.target
      /\ u.client = s.client /\ u.op = s.op /\ u.cmd = s.cmd /\ u.chars = s.chars /\ u.ota = s.ota
      /\ u.auth = s.auth /\ u.later = s.later /\ u.stock = s.stock /\ u.retry = s.retry
      /\ u.tries = s.tries /\ u.leaving = s.leaving /\ u.erased = s.erased
  BY <1>1 DEF Learn, Hub
<1> HIDE DEF u
<1>4. AtRest(u) /\ AtWork(u) /\ Wired(u) /\ Counted(u) /\ Dialing(u) /\ Taken(u)
  BY <1>2, <1>3 DEF Inv, AtRest, AtWork, Wired, Counted, Dialing, Taken, Active, Linked, Flash, Taking
<1>5. Activating(u) /\ Loose(u) /\ Active(u)
  BY <1>2, <1>3 DEF Inv, Activating, Loose, Active, Flash, Taking, Quiet
<1>6. Commanded(u)
  BY <1>2, <1>3 DEF Inv, Commanded, Active, Flash
<1>7. Flashing(u)
  BY <1>2, <1>3 DEF Inv, Loose, Flashing, Active, Flash, Gated
<1>8. Verified(u)
  BY <1>2, <1>3 DEF Inv, Verified, Active, Flash, Rest
<1>9. Inv(u) /\ u.known[u.dev] = k
  BY <1>2, <1>3, <1>4, <1>5, <1>6, <1>7, <1>8 DEF Inv
<1>10. QED  BY <1>3, <1>5, <1>9 DEF u

(* finish_identification_ derives firmware and hardware and goes on. *)
LEMMA IdentifiedEnds ==
  ASSUME NEW s, Inv(s), Loose(s), Active(s),
         Taking(s) /\ s.chars = "stock" /\ Linked(s) => Quiet(s)
  PROVE  Inv(Identified(s))
<1> DEFINE k == s.known[s.dev]
           sure == IF k.kind = "custom" THEN k.cfg ELSE k.dis
           fw == IF k.kind = "custom" /\ k.cfg = None THEN k.fw ELSE sure
           q == [k EXCEPT !.fw = fw, !.hw = (sure # None)]
           u == Learn(s, q)
<1>1. s \in Hub /\ s.dev \in Device
  BY Devices DEF Inv
<1>2. k \in Snapshot
  BY <1>1 DEF Hub
<1>3. /\ q \in Snapshot /\ q.kind = k.kind /\ q.cfg = k.cfg /\ q.dis = k.dis
      /\ q.fw = fw /\ q.hw = (sure # None)
  BY <1>2 DEF Snapshot
<1>4. Identified(s) = Continue(u)
  BY DEF Identified
<1> HIDE DEF q
<1>5. Sure(q)
  BY <1>2, <1>3 DEF Sure, Snapshot
<1>6. Flash(s) /\ s.leaving => Reports(q, s.target)
  <2>1. Flash(s) /\ s.leaving => Reports(k, s.target)
    BY DEF Inv, Verified
  <2>2. QED  BY <1>2, <1>3, <2>1 DEF Reports
<1>7. LET p == s.known[s.dev] IN p.kind = "custom" /\ p.hw /\ p.cfg # None => q.hw /\ q.cfg # None
  BY <1>3
<1>8. /\ Inv(u) /\ Loose(u) /\ Active(u) /\ u.known[u.dev] = q
      /\ u.job = s.job /\ u.client = s.client /\ u.chars = s.chars /\ u.later = s.later
      /\ u.stock = s.stock /\ u.cmd = s.cmd /\ u.leaving = s.leaving
  BY <1>3, <1>6, <1>7, LearnRuns
<1> HIDE DEF u
<1>9. Taking(u) /\ u.chars = "stock" /\ Linked(u) => Quiet(u)
  BY <1>8 DEF Taking, Linked, Quiet
<1>10. QED  BY <1>4, <1>5, <1>8, <1>9, ContinueEnds

(* The DIS strings, or that they could not be read. *)
LEMMA LearnDis ==
  ASSUME NEW s, Inv(s), Loose(s), Active(s), NEW v \in Image, s.leaving => v = None
  PROVE  Inv(Defer(Learn(s, [s.known[s.dev] EXCEPT !.dis = v]), "identify"))
<1> DEFINE k == [s.known[s.dev] EXCEPT !.dis = v]
           u == Learn(s, k)
<1>1. s \in Hub /\ s.dev \in Device /\ s.known[s.dev] \in Snapshot
  BY Devices DEF Inv, Hub
<1>2. /\ k \in Snapshot /\ k.kind = s.known[s.dev].kind /\ k.hw = s.known[s.dev].hw
      /\ k.cfg = s.known[s.dev].cfg
  BY <1>1, Snapshots DEF Snapshot
<1>3. Flash(s) /\ s.leaving => Reports(k, s.target)
  BY <1>1, ReportsKept DEF Inv, Verified
<1> HIDE DEF k
<1>4. Inv(u) /\ Loose(u) /\ Active(u)
  BY <1>2, <1>3, LearnRuns
<1> HIDE DEF u
<1>5. QED  BY <1>4, DeferRuns DEF u, k, Step

(* The configuration snapshot of custom firmware. *)
LEMMA LearnCfg ==
  ASSUME NEW s, Inv(s), Loose(s), Active(s), NEW v \in Version, ~s.leaving,
         Taking(s) /\ Linked(s) => s.chars = "custom"
  PROVE  Inv(Defer(Learn(s, [s.known[s.dev] EXCEPT !.cfg = v]), "env"))
<1> DEFINE k == [s.known[s.dev] EXCEPT !.cfg = v]
           u == Learn(s, k)
<1>1. s \in Hub /\ s.dev \in Device /\ s.known[s.dev] \in Snapshot /\ v \in Image /\ v # None
  BY Devices, SessionAssumption DEF Inv, Hub, Image
<1>2. /\ k \in Snapshot /\ k.kind = s.known[s.dev].kind /\ k.hw = s.known[s.dev].hw
      /\ k.cfg = v
  BY <1>1, Snapshots DEF Snapshot
<1> HIDE DEF k
<1>3. LET q == s.known[s.dev] IN q.kind = "custom" /\ q.hw /\ q.cfg # None => k.hw /\ k.cfg # None
  BY <1>1, <1>2
<1>4. /\ Inv(u) /\ Loose(u) /\ Active(u) /\ u.job = s.job /\ u.client = s.client
      /\ u.chars = s.chars
  BY <1>2, <1>3, LearnRuns
<1> HIDE DEF u
<1>5. Taking(u) /\ Linked(u) => u.chars = "custom"
  BY <1>4 DEF Taking, Linked
<1>6. Inv(Defer(u, "env"))
  BY <1>4, <1>5, DeferRuns DEF Step
<1>7. QED  BY <1>6 DEF u, k

(* What is pending still, or no more, when a callback or a timer has run. *)
LEMMA Unquiet ==
  ASSUME NEW s, Inv(s), ~Quiet(s)
  PROVE  Loose(s)
BY DEF Inv, Loose, Activating, Flashing, Active

(* Nor a session of a job that installs nothing. *)
LEMMA Other ==
  ASSUME NEW s, Inv(s), ~Taking(s)
  PROVE  Loose(s)
BY DEF Inv, Loose, Activating, Flashing, Taking, Flash

(* A handler takes up what was pending. *)
LEMMA TakeUp ==
  ASSUME NEW s, Inv(s), Loose(s), NEW u \in Hub,
         u.state = s.state, u.job = s.job, u.dev = s.dev, u.target = s.target, u.client = s.client,
         u.op = s.op, u.cmd \in {"none", s.cmd}, u.chars = s.chars, u.ota = s.ota, u.auth = s.auth,
         u.later \subseteq s.later, u.retry => s.retry, u.tries = s.tries,
         u.leaving = s.leaving, u.known = s.known, s.erased => u.erased
  PROVE  Inv(u) /\ Loose(u)
<1>1. AtRest(u) /\ AtWork(u) /\ Wired(u) /\ Counted(u) /\ Dialing(u)
  BY DEF Inv, AtRest, AtWork, Wired, Counted, Dialing, Active, Linked, Flash, Taking
<1>2. Taken(u) /\ Activating(u) /\ Loose(u)
  BY DEF Inv, Taken, Activating, Loose, Active, Linked, Flash, Taking
<1>3. Commanded(u) /\ Flashing(u)
  BY DEF Inv, Loose, Commanded, Flashing, Active, Flash, Gated
<1>4. Verified(u)
  BY DEF Inv, Verified, Active, Flash
<1>5. QED  BY <1>1, <1>2, <1>3, <1>4 DEF Inv

----------------------------------------------------------------------------
(* Operations and connections *)

(* What an operation in flight tells of the session when it ends. *)
Landed(s, o) ==
  Active(s) =>
    /\ o \in {"dis", "env", "subCustom", "subStock", "write", "raw"} => Loose(s)
    /\ o \in {"env", "subCustom", "write", "raw"} /\ Taking(s) /\ Linked(s) => s.chars = "custom"
    /\ o = "speed" => /\ Flash(s) /\ s.state = "READY" /\ s.op = "none"
                      /\ s.client \in {"ESTABLISHED", "DISCONNECTING"}
    /\ o = "subAuth" => Taking(s) /\ s.state = "ACTIVATING" /\ Quiet(s)

(* The operation in flight ends, the connection with it or not. *)
LEMMA Lands ==
  ASSUME NEW s, Inv(s), NEW u \in Hub, u.client \in {s.client, "DISCONNECTING"},
         Linked(s) \/ u.client = s.client, u.op = "none",
         u.state = s.state, u.job = s.job, u.dev = s.dev, u.target = s.target, u.cmd = s.cmd,
         u.chars = s.chars, u.ota = s.ota, u.auth = s.auth, u.later = s.later, u.stock = s.stock,
         u.retry = s.retry, u.tries = s.tries, u.leaving = s.leaving, u.known = s.known,
         u.erased = s.erased
  PROVE  Inv(u) /\ Landed(u, s.op)
<1>1. AtRest(u) /\ AtWork(u) /\ Wired(u) /\ Counted(u) /\ Dialing(u)
  BY DEF Inv, AtRest, AtWork, Wired, Counted, Dialing, Active, Linked, Flash, Taking
<1>2. Taken(u) /\ Activating(u)
  BY DEF Inv, Taken, Activating, Active, Linked, Flash, Taking, Quiet, Gated
<1>3. Commanded(u) /\ Flashing(u)
  BY DEF Inv, Commanded, Flashing, Active, Linked, Flash, Quiet, Gated
<1>4. Verified(u)
  BY DEF Inv, Verified, Active, Flash
<1>5. Landed(u, s.op)
  <2>1. Active(u) /\ s.op \in {"dis", "env", "subCustom", "subStock", "write", "raw"} => Loose(u)
    BY DEF Inv, Loose, Activating, Flashing, Active, Flash
  <2>2. Active(u) /\ s.op \in {"env", "subCustom", "write", "raw"} /\ Taking(u) /\ Linked(u)
          => u.chars = "custom"
    BY DEF Inv, Taken, Wired, Active, Linked, Taking
  <2>3. Active(u) /\ s.op = "speed" =>
          /\ Flash(u) /\ u.state = "READY" /\ u.op = "none"
          /\ u.client \in {"ESTABLISHED", "DISCONNECTING"}
    BY DEF Inv, Activating, Wired, Active, Linked, Flash
  <2>4. Active(u) /\ s.op = "subAuth" => Taking(u) /\ u.state = "ACTIVATING" /\ Quiet(u)
    BY DEF Inv, Activating, Active, Taking, Quiet
  <2>5. QED  BY <2>1, <2>2, <2>3, <2>4 DEF Landed
<1>6. QED  BY <1>1, <1>2, <1>3, <1>4, <1>5 DEF Inv

(* It ends alone. *)
LEMMA OpGone ==
  ASSUME NEW s, Inv(s)
  PROVE  LET u == [s EXCEPT !.op = "none"]
         IN  /\ Inv(u) /\ Landed(u, s.op) /\ u.op = "none" /\ u.client = s.client
             /\ u.state = s.state /\ u.dev = s.dev
<1> DEFINE u == [s EXCEPT !.op = "none"]
<1>1. s \in Hub
  BY DEF Inv
<1>2. u \in Hub
  BY <1>1, Nothing DEF Hub
<1>3. /\ u.state = s.state /\ u.job = s.job /\ u.dev = s.dev /\ u.target = s.target
      /\ u.client = s.client /\ u.op = "none" /\ u.cmd = s.cmd /\ u.chars = s.chars
      /\ u.ota = s.ota /\ u.auth = s.auth /\ u.later = s.later /\ u.stock = s.stock
      /\ u.retry = s.retry /\ u.tries = s.tries /\ u.leaving = s.leaving /\ u.known = s.known
      /\ u.erased = s.erased
  BY <1>1 DEF Hub
<1> HIDE DEF u
<1>4. Inv(u) /\ Landed(u, s.op)
  BY <1>2, <1>3, Lands
<1>5. QED  BY <1>3, <1>4 DEF u

(* It ends with the connection. *)
LEMMA LinkGone ==
  ASSUME NEW s, Inv(s), Linked(s)
  PROVE  LET u == [s EXCEPT !.client = "DISCONNECTING", !.op = "none"]
         IN  Inv(u) /\ Landed(u, s.op)
<1> DEFINE u == [s EXCEPT !.client = "DISCONNECTING", !.op = "none"]
<1>1. s \in Hub
  BY DEF Inv
<1>2. u \in Hub
  BY <1>1, Nothing DEF Hub
<1>3. /\ u.state = s.state /\ u.job = s.job /\ u.dev = s.dev /\ u.target = s.target
      /\ u.client = "DISCONNECTING" /\ u.op = "none" /\ u.cmd = s.cmd /\ u.chars = s.chars
      /\ u.ota = s.ota /\ u.auth = s.auth /\ u.later = s.later /\ u.stock = s.stock
      /\ u.retry = s.retry /\ u.tries = s.tries /\ u.leaving = s.leaving /\ u.known = s.known
      /\ u.erased = s.erased
  BY <1>1 DEF Hub
<1> HIDE DEF u
<1>4. Inv(u) /\ Landed(u, s.op)
  BY <1>2, <1>3, Lands
<1>5. QED  BY <1>4 DEF u

(* The OTA of a device with stock firmware starts from the gate. *)
LEMMA GatedStarts ==
  ASSUME NEW s, Inv(s), Active(s), Flash(s), s.state = "READY", s.op = "none",
         s.client \in {"ESTABLISHED", "DISCONNECTING"}
  PROVE  Inv(StartOta(s))
<1> DEFINE u == StartOta(s)
<1>1. s \in Hub /\ u \in Hub
  BY OtaStarts DEF Inv
<1>2. /\ u.state = "WRITING" /\ u.ota \in {"on", "cut"} /\ u.job = s.job
      /\ u.dev = s.dev /\ u.client = s.client /\ u.op = s.op /\ u.cmd = s.cmd /\ u.chars = s.chars
      /\ u.auth = s.auth /\ u.stock = s.stock /\ u.retry = s.retry /\ u.tries = s.tries
      /\ u.leaving = s.leaving /\ u.known = s.known /\ u.target = s.target /\ u.erased = s.erased
      /\ u.later = s.later
  BY <1>1 DEF StartOta, Hub
<1> HIDE DEF u
<1>3. Gated(s) /\ Quiet(s) /\ ~s.auth
  BY DEF Inv, Activating
<1>4. AtRest(u) /\ AtWork(u) /\ Wired(u) /\ Counted(u) /\ Dialing(u)
  BY <1>2 DEF Inv, AtRest, AtWork, Wired, Counted, Dialing, Active, Rest, Linked, Flash, Taking
<1>5. Taken(u) /\ Activating(u)
  BY <1>2, <1>3 DEF Inv, Taken, Activating, Active, Linked, Flash, Taking
<1>6. Commanded(u) /\ Flashing(u) /\ Verified(u)
  BY <1>2, <1>3 DEF Inv, Commanded, Flashing, Verified, Active, Rest, Flash, Quiet, Gated
<1>7. Inv(u)
  BY <1>1, <1>4, <1>5, <1>6 DEF Inv
<1>8. QED  BY <1>7 DEF u

(* The interval xf_stock_wait begins or ends. *)
LEMMA Samples ==
  ASSUME NEW s, Inv(s), Loose(s), NEW b \in BOOLEAN
  PROVE  LET u == [s EXCEPT !.stock = b]
         IN  /\ Inv(u) /\ Loose(u) /\ u.state = s.state /\ u.job = s.job /\ u.chars = s.chars
             /\ u.client = s.client /\ u.later = s.later /\ u.cmd = s.cmd /\ u.leaving = s.leaving
             /\ u.stock = b
<1> DEFINE u == [s EXCEPT !.stock = b]
<1>1. s \in Hub
  BY DEF Inv
<1>2. u \in Hub
  BY <1>1 DEF Hub
<1>3. /\ u.state = s.state /\ u.job = s.job /\ u.dev = s.dev /\ u.target = s.target
      /\ u.client = s.client /\ u.op = s.op /\ u.cmd = s.cmd /\ u.chars = s.chars /\ u.ota = s.ota
      /\ u.auth = s.auth /\ u.later = s.later /\ u.retry = s.retry /\ u.tries = s.tries
      /\ u.leaving = s.leaving /\ u.known = s.known /\ u.erased = s.erased /\ u.stock = b
  BY <1>1 DEF Hub
<1> HIDE DEF u
<1>4. Inv(u) /\ Loose(u)
  BY <1>2, <1>3, TakeUp
<1>5. QED  BY <1>3, <1>4 DEF u

(* A command is not waited for any longer. *)
LEMMA Unanswered ==
  ASSUME NEW s, Inv(s), Loose(s)
  PROVE  LET u == [s EXCEPT !.cmd = "none"]
         IN  /\ Inv(u) /\ Loose(u) /\ u.state = s.state /\ u.job = s.job /\ u.dev = s.dev
             /\ u.chars = s.chars /\ u.client = s.client /\ u.op = s.op /\ u.later = s.later
             /\ u.leaving = s.leaving /\ u.known = s.known /\ u.target = s.target /\ u.cmd = "none"
<1> DEFINE u == [s EXCEPT !.cmd = "none"]
<1>1. s \in Hub
  BY DEF Inv
<1>2. u \in Hub
  BY <1>1, Nothing DEF Hub
<1>3. /\ u.state = s.state /\ u.job = s.job /\ u.dev = s.dev /\ u.target = s.target
      /\ u.client = s.client /\ u.op = s.op /\ u.cmd = "none" /\ u.chars = s.chars /\ u.ota = s.ota
      /\ u.auth = s.auth /\ u.later = s.later /\ u.retry = s.retry /\ u.tries = s.tries
      /\ u.leaving = s.leaving /\ u.known = s.known /\ u.erased = s.erased
  BY <1>1 DEF Hub
<1> HIDE DEF u
<1>4. Inv(u) /\ Loose(u)
  BY <1>2, <1>3, TakeUp
<1>5. QED  BY <1>3, <1>4 DEF u

(* The callback of an operation with an error. *)
LEMMA LostEnds ==
  ASSUME NEW s, Inv(s), NEW o \in Op, Landed(s, o)
  PROVE  Inv(Lost(s, o, Fail(s)))
<1> SUFFICES ASSUME Active(s)
             PROVE  Inv(Lost(s, o, Fail(s)))
  BY DEF Lost
<1>1. Inv(Fail(s))
  BY FailEnds, Devices DEF Inv, Counted
<1>2. CASE o = "dis"
  <2>1. Loose(s) /\ None \in Image
    BY <1>2 DEF Landed, Image
  <2>2. Lost(s, o, Fail(s)) = Defer(Learn(s, [s.known[s.dev] EXCEPT !.dis = None]), "identify")
    BY <1>2 DEF Lost
  <2>3. QED  BY <2>1, <2>2, LearnDis
<1>3. CASE o = "env"
  <2>1. Loose(s) /\ (Taking(s) /\ Linked(s) => s.chars = "custom")
    BY <1>3 DEF Landed
  <2>2. Inv(Defer(s, "finish"))
    BY <2>1, DeferRuns DEF Step
  <2>3. QED  BY <1>3, <2>2 DEF Lost
<1>4. CASE o \in {"subCustom", "subAuth"}
  BY <1>1, <1>4 DEF Lost
<1>5. CASE o = "subStock"
  <2>1. Lost(s, o, Fail(s)) = [s EXCEPT !.stock = TRUE]
    BY <1>5 DEF Lost
  <2>2. Inv([s EXCEPT !.stock = TRUE])
    BY <1>5, Samples DEF Landed
  <2>3. QED  BY <2>1, <2>2
<1>6. CASE o = "speed"
  <2>1. Inv(StartOta(s))
    BY <1>6, GatedStarts DEF Landed
  <2>2. Lost(s, o, Fail(s)) \in {Fail(s), StartOta(s)}
    BY <1>6 DEF Lost
  <2>3. QED  BY <1>1, <2>1, <2>2
<1>7. CASE o = "write"
  <2> DEFINE u == [s EXCEPT !.cmd = "none"]
  <2>1. Lost(s, o, Fail(s)) = IF s.cmd = "cfg" THEN Defer(u, "env") ELSE u
    BY <1>7 DEF Lost
  <2>2. Loose(s) /\ (Taking(s) /\ Linked(s) => s.chars = "custom")
    BY <1>7 DEF Landed
  <2>3. /\ Inv(u) /\ Loose(u) /\ Active(u)
        /\ u.job = s.job /\ u.chars = s.chars /\ u.client = s.client
    BY <2>2, Unanswered DEF Active
  <2> HIDE DEF u
  <2>4. Inv(Defer(u, "env"))
    BY <2>2, <2>3, DeferRuns DEF Step, Taking, Linked
  <2>5. QED  BY <2>1, <2>3, <2>4
<1>8. CASE o \in {"none", "raw"}
  BY <1>8 DEF Lost
<1>9. QED  BY <1>2, <1>3, <1>4, <1>5, <1>6, <1>7, <1>8 DEF Op

(* A command that was sent gets no answer. *)
LEMMA CmdEnds ==
  ASSUME NEW s, Inv(s), s.cmd # "none"
  PROVE  Inv(CmdFailed([s EXCEPT !.cmd = "none"], s.cmd))
<1> DEFINE u == [s EXCEPT !.cmd = "none"]
<1>1. Loose(s) /\ s.cmd \in Cmd
  BY Unquiet DEF Quiet, Inv, Hub
<1>2. Inv(u) /\ u.state = s.state
  BY <1>1, Unanswered
<1>3. CASE ~Active(s)
  <2> HIDE DEF u
  <2>1. ~Active(u)
    BY <1>2, <1>3 DEF Active
  <2>2. CmdFailed(u, s.cmd) = u
    BY <2>1 DEF CmdFailed
  <2>3. QED  BY <1>2, <2>2 DEF u
<1>4. CASE Active(s)
  <2>1. Runs(s)
    BY <1>1, <1>4, LooseRuns
  <2>2. Placed(s)
    BY <1>1, <1>4 DEF Inv, Placed, Wired, Flashing, Loose, Gated
  <2>3. Sendable(s, s.cmd)
    BY <1>1, <1>4 DEF Inv, Sendable, Commanded, Taken
  <2>4. Runs(u) /\ Placed(u) /\ Sendable(u, s.cmd)
    BY <2>1, <2>2, <2>3, CmdGone
  <2> HIDE DEF u
  <2>5. Inv(CmdFailed(u, s.cmd))
    BY <2>4, CmdFailedEnds
  <2>6. QED  BY <2>5 DEF u
<1>5. QED  BY <1>3, <1>4

(* The callback of an operation with an error, a command or not. *)
LEMMA OpLostEnds ==
  ASSUME NEW s, Inv(s), NEW o \in Op, Landed(s, o)
  PROVE  Inv(OpLost(s, o))
<1>1. CASE o = "write" /\ s.cmd # "none"
  BY <1>1, CmdEnds DEF OpLost
<1>2. CASE ~(o = "write" /\ s.cmd # "none")
  BY <1>2, LostEnds DEF OpLost
<1>3. QED  BY <1>1, <1>2

(* An operation starts in a session that is not bound to be quiet. *)
LEMMA OpIssued ==
  ASSUME NEW s, Inv(s), Loose(s), Active(s), Linked(s), s.op = "none",
         NEW o \in {"env", "subCustom", "subStock", "raw"},
         Taking(s) => s.chars = "custom" \/ o = "subStock"
  PROVE  Inv([s EXCEPT !.op = o])
<1> DEFINE u == [s EXCEPT !.op = o]
<1>1. s \in Hub
  BY DEF Inv
<1>2. u \in Hub
  BY <1>1 DEF Hub, Op
<1>3. /\ u.state = s.state /\ u.job = s.job /\ u.dev = s.dev /\ u.target = s.target
      /\ u.client = s.client /\ u.op = o /\ u.cmd = s.cmd /\ u.chars = s.chars /\ u.ota = s.ota
      /\ u.auth = s.auth /\ u.later = s.later /\ u.stock = s.stock /\ u.retry = s.retry
      /\ u.tries = s.tries /\ u.leaving = s.leaving /\ u.known = s.known /\ u.erased = s.erased
  BY <1>1 DEF Hub
<1> HIDE DEF u
<1>4. AtRest(u) /\ AtWork(u) /\ Wired(u) /\ Counted(u) /\ Dialing(u)
  BY <1>3 DEF Inv, AtRest, AtWork, Wired, Counted, Dialing, Active, Linked, Flash, Taking
<1>5. Taken(u) /\ Activating(u)
  BY <1>3 DEF Inv, Loose, Taken, Activating, Active, Linked, Flash, Taking
<1>6. Commanded(u) /\ Flashing(u) /\ Verified(u)
  BY <1>3 DEF Inv, Loose, Commanded, Flashing, Verified, Active, Flash, Gated
<1>7. Inv(u)
  BY <1>2, <1>4, <1>5, <1>6 DEF Inv
<1>8. QED  BY <1>7 DEF u

(* read, subscribe and write: started, or refused with a callback at once. *)
LEMMA IssueEnds ==
  ASSUME NEW s, Inv(s), Loose(s), Active(s), NEW o \in {"env", "subCustom", "subStock"},
         Taking(s) /\ Linked(s) => s.chars = "custom" \/ o = "subStock"
  PROVE  Inv(Issue(s, o))
<1>1. CASE Linked(s) /\ s.op = "none"
  BY <1>1, OpIssued DEF Issue
<1>2. CASE ~(Linked(s) /\ s.op = "none")
  <2>1. Landed(s, o) /\ o \in Op
    BY DEF Landed, Op
  <2>2. QED  BY <1>2, <2>1, LostEnds DEF Issue
<1>3. QED  BY <1>1, <1>2

(* The continuations of the identification. *)
LEMMA ProceedEnds ==
  ASSUME NEW s, Inv(s), Loose(s), Active(s), NEW step \in Step,
         Taking(s) /\ Linked(s) /\ step # "identify" => s.chars = "custom"
  PROVE  Inv(Proceed(s, step))
<1>1. CASE step = "identify" /\ s.chars # s.known[s.dev].kind
  <2>1. ~(Taking(s) /\ Linked(s))
    BY <1>1 DEF Inv, Taken
  <2>2. QED  BY <1>1, <2>1, IdentifiedEnds DEF Proceed
<1>2. CASE step = "identify" /\ s.chars = s.known[s.dev].kind
  <2>1. Proceed(s, step) = Issue(s, IF s.chars = "custom" THEN "subCustom" ELSE "subStock")
    BY <1>2 DEF Proceed
  <2>2. CASE s.chars = "custom"
    BY <2>1, <2>2, IssueEnds
  <2>3. CASE s.chars # "custom"
    BY <2>1, <2>3, IssueEnds
  <2>4. QED  BY <2>2, <2>3
<1>3. CASE step = "env"
  BY <1>3, IssueEnds DEF Proceed
<1>4. CASE step = "finish"
  BY <1>4, IdentifiedEnds DEF Proceed
<1>5. QED  BY <1>1, <1>2, <1>3, <1>4 DEF Step

(* The callback of an operation with its answer. *)
LEMMA OpDoneEnds ==
  ASSUME NEW s, Inv(s), NEW o \in Op, Landed(s, o), Linked(s), s.op = "none",
         installed \in [Device -> Version]
  PROVE  Inv(OpDone(s, o))
<1> SUFFICES ASSUME Active(s)
             PROVE  Inv(OpDone(s, o))
  BY DEF OpDone
<1>1. /\ s \in Hub /\ s.dev \in Device /\ ~s.leaving /\ s.state \notin {"CONNECTING", "RECONNECTING"}
      /\ installed[s.dev] \in Image
  BY Devices DEF Inv, Wired, Linked, Image
<1>2. CASE o = "dis"
  <2> DEFINE b == s.fresh \/ s.chars = "stock"
             u == [s EXCEPT !.fresh = b]
  <2>1. Loose(s) /\ b \in BOOLEAN
    BY <1>1, <1>2 DEF Landed, Hub
  <2>2. OpDone(s, o) = Defer(Learn(u, [u.known[u.dev] EXCEPT !.dis = installed[u.dev]]), "identify")
    BY <1>1, <1>2 DEF OpDone, Hub
  <2> HIDE DEF b
  <2>3. u \in Hub
    BY <1>1, <2>1 DEF Hub
  <2>4. Rides(u, s) /\ u.state = s.state
    BY <1>1 DEF Rides, Hub
  <2> HIDE DEF u
  <2>5. Inv(u) /\ Loose(u)
    BY <2>1, <2>3, <2>4, RidesInv
  <2>6. Active(u) /\ ~u.leaving /\ installed[u.dev] \in Image
    BY <1>1, <2>4 DEF Active, Rides
  <2>7. QED  BY <2>2, <2>5, <2>6, LearnDis
<1>3. CASE o = "env"
  <2>1. Inv(Defer(s, "finish"))
    BY <1>3, DeferRuns DEF Landed, Step
  <2>2. QED  BY <1>3, <2>1 DEF OpDone
<1>4. CASE o = "subCustom"
  <2>1. Runs(s) /\ Loose(s)
    BY <1>4, LooseRuns DEF Landed
  <2>2. Placed(s)
    BY <1>1, <2>1 DEF Inv, Placed, Flashing, Loose, Gated
  <2>3. Sendable(s, "cfg")
    BY <1>4 DEF Inv, Sendable, Landed, Cmd
  <2>4. QED  BY <1>4, <2>1, <2>2, <2>3, CustomCmdEnds DEF OpDone
<1>5. CASE o = "subStock"
  <2>1. OpDone(s, o) = [s EXCEPT !.stock = TRUE]
    BY <1>5 DEF OpDone
  <2>2. Inv([s EXCEPT !.stock = TRUE])
    BY <1>5, Samples DEF Landed
  <2>3. QED  BY <2>1, <2>2
<1>6. CASE o = "subAuth"
  <2> DEFINE u == [s EXCEPT !.auth = TRUE]
  <2>1. Taking(s) /\ s.state = "ACTIVATING" /\ Quiet(s)
    BY <1>6 DEF Landed
  <2>2. u \in Hub
    BY <1>1 DEF Hub
  <2>3. /\ u.state = s.state /\ u.job = s.job /\ u.dev = s.dev /\ u.target = s.target
        /\ u.client = s.client /\ u.op = s.op /\ u.cmd = s.cmd /\ u.chars = s.chars /\ u.ota = s.ota
        /\ u.auth /\ u.later = s.later /\ u.stock = s.stock /\ u.retry = s.retry
        /\ u.tries = s.tries /\ u.leaving = s.leaving /\ u.known = s.known /\ u.erased = s.erased
    BY <1>1 DEF Hub
  <2>4. OpDone(s, o) = u
    BY <1>6 DEF OpDone
  <2> HIDE DEF u
  <2>5. AtRest(u) /\ AtWork(u) /\ Wired(u) /\ Counted(u) /\ Dialing(u)
    BY <2>3 DEF Inv, AtRest, AtWork, Wired, Counted, Dialing, Active, Linked, Flash, Taking
  <2>6. Taken(u) /\ Activating(u)
    BY <2>1, <2>3 DEF Inv, Taken, Activating, Active, Linked, Flash, Taking, Quiet, Gated
  <2>7. Commanded(u) /\ Flashing(u) /\ Verified(u)
    BY <2>1, <2>3 DEF Inv, Commanded, Flashing, Verified, Active, Flash
  <2>8. QED  BY <2>2, <2>4, <2>5, <2>6, <2>7 DEF Inv
<1>7. CASE o = "speed"
  <2>1. Inv(StartOta(s)) /\ s.target \notin Ext
    BY <1>7, GatedStarts DEF Landed, Inv, Activating, Gated
  <2>2. QED  BY <1>7, <2>1 DEF OpDone, PrepareExt
<1>8. CASE o \in {"none", "write", "raw"}
  BY <1>8 DEF OpDone
<1>9. QED  BY <1>2, <1>3, <1>4, <1>5, <1>6, <1>7, <1>8 DEF Op

(* The callback of a command with its answer. *)
LEMMA CmdDoneEnds ==
  ASSUME NEW s, Inv(s), s.cmd # "none", Linked(s), NEW reply, installed \in [Device -> Version]
  PROVE  Inv(CmdDone([s EXCEPT !.cmd = "none"], s.cmd, reply))
<1> DEFINE u == [s EXCEPT !.cmd = "none"]
           c == s.cmd
<1>1. Loose(s) /\ c \in Cmd /\ s \in Hub
  BY Unquiet DEF Quiet, Inv, Hub
<1>2. /\ Inv(u) /\ Loose(u) /\ u.state = s.state /\ u.job = s.job /\ u.dev = s.dev
      /\ u.chars = s.chars /\ u.client = s.client /\ u.op = s.op /\ u.later = s.later
      /\ u.leaving = s.leaving /\ u.known = s.known /\ u.target = s.target /\ u.cmd = "none"
  BY <1>1, Unanswered
<1> HIDE DEF u
<1>3. CASE ~Active(s)
  BY <1>2, <1>3 DEF CmdDone, Active, u
<1>4. CASE Active(s)
  <2>1. /\ Active(u) /\ Linked(u) /\ u.dev \in Device /\ ~u.leaving /\ Runs(u) /\ u \in Hub
        /\ u.state \notin {"CONNECTING", "RECONNECTING"}
    <3>1. Active(u) /\ Linked(u)
      BY <1>2, <1>4 DEF Active, Linked
    <3>2. Runs(u)
      BY <1>2, <3>1, LooseRuns
    <3>3. QED  BY <1>2, <3>1, <3>2, Devices DEF Inv, Wired, Linked
  <2>2. Placed(u) /\ Dialing(u)
    BY <1>2, <2>1 DEF Inv, Placed, Flashing, Loose, Gated
  <2>3. Taking(u) => u.chars = "custom"
    BY <1>2, <1>4 DEF Inv, Taken, Taking, Linked
  <2>4. CASE c = "cfg"
    <3> DEFINE t == [u EXCEPT !.fresh = TRUE]
    <3>1. CmdDone(u, c, reply) =
          Defer(Learn(t, [t.known[t.dev] EXCEPT !.cfg = installed[t.dev]]), "env")
      BY <2>1, <2>4 DEF CmdDone, Hub
    <3>2. t \in Hub
      BY <2>1 DEF Hub
    <3>3. Rides(t, u) /\ t.state = u.state
      BY <2>1 DEF Rides, Hub
    <3> HIDE DEF t
    <3>4. Inv(t) /\ Loose(t)
      BY <1>2, <3>2, <3>3, RidesInv
    <3>5. Active(t) /\ ~t.leaving /\ installed[t.dev] \in Version
      BY <2>1, <3>3 DEF Active, Rides
    <3>6. Taking(t) /\ Linked(t) => t.chars = "custom"
      BY <2>3, <3>3 DEF Rides, Taking
    <3>7. Inv(CmdDone(u, c, reply))
      BY <3>1, <3>4, <3>5, <3>6, LearnCfg
    <3>8. QED  BY <3>7 DEF u
  <2>5. CASE c \in {"set", "may"}
    <3>1. ~Flash(u)
      BY <1>2, <1>4, <2>5 DEF Inv, Commanded, Flash
    <3>2. Inv(Disconnect(u))
      BY <1>2, <2>1, <3>1, DisconnectEnds
    <3>3. u.job.type = "CONFIG" => Inv(CustomCmd(u, "may"))
      <4>1. Sendable(u, "may")
        BY <2>2, <3>1 DEF Sendable, Cmd
      <4>2. QED  BY <2>1, <2>2, <4>1, CustomCmdEnds
    <3>4. CmdDone(u, c, reply) = IF c = "set" /\ u.job.type = "CONFIG"
                                 THEN CustomCmd(u, "may")
                                 ELSE Disconnect(u)
      BY <2>1, <2>5 DEF CmdDone
    <3>5. Inv(CmdDone(u, c, reply))
      BY <3>2, <3>3, <3>4
    <3>6. QED  BY <3>5 DEF u
  <2>6. CASE c \in {"ext", "ext2"}
    <3> DEFINE t == [u EXCEPT !.erased = TRUE]
    <3>1. LET k == u.known[u.dev]
          IN  Flash(u) /\ u.chars = "custom" /\ k.kind = "custom" /\ k.hw /\ k.cfg # None
      BY <1>2, <1>4, <2>3, <2>6 DEF Inv, Commanded, Flash, Taking
    <3>2. CmdDone(u, c, reply) \in {StartOta(t), CustomCmd(u, "ext2"), Fail(u)}
      BY <2>1, <2>6 DEF CmdDone
    <3>3. t \in Hub
      BY <2>1 DEF Hub
    <3>4. /\ t.state = u.state /\ t.job = u.job /\ t.dev = u.dev /\ t.target = u.target
          /\ t.client = u.client /\ t.op = u.op /\ t.cmd = u.cmd /\ t.chars = u.chars /\ t.ota = u.ota
          /\ t.auth = u.auth /\ t.later = u.later /\ t.retry = u.retry
          /\ t.tries = u.tries /\ t.leaving = u.leaving /\ t.known = u.known /\ t.erased
      BY <2>1 DEF Hub
    <3> HIDE DEF t
    <3>5. Inv(t) /\ Loose(t)
      BY <1>2, <3>3, <3>4, TakeUp
    <3>6. Runs(t) /\ Flash(t)
      BY <2>1, <3>1, <3>4, <3>5, LooseRuns DEF Active, Flash
    <3>7. Inv(StartOta(t))
      BY <3>1, <3>4, <3>6, StartsOta
    <3>8. Sendable(u, "ext2")
      BY <3>1 DEF Sendable, Cmd
    <3>9. Inv(CustomCmd(u, "ext2")) /\ Inv(Fail(u))
      BY <2>1, <2>2, <3>8, CustomCmdEnds, FailRuns
    <3>10. Inv(CmdDone(u, c, reply))
      BY <3>2, <3>7, <3>9
    <3>11. QED  BY <3>10 DEF u
  <2>7. QED  BY <1>1, <2>4, <2>5, <2>6 DEF Cmd
<1>5. QED  BY <1>3, <1>4

(* step_connect_, with an attempt left. *)
LEMMA ConnectEnds ==
  ASSUME NEW s \in Hub, s.job \in Job, s.dev = s.job.dev, Flash(s) => s.target = s.job.fw,
         s.op = "none", s.cmd = "none", ~s.auth, s.ota # "on", s.tries < MaxConnects,
         s.retry => s.tries + 1 < MaxConnects
  PROVE  Inv(Connect(s))
<1> DEFINE n == s.tries + 1
           a == [s EXCEPT !.state = "CONNECTING", !.deadline = TRUE, !.leaving = FALSE]
           b == [a EXCEPT !.tries = n, !.client = "DISCOVERED"]
           u == [b EXCEPT !.fresh = FALSE, !.erased = FALSE]
<1>1. n \in 0..MaxConnects /\ n >= 1
  BY SessionAssumption DEF Hub
<1>2. a \in Hub
  BY Names DEF Hub
<1>3. /\ a.state = "CONNECTING" /\ ~a.leaving /\ a.job = s.job /\ a.dev = s.dev
      /\ a.target = s.target /\ a.op = s.op /\ a.cmd = s.cmd /\ a.ota = s.ota /\ a.auth = s.auth
      /\ a.retry = s.retry /\ a.tries = s.tries
  BY DEF Hub
<1>4. Connect(s) = u
  BY <1>3 DEF Connect
<1> HIDE DEF a, n
<1>5. b \in Hub
  BY <1>1, <1>2 DEF Hub
<1>6. /\ b.state = a.state /\ b.leaving = a.leaving /\ b.job = a.job /\ b.dev = a.dev
      /\ b.target = a.target /\ b.op = a.op /\ b.cmd = a.cmd /\ b.ota = a.ota /\ b.auth = a.auth
      /\ b.retry = a.retry /\ b.tries = n /\ b.client = "DISCOVERED"
  BY <1>2 DEF Hub
<1> HIDE DEF b
<1>7. u \in Hub
  BY <1>5, ZenonT(30) DEF Hub
<1>8. /\ u.state = "CONNECTING" /\ ~u.leaving /\ u.job = s.job /\ u.dev = s.dev
      /\ u.target = s.target /\ u.op = "none" /\ u.cmd = "none" /\ u.ota # "on" /\ ~u.auth
      /\ u.retry = s.retry /\ u.tries = n /\ u.client = "DISCOVERED"
  BY <1>3, <1>5, <1>6 DEF Hub
<1> HIDE DEF u
<1>9. AtRest(u) /\ AtWork(u) /\ Wired(u) /\ Dialing(u) /\ Taken(u)
  BY <1>8 DEF AtRest, AtWork, Wired, Dialing, Taken, Active, Rest, Linked, Flash
<1>10. Counted(u)
  <2>1. s.tries \in Nat /\ MaxConnects \in Nat
    BY SessionAssumption DEF Hub
  <2>2. s.retry => n < MaxConnects /\ 1 < MaxConnects
    BY <2>1 DEF n
  <2>3. QED  BY <1>1, <1>8, <2>2 DEF Counted
<1>11. Activating(u) /\ Commanded(u) /\ Flashing(u) /\ Verified(u)
  BY <1>8 DEF Activating, Commanded, Flashing, Verified
<1>12. QED  BY <1>4, <1>7, <1>9, <1>10, <1>11 DEF Inv

(* Another attempt to reach the device after an OTA, or none. *)
LEMMA TryAgainEnds ==
  ASSUME NEW s \in Hub, Leaves(s), s.op = "none", s.cmd = "none",
         s.client \in {"IDLE", "DISCONNECTING"}, s.ota # "on"
  PROVE  Inv(TryAgain(s))
<1>1. Inv(Fail(s))
  BY FailEnds, Devices DEF Leaves
<1>2. CASE s.vtries < MaxVerify
  <2> DEFINE n == s.vtries + 1
             a == [s EXCEPT !.vtries = n, !.reconnect = TRUE]
             u == [a EXCEPT !.deadline = TRUE, !.state = "REBOOTING"]
  <2>1. n \in 0..MaxVerify
    BY <1>2, SessionAssumption DEF Hub
  <2>2. TryAgain(s) = u
    BY <1>2 DEF TryAgain
  <2> HIDE DEF n
  <2>3. a \in Hub
    BY <2>1 DEF Hub
  <2>4. /\ a.leaving = s.leaving /\ a.job = s.job /\ a.dev = s.dev
        /\ a.target = s.target /\ a.op = s.op /\ a.cmd = s.cmd /\ a.ota = s.ota /\ a.auth = s.auth
        /\ a.retry = s.retry /\ a.tries = s.tries /\ a.client = s.client /\ a.known = s.known
    BY DEF Hub
  <2> HIDE DEF a
  <2>5. u \in Hub
    BY <2>3, Names DEF Hub
  <2>6. /\ u.leaving = a.leaving /\ u.job = a.job /\ u.dev = a.dev
        /\ u.target = a.target /\ u.op = a.op /\ u.cmd = a.cmd /\ u.ota = a.ota /\ u.auth = a.auth
        /\ u.retry = a.retry /\ u.tries = a.tries /\ u.client = a.client /\ u.known = a.known
        /\ u.state = "REBOOTING"
    BY <2>3 DEF Hub
  <2> HIDE DEF u
  <2>7. AtRest(u) /\ AtWork(u) /\ Wired(u) /\ Dialing(u) /\ Taken(u) /\ Counted(u)
    BY <2>4, <2>6 DEF Leaves, AtRest, AtWork, Wired, Dialing, Taken, Counted, Active, Rest,
       Linked, Flash
  <2>8. Activating(u) /\ Commanded(u) /\ Flashing(u) /\ Verified(u)
    BY <2>4, <2>6 DEF Leaves, Activating, Commanded, Flashing, Verified, Flash
  <2>9. QED  BY <2>2, <2>5, <2>7, <2>8 DEF Inv
<1>3. CASE ~(s.vtries < MaxVerify)
  BY <1>1, <1>3 DEF TryAgain
<1>4. QED  BY <1>2, <1>3

(* The connection is gone: what a session keeps. *)
LEMMA Gone ==
  ASSUME NEW s \in Hub, Leaves(s), s.op = "none", s.client = "IDLE", s.ota # "on"
  PROVE  Inv(s)
BY DEF Leaves, Inv, AtRest, Wired, Dialing, Taken, Counted, Activating, Flashing, Verified, Active,
       Rest, Linked

(* on_connected_(false) of every state. *)
LEMMA OnDisconnectedEnds ==
  ASSUME NEW h, Inv(h), h.client \in {"CONNECTING", "DISCONNECTING"}
  PROVE  Inv(OnDisconnected([h EXCEPT !.client = "IDLE"]))
<1> DEFINE s == [h EXCEPT !.client = "IDLE"]
<1>1. h \in Hub
  BY DEF Inv
<1>2. s \in Hub
  BY <1>1 DEF Hub
<1>3. /\ s.state = h.state /\ s.job = h.job /\ s.dev = h.dev /\ s.target = h.target
      /\ s.client = "IDLE" /\ s.op = h.op /\ s.cmd = h.cmd /\ s.chars = h.chars /\ s.ota = h.ota
      /\ s.auth = h.auth /\ s.later = h.later /\ s.stock = h.stock /\ s.retry = h.retry
      /\ s.tries = h.tries /\ s.leaving = h.leaving /\ s.known = h.known /\ s.erased = h.erased
  BY <1>1 DEF Hub
<1> HIDE DEF s
<1>4. s.op = "none" /\ (s.retry => s.tries < MaxConnects /\ 1 < MaxConnects)
  BY <1>3 DEF Inv, Wired, Linked, Counted
<1>5. Active(s) => s.dev \in Device /\ s.dev = s.job.dev /\ Inv(Fail(s))
  <2>1. Active(s) => s.dev \in Device /\ s.dev = s.job.dev
    BY <1>3, Devices DEF Inv, AtWork, Active
  <2>2. QED  BY <1>2, <1>4, <2>1, FailEnds
<1>6. CASE ~Active(s)
  <2>1. AtRest(s) /\ AtWork(s) /\ Wired(s) /\ Dialing(s) /\ Taken(s) /\ Counted(s)
    BY <1>3, <1>6 DEF Inv, AtRest, AtWork, Wired, Dialing, Taken, Counted, Active, Linked
  <2>2. Activating(s) /\ Commanded(s) /\ Flashing(s) /\ Verified(s)
    BY <1>3, <1>6 DEF Inv, Activating, Commanded, Flashing, Verified, Flash
  <2>3. Inv(s)
    BY <1>2, <2>1, <2>2 DEF Inv
  <2>4. QED  BY <1>6, <2>3 DEF OnDisconnected, s
<1>7. CASE Active(s) /\ s.leaving
  <2>1. ~s.auth /\ s.ota # "on" /\ (Flash(s) => Reports(s.known[s.job.dev], s.target))
    BY <1>3, <1>5, <1>7 DEF Inv, Activating, Flashing, Verified, Quiet, Active, Flash
  <2>2. Inv(Finish(s))
    BY <1>2, <1>3, <1>4, <2>1, FinishEnds
  <2>3. QED  BY <1>7, <2>2 DEF OnDisconnected, s
<1>8. CASE Active(s) /\ ~s.leaving
  <2>1. OnDisconnected(s) = Dropped(s)
    BY <1>8 DEF OnDisconnected
  <2>2. s.auth => s.state = "ACTIVATING"
    BY <1>3, <1>8 DEF Inv, Activating, Active
  <2>3. s.ota = "on" => s.state \in {"WRITING", "ERASING"}
    BY <1>3, <1>8 DEF Inv, Flashing, Active
  <2>4. s.state \notin {"ACTIVATING", "READY", "WRITING", "ERASING"} => Leaves(s) /\ s.ota # "on"
    BY <1>3, <1>8, <2>2, <2>3 DEF Inv, Leaves, Active, AtWork, Wired, Counted, Commanded,
       Verified, Flash
  <2>5. CASE s.state = "CONNECTING"
    <3> DEFINE u == [s EXCEPT !.retry = TRUE]
    <3>1. Inv(s)
      BY <1>2, <1>3, <1>4, <2>4, <2>5, Gone
    <3>2. CASE s.tries < MaxConnects
      <4>1. u \in Hub
        BY <1>2 DEF Hub
      <4>2. /\ u.state = s.state /\ u.job = s.job /\ u.dev = s.dev /\ u.target = s.target
            /\ u.client = s.client /\ u.op = s.op /\ u.cmd = s.cmd /\ u.ota = s.ota
            /\ u.auth = s.auth /\ u.retry /\ u.tries = s.tries /\ u.leaving = s.leaving
            /\ u.known = s.known
        BY <1>2 DEF Hub
      <4>3. Dropped(s) = u
        BY <2>5, <3>2 DEF Dropped
      <4> HIDE DEF u
      <4>4. 1 < MaxConnects
        <5>1. s.tries \in Nat /\ MaxConnects \in Nat /\ s.tries >= 1
          BY <1>2, <2>5, <3>1, SessionAssumption DEF Hub, Inv, Counted
        <5>2. QED  BY <3>2, <5>1
      <4>5. Leaves(u)
        BY <2>4, <2>5, <3>2, <4>2, <4>4 DEF Leaves, Active, AtWork, Commanded, Flash
      <4>6. Inv(u)
        BY <1>3, <1>4, <2>4, <2>5, <4>1, <4>2, <4>5, Gone
      <4>7. QED  BY <2>1, <4>3, <4>6 DEF s
    <3>3. CASE ~(s.tries < MaxConnects)
      <4>1. Dropped(s) = Fail(s)
        BY <2>5, <3>3 DEF Dropped
      <4>2. QED  BY <1>5, <1>8, <2>1, <4>1 DEF s
    <3>4. QED  BY <3>2, <3>3
  <2>6. CASE s.state = "READY" /\ s.job.type = "CONNECT"
    <3>1. ~s.auth /\ s.ota # "on" /\ ~Flash(s)
      BY <2>2, <2>3, <2>6 DEF Flash
    <3>2. Inv(Finish(s))
      BY <1>2, <1>3, <1>4, <3>1, FinishEnds
    <3>3. Dropped(s) = Finish(s)
      BY <2>6 DEF Dropped
    <3>4. QED  BY <2>1, <3>2, <3>3 DEF s
  <2>7. CASE s.state = "REBOOTING"
    <3> DEFINE u == [s EXCEPT !.reconnect = TRUE]
    <3>1. Inv(s)
      BY <1>2, <1>3, <1>4, <2>4, <2>7, Gone
    <3>2. u \in Hub
      BY <1>2 DEF Hub
    <3>3. Rides(u, s) /\ u.state = s.state
      BY <1>2 DEF Rides, Hub
    <3>4. Dropped(s) = u
      BY <2>7 DEF Dropped
    <3> HIDE DEF u
    <3>5. Inv(u)
      BY <3>1, <3>2, <3>3, RidesInv
    <3>6. QED  BY <2>1, <3>4, <3>5 DEF s
  <2>8. CASE s.state = "RECONNECTING"
    <3>1. s.cmd = "none"
      BY <1>3, <2>8 DEF Inv, Wired
    <3>2. Inv(TryAgain(s))
      BY <1>2, <1>3, <1>4, <2>4, <2>8, <3>1, TryAgainEnds
    <3>3. Dropped(s) = TryAgain(s)
      BY <2>8 DEF Dropped
    <3>4. QED  BY <2>1, <3>2, <3>3 DEF s
  <2>9. CASE /\ s.state \notin {"CONNECTING", "REBOOTING", "RECONNECTING"}
             /\ ~(s.state = "READY" /\ s.job.type = "CONNECT")
    <3>1. Dropped(s) = Fail(s)
      BY <2>9 DEF Dropped
    <3>2. QED  BY <1>5, <1>8, <2>1, <3>1 DEF s
  <2>10. QED  BY <2>5, <2>6, <2>7, <2>8, <2>9
<1>9. QED  BY <1>6, <1>7, <1>8

(* step_discover_ on a new connection. *)
LEMMA DiscoverEnds ==
  ASSUME NEW s \in Hub, Active(s), AtWork(s), s.state \in {"CONNECTED", "VERIFYING"}, Linked(s),
         s.op = "none", s.cmd = "none", ~s.auth, s.ota = "off", s.later = {}, ~s.leaving,
         s.retry => s.tries < MaxConnects /\ 1 < MaxConnects, NEW k \in {"custom", "stock"}
  PROVE  Inv(Discover(s, k))
<1> DEFINE st == IF s.verify THEN s.state ELSE "IDENTIFYING"
           a == [s EXCEPT !.state = st, !.deadline = TRUE, !.chars = k]
           q == [s.known[s.dev] EXCEPT !.kind = k]
           b == Learn(a, q)
           u == [b EXCEPT !.op = "dis"]
<1>1. s.dev \in Device /\ s.known[s.dev] \in Snapshot
  BY Devices DEF Hub
<1>2. q \in Snapshot /\ q.kind = k
  BY <1>1 DEF Snapshot
<1>3. st \in {"CONNECTED", "VERIFYING", "IDENTIFYING"}
  OBVIOUS
<1>4. Discover(s, k) = Issue(b, "dis")
  BY DEF Discover
<1> HIDE DEF st, q
<1>5. a \in Hub
  BY <1>3, Names, ZenonT(30) DEF Hub
<1>6. /\ a.state = st /\ a.chars = k /\ a.job = s.job /\ a.dev = s.dev /\ a.target = s.target
      /\ a.client = s.client /\ a.op = s.op /\ a.cmd = s.cmd /\ a.ota = s.ota /\ a.auth = s.auth
      /\ a.later = s.later /\ a.retry = s.retry /\ a.tries = s.tries /\ a.leaving = s.leaving
  BY DEF Hub
<1> HIDE DEF a
<1>7. b \in Hub /\ b.known[a.dev] = q
  BY <1>1, <1>2, <1>5, <1>6, Learns
<1>8. /\ b.state = st /\ b.chars = k /\ b.job = s.job /\ b.dev = s.dev /\ b.target = s.target
      /\ b.client = s.client /\ b.op = s.op /\ b.cmd = s.cmd /\ b.ota = s.ota /\ b.auth = s.auth
      /\ b.later = s.later /\ b.retry = s.retry /\ b.tries = s.tries /\ b.leaving = s.leaving
  BY <1>5, <1>6 DEF Learn, Hub
<1> HIDE DEF b
<1>9. u \in Hub
  BY <1>7, ZenonT(30) DEF Hub, Op
<1>10. /\ u.state = st /\ u.chars = k /\ u.job = s.job /\ u.dev = s.dev /\ u.target = s.target
       /\ u.client = s.client /\ u.op = "dis" /\ u.cmd = "none" /\ u.ota = "off" /\ ~u.auth
       /\ u.later = {} /\ u.retry = s.retry /\ u.tries = s.tries /\ ~u.leaving
       /\ u.known = b.known
  BY <1>7, <1>8 DEF Hub
<1>11. Issue(b, "dis") = u
  BY <1>8 DEF Issue, Linked
<1> HIDE DEF u
<1>12. AtRest(u) /\ AtWork(u) /\ Wired(u) /\ Dialing(u) /\ Counted(u)
  BY <1>3, <1>10 DEF AtRest, AtWork, Wired, Dialing, Counted, Active, Rest, Linked, Flash
<1>13. Taken(u)
  BY <1>2, <1>6, <1>7, <1>10 DEF Taken
<1>14. Activating(u) /\ Commanded(u) /\ Flashing(u) /\ Verified(u)
  BY <1>3, <1>10 DEF Activating, Commanded, Flashing, Verified, Flash
<1>15. QED  BY <1>4, <1>9, <1>11, <1>12, <1>13, <1>14 DEF Inv

(* on_connected_(true) of every state. *)
LEMMA OnConnectedEnds ==
  ASSUME NEW h, Inv(h), h.client = "CONNECTING", h.ota = "off", h.later = {}
  PROVE  Inv(OnConnected([h EXCEPT !.client = "ESTABLISHED"]))
<1> DEFINE s == [h EXCEPT !.client = "ESTABLISHED"]
<1>1. h \in Hub /\ Active(h)
  BY DEF Inv, AtRest
<1>2. s \in Hub
  BY <1>1 DEF Hub
<1>3. /\ s.state = h.state /\ s.job = h.job /\ s.dev = h.dev /\ s.target = h.target
      /\ s.client = "ESTABLISHED" /\ s.op = h.op /\ s.cmd = h.cmd /\ s.chars = h.chars
      /\ s.ota = h.ota /\ s.auth = h.auth /\ s.later = h.later /\ s.stock = h.stock
      /\ s.retry = h.retry /\ s.tries = h.tries /\ s.leaving = h.leaving /\ s.known = h.known
      /\ s.erased = h.erased
  BY <1>1 DEF Hub
<1> HIDE DEF s
<1>9. s.retry => s.tries < MaxConnects /\ 1 < MaxConnects
  BY <1>3 DEF Inv, Counted
<1>10. /\ s.op = "none" /\ s.cmd = "none" /\ ~s.auth /\ ~s.leaving /\ Active(s) /\ AtWork(s)
       /\ Linked(s)
  BY <1>1, <1>3 DEF Inv, Wired, Linked, Activating, Counted, Active, AtWork, Flash
<1>5. s.dev \in Device /\ Kind(s.dev) \in {"custom", "stock"}
  BY <1>10, Devices DEF Kind
<1>6. CASE s.state = "RECONNECTING"
  <2> DEFINE a == [s EXCEPT !.state = "VERIFYING", !.verify = TRUE]
             q == [s.known[s.dev] EXCEPT !.cfg = None, !.dis = None]
             b == Learn(a, q)
  <2>1. q \in Snapshot
    <3>1. s.known[s.dev] \in Snapshot
      BY <1>2, <1>5 DEF Hub
    <3>2. None \in Image
      BY DEF Image
    <3>3. QED  BY <3>1, <3>2 DEF Snapshot
  <2>2. OnConnected(s) = Discover(b, Kind(s.dev))
    BY <1>6, <1>10 DEF OnConnected
  <2> HIDE DEF q
  <2>3. a \in Hub
    BY <1>2, Names DEF Hub
  <2>4. /\ a.state = "VERIFYING" /\ a.job = s.job /\ a.dev = s.dev /\ a.target = s.target
        /\ a.client = s.client /\ a.op = s.op /\ a.cmd = s.cmd /\ a.ota = s.ota /\ a.auth = s.auth
        /\ a.later = s.later /\ a.retry = s.retry /\ a.tries = s.tries /\ a.leaving = s.leaving
    BY <1>2 DEF Hub
  <2> HIDE DEF a
  <2>5. b \in Hub
    BY <1>5, <2>1, <2>3, <2>4, Learns
  <2>6. /\ b.state = "VERIFYING" /\ b.job = s.job /\ b.dev = s.dev /\ b.target = s.target
        /\ b.client = s.client /\ b.op = s.op /\ b.cmd = s.cmd /\ b.ota = s.ota /\ b.auth = s.auth
        /\ b.later = s.later /\ b.retry = s.retry /\ b.tries = s.tries /\ b.leaving = s.leaving
    BY <2>3, <2>4 DEF Learn, Hub
  <2> HIDE DEF b
  <2>7. Active(b) /\ AtWork(b) /\ Linked(b)
    BY <1>10, <2>6 DEF Active, Rest, AtWork, Linked, Flash
  <2>8. Inv(Discover(b, Kind(s.dev)))
    BY <1>3, <1>5, <1>9, <1>10, <2>5, <2>6, <2>7, DiscoverEnds
  <2>9. QED  BY <2>2, <2>8 DEF s
<1>7. CASE s.state = "CONNECTING"
  <2> DEFINE b == [s EXCEPT !.state = "CONNECTED"]
  <2>1. b \in Hub
    BY <1>2, Names DEF Hub
  <2>2. /\ b.state = "CONNECTED" /\ b.job = s.job /\ b.dev = s.dev /\ b.target = s.target
        /\ b.client = s.client /\ b.op = s.op /\ b.cmd = s.cmd /\ b.ota = s.ota /\ b.auth = s.auth
        /\ b.later = s.later /\ b.retry = s.retry /\ b.tries = s.tries /\ b.leaving = s.leaving
    BY <1>2 DEF Hub
  <2>3. OnConnected(s) = Discover(b, Kind(s.dev))
    BY <1>7, <1>10 DEF OnConnected
  <2> HIDE DEF b
  <2>4. Active(b) /\ AtWork(b) /\ Linked(b)
    BY <1>10, <2>2 DEF Active, Rest, AtWork, Linked, Flash
  <2>5. Inv(Discover(b, Kind(s.dev)))
    BY <1>3, <1>5, <1>9, <1>10, <2>1, <2>2, <2>4, DiscoverEnds
  <2>6. QED  BY <2>3, <2>5 DEF s
<1>8. CASE s.state \notin {"CONNECTING", "RECONNECTING"}
  <2>1. ~Taking(s) /\ ~Flash(s)
    BY <1>1, <1>3, <1>8 DEF Inv, Dialing, Taking, Flash
  <2>2. AtRest(s) /\ Wired(s) /\ Counted(s) /\ Dialing(s) /\ Taken(s)
    BY <1>8, <1>9, <1>10, <2>1 DEF AtRest, Wired, Counted, Dialing, Taken
  <2>3. Activating(s) /\ Commanded(s) /\ Flashing(s)
    BY <1>3, <1>10, <2>1 DEF Activating, Commanded, Flashing
  <2>4. Verified(s)
    BY <1>10, <2>1 DEF Verified
  <2>5. Inv(s)
    BY <1>2, <1>10, <2>2, <2>3, <2>4 DEF Inv
  <2>6. QED  BY <1>8, <2>5 DEF OnConnected, s
<1>11. QED  BY <1>6, <1>7, <1>8

----------------------------------------------------------------------------
(* The actions *)

(* The loop has run. *)
LEMMA LoopedEnds ==
  ASSUME NEW s, Inv(s)
  PROVE  Inv(Looped(s))
<1> DEFINE b == (s.later # {})
           u == [s EXCEPT !.looped = b]
<1>1. s \in Hub /\ b \in BOOLEAN /\ Looped(s) = u
  BY DEF Inv, Looped
<1> HIDE DEF b
<1>2. u \in Hub
  BY <1>1 DEF Hub
<1>3. Rides(u, s) /\ u.state = s.state
  BY <1>1 DEF Rides, Hub
<1> HIDE DEF u
<1>4. QED  BY <1>1, <1>2, <1>3, RidesInv

(* Hanging up on what is left of a session once its operation has ended. *)
LEMMA HangsUp ==
  ASSUME NEW s, Inv(s), s.op = "none", s.state \notin {"ACTIVATING", "READY"}
  PROVE  Inv(Hangup(s))
<1>1. s \in Hub
  BY DEF Inv
<1>2. CASE Active(s)
  <2>1. Leaves(s)
    BY <1>2 DEF Inv, Leaves, Wired, Counted, Activating, Verified
  <2>2. QED  BY <1>1, <2>1, HangupRuns
<1>3. CASE ~Active(s)
  <2> DEFINE u == Hangup(s)
  <2>1. /\ u \in Hub /\ u.client \in {"IDLE", "DISCONNECTING"} /\ u.ota # "on"
    BY <1>1, Hung
  <2>2. /\ u.state = s.state /\ u.job = s.job /\ u.dev = s.dev /\ u.auth = s.auth /\ u.op = s.op
        /\ u.retry = s.retry /\ u.tries = s.tries /\ u.cmd = s.cmd /\ u.known = s.known
        /\ u.target = s.target /\ u.leaving = s.leaving
    BY <1>1 DEF Hangup, Hub
  <2> HIDE DEF u
  <2>3. AtRest(u) /\ AtWork(u) /\ Wired(u) /\ Counted(u) /\ Dialing(u) /\ Taken(u)
    BY <1>3, <2>1, <2>2 DEF Inv, AtRest, AtWork, Wired, Counted, Dialing, Taken, Active, Linked
  <2>4. Activating(u) /\ Commanded(u) /\ Flashing(u) /\ Verified(u)
    BY <1>3, <2>2 DEF Inv, Activating, Commanded, Flashing, Verified, Active, Flash
  <2>5. Inv(u)
    BY <2>1, <2>3, <2>4 DEF Inv
  <2>6. QED  BY <2>5 DEF u
<1>4. QED  BY <1>2, <1>3

(* Without an operation in flight a callback starts none, and activates nothing. *)
LEMMA DisconnectIdle ==
  ASSUME NEW s \in Hub, s.op = "none"
  PROVE  Disconnect(s).op = "none" /\ Disconnect(s).state \in {s.state, "SUCCESS"}
<1>1. CASE s.client = "IDLE"
  BY <1>1 DEF Disconnect, Finish, Hub
<1>2. CASE s.client # "IDLE"
  <2> DEFINE u == [s EXCEPT !.leaving = TRUE, !.deadline = TRUE, !.op = "none"]
  <2>1. u \in Hub
    BY Nothing DEF Hub
  <2>2. u.op = "none" /\ u.state = s.state
    BY DEF Hub
  <2>3. Disconnect(s) = Hangup(Lost(u, "none", FailIdle(u)))
    BY <1>2 DEF Disconnect
  <2> HIDE DEF u
  <2>4. Lost(u, "none", FailIdle(u)) = u
    BY DEF Lost
  <2>5. Hangup(u).op = u.op /\ Hangup(u).state = u.state
    BY <2>1 DEF Hangup, Hub
  <2>6. QED  BY <2>2, <2>3, <2>4, <2>5
<1>3. QED  BY <1>1, <1>2

(* Nor does the callback of an operation with an error. *)
LEMMA LostIdle ==
  ASSUME NEW s \in Hub, s.op = "none", NEW o \in Op, Active(s) => s.dev \in Device,
         NEW f \in Hub, f.op = "none", f.state = "ERROR"
  PROVE  Lost(s, o, f).op = "none" /\ Lost(s, o, f).state \in {s.state, "WRITING", "ERROR"}
<1>1. Lost(s, o, f).op = "none"
  BY LostKeeps
<1> SUFFICES ASSUME Active(s)
             PROVE  Lost(s, o, f).state \in {s.state, "WRITING", "ERROR"}
  BY <1>1 DEF Lost
<1>2. CASE o = "dis"
  <2> DEFINE k == [s.known[s.dev] EXCEPT !.dis = None]
             u == Learn(s, k)
  <2>1. k \in Snapshot
    BY Snapshots DEF Hub, Image
  <2>2. Lost(s, o, f) = Defer(u, "identify")
    BY <1>2 DEF Lost
  <2> HIDE DEF k
  <2>3. u \in Hub
    BY <2>1, Learns
  <2>4. u.state = s.state
    BY DEF Learn, Hub
  <2> HIDE DEF u
  <2>5. QED  BY <2>2, <2>3, <2>4 DEF Defer, Hub
<1>3. CASE o = "env"
  BY <1>3 DEF Lost, Defer, Hub
<1>4. CASE o \in {"subCustom", "subAuth"}
  BY <1>4 DEF Lost
<1>5. CASE o = "subStock"
  BY <1>5 DEF Lost, Hub
<1>6. CASE o = "speed"
  <2>1. StartOta(s).state = "WRITING"
    BY DEF StartOta, Hub
  <2>2. QED  BY <1>6, <2>1 DEF Lost
<1>7. CASE o = "write"
  <2> DEFINE u == [s EXCEPT !.cmd = "none"]
  <2>1. u \in Hub
    BY Nothing DEF Hub
  <2>2. u.state = s.state
    BY DEF Hub
  <2>3. Lost(s, o, f) = IF s.cmd = "cfg" THEN Defer(u, "env") ELSE u
    BY <1>7 DEF Lost
  <2> HIDE DEF u
  <2>4. Defer(u, "env").state = u.state
    BY <2>1 DEF Defer, Hub
  <2>5. QED  BY <2>2, <2>3, <2>4
<1>8. CASE o \in {"none", "raw"}
  BY <1>8 DEF Lost
<1>9. QED  BY <1>2, <1>3, <1>4, <1>5, <1>6, <1>7, <1>8 DEF Op

(* Nor does that of a command. *)
LEMMA OpLostIdle ==
  ASSUME NEW s, Inv(s), s.op = "none", NEW o \in Op
  PROVE  /\ OpLost(s, o).op = "none"
         /\ OpLost(s, o).state \in {s.state, "WRITING", "ERROR", "SUCCESS"}
<1>1. /\ s \in Hub /\ (Active(s) => s.dev \in Device)
      /\ s.retry => s.tries < MaxConnects /\ 1 < MaxConnects
  BY Devices DEF Inv, Counted
<1>2. CASE o = "write" /\ s.cmd # "none"
  <2> DEFINE u == [s EXCEPT !.cmd = "none"]
  <2>1. u \in Hub
    BY <1>1, Nothing DEF Hub
  <2>2. /\ u.op = "none" /\ u.state = s.state /\ u.dev = s.dev /\ u.retry = s.retry
        /\ u.tries = s.tries
    BY <1>1 DEF Hub
  <2>3. OpLost(s, o) = CmdFailed(u, s.cmd)
    BY <1>2 DEF OpLost
  <2> HIDE DEF u
  <2>4. Active(u) => u.dev \in Device
    BY <1>1, <2>2 DEF Active
  <2>5. Fail(u).op = "none" /\ Fail(u).state = "ERROR"
    <3>1. Inv(Fail(u)) /\ Fail(u).state = "ERROR"
      BY <1>1, <2>1, <2>2, <2>4, FailEnds
    <3>2. QED  BY <3>1 DEF Inv, AtRest, Active, Rest
  <2>6. Defer(u, "env").op = "none" /\ Defer(u, "env").state = u.state
    BY <2>1, <2>2 DEF Defer, Hub
  <2>7. Disconnect(u).op = "none" /\ Disconnect(u).state \in {u.state, "SUCCESS"}
    BY <2>1, <2>2, DisconnectIdle
  <2>8. CmdFailed(u, s.cmd) \in {u, Defer(u, "env"), Disconnect(u), Fail(u)}
    BY DEF CmdFailed
  <2>9. QED  BY <2>2, <2>3, <2>5, <2>6, <2>7, <2>8
<1>3. CASE ~(o = "write" /\ s.cmd # "none")
  <2> DEFINE f == Fail(s)
  <2>1. Inv(f) /\ f.state = "ERROR"
    BY <1>1, FailEnds
  <2> HIDE DEF f
  <2>2. f \in Hub /\ f.op = "none"
    BY <2>1 DEF Inv, AtRest, Active, Rest
  <2>3. Lost(s, o, f).op = "none" /\ Lost(s, o, f).state \in {s.state, "WRITING", "ERROR"}
    BY <1>1, <2>1, <2>2, LostIdle
  <2>4. OpLost(s, o) = Lost(s, o, f)
    BY <1>3 DEF OpLost, f
  <2>5. QED  BY <2>3, <2>4
<1>4. QED  BY <1>2, <1>3

(* end_connection, outside of the states that wait for the gate. *)
LEMMA EndConnectionEnds ==
  ASSUME NEW s, Inv(s), s.state \notin {"ACTIVATING", "READY"}
  PROVE  Inv(EndConnection(s))
<1> DEFINE u == [s EXCEPT !.op = "none"]
           r == OpLost(u, s.op)
<1>1. /\ Inv(u) /\ Landed(u, s.op) /\ u.op = "none" /\ u.state = s.state /\ s.op \in Op
  <2>1. s.op \in Op
    BY DEF Inv, Hub
  <2>2. QED  BY <2>1, OpGone
<1>2. EndConnection(s) = Hangup(r)
  BY DEF EndConnection
<1> HIDE DEF u
<1>3. Inv(r)
  BY <1>1, OpLostEnds
<1>4. r.op = "none" /\ r.state \notin {"ACTIVATING", "READY"}
  BY <1>1, OpLostIdle
<1> HIDE DEF r
<1>5. QED  BY <1>2, <1>3, <1>4, HangsUp

(* Every action applies a handler. *)
LEMMA HandledEnds ==
  ASSUME IInv, NEW s, Inv(s), Handled(s) \/ InLoop(s) \/ Requested(s)
  PROVE  IInv'
<1>1. Inv(Looped(s))
  BY LoopedEnds
<1>2. requests' \in 0..MaxRequests
  BY SessionAssumption DEF IInv, Handled, InLoop, Requested
<1>3. QED  BY <1>1, <1>2 DEF IInv, Handled, InLoop, Requested

----------------------------------------------------------------------------
(* One lemma for each action that calls a handler *)

(* A deferred continuation runs, for its session or for a later one. *)
LEMMA StepRunDeferred ==
  ASSUME IInv, NEW step \in Step, RunDeferred(step)
  PROVE  IInv'
<1> DEFINE b == hub.looped /\ hub.later # {step}
           left == hub.later \ {step}
           s == [hub EXCEPT !.later = left, !.looped = b]
           r == IF Active(hub) THEN Proceed(s, step) ELSE s
<1>1. hub \in Hub /\ Inv(hub) /\ step \in hub.later
  BY DEF IInv, Inv, RunDeferred
<1>2. b \in BOOLEAN /\ left \subseteq hub.later /\ left \in SUBSET Step
  BY <1>1 DEF Hub
<1>3. Handled(r)
  BY DEF RunDeferred
<1> HIDE DEF b, left
<1>4. s \in Hub
  BY <1>1, <1>2 DEF Hub
<1>5. /\ s.state = hub.state /\ s.job = hub.job /\ s.dev = hub.dev /\ s.target = hub.target
      /\ s.client = hub.client /\ s.op = hub.op /\ s.cmd = hub.cmd /\ s.chars = hub.chars
      /\ s.ota = hub.ota /\ s.auth = hub.auth /\ s.later = left /\ s.retry = hub.retry
      /\ s.tries = hub.tries /\ s.leaving = hub.leaving /\ s.known = hub.known
      /\ s.erased = hub.erased
  BY <1>1 DEF Hub
<1> HIDE DEF s
<1>6. Loose(hub)
  BY <1>1, Unquiet DEF Quiet
<1>7. Inv(s) /\ Loose(s)
  BY <1>1, <1>2, <1>4, <1>5, <1>6, TakeUp
<1>8. CASE Active(hub)
  <2>1. Active(s)
    BY <1>5, <1>8 DEF Active
  <2>2. Taking(s) /\ Linked(s) /\ step # "identify" => s.chars = "custom"
    BY <1>1, <1>5, <1>8 DEF Inv, Taken, Taking, Linked
  <2>3. Inv(Proceed(s, step))
    BY <1>7, <2>1, <2>2, ProceedEnds
  <2>4. QED  BY <1>3, <1>8, <2>3, HandledEnds
<1>9. CASE ~Active(hub)
  BY <1>3, <1>7, <1>9, HandledEnds
<1>10. QED  BY <1>8, <1>9

(* The interval fires, for its session or for a later one. *)
LEMMA StepStockTick ==
  ASSUME IInv, StockTick
  PROVE  IInv'
<1> DEFINE s == [hub EXCEPT !.stock = FALSE]
           r == IF Active(hub) THEN Identified(s) ELSE s
<1>1. Inv(hub) /\ hub.stock /\ hub.later = {} /\ Handled(r)
  BY DEF IInv, StockTick
<1>2. Loose(hub)
  BY <1>1, Unquiet DEF Quiet
<1>3. /\ Inv(s) /\ Loose(s) /\ s.state = hub.state /\ s.job = hub.job /\ s.chars = hub.chars
      /\ s.client = hub.client /\ s.later = hub.later /\ s.cmd = hub.cmd
      /\ s.leaving = hub.leaving /\ s.stock = FALSE
  BY <1>1, <1>2, Samples
<1> HIDE DEF s
<1>4. CASE Active(hub)
  <2>1. Active(s)
    BY <1>3, <1>4 DEF Active
  <2>2. Taking(s) /\ s.chars = "stock" /\ Linked(s) => Quiet(s)
    BY <1>1, <1>3, <2>1 DEF Inv, Taken, Wired, Linked, Quiet
  <2>3. Inv(Identified(s))
    BY <1>3, <2>1, <2>2, IdentifiedEnds
  <2>4. QED  BY <1>1, <1>4, <2>3, HandledEnds
<1>5. CASE ~Active(hub)
  BY <1>1, <1>3, <1>5, HandledEnds
<1>6. QED  BY <1>4, <1>5

(* The retry of a connect attempt, which may meet another session. *)
LEMMA StepRetryTimer ==
  ASSUME IInv, RetryTimer
  PROVE  IInv'
<1> DEFINE s == [hub EXCEPT !.retry = FALSE]
           r == IF hub.state = "CONNECTING" /\ hub.client = "IDLE" THEN Connect(s) ELSE s
<1>1. hub \in Hub /\ Inv(hub) /\ hub.retry /\ Handled(r)
  BY DEF IInv, Inv, RetryTimer
<1>2. s \in Hub
  BY <1>1 DEF Hub
<1>3. /\ s.state = hub.state /\ s.job = hub.job /\ s.dev = hub.dev /\ s.target = hub.target
      /\ s.client = hub.client /\ s.op = hub.op /\ s.cmd = hub.cmd /\ s.chars = hub.chars
      /\ s.ota = hub.ota /\ s.auth = hub.auth /\ s.later = hub.later /\ s.stock = hub.stock
      /\ ~s.retry /\ s.tries = hub.tries /\ s.leaving = hub.leaving /\ s.known = hub.known
      /\ s.erased = hub.erased
  BY <1>1 DEF Hub
<1> HIDE DEF s
<1>4. CASE hub.state = "CONNECTING" /\ hub.client = "IDLE"
  <2>1. Active(hub)
    BY <1>4 DEF Active, Rest
  <2>2. /\ s.job \in Job /\ s.dev = s.job.dev /\ (Flash(s) => s.target = s.job.fw)
        /\ s.op = "none" /\ s.cmd = "none" /\ ~s.auth /\ s.ota # "on"
        /\ s.tries < MaxConnects /\ ~s.retry
    BY <1>1, <1>3, <1>4, <2>1 DEF Inv, AtWork, Wired, Activating, Flashing, Counted, Linked, Flash
  <2>3. Inv(Connect(s))
    BY <1>2, <2>2, ConnectEnds
  <2>4. QED  BY <1>1, <1>4, <2>3, HandledEnds
<1>5. CASE ~(hub.state = "CONNECTING" /\ hub.client = "IDLE")
  <2>1. AtRest(s) /\ AtWork(s) /\ Wired(s) /\ Counted(s) /\ Dialing(s) /\ Taken(s)
    BY <1>1, <1>3 DEF Inv, AtRest, AtWork, Wired, Counted, Dialing, Taken, Active, Linked, Flash,
       Taking
  <2>2. Activating(s)
    BY <1>1, <1>3 DEF Inv, Activating, Active, Flash, Taking, Quiet, Gated
  <2>3. Commanded(s) /\ Flashing(s) /\ Verified(s)
    BY <1>1, <1>3 DEF Inv, Commanded, Flashing, Verified, Active, Flash, Quiet, Gated
  <2>4. Inv(s)
    BY <1>2, <2>1, <2>2, <2>3 DEF Inv
  <2>5. QED  BY <1>1, <1>5, <2>4, HandledEnds
<1>6. QED  BY <1>4, <1>5

(* The connection is lost with an operation in flight or without. *)
LEMMA StepLinkLost ==
  ASSUME IInv, LinkLost
  PROVE  IInv'
<1> DEFINE u == [hub EXCEPT !.client = "DISCONNECTING", !.op = "none"]
<1>1. Inv(hub) /\ Linked(hub) /\ hub.op \in Op /\ Handled(OpLost(u, hub.op))
  BY DEF IInv, LinkLost, Linked, Inv, Hub
<1>2. Inv(u) /\ Landed(u, hub.op)
  BY <1>1, LinkGone
<1> HIDE DEF u
<1>3. QED  BY <1>1, <1>2, OpLostEnds, HandledEnds

(* The client has closed the connection, or did not open one. *)
LEMMA StepClosed ==
  ASSUME IInv, ClientClosed \/ OpenFailed
  PROVE  IInv'
<1>1. /\ Inv(hub) /\ hub.client \in {"CONNECTING", "DISCONNECTING"}
      /\ Handled(OnDisconnected([hub EXCEPT !.client = "IDLE"]))
  BY DEF IInv, ClientClosed, OpenFailed
<1>2. QED  BY <1>1, OnDisconnectedEnds, HandledEnds

(* An operation is answered. *)
LEMMA StepOpAnswered ==
  ASSUME IInv, OpAnswered
  PROVE  IInv'
<1> DEFINE u == [hub EXCEPT !.op = "none"]
<1>1. Inv(hub) /\ Linked(hub) /\ hub.op \in Op /\ Handled(OpDone(u, hub.op))
  BY DEF IInv, OpAnswered, Inv, Hub
<1>2. Inv(u) /\ Landed(u, hub.op) /\ u.op = "none" /\ u.client = hub.client
  BY <1>1, OpGone
<1> HIDE DEF u
<1>3. Linked(u)
  BY <1>1, <1>2 DEF Linked
<1>4. Inv(OpDone(u, hub.op))
  BY <1>1, <1>2, <1>3, OpDoneEnds DEF IInv
<1>5. QED  BY <1>1, <1>4, HandledEnds

(* An operation gives up. *)
LEMMA StepOpFails ==
  ASSUME IInv, OpFails
  PROVE  IInv'
<1> DEFINE u == [hub EXCEPT !.op = "none"]
<1>1. Inv(hub) /\ hub.op \in Op /\ Handled(OpLost(u, hub.op))
  BY DEF IInv, OpFails, Inv, Hub
<1>2. Inv(u) /\ Landed(u, hub.op)
  BY <1>1, OpGone
<1> HIDE DEF u
<1>3. QED  BY <1>1, <1>2, OpLostEnds, HandledEnds

(* A command is answered. *)
LEMMA StepNotify ==
  ASSUME IInv, Notify
  PROVE  IInv'
<1>1. Inv(hub) /\ Linked(hub) /\ hub.cmd # "none"
  BY DEF IInv, Notify
<1>2. PICK reply \in {"ready", "busy", "refused"} :
        Handled(CmdDone([hub EXCEPT !.cmd = "none"], hub.cmd, reply))
  BY DEF Notify
<1>3. Inv(CmdDone([hub EXCEPT !.cmd = "none"], hub.cmd, reply))
  BY <1>1, CmdDoneEnds DEF IInv
<1>4. QED  BY <1>2, <1>3, HandledEnds

(* The tracker begins to connect. *)
LEMMA StepPromote ==
  ASSUME IInv, Promote
  PROVE  IInv'
<1> DEFINE s == [hub EXCEPT !.client = "CONNECTING"]
<1>1. hub \in Hub /\ Inv(hub) /\ hub.client = "DISCOVERED" /\ Handled(s)
  BY DEF IInv, Inv, Promote
<1>2. s \in Hub
  BY <1>1 DEF Hub
<1>3. /\ s.state = hub.state /\ s.job = hub.job /\ s.dev = hub.dev /\ s.target = hub.target
      /\ s.client = "CONNECTING" /\ s.op = hub.op /\ s.cmd = hub.cmd /\ s.chars = hub.chars
      /\ s.ota = hub.ota /\ s.auth = hub.auth /\ s.later = hub.later /\ s.stock = hub.stock
      /\ s.retry = hub.retry /\ s.tries = hub.tries /\ s.leaving = hub.leaving
      /\ s.known = hub.known /\ s.erased = hub.erased
  BY <1>1 DEF Hub
<1> HIDE DEF s
<1>4. AtRest(s) /\ AtWork(s) /\ Wired(s) /\ Counted(s) /\ Dialing(s) /\ Taken(s)
  BY <1>1, <1>3 DEF Inv, AtRest, AtWork, Wired, Counted, Dialing, Taken, Active, Linked, Flash, Taking
<1>5. Activating(s)
  BY <1>1, <1>3 DEF Inv, Activating, Active, Flash, Taking, Quiet, Gated
<1>6. Commanded(s) /\ Flashing(s) /\ Verified(s)
  BY <1>1, <1>3 DEF Inv, Commanded, Flashing, Verified, Active, Flash
<1>7. Inv(s)
  BY <1>2, <1>4, <1>5, <1>6 DEF Inv
<1>8. QED  BY <1>1, <1>7, HandledEnds

(* A connection is there. *)
LEMMA StepEstablished ==
  ASSUME IInv, Established, hub.later = {}
  PROVE  IInv'
<1>1. /\ Inv(hub) /\ hub.client = "CONNECTING" /\ hub.ota = "off"
      /\ Handled(OnConnected([hub EXCEPT !.client = "ESTABLISHED"]))
  BY DEF IInv, Established
<1>2. QED  BY <1>1, OnConnectedEnds, HandledEnds

(* A command gives up. *)
LEMMA StepCmdTimeout ==
  ASSUME IInv, CmdTimeout
  PROVE  IInv'
<1>1. Inv(hub) /\ hub.cmd # "none"
  BY DEF IInv, CmdTimeout
<1>2. Inv(CmdFailed([hub EXCEPT !.cmd = "none"], hub.cmd))
  BY <1>1, CmdEnds
<1>3. QED  BY <1>2, HandledEnds DEF CmdTimeout

(* A step gives up: another attempt after an OTA, the end of the session otherwise. *)
LEMMA StepStepTimeout ==
  ASSUME IInv, StepTimeout
  PROVE  IInv'
<1> DEFINE s == [hub EXCEPT !.deadline = FALSE]
           r == IF hub.state \notin {"REBOOTING", "RECONNECTING"} THEN Fail(s)
                ELSE IF hub.vtries < MaxVerify THEN TryAgain(EndConnection(s)) ELSE Fail(s)
<1>1. /\ Inv(hub) /\ Active(hub) /\ hub \in Hub /\ InLoop(r)
      /\ hub.state = "REBOOTING" => hub.cmd = "none" /\ hub.op = "none"
  BY DEF IInv, StepTimeout, Inv
<1>2. s \in Hub
  BY <1>1 DEF Hub
<1>3. Rides(s, hub) /\ s.state = hub.state
  BY <1>1 DEF Rides, Hub
<1> HIDE DEF s
<1>4. Inv(s) /\ Active(s)
  BY <1>1, <1>2, <1>3, RidesInv DEF Active
<1>5. Inv(Fail(s))
  BY <1>2, <1>4, FailEnds, Devices DEF Inv, Counted
<1>6. CASE hub.state \in {"REBOOTING", "RECONNECTING"}
  <2> DEFINE u == [s EXCEPT !.op = "none"]
             v == Hangup(u)
  <2>1. s.op = "none" /\ s.cmd = "none"
    BY <1>1, <1>3, <1>4, <1>6 DEF Inv, Wired, Rides
  <2>2. Inv(u) /\ u.op = "none" /\ u.state = s.state
    BY <1>4, OpGone
  <2>3. u.cmd = "none" /\ u \in Hub
    BY <1>2, <2>1, <2>2 DEF Hub, Inv
  <2>4. EndConnection(s) = Hangup(OpLost(u, "none"))
    BY <2>1 DEF EndConnection
  <2> HIDE DEF u
  <2>5. EndConnection(s) = v
    BY <2>4 DEF OpLost, Lost
  <2>6. Inv(v)
    BY <1>3, <1>6, <2>2, HangsUp
  <2>7. v \in Hub /\ v.client \in {"IDLE", "DISCONNECTING"} /\ v.ota # "on"
    BY <2>3, Hung
  <2>8. v.op = "none" /\ v.cmd = "none" /\ v.state = s.state
    BY <2>2, <2>3 DEF Hangup, Hub
  <2> HIDE DEF v
  <2>9. Leaves(v)
    BY <1>3, <1>6, <2>6, <2>8 DEF Inv, Leaves, Activating, Counted, Verified, Active, Rest
  <2>10. Inv(TryAgain(v))
    BY <2>7, <2>8, <2>9, TryAgainEnds
  <2>11. Inv(r)
    BY <1>5, <2>5, <2>10
  <2>12. QED  BY <1>1, <2>11, HandledEnds
<1>7. CASE hub.state \notin {"REBOOTING", "RECONNECTING"}
  BY <1>1, <1>5, <1>7, HandledEnds
<1>8. QED  BY <1>6, <1>7

(* The device keeps the link after an OTA: it is closed. *)
LEMMA StepFallback ==
  ASSUME IInv, Fallback
  PROVE  IInv'
<1> DEFINE s == [hub EXCEPT !.otaEnd = FALSE]
<1>1. /\ Inv(hub) /\ hub \in Hub /\ InLoop(EndConnection(s)) /\ hub.state = "REBOOTING"
  BY DEF IInv, Fallback, Inv
<1>2. s \in Hub
  BY <1>1 DEF Hub
<1>3. Rides(s, hub) /\ s.state = hub.state
  BY <1>1 DEF Rides, Hub
<1> HIDE DEF s
<1>4. Inv(s)
  BY <1>1, <1>2, <1>3, RidesInv
<1>5. Inv(EndConnection(s))
  BY <1>1, <1>3, <1>4, EndConnectionEnds
<1>6. QED  BY <1>1, <1>5, HandledEnds

(* The reboot is over. *)
LEMMA StepReconnectDue ==
  ASSUME IInv, ReconnectDue
  PROVE  IInv'
<1> DEFINE a == [hub EXCEPT !.state = "RECONNECTING", !.reconnect = FALSE, !.leaving = FALSE]
           s == [a EXCEPT !.client = "DISCOVERED", !.deadline = TRUE]
<1>1. /\ Inv(hub) /\ hub \in Hub /\ hub.state = "REBOOTING" /\ hub.client = "IDLE"
      /\ hub.cmd = "none" /\ InLoop(s)
  BY DEF IInv, ReconnectDue, Inv
<1>2. a \in Hub
  BY <1>1, Names DEF Hub
<1>3. /\ a.state = "RECONNECTING" /\ a.job = hub.job /\ a.dev = hub.dev /\ a.target = hub.target
      /\ a.client = hub.client /\ a.op = hub.op /\ a.cmd = hub.cmd /\ a.ota = hub.ota
      /\ a.auth = hub.auth /\ a.retry = hub.retry /\ a.tries = hub.tries /\ ~a.leaving
      /\ a.known = hub.known
  BY <1>1 DEF Hub
<1> HIDE DEF a
<1>4. s \in Hub
  BY <1>2 DEF Hub
<1>5. /\ s.state = "RECONNECTING" /\ s.job = hub.job /\ s.dev = hub.dev /\ s.target = hub.target
      /\ s.client = "DISCOVERED" /\ s.op = hub.op /\ s.cmd = hub.cmd /\ s.ota = hub.ota
      /\ s.auth = hub.auth /\ s.retry = hub.retry /\ s.tries = hub.tries /\ ~s.leaving
      /\ s.known = hub.known
  BY <1>2, <1>3 DEF Hub
<1> HIDE DEF s
<1>6. Active(hub) /\ hub.op = "none" /\ ~hub.auth /\ hub.ota # "on"
  BY <1>1 DEF Inv, Active, Rest, Wired, Linked, Activating, Flashing
<1>7. AtRest(s) /\ AtWork(s) /\ Wired(s) /\ Counted(s) /\ Dialing(s) /\ Taken(s)
  BY <1>1, <1>5, <1>6 DEF Inv, AtRest, AtWork, Wired, Counted, Dialing, Taken, Active, Rest,
     Linked, Flash
<1>8. Activating(s) /\ Commanded(s) /\ Flashing(s) /\ Verified(s)
  BY <1>1, <1>5, <1>6 DEF Activating, Commanded, Flashing, Verified, Flash
<1>9. Inv(s)
  BY <1>4, <1>7, <1>8 DEF Inv
<1>10. QED  BY <1>1, <1>9, HandledEnds

(* A held connection is ended. *)
LEMMA StepEndHold ==
  ASSUME IInv, Holding, EndHold
  PROVE  IInv'
<1> DEFINE s == [hub EXCEPT !.hold = FALSE]
<1>1. /\ Inv(hub) /\ hub \in Hub /\ InLoop(Disconnect(s)) /\ hub.state = "READY"
      /\ hub.job.type = "CONNECT"
  BY DEF IInv, EndHold, Holding, Inv
<1>2. s \in Hub
  BY <1>1 DEF Hub
<1>3. Rides(s, hub) /\ s.state = hub.state
  BY <1>1 DEF Rides, Hub
<1> HIDE DEF s
<1>4. Inv(s) /\ Active(s) /\ ~Taking(s) /\ ~Flash(s)
  BY <1>1, <1>2, <1>3, RidesInv DEF Active, Rest, Taking, Flash, Rides
<1>5. Inv(Disconnect(s))
  BY <1>4, Other, DisconnectEnds
<1>6. QED  BY <1>1, <1>5, HandledEnds

(* A device with stock firmware is activated: its OTA begins with the slow connection. *)
LEMMA Activated ==
  ASSUME NEW s, Inv(s), Active(s), Flash(s), s.state = "ACTIVATING", s.op = "none", ~s.auth, Linked(s)
  PROVE  Inv(PrepareOta(s))
<1> DEFINE t == [s EXCEPT !.state = "READY"]
           u == [t EXCEPT !.op = "speed"]
<1>1. s \in Hub /\ Gated(s) /\ Quiet(s) /\ s.ota # "on"
  BY DEF Inv, Activating, Flashing
<1>2. t \in Hub
  BY <1>1, Names DEF Hub
<1>3. t.state = "READY" /\ Rides(t, s)
  BY <1>1 DEF Rides, Hub
<1>4. PrepareOta(s) = Issue(t, "speed")
  BY <1>1 DEF PrepareOta, Gated
<1> HIDE DEF t
<1>5. PrepareOta(s) = u
  BY <1>3, <1>4 DEF Issue, Rides, Linked
<1>6. u \in Hub
  BY <1>2 DEF Hub, Op
<1>7. /\ u.state = "READY" /\ u.op = "speed" /\ u.job = s.job /\ u.dev = s.dev
      /\ u.target = s.target /\ u.client = s.client /\ u.cmd = s.cmd /\ u.chars = s.chars
      /\ u.ota = s.ota /\ u.auth = s.auth /\ u.later = s.later /\ u.stock = s.stock
      /\ u.retry = s.retry /\ u.tries = s.tries /\ u.leaving = s.leaving /\ u.known = s.known
  BY <1>2, <1>3 DEF Hub, Rides
<1> HIDE DEF u
<1>8. AtRest(u) /\ AtWork(u) /\ Wired(u) /\ Counted(u) /\ Dialing(u) /\ Taken(u)
  BY <1>1, <1>7 DEF Inv, AtRest, AtWork, Wired, Counted, Dialing, Taken, Active, Rest, Linked,
                    Flash, Taking, Gated, Quiet
<1>9. Activating(u)
  BY <1>1, <1>7 DEF Activating, Flash, Gated, Quiet
<1>10. Commanded(u) /\ Flashing(u) /\ Verified(u)
  BY <1>1, <1>7 DEF Commanded, Flashing, Verified, Quiet
<1>11. QED  BY <1>5, <1>6, <1>8, <1>9, <1>10 DEF Inv

(* A verdict of the authentication. *)
LEMMA StepAuthEnds ==
  ASSUME IInv, AuthEnds
  PROVE  IInv'
<1> DEFINE s == [hub EXCEPT !.auth = FALSE]
<1>1. /\ Inv(hub) /\ hub \in Hub /\ hub.auth
      /\ \/ Linked(hub) /\ Handled(IF hub.job.type = "ACTIVATE" THEN Disconnect(s) ELSE PrepareOta(s))
         \/ Handled(Fail(s))
  BY DEF IInv, AuthEnds, Inv
<1>2. Active(hub) /\ Taking(hub) /\ hub.state = "ACTIVATING" /\ hub.op = "none" /\ Quiet(hub)
  BY <1>1 DEF Inv, AtRest, Activating
<1>3. s \in Hub
  BY <1>1 DEF Hub
<1>4. /\ s.state = hub.state /\ s.job = hub.job /\ s.dev = hub.dev /\ s.target = hub.target
      /\ s.client = hub.client /\ s.op = hub.op /\ s.cmd = hub.cmd /\ s.chars = hub.chars
      /\ s.ota = hub.ota /\ ~s.auth /\ s.later = hub.later /\ s.stock = hub.stock
      /\ s.retry = hub.retry /\ s.tries = hub.tries /\ s.leaving = hub.leaving
      /\ s.known = hub.known /\ s.erased = hub.erased
  BY <1>1 DEF Hub
<1> HIDE DEF s
<1>5. AtRest(s) /\ AtWork(s) /\ Wired(s) /\ Counted(s) /\ Dialing(s) /\ Taken(s)
  BY <1>1, <1>4 DEF Inv, AtRest, AtWork, Wired, Counted, Dialing, Taken, Active, Linked, Flash, Taking
<1>6. Activating(s) /\ Commanded(s)
  BY <1>1, <1>4 DEF Inv, Activating, Commanded, Active, Flash, Taking, Gated, Quiet
<1>7. Flashing(s) /\ Verified(s)
  BY <1>1, <1>4 DEF Inv, Flashing, Verified, Active, Flash, Gated, Quiet
<1>8. Inv(s) /\ Active(s)
  BY <1>2, <1>3, <1>4, <1>5, <1>6, <1>7 DEF Inv, Active
<1>9. Inv(Fail(s))
  BY <1>8, FailEnds, Devices DEF Inv, Counted
<1>10. CASE Handled(Fail(s))
  BY <1>9, <1>10, HandledEnds
<1>11. CASE Linked(hub) /\ hub.job.type = "ACTIVATE" /\ Handled(Disconnect(s))
  <2>1. Loose(s) /\ ~Flash(s)
    BY <1>2, <1>4, <1>8, <1>11 DEF Inv, Flashing, Loose, Flash
  <2>2. Inv(Disconnect(s))
    BY <1>8, <2>1, DisconnectEnds
  <2>3. QED  BY <1>11, <2>2, HandledEnds
<1>12. CASE Linked(hub) /\ hub.job.type # "ACTIVATE" /\ Handled(PrepareOta(s))
  <2>1. Flash(s) /\ Linked(s)
    BY <1>2, <1>4, <1>12 DEF Taking, Flash, Linked
  <2>2. Inv(PrepareOta(s))
    BY <1>2, <1>4, <1>8, <2>1, Activated
  <2>3. QED  BY <1>12, <2>2, HandledEnds
<1>13. QED  BY <1>1, <1>10, <1>11, <1>12

(* A transfer that its verdict ends leaves nothing of itself. *)
LEMMA OtaOver ==
  ASSUME NEW h, Inv(h), Active(h) => h.ota = "on"
  PROVE  Inv([h EXCEPT !.ota = "off"])
<1> DEFINE s == [h EXCEPT !.ota = "off"]
<1>1. h \in Hub
  BY DEF Inv
<1>2. s \in Hub
  BY <1>1 DEF Hub
<1>3. /\ s.state = h.state /\ s.job = h.job /\ s.dev = h.dev /\ s.target = h.target
      /\ s.client = h.client /\ s.op = h.op /\ s.cmd = h.cmd /\ s.chars = h.chars
      /\ s.ota = "off" /\ s.auth = h.auth /\ s.later = h.later /\ s.stock = h.stock
      /\ s.retry = h.retry /\ s.tries = h.tries /\ s.leaving = h.leaving
      /\ s.known = h.known /\ s.erased = h.erased
  BY <1>1 DEF Hub
<1> HIDE DEF s
<1>4. AtRest(s) /\ AtWork(s) /\ Wired(s) /\ Counted(s) /\ Taken(s)
  BY <1>3 DEF Inv, AtRest, AtWork, Wired, Counted, Taken, Active, Linked, Flash, Taking
<1>5. Dialing(s)
  BY <1>3 DEF Inv, Flashing, Dialing, Active
<1>6. Activating(s) /\ Commanded(s) /\ Flashing(s) /\ Verified(s)
  BY <1>3 DEF Inv, Activating, Commanded, Flashing, Verified, Active, Flash, Taking, Gated, Quiet
<1>7. Inv(s)
  BY <1>2, <1>4, <1>5, <1>6 DEF Inv
<1>8. QED  BY <1>7 DEF s

(* A verdict of the transfer, or the end of one without a connection. *)
LEMMA StepOtaEnds ==
  ASSUME IInv, OtaEnds
  PROVE  IInv'
<1> DEFINE s == [hub EXCEPT !.ota = "off"]
<1>1. hub \in Hub /\ Inv(hub) /\ installed \in [Device -> Version] /\ requests' = requests
  BY DEF IInv, Inv, OtaEnds
<1>2. requests' \in 0..MaxRequests
  BY <1>1 DEF IInv
<1>3. s \in Hub
  BY <1>1 DEF Hub
<1>4. s.state = hub.state /\ s.dev = hub.dev /\ s.retry = hub.retry /\ s.tries = hub.tries
  BY <1>1 DEF Hub
<1>5. CASE ~Active(hub)
  <2>1. Inv(s)
    BY <1>1, <1>5, OtaOver
  <2>2. QED  BY <1>1, <1>2, <1>5, <2>1 DEF OtaEnds, IInv
<1>6. CASE Active(hub)
  <2>1. Inv(Fail(s))
    <3> HIDE DEF s
    <3>1. (Active(s) => s.dev \in Device) /\ (s.retry => s.tries < MaxConnects /\ 1 < MaxConnects)
      BY <1>1, <1>4, <1>6, Devices DEF Inv, Counted
    <3>2. QED  BY <1>3, <3>1, FailEnds
  <2>2. CASE hub.ota = "cut"
    BY <1>1, <1>2, <1>6, <2>1, <2>2 DEF OtaEnds, IInv
  <2>3. CASE hub.ota = "on"
    <3> DEFINE again == (hub.client = "IDLE")
    <3>1. /\ installed' \in {installed, [installed EXCEPT ![hub.dev] = hub.target]}
          /\ \/ \E lost \in BOOLEAN :
                  hub' = [s EXCEPT !.state = "REBOOTING", !.vtries = 0, !.otaEnd = TRUE,
                                   !.reconnect = again, !.deadline = TRUE, !.renamed = lost]
             \/ hub' = Fail(s)
      BY <1>6, <2>3 DEF OtaEnds
    <3>2. installed' \in [Device -> Version]
      <4>1. hub.dev \in Device /\ hub.target \in Version
        BY <1>1, <1>6, <2>3 DEF Inv, AtWork, Flashing, Flash, Job
      <4>2. QED  BY <1>1, <3>1, <4>1
    <3>3. Inv(s)
      BY <1>1, <2>3, OtaOver
    <3>4. CASE hub' = Fail(s)
      BY <1>2, <2>1, <3>2, <3>4 DEF IInv
    <3>5. ASSUME NEW lost \in BOOLEAN,
                 hub' = [s EXCEPT !.state = "REBOOTING", !.vtries = 0, !.otaEnd = TRUE,
                                  !.reconnect = again, !.deadline = TRUE, !.renamed = lost]
          PROVE  IInv'
      <4> DEFINE a == [s EXCEPT !.state = "REBOOTING", !.vtries = 0, !.otaEnd = TRUE]
                 u == [a EXCEPT !.reconnect = again, !.deadline = TRUE, !.renamed = lost]
      <4>1. again \in BOOLEAN /\ hub' = u
        BY <3>5
      <4>2. /\ Flash(hub) /\ hub.client \in {"ESTABLISHED", "DISCONNECTING"} /\ ~hub.leaving
            /\ hub.state \in {"WRITING", "ERASING"} /\ s.ota = "off" /\ s.job = hub.job
            /\ s.leaving = hub.leaving /\ s.client = hub.client /\ s.auth = hub.auth /\ s.op = hub.op
        BY <1>1, <1>6, <2>3 DEF Inv, Flashing, Hub
      <4> HIDE DEF again, s
      <4>3. 0 \in 0..MaxVerify
        BY SessionAssumption
      <4>4. a \in Hub
        BY <1>3, <4>3, Names DEF Hub
      <4>5. a.state = "REBOOTING" /\ Rides(a, s)
        BY <1>3 DEF Rides, Hub
      <4> HIDE DEF a
      <4>6. u \in Hub
        BY <4>1, <4>4 DEF Hub
      <4>7. u.state = "REBOOTING" /\ Rides(u, s)
        BY <4>4, <4>5 DEF Rides, Hub
      <4> HIDE DEF u
      <4>8. Active(s) /\ ~s.auth /\ s.op \notin {"subAuth", "speed"} /\ ~s.leaving
        BY <1>1, <1>4, <1>6, <4>2 DEF Inv, Activating, Active
      <4>9. AtRest(u) /\ AtWork(u) /\ Wired(u) /\ Counted(u) /\ Dialing(u) /\ Taken(u)
        BY <3>3, <4>2, <4>7, <4>8 DEF Inv, AtRest, AtWork, Wired, Counted, Dialing, Taken,
           Active, Rest,
                                      Linked, Flash, Taking, Rides
      <4>10. Activating(u) /\ Commanded(u) /\ Flashing(u) /\ Verified(u)
        BY <3>3, <4>2, <4>7, <4>8 DEF Inv, Activating, Commanded, Flashing, Verified, Flash, Rides
      <4>11. Inv(u)
        BY <4>6, <4>9, <4>10 DEF Inv
      <4>12. QED  BY <1>2, <3>2, <4>1, <4>11 DEF IInv
    <3>6. QED  BY <3>1, <3>4, <3>5
  <2>4. QED  BY <1>1, <1>6, <2>2, <2>3 DEF OtaEnds, Hub
<1>7. QED  BY <1>5, <1>6

(* start_job_ after the rest: the job connects, or fails without an image. *)
LEMMA BegunEnds ==
  ASSUME NEW s \in Hub, AtRest(s), ~Active(s), Counted(s), NEW j \in Job
  PROVE  Inv(Start(s, j)) /\ Inv(Fail(Begun(s, j)))
<1> DEFINE a == [s EXCEPT !.job = j, !.dev = j.dev]
           b == [a EXCEPT !.tries = 0, !.vtries = 0, !.cmd = "none"]
           v == IF j.type = "FLASH" THEN j.fw ELSE b.target
           c == [b EXCEPT !.hold = FALSE, !.target = v]
<1>1. j.dev \in Device /\ 0 \in 0..MaxConnects /\ 0 \in 0..MaxVerify
  BY SessionAssumption DEF Job
<1>2. a \in Hub
  BY <1>1 DEF Hub
<1>3. /\ a.job = j /\ a.dev = j.dev /\ a.client = s.client /\ a.op = s.op
      /\ a.auth = s.auth /\ a.ota = s.ota /\ a.retry = s.retry
  BY DEF Hub
<1>4. Begun(s, j) = b
  BY DEF Begun
<1>5. Start(s, j) = Connect(c)
  BY <1>4 DEF Start
<1> HIDE DEF a
<1>6. b \in Hub
  BY <1>1, <1>2, Nothing DEF Hub
<1>7. /\ b.job = j /\ b.dev = j.dev /\ b.client = s.client /\ b.op = s.op /\ b.tries = 0
      /\ b.auth = s.auth /\ b.ota = s.ota /\ b.retry = s.retry /\ b.cmd = "none"
  BY <1>2, <1>3 DEF Hub
<1> HIDE DEF b
<1>8. v \in Image /\ (j.type = "FLASH" => v = j.fw)
  BY <1>6 DEF Hub, Job, Image
<1> HIDE DEF v
<1>15. c \in Hub
  BY <1>6, <1>8 DEF Hub
<1>9. /\ c.job = j /\ c.dev = j.dev /\ c.op = s.op /\ c.tries = 0
      /\ c.auth = s.auth /\ c.ota = s.ota /\ c.retry = s.retry /\ c.cmd = "none"
      /\ j.type = "FLASH" => c.target = j.fw
  BY <1>6, <1>7, <1>8 DEF Hub
<1> HIDE DEF c
<1>10. s.op = "none" /\ ~s.auth /\ s.ota # "on" /\ (s.retry => 1 < MaxConnects)
  BY DEF AtRest, Counted
<1>11. 0 < MaxConnects
  BY SessionAssumption
<1>12. Inv(Connect(c))
  BY <1>9, <1>10, <1>11, <1>15, ConnectEnds DEF Flash
<1>13. Inv(Fail(b))
  BY <1>1, <1>6, <1>7, <1>10, <1>11, FailEnds
<1>14. QED  BY <1>4, <1>5, <1>12, <1>13

(* What the queues hold. *)
LEMMA Queued ==
  ASSUME NEW h, h = hub, Inv(h), h.jobs \o h.updates # <<>>
  PROVE  /\ NextJob \in Job /\ Dequeued \in Hub /\ Rides(Dequeued, h) /\ Dequeued.state = h.state
<1>1. h \in Hub /\ h.jobs \in Seq(Job) /\ h.updates \in Seq(Device)
  BY DEF Inv, Hub
<1>2. CASE h.jobs # <<>>
  <2> DEFINE q == Tail(h.jobs)
             u == [h EXCEPT !.jobs = q]
  <2>1. Head(h.jobs) \in Job /\ q \in Seq(Job)
    BY <1>1, <1>2
  <2>2. NextJob = Head(h.jobs) /\ Dequeued = u
    BY <1>2 DEF NextJob, Dequeued
  <2> HIDE DEF q
  <2>3. u \in Hub
    BY <1>1, <2>1, ZenonT(30) DEF Hub
  <2>4. Rides(u, h) /\ u.state = h.state
    BY <1>1 DEF Rides, Hub
  <2>5. QED  BY <2>1, <2>2, <2>3, <2>4
<1>3. CASE h.jobs = <<>>
  <2> DEFINE q == Tail(h.updates)
             u == [h EXCEPT !.updates = q]
  <2>1. h.updates # <<>>
    BY <1>1, <1>3
  <2>2. Head(h.updates) \in Device /\ q \in Seq(Device)
    BY <1>1, <2>1
  <2>3. NextJob = JobOf("FLASH", Head(h.updates), Latest) /\ Dequeued = u
    BY <1>3 DEF NextJob, Dequeued
  <2> HIDE DEF q
  <2>4. u \in Hub
    BY <1>1, <2>2, ZenonT(30) DEF Hub
  <2>5. Rides(u, h) /\ u.state = h.state
    BY <1>1 DEF Rides, Hub
  <2>6. JobOf("FLASH", Head(h.updates), Latest) \in Job
    BY <2>2, SessionAssumption DEF Job, JobOf, JobType
  <2>7. QED  BY <2>3, <2>4, <2>5, <2>6
<1>4. QED  BY <1>2, <1>3

(* The loop starts a job. *)
LEMMA StepStartJob ==
  ASSUME IInv, StartJob
  PROVE  IInv'
<1>1. /\ Inv(hub) /\ ~Active(hub) /\ hub.jobs \o hub.updates # <<>>
      /\ InLoop(Start(Dequeued, NextJob)) \/ InLoop(Fail(Begun(Dequeued, NextJob)))
  BY DEF IInv, StartJob
<1>2. /\ NextJob \in Job /\ Dequeued \in Hub /\ Rides(Dequeued, hub) /\ Dequeued.state = hub.state
  BY <1>1, Queued
<1>3. AtRest(Dequeued) /\ ~Active(Dequeued) /\ Counted(Dequeued)
  <2>1. Inv(Dequeued)
    BY <1>1, <1>2, RidesInv
  <2>2. QED  BY <1>1, <1>2, <2>1 DEF Inv, Active
<1>4. Inv(Start(Dequeued, NextJob)) /\ Inv(Fail(Begun(Dequeued, NextJob)))
  BY <1>2, <1>3, BegunEnds
<1>5. QED  BY <1>1, <1>4, HandledEnds

(* The loop puts an update back to the queue. *)
LEMMA StepPostpone ==
  ASSUME IInv, Postpone
  PROVE  IInv'
<1> DEFINE q == <<NextJob>>
           s == [Dequeued EXCEPT !.jobs = q]
<1>1. Inv(hub) /\ hub.jobs = <<>> /\ hub.updates # <<>> /\ InLoop(s)
  BY DEF IInv, Postpone
<1>2. hub.jobs \o hub.updates # <<>>
  BY <1>1 DEF Inv, Hub
<1>3. /\ NextJob \in Job /\ Dequeued \in Hub /\ Rides(Dequeued, hub) /\ Dequeued.state = hub.state
  BY <1>1, <1>2, Queued
<1>4. q \in Seq(Job)
  BY <1>3
<1> HIDE DEF q
<1>5. s \in Hub
  BY <1>3, <1>4 DEF Hub
<1>6. Rides(s, hub) /\ s.state = hub.state
  BY <1>3 DEF Rides, Hub
<1> HIDE DEF s
<1>7. Inv(s)
  BY <1>1, <1>5, <1>6, RidesInv
<1>8. QED  BY <1>1, <1>7, HandledEnds

(* A device is identified without a request. *)
LEMMA StepAutoIdentify ==
  ASSUME IInv, NEW d \in Device, AutoIdentify(d)
  PROVE  IInv'
<1> DEFINE j == JobOf("IDENTIFY", d, None)
           q == <<j>>
           s == [hub EXCEPT !.jobs = q]
<1>1. /\ Inv(hub) /\ hub \in Hub /\ ~Active(hub)
      /\ Requested(IF hub.client = "IDLE" THEN Looped(Start(hub, j)) ELSE s)
  BY DEF IInv, AutoIdentify, Inv
<1>2. j \in Job
  BY DEF JobOf, Job, JobType
<1>3. q \in Seq(Job)
  BY <1>2
<1>4. Inv(Looped(Start(hub, j)))
  BY <1>1, <1>2, BegunEnds, LoopedEnds DEF Inv
<1> HIDE DEF j, q
<1>5. s \in Hub
  BY <1>1, <1>3 DEF Hub
<1>6. Rides(s, hub) /\ s.state = hub.state
  BY <1>1 DEF Rides, Hub
<1>7. Inv(s)
  <2> HIDE DEF s
  <2>1. QED  BY <1>1, <1>5, <1>6, RidesInv
<1>8. QED  BY <1>1, <1>4, <1>7, HandledEnds

(* A held connection is asked to make way. *)
LEMMA StepRelease ==
  ASSUME IInv, Release
  PROVE  IInv'
<1> DEFINE s == [hub EXCEPT !.hold = TRUE]
<1>1. Inv(hub) /\ hub \in Hub /\ Requested(s)
  BY DEF IInv, Release, Inv
<1>2. s \in Hub
  BY <1>1 DEF Hub
<1>3. Rides(s, hub) /\ s.state = hub.state
  BY <1>1 DEF Rides, Hub
<1> HIDE DEF s
<1>4. Inv(s)
  BY <1>1, <1>2, <1>3, RidesInv
<1>5. QED  BY <1>1, <1>4, HandledEnds

(* A finite set has an order. *)
LEMMA Ordered ==
  ASSUME NEW D \in SUBSET Device
  PROVE  InOrder(D) \in Seq(Device)
<1> DEFINE n == Cardinality(D)
<1>1. IsFiniteSet(D)
  BY SessionAssumption, FS_Subset
<1>2. n \in Nat /\ ExistsBijection(1..n, D)
  BY <1>1, FS_CardinalityType
<1>3. \E q \in [1..n -> D] : \A d \in D : \E i \in 1..n : q[i] = d
  BY <1>2 DEF ExistsBijection, Bijection, Surjection
<1>4. InOrder(D) \in [1..n -> D]
  BY <1>3 DEF InOrder
<1> HIDE DEF n
<1>5. InOrder(D) \in Seq(D)
  BY <1>2, <1>4, SeqDef
<1>6. QED  BY <1>5, SeqMonotonic

(* The devices with an update join the queue. *)
LEMMA StepUpdateAll ==
  ASSUME IInv, UpdateAll
  PROVE  IInv'
<1> DEFINE due == {d \in Device : hub.known[d].hw /\ InstalledVersion(hub.known[d]) # Latest}
           q == hub.updates \o InOrder(due)
           s == [hub EXCEPT !.updates = q]
<1>1. Inv(hub) /\ hub \in Hub /\ Requested(s)
  BY DEF IInv, UpdateAll, Inv
<1>2. InOrder(due) \in Seq(Device)
  <2>1. due \in SUBSET Device
    OBVIOUS
  <2>2. QED  BY <2>1, Ordered
<1> HIDE DEF due
<1>3. q \in Seq(Device)
  BY <1>1, <1>2 DEF Hub
<1> HIDE DEF q
<1>4. s \in Hub
  BY <1>1, <1>3 DEF Hub
<1>5. Rides(s, hub) /\ s.state = hub.state
  BY <1>1 DEF Rides, Hub
<1> HIDE DEF s
<1>6. Inv(s)
  BY <1>1, <1>4, <1>5, RidesInv
<1>7. QED  BY <1>1, <1>6, HandledEnds

(* A raw command over the held connection. *)
LEMMA StepRawWrite ==
  ASSUME IInv, RawWrite
  PROVE  IInv'
<1> DEFINE s == [hub EXCEPT !.op = "raw"]
<1>1. /\ Inv(hub) /\ hub.state = "READY" /\ hub.job.type = "CONNECT" /\ Linked(hub)
      /\ hub.op = "none" /\ Requested(s)
  BY DEF IInv, RawWrite, Holding
<1>2. Active(hub) /\ ~Taking(hub)
  BY <1>1 DEF Active, Rest, Taking
<1>3. Inv(s)
  BY <1>1, <1>2, Other, OpIssued
<1>4. QED  BY <1>1, <1>3, HandledEnds

(* A job is requested. *)
LEMMA StepRequest ==
  ASSUME IInv, NEW j \in Job, Request(j)
  PROVE  IInv'
<1> DEFINE held == Active(hub) /\ hub.job.type = "CONNECT"
           b == hub.hold \/ held
           s == [hub EXCEPT !.hold = b]
           q == Append(s.jobs, j)
           t == [s EXCEPT !.jobs = q]
<1>1. Inv(hub) /\ hub \in Hub
  BY DEF IInv, Inv
<1>2. b \in BOOLEAN
  BY <1>1 DEF Hub
<1>3. Requested(IF Len(hub.jobs) < MaxJobs THEN t ELSE s)
  BY DEF Request
<1> HIDE DEF b
<1>4. s \in Hub
  BY <1>1, <1>2 DEF Hub
<1>5. Rides(s, hub) /\ s.state = hub.state
  BY <1>1 DEF Rides, Hub
<1> HIDE DEF s
<1>6. q \in Seq(Job)
  BY <1>4 DEF Hub
<1> HIDE DEF q
<1>7. t \in Hub
  BY <1>4, <1>6 DEF Hub
<1>8. Rides(t, s) /\ t.state = s.state
  BY <1>4 DEF Rides, Hub
<1> HIDE DEF t
<1>9. Inv(s) /\ Inv(t)
  BY <1>1, <1>4, <1>5, <1>7, <1>8, RidesInv
<1>10. QED  BY <1>3, <1>9, HandledEnds

----------------------------------------------------------------------------
(* What is proved *)

(* The invariant holds at first. *)
LEMMA Initial ==
  Init => IInv
<1> SUFFICES ASSUME Init PROVE IInv
  OBVIOUS
<1>1. installed \in [Device -> Version] /\ requests = 0
  BY DEF Init
<1>2. PICK unknown \in SUBSET Device :
        hub = [state |-> "IDLE", job |-> None, dev |-> None, deadline |-> FALSE, tries |-> 0,
               vtries |-> 0, verify |-> FALSE, target |-> None, reconnect |-> FALSE,
               otaEnd |-> FALSE, leaving |-> FALSE, hold |-> FALSE, client |-> "IDLE",
               op |-> "none", cmd |-> "none", chars |-> "none", ota |-> "off", auth |-> FALSE,
               later |-> {}, looped |-> FALSE, stock |-> FALSE, retry |-> FALSE,
               renamed |-> FALSE, jobs |-> <<>>, updates |-> <<>>,
               known |-> [d \in Device |-> IF d \in unknown THEN Unknown ELSE Restored(installed[d])],
               fresh |-> FALSE, erased |-> FALSE]
  BY DEF Init
<1> DEFINE m == [d \in Device |-> IF d \in unknown THEN Unknown ELSE Restored(installed[d])]
<1>3. m \in [Device -> Snapshot]
  <2>1. Unknown \in Snapshot
    BY DEF Unknown, Snapshot, Image
  <2>2. ASSUME NEW v \in Version  PROVE Restored(v) \in Snapshot
    BY DEF Restored, Snapshot, Image
  <2>3. QED  BY <1>1, <2>1, <2>2
<1>4. /\ hub.state = "IDLE" /\ hub.dev = None /\ hub.op = "none" /\ ~hub.auth /\ hub.ota = "off"
      /\ hub.client = "IDLE" /\ ~hub.retry /\ hub.cmd = "none"
  BY <1>2
<1>5. hub \in Hub
  <2>1. /\ "IDLE" \in State /\ "none" \in Op /\ "none" \in Cmd /\ 0 \in 0..MaxConnects
        /\ 0 \in 0..MaxVerify /\ None \in Image /\ <<>> \in Seq(Job) /\ <<>> \in Seq(Device)
    BY SessionAssumption DEF State, Rest, Op, Cmd, Image
  <2> HIDE DEF m
  <2>2. hub = [state |-> "IDLE", job |-> None, dev |-> None, deadline |-> FALSE, tries |-> 0,
               vtries |-> 0, verify |-> FALSE, target |-> None, reconnect |-> FALSE,
               otaEnd |-> FALSE, leaving |-> FALSE, hold |-> FALSE, client |-> "IDLE",
               op |-> "none", cmd |-> "none", chars |-> "none", ota |-> "off", auth |-> FALSE,
               later |-> {}, looped |-> FALSE, stock |-> FALSE, retry |-> FALSE,
               renamed |-> FALSE, jobs |-> <<>>, updates |-> <<>>,
               known |-> m, fresh |-> FALSE, erased |-> FALSE]
    BY <1>2 DEF m
  <2>3. QED  BY <1>3, <2>1, <2>2 DEF Hub
<1>6. Inv(hub)
  BY <1>4, <1>5 DEF Inv, AtRest, AtWork, Wired, Counted, Dialing, Taken, Activating, Commanded,
                    Flashing, Verified, Active, Rest, Linked
<1>7. 0 \in 0..MaxRequests
  BY SessionAssumption
<1>8. QED  BY <1>1, <1>6, <1>7 DEF IInv

(* Every step keeps the invariant. *)
LEMMA StepIInv ==
  ASSUME IInv, Next
  PROVE  IInv'
<1>1. CASE Deferred
  BY <1>1, StepRunDeferred, StepStockTick, StepRetryTimer DEF Deferred
<1>2. CASE Events
  <2>1. CASE LinkLost \/ ClientClosed \/ OpAnswered \/ OpFails \/ Notify \/ AuthEnds \/ OtaEnds
    BY <2>1, StepLinkLost, StepClosed, StepOpAnswered, StepOpFails, StepNotify, StepAuthEnds,
       StepOtaEnds
  <2>2. CASE hub.later = {} /\ (Promote \/ Established \/ OpenFailed)
    BY <2>2, StepPromote, StepEstablished, StepClosed
  <2>3. QED  BY <1>2, <2>1, <2>2 DEF Events
<1>3. CASE Loop
  BY <1>3, StepStartJob, StepPostpone, StepCmdTimeout, StepStepTimeout, StepFallback,
     StepReconnectDue, StepEndHold DEF Loop, HoldReleased, HoldIdle
<1>4. CASE Users
  BY <1>4, StepRelease, StepUpdateAll, StepRawWrite, StepRequest, StepAutoIdentify DEF Users
<1>5. QED  BY <1>1, <1>2, <1>3, <1>4 DEF Next

(* Whatever jobs, callbacks, timers and losses of the connection follow one another, the
   invariant holds. *)
THEOREM Inductive == Spec => []IInv
<1>1. Init => IInv
  BY Initial
<1>2. IInv /\ [Next]_vars => IInv'
  <2>1. ASSUME IInv, Next  PROVE IInv'
    BY <2>1, StepIInv
  <2>2. ASSUME IInv, UNCHANGED vars  PROVE IInv'
    BY <2>2 DEF vars, IInv
  <2>3. QED  BY <2>1, <2>2
<1>3. QED  BY <1>1, <1>2, PTL DEF Spec

(* Connect and verification attempts are limited, and every field stays in its range, whatever
   mix of failures drives the session (on_connected_ and the step timeout). *)
THEOREM TypeCorrect == Spec => []TypeOK
<1>1. IInv => TypeOK
  BY DEF IInv, Inv, TypeOK
<1>2. QED  BY <1>1, Inductive, PTL

(* However a session ends, from whatever callback (fail_session_, finish_session_), its device
   is let go of, nothing of it is in flight and the connection is closed or closing. *)
THEOREM RestStaysQuiet == Spec => []RestIsQuiet
<1>1. IInv => RestIsQuiet
  BY DEF IInv, Inv, AtRest, AtWork, RestIsQuiet
<1>2. QED  BY <1>1, Inductive, PTL

(* No flash job reports success with another version than its own (evaluate_verify_). *)
THEOREM SuccessIsVerified == Spec => []FlashSuccessIsVerified
<1>1. ASSUME NEW k, NEW v, Reports(k, v)  PROVE InstalledVersion(k) \in {v, None}
  <2>1. CASE k.kind = "custom" /\ k.cfg # None
    BY <1>1, <2>1 DEF Reports, InstalledVersion
  <2>2. CASE ~(k.kind = "custom" /\ k.cfg # None) /\ k.fw # None
    BY <1>1, <2>2 DEF Reports, InstalledVersion
  <2>3. CASE ~(k.kind = "custom" /\ k.cfg # None) /\ k.fw = None
    BY <1>1, <2>3 DEF Reports, InstalledVersion
  <2>4. QED  BY <2>1, <2>2, <2>3
<1>3. IInv => FlashSuccessIsVerified
  BY <1>1 DEF IInv, Inv, Verified, Flash, FlashSuccessIsVerified
<1>2. QED  BY <1>3, Inductive, PTL

(* No callback, activation or retry leads an OTA around the gate of step_prepare_ota_, or to
   an extended region that is not ready. *)
THEOREM GateIsPassed == Spec => []OtaPassedTheGate
<1>1. IInv => OtaPassedTheGate
  BY DEF IInv, Inv, AtWork, Flashing, Flash, Gated, OtaPassedTheGate
<1>2. QED  BY <1>1, Inductive, PTL

----------------------------------------------------------------------------
(* Every wait is watched *)

(* A connection that is held for the user: the loop ends it when it is idle. *)
Held(s) == s.state = "READY" /\ s.job.type = "CONNECT"

(* Whatever a session waits for, a deadline or the transfer ends the wait. *)
Watched(s) == Active(s) => s.deadline \/ s.ota # "off" \/ Held(s)

(* What is needed to go on with it. *)
Known(s) ==
  /\ s \in Hub /\ (Active(s) => s.dev \in Device /\ s.job \in Job)
  /\ s.retry => s.tries < MaxConnects /\ 1 < MaxConnects

(* Nothing differs that matters here. *)
Alike(u, s) ==
  /\ u \in Hub /\ u.state = s.state /\ u.job = s.job /\ u.dev = s.dev
  /\ u.deadline = s.deadline /\ u.ota = s.ota /\ (u.retry => s.retry) /\ u.tries = s.tries

(* What is watched is the same. *)
Same(u, s) ==
  u.state = s.state /\ u.job = s.job /\ u.deadline = s.deadline /\ u.ota = s.ota

(* What is alike goes on alike. *)
LEMMA AlikeGoesOn ==
  ASSUME NEW s, Known(s), NEW u, Alike(u, s)
  PROVE  /\ Known(u) /\ (Watched(s) => Watched(u)) /\ (Active(s) <=> Active(u))
BY DEF Known, Alike, Watched, Held, Active

(* The invariant gives what is needed. *)
LEMMA KnownInv ==
  ASSUME NEW s, Inv(s)
  PROVE  Known(s)
BY Devices DEF Inv, Known, AtWork, Counted

(* A session that fails is at rest. *)
LEMMA FailRests ==
  ASSUME NEW s, Known(s)
  PROVE  Fail(s) \in Hub /\ ~Active(Fail(s)) /\ Watched(Fail(s))
<1>1. Inv(Fail(s)) /\ Fail(s).state = "ERROR"
  BY FailEnds DEF Known
<1> QED
  BY <1>1 DEF Inv, Active, Rest, Watched

(* A connection is closed: a transfer that is cut off still ends by itself. *)
LEMMA HangupWatched ==
  ASSUME NEW s \in Hub, Watched(s)
  PROVE  Hangup(s) \in Hub /\ Watched(Hangup(s))
<1>1. Hangup(s) \in Hub /\ Hangup(s).ota = Cut(s.ota)
  BY Hung
<1>2. /\ Hangup(s).state = s.state /\ Hangup(s).job = s.job /\ Hangup(s).deadline = s.deadline
  BY DEF Hangup, Hub
<1>3. s.ota # "off" => Cut(s.ota) # "off"
  BY DEF Cut
<1> QED
  BY <1>1, <1>2, <1>3 DEF Watched, Held, Active

(* The transfer runs. *)
LEMMA OtaWatched ==
  ASSUME NEW s \in Hub
  PROVE  StartOta(s) \in Hub /\ Watched(StartOta(s))
<1>1. StartOta(s).ota # "off"
  BY DEF StartOta, Hub
<1> QED
  BY <1>1, OtaStarts DEF Watched

(* Steps that change nothing that matters here. *)
LEMMA DeferAlike ==
  ASSUME NEW s \in Hub, NEW step \in Step
  PROVE  Alike(Defer(s, step), s)
<1>1. Defer(s, step) \in Hub
  BY Defers
<1>2. LET u == Defer(s, step) IN
      /\ u.state = s.state /\ u.job = s.job /\ u.dev = s.dev
      /\ u.deadline = s.deadline /\ u.ota = s.ota /\ u.retry = s.retry /\ u.tries = s.tries
  BY DEF Defer, Hub
<1> QED
  BY <1>1, <1>2 DEF Alike

LEMMA LearnAlike ==
  ASSUME NEW s \in Hub, s.dev \in Device, NEW k \in Snapshot
  PROVE  Alike(Learn(s, k), s)
<1>1. Learn(s, k) \in Hub
  BY Learns
<1>2. LET u == Learn(s, k) IN
      /\ u.state = s.state /\ u.job = s.job /\ u.dev = s.dev
      /\ u.deadline = s.deadline /\ u.ota = s.ota /\ u.retry = s.retry /\ u.tries = s.tries
  BY DEF Learn, Hub
<1> QED
  BY <1>1, <1>2 DEF Alike

LEMMA CmdAlike ==
  ASSUME NEW s \in Hub, NEW c \in Cmd
  PROVE  Alike([s EXCEPT !.cmd = c], s)
<1> DEFINE u == [s EXCEPT !.cmd = c]
<1>1. u \in Hub
  BY ZenonT(30) DEF Hub
<1>2. /\ u.state = s.state /\ u.job = s.job /\ u.dev = s.dev
      /\ u.deadline = s.deadline /\ u.ota = s.ota /\ u.retry = s.retry /\ u.tries = s.tries
  BY DEF Hub
<1> QED
  BY <1>1, <1>2 DEF Alike

LEMMA OpAlike ==
  ASSUME NEW s \in Hub, NEW o \in Op
  PROVE  Alike([s EXCEPT !.op = o], s)
<1> DEFINE u == [s EXCEPT !.op = o]
<1>1. u \in Hub
  BY ZenonT(30) DEF Hub
<1>2. /\ u.state = s.state /\ u.job = s.job /\ u.dev = s.dev
      /\ u.deadline = s.deadline /\ u.ota = s.ota /\ u.retry = s.retry /\ u.tries = s.tries
  BY DEF Hub
<1> QED
  BY <1>1, <1>2 DEF Alike

LEMMA StockAlike ==
  ASSUME NEW s \in Hub, NEW b \in BOOLEAN
  PROVE  Alike([s EXCEPT !.stock = b], s)
<1> DEFINE u == [s EXCEPT !.stock = b]
<1>1. u \in Hub
  BY ZenonT(30) DEF Hub
<1>2. /\ u.state = s.state /\ u.job = s.job /\ u.dev = s.dev
      /\ u.deadline = s.deadline /\ u.ota = s.ota /\ u.retry = s.retry /\ u.tries = s.tries
  BY DEF Hub
<1> QED
  BY <1>1, <1>2 DEF Alike

(* The callback of an operation with an error. *)
LEMMA LostWatched ==
  ASSUME NEW s, Known(s), Watched(s), NEW f \in Hub, ~Active(f), NEW o \in Op
  PROVE  Lost(s, o, f) \in Hub /\ Watched(Lost(s, o, f))
<1>1. s \in Hub /\ (Active(s) => s.dev \in Device) /\ Watched(f)
  BY DEF Known, Watched
<1>2. Lost(s, o, f) \in Hub
  BY <1>1, LostKeeps
<1>3. Watched(Lost(s, o, f))
  <2>1. CASE ~Active(s)
    BY <2>1 DEF Lost
  <2>2. CASE Active(s) /\ o = "dis"
    <3> DEFINE k == [s.known[s.dev] EXCEPT !.dis = None]
               u == Learn(s, k)
    <3>1. k \in Snapshot
      BY <1>1, <2>2, Snapshots DEF Hub, Image
    <3>2. Lost(s, o, f) = Defer(u, "identify")
      BY <2>2 DEF Lost
    <3> HIDE DEF k
    <3>3. Known(u) /\ Watched(u)
      BY <1>1, <2>2, <3>1, LearnAlike, AlikeGoesOn
    <3> HIDE DEF u
    <3>4. Alike(Defer(u, "identify"), u)
      BY <3>3, DeferAlike DEF Known, Step
    <3> QED
      BY <3>2, <3>3, <3>4, AlikeGoesOn
  <2>3. CASE Active(s) /\ o = "env"
    <3>1. Lost(s, o, f) = Defer(s, "finish")
      BY <2>3 DEF Lost
    <3>2. Alike(Defer(s, "finish"), s)
      BY <1>1, DeferAlike DEF Step
    <3> QED
      BY <3>1, <3>2, AlikeGoesOn
  <2>4. CASE Active(s) /\ o \in {"subCustom", "subAuth"}
    BY <1>1, <2>4 DEF Lost
  <2>5. CASE Active(s) /\ o = "subStock"
    <3>1. Lost(s, o, f) = [s EXCEPT !.stock = TRUE]
      BY <2>5 DEF Lost
    <3>2. Alike([s EXCEPT !.stock = TRUE], s)
      BY <1>1, StockAlike
    <3> QED
      BY <3>1, <3>2, AlikeGoesOn
  <2>6. CASE Active(s) /\ o = "speed"
    <3>1. Lost(s, o, f) \in {f, StartOta(s)}
      BY <2>6 DEF Lost
    <3> QED
      BY <1>1, <3>1, OtaWatched
  <2>7. CASE Active(s) /\ o = "write"
    <3> DEFINE u == [s EXCEPT !.cmd = "none"]
    <3>1. Lost(s, o, f) \in {u, Defer(u, "env")}
      BY <2>7 DEF Lost
    <3>2. Known(u) /\ Watched(u)
      BY <1>1, CmdAlike, AlikeGoesOn, Nothing
    <3> HIDE DEF u
    <3>3. Alike(Defer(u, "env"), u)
      BY <3>2, DeferAlike DEF Known, Step
    <3> QED
      BY <3>1, <3>2, <3>3, AlikeGoesOn
  <2>8. CASE Active(s) /\ o \in {"none", "raw"}
    BY <2>8 DEF Lost
  <2> QED
    BY <2>1, <2>2, <2>3, <2>4, <2>5, <2>6, <2>7, <2>8 DEF Op
<1> QED
  BY <1>2, <1>3

(* A session that leaves has a deadline until its connection is closed. *)
LEMMA DisconnectWatched ==
  ASSUME NEW s, Known(s), Active(s)
  PROVE  Disconnect(s) \in Hub /\ Watched(Disconnect(s))
<1>1. s \in Hub /\ s.op \in Op
  BY DEF Known, Hub
<1>2. CASE s.client = "IDLE"
  <2>1. Finish(s) \in Hub
    BY <1>1, Names DEF Finish, Hub
  <2>2. Finish(s).state = "SUCCESS"
    BY <1>1 DEF Finish, Hub
  <2> QED
    BY <1>2, <2>1, <2>2 DEF Disconnect, Watched, Active, Rest
<1>3. CASE s.client # "IDLE"
  <2> DEFINE left == [s EXCEPT !.leaving = TRUE, !.deadline = TRUE, !.op = "none"]
             f == FailIdle(left)
             after == Lost(left, s.op, f)
  <2>1. left \in Hub
    BY <1>1, Nothing, ZenonT(30) DEF Hub
  <2>2. /\ left.state = s.state /\ left.job = s.job /\ left.dev = s.dev /\ left.deadline
        /\ left.retry = s.retry /\ left.tries = s.tries
    BY <1>1 DEF Hub
  <2>3. Disconnect(s) = Hangup(after)
    BY <1>3 DEF Disconnect
  <2> HIDE DEF left
  <2>4. Known(left) /\ Watched(left)
    BY <2>1, <2>2 DEF Known, Watched, Active
  <2>5. f \in Hub /\ ~Active(f)
    BY <2>1, LetGo DEF Active, Rest
  <2> HIDE DEF f
  <2>6. after \in Hub /\ Watched(after)
    BY <1>1, <2>4, <2>5, LostWatched
  <2> HIDE DEF after
  <2> QED
    BY <2>3, <2>6, HangupWatched
<1> QED
  BY <1>2, <1>3

(* A command that ends without an answer. *)
LEMMA CmdFailedWatched ==
  ASSUME NEW s, Known(s), Watched(s), NEW c
  PROVE  CmdFailed(s, c) \in Hub /\ Watched(CmdFailed(s, c))
<1>1. CASE ~Active(s)
  BY <1>1 DEF CmdFailed, Known
<1>2. CASE Active(s) /\ c = "cfg"
  <2>1. Alike(Defer(s, "env"), s)
    BY DeferAlike DEF Known, Step
  <2>2. CmdFailed(s, c) = Defer(s, "env")
    BY <1>2 DEF CmdFailed
  <2> QED
    BY <2>1, <2>2, AlikeGoesOn DEF Known
<1>3. CASE Active(s) /\ c = "may"
  BY <1>3, DisconnectWatched DEF CmdFailed
<1>4. CASE Active(s) /\ c \notin {"cfg", "may"}
  BY <1>4, FailRests DEF CmdFailed
<1> QED
  BY <1>1, <1>2, <1>3, <1>4

(* The callback of an operation with an error, called by the client. *)
LEMMA OpLostWatched ==
  ASSUME NEW s, Known(s), Watched(s), NEW o \in Op
  PROVE  OpLost(s, o) \in Hub /\ Watched(OpLost(s, o))
<1>1. CASE o = "write" /\ s.cmd # "none"
  <2> DEFINE u == [s EXCEPT !.cmd = "none"]
  <2>1. Alike(u, s)
    BY CmdAlike, Nothing DEF Known
  <2>2. OpLost(s, o) = CmdFailed(u, s.cmd)
    BY <1>1 DEF OpLost
  <2> HIDE DEF u
  <2> QED
    BY <2>1, <2>2, AlikeGoesOn, CmdFailedWatched
<1>2. CASE ~(o = "write" /\ s.cmd # "none")
  BY <1>2, FailRests, LostWatched DEF OpLost
<1> QED
  BY <1>1, <1>2

(* An operation is issued, or its callback runs at once. *)
LEMMA IssueWatched ==
  ASSUME NEW s, Known(s), Watched(s), NEW o \in Op
  PROVE  Issue(s, o) \in Hub /\ Watched(Issue(s, o))
<1>1. CASE Linked(s) /\ s.op = "none"
  <2>1. Alike([s EXCEPT !.op = o], s)
    BY OpAlike DEF Known
  <2>2. Issue(s, o) = [s EXCEPT !.op = o]
    BY <1>1 DEF Issue
  <2> QED
    BY <2>1, <2>2, AlikeGoesOn DEF Known
<1>2. CASE ~(Linked(s) /\ s.op = "none")
  BY <1>2, FailRests, LostWatched DEF Issue
<1> QED
  BY <1>1, <1>2

(* A command is sent, or fails. *)
LEMMA CustomCmdWatched ==
  ASSUME NEW s, Known(s), Watched(s), NEW c \in Cmd
  PROVE  CustomCmd(s, c) \in Hub /\ Watched(CustomCmd(s, c))
<1>1. CASE s.chars # "custom"
  BY <1>1, CmdFailedWatched DEF CustomCmd
<1>2. CASE s.chars = "custom" /\ Linked(s) /\ s.op = "none"
  <2> DEFINE t == [s EXCEPT !.cmd = c]
             u == [t EXCEPT !.op = "write"]
  <2>1. Known(t) /\ Watched(t)
    BY CmdAlike, AlikeGoesOn DEF Known
  <2>2. CustomCmd(s, c) = u
    BY <1>2 DEF CustomCmd
  <2> HIDE DEF t
  <2>3. Alike(u, t)
    BY <2>1, OpAlike DEF Known, Op
  <2> QED
    BY <2>1, <2>2, <2>3, AlikeGoesOn DEF Known
<1>3. CASE s.chars = "custom" /\ ~(Linked(s) /\ s.op = "none")
  <2> DEFINE u == [s EXCEPT !.cmd = "none"]
  <2>1. Known(u) /\ Watched(u)
    BY CmdAlike, AlikeGoesOn, Nothing DEF Known
  <2>2. CustomCmd(s, c) = CmdFailed(u, c)
    BY <1>3 DEF CustomCmd
  <2> HIDE DEF u
  <2> QED
    BY <2>1, <2>2, CmdFailedWatched
<1> QED
  BY <1>1, <1>2, <1>3

(* A handler moves to another state and sets the deadline. *)
LEMMA MovesWatched ==
  ASSUME NEW s, Known(s), Active(s), NEW st \in State \ Rest
  PROVE  LET u == [s EXCEPT !.state = st, !.deadline = TRUE]
         IN  Known(u) /\ Watched(u) /\ Active(u)
<1> DEFINE u == [s EXCEPT !.state = st, !.deadline = TRUE]
<1>1. s \in Hub
  BY DEF Known
<1>2. u \in Hub
  BY <1>1 DEF Hub
<1>3. /\ u.state = st /\ u.job = s.job /\ u.dev = s.dev /\ u.deadline
      /\ u.retry = s.retry /\ u.tries = s.tries
  BY <1>1 DEF Hub
<1> HIDE DEF u
<1>4. Known(u) /\ Watched(u) /\ Active(u)
  BY <1>2, <1>3 DEF Known, Watched, Active
<1> QED
  BY <1>4 DEF u

(* The states of a session by name. *)
LEMMA Working ==
  /\ "ERASING" \in State \ Rest /\ "ACTIVATING" \in State \ Rest /\ "WRITING" \in State \ Rest
  /\ "REBOOTING" \in State \ Rest /\ "IDENTIFYING" \in State \ Rest /\ "READY" \in State \ Rest
BY DEF State, Rest

(* step_big_ota_prepare_ *)
LEMMA PrepareExtWatched ==
  ASSUME NEW s, Known(s), Active(s)
  PROVE  PrepareExt(s) \in Hub /\ Watched(PrepareExt(s))
<1>1. CASE s.target \notin Ext
  BY <1>1, OtaWatched DEF PrepareExt, Known
<1>2. CASE s.target \in Ext /\ s.chars = "custom"
  <2> DEFINE u == [s EXCEPT !.state = "ERASING", !.deadline = TRUE]
  <2>1. Known(u) /\ Watched(u)
    BY MovesWatched, Working
  <2>2. PrepareExt(s) = CustomCmd(u, "ext")
    BY <1>2 DEF PrepareExt
  <2> HIDE DEF u
  <2> QED
    BY <2>1, <2>2, CustomCmdWatched DEF Cmd
<1>3. CASE s.target \in Ext /\ s.chars # "custom"
  BY <1>3, FailRests DEF PrepareExt
<1> QED
  BY <1>1, <1>2, <1>3

(* step_activate_ *)
LEMMA ActivateWatched ==
  ASSUME NEW s, Known(s), Active(s)
  PROVE  Activate(s) \in Hub /\ Watched(Activate(s))
<1>1. CASE s.chars = "stock"
  <2> DEFINE u == [s EXCEPT !.state = "ACTIVATING", !.deadline = TRUE]
  <2>1. Known(u) /\ Watched(u)
    BY MovesWatched, Working
  <2>2. Activate(s) = Issue(u, "subAuth")
    BY <1>1 DEF Activate
  <2> HIDE DEF u
  <2> QED
    BY <2>1, <2>2, IssueWatched DEF Op
<1>2. CASE s.chars # "stock"
  BY <1>2, DisconnectWatched, FailRests DEF Activate
<1> QED
  BY <1>1, <1>2

(* step_prepare_ota_ *)
LEMMA PrepareOtaWatched ==
  ASSUME NEW s, Known(s), Active(s), Watched(s)
  PROVE  PrepareOta(s) \in Hub /\ Watched(PrepareOta(s))
<1> DEFINE u == [s EXCEPT !.state = "READY"]
<1>1. s \in Hub
  BY DEF Known
<1>2. u \in Hub
  BY <1>1, Working DEF Hub
<1>3. /\ u.state = "READY" /\ u.job = s.job /\ u.dev = s.dev /\ u.deadline = s.deadline
      /\ u.ota = s.ota /\ u.retry = s.retry /\ u.tries = s.tries
  BY <1>1 DEF Hub
<1>4. PrepareOta(s) \in {Fail(s), Activate(s), Issue(u, "speed"), PrepareExt(u)}
  BY DEF PrepareOta
<1> HIDE DEF u
<1>5. Known(u) /\ Active(u) /\ Watched(u)
  BY <1>2, <1>3, Working DEF Known, Active, Watched, Held
<1>6. /\ Fail(s) \in Hub /\ Watched(Fail(s))
      /\ Activate(s) \in Hub /\ Watched(Activate(s))
  BY FailRests, ActivateWatched
<1>7. /\ Issue(u, "speed") \in Hub /\ Watched(Issue(u, "speed"))
      /\ PrepareExt(u) \in Hub /\ Watched(PrepareExt(u))
  BY <1>5, IssueWatched, PrepareExtWatched DEF Op
<1> QED
  BY <1>4, <1>6, <1>7

(* evaluate_verify_ *)
LEMMA EvaluateVerifyWatched ==
  ASSUME NEW s, Known(s), Active(s)
  PROVE  EvaluateVerify(s) \in Hub /\ Watched(EvaluateVerify(s))
<1> DEFINE t == [s EXCEPT !.verify = FALSE]
           q == IF s.renamed THEN <<JobOf("NAME", s.dev, None)>> \o t.jobs ELSE t.jobs
           u == [t EXCEPT !.jobs = q]
<1>1. s \in Hub /\ s.dev \in Device
  BY DEF Known
<1>2. t \in Hub
  BY <1>1 DEF Hub
<1>3. Alike(t, s)
  BY <1>1, <1>2 DEF Alike, Hub
<1>4. EvaluateVerify(s) \in {Disconnect(u), Fail(t)}
  BY DEF EvaluateVerify
<1> HIDE DEF t
<1>5. q \in Seq(Job)
  <2>1. t.jobs \in Seq(Job)
    BY <1>2 DEF Hub
  <2>2. JobOf("NAME", s.dev, None) \in Job
    BY <1>1 DEF Job, JobOf, JobType
  <2> QED
    BY <2>1, <2>2
<1> HIDE DEF q
<1>6. u \in Hub
  BY <1>2, <1>5 DEF Hub
<1>7. Alike(u, t)
  BY <1>2, <1>6 DEF Alike, Hub
<1> HIDE DEF u
<1>8. Known(t) /\ Active(t) /\ Known(u) /\ Active(u)
  BY <1>3, <1>7, AlikeGoesOn
<1>9. /\ Disconnect(u) \in Hub /\ Watched(Disconnect(u))
      /\ Fail(t) \in Hub /\ Watched(Fail(t))
  BY <1>8, DisconnectWatched, FailRests
<1> QED
  BY <1>4, <1>9

(* continue_after_identify_: what has no deadline is a connection held for the user. *)
LEMMA ContinueWatched ==
  ASSUME NEW s, Known(s), Active(s), Watched(s)
  PROVE  Continue(s) \in Hub /\ Watched(Continue(s))
<1> DEFINE w == [s EXCEPT !.state = "WRITING", !.deadline = TRUE]
           r == [s EXCEPT !.state = "REBOOTING", !.deadline = TRUE]
           h == [s EXCEPT !.state = "READY", !.deadline = FALSE, !.hold = FALSE]
<1>1. s \in Hub /\ s.job \in Job
  BY DEF Known
<1>2. Known(w) /\ Watched(w) /\ Known(r) /\ Watched(r)
  BY MovesWatched, Working
<1>3. h \in Hub
  BY <1>1, Working DEF Hub
<1>4. h.state = "READY" /\ h.job = s.job
  BY <1>1 DEF Hub
<1>5. \/ Continue(s) \in {EvaluateVerify(s), Disconnect(s), Fail(s), Activate(s), PrepareOta(s)}
      \/ \E c \in {"set", "may"} : Continue(s) \in {CustomCmd(w, c), CustomCmd(r, c)}
      \/ Continue(s) = h /\ s.job.type = "CONNECT"
  <2>1. s.job.type \in JobType
    BY <1>1 DEF Job
  <2>2. CASE s.verify \/ s.job.type \in {"IDENTIFY", "ACTIVATE", "FLASH"}
    BY <2>2, Zenon DEF Continue
  <2>3. CASE ~s.verify /\ s.job.type \in {"CONFIG", "NAME", "PIN", "REBOOT"}
    BY <2>3 DEF Continue
  <2>4. CASE ~s.verify /\ s.job.type = "CONNECT"
    BY <2>4 DEF Continue
  <2> QED
    BY <2>1, <2>2, <2>3, <2>4 DEF JobType
<1> HIDE DEF w, r, h
<1>6. CASE Continue(s) \in {EvaluateVerify(s), Disconnect(s), Fail(s), Activate(s), PrepareOta(s)}
  BY <1>6, EvaluateVerifyWatched, DisconnectWatched, FailRests, ActivateWatched, PrepareOtaWatched
<1>7. ASSUME NEW c \in {"set", "may"}, Continue(s) \in {CustomCmd(w, c), CustomCmd(r, c)}
      PROVE  Continue(s) \in Hub /\ Watched(Continue(s))
  <2>1. c \in Cmd
    BY DEF Cmd
  <2>2. /\ CustomCmd(w, c) \in Hub /\ Watched(CustomCmd(w, c))
        /\ CustomCmd(r, c) \in Hub /\ Watched(CustomCmd(r, c))
    BY <1>2, <2>1, CustomCmdWatched
  <2> QED
    BY <1>7, <2>2
<1>8. CASE Continue(s) = h /\ s.job.type = "CONNECT"
  BY <1>3, <1>4, <1>8 DEF Watched, Held
<1> QED
  BY <1>5, <1>6, <1>7, <1>8

(* finish_identification_ *)
LEMMA IdentifiedWatched ==
  ASSUME NEW s, Known(s), Active(s), Watched(s)
  PROVE  Identified(s) \in Hub /\ Watched(Identified(s))
<1> DEFINE k == s.known[s.dev]
           sure == IF k.kind = "custom" THEN k.cfg ELSE k.dis
           q == [k EXCEPT !.fw = IF k.kind = "custom" /\ k.cfg = None THEN k.fw ELSE sure,
                          !.hw = (sure # None)]
           u == Learn(s, q)
<1>1. s \in Hub /\ s.dev \in Device
  BY DEF Known
<1>2. k \in Snapshot
  BY <1>1 DEF Hub
<1>3. q \in Snapshot
  BY <1>2 DEF Snapshot
<1>4. Identified(s) = Continue(u)
  BY DEF Identified
<1> HIDE DEF q
<1>5. Known(u) /\ Active(u) /\ Watched(u)
  BY <1>1, <1>3, LearnAlike, AlikeGoesOn
<1> HIDE DEF u
<1> QED
  BY <1>4, <1>5, ContinueWatched

(* The deferred continuations. *)
LEMMA ProceedWatched ==
  ASSUME NEW s, Known(s), Active(s), Watched(s), NEW step \in Step
  PROVE  Proceed(s, step) \in Hub /\ Watched(Proceed(s, step))
<1>1. \/ Proceed(s, step) = Identified(s)
      \/ \E o \in {"subCustom", "subStock", "env"} : Proceed(s, step) = Issue(s, o)
  BY DEF Proceed, Step
<1>2. ASSUME NEW o \in {"subCustom", "subStock", "env"}
      PROVE  Issue(s, o) \in Hub /\ Watched(Issue(s, o))
  BY IssueWatched DEF Op
<1> QED
  BY <1>1, <1>2, IdentifiedWatched

(* step_discover_ *)
LEMMA DiscoverWatched ==
  ASSUME NEW s, Known(s), Active(s), NEW k \in {"custom", "stock"}
  PROVE  Discover(s, k) \in Hub /\ Watched(Discover(s, k))
<1> DEFINE st == IF s.verify THEN s.state ELSE "IDENTIFYING"
           m == [s EXCEPT !.state = st, !.deadline = TRUE]
           a == [m EXCEPT !.chars = k]
           q == [s.known[s.dev] EXCEPT !.kind = k]
           b == Learn(a, q)
<1>1. s \in Hub /\ s.dev \in Device /\ s.state \in State
  BY DEF Known, Hub
<1>2. q \in Snapshot
  BY <1>1 DEF Hub, Snapshot
<1>3. st \in State \ Rest
  BY <1>1, Working DEF Active
<1>4. Discover(s, k) = Issue(b, "dis")
  BY DEF Discover
<1> HIDE DEF st, q
<1>5. Known(m) /\ Watched(m) /\ Active(m)
  BY <1>3, MovesWatched
<1>9. m \in Hub
  BY <1>5 DEF Known
<1> HIDE DEF m
<1>6. a \in Hub
  BY <1>9, ZenonT(30) DEF Hub
<1>10. Alike(a, m)
  BY <1>6, <1>9 DEF Alike, Hub
<1> HIDE DEF a
<1>7. Known(a) /\ Watched(a) /\ Active(a)
  BY <1>5, <1>10, AlikeGoesOn
<1>8. Known(b) /\ Watched(b)
  BY <1>2, <1>7, LearnAlike, AlikeGoesOn DEF Known
<1> HIDE DEF b
<1> QED
  BY <1>4, <1>8, IssueWatched DEF Op

(* step_connect_ sets the deadline. *)
LEMMA ConnectWatched ==
  ASSUME NEW s \in Hub
  PROVE  Watched(Connect(s))
<1>1. Connect(s).deadline
  BY DEF Connect, Hub
<1> QED
  BY <1>1 DEF Watched

(* Another attempt keeps the types. *)
LEMMA TriesAgain ==
  ASSUME NEW s, Known(s)
  PROVE  TryAgain(s) \in Hub
<1>1. s \in Hub
  BY DEF Known
<1>2. CASE s.vtries < MaxVerify
  <2> DEFINE n == s.vtries + 1
             u == [s EXCEPT !.vtries = n, !.reconnect = TRUE, !.deadline = TRUE, !.state = "REBOOTING"]
  <2>1. n \in 0..MaxVerify
    BY <1>1, <1>2, SessionAssumption DEF Hub
  <2>2. TryAgain(s) = u
    BY <1>2 DEF TryAgain
  <2> HIDE DEF n
  <2>3. u \in Hub
    BY <1>1, <2>1, Names DEF Hub
  <2> QED
    BY <2>2, <2>3
<1>3. CASE ~(s.vtries < MaxVerify)
  BY <1>3, FailRests DEF TryAgain
<1> QED
  BY <1>2, <1>3

(* A verification that is tried again has a deadline. *)
LEMMA TryAgainWatched ==
  ASSUME NEW s, Known(s)
  PROVE  Watched(TryAgain(s))
<1>1. CASE s.vtries < MaxVerify
  <2>1. TryAgain(s).deadline
    BY <1>1 DEF TryAgain, Known, Hub
  <2> QED
    BY <2>1 DEF Watched
<1>2. CASE ~(s.vtries < MaxVerify)
  BY <1>2, FailRests DEF TryAgain
<1> QED
  BY <1>1, <1>2

(* An active session loses its connection, or did not get one. *)
LEMMA OnDisconnectedWatched ==
  ASSUME NEW s, Known(s), Watched(s)
  PROVE  Watched(OnDisconnected(s))
<1>1. s \in Hub
  BY DEF Known
<1>2. Watched(Finish(s))
  <2>1. Finish(s).state = "SUCCESS"
    BY <1>1 DEF Finish, Hub
  <2> QED
    BY <2>1 DEF Watched, Active, Rest
<1>3. ASSUME Active(s), ~s.leaving
      PROVE  Watched(Dropped(s))
  <2> DEFINE t == [s EXCEPT !.retry = TRUE]
             u == [s EXCEPT !.reconnect = TRUE]
  <2>1. Watched(t)
    BY <1>1 DEF Watched, Active, Held, Hub
  <2>2. Watched(u)
    BY <1>1 DEF Watched, Active, Held, Hub
  <2>3. Dropped(s) \in {t, Fail(s), Finish(s), u, TryAgain(s)}
    BY DEF Dropped
  <2> HIDE DEF t, u
  <2> QED
    BY <1>2, <2>1, <2>2, <2>3, FailRests, TryAgainWatched
<1> QED
  BY <1>2, <1>3 DEF OnDisconnected

(* A session is connected. *)
LEMMA OnConnectedWatched ==
  ASSUME NEW s, Known(s), Watched(s)
  PROVE  Watched(OnConnected(s))
<1>1. s \in Hub
  BY DEF Known
<1>2. Kind(s.dev) \in {"custom", "stock"}
  BY DEF Kind
<1>3. CASE Active(s) /\ s.state = "RECONNECTING"
  <2> DEFINE a == [s EXCEPT !.state = "VERIFYING", !.verify = TRUE]
             q == [s.known[s.dev] EXCEPT !.cfg = None, !.dis = None]
             b == Learn(a, q)
  <2>1. s.dev \in Device
    BY <1>3 DEF Known
  <2>2. q \in Snapshot
    <3> DEFINE k1 == [s.known[s.dev] EXCEPT !.cfg = None]
    <3>1. k1 \in Snapshot
      BY <1>1, <2>1, Snapshots DEF Hub, Image
    <3>2. q = [k1 EXCEPT !.dis = None]
      OBVIOUS
    <3> HIDE DEF k1, q
    <3>3. [k1 EXCEPT !.dis = None] \in Snapshot
      BY <3>1, Snapshots DEF Image
    <3> QED
      BY <3>2, <3>3
  <2>3. a \in Hub
    BY <1>1, Names DEF Hub
  <2>4. a.state = "VERIFYING" /\ a.job = s.job /\ a.dev = s.dev /\ a.retry = s.retry /\ a.tries = s.tries
    BY <1>1 DEF Hub
  <2>5. OnConnected(s) = Discover(b, Kind(s.dev))
    BY <1>3 DEF OnConnected
  <2> HIDE DEF a, q
  <2>6. Known(a) /\ Active(a)
    BY <1>3, <2>3, <2>4 DEF Known, Active, Rest
  <2>7. Known(b) /\ Active(b)
    BY <2>1, <2>2, <2>3, <2>4, <2>6, LearnAlike, AlikeGoesOn
  <2> HIDE DEF b
  <2> QED
    BY <1>2, <2>5, <2>7, DiscoverWatched
<1>4. CASE Active(s) /\ s.state = "CONNECTING"
  <2> DEFINE a == [s EXCEPT !.state = "CONNECTED"]
  <2>1. a \in Hub
    BY <1>1, Names DEF Hub
  <2>2. a.state = "CONNECTED" /\ a.job = s.job /\ a.dev = s.dev /\ a.retry = s.retry /\ a.tries = s.tries
    BY <1>1 DEF Hub
  <2>3. OnConnected(s) = Discover(a, Kind(s.dev))
    BY <1>4 DEF OnConnected
  <2> HIDE DEF a
  <2>4. Known(a) /\ Active(a)
    BY <1>4, <2>1, <2>2 DEF Known, Active, Rest
  <2> QED
    BY <1>2, <2>3, <2>4, DiscoverWatched
<1>5. CASE ~(Active(s) /\ s.state \in {"RECONNECTING", "CONNECTING"})
  <2>1. OnConnected(s) = s
    BY <1>5, Zenon DEF OnConnected
  <2> QED
    BY <2>1
<1> QED
  BY <1>3, <1>4, <1>5

(* The callback of an operation with its answer. *)
LEMMA OpDoneWatched ==
  ASSUME NEW s, Known(s), Watched(s), NEW o \in Op, installed \in [Device -> Version]
  PROVE  Watched(OpDone(s, o))
<1>1. s \in Hub
  BY DEF Known
<1>2. CASE ~Active(s) \/ o \in {"none", "write", "raw"}
  <2>1. OpDone(s, o) = s
    BY <1>2, Zenon DEF OpDone
  <2> QED
    BY <2>1
<1>3. CASE Active(s) /\ o = "dis"
  <2> DEFINE b == s.fresh \/ s.chars = "stock"
             t == [s EXCEPT !.fresh = b]
             k == [s.known[s.dev] EXCEPT !.dis = installed[s.dev]]
             u == Learn(t, k)
  <2>1. s.dev \in Device /\ b \in BOOLEAN
    BY <1>1, <1>3 DEF Known, Hub
  <2>2. k \in Snapshot
    BY <1>1, <2>1, Snapshots DEF Hub, Image
  <2>3. OpDone(s, o) = Defer(u, "identify")
    BY <1>3 DEF OpDone
  <2> HIDE DEF b, k
  <2>4. t \in Hub
    BY <1>1, <2>1 DEF Hub
  <2>5. Alike(t, s)
    BY <1>1, <2>4 DEF Alike, Hub
  <2> HIDE DEF t
  <2>6. Known(t) /\ Watched(t) /\ t.dev \in Device
    BY <2>1, <2>5, AlikeGoesOn DEF Alike
  <2>7. Known(u) /\ Watched(u)
    BY <2>2, <2>4, <2>6, LearnAlike, AlikeGoesOn
  <2> HIDE DEF u
  <2> QED
    BY <2>3, <2>7, DeferAlike, AlikeGoesOn DEF Known, Step
<1>4. CASE Active(s) /\ o = "env"
  <2>1. OpDone(s, o) = Defer(s, "finish")
    BY <1>4 DEF OpDone
  <2> QED
    BY <1>1, <2>1, DeferAlike, AlikeGoesOn DEF Step
<1>5. CASE Active(s) /\ o = "subCustom"
  <2>1. OpDone(s, o) = CustomCmd(s, "cfg")
    BY <1>5 DEF OpDone
  <2> QED
    BY <2>1, CustomCmdWatched DEF Cmd
<1>6. CASE Active(s) /\ o = "subStock"
  <2>1. OpDone(s, o) = [s EXCEPT !.stock = TRUE]
    BY <1>6 DEF OpDone
  <2> QED
    BY <1>1, <2>1, StockAlike, AlikeGoesOn
<1>7. CASE Active(s) /\ o = "subAuth"
  <2>1. OpDone(s, o) = [s EXCEPT !.auth = TRUE]
    BY <1>7 DEF OpDone
  <2> QED
    BY <1>1, <2>1 DEF Watched, Active, Held, Hub
<1>8. CASE Active(s) /\ o = "speed"
  <2>1. OpDone(s, o) = PrepareExt(s)
    BY <1>8 DEF OpDone
  <2> QED
    BY <1>8, <2>1, PrepareExtWatched
<1> QED
  BY <1>2, <1>3, <1>4, <1>5, <1>6, <1>7, <1>8 DEF Op

(* The callback of a command with its answer. *)
LEMMA CmdDoneWatched ==
  ASSUME NEW s, Known(s), Watched(s), NEW c, NEW reply, installed \in [Device -> Version]
  PROVE  Watched(CmdDone(s, c, reply))
<1>1. s \in Hub
  BY DEF Known
<1>2. CASE ~Active(s)
  BY <1>2 DEF CmdDone
<1>3. CASE Active(s) /\ c = "cfg"
  <2> DEFINE t == [s EXCEPT !.fresh = TRUE]
             k == [s.known[s.dev] EXCEPT !.cfg = installed[s.dev]]
             u == Learn(t, k)
  <2>1. s.dev \in Device
    BY <1>3 DEF Known
  <2>2. k \in Snapshot
    BY <1>1, <2>1, Snapshots DEF Hub, Image
  <2>3. CmdDone(s, c, reply) = Defer(u, "env")
    BY <1>3 DEF CmdDone
  <2> HIDE DEF k
  <2>4. t \in Hub
    BY <1>1 DEF Hub
  <2>5. Alike(t, s)
    BY <1>1, <2>4 DEF Alike, Hub
  <2> HIDE DEF t
  <2>6. Known(t) /\ Watched(t) /\ t.dev \in Device
    BY <2>1, <2>5, AlikeGoesOn DEF Alike
  <2>7. Known(u) /\ Watched(u)
    BY <2>2, <2>4, <2>6, LearnAlike, AlikeGoesOn
  <2> HIDE DEF u
  <2> QED
    BY <2>3, <2>7, DeferAlike, AlikeGoesOn DEF Known, Step
<1>4. CASE Active(s) /\ c # "cfg"
  <2> DEFINE u == [s EXCEPT !.erased = TRUE]
  <2>1. u \in Hub
    BY <1>1 DEF Hub
  <2>2. \/ CmdDone(s, c, reply) \in {Disconnect(s), Fail(s), StartOta(u)}
        \/ \E x \in {"may", "ext2"} : CmdDone(s, c, reply) = CustomCmd(s, x)
    BY <1>4 DEF CmdDone
  <2> HIDE DEF u
  <2>3. Watched(Disconnect(s)) /\ Watched(Fail(s)) /\ Watched(StartOta(u))
    BY <1>4, <2>1, DisconnectWatched, FailRests, OtaWatched
  <2>4. \A x \in {"may", "ext2"} : Watched(CustomCmd(s, x))
    BY CustomCmdWatched DEF Cmd
  <2> QED
    BY <2>2, <2>3, <2>4
<1> QED
  BY <1>2, <1>3, <1>4

(* The hub ends the connection. *)
LEMMA EndConnectionWatched ==
  ASSUME NEW s, Known(s), Watched(s)
  PROVE  EndConnection(s) \in Hub /\ Watched(EndConnection(s))
<1> DEFINE t == [s EXCEPT !.op = "none"]
           u == OpLost(t, s.op)
<1>1. s.op \in Op
  BY DEF Known, Hub
<1>2. Known(t) /\ Watched(t)
  BY OpAlike, AlikeGoesOn, Nothing DEF Known
<1>3. EndConnection(s) = Hangup(u)
  BY DEF EndConnection
<1> HIDE DEF t
<1>4. u \in Hub /\ Watched(u)
  BY <1>1, <1>2, OpLostWatched
<1> HIDE DEF u
<1> QED
  BY <1>3, <1>4, HangupWatched

(* The loop of the hub ran. *)
LEMMA LoopedWatched ==
  ASSUME NEW s \in Hub, Watched(s)
  PROVE  Watched(Looped(s))
<1>1. /\ Looped(s).state = s.state /\ Looped(s).job = s.job /\ Looped(s).deadline = s.deadline
      /\ Looped(s).ota = s.ota
  BY DEF Looped, Hub
<1> QED
  BY <1>1 DEF Watched, Held, Active

(* What the state of the hub becomes is watched. *)
LEMMA HandledWatched ==
  ASSUME NEW s \in Hub, Watched(s), Handled(s) \/ InLoop(s) \/ Requested(s)
  PROVE  Watched(hub')
BY LoopedWatched DEF Handled, InLoop, Requested

----------------------------------------------------------------------------

(* The calls deferred to the next pass. *)
LEMMA DeferredWatched ==
  ASSUME IInv, Watched(hub), Deferred
  PROVE  Watched(hub')
<1>1. hub \in Hub /\ Known(hub)
  BY KnownInv DEF IInv, Inv
<1>2. ASSUME NEW step \in Step, RunDeferred(step)
      PROVE  Watched(hub')
  <2> DEFINE l == hub.later \ {step}
             b == hub.looped /\ hub.later # {step}
             s == [hub EXCEPT !.later = l, !.looped = b]
  <2>1. l \in SUBSET Step /\ b \in BOOLEAN
    BY <1>1 DEF Hub
  <2>2. hub' = IF Active(hub) THEN Proceed(s, step) ELSE s
    BY <1>2 DEF RunDeferred, Handled
  <2> HIDE DEF l, b
  <2>3. s \in Hub
    BY <1>1, <2>1 DEF Hub
  <2>4. Alike(s, hub)
    BY <1>1, <2>3 DEF Alike, Hub
  <2> HIDE DEF s
  <2> QED
    BY <1>1, <2>2, <2>4, AlikeGoesOn, ProceedWatched
<1>3. ASSUME StockTick
      PROVE  Watched(hub')
  <2> DEFINE s == [hub EXCEPT !.stock = FALSE]
  <2>1. Alike(s, hub)
    BY <1>1, StockAlike
  <2>2. hub' = IF Active(hub) THEN Identified(s) ELSE s
    BY <1>3 DEF StockTick, Handled
  <2> HIDE DEF s
  <2> QED
    BY <1>1, <2>1, <2>2, AlikeGoesOn, IdentifiedWatched
<1>4. ASSUME RetryTimer
      PROVE  Watched(hub')
  <2> DEFINE s == [hub EXCEPT !.retry = FALSE]
  <2>1. s \in Hub
    BY <1>1 DEF Hub
  <2>2. Alike(s, hub)
    BY <1>1, <2>1 DEF Alike, Hub
  <2>3. hub' \in {Connect(s), s}
    BY <1>4 DEF RetryTimer, Handled
  <2> HIDE DEF s
  <2> QED
    BY <1>1, <2>1, <2>2, <2>3, AlikeGoesOn, ConnectWatched
<1> QED
  BY <1>2, <1>3, <1>4 DEF Deferred

(* The events of the BLE stack. *)
LEMMA EventsWatched ==
  ASSUME IInv, Watched(hub), Events
  PROVE  Watched(hub')
<1>1. hub \in Hub /\ Known(hub) /\ installed \in [Device -> Version]
  BY KnownInv DEF IInv, Inv
<1>2. hub.op \in Op /\ hub.cmd \in Cmd
  BY <1>1 DEF Hub
<1>3. ASSUME NEW cl \in {"IDLE", "DISCONNECTING", "CONNECTING", "ESTABLISHED"}
      PROVE  LET s == [hub EXCEPT !.client = cl] IN s \in Hub /\ Known(s) /\ Watched(s)
  <2> DEFINE s == [hub EXCEPT !.client = cl]
  <2>1. s \in Hub
    BY <1>1 DEF Hub
  <2>2. Alike(s, hub)
    BY <1>1, <2>1 DEF Alike, Hub
  <2> HIDE DEF s
  <2>3. s \in Hub /\ Known(s) /\ Watched(s)
    BY <1>1, <2>1, <2>2, AlikeGoesOn
  <2> QED
    BY <2>3 DEF s
<1>4. CASE LinkLost
  <2> DEFINE t == [hub EXCEPT !.client = "DISCONNECTING"]
             s == [hub EXCEPT !.client = "DISCONNECTING", !.op = "none"]
  <2>1. s \in Hub
    BY <1>1, Nothing DEF Hub
  <2>2. Alike(s, hub)
    BY <1>1, <2>1 DEF Alike, Hub
  <2>3. hub' = OpLost(s, hub.op)
    BY <1>4 DEF LinkLost, Handled
  <2> HIDE DEF s
  <2> QED
    BY <1>1, <1>2, <2>2, <2>3, AlikeGoesOn, OpLostWatched
<1>5. CASE ClientClosed \/ OpenFailed
  <2>1. hub' = OnDisconnected([hub EXCEPT !.client = "IDLE"])
    BY <1>5 DEF ClientClosed, OpenFailed, Handled
  <2> QED
    BY <1>3, <2>1, OnDisconnectedWatched
<1>6. CASE Promote
  <2>1. hub' = [hub EXCEPT !.client = "CONNECTING"]
    BY <1>6 DEF Promote, Handled
  <2> QED
    BY <1>3, <2>1
<1>7. CASE Established
  <2>1. hub' = OnConnected([hub EXCEPT !.client = "ESTABLISHED"])
    BY <1>7 DEF Established, Handled
  <2> QED
    BY <1>3, <2>1, OnConnectedWatched
<1>8. Known([hub EXCEPT !.op = "none"]) /\ Watched([hub EXCEPT !.op = "none"])
  BY <1>1, OpAlike, AlikeGoesOn, Nothing
<1>9. CASE OpAnswered
  <2>1. hub' = OpDone([hub EXCEPT !.op = "none"], hub.op)
    BY <1>9 DEF OpAnswered, Handled
  <2> QED
    BY <1>1, <1>2, <1>8, <2>1, OpDoneWatched
<1>10. CASE OpFails
  <2>1. hub' = OpLost([hub EXCEPT !.op = "none"], hub.op)
    BY <1>10 DEF OpFails, Handled
  <2> QED
    BY <1>2, <1>8, <2>1, OpLostWatched
<1>11. CASE Notify
  <2> DEFINE s == [hub EXCEPT !.cmd = "none"]
  <2>1. \E reply : hub' = CmdDone(s, hub.cmd, reply)
    BY <1>11 DEF Notify, Handled
  <2>2. Known(s) /\ Watched(s)
    BY <1>1, CmdAlike, AlikeGoesOn, Nothing
  <2> HIDE DEF s
  <2> QED
    BY <1>1, <2>1, <2>2, CmdDoneWatched
<1>12. CASE AuthEnds
  <2> DEFINE s == [hub EXCEPT !.auth = FALSE]
  <2>1. s \in Hub
    BY <1>1 DEF Hub
  <2>2. Alike(s, hub)
    BY <1>1, <2>1 DEF Alike, Hub
  <2>3. hub' \in {Disconnect(s), PrepareOta(s), Fail(s)}
    BY <1>12 DEF AuthEnds, Handled
  <2>4. Active(hub)
    BY <1>12 DEF AuthEnds, IInv, Inv, AtRest
  <2> HIDE DEF s
  <2>5. Known(s) /\ Watched(s) /\ Active(s)
    BY <1>1, <2>2, <2>4, AlikeGoesOn
  <2> QED
    BY <2>3, <2>5, DisconnectWatched, PrepareOtaWatched, FailRests
<1>13. CASE OtaEnds
  <2> DEFINE s == [hub EXCEPT !.ota = "off"]
  <2>1. s \in Hub
    BY <1>1 DEF Hub
  <2>2. s.state = hub.state /\ s.job = hub.job /\ s.dev = hub.dev /\ s.retry = hub.retry /\ s.tries = hub.tries
    BY <1>1 DEF Hub
  <2>3. \/ hub' = s /\ ~Active(hub)
        \/ hub' = Fail(s)
        \/ \E lost \in BOOLEAN :
             hub' = [s EXCEPT !.state = "REBOOTING", !.vtries = 0, !.otaEnd = TRUE,
                              !.reconnect = (hub.client = "IDLE"), !.deadline = TRUE,
                              !.renamed = lost]
    BY <1>13, Zenon DEF OtaEnds
  <2> HIDE DEF s
  <2>4. Known(s) /\ (Active(s) <=> Active(hub))
    BY <1>1, <2>1, <2>2 DEF Known, Active
  <2>5. ASSUME NEW lost \in BOOLEAN,
               hub' = [s EXCEPT !.state = "REBOOTING", !.vtries = 0, !.otaEnd = TRUE,
                                !.reconnect = (hub.client = "IDLE"), !.deadline = TRUE, !.renamed = lost]
        PROVE  Watched(hub')
    <3>1. hub'.deadline
      BY <2>1, <2>5 DEF Hub
    <3> QED
      BY <3>1 DEF Watched
  <2>6. Watched(Fail(s)) /\ (~Active(hub) => Watched(s))
    BY <2>4, FailRests DEF Watched
  <2> QED
    BY <2>3, <2>5, <2>6
<1> QED
  BY <1>4, <1>5, <1>6, <1>7, <1>9, <1>10, <1>11, <1>12, <1>13 DEF Events

(* A job begins: its connection has a deadline. *)
LEMMA StartWatched ==
  ASSUME NEW s \in Hub, AtRest(s), ~Active(s), Counted(s), NEW j \in Job
  PROVE  /\ Start(s, j) \in Hub /\ Watched(Start(s, j))
         /\ Fail(Begun(s, j)) \in Hub /\ Watched(Fail(Begun(s, j)))
<1>1. Inv(Start(s, j)) /\ Inv(Fail(Begun(s, j)))
  BY BegunEnds
<1>2. Begun(s, j) \in Hub
  <2> DEFINE a == [s EXCEPT !.job = j, !.dev = j.dev]
             b == [a EXCEPT !.tries = 0, !.vtries = 0, !.cmd = "none"]
  <2>1. j.dev \in Device /\ 0 \in 0..MaxConnects /\ 0 \in 0..MaxVerify
    BY SessionAssumption DEF Job
  <2>2. a \in Hub
    BY <2>1 DEF Hub
  <2>3. Begun(s, j) = b
    BY DEF Begun
  <2> HIDE DEF a
  <2>4. b \in Hub
    BY <2>1, <2>2, Nothing DEF Hub
  <2> QED
    BY <2>3, <2>4
<1>3. Start(s, j).deadline
  <2> DEFINE b == Begun(s, j)
             v == IF j.type = "FLASH" THEN j.fw ELSE b.target
             c == [b EXCEPT !.hold = FALSE, !.target = v]
  <2>1. Start(s, j) = Connect(c)
    BY DEF Start
  <2>2. v \in Image
    BY <1>2 DEF Hub, Job, Image
  <2> HIDE DEF b, v
  <2>3. c \in Hub
    BY <1>2, <2>2 DEF Hub, b
  <2> HIDE DEF c
  <2>4. Connect(c).deadline
    BY <2>3 DEF Connect, Hub
  <2> QED
    BY <2>1, <2>4
<1>4. Fail(Begun(s, j)).state = "ERROR"
  <2> DEFINE b == Begun(s, j)
  <2>1. b.retry = s.retry /\ b.tries = 0 /\ j.dev \in Device /\ b.dev = j.dev
    BY DEF Begun, Hub, Job
  <2>2. s.retry => 1 < MaxConnects
    BY DEF Counted
  <2>3. 0 < MaxConnects
    BY SessionAssumption
  <2> HIDE DEF b
  <2>4. Fail(b).state = "ERROR"
    BY <1>2, <2>1, <2>2, <2>3, FailEnds DEF b
  <2> QED
    BY <2>4 DEF b
<1> QED
  BY <1>1, <1>3, <1>4 DEF Inv, Watched, Active, Rest

(* A step takes too long. *)
LEMMA TimeoutWatched ==
  ASSUME IInv, StepTimeout
  PROVE  Watched(hub')
<1> DEFINE s == [hub EXCEPT !.deadline = FALSE]
           e == EndConnection(s)
<1>1. /\ Inv(hub) /\ hub \in Hub /\ Active(hub)
      /\ \/ InLoop(Fail(s))
         \/ InLoop(TryAgain(e)) /\ hub.state \in {"REBOOTING", "RECONNECTING"}
  BY DEF IInv, StepTimeout, Inv
<1>2. s \in Hub
  BY <1>1 DEF Hub
<1>3. Rides(s, hub) /\ s.state = hub.state
  BY <1>1 DEF Rides, Hub
<1> HIDE DEF s
<1>4. Inv(s) /\ Known(s)
  BY <1>1, <1>2, <1>3, RidesInv, KnownInv
<1>5. CASE InLoop(Fail(s))
  BY <1>4, <1>5, FailRests, HandledWatched
<1>6. CASE InLoop(TryAgain(e)) /\ hub.state \in {"REBOOTING", "RECONNECTING"}
  <2>1. Known(e)
    BY <1>3, <1>4, <1>6, EndConnectionEnds, KnownInv
  <2> HIDE DEF e
  <2>2. TryAgain(e) \in Hub /\ Watched(TryAgain(e))
    BY <2>1, TryAgainWatched, TriesAgain
  <2> QED
    BY <1>6, <2>2, HandledWatched
<1> QED
  BY <1>1, <1>5, <1>6

(* The loop of the hub. *)
LEMMA LoopWatched ==
  ASSUME IInv, Watched(hub), Loop
  PROVE  Watched(hub')
<1>1. hub \in Hub /\ Known(hub) /\ Inv(hub)
  BY KnownInv DEF IInv, Inv
<1>2. hub.op \in Op /\ hub.cmd \in Cmd
  BY <1>1 DEF Hub
<1>3. CASE StartJob
  <2>1. /\ ~Active(hub) /\ hub.jobs \o hub.updates # <<>>
        /\ InLoop(Start(Dequeued, NextJob)) \/ InLoop(Fail(Begun(Dequeued, NextJob)))
    BY <1>3 DEF StartJob
  <2>2. /\ NextJob \in Job /\ Dequeued \in Hub /\ Rides(Dequeued, hub) /\ Dequeued.state = hub.state
    BY <1>1, <2>1, Queued
  <2>3. AtRest(Dequeued) /\ ~Active(Dequeued) /\ Counted(Dequeued)
    <3>1. Inv(Dequeued)
      BY <1>1, <2>2, RidesInv
    <3> QED
      BY <2>1, <2>2, <3>1 DEF Inv, Active
  <2>4. /\ Watched(Start(Dequeued, NextJob)) /\ Start(Dequeued, NextJob) \in Hub
        /\ Watched(Fail(Begun(Dequeued, NextJob))) /\ Fail(Begun(Dequeued, NextJob)) \in Hub
    BY <2>2, <2>3, StartWatched
  <2> QED
    BY <2>1, <2>4, HandledWatched
<1>4. CASE Postpone
  <2> DEFINE d == Dequeued
             s == [d EXCEPT !.jobs = <<NextJob>>]
  <2>1. ~Active(hub) /\ hub.jobs = <<>> /\ hub.updates # <<>> /\ InLoop(s)
    BY <1>4 DEF Postpone
  <2>2. hub.jobs \o hub.updates # <<>>
    BY <1>1, <2>1 DEF Hub
  <2>3. d \in Hub /\ d.state = hub.state
    BY <1>1, <2>2, Queued
  <2> HIDE DEF d
  <2>4. s.state = hub.state
    BY <2>3 DEF Hub
  <2>5. hub' = [s EXCEPT !.looped = (s.later # {})]
    BY <2>1 DEF InLoop, Handled, Looped
  <2>6. hub'.state = hub.state
    BY <2>3, <2>4, <2>5 DEF Hub
  <2> QED
    BY <2>1, <2>6 DEF Watched, Active
<1>5. CASE CmdTimeout
  <2>1. Known([hub EXCEPT !.cmd = "none"]) /\ Watched([hub EXCEPT !.cmd = "none"])
    BY <1>1, CmdAlike, AlikeGoesOn, Nothing
  <2>2. InLoop(CmdFailed([hub EXCEPT !.cmd = "none"], hub.cmd))
    BY <1>5 DEF CmdTimeout
  <2> QED
    BY <2>1, <2>2, CmdFailedWatched, HandledWatched
<1>6. CASE StepTimeout
  BY <1>6, TimeoutWatched
<1>7. CASE Fallback
  <2> DEFINE s == [hub EXCEPT !.otaEnd = FALSE]
  <2>1. s \in Hub
    BY <1>1 DEF Hub
  <2>2. Alike(s, hub)
    BY <1>1, <2>1 DEF Alike, Hub
  <2>3. InLoop(EndConnection(s))
    BY <1>7 DEF Fallback
  <2> HIDE DEF s
  <2> QED
    BY <1>1, <2>2, <2>3, AlikeGoesOn, EndConnectionWatched, HandledWatched
<1>8. CASE ReconnectDue
  <2> DEFINE a == [hub EXCEPT !.state = "RECONNECTING", !.reconnect = FALSE, !.leaving = FALSE]
             s == [a EXCEPT !.client = "DISCOVERED", !.deadline = TRUE]
  <2>3. a \in Hub
    BY <1>1, Names DEF Hub
  <2> HIDE DEF a
  <2>1. s \in Hub /\ s.deadline
    BY <2>3, Names DEF Hub
  <2>2. InLoop(s)
    BY <1>8 DEF ReconnectDue, a
  <2> HIDE DEF s
  <2> QED
    BY <2>1, <2>2, HandledWatched DEF Watched
<1>9. CASE HoldReleased \/ HoldIdle
  <2> DEFINE s == [hub EXCEPT !.hold = FALSE]
  <2>1. s \in Hub
    BY <1>1 DEF Hub
  <2>2. Alike(s, hub)
    BY <1>1, <2>1 DEF Alike, Hub
  <2>3. InLoop(Disconnect(s)) /\ hub.state = "READY"
    BY <1>9 DEF HoldReleased, HoldIdle, EndHold, Holding
  <2>4. Active(hub)
    BY <2>3 DEF Active, Rest
  <2> HIDE DEF s
  <2> QED
    BY <1>1, <2>2, <2>3, <2>4, AlikeGoesOn, DisconnectWatched, HandledWatched
<1> QED
  BY <1>3, <1>4, <1>5, <1>6, <1>7, <1>8, <1>9 DEF Loop

(* Requests of a user. *)
LEMMA UsersWatched ==
  ASSUME IInv, Watched(hub), Users
  PROVE  Watched(hub')
<1>1. hub \in Hub /\ Inv(hub)
  BY DEF IInv, Inv
<1>2. ASSUME Same(hub', hub)
      PROVE  Watched(hub')
  BY <1>2 DEF Same, Watched, Held, Active
<1>3. CASE Release \/ UpdateAll \/ RawWrite
  <2>1. \/ hub' = [hub EXCEPT !.hold = TRUE] \/ hub' = [hub EXCEPT !.op = "raw"]
        \/ \E q : hub' = [hub EXCEPT !.updates = q]
    BY <1>3 DEF Release, UpdateAll, RawWrite, Requested
  <2>2. Same(hub', hub)
    BY <1>1, <2>1 DEF Same, Hub
  <2> QED
    BY <1>2, <2>2
<1>4. ASSUME NEW j \in Job, Request(j)
      PROVE  Watched(hub')
  <2>1. \E b, q : hub' = [hub EXCEPT !.hold = b, !.jobs = q]
    <3> DEFINE b == hub.hold \/ (Active(hub) /\ hub.job.type = "CONNECT")
               t == [hub EXCEPT !.hold = b]
               q == Append(t.jobs, j)
    <3>1. hub' \in {t, [t EXCEPT !.jobs = q]}
      BY <1>4 DEF Request, Requested
    <3> HIDE DEF b, q
    <3>2. hub' \in {[hub EXCEPT !.hold = b, !.jobs = hub.jobs], [hub EXCEPT !.hold = b, !.jobs = q]}
      BY <1>1, <3>1 DEF Hub
    <3> QED
      BY <3>2
  <2>2. Same(hub', hub)
    BY <1>1, <2>1 DEF Same, Hub
  <2> QED
    BY <1>2, <2>2
<1>5. ASSUME NEW d \in Device, AutoIdentify(d)
      PROVE  Watched(hub')
  <2> DEFINE j == JobOf("IDENTIFY", d, None)
             s == [hub EXCEPT !.jobs = <<j>>]
  <2>1. ~Active(hub) /\ (hub' = Looped(Start(hub, j)) \/ hub' = s)
    BY <1>5 DEF AutoIdentify, Requested
  <2>2. j \in Job
    BY DEF JobOf, Job, JobType
  <2> HIDE DEF j
  <2>3. CASE hub' = Looped(Start(hub, j))
    BY <1>1, <2>1, <2>2, <2>3, StartWatched, LoopedWatched DEF Inv
  <2>4. CASE hub' = s
    <3>1. Same(hub', hub)
      BY <1>1, <2>4 DEF Same, Hub
    <3> QED
      BY <1>2, <3>1
  <2> QED
    BY <2>1, <2>3, <2>4
<1> QED
  BY <1>3, <1>4, <1>5 DEF Users

(* Every wait of a session ends: while one is active and is not held for the user, its deadline
   is set or the transfer, which gives up by itself, still runs.  No callback, retry, answer or
   loss of the connection leaves an active session with nothing that will end it (the loop's
   check of step_deadline_, which is skipped when the deadline is 0). *)
EveryWaitIsWatched == Active(hub) /\ ~Holding => hub.deadline \/ hub.ota # "off"

THEOREM WaitsAreWatched == Spec => []EveryWaitIsWatched
<1>1. Init => Watched(hub)
  BY DEF Init, Watched, Active, Rest
<1>2. ASSUME IInv, Watched(hub), [Next]_vars
      PROVE  Watched(hub')
  <2>1. CASE UNCHANGED vars
    BY <1>2, <2>1 DEF vars, Watched, Active, Held
  <2>2. CASE Next
    BY <1>2, <2>2, DeferredWatched, EventsWatched, LoopWatched, UsersWatched DEF Next
  <2> QED
    BY <1>2, <2>1, <2>2
<1> DEFINE W == Watched(hub)
<1>3. W /\ IInv /\ [Next]_vars => W'
  BY <1>2
<1>4. W => EveryWaitIsWatched
  BY DEF Watched, Held, Holding, EveryWaitIsWatched
<1>5. Init => W
  BY <1>1
<1> HIDE DEF W
<1> QED
  BY <1>3, <1>4, <1>5, Inductive, PTL DEF Spec
==============================================================================
