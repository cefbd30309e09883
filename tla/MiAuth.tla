------------------------------- MODULE MiAuth -------------------------------
(***************************************************************************)
(* MiAuth (mi_auth.cpp): registration and login of stock firmware, two     *)
(* exchanges of frames that share one step counter, one timer slot and one *)
(* queue of writes over the one operation of the GATT client.              *)
(*                                                                         *)
(* enqueue_, pump_ and finish_ call each other and the session while a     *)
(* handler runs, so handlers are operators from state to state.  The       *)
(* thermometer may send any frame once it was spoken to, in any order.     *)
(* Cryptography is left out: a secret is sent or not, keys can be derived  *)
(* or not.                                                                 *)
(***************************************************************************)
EXTENDS Integers, Sequences

CONSTANT MaxQueue  \* bound: writes that wait while the thermometer goes on sending

ASSUME AuthAssumption == MaxQueue \in Nat \ {0}

VARIABLE auth  \* the members of MiAuth, its session and its connection, see Auth

vars == <<auth>>

(* What the hub writes: commands on 0x0010 (a2, 15, 24, 13), data on 0x0019. *)
Control == {"hello", "register", "login", "verify"}
Write   == Control \cup {"data"}
Data(n) == [i \in 1..n |-> "data"]

Step == 0..7 \cup 12..14

Auth == [active      : BOOLEAN,
         job         : {"activate", "flash"},         \* what the session is after
         step        : Step,                          \* state_
         registering : BOOLEAN,                       \* mode_activation_
         activated   : BOOLEAN,                       \* is_activated_
         delayed     : {"none", "register", "login"}, \* delayed_action_
         busy        : BOOLEAN,                       \* write_busy_
         queue       : Seq(Write),
         op          : {"none", "auth", "speed"},     \* the client's operation
         link        : {"up", "closing", "gone", "down"},
         calls       : Nat,                           \* history: calls of done_
         told        : Control \cup {"none"},         \* history: last command written
         shown       : BOOLEAN]                       \* history: the secret at hand was sent

Init == auth = [active |-> FALSE, job |-> "activate", step |-> 0, registering |-> TRUE,
                activated |-> FALSE, delayed |-> "none", busy |-> FALSE, queue |-> <<>>,
                op |-> "none", link |-> "down", calls |-> 0, told |-> "none", shown |-> FALSE]

----------------------------------------------------------------------------
(* The verdict *)

(* The session ends the connection, which completes the operation in flight. *)
Close(s) == [s EXCEPT !.link = IF @ = "up" THEN "closing" ELSE @, !.op = "none", !.busy = FALSE]

Over(s) == [s EXCEPT !.active = FALSE, !.queue = <<>>, !.calls = @ + 1]

(* Mutant: finish_ does not look whether the attempt is over. *)
FailAgain(s) == Close(Over(s))

(* finish_ with an error: the session fails and closes the connection. *)
Fail(s) == IF s.active THEN Close(Over(s)) ELSE s

(* Mutant: the attempt stays active behind its verdict. *)
SucceedActive(s, refused) ==
  LET over == [s EXCEPT !.queue = <<>>, !.calls = @ + 1]
  IN  IF s.job = "activate" THEN Close(over)
      ELSE [over EXCEPT !.op = IF @ = "none" /\ s.link = "up" /\ ~refused THEN "speed" ELSE @]

(* finish_ without an error: the session disconnects, or writes the connection speed
   and goes on to the OTA whether or not the client took that write. *)
Succeed(s, refused) ==
  IF s.job = "activate"
  THEN Close(Over(s))
  ELSE [Over(s) EXCEPT !.op = IF @ = "none" /\ s.link = "up" /\ ~refused THEN "speed" ELSE @]

----------------------------------------------------------------------------
(* Writing *)

(* pump_: a write that the client or the stack refuses calls back at once. *)
Pump(s, refused) ==
  IF ~s.active \/ s.busy \/ s.queue = <<>> \/ s.op # "none" THEN s
  ELSE LET frame == Head(s.queue)
           rest  == [s EXCEPT !.queue = Tail(@)]
       IN  IF s.link # "up" \/ refused THEN Fail(rest)
           ELSE [rest EXCEPT !.busy = TRUE, !.op = "auth",
                             !.told = IF frame \in Control THEN frame ELSE @]

(* enqueue_, frame by frame.  Behind the first one pump_ has nothing to do: it has
   just written, was busy before, or the attempt has failed - and then the other
   frames stay in the queue. *)
Say(s, frames, refused) ==
  LET first == Pump([s EXCEPT !.queue = Append(@, Head(frames))], refused)
  IN  [first EXCEPT !.queue = @ \o Tail(frames)]

(* start_register_, with a new key pair *)
StartRegister(s, refused) ==
  [Say(s, <<"register", "data">>, refused) EXCEPT
     !.registering = TRUE, !.step = 1, !.shown = FALSE]

(* send_login_, with a new random *)
SendLogin(s, refused) ==
  [Say(s, <<"login", "data">>, refused) EXCEPT
     !.registering = FALSE, !.step = 0, !.shown = FALSE]

----------------------------------------------------------------------------
(* Frames of the thermometer.  odd is the rarer outcome of their data: keys that
   cannot be derived, an id that fits one frame, a proof that does not match. *)

(* handle_10_ *)
ControlFrames == {"regOk", "regFailed", "regVerified", "logOk", "logFailed", "repeat", "error"}

Handle10(s, f, refused) ==
  CASE f = "regOk" -> SendLogin(s, refused)
    [] f \in {"logOk", "repeat"} -> Succeed(s, refused)
    [] f \in {"regFailed", "logFailed", "error"} -> Fail(s)
    [] f = "regVerified" -> s

(* The frames on 0x0019.  part1 to part4 carry pieces of an id, a key or a proof. *)
DataFrames == {"ack", "ackLogin", "newId", "idAck", "fresh", "activated", "part1", "part2",
               "part3", "part4", "go", "done", "keyAsk", "failed", "random", "randomShort",
               "info", "infoShort"}

Later(s, action) == [s EXCEPT !.delayed = action]

(* The last piece of the thermometer's key: acknowledge it and derive the keys. *)
DeriveKeys(s, refused, odd) ==
  LET acked == Say(s, Data(1), refused)
  IN  IF odd THEN Fail(acked) ELSE [acked EXCEPT !.queue = @ \o Data(1)]

(* handle_19_register_ *)
Registering(s, f, refused, odd) ==
  LET known == s.activated /\ s.step = 0  \* the pieces are those of the known id
  IN  CASE f = "newId" \/ (f = "idAck" /\ ~known) \/ (f = "part2" /\ known) ->
             Later(Say(s, Data(1), refused), "register")
        [] f \in {"fresh", "activated"} ->
             [Say(s, Data(1), refused) EXCEPT !.activated = (f = "activated")]
        [] f = "keyAsk" -> Say(s, Data(1), refused)
        [] f = "go" /\ s.step = 1 ->
             [Say(s, Data(4), refused) EXCEPT !.step = 2, !.shown = TRUE]
        [] f = "part4" /\ s.step = 2 -> DeriveKeys(s, refused, odd)
        [] f = "go" /\ s.step = 2 ->
             [Say(s, Data(IF odd THEN 1 ELSE 2), refused) EXCEPT !.step = 3]
        [] f = "done" /\ s.step = 3 -> [Say(s, <<"verify">>, refused) EXCEPT !.step = 0]
        [] f = "failed" -> Fail(s)
        [] OTHER -> s

(* handle_19_login_: step, frame, next step, number of frames in reply; from 12 on
   the short variant of newer devices. *)
LoginMove == {<<0, "go", 1, 1>>, <<1, "random", 2, 1>>, <<2, "part1", 3, 1>>,
              <<3, "info", 4, 1>>, <<4, "part1", 5, 0>>, <<5, "part2", 6, 2>>, <<6, "go", 7, 2>>,
              <<1, "randomShort", 12, 1>>, <<12, "infoShort", 13, 2>>, <<13, "go", 14, 1>>,
              <<14, "done", 0, 0>>}

LoggingIn(s, f, refused, odd) ==
  LET moves == {m \in LoginMove : m[1] = s.step /\ m[2] = f}
      move  == CHOOSE m \in moves : TRUE
      next  == IF f = "infoShort" /\ odd THEN 0 ELSE move[3]
      moved == [s EXCEPT !.step = next, !.shown = @ \/ s.step = 0]
  IN  IF moves = {} THEN s
      ELSE IF move[4] = 0 THEN moved ELSE Say(moved, Data(move[4]), refused)

(* handle_19_: a request for an acknowledgement first, in either exchange. *)
Handle19(s, f, refused, odd) ==
  CASE f = "ack"      -> Say(s, Data(1), refused)
    [] f = "ackLogin" -> Later(Say(s, Data(1), refused), "login")
    [] f \notin {"ack", "ackLogin"} /\ s.registering  -> Registering(s, f, refused, odd)
    [] f \notin {"ack", "ackLogin"} /\ ~s.registering -> LoggingIn(s, f, refused, odd)

(* A result belongs to a command that the thermometer was given. *)
Sendable(f) ==
  CASE f \in {"regOk", "regFailed", "regVerified"}  -> auth.told \in {"register", "verify"}
    [] f \in {"logOk", "logFailed", "repeat"} -> auth.told = "login"
    [] OTHER -> auth.told # "none"

----------------------------------------------------------------------------
(* The actions *)

(* Mutant: begin leaves the queue of the attempt before as it is. *)
BeginWithQueue ==
  /\ ~auth.active /\ auth.link = "down"
  /\ \E job \in {"activate", "flash"}, login, refused, odd \in BOOLEAN :
       LET s == [auth EXCEPT !.active = TRUE, !.job = job, !.step = 0, !.activated = FALSE,
                             !.delayed = "none", !.busy = FALSE, !.link = "up", !.calls = 0,
                             !.told = "none", !.shown = FALSE, !.registering = @ \/ ~login]
       IN  auth' = IF odd THEN Fail(s)
                   ELSE IF login THEN SendLogin(s, refused) ELSE Say(s, <<"hello">>, refused)

(* begin, over a new connection with both characteristics subscribed.  It may fail
   for want of keys or of a key pair. *)
Begin ==
  /\ ~auth.active /\ auth.link = "down"
  /\ \E job \in {"activate", "flash"}, login, refused, odd \in BOOLEAN :
       LET s == [auth EXCEPT !.active = TRUE, !.job = job, !.step = 0, !.activated = FALSE,
                             !.delayed = "none", !.busy = FALSE, !.queue = <<>>, !.link = "up",
                             !.calls = 0, !.told = "none", !.shown = FALSE,
                             !.registering = @ \/ ~login]
       IN  auth' = IF odd THEN Fail(s)
                   ELSE IF login THEN SendLogin(s, refused) ELSE Say(s, <<"hello">>, refused)

(* on_notify.  The bound on the queue says that the thermometer waits for an answer
   when MaxQueue of them are on their way. *)
Notify ==
  /\ auth.active /\ auth.link = "up" /\ Len(auth.queue) < MaxQueue
  /\ \E refused, odd \in BOOLEAN :
       \/ \E f \in ControlFrames : Sendable(f) /\ auth' = Handle10(auth, f, refused)
       \/ \E f \in DataFrames : Sendable(f) /\ auth' = Handle19(auth, f, refused, odd)

(* The write in flight is completed: the callback of pump_ writes the next frame. *)
WriteDone ==
  /\ auth.op = "auth"
  /\ \E refused \in BOOLEAN :
       auth' = Pump([auth EXCEPT !.op = "none", !.busy = FALSE], refused)

(* The write in flight ends with an error or a time-out. *)
WriteFails ==
  /\ auth.op = "auth"
  /\ auth' = Fail([auth EXCEPT !.op = "none", !.busy = FALSE])

(* Mutant: the timer is not switched off when it fires. *)
DelayOverRepeats ==
  /\ auth.active /\ auth.delayed # "none"
  /\ \E refused \in BOOLEAN :
       auth' = IF auth.delayed = "register" THEN StartRegister(auth, refused)
                                            ELSE SendLogin(auth, refused)

(* loop: the 250 ms of the delayed action are over.  Its pump_ then finds nothing
   to do, the action has just pumped. *)
DelayOver ==
  /\ auth.active /\ auth.delayed # "none"
  /\ \E refused \in BOOLEAN :
       LET s == [auth EXCEPT !.delayed = "none"]
       IN  auth' = IF auth.delayed = "register" THEN StartRegister(s, refused)
                                                ELSE SendLogin(s, refused)

(* Mutant: the deadline waits for the write in flight. *)
GiveUpIdle == auth.active /\ ~auth.busy /\ auth' = Fail(auth)

(* The deadline of 90 s passes, or the session aborts the attempt. *)
GiveUp == auth.active /\ auth' = Fail(auth)

(* The write of the connection speed ends, one way or the other. *)
SpeedDone == auth.op = "speed" /\ auth' = [auth EXCEPT !.op = "none"]

(* The link is gone: the client completes the operation in flight ... *)
LinkLost ==
  /\ auth.link \in {"up", "closing"}
  /\ LET s == [auth EXCEPT !.link = "gone", !.op = "none", !.busy = FALSE]
     IN  auth' = IF auth.op = "auth" THEN Fail(s) ELSE s

(* ... and tells the session when the connection is closed. *)
LinkClosed ==
  /\ auth.link = "gone"
  /\ auth' = [Fail(auth) EXCEPT !.link = "down"]

Hub  == Begin \/ WriteDone \/ WriteFails \/ DelayOver \/ GiveUp \/ SpeedDone
Link == Notify \/ LinkLost \/ LinkClosed
Next == Hub \/ Link

(* The main loop looks at the deadline for ever; nothing is assumed of the client,
   the link or the thermometer. *)
Fairness == WF_vars(GiveUp)

Spec     == Init /\ [][Next]_vars
FairSpec == Spec /\ Fairness

----------------------------------------------------------------------------
(* Every member has its type; a frame is answered with four writes at the most, and
   the timer adds two of its own only once. *)
TypeOK == auth \in Auth /\ Len(auth.queue) <= MaxQueue + 5

(* done_ is called once per attempt, though write errors inside a handler, the
   deadline, the session's abort and late callbacks may all try to end it. *)
OneVerdict == auth.calls <= 1 /\ (auth.active => auth.calls = 0)

(* Nothing is written for an attempt that is over, whatever the handler that ended it
   or the timer still has to say. *)
SilentAfterVerdict ==
  [][auth.calls = 1 /\ auth'.calls = 1 /\ auth'.op = "auth" => auth.op = "auth"]_vars

(* An attempt opens with its own command: frames that a failure left in the queue
   never reach the next thermometer. *)
StartsClean == auth.op = "auth" => auth.told # "none"

(* Key pair and random are drawn anew by every start, and starts come at any time:
   by the timer, by a success of the registration.  Steps that use the secret are
   only reached when the one at hand is the one that was sent. *)
SecretIsShown ==
  LET uses == IF auth.registering THEN {2, 3} ELSE Step \ {0}
  IN  auth.step \in uses => auth.shown

AttemptIsItsOwn == StartsClean /\ SecretIsShown

(* Every attempt ends, by its deadline if nothing else. *)
EveryAttemptEnds == auth.active ~> ~auth.active
=============================================================================
