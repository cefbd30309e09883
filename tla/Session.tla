------------------------------- MODULE Session -------------------------------
(***************************************************************************)
(* The hub's session state machine (xiaomi_esp_flasher.cpp): one job at a  *)
(* time over the one BLE client, as callbacks, timers and deferred calls   *)
(* drive it.                                                               *)
(*                                                                         *)
(* The handlers of the hub call each other: fail_session_ ends the         *)
(* connection, which completes the operation in flight, whose callback may *)
(* fail the session, arm a timer or start an OTA.  A handler is therefore  *)
(* an operator from the hub's state to its state, and an action applies    *)
(* the one that the event calls.                                           *)
(***************************************************************************)
EXTENDS Integers, Sequences, FiniteSets

CONSTANTS
  Device,       \* the thermometers
  Version,      \* firmware versions
  Stock,        \* those of the manufacturer, the others are custom firmware
  Ext,          \* those whose image needs the extended OTA (over 128 KiB)
  Latest,       \* the version that an update installs
  None,
  MaxConnects,  \* connect attempts of a job (3 in the code)
  MaxVerify,    \* attempts to reach the device after an OTA (6 in the code)
  MaxJobs,      \* jobs that request_job queues (8 in the code)
  MaxRequests   \* bound: requests and device faults in a behaviour

ASSUME SessionAssumption ==
  /\ Stock \subseteq Version /\ Ext \subseteq Version /\ Latest \in Version
  /\ IsFiniteSet(Device) /\ None \notin Device \cup Version
  /\ MaxConnects \in Nat \ {0} /\ MaxVerify \in Nat /\ MaxJobs \in Nat /\ MaxRequests \in Nat

VARIABLES
  hub,        \* what the main loop owns, see Hub
  installed,  \* the firmware that each thermometer runs
  requests    \* counter for the bound

vars == <<hub, installed, requests>>

JobType == {"IDENTIFY", "CONFIG", "NAME", "PIN", "REBOOT", "ACTIVATE", "FLASH", "CONNECT"}
Job     == {j \in [type : JobType, dev : Device, fw : Version \cup {None}] :
              j.type = "FLASH" <=> j.fw # None}
JobOf(t, d, f) == [type |-> t, dev |-> d, fw |-> f]

Rest  == {"IDLE", "SUCCESS", "ERROR"}
State == Rest \cup {"CONNECTING", "CONNECTED", "IDENTIFYING", "VERIFYING", "ACTIVATING",
                    "READY", "ERASING", "WRITING", "REBOOTING", "RECONNECTING"}

(* What the registry holds of a device: firmware kind, configuration snapshot,
   DIS strings, the derived firmware version, and whether the hardware id is known. *)
Image     == Version \cup {None}
Snapshot  == [kind : {"unknown", "custom", "stock"}, cfg : Image, dis : Image, fw : Image,
              hw : BOOLEAN]
Unknown   == [kind |-> "unknown", cfg |-> None, dis |-> None, fw |-> None, hw |-> FALSE]

Op   == {"none", "dis", "subCustom", "subStock", "subAuth", "env", "speed", "write", "raw"}
Cmd  == {"none", "cfg", "set", "may", "ext", "ext2"}
Step == {"identify", "env", "finish"}

Hub == [state     : State,
        job       : Job \cup {None},
        dev       : Device \cup {None},     \* dev_
        deadline  : BOOLEAN,                \* step_deadline_ is set
        tries     : 0..MaxConnects,         \* connect_attempts_
        vtries    : 0..MaxVerify,           \* verify_attempts_
        verify    : BOOLEAN,                \* verify_pending_
        target    : Image,                  \* target_version_
        reconnect : BOOLEAN,                \* reconnect_at_ is set
        otaEnd    : BOOLEAN,                \* ota_end_ms_ is set
        leaving   : BOOLEAN,                \* disconnect_requested_
        hold      : BOOLEAN,                \* hold_release_
        client    : {"IDLE", "DISCOVERED", "CONNECTING", "ESTABLISHED", "DISCONNECTING"},
        op        : Op,                     \* the operation in flight, by its callback
        cmd       : Cmd,                    \* cmd_waiting_, by its callback
        chars     : {"none", "custom", "stock"},  \* whose characteristics ch_* hold
        ota       : {"off", "on", "cut"},   \* ota_: active, active without a connection
        auth      : BOOLEAN,                \* mi_auth_ is active
        later     : SUBSET Step,            \* deferred continuations
        looped    : BOOLEAN,                \* the hub's loop ran since they were
        stock     : BOOLEAN,                \* interval xf_stock_wait
        retry     : BOOLEAN,                \* timeout xf_reconnect
        renamed   : BOOLEAN,                \* the new firmware lost the device name
        jobs      : Seq(Job),               \* job_queue_
        updates   : Seq(Device),            \* update_queue_
        known     : [Device -> Snapshot],
        fresh     : BOOLEAN,                \* history: identified over this connection
        erased    : BOOLEAN]                \* history: extended OTA region ready

Active(s) == s.state \notin Rest
Linked(s) == s.client = "ESTABLISHED"

(* installed_version *)
InstalledVersion(k) ==
  CASE k.kind = "custom" /\ k.cfg # None -> k.cfg
    [] ~(k.kind = "custom" /\ k.cfg # None) /\ k.fw # None -> k.fw
    [] OTHER -> k.dis

(* What the hub learns of the device of its session goes to the registry. *)
Learn(s, k) == [s EXCEPT !.known = [s.known EXCEPT ![s.dev] = k]]

Kind(d) == IF installed[d] \in Stock THEN "stock" ELSE "custom"

----------------------------------------------------------------------------
(* Ending a session *)

Defer(s, step) == [s EXCEPT !.later = @ \cup {step}]

(* Mutant: end_connection overlooks that the tracker has not begun to connect. *)
ClosedPending(c) == IF c \in {"IDLE", "DISCOVERED"} THEN c ELSE "DISCONNECTING"

(* end_connection, once the operation in flight is completed. *)
Closed(c) == IF c \in {"IDLE", "DISCOVERED"} THEN "IDLE" ELSE "DISCONNECTING"
Cut(o)    == IF o = "off" THEN "off" ELSE "cut"
Hangup(s) == [s EXCEPT !.client = Closed(s.client), !.ota = Cut(s.ota)]

(* step_start_ota_; the transfer itself is TelinkOta. *)
StartOta(s) == [s EXCEPT !.state = "WRITING", !.deadline = FALSE,
                         !.ota = IF Linked(s) THEN "on" ELSE "cut"]

(* The callback of an operation with an error.  failed is where fail_session_ leads
   from s; inside of it, when no operation is left, that is FailIdle. *)
Lost(s, o, failed) ==
  CASE ~Active(s)   -> s
    [] Active(s) /\ o = "dis"   -> Defer(Learn(s, [s.known[s.dev] EXCEPT !.dis = None]), "identify")
    [] Active(s) /\ o = "env"   -> Defer(s, "finish")
    [] Active(s) /\ o \in {"subCustom", "subAuth"} -> failed
    [] Active(s) /\ o = "subStock" -> [s EXCEPT !.stock = TRUE]
    [] Active(s) /\ o = "speed" -> IF s.target \in Ext THEN failed ELSE StartOta(s)
    [] Active(s) /\ o = "write" ->
         IF s.cmd = "cfg" THEN Defer([s EXCEPT !.cmd = "none"], "env")
                          ELSE [s EXCEPT !.cmd = "none"]
    [] OTHER -> s

(* fail_session_ without an operation in flight. *)
FailIdle(s) ==
  [Hangup(s) EXCEPT !.state = "ERROR", !.dev = None, !.deadline = FALSE,
                    !.ota = "off", !.auth = FALSE, !.cmd = "none"]

(* Mutant: A failure leaves the authentication running. *)
FailKeepsAuth(s) ==
  LET given == [s EXCEPT !.deadline = FALSE, !.ota = "off", !.cmd = "none", !.op = "none"]
      after == Lost(given, s.op, FailIdle(given))
  IN  [Hangup(after) EXCEPT !.state = "ERROR", !.dev = None]

(* fail_session_: OTA, authentication and command are given up, then the
   connection ends.  The callback of the operation in flight runs in between,
   while the session still counts as active. *)
Fail(s) ==
  LET given == [s EXCEPT !.deadline = FALSE, !.ota = "off", !.auth = FALSE,
                         !.cmd = "none", !.op = "none"]
      after == Lost(given, s.op, FailIdle(given))
  IN  [Hangup(after) EXCEPT !.state = "ERROR", !.dev = None]

(* finish_session_; every caller that is left reports success. *)
Finish(s) == [s EXCEPT !.state = "SUCCESS", !.dev = None, !.deadline = FALSE,
                       !.leaving = FALSE]

(* disconnect_and_finish_: the close of the connection finishes the session. *)
Disconnect(s) ==
  IF s.client = "IDLE"
  THEN Finish(s)
  ELSE LET left == [s EXCEPT !.leaving = TRUE, !.deadline = TRUE, !.op = "none"]
       IN  Hangup(Lost(left, s.op, FailIdle(left)))

----------------------------------------------------------------------------
(* Operations and commands *)

(* A command ends without an answer.  Identification goes on without it, a PIN
   and a reboot are taken as done, everything else fails. *)
CmdFailed(s, c) ==
  CASE ~Active(s) -> s
    [] Active(s) /\ c = "cfg" -> Defer(s, "env")
    [] Active(s) /\ c = "may" -> Disconnect(s)
    [] OTHER -> Fail(s)

(* The callback of operation o with an error, called by the client. *)
OpLost(s, o) ==
  IF o = "write" /\ s.cmd # "none"
  THEN CmdFailed([s EXCEPT !.cmd = "none"], s.cmd)
  ELSE Lost(s, o, Fail(s))

(* read, subscribe, write: without a connection or with another operation in
   flight the callback runs at once. *)
Issue(s, o) == IF Linked(s) /\ s.op = "none" THEN [s EXCEPT !.op = o] ELSE Lost(s, o, Fail(s))

(* custom_cmd_: the write may be refused like any other. *)
CustomCmd(s, c) ==
  CASE s.chars # "custom" -> CmdFailed(s, c)
    [] s.chars = "custom" /\ Linked(s) /\ s.op = "none" ->
         [s EXCEPT !.cmd = c, !.op = "write"]
    [] OTHER -> CmdFailed([s EXCEPT !.cmd = "none"], c)

(* end_connection on its own. *)
EndConnection(s) == Hangup(OpLost([s EXCEPT !.op = "none"], s.op))

----------------------------------------------------------------------------
(* The jobs *)

(* step_big_ota_prepare_ *)
PrepareExt(s) ==
  CASE s.target \notin Ext -> StartOta(s)
    [] s.target \in Ext /\ s.chars = "custom" ->
         CustomCmd([s EXCEPT !.state = "ERASING", !.deadline = TRUE], "ext")
    [] OTHER -> Fail(s)

(* step_activate_ *)
Activate(s) ==
  CASE s.chars = "stock" ->
         Issue([s EXCEPT !.state = "ACTIVATING", !.deadline = TRUE], "subAuth")
    [] s.chars # "stock" /\ s.known[s.dev].kind = "custom" -> Disconnect(s)
    [] OTHER -> Fail(s)

(* step_prepare_ota_: the compatibility gate, before an activation only. *)
PrepareOta(s) ==
  LET k == s.known[s.dev]
      gate == s.state \notin {"ACTIVATING", "READY"}
      blocked == ~k.hw \/ (s.target \in Ext /\ k.kind = "stock")
  IN  CASE s.chars = "none" \/ (gate /\ blocked) -> Fail(s)
        [] s.chars # "none" /\ gate /\ ~blocked /\ k.kind = "stock" -> Activate(s)
        [] OTHER -> IF s.chars = "stock" THEN Issue([s EXCEPT !.state = "READY"], "speed")
                                         ELSE PrepareExt([s EXCEPT !.state = "READY"])

(* Mutant: An identification after the OTA is enough. *)
EvaluateVerifyAny(s) ==
  LET t == [s EXCEPT !.verify = FALSE]
  IN  IF InstalledVersion(s.known[s.dev]) # None THEN Disconnect(t) ELSE Fail(t)

(* evaluate_verify_: a lost device name is restored by a job of its own, first
   in the queue. *)
EvaluateVerify(s) ==
  LET t == [s EXCEPT !.verify = FALSE]
  IN  IF InstalledVersion(s.known[s.dev]) = s.target
      THEN Disconnect([t EXCEPT !.jobs = IF s.renamed THEN <<JobOf("NAME", s.dev, None)>> \o @
                                                      ELSE @])
      ELSE Fail(t)

(* continue_after_identify_ *)
Continue(s) ==
  LET k == s.known[s.dev]
      writing == [s EXCEPT !.state = "WRITING", !.deadline = TRUE]
  IN  CASE s.verify -> EvaluateVerify(s)
        [] ~s.verify /\ s.job.type = "IDENTIFY" -> Disconnect(s)
        [] ~s.verify /\ s.job.type = "CONFIG" ->
             IF k.kind = "custom" /\ k.cfg # None THEN CustomCmd(writing, "set") ELSE Fail(s)
        [] ~s.verify /\ s.job.type = "NAME" -> CustomCmd(writing, "set")
        [] ~s.verify /\ s.job.type = "PIN"  -> CustomCmd(writing, "may")
        [] ~s.verify /\ s.job.type = "REBOOT" ->
             IF s.chars = "custom"
             THEN CustomCmd([s EXCEPT !.state = "REBOOTING", !.deadline = TRUE], "may")
             ELSE Fail(s)
        [] ~s.verify /\ s.job.type = "ACTIVATE" -> Activate(s)
        [] ~s.verify /\ s.job.type = "FLASH" -> PrepareOta(s)
        [] OTHER -> [s EXCEPT !.state = "READY", !.deadline = FALSE, !.hold = FALSE]

(* finish_identification_: what the registry derives from the answers. *)
Identified(s) ==
  LET k == s.known[s.dev]
      sure == IF k.kind = "custom" THEN k.cfg ELSE k.dis
  IN  Continue(Learn(s, [k EXCEPT !.fw = IF k.kind = "custom" /\ k.cfg = None THEN k.fw ELSE sure,
                                  !.hw = (sure # None)]))

(* The deferred continuations of the identification. *)
Proceed(s, step) ==
  CASE step = "identify" ->
         IF s.chars # s.known[s.dev].kind THEN Identified(s)
         ELSE Issue(s, IF s.chars = "custom" THEN "subCustom" ELSE "subStock")
    [] step = "env"    -> Issue(s, "env")
    [] step = "finish" -> Identified(s)

(* step_discover_ on the device that is connected, of kind k. *)
Discover(s, k) ==
  Issue(Learn([s EXCEPT !.state = IF s.verify THEN s.state ELSE "IDENTIFYING", !.deadline = TRUE,
                        !.chars = k], [s.known[s.dev] EXCEPT !.kind = k]), "dis")

(* Mutant: A connect attempt without a deadline. *)
ConnectUntimed(s) == [s EXCEPT !.state = "CONNECTING", !.leaving = FALSE, !.tries = @ + 1,
                               !.client = "DISCOVERED", !.fresh = FALSE]

(* step_connect_ *)
Connect(s) == [s EXCEPT !.state = "CONNECTING", !.deadline = TRUE, !.leaving = FALSE,
                        !.tries = @ + 1, !.client = "DISCOVERED", !.fresh = FALSE,
                        !.erased = FALSE]

(* Mutant: One attempt too many after an OTA. *)
TryAgainOnceMore(s) ==
  IF s.vtries <= MaxVerify
  THEN [s EXCEPT !.vtries = @ + 1, !.reconnect = TRUE, !.deadline = TRUE, !.state = "REBOOTING"]
  ELSE Fail(s)

(* step_verify_reconnect_ fails or times out: another attempt later, up to MaxVerify. *)
TryAgain(s) ==
  IF s.vtries < MaxVerify
  THEN [s EXCEPT !.vtries = @ + 1, !.reconnect = TRUE, !.deadline = TRUE, !.state = "REBOOTING"]
  ELSE Fail(s)

(* on_connected_(false): an active session loses its connection, or did not get one. *)
Dropped(s) ==
  CASE s.state = "CONNECTING" ->
         IF s.tries < MaxConnects THEN [s EXCEPT !.retry = TRUE] ELSE Fail(s)
    [] s.state = "READY" /\ s.job.type = "CONNECT" -> Finish(s)
    [] s.state = "REBOOTING"    -> [s EXCEPT !.reconnect = TRUE]
    [] s.state = "RECONNECTING" -> TryAgain(s)
    [] OTHER -> Fail(s)

OnDisconnected(s) ==
  CASE ~Active(s) -> s
    [] Active(s) /\ s.leaving  -> Finish(s)
    [] Active(s) /\ ~s.leaving -> Dropped(s)

(* on_connected_(true); a verification forgets what the device said before. *)
OnConnected(s) ==
  CASE Active(s) /\ s.state = "RECONNECTING" ->
         Discover(Learn([s EXCEPT !.state = "VERIFYING", !.verify = TRUE],
                        [s.known[s.dev] EXCEPT !.cfg = None, !.dis = None]), Kind(s.dev))
    [] Active(s) /\ s.state = "CONNECTING" ->
         Discover([s EXCEPT !.state = "CONNECTED"], Kind(s.dev))
    [] OTHER -> s

(* The callback of operation o with its answer. *)
OpDone(s, o) ==
  CASE ~Active(s) -> s
    [] Active(s) /\ o = "dis" ->
         Defer(Learn([s EXCEPT !.fresh = s.fresh \/ s.chars = "stock"],
                     [s.known[s.dev] EXCEPT !.dis = installed[s.dev]]), "identify")
    [] Active(s) /\ o = "env"       -> Defer(s, "finish")
    [] Active(s) /\ o = "subCustom" -> CustomCmd(s, "cfg")
    [] Active(s) /\ o = "subStock"  -> [s EXCEPT !.stock = TRUE]
    [] Active(s) /\ o = "subAuth"   -> [s EXCEPT !.auth = TRUE]
    [] Active(s) /\ o = "speed"     -> PrepareExt(s)
    [] OTHER -> s

(* Mutant: a region that is still being erased counts as ready. *)
CmdDoneBusy(s, c, reply) ==
  CASE ~Active(s) -> s
    [] Active(s) /\ c = "cfg" ->
         Defer(Learn([s EXCEPT !.fresh = TRUE],
                     [s.known[s.dev] EXCEPT !.cfg = installed[s.dev]]), "env")
    [] Active(s) /\ c = "set" /\ s.job.type = "CONFIG" -> CustomCmd(s, "may")
    [] Active(s) /\ (c = "may" \/ (c = "set" /\ s.job.type # "CONFIG")) -> Disconnect(s)
    [] Active(s) /\ c \in {"ext", "ext2"} /\ reply # "refused" ->
         StartOta([s EXCEPT !.erased = (reply = "ready")])
    [] OTHER -> Fail(s)

(* The callback of command c with its answer.  A configuration is read back once
   it is written; a prepared OTA region may need a second notification. *)
CmdDone(s, c, reply) ==
  CASE ~Active(s) -> s
    [] Active(s) /\ c = "cfg" ->
         Defer(Learn([s EXCEPT !.fresh = TRUE],
                     [s.known[s.dev] EXCEPT !.cfg = installed[s.dev]]), "env")
    [] Active(s) /\ c = "set" /\ s.job.type = "CONFIG" -> CustomCmd(s, "may")
    [] Active(s) /\ (c = "may" \/ (c = "set" /\ s.job.type # "CONFIG")) -> Disconnect(s)
    [] Active(s) /\ c \in {"ext", "ext2"} /\ reply = "ready" ->
         StartOta([s EXCEPT !.erased = TRUE])
    [] Active(s) /\ c = "ext" /\ reply = "busy" -> CustomCmd(s, "ext2")
    [] OTHER -> Fail(s)

----------------------------------------------------------------------------
(* load_known_devices_: what the last boot knew of a device that runs v. *)
Restored(v) == [kind |-> IF v \in Stock THEN "stock" ELSE "custom",
                cfg |-> IF v \in Stock THEN None ELSE v, dis |-> None, fw |-> v, hw |-> TRUE]

Init ==
  /\ installed \in [Device -> Version]
  /\ requests = 0
  /\ \E unknown \in SUBSET Device :
       hub = [state |-> "IDLE", job |-> None, dev |-> None, deadline |-> FALSE, tries |-> 0,
              vtries |-> 0, verify |-> FALSE, target |-> None, reconnect |-> FALSE,
              otaEnd |-> FALSE, leaving |-> FALSE, hold |-> FALSE, client |-> "IDLE",
              op |-> "none", cmd |-> "none", chars |-> "none", ota |-> "off", auth |-> FALSE,
              later |-> {}, looped |-> FALSE, stock |-> FALSE, retry |-> FALSE,
              renamed |-> FALSE, jobs |-> <<>>, updates |-> <<>>,
              known |-> [d \in Device |-> IF d \in unknown THEN Unknown ELSE Restored(installed[d])],
              fresh |-> FALSE, erased |-> FALSE]

Handled(s) == hub' = s /\ UNCHANGED <<installed, requests>>
Looped(s)  == [s EXCEPT !.looped = (s.later # {})]
InLoop(s)  == Handled(Looped(s))
Requested(s) ==
  /\ requests < MaxRequests /\ requests' = requests + 1
  /\ hub' = s /\ UNCHANGED installed

Holding == hub.state = "READY" /\ hub.job.type = "CONNECT"

(* request_job, from the HTTP API or an entity: a held connection is asked to
   make way. *)
Request(j) ==
  LET held == Active(hub) /\ hub.job.type = "CONNECT"
      same == held /\ j.type = "CONNECT" /\ hub.dev = j.dev
      s    == [hub EXCEPT !.hold = @ \/ held]
  IN  ~same /\ Requested(IF Len(hub.jobs) < MaxJobs THEN [s EXCEPT !.jobs = Append(@, j)] ELSE s)

Release == Holding /\ Requested([hub EXCEPT !.hold = TRUE])

(* The devices of D in the order of the registry. *)
InOrder(D) == CHOOSE q \in [1..Cardinality(D) -> D] :
                \A d \in D : \E i \in 1..Cardinality(D) : q[i] = d

(* "Update all": every device with an update joins the queue, again if it is there. *)
UpdateAll ==
  LET due == {d \in Device : hub.known[d].hw /\ InstalledVersion(hub.known[d]) # Latest}
  IN  due # {} /\ Requested([hub EXCEPT !.updates = @ \o InOrder(due)])

(* A raw command over the held connection. *)
RawWrite ==
  /\ Holding /\ ~hub.hold /\ Linked(hub) /\ hub.op = "none" /\ hub.chars = "custom"
  /\ Requested([hub EXCEPT !.op = "raw"])

(* The loop starts the next job: a queued one, else the next update. *)
NextJob == IF hub.jobs # <<>> THEN Head(hub.jobs) ELSE JobOf("FLASH", Head(hub.updates), Latest)
Dequeued == IF hub.jobs # <<>> THEN [hub EXCEPT !.jobs = Tail(@)]
                               ELSE [hub EXCEPT !.updates = Tail(@)]

(* start_job_ *)
Begun(s, j) == [s EXCEPT !.job = j, !.dev = j.dev, !.tries = 0, !.vtries = 0, !.cmd = "none"]
Start(s, j) ==
  Connect([Begun(s, j) EXCEPT !.hold = FALSE, !.target = IF j.type = "FLASH" THEN j.fw ELSE @])

StartJob ==
  /\ ~Active(hub) /\ hub.jobs \o hub.updates # <<>> /\ hub.client = "IDLE"
  /\ \/ InLoop(Start(Dequeued, NextJob))
     \/ NextJob.type = "FLASH" /\ InLoop(Fail(Begun(Dequeued, NextJob)))  \* no valid image

(* The client still closes the last connection: the job goes (back) to the queue. *)
Postpone ==
  /\ ~Active(hub) /\ hub.jobs = <<>> /\ hub.updates # <<>> /\ hub.client # "IDLE"
  /\ InLoop([Dequeued EXCEPT !.jobs = <<NextJob>>])

AutoIdentify(d) ==
  LET j == JobOf("IDENTIFY", d, None)
  IN  /\ ~Active(hub) /\ hub.jobs \o hub.updates = <<>>
      /\ Requested(IF hub.client = "IDLE" THEN Looped(Start(hub, j)) ELSE [hub EXCEPT !.jobs = <<j>>])

----------------------------------------------------------------------------
(* The connection.  A transfer orphaned by a failure ends before the next
   connection is there: it begins with a pause of 500 ms and a failing write. *)

Promote == hub.client = "DISCOVERED" /\ Handled([hub EXCEPT !.client = "CONNECTING"])

Established ==
  /\ hub.client = "CONNECTING" /\ hub.ota = "off"
  /\ Handled(OnConnected([hub EXCEPT !.client = "ESTABLISHED"]))

OpenFailed ==
  hub.client = "CONNECTING" /\ Handled(OnDisconnected([hub EXCEPT !.client = "IDLE"]))

LinkLost ==
  /\ hub.client = "ESTABLISHED"
  /\ Handled(OpLost([hub EXCEPT !.client = "DISCONNECTING", !.op = "none"], hub.op))

ClientClosed ==
  hub.client = "DISCONNECTING" /\ Handled(OnDisconnected([hub EXCEPT !.client = "IDLE"]))

OpAnswered ==
  /\ hub.op # "none" /\ Linked(hub)
  /\ Handled(OpDone([hub EXCEPT !.op = "none"], hub.op))

OpFails == hub.op # "none" /\ Handled(OpLost([hub EXCEPT !.op = "none"], hub.op))

Notify ==
  /\ hub.cmd # "none" /\ Linked(hub)
  /\ \E reply \in {"ready", "busy", "refused"} :
       Handled(CmdDone([hub EXCEPT !.cmd = "none"], hub.cmd, reply))

----------------------------------------------------------------------------
(* Timers and deferred calls *)

CmdTimeout == hub.cmd # "none" /\ InLoop(CmdFailed([hub EXCEPT !.cmd = "none"], hub.cmd))

(* An operation gives up after 4 s, the reboot command after 3 s: both well before
   the 15 s and more of a reboot. *)
StepTimeout ==
  LET s == [hub EXCEPT !.deadline = FALSE]
  IN  /\ Active(hub) /\ hub.deadline
      /\ hub.state = "REBOOTING" => hub.cmd = "none" /\ hub.op = "none"
      /\ InLoop(IF hub.state \notin {"REBOOTING", "RECONNECTING"} THEN Fail(s)
                 ELSE IF hub.vtries < MaxVerify THEN TryAgain(EndConnection(s)) ELSE Fail(s))

(* The device keeps the link after the end of an OTA. *)
Fallback ==
  /\ hub.state = "REBOOTING" /\ ~hub.reconnect /\ hub.otaEnd /\ hub.client # "IDLE"
  /\ InLoop(EndConnection([hub EXCEPT !.otaEnd = FALSE]))

(* step_verify_reconnect_; a command still waits for less than the pause before it. *)
ReconnectDue ==
  /\ hub.state = "REBOOTING" /\ hub.reconnect /\ hub.client = "IDLE" /\ hub.cmd = "none"
  /\ InLoop([hub EXCEPT !.state = "RECONNECTING", !.reconnect = FALSE, !.leaving = FALSE,
                         !.client = "DISCOVERED", !.deadline = TRUE])

(* The loop ends a held connection that was asked to make way, or that is idle. *)
EndHold ==
  LET s == [hub EXCEPT !.hold = FALSE] IN hub.dev # None /\ InLoop(Disconnect(s))
HoldReleased == Holding /\ hub.hold /\ EndHold
HoldIdle     == Holding /\ ~hub.hold /\ EndHold

(* Deferred calls run before anything else of the next pass of the main loop. *)
RunDeferred(step) ==
  LET s == [hub EXCEPT !.later = @ \ {step}, !.looped = @ /\ hub.later # {step}]
  IN  step \in hub.later /\ Handled(IF Active(hub) THEN Proceed(s, step) ELSE s)

(* The interval that waits for a sample of a stock device: it looks at the session
   that is active when it fires. *)
StockTick ==
  LET s == [hub EXCEPT !.stock = FALSE]
  IN  hub.stock /\ hub.later = {} /\ Handled(IF Active(hub) THEN Identified(s) ELSE s)

RetryTimer ==
  LET s == [hub EXCEPT !.retry = FALSE]
  IN  /\ hub.retry /\ hub.later = {}
      /\ Handled(IF hub.state = "CONNECTING" /\ hub.client = "IDLE" THEN Connect(s) ELSE s)

----------------------------------------------------------------------------
(* Verdicts of the two protocols.  Whether the thermometer boots the image does
   not depend on the verdict alone, see TelinkOta. *)

AuthEnds ==
  LET s == [hub EXCEPT !.auth = FALSE]
  IN  /\ hub.auth
      /\ \/ Linked(hub) /\ Handled(IF hub.job.type = "ACTIVATE" THEN Disconnect(s)
                                                                ELSE PrepareOta(s))
         \/ Handled(Fail(s))

OtaEnds ==
  LET s == [hub EXCEPT !.ota = "off"]
  IN  /\ hub.ota # "off" /\ UNCHANGED requests
      /\ IF ~Active(hub) THEN hub' = s /\ UNCHANGED installed
         ELSE IF hub.ota = "cut"
         THEN hub' = Fail(s) /\ UNCHANGED installed
         ELSE /\ installed' \in {installed, [installed EXCEPT ![hub.dev] = hub.target]}
              /\ \/ \E lost \in BOOLEAN :
                      hub' = [s EXCEPT !.state = "REBOOTING", !.vtries = 0, !.otaEnd = TRUE,
                                       !.reconnect = (hub.client = "IDLE"), !.deadline = TRUE,
                                       !.renamed = lost]
                 \/ hub' = Fail(s)

(* One pass of the main loop runs the calls deferred in the last one, then the events
   of the BLE stack, then the hub's loop.  Calls deferred by events are still pending
   in that loop, which may start a job; nothing else comes before they run. *)
Deferred == \/ \E step \in Step : RunDeferred(step)
            \/ StockTick \/ RetryTimer
Events == \/ /\ hub.later = {} \/ ~hub.looped
             /\ LinkLost \/ ClientClosed \/ OpAnswered \/ OpFails \/ Notify
                \/ AuthEnds \/ OtaEnds
          \/ hub.later = {} /\ (Promote \/ Established \/ OpenFailed)
Loop == \/ StartJob \/ Postpone
        \/ /\ hub.later = {}
           /\ \/ CmdTimeout \/ StepTimeout \/ Fallback \/ ReconnectDue
              \/ HoldReleased \/ HoldIdle
Users == \/ Release \/ UpdateAll \/ RawWrite
         \/ \E j \in Job : Request(j)
         \/ \E d \in Device : AutoIdentify(d)

Next == Deferred \/ Events \/ Loop \/ Users
Spec == Init /\ [][Next]_vars

Fairness ==
  /\ WF_vars(StartJob) /\ WF_vars(StepTimeout) /\ WF_vars(CmdTimeout) /\ WF_vars(OpFails)
  /\ WF_vars(ReconnectDue) /\ WF_vars(HoldReleased) /\ WF_vars(ClientClosed)
  /\ WF_vars(StockTick) /\ WF_vars(RetryTimer) /\ WF_vars(AuthEnds) /\ WF_vars(OtaEnds)
  /\ \A step \in Step : WF_vars(RunDeferred(step))
FairSpec == Spec /\ Fairness

----------------------------------------------------------------------------
(* What must hold. *)

(* Every field stays in its range: connect and verification attempts are limited
   (on_connected_ and the step timeout), whatever mix of failures drives them. *)
TypeOK == hub \in Hub /\ installed \in [Device -> Version] /\ requests \in 0..MaxRequests

(* However a session ends, from whatever callback, its device is let go of, nothing
   of it is still in flight and the connection is closed or closing; while it lasts
   it is about the device of its job. *)
RestIsQuiet ==
  IF Active(hub) THEN hub.dev = hub.job.dev
  ELSE /\ hub.dev = None /\ hub.op = "none" /\ ~hub.auth
       /\ hub.client \in {"IDLE", "DISCONNECTING"}

(* A flash job reports success only if nothing that its device reported since the OTA
   contradicts the target version (evaluate_verify_), through all disconnects, retries
   and timeouts: it never succeeds with another version.  A DIS read that fails while
   the session leaves may empty the registry again. *)
FlashSuccessIsVerified ==
  hub.state = "SUCCESS" /\ hub.job.type = "FLASH" =>
    InstalledVersion(hub.known[hub.job.dev]) \in {hub.target, None}

(* An OTA over a connection belongs to a flash job, carries its image, and goes to a
   device whose hardware is known and which can take an image of that size, an image
   over 128 KiB only once the device has reported over the same connection that its
   extended region is ready (step_big_ota_prepare_): no callback, activation or retry
   leads around the gate of step_prepare_ota_. *)
OtaPassedTheGate ==
  Active(hub) /\ hub.ota = "on" =>
    LET k == hub.known[hub.dev]
    IN  /\ hub.job.type = "FLASH" /\ hub.target = hub.job.fw
        /\ k.hw /\ (hub.target \in Ext => k.kind = "custom" /\ hub.erased)

(* Every session ends or comes to hold its connection for the user, without the
   help of the device or of the radio: the deadlines suffice. *)
EverySessionEnds == Active(hub) ~> (~Active(hub) \/ Holding)

(* "Update all" goes on after failures: the queue drains unless a user holds a
   connection (comment in fail_session_). *)
UpdatesGoOn == hub.updates # <<>> ~> (hub.updates = <<>> \/ Holding)

----------------------------------------------------------------------------
(* What the documentation promises and the code does not keep. *)

(* README.md, safety rule 1: "No OTA without a fresh identification (HW + FW) in the
   same connection." *)
FreshOta == Active(hub) /\ hub.ota = "on" /\ hub.op = "none" => hub.fresh
=============================================================================
