----------------------------- MODULE GattClient -----------------------------
(***************************************************************************)
(* TelinkBleClient (telink_ble_client.cpp): one connection, one operation  *)
(* at a time, each with a callback and a time limit.  The local BLE stack  *)
(* answers requests in the order they were made; an answer carries the     *)
(* handle of its request, and no more.  A callback may issue the next      *)
(* operation before it returns.                                            *)
(***************************************************************************)
EXTENDS Integers, Sequences, FiniteSets

LOCAL INSTANCE SequencesExt

CONSTANTS
  Handle,       \* characteristics
  Silent,       \* those without a client configuration descriptor (cccd_handle = 0)
  None,
  MaxCalls,     \* bound: operations in a behaviour
  MaxAttempts   \* bound: connections begun in a behaviour

VARIABLES
  link,      \* state() of the base class, with the steps between two of its events
  attempt,   \* connections begun
  reports,   \* what connect_cb_ was told of this connection
  op,        \* op_, op_handle_ and the callback that waits
  calls,     \* the operations in the order they were issued, and what their callbacks got
  stack      \* requests that the local stack has not answered

vars == <<link, attempt, reports, op, calls, stack>>

Kind   == {"READ", "WRITE", "SUBSCRIBE"}
Link   == {"idle", "discovered", "connecting", "searching", "established", "closing", "closed"}
Event  == {"READ", "WRITE", "REG", "DESCR"}   \* ESP_GATTC_*_EVT
CallId == 1..MaxCalls
Status == {"pending", "answered", "timeout", "disconnected", "busy", "error"}

Call    == [kind : Kind \cup {None}, handle : Handle \cup {None}, attempt : 1..MaxAttempts,
            status : Status, of : 0..MaxCalls, times : 0..1]
Request == [call : CallId, event : Event, handle : Handle]
Pending == [call : CallId, wait : Event, handle : Handle]

ASSUME ClientAssumption ==
  /\ Silent \subseteq Handle /\ None \notin Handle \cup Pending \cup Status
  /\ MaxCalls \in Nat /\ MaxAttempts \in Nat

Established == link = "established"

----------------------------------------------------------------------------
(* The operation and what belongs to it, as one value: a callback that issues the
   next operation takes a second step within the same handler. *)
State == [op |-> op, calls |-> calls, stack |-> stack]

(* connect_reported_ *)
ConnectReported == reports # <<>>

(* The callback of call c runs with a status; `of` is the call that was answered. *)
Told(seq, c, status, of) ==
  [seq EXCEPT ![c] = [seq[c] EXCEPT !.status = status, !.of = of, !.times = seq[c].times + 1]]

(* Mutant: The operation is cleared by the caller's next one. *)
FinishedKept(s, status, of) ==
  IF s.op = None THEN s ELSE [s EXCEPT !.calls = Told(s.calls, s.op.call, status, of)]

(* finish_op_: the operation is cleared before its callback runs. *)
Finished(s, status, of) ==
  IF s.op = None THEN s
  ELSE [s EXCEPT !.op = None, !.calls = Told(s.calls, s.op.call, status, of)]

First(kind) == IF kind = "SUBSCRIBE" THEN "REG" ELSE kind

(* Mutant: A busy client takes the operation and forgets the one that waits. *)
RefusalOver(s, est, accepted) ==
  CASE ~est -> "disconnected" [] est /\ ~accepted -> "error" [] OTHER -> None

(* Why read, write or subscribe call back at once, if they do. *)
Refusal(s, est, accepted) ==
  CASE ~est                              -> "disconnected"
    [] est /\ s.op # None                -> "busy"
    [] est /\ s.op = None /\ ~accepted   -> "error"
    [] OTHER                             -> None

(* A refused operation leaves nothing but its status. *)
Refused(why) == [kind |-> None, handle |-> None, attempt |-> attempt, status |-> why,
                 of |-> 0, times |-> 1]

Issued(s, kind, h, est, accepted) ==
  LET c   == Len(s.calls) + 1
      why == Refusal(s, est, accepted)
  IN IF why # None THEN [s EXCEPT !.calls = Append(@, Refused(why))]
     ELSE [op    |-> [call |-> c, wait |-> First(kind), handle |-> h],
           calls |-> Append(s.calls, [kind |-> kind, handle |-> h, attempt |-> attempt,
                                      status |-> "pending", of |-> 0, times |-> 0]),
           stack |-> Append(s.stack, [call |-> c, event |-> First(kind), handle |-> h])]

(* The callback that just ran issues another operation, or returns. *)
Follow(s, est) ==
  {s} \cup (IF Len(s.calls) = MaxCalls THEN {}
            ELSE {Issued(s, k, h, est, a) : k \in Kind, h \in Handle, a \in BOOLEAN})

Become(s) == op' = s.op /\ calls' = s.calls /\ stack' = s.stack

(* An operation ends: finish_op_ and whatever its callback issues. *)
Ends(status, of, est) ==
  IF op = None THEN UNCHANGED <<op, calls, stack>>
  ELSE \E s \in Follow(Finished(State, status, of), est) : Become(s)

----------------------------------------------------------------------------
(* begin_connect *)
BeginConnect ==
  /\ link = "idle" /\ attempt < MaxAttempts
  /\ link' = "discovered" /\ attempt' = attempt + 1 /\ reports' = <<>>
  /\ UNCHANGED <<op, calls, stack>>

(* The tracker stops the scan and connects; the connection opens. *)
Promoted == /\ link = "discovered" /\ link' = "connecting"
            /\ UNCHANGED <<attempt, reports, op, calls, stack>>
Opened   == /\ link = "connecting" /\ link' = "searching"
            /\ UNCHANGED <<attempt, reports, op, calls, stack>>

(* Mutant: The failure to open is left to on_disconnect_complete. *)
OpenFailedQuiet ==
  /\ link = "connecting" /\ link' \in {"idle", "closed"}
  /\ UNCHANGED <<attempt, reports, op, calls, stack>>

(* ESP_GATTC_OPEN_EVT with a failure: reported once.  on_disconnect_complete follows
   or not, as the base class has it. *)
OpenFailed ==
  /\ link = "connecting" /\ link' \in {"idle", "closed"}
  /\ reports' = IF ConnectReported THEN reports ELSE Append(reports, FALSE)
  /\ UNCHANGED <<attempt, op, calls, stack>>

(* ESP_GATTC_SEARCH_CMPL_EVT *)
SearchComplete ==
  /\ link = "searching" /\ link' = "established"
  /\ reports' = IF ConnectReported THEN reports ELSE Append(reports, TRUE)
  /\ UNCHANGED <<attempt, op, calls, stack>>

(* A caller issues an operation. *)
Issue ==
  /\ Len(calls) < MaxCalls
  /\ \E k \in Kind, h \in Handle, a \in BOOLEAN :
       attempt > 0 /\ Become(Issued(State, k, h, Established, a))
  /\ UNCHANGED <<link, attempt, reports>>

(* Mutant: An answer is taken by its kind, whatever its handle. *)
MatchesKind(e) == op # None /\ op.wait = e.event

(* An answer belongs to the operation that waits for its kind on its handle.  That of
   a descriptor write has the descriptor's handle, which is not compared. *)
Matches(e) ==
  /\ op # None /\ op.wait = e.event
  /\ e.event = "DESCR" \/ op.handle = e.handle

(* The base class enables the notifications of a characteristic in its descriptor. *)
Chained(e, ok) == e.event = "REG" /\ ok /\ e.handle \notin Silent
DescrOf(e) == [e EXCEPT !.event = "DESCR"]
After(e, ok) == IF Chained(e, ok) THEN Append(Tail(stack), DescrOf(e)) ELSE Tail(stack)

(* The stack answers its oldest request: READ_CHAR, WRITE_CHAR, REG_FOR_NOTIFY or
   WRITE_DESCR.  The answer is not told from that of an operation given up. *)
Answered ==
  /\ link \in {"established", "closing"} /\ stack # <<>>
  /\ \E ok \in BOOLEAN :
       LET e == Head(stack)
           s == [State EXCEPT !.stack = After(e, ok)]
       IN CASE ~Matches(e) -> Become(s)
            [] Matches(e) /\ Chained(e, ok) -> Become([s EXCEPT !.op.wait = "DESCR"])
            [] OTHER -> \E t \in Follow(Finished(s, "answered", e.call), Established) : Become(t)
  /\ UNCHANGED <<link, attempt, reports>>

(* loop: an operation that takes too long ends without its answer. *)
Timeout ==
  /\ op # None
  /\ Ends("timeout", 0, Established)
  /\ UNCHANGED <<link, attempt, reports>>

(* end_connection: the operation ends first, while the connection still stands. *)
EndConnection ==
  /\ Ends("disconnected", 0, Established)
  /\ link' = CASE link \in {"idle", "discovered"} -> "idle"
               [] link = "closed"                 -> "closed"
               [] OTHER                           -> "closing"
  /\ UNCHANGED <<attempt, reports>>

(* Mutant: The operation waits for on_disconnect_complete, or for its time limit. *)
DisconnectedSilently ==
  /\ link \in {"searching", "established", "closing"} /\ link' = "closed"
  /\ stack' = <<>> /\ UNCHANGED <<attempt, reports, op, calls>>

(* ESP_GATTC_DISCONNECT_EVT: the connection is gone, with what it had not answered. *)
Disconnected ==
  /\ link \in {"searching", "established", "closing"} /\ link' = "closed"
  /\ \E s \in Follow(Finished([State EXCEPT !.stack = <<>>], "disconnected", 0), FALSE) :
       Become(s)
  /\ UNCHANGED <<attempt, reports>>

(* on_disconnect_complete reports the end whatever was reported before. *)
DisconnectComplete ==
  /\ link = "closed" /\ link' = "idle"
  /\ Ends("disconnected", 0, FALSE)
  /\ reports' = Append(reports, FALSE)
  /\ UNCHANGED attempt

Init ==
  /\ link = "idle" /\ attempt = 0 /\ reports = <<>>
  /\ op = None /\ calls = <<>> /\ stack = <<>>

Next == \/ BeginConnect \/ Promoted \/ Opened \/ OpenFailed \/ SearchComplete
        \/ Issue \/ Answered \/ Timeout
        \/ EndConnection \/ Disconnected \/ DisconnectComplete

(* loop() runs, and the local stack finishes what it was asked to do: it opens a
   connection or fails to, and closes one.  It need not answer a request. *)
Fairness ==
  /\ WF_vars(Timeout)
  /\ WF_vars(Promoted) /\ WF_vars(Opened \/ OpenFailed) /\ WF_vars(SearchComplete)
  /\ WF_vars(link = "closing" /\ Disconnected) /\ WF_vars(DisconnectComplete)

Spec == Init /\ [][Next]_vars /\ Fairness

----------------------------------------------------------------------------
(* Type correctness; the list of reports stays within what one connection can have. *)
TypeOK ==
  /\ link \in Link /\ attempt \in 0..MaxAttempts
  /\ reports \in Seq(BOOLEAN) /\ Len(reports) <= 2
  /\ op \in Pending \cup {None}
  /\ calls \in Seq(Call) /\ Len(calls) <= MaxCalls
  /\ stack \in Seq(Request)

(* Every operation calls back exactly once and one waits at a time, through nested
   callbacks, refusals, time limits and lost connections (finish_op_ and its users). *)
Phase(c) == CASE c > Len(calls)               -> "new"
              [] c <= Len(calls) /\ calls[c].times = 0 -> "pending"
              [] OTHER                        -> "done"
Promise == INSTANCE GattPromise WITH Call <- CallId, phase <- [c \in CallId |-> Phase(c)]
KeepsPromise == Promise!Spec

(* An operation belongs to the connection it was issued on: no callback waits across
   the end of a connection, to be called by events of the next one
   (gattc_event_handler, on_disconnect_complete). *)
WaitsOnItsLink ==
  op # None => /\ link \in {"established", "closing"}
               /\ calls[op.call].attempt = attempt /\ calls[op.call].status = "pending"

(* Whoever was told of a connection is told of its end before the client can be used
   again (connect_cb_). *)
EndIsTold == link = "idle" /\ reports # <<>> => ~Last(reports)

EndsWithItsLink == WaitsOnItsLink /\ EndIsTold

(* When a callback gets the answer of another operation, that one was of the same
   kind, on the same characteristic unless both subscribe, in the same connection,
   and had been given up before its answer came.  Without a time limit that
   expires, answers and operations never get out of step (gattc_event_handler). *)
GaveUp(c) == \/ calls[c].status \in {"timeout", "disconnected"}
             \/ calls[c].status = "answered" /\ calls[c].of # c
ForeignAnswersAreLate ==
  \A c \in DOMAIN calls :
    LET of == calls[c].of IN
    calls[c].status = "answered" /\ of # c =>
      /\ of < c /\ GaveUp(of)
      /\ calls[of].attempt = calls[c].attempt /\ calls[of].kind = calls[c].kind
      /\ calls[c].kind # "SUBSCRIBE" => calls[of].handle = calls[c].handle

(* A connection that the tracker took up is reported: as established or as failed,
   whenever the caller ends it (connect_cb_). *)
AttemptIsReported == link = "connecting" ~> ConnectReported
=============================================================================
