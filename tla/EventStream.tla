---------------------------- MODULE EventStream ----------------------------
(***************************************************************************)
(* The live events of the hub: the backlog that log() and emit_event_()    *)
(* fill, the records of the clients of /api/events, and sse_pump_, which   *)
(* the main loop runs to send the backlog (xiaomi_esp_flasher.cpp,         *)
(* xiaomi_esp_flasher_web.cpp).  The HTTP server's task adds clients and   *)
(* ends their sessions at any point, also between two sends of the pump,   *)
(* which holds no lock then.  Records live in a heap of blocks that `new`  *)
(* may reuse: a pointer kept too long reaches another client's record or   *)
(* freed memory.                                                           *)
(***************************************************************************)
EXTENDS Naturals, Sequences, SequencesExt, Selection

CONSTANTS
  MaxConns,    \* bound: connections to /api/events, made in order
  MaxBlocks,   \* bound: addresses that `new SseClient` can return
  MaxClients,  \* 4 in the code
  LogTrim,     \* backlog that log() leaves: 40
  EventTrim,   \* backlog that emit_event_ leaves: 60
  MaxEvents,   \* bound: events of a behaviour
  None

ASSUME StreamAssumption ==
  /\ MaxConns \in Nat /\ MaxBlocks \in Nat /\ MaxClients \in Nat \ {0}
  /\ LogTrim \in Nat \ {0} /\ EventTrim \in Nat \ {0} /\ MaxEvents \in Nat
  /\ None \notin Nat

VARIABLES
  n,        \* events so far: the last one's number
  events,   \* events_
  heap,     \* SseClient records: whose, whether fd is not 0, whether allocated
  ctx,      \* sess_ctx: the block of a connection's record
  session,  \* the server's session: none, open, closing, closed
  sse,      \* sse_
  pump,     \* clients and pending of the sse_pump_ that is sending
  got,      \* what the browser received while its connection is open
  joined,   \* history: the last event before the client was registered
  lost      \* history: what overflowed or timed out after that

Conn  == 1..MaxConns
Block == 1..MaxBlocks

clients == <<heap, ctx, session, sse>>
history == <<got, joined, lost>>
vars    == <<n, events, clients, pump, history>>

Idle == [clients |-> <<>>, pending |-> <<>>, at |-> 1]

(* What `new` may return: a block that was deleted, or a new one.  New     *)
(* ones are alike: the first stands for all.                               *)
Used == {b \in Block : heap[b].owner # None}
Free == {b \in Block : ~heap[b].allocated /\ \A a \in 1..(b - 1) : b \in Used \/ a \in Used}

(* The clients that are registered and whose socket is open. *)
Live   == {c \in Conn : /\ session[c] = "open" /\ ctx[c] \in Range(sse)
                        /\ heap[ctx[c]].owner = c /\ heap[ctx[c]].fd}

Freed(h, b)  == [h EXCEPT ![b].allocated = FALSE]
Zeroed(h, b) == [h EXCEPT ![b].fd = FALSE]
----------------------------------------------------------------------------
(* The backlog *)

(* while (events_.size() > keep) events_.pop_front() *)
Trimmed(s, keep) == IF Len(s) > keep THEN SubSeq(s, Len(s) - keep + 1, Len(s)) ELSE s

(* push_back and trim.  What falls out is lost to the clients that were    *)
(* there when it happened.                                                 *)
Push(keep) ==
  LET kept == Trimmed(Append(events, n + 1), keep)
      out  == (Range(events) \cup {n + 1}) \ Range(kept)
  IN /\ n < MaxEvents
     /\ n' = n + 1
     /\ events' = kept
     /\ lost' = [c \in Conn |-> IF session[c] = "open"
                                THEN lost[c] \cup {e \in out : e > joined[c]} ELSE lost[c]]
     /\ UNCHANGED <<clients, pump, got, joined>>

(* A line is logged: by the main loop, or by the server's task for a new   *)
(* manifest.                                                               *)
Log == Push(LogTrim)

(* The main loop emits an event: never while it is in sse_pump_. *)
Emit == pump = Idle /\ Push(EventTrim)

----------------------------------------------------------------------------
(* The server's task *)

(* Mutant: The clients that are there stay. *)
MakeRoomNot == [heap |-> heap, sse |-> sse, session |-> session]

(* At the limit the oldest record is deleted at once, and the session of   *)
(* its socket is told to close.                                            *)
MakeRoom ==
  IF Len(sse) < MaxClients THEN [heap |-> heap, sse |-> sse, session |-> session]
  ELSE LET old == Head(sse)
       IN [heap    |-> Freed(heap, old),
           sse     |-> Tail(sse),
           session |-> IF heap[old].fd THEN [session EXCEPT ![heap[old].owner] = "closing"]
                       ELSE session]

(* The history of connections that are no longer open is dropped. *)
Forgotten(h, empty) == [c \in Conn |-> IF session'[c] = "open" THEN h[c] ELSE empty]

(* handle_sse_.  `new` comes before the old record is deleted. *)
Connect(c) ==
  /\ session[c] = "none" /\ \A d \in 1..(c - 1) : session[d] # "none"
  /\ \E b \in Free :
       /\ heap' = [MakeRoom.heap EXCEPT ![b] = [owner |-> c, fd |-> TRUE, allocated |-> TRUE]]
       /\ ctx' = [ctx EXCEPT ![c] = b]
       /\ sse' = Append(MakeRoom.sse, b)
       /\ session' = [MakeRoom.session EXCEPT ![c] = "open"]
  /\ joined' = [Forgotten(joined, 0) EXCEPT ![c] = n]
  /\ got' = Forgotten(got, <<>>) /\ lost' = Forgotten(lost, {})
  /\ UNCHANGED <<n, events, pump>>

(* The browser goes away. *)
PeerCloses(c) ==
  /\ session[c] = "open"
  /\ session' = [session EXCEPT ![c] = "closing"]
  /\ joined' = Forgotten(joined, 0)
  /\ got' = Forgotten(got, <<>>) /\ lost' = Forgotten(lost, {})
  /\ UNCHANGED <<n, events, heap, ctx, sse, pump>>

(* sse_free_ctx_: the record is marked, whatever is at its address now. *)
Cleared(h, b) == Zeroed(h, b)

(* The server ends the session of a closed socket. *)
SessionEnds(c) ==
  /\ session[c] = "closing"
  /\ heap' = Cleared(heap, ctx[c])
  /\ session' = [session EXCEPT ![c] = "closed"]
  /\ UNCHANGED <<n, events, ctx, sse, pump, history>>

----------------------------------------------------------------------------
(* sse_pump_ *)

Dead == {b \in Range(sse) : ~heap[b].fd}

(* Mutant: Dead clients are skipped and kept. *)
KeptAll == sse

(* The clients that stay. *)
Kept == Keep(sse, {i \in DOMAIN sse : heap[sse[i]].fd})

(* What is left of the backlog once the pump has taken it. *)
Taken == <<>>

(* Mutant: A dead client in front of the list counts as no client. *)
NobodyAlive == sse = <<>> \/ ~heap[Head(sse)].fd

(* sse_.empty() *)
Nobody == sse = <<>>

(* The locked part: nothing to do without clients but to forget the        *)
(* backlog; otherwise the pump takes it and drops the dead clients.  A     *)
(* ping is no event of the program: it lets the pump find a client dead    *)
(* when there is nothing else to send, and adds nothing when there is.     *)
PumpBegin(ping) ==
  /\ pump = Idle
  /\ events' = Taken
  /\ IF Nobody THEN /\ events # <<>>
                    /\ UNCHANGED <<heap, sse, pump>>
     ELSE LET pending == IF ping THEN Append(events, 0) ELSE events
              alive   == Kept
          IN /\ ping => events = <<>>
             /\ pending # <<>> \/ Dead # {}
             /\ heap' = [b \in Block |-> IF b \in Range(sse) \ Range(alive) THEN Freed(heap, b)[b]
                                         ELSE heap[b]]
             /\ sse' = alive
             /\ pump' = IF alive = <<>> \/ pending = <<>> THEN Idle
                        ELSE [clients |-> alive, pending |-> pending, at |-> 1]
  /\ UNCHANGED <<n, ctx, session, history>>

(* The next client of the loop; the pump ends after the last. *)
NextClient ==
  IF Len(pump.clients) = 1 THEN Idle
  ELSE [pump EXCEPT !.clients = Tail(@), !.at = 1]

(* The next event for the same client. *)
NextEvent ==
  IF pump.at = Len(pump.pending) THEN NextClient ELSE [pump EXCEPT !.at = @ + 1]

(* A failed send: c->fd.store(0). *)
Failed(b) == Zeroed(heap, b)

(* Mutant: The failed client ends the whole pump. *)
AfterFailureEnds == Idle

(* break: the rest of the backlog is not for this client. *)
AfterFailure == NextClient

(* One sse_send.  The socket may take the frame, time out (which counts as *)
(* sent) or fail; no session and no descriptor fail.  A frame that a       *)
(* closing socket takes reaches nobody.                                    *)
PumpSend ==
  /\ pump # Idle
  /\ LET b == Head(pump.clients)
         e == pump.pending[pump.at]
         c == heap[b].owner
     IN \/ /\ heap[b].fd /\ session[c] \in {"open", "closing"}
           /\ got' = IF e = 0 \/ session[c] # "open" THEN got
                     ELSE [got EXCEPT ![c] = Append(@, e)]
           /\ pump' = NextEvent
           /\ UNCHANGED <<heap, lost>>
        \/ /\ heap[b].fd /\ session[c] \in {"open", "closing"}
           /\ lost' = IF e = 0 \/ session[c] # "open" THEN lost
                      ELSE [lost EXCEPT ![c] = @ \cup {e}]
           /\ pump' = NextEvent
           /\ UNCHANGED <<heap, got>>
        \/ /\ heap' = Failed(b)
           /\ pump' = AfterFailure
           /\ UNCHANGED <<got, lost>>
  /\ UNCHANGED <<n, events, ctx, session, sse, joined>>

----------------------------------------------------------------------------
Init ==
  /\ n = 0 /\ events = <<>>
  /\ heap = [b \in Block |-> [owner |-> None, fd |-> FALSE, allocated |-> FALSE]]
  /\ ctx = [c \in Conn |-> None]
  /\ session = [c \in Conn |-> "none"]
  /\ sse = <<>> /\ pump = Idle
  /\ got = [c \in Conn |-> <<>>]
  /\ joined = [c \in Conn |-> 0]
  /\ lost = [c \in Conn |-> {}]

Next ==
  \/ Log
  \/ Emit
  \/ \E c \in Conn : Connect(c) \/ PeerCloses(c) \/ SessionEnds(c)
  \/ \E ping \in BOOLEAN : PumpBegin(ping)
  \/ PumpSend

(* The main loop calls sse_pump_ in every pass and ends it; the server     *)
(* ends the sessions of closed sockets.  Nothing makes a line or a client  *)
(* appear.                                                                 *)
Fairness ==
  /\ WF_vars(PumpBegin(FALSE))
  /\ WF_vars(PumpSend)
  /\ \A c \in Conn : WF_vars(SessionEnds(c))

Spec == Init /\ [][Next]_vars /\ Fairness
----------------------------------------------------------------------------
Increasing(s) == \A i, j \in DOMAIN s : i < j => s[i] < s[j]

(* What the pump that is running will still send to a client. *)
StillToSend(c) ==
  UNION {{pump.pending[j] : j \in {j \in DOMAIN pump.pending : i = 1 => j >= pump.at}} :
         i \in {i \in DOMAIN pump.clients : pump.clients[i] = ctx[c]}}

(* The records of sse_ are allocated, distinct, never more than the limit, *)
(* and no allocated record is forgotten; the pump has something to send.   *)
TypeOK ==
  /\ n \in 0..MaxEvents
  /\ events \in Seq(1..n) /\ Len(events) <= EventTrim + LogTrim
  /\ heap \in [Block -> [owner : Conn \cup {None}, fd : BOOLEAN, allocated : BOOLEAN]]
  /\ ctx \in [Conn -> Block \cup {None}]
  /\ session \in [Conn -> {"none", "open", "closing", "closed"}]
  /\ IsInjective(sse) /\ Len(sse) <= MaxClients
  /\ Range(sse) = {b \in Block : heap[b].allocated}
  /\ pump = Idle \/ (pump.clients # <<>> /\ pump.at \in DOMAIN pump.pending)

(* No client gets an event twice or an older one after a newer one, also   *)
(* when its record took the address of one that the pump still visits.     *)
StreamInOrder == \A c \in Conn : Increasing(got[c])

(* A client that is registered and alive misses nothing for an unknown     *)
(* reason: each event since it came was received, is in the backlog or     *)
(* with the pump, or is one that overflowed or timed out.                  *)
GapIsExplained ==
  \A c \in Live : (joined[c] + 1)..n
    \subseteq Range(got[c]) \cup lost[c] \cup Range(events) \cup StillToSend(c)

StreamIsWhole == StreamInOrder /\ GapIsExplained

(* A record whose session is over or whose send failed does not keep one   *)
(* of the places of the clients for ever: the pump removes it.             *)
DeadAreRemoved ==
  \A b \in Block : b \in Dead ~> ~(b \in Dead)

(* An event in the backlog of a live client is received, unless it is lost *)
(* or the client is.                                                       *)
EventsArrive ==
  \A c \in Conn, e \in 1..MaxEvents :
    (c \in Live /\ e \in Range(events) /\ e > joined[c])
      ~> (e \in Range(got[c]) \cup lost[c] \/ c \notin Live)

(* The record of a client outlives its session: sse_free_ctx_ only marks   *)
(* it, "deleted later on the main loop".                                   *)
RecordOutlivesSession ==
  \A c \in Conn : session[c] \in {"open", "closing"} =>
    heap[ctx[c]].allocated /\ heap[ctx[c]].owner = c
=============================================================================
