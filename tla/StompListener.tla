---------------------------- MODULE StompListener ----------------------------
(***************************************************************************)
(* One queue of the event mode: the durable RabbitMQ queue, the stomp.py   *)
(* transport, WaldurListener with its worker thread, and the three places  *)
(* that connect it (startup, on_disconnected, the watchdog's tick).        *)
(*                                                                         *)
(* Messages are numbered in publication order, connections in the order    *)
(* they are opened.  The broker and the transport are external: they do    *)
(* what event_processing/listener.py says of them and relies on.           *)
(***************************************************************************)
EXTENDS Naturals, Sequences, FiniteSets

CONSTANTS
    MaxMsgs,             \* bound: messages published to the queue
    MaxConns,            \* bound: connections opened
    Prefetch,            \* STOMP_PREFETCH_COUNT
    ReconnectTries,      \* RECONNECT_MAX_RETRIES, of on_disconnected
    WatchdogTries,       \* WATCHDOG_CONNECT_ATTEMPTS, of a watchdog tick
    StartupTries,        \* STARTUP_CONNECT_ATTEMPTS
    LateNotices,         \* may a reconnect overtake on_disconnected of the old connection?
    OverlappingSessions  \* may the broker still hold the old session when a new one opens?

ListenerParameters ==
    /\ MaxMsgs \in Nat
    /\ MaxConns \in Nat
    /\ Prefetch \in Nat \ {0}
    /\ ReconnectTries \in Nat \ {0}
    /\ WatchdogTries \in Nat \ {0}
    /\ StartupTries \in Nat \ {0}
    /\ LateNotices \in BOOLEAN
    /\ OverlappingSessions \in BOOLEAN
ASSUME ConstantsAssumption == ListenerParameters

Msgs == 1..MaxMsgs
Conns == 1..MaxConns
Frames == [gen : Nat, conn : Conns, msg : Msgs]

\* Who runs connect_to_stomp_server: the main thread while it sets the consumer
\* up, the receiver thread of a dropped connection, the main thread on a tick.
Connectors == {"startup", "listener", "watchdog"}

VARIABLES
    \* the broker
    sent,        \* messages published so far
    queue,       \* "present" or "missing": does the registered queue exist?
    ready,       \* messages in the queue and not handed to a consumer
    unacked,     \* messages handed to the session of each connection
    sessions,    \* connections with a live subscription at the broker
    acked,       \* messages the broker removed because they were acked
    lost,        \* messages that went with a deleted queue
    \* the transport
    conn,        \* the newest connection
    link,        \* its state as the agent sees it (is_connected() unless "down")
    wire,        \* frames on the way to the receiver thread
    notices,     \* connections whose on_disconnected has not run yet
    \* the agent process
    generation,  \* _connection_generation
    messages,    \* _messages, the queue between receiver and worker
    worker,      \* the worker thread: where it is, and the frame it works on
    tries,       \* attempts each connector has left, 0 when it is not running
    closed,      \* _closed
    rereg,       \* a _reregister_queue thread is running
    \* history
    started,     \* messages whose handler was started
    handled      \* messages whose handler returned or raised

brokerVars == <<sent, queue, ready, unacked, sessions, acked, lost>>
linkVars   == <<conn, link, wire, notices>>
workVars   == <<messages, worker, started, handled>>
vars == <<brokerVars, linkVars, workVars, generation, tries, closed, rereg>>

NoFrame == [gen |-> 0, conn |-> 0, msg |-> 0]
WorkerStates == {"none", "idle", "handling", "acking"}

LinkStates == {"down", "connected", "subscribed", "refused"}

TypeOK ==
    /\ sent \in 0..MaxMsgs
    /\ queue \in {"present", "missing"}
    /\ ready \subseteq Msgs
    /\ unacked \in [Conns -> SUBSET Msgs]
    /\ sessions \subseteq Conns
    /\ acked \subseteq Msgs
    /\ lost \subseteq Msgs
    /\ conn \in 0..MaxConns
    /\ link \in LinkStates
    /\ link # "down" => conn \in Conns
    /\ wire \subseteq [conn : Conns, msg : Msgs]
    /\ notices \subseteq Conns
    /\ generation \in Nat
    /\ messages \in Seq(Frames)
    /\ worker \in [pc : WorkerStates, frame : Frames \cup {NoFrame}]
    /\ worker.pc \in {"handling", "acking"} => worker.frame \in Frames
    /\ tries \in [Connectors -> Nat]
    /\ closed \in BOOLEAN
    /\ rereg \in BOOLEAN
    /\ started \subseteq Msgs
    /\ handled \subseteq Msgs

Init ==
    /\ sent = 0
    /\ queue = "present"            \* _register_queue came before the connection
    /\ ready = {}
    /\ unacked = [c \in Conns |-> {}]
    /\ sessions = {}
    /\ acked = {}
    /\ lost = {}
    /\ conn = 0
    /\ link = "down"
    /\ wire = {}
    /\ notices = {}
    /\ generation = 0
    /\ messages = <<>>
    /\ worker = [pc |-> "none", frame |-> NoFrame]
    /\ tries = [k \in Connectors |-> IF k = "startup" THEN StartupTries ELSE 0]
    /\ closed = FALSE
    /\ rereg = FALSE
    /\ started = {}
    /\ handled = {}

-----------------------------------------------------------------------------
(* Bound. Connections are numbered, so only MaxConns of them are explored:   *)
(* an event that costs a connection is taken while enough numbers are left   *)
(* to recover from it.                                                       *)

Owed ==
    CASE link = "subscribed" /\ conn \in sessions -> 0
      [] link = "connected"  -> IF queue = "missing" THEN 1 ELSE 0
      [] OTHER               -> IF queue = "missing" /\ ~rereg THEN 2 ELSE 1

WithinBound == conn' + Owed' <= MaxConns

-----------------------------------------------------------------------------
(* The broker.                                                               *)

Publish ==
    /\ sent < MaxMsgs
    /\ sent' = sent + 1
    /\ \/ queue = "present" /\ ready' = ready \cup {sent + 1} /\ UNCHANGED lost
       \/ queue = "missing" /\ lost' = lost \cup {sent + 1} /\ UNCHANGED ready
    /\ UNCHANGED <<queue, unacked, sessions, acked, linkVars, workVars, generation,
                   tries, closed, rereg>>

\* The oldest message goes to a consumer with room in its prefetch window.
Deliver(c) ==
    /\ c \in sessions
    /\ Cardinality(unacked[c]) < Prefetch
    /\ \E m \in ready :
         /\ \A k \in ready : m <= k
         /\ ready' = ready \ {m}
         /\ unacked' = [unacked EXCEPT ![c] = @ \cup {m}]
         /\ wire' = IF c = conn /\ link = "subscribed"
                    THEN wire \cup {[conn |-> c, msg |-> m]} ELSE wire
    /\ UNCHANGED <<sent, queue, sessions, acked, lost, conn, link, notices, workVars,
                   generation, tries, closed, rereg>>

\* The broker drops a session and requeues what it had not acked.  The agent
\* may not notice for up to two heartbeats.
BrokerClose(c) ==
    /\ c \in sessions
    /\ sessions' = sessions \ {c}
    /\ ready' = ready \cup unacked[c]
    /\ unacked' = [unacked EXCEPT ![c] = {}]
    /\ UNCHANGED <<sent, queue, acked, lost, linkVars, workVars, generation, tries,
                   closed, rereg>>
    /\ WithinBound

\* The queue is deleted on the server; its consumers are cancelled.
QueueDeleted ==
    /\ queue = "present"
    /\ queue' = "missing"
    /\ lost' = lost \cup ready \cup UNION {unacked[c] : c \in Conns}
    /\ ready' = {}
    /\ unacked' = [c \in Conns |-> {}]
    /\ sessions' = {}
    /\ UNCHANGED <<sent, acked, linkVars, workVars, generation, tries, closed, rereg>>
    /\ WithinBound

-----------------------------------------------------------------------------
(* The transport: stomp.py clears the socket, so is_connected() is false,    *)
(* before the receiver thread fires on_disconnected.                         *)

LinkLost ==
    /\ link # "down"
    /\ link' = "down"
    /\ notices' = notices \cup {conn}
    /\ wire' = {}
    /\ UNCHANGED <<brokerVars, conn, workVars, generation, tries, closed, rereg>>
    /\ WithinBound

-----------------------------------------------------------------------------
(* Connecting.  reconnect() skips when its lock is taken; startup does not   *)
(* take the lock.                                                            *)

ReconnectLocked == tries["listener"] > 0 \/ tries["watchdog"] > 0

\* A CONNECT that is answered; the receiver thread then runs on_connected.
AttemptOk(k) ==
    /\ tries[k] > 0
    /\ link = "down"
    /\ LateNotices \/ notices = {}
    /\ OverlappingSessions \/ sessions = {}
    /\ conn < MaxConns
    /\ conn' = conn + 1
    /\ link' = "connected"
    /\ UNCHANGED <<brokerVars, wire, notices, workVars, generation, tries, closed, rereg>>
    /\ WithinBound

\* An attempt that fails: refused at once, or timed out with its socket open,
\* whose receiver thread then fires on_disconnected as well.
AttemptFails(k) ==
    /\ tries[k] > 0
    /\ link = "down"
    /\ tries' = [tries EXCEPT ![k] = @ - 1]
    /\ \/ UNCHANGED <<conn, notices>>
       \/ /\ conn < MaxConns
          /\ LateNotices \/ notices = {}
          /\ conn' = conn + 1
          /\ notices' = notices \cup {conn + 1}
    /\ UNCHANGED <<brokerVars, link, wire, workVars, generation, closed, rereg>>
    /\ conn' # conn => WithinBound

\* The loop sees is_connected() and the caller releases the lock.
ReconnectDone(k) ==
    /\ tries[k] > 0
    /\ link # "down"
    /\ tries' = [tries EXCEPT ![k] = 0]
    /\ UNCHANGED <<brokerVars, linkVars, workVars, generation, closed, rereg>>

\* Mutant: the generation of the dropped connection stays.
OnDisconnectedKeeps(c) ==
    /\ c \in notices
    /\ ~closed
    /\ notices' = notices \ {c}
    /\ tries' = IF ReconnectLocked THEN tries
                ELSE [tries EXCEPT !["listener"] = ReconnectTries]
    /\ UNCHANGED <<brokerVars, conn, link, wire, workVars, generation, closed, rereg>>

\* on_disconnected, on the receiver thread: a new generation, then reconnect().
OnDisconnected(c) ==
    /\ c \in notices
    /\ ~closed
    /\ notices' = notices \ {c}
    /\ generation' = generation + 1
    /\ tries' = IF ReconnectLocked THEN tries
                ELSE [tries EXCEPT !["listener"] = ReconnectTries]
    /\ UNCHANGED <<brokerVars, conn, link, wire, workVars, closed, rereg>>

\* ensure_worker(): start the worker unless it runs or the listener is closed.
EnsureWorker == IF closed \/ worker.pc # "none" THEN worker ELSE [worker EXCEPT !.pc = "idle"]

\* One tick of the watchdog for this consumer; the main thread runs it only
\* once the startup attempts are over.
WatchdogTick ==
    /\ ~closed
    /\ tries["startup"] = 0
    /\ worker' = EnsureWorker
    /\ tries' = IF link # "down" \/ ReconnectLocked THEN tries
                ELSE [tries EXCEPT !["watchdog"] = WatchdogTries]
    /\ UNCHANGED <<brokerVars, linkVars, messages, started, handled, generation,
                   closed, rereg>>

\* Mutant: a missing queue is not registered again.
OnConnectedGivesUp ==
    /\ link = "connected"
    /\ ~closed
    /\ generation' = generation + 1
    /\ \/ /\ queue = "present"
          /\ link' = "subscribed"
          /\ sessions' = sessions \cup {conn}
       \/ /\ queue = "missing"
          /\ link' = "refused"
          /\ UNCHANGED sessions
    /\ UNCHANGED <<sent, queue, ready, unacked, acked, lost, conn, wire, notices, workVars,
                   tries, closed, rereg>>

\* on_connected: a new generation, then the subscription.  For a queue that is
\* gone the broker answers NOT_FOUND, on_error starts a thread that registers
\* the queue again, and the broker closes the connection.
OnConnected ==
    /\ link = "connected"
    /\ ~closed
    /\ generation' = generation + 1
    /\ \/ /\ queue = "present"
          /\ link' = "subscribed"
          /\ sessions' = sessions \cup {conn}
          /\ UNCHANGED rereg
       \/ /\ queue = "missing"
          /\ link' = "refused"
          /\ rereg' = TRUE
          /\ UNCHANGED sessions
    /\ UNCHANGED <<sent, queue, ready, unacked, acked, lost, conn, wire, notices, workVars,
                   tries, closed>>

\* _reregister_queue: the call to Waldur works, or its error is logged and the
\* next NOT_FOUND starts another thread.
ReregisterQueue ==
    /\ rereg
    /\ rereg' = FALSE
    /\ \/ queue' = "present"
       \/ UNCHANGED queue
    /\ UNCHANGED <<sent, ready, unacked, sessions, acked, lost, linkVars, workVars,
                   generation, tries, closed>>
    /\ WithinBound

-----------------------------------------------------------------------------
(* Receiving and handling.                                                   *)

\* Mutant: frames are acked when they are received (ack mode "auto").
OnMessageAcks ==
    /\ link = "subscribed"
    /\ ~closed
    /\ \E f \in wire :
         /\ \A g \in wire : f.msg <= g.msg
         /\ wire' = wire \ {f}
         /\ messages' = Append(messages, [gen |-> generation, conn |-> f.conn, msg |-> f.msg])
         /\ unacked' = [unacked EXCEPT ![f.conn] = @ \ {f.msg}]
         /\ acked' = acked \cup (unacked[f.conn] \cap {f.msg})
    /\ worker' = EnsureWorker
    /\ UNCHANGED <<sent, queue, ready, sessions, lost, conn, link, notices, started, handled,
                   generation, tries, closed, rereg>>

\* on_message, on the receiver thread: tag the frame with the generation.
OnMessage ==
    /\ link = "subscribed"
    /\ ~closed
    /\ \E f \in wire :
         /\ \A g \in wire : f.msg <= g.msg
         /\ wire' = wire \ {f}
         /\ messages' = Append(messages, [gen |-> generation, conn |-> f.conn, msg |-> f.msg])
    /\ worker' = EnsureWorker
    /\ UNCHANGED <<brokerVars, conn, link, notices, started, handled, generation, tries,
                   closed, rereg>>

\* Mutant: frames of a replaced connection pass.
IsCurrentAlways(f) == f.gen <= generation

\* _is_current
IsCurrent(f) == f.gen = generation

\* Mutant: the newest frame is taken first.
WorkerTakeNewest ==
    /\ worker.pc = "idle"
    /\ ~closed
    /\ messages # <<>>
    /\ messages' = SubSeq(messages, 1, Len(messages) - 1)
    /\ LET f == messages[Len(messages)] IN
         \/ /\ IsCurrent(f)
            /\ worker' = [pc |-> "handling", frame |-> f]
            /\ started' = started \cup {f.msg}
         \/ /\ ~IsCurrent(f)
            /\ UNCHANGED <<worker, started>>
    /\ UNCHANGED <<brokerVars, linkVars, handled, generation, tries, closed, rereg>>

\* Mutant: the frame is forgotten before it is acked.
WorkerTakeForgets ==
    /\ worker.pc = "idle"
    /\ ~closed
    /\ messages # <<>>
    /\ messages' = Tail(messages)
    /\ worker' = [pc |-> "handling", frame |-> NoFrame]
    /\ started' = started \cup {Head(messages).msg}
    /\ UNCHANGED <<brokerVars, linkVars, handled, generation, tries, closed, rereg>>

\* _work: take the oldest frame; skip it when its connection was replaced.
WorkerTake ==
    /\ worker.pc = "idle"
    /\ ~closed
    /\ messages # <<>>
    /\ messages' = Tail(messages)
    /\ \/ /\ IsCurrent(Head(messages))
          /\ worker' = [pc |-> "handling", frame |-> Head(messages)]
          /\ started' = started \cup {Head(messages).msg}
       \/ /\ ~IsCurrent(Head(messages))
          /\ UNCHANGED <<worker, started>>
    /\ UNCHANGED <<brokerVars, linkVars, handled, generation, tries, closed, rereg>>

\* Mutant: a handler that raises leaves its message without an ack.
HandlerEndsUnacked ==
    /\ worker.pc = "handling"
    /\ \/ worker' = [worker EXCEPT !.pc = "acking"]
       \/ worker' = [pc |-> "idle", frame |-> NoFrame]
    /\ handled' = handled \cup {worker.frame.msg}
    /\ UNCHANGED <<brokerVars, linkVars, messages, started, generation, tries, closed, rereg>>

\* _handle: what the handler raises is logged, so both ends lead to the ack.
HandlerEnds ==
    /\ worker.pc = "handling"
    /\ worker' = [worker EXCEPT !.pc = "acking"]
    /\ handled' = handled \cup {worker.frame.msg}
    /\ UNCHANGED <<brokerVars, linkVars, messages, started, generation, tries, closed, rereg>>

\* The ack reaches the broker when the frame's session is still open there; on
\* a connection that is gone conn.ack raises, which is logged.
BrokerTakesAck(f) == link # "down" /\ f.conn = conn /\ f.conn \in sessions

\* _ack, under the generation lock; then the loop tests _closed.
WorkerAck ==
    /\ worker.pc = "acking"
    /\ worker' = [pc |-> IF closed THEN "none" ELSE "idle", frame |-> NoFrame]
    /\ LET f == worker.frame IN
         IF IsCurrent(f) /\ BrokerTakesAck(f) /\ f.msg \in unacked[f.conn]
         THEN /\ unacked' = [unacked EXCEPT ![f.conn] = @ \ {f.msg}]
              /\ acked' = acked \cup {f.msg}
         ELSE UNCHANGED <<unacked, acked>>
    /\ UNCHANGED <<sent, queue, ready, sessions, lost, linkVars, messages, started, handled,
                   generation, tries, closed, rereg>>

-----------------------------------------------------------------------------
(* Stopping and restarting the agent.                                        *)

\* stop_stomp_connection: close() ends the worker after its current message,
\* the listener is removed (no on_disconnected follows), the socket is closed.
Close ==
    /\ ~closed
    /\ tries["startup"] = 0
    /\ closed' = TRUE
    /\ link' = "down"
    /\ wire' = {}
    /\ notices' = {}
    /\ worker' = IF worker.pc = "idle" THEN [worker EXCEPT !.pc = "none"] ELSE worker
    /\ tries' = [k \in Connectors |-> 0]
    /\ UNCHANGED <<brokerVars, conn, messages, started, handled, generation, rereg>>
    /\ WithinBound

\* The process exits, by itself, by the liveness probe or by a crash, and a new
\* one registers the queue and connects.  The broker keeps the old session
\* until it misses its heartbeats.
Restart ==
    /\ queue' = "present"
    /\ link' = "down"
    /\ wire' = {}
    /\ notices' = {}
    /\ generation' = 0
    /\ messages' = <<>>
    /\ worker' = [pc |-> "none", frame |-> NoFrame]
    /\ tries' = [k \in Connectors |-> IF k = "startup" THEN StartupTries ELSE 0]
    /\ closed' = FALSE
    /\ rereg' = FALSE
    /\ UNCHANGED <<sent, ready, unacked, sessions, acked, lost, conn, started, handled>>
    /\ WithinBound

-----------------------------------------------------------------------------
Next ==
    \/ Publish \/ QueueDeleted \/ LinkLost \/ WatchdogTick \/ OnConnected
    \/ ReregisterQueue \/ OnMessage \/ WorkerTake \/ HandlerEnds \/ WorkerAck
    \/ Close \/ Restart
    \/ \E c \in Conns : Deliver(c) \/ BrokerClose(c) \/ OnDisconnected(c)
    \/ \E k \in Connectors : AttemptOk(k) \/ AttemptFails(k) \/ ReconnectDone(k)

Spec == Init /\ [][Next]_vars

\* Heartbeats make each side notice a connection that the other side closed,
\* threads that can run do run, handlers return, a closed agent is restarted,
\* and a broker that is tried again and again answers sometime.  Losing a
\* connection, the queue or the process is never forced.
DetectLoss == LinkLost /\ conn \notin sessions /\ link # "connected"
DetectGone(c) == BrokerClose(c) /\ (c # conn \/ link = "down")

-----------------------------------------------------------------------------
\* A message leaves the broker only after a handler ran for it to its end: the
\* worker acks after _handle, never when it queues, skips or loses a frame.
AckedWasHandled == acked \subseteq handled

\* "never acks with an id from the old connection": an ack that the generation
\* check lets through goes out on the connection its frame came on.
AcksOwnConnection ==
    worker.pc = "acking" /\ IsCurrent(worker.frame) /\ link # "down"
        => worker.frame.conn = conn

\* A handler is started only for a frame of the newest connection: what an
\* older one delivered is requeued by the broker and comes again.
StartsOnlyLive ==
    [][worker'.pc = "handling" /\ worker.pc # "handling" => worker'.frame.conn = conn]_vars

\* Per-queue order: when a handler is first started for a message, every
\* earlier message had one started before (or went with a deleted queue).
StartsInOrder == \A m \in started : \A k \in 1..m : k \in started \cup lost

\* At most Prefetch messages that are still the agent's to handle wait or run in
\* the process; the rest wait in the durable queue.
LiveFrames == {messages[i].msg : i \in {j \in 1..Len(messages) : IsCurrent(messages[j])}}
Current == IF worker.pc \in {"handling", "acking"} /\ IsCurrent(worker.frame)
           THEN {worker.frame.msg} ELSE {}
BacklogBounded == Cardinality(LiveFrames \cup Current) <= Prefetch

\* Every message is eventually handled and acked, whatever was lost, closed or
\* restarted on the way, unless it went with a deleted queue.
EveryMessageAcked == \A m \in Msgs : (sent >= m) ~> (m \in acked \cup lost)

-----------------------------------------------------------------------------
(* Inductive invariants, for the proofs.                                     *)

\* What the worker is about to ack, it has handled.
HandledInv ==
    /\ acked \subseteq handled
    /\ worker.pc = "acking" => worker.frame.msg \in handled

\* A frame of the current generation came on the newest connection, and once
\* that connection is gone an on_disconnected is still to come.
FrameInv(f) ==
    /\ f.gen <= generation
    /\ IsCurrent(f) => f.conn = conn /\ (link = "subscribed" \/ notices # {} \/ closed)

OwnInv ==
    /\ \A i \in 1..Len(messages) : FrameInv(messages[i])
    /\ worker.pc \in {"handling", "acking"} => FrameInv(worker.frame)
    /\ \A f \in wire : f.conn = conn
    /\ link # "subscribed" => wire = {}
    /\ closed => \A k \in Connectors : tries[k] = 0

\* The broker's books: a message is in one place there, and only an open
\* session holds any.
BooksInv ==
    /\ ready \subseteq 1..sent
    /\ \A c \in Conns :
         /\ unacked[c] \subseteq 1..sent
         /\ unacked[c] \cap ready = {}
         /\ \A d \in Conns : c # d => unacked[c] \cap unacked[d] = {}
         /\ c \notin sessions => unacked[c] = {}

\* A published message whose handler was not started, and that did not go with
\* a deleted queue, is at the broker.
KeptInv ==
    /\ \A k \in 1..sent : k \in started \cup lost \cup ready \/ \E c \in sessions : k \in unacked[c]
    /\ worker.pc \in {"handling", "acking"} => worker.frame.msg \in started

\* One session at a time: the one of the newest connection, while that lasts.
SessionInv ==
    /\ link \in {"connected", "refused"} => sessions = {}
    /\ link = "subscribed" => sessions \subseteq {conn}
    /\ notices # {} => link = "down"

\* The handler of k was or will be started before any frame after the n-th.
Before(k, n) ==
    \/ k \in started \cup lost
    \/ \E j \in 1..n : IsCurrent(messages[j]) /\ messages[j].msg = k

\* What is older than a frame is ahead of it on the way to the worker.
QueueOrderInv ==
    /\ \A i \in 1..Len(messages) : IsCurrent(messages[i]) =>
         \A k \in 1..messages[i].msg : k # messages[i].msg => Before(k, i - 1)
    /\ \A f \in wire : \A k \in 1..f.msg :
         Before(k, Len(messages)) \/ \E g \in wire : g.msg = k
    /\ link = "subscribed" => \A k \in unacked[conn] :
         Before(k, Len(messages)) \/ \E g \in wire : g.msg = k

OrderInv == StartsInOrder /\ BooksInv /\ KeptInv /\ SessionInv /\ QueueOrderInv

\* Frames and where they come from, also when notices are late.
WireInv ==
    /\ \A i \in 1..Len(messages) : messages[i].gen <= generation
    /\ worker.pc \in {"handling", "acking"} => worker.frame.gen <= generation
    /\ \A f \in wire : f.conn = conn
    /\ link # "subscribed" => wire = {}

\* No message is on its way to the worker twice.
OnceInv ==
    /\ \A i, j \in 1..Len(messages) :
         i # j /\ IsCurrent(messages[i]) /\ IsCurrent(messages[j]) => messages[i].msg # messages[j].msg
    /\ \A f \in wire : f.msg \notin LiveFrames \cup Current
    /\ Current \cap LiveFrames = {}

\* Everything on its way to the worker counts against the window of its session.
Pipeline == LiveFrames \cup Current \cup {f.msg : f \in wire}
WindowInv ==
    /\ \A c \in Conns : Cardinality(unacked[c]) <= Prefetch
    /\ Cardinality(Pipeline) <= Prefetch
    /\ link = "subscribed" /\ conn \in sessions => Pipeline \subseteq unacked[conn]

PrefetchInv == BooksInv /\ WireInv /\ OnceInv /\ WindowInv
=============================================================================
