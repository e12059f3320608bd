------------------------ MODULE StompListener_proofs ------------------------
(***************************************************************************)
(* Proofs about StompListener, for every number of messages, connections   *)
(* and attempts and every prefetch window.                                 *)
(***************************************************************************)
EXTENDS StompListener, FiniteSetTheorems, TLAPS

USE DEF vars, brokerVars, linkVars, workVars, ListenerParameters

\* The frame state and the sets of values used by TypeOK, for the worker.
LEMMA EnsureWorkerType ==
    ASSUME TypeOK
    PROVE  /\ EnsureWorker \in [pc : WorkerStates, frame : Frames \cup {NoFrame}]
           /\ EnsureWorker.pc \in {"handling", "acking"} => EnsureWorker.frame \in Frames
BY DEF TypeOK, EnsureWorker, WorkerStates

\* Before the first connect nothing is queued, in flight or acked.
LEMMA InitTypeOK == Init => TypeOK
<1> SUFFICES ASSUME Init PROVE TypeOK
  OBVIOUS
<1> USE ConstantsAssumption
<1>1. tries \in [Connectors -> Nat]
  BY DEF Init
<1>2. /\ worker \in [pc : WorkerStates, frame : Frames \cup {NoFrame}]
      /\ worker.pc \in {"handling", "acking"} => worker.frame \in Frames
  BY DEF Init, WorkerStates
<1>3. messages \in Seq(Frames)
  BY DEF Init
<1>4. unacked \in [Conns -> SUBSET Msgs]
  BY DEF Init
<1>5. sent \in 0..MaxMsgs /\ conn \in 0..MaxConns /\ generation \in Nat
  BY DEF Init
<1>6. link \in LinkStates /\ (link # "down" => conn \in Conns)
  BY DEF Init, LinkStates
<1> QED
  BY <1>1, <1>2, <1>3, <1>4, <1>5, <1>6 DEF Init, TypeOK

\* Every action of the listener, the broker and the watchdog keeps the types.
LEMMA NextTypeOK == TypeOK /\ [Next]_vars => TypeOK'
<1> SUFFICES ASSUME TypeOK, [Next]_vars PROVE TypeOK'
  OBVIOUS
<1> USE ConstantsAssumption
<1>1. CASE Publish
  <2>1. sent' \in 0..MaxMsgs /\ sent + 1 \in Msgs
    BY <1>1 DEF Publish, TypeOK, Msgs
  <2> QED BY <1>1, <2>1 DEF Publish, TypeOK
<1>2. CASE QueueDeleted
  BY <1>2 DEF QueueDeleted, TypeOK
<1>3. CASE LinkLost
  <2>1. notices' \subseteq Conns
    BY <1>3 DEF LinkLost, TypeOK
  <2>2. wire' \subseteq [conn : Conns, msg : Msgs]
    BY <1>3 DEF LinkLost
  <2> QED BY <1>3, <2>1, <2>2 DEF LinkLost, TypeOK, LinkStates
<1>4. CASE WatchdogTick
  BY <1>4, EnsureWorkerType DEF WatchdogTick, TypeOK, Connectors
<1>5. CASE OnConnected
  <2>1. conn \in Conns /\ generation' \in Nat
    BY <1>5 DEF OnConnected, TypeOK
  <2>2. link' \in LinkStates /\ sessions' \subseteq Conns /\ rereg' \in BOOLEAN
    BY <1>5, <2>1 DEF OnConnected, TypeOK, LinkStates
  <2> QED BY <1>5, <2>1, <2>2 DEF OnConnected, TypeOK
<1>6. CASE ReregisterQueue
  BY <1>6 DEF ReregisterQueue, TypeOK
<1>7. CASE OnMessage
  <2>1. PICK f \in wire :
          messages' = Append(messages, [gen |-> generation, conn |-> f.conn, msg |-> f.msg])
    BY <1>7 DEF OnMessage
  <2>2. [gen |-> generation, conn |-> f.conn, msg |-> f.msg] \in Frames
    BY <2>1 DEF TypeOK, Frames
  <2>3. messages' \in Seq(Frames)
    BY <2>1, <2>2 DEF TypeOK
  <2> QED BY <1>7, <2>3, EnsureWorkerType DEF OnMessage, TypeOK
<1>8. CASE WorkerTake
  <2>1. Head(messages) \in Frames /\ Tail(messages) \in Seq(Frames)
    BY <1>8 DEF WorkerTake, TypeOK
  <2>2. Head(messages).msg \in Msgs
    BY <2>1 DEF Frames
  <2> QED BY <1>8, <2>1, <2>2 DEF WorkerTake, TypeOK, WorkerStates
<1>9. CASE HandlerEnds
  <2>1. worker.frame.msg \in Msgs
    BY <1>9 DEF HandlerEnds, TypeOK, Frames
  <2> QED BY <1>9, <2>1 DEF HandlerEnds, TypeOK, WorkerStates
<1>10. CASE WorkerAck
  <2>1. worker.frame.msg \in Msgs /\ worker.frame.conn \in Conns
    BY <1>10 DEF WorkerAck, TypeOK, Frames
  <2> QED BY <1>10, <2>1 DEF WorkerAck, TypeOK, WorkerStates
<1>11. CASE Close
  <2>1. tries' \in [Connectors -> Nat]
    BY <1>11 DEF Close
  <2> QED BY <1>11, <2>1 DEF Close, TypeOK, WorkerStates, LinkStates
<1>12. CASE Restart
  <2>1. tries' \in [Connectors -> Nat]
    BY <1>12 DEF Restart
  <2>2. messages' \in Seq(Frames)
    BY <1>12 DEF Restart
  <2> QED BY <1>12, <2>1, <2>2 DEF Restart, TypeOK, WorkerStates, LinkStates
<1>13. ASSUME NEW c \in Conns, Deliver(c) PROVE TypeOK'
  BY <1>13 DEF Deliver, TypeOK
<1>14. ASSUME NEW c \in Conns, BrokerClose(c) PROVE TypeOK'
  BY <1>14 DEF BrokerClose, TypeOK
<1>15. ASSUME NEW c \in Conns, OnDisconnected(c) PROVE TypeOK'
  BY <1>15 DEF OnDisconnected, TypeOK, Connectors
<1>16. ASSUME NEW k \in Connectors, AttemptOk(k) PROVE TypeOK'
  BY <1>16 DEF AttemptOk, TypeOK, LinkStates, Conns
<1>17. ASSUME NEW k \in Connectors, AttemptFails(k) PROVE TypeOK'
  <2>1. tries' \in [Connectors -> Nat]
    <3>1. tries[k] \in Nat /\ tries[k] > 0
      BY <1>17 DEF AttemptFails, TypeOK
    <3>2. tries[k] - 1 \in Nat
      BY <3>1
    <3> QED BY <1>17, <3>2 DEF AttemptFails, TypeOK
  <2>2. conn' \in 0..MaxConns /\ notices' \subseteq Conns
    <3>1. conn \in 0..MaxConns /\ notices \subseteq Conns
      BY DEF TypeOK
    <3>2. conn < MaxConns => conn + 1 \in 0..MaxConns /\ conn + 1 \in Conns
      BY <3>1 DEF Conns
    <3>3. CASE UNCHANGED <<conn, notices>>
      BY <3>1, <3>3
    <3>4. CASE conn < MaxConns /\ conn' = conn + 1 /\ notices' = notices \cup {conn + 1}
      BY <3>1, <3>2, <3>4
    <3> QED BY <1>17, <3>3, <3>4 DEF AttemptFails
  <2>3. link' = "down" /\ link' \in LinkStates
    BY <1>17 DEF AttemptFails, TypeOK
  <2> QED BY <1>17, <2>1, <2>2, <2>3 DEF AttemptFails, TypeOK
<1>18. ASSUME NEW k \in Connectors, ReconnectDone(k) PROVE TypeOK'
  BY <1>18 DEF ReconnectDone, TypeOK
<1>19. CASE UNCHANGED vars
  BY <1>19 DEF TypeOK
<1> QED
  BY <1>1, <1>2, <1>3, <1>4, <1>5, <1>6, <1>7, <1>8, <1>9, <1>10, <1>11, <1>12,
     <1>13, <1>14, <1>15, <1>16, <1>17, <1>18, <1>19 DEF Next

\* The listener, its worker and the broker keep their types in every reachable
\* state, whatever is lost, closed or restarted.
THEOREM TypeCorrect == Spec => []TypeOK
BY InitTypeOK, NextTypeOK, PTL DEF Spec

-----------------------------------------------------------------------------
(* At-least-once: nothing is acked that was not handled.                     *)

\* A frame reaches _ack only through the end of _handle, so an id the broker
\* takes as acked is one that was handled.
LEMMA NextHandledInv == TypeOK /\ HandledInv /\ [Next]_vars => HandledInv'
<1> SUFFICES ASSUME TypeOK, HandledInv, [Next]_vars PROVE HandledInv'
  OBVIOUS
<1>1. CASE Publish \/ QueueDeleted \/ LinkLost \/ OnConnected \/ ReregisterQueue
  BY <1>1 DEF HandledInv, Publish, QueueDeleted, LinkLost, OnConnected, ReregisterQueue
<1>2. CASE WatchdogTick \/ OnMessage
  BY <1>2 DEF HandledInv, WatchdogTick, OnMessage, EnsureWorker, TypeOK
<1>3. CASE WorkerTake
  BY <1>3 DEF HandledInv, WorkerTake
<1>4. CASE HandlerEnds
  BY <1>4 DEF HandledInv, HandlerEnds, TypeOK
<1>5. CASE WorkerAck
  BY <1>5 DEF HandledInv, WorkerAck
<1>6. CASE Close \/ Restart
  BY <1>6 DEF HandledInv, Close, Restart, TypeOK
<1>7. ASSUME NEW c \in Conns, Deliver(c) \/ BrokerClose(c) \/ OnDisconnected(c)
      PROVE  HandledInv'
  BY <1>7 DEF HandledInv, Deliver, BrokerClose, OnDisconnected
<1>8. ASSUME NEW k \in Connectors, AttemptOk(k) \/ AttemptFails(k) \/ ReconnectDone(k)
      PROVE  HandledInv'
  BY <1>8 DEF HandledInv, AttemptOk, AttemptFails, ReconnectDone
<1>9. CASE UNCHANGED vars
  BY <1>9 DEF HandledInv
<1> QED
  BY <1>1, <1>2, <1>3, <1>4, <1>5, <1>6, <1>7, <1>8, <1>9 DEF Next

\* A message leaves the broker only after a handler ran for it to its end, over
\* every loss of a connection, of the queue or of the agent process.
THEOREM AckedHandled == Spec => []AckedWasHandled
<1>1. Init => HandledInv
  BY DEF Init, HandledInv
<1>2. HandledInv => AckedWasHandled
  BY DEF HandledInv, AckedWasHandled
<1> QED
  BY <1>1, <1>2, TypeCorrect, NextHandledInv, PTL DEF Spec

-----------------------------------------------------------------------------
(* Frames of an old connection are neither started nor acked, provided the   *)
(* receiver thread reports a lost connection before the next one is opened.  *)

\* A new generation makes every frame held so far stale.
LEMMA NewGeneration ==
    ASSUME TypeOK, OwnInv, generation' = generation + 1, UNCHANGED <<messages, worker>>
    PROVE  /\ \A i \in 1..Len(messages') : FrameInv(messages[i])'
           /\ worker'.pc \in {"handling", "acking"} => FrameInv(worker.frame)'
<1>1. /\ generation \in Nat
      /\ \A i \in 1..Len(messages) : messages[i].gen \in Nat /\ messages[i].gen <= generation
  <2>1. \A i \in 1..Len(messages) : messages[i] \in Frames
    BY DEF TypeOK
  <2>2. \A i \in 1..Len(messages) : FrameInv(messages[i])
    BY DEF OwnInv
  <2> QED BY <2>1, <2>2 DEF FrameInv, Frames, TypeOK
<1>2. worker.pc \in {"handling", "acking"}
        => worker.frame.gen \in Nat /\ worker.frame.gen <= generation
  <2>1. worker.pc \in {"handling", "acking"} => worker.frame \in Frames /\ FrameInv(worker.frame)
    BY DEF TypeOK, OwnInv
  <2> QED BY <2>1 DEF FrameInv, Frames
<1>3. /\ \A i \in 1..Len(messages) :
             messages[i].gen <= generation + 1 /\ messages[i].gen # generation + 1
      /\ worker.pc \in {"handling", "acking"}
           => worker.frame.gen <= generation + 1 /\ worker.frame.gen # generation + 1
  BY <1>1, <1>2
<1> QED BY <1>3 DEF FrameInv, IsCurrent

\* While on_disconnected comes before the reconnect, no step lets a frame of an
\* older connection count as current.
LEMMA NextOwnInv ==
    ASSUME ~LateNotices
    PROVE  TypeOK /\ OwnInv /\ [Next]_vars => OwnInv'
<1> SUFFICES ASSUME TypeOK, OwnInv, [Next]_vars PROVE OwnInv'
  OBVIOUS
<1>1. CASE Publish \/ QueueDeleted \/ ReregisterQueue \/ HandlerEnds \/ WorkerAck
  BY <1>1 DEF OwnInv, FrameInv, IsCurrent, Publish, QueueDeleted, ReregisterQueue,
              HandlerEnds, WorkerAck, TypeOK
<1>2. CASE LinkLost
  BY <1>2 DEF OwnInv, FrameInv, IsCurrent, LinkLost
<1>3. CASE WatchdogTick
  BY <1>3 DEF OwnInv, FrameInv, IsCurrent, WatchdogTick, EnsureWorker, TypeOK
<1>4. CASE OnConnected
  <2>1. generation' = generation + 1 /\ UNCHANGED <<messages, worker>> /\ wire = {}
    BY <1>4 DEF OnConnected, OwnInv
  <2> QED BY <1>4, <2>1, NewGeneration DEF OwnInv, OnConnected
<1>5. CASE OnMessage
  <2>1. PICK f \in wire :
          messages' = Append(messages, [gen |-> generation, conn |-> f.conn, msg |-> f.msg])
    BY <1>5 DEF OnMessage
  <2>2. f.conn = conn /\ link = "subscribed"
    BY <1>5, <2>1 DEF OnMessage, OwnInv
  <2>3. /\ Len(messages') = Len(messages) + 1
        /\ \A i \in 1..Len(messages) : messages'[i] = messages[i]
        /\ messages'[Len(messages) + 1] = [gen |-> generation, conn |-> f.conn, msg |-> f.msg]
    BY <2>1 DEF TypeOK
  <2>4. \A i \in 1..Len(messages') : FrameInv(messages'[i])
    BY <2>2, <2>3 DEF OwnInv, FrameInv, IsCurrent, TypeOK
  <2> QED BY <1>5, <2>4 DEF OwnInv, FrameInv, IsCurrent, OnMessage, EnsureWorker, TypeOK
<1>6. CASE WorkerTake
  BY <1>6 DEF OwnInv, FrameInv, IsCurrent, WorkerTake, TypeOK
<1>7. CASE Close
  BY <1>7 DEF OwnInv, FrameInv, IsCurrent, Close, TypeOK
<1>8. CASE Restart
  BY <1>8 DEF OwnInv, FrameInv, IsCurrent, Restart
<1>9. ASSUME NEW c \in Conns, Deliver(c) PROVE OwnInv'
  BY <1>9 DEF OwnInv, FrameInv, IsCurrent, Deliver
<1>10. ASSUME NEW c \in Conns, BrokerClose(c) PROVE OwnInv'
  BY <1>10 DEF OwnInv, FrameInv, IsCurrent, BrokerClose
<1>11. ASSUME NEW c \in Conns, OnDisconnected(c) PROVE OwnInv'
  <2>1. generation' = generation + 1 /\ UNCHANGED <<messages, worker>> /\ ~closed'
    BY <1>11 DEF OnDisconnected
  <2> QED BY <1>11, <2>1, NewGeneration DEF OwnInv, OnDisconnected
<1>12. ASSUME NEW k \in Connectors, AttemptOk(k) PROVE OwnInv'
  <2>1. ~closed /\ notices = {} /\ link = "down"
    BY <1>12 DEF AttemptOk, OwnInv, TypeOK
  <2>2. /\ \A i \in 1..Len(messages) : ~IsCurrent(messages[i])
        /\ worker.pc \in {"handling", "acking"} => ~IsCurrent(worker.frame)
    BY <2>1 DEF OwnInv, FrameInv
  <2>3. wire = {}
    BY <2>1 DEF OwnInv
  <2> QED BY <1>12, <2>1, <2>2, <2>3 DEF OwnInv, FrameInv, IsCurrent, AttemptOk
<1>13. ASSUME NEW k \in Connectors, AttemptFails(k) PROVE OwnInv'
  <2>1. ~closed /\ link = "down" /\ wire = {} /\ closed' = closed
    BY <1>13 DEF AttemptFails, OwnInv, TypeOK
  <2>2. CASE UNCHANGED <<conn, notices>>
    BY <1>13, <2>1, <2>2 DEF OwnInv, FrameInv, IsCurrent, AttemptFails
  <2>3. CASE notices = {} /\ notices' # {}
    <3>1. /\ \A i \in 1..Len(messages) : ~IsCurrent(messages[i])
          /\ worker.pc \in {"handling", "acking"} => ~IsCurrent(worker.frame)
      BY <2>1, <2>3 DEF OwnInv, FrameInv
    <3> QED BY <1>13, <2>1, <3>1 DEF OwnInv, FrameInv, IsCurrent, AttemptFails
  <2> QED BY <1>13, <2>2, <2>3 DEF AttemptFails
<1>14. ASSUME NEW k \in Connectors, ReconnectDone(k) PROVE OwnInv'
  BY <1>14 DEF OwnInv, FrameInv, IsCurrent, ReconnectDone, TypeOK
<1>15. CASE UNCHANGED vars
  BY <1>15 DEF OwnInv, FrameInv, IsCurrent
<1> QED
  BY <1>1, <1>2, <1>3, <1>4, <1>5, <1>6, <1>7, <1>8, <1>9, <1>10, <1>11, <1>12,
     <1>13, <1>14, <1>15 DEF Next

\* The invariant behind AcksOwn and StartsLive holds in every reachable state.
LEMMA OwnInvariant ==
    ASSUME ~LateNotices PROVE Spec => []OwnInv
<1>1. Init => OwnInv
  BY DEF Init, OwnInv
<1> QED
  BY <1>1, NextOwnInv, TypeCorrect, PTL DEF Spec

\* "never acks with an id from the old connection": the ack that the generation
\* check of _ack lets through goes out on the connection its frame came on.
THEOREM AcksOwn ==
    ASSUME ~LateNotices PROVE Spec => []AcksOwnConnection
<1>1. OwnInv => AcksOwnConnection
  BY DEF OwnInv, FrameInv, AcksOwnConnection
<1> QED
  BY <1>1, OwnInvariant, PTL

\* _work starts a handler only for a frame of the newest connection.
THEOREM StartsLive ==
    ASSUME ~LateNotices PROVE Spec => StartsOnlyLive
<1>1. TypeOK /\ OwnInv /\ [Next]_vars
        => [worker'.pc = "handling" /\ worker.pc # "handling" => worker'.frame.conn = conn]_vars
  <2> SUFFICES ASSUME TypeOK, OwnInv, Next,
                      worker'.pc = "handling", worker.pc # "handling"
               PROVE  worker'.frame.conn = conn
    OBVIOUS
  <2>1. WorkerTake /\ IsCurrent(Head(messages)) /\ worker'.frame = Head(messages)
    BY DEF Next, Publish, QueueDeleted, LinkLost, WatchdogTick, OnConnected, ReregisterQueue,
           OnMessage, WorkerTake, HandlerEnds, WorkerAck, Close, Restart, Deliver, BrokerClose,
           OnDisconnected, AttemptOk, AttemptFails, ReconnectDone, EnsureWorker, TypeOK
  <2>2. Head(messages) = messages[1] /\ 1 \in 1..Len(messages)
    BY <2>1 DEF WorkerTake, TypeOK
  <2> QED BY <2>1, <2>2 DEF OwnInv, FrameInv
<1> QED
  BY <1>1, OwnInvariant, TypeCorrect, PTL DEF Spec, StartsOnlyLive

-----------------------------------------------------------------------------
(* Per-queue order.                                                          *)

\* Publishing, delivery, requeueing, acks and the loss of the queue move a
\* message from one place at the broker to another.
LEMMA NextBooksInv == TypeOK /\ BooksInv /\ [Next]_vars => BooksInv'
<1> SUFFICES ASSUME TypeOK, BooksInv, [Next]_vars PROVE BooksInv'
  OBVIOUS
<1> USE ConstantsAssumption
<1>1. CASE Publish
  <2>1. sent \in Nat /\ sent' = sent + 1 /\ ready' \subseteq ready \cup {sent + 1}
    BY <1>1 DEF Publish, TypeOK
  <2>2. sent + 1 \notin 1..sent /\ 1..sent \subseteq 1..sent' /\ sent + 1 \in 1..sent'
    BY <2>1
  <2> QED BY <1>1, <2>1, <2>2 DEF Publish, BooksInv
<1>2. CASE QueueDeleted
  BY <1>2 DEF QueueDeleted, BooksInv, TypeOK
<1>3. CASE OnConnected
  BY <1>3 DEF OnConnected, BooksInv, TypeOK
<1>4. CASE WorkerAck
  <2>1. ready' = ready /\ sent' = sent /\ sessions' = sessions
    BY <1>4 DEF WorkerAck
  <2>2. \A c \in Conns : unacked'[c] \subseteq unacked[c]
    BY <1>4 DEF WorkerAck, TypeOK
  <2> QED BY <2>1, <2>2 DEF BooksInv
<1>5. ASSUME NEW c \in Conns, Deliver(c) PROVE BooksInv'
  <2>1. PICK m \in ready : /\ ready' = ready \ {m}
                           /\ unacked' = [unacked EXCEPT ![c] = @ \cup {m}]
    BY <1>5 DEF Deliver
  <2>2. c \in sessions /\ UNCHANGED <<sent, sessions>>
    BY <1>5 DEF Deliver
  <2>3. \A d \in Conns : unacked'[d] = IF d = c THEN unacked[c] \cup {m} ELSE unacked[d]
    BY <2>1 DEF TypeOK
  <2>4. \A d \in Conns : m \notin unacked[d]
    BY DEF BooksInv
  <2> QED BY <2>1, <2>2, <2>3, <2>4 DEF BooksInv
<1>6. ASSUME NEW c \in Conns, BrokerClose(c) PROVE BooksInv'
  <2>1. /\ ready' = ready \cup unacked[c] /\ sessions' = sessions \ {c} /\ sent' = sent
        /\ \A d \in Conns : unacked'[d] = IF d = c THEN {} ELSE unacked[d]
    BY <1>6 DEF BrokerClose, TypeOK
  <2> QED BY <2>1 DEF BooksInv
<1>7. CASE UNCHANGED <<sent, ready, unacked, sessions>>
  BY <1>7 DEF BooksInv
<1>8. CASE LinkLost \/ WatchdogTick \/ ReregisterQueue \/ OnMessage \/ WorkerTake \/ HandlerEnds
           \/ Close \/ Restart
  BY <1>8, <1>7 DEF LinkLost, WatchdogTick, ReregisterQueue, OnMessage, WorkerTake, HandlerEnds,
                    Close, Restart
<1>9. ASSUME NEW c \in Conns, OnDisconnected(c) PROVE BooksInv'
  BY <1>9, <1>7 DEF OnDisconnected
<1>10. ASSUME NEW k \in Connectors, AttemptOk(k) \/ AttemptFails(k) \/ ReconnectDone(k)
       PROVE  BooksInv'
  BY <1>10, <1>7 DEF AttemptOk, AttemptFails, ReconnectDone
<1> QED
  BY <1>1, <1>2, <1>3, <1>4, <1>5, <1>6, <1>7, <1>8, <1>9, <1>10 DEF Next

\* No step forgets a message between the broker and the start of its handler.
LEMMA NextKeptInv == TypeOK /\ BooksInv /\ KeptInv /\ [Next]_vars => KeptInv'
<1> SUFFICES ASSUME TypeOK, BooksInv, KeptInv, [Next]_vars PROVE KeptInv'
  OBVIOUS
<1> USE ConstantsAssumption
<1>1. CASE Publish
  <2>1. sent \in Nat /\ sent' = sent + 1 /\ (sent + 1 \in ready' \cup lost')
        /\ ready \subseteq ready' /\ lost \subseteq lost'
        /\ UNCHANGED <<unacked, sessions, started, worker>>
    BY <1>1 DEF Publish, TypeOK
  <2>2. \A k \in 1..sent' : k \in 1..sent \/ k = sent + 1
    BY <2>1
  <2> QED BY <2>1, <2>2 DEF KeptInv
<1>2. CASE QueueDeleted
  <2>1. /\ lost' = lost \cup ready \cup UNION {unacked[c] : c \in Conns}
        /\ UNCHANGED <<sent, started, worker>>
    BY <1>2 DEF QueueDeleted
  <2>2. sessions \subseteq Conns
    BY DEF TypeOK
  <2> QED BY <2>1, <2>2 DEF KeptInv
<1>3. CASE OnConnected
  BY <1>3 DEF OnConnected, KeptInv
<1>4. CASE WorkerAck
  <2>1. UNCHANGED <<sent, ready, lost, started, sessions>> /\ worker'.pc \notin {"handling", "acking"}
    BY <1>4 DEF WorkerAck
  <2>2. worker.frame.msg \in started
    BY <1>4 DEF WorkerAck, KeptInv
  <2>3. \A c \in Conns : unacked[c] \subseteq unacked'[c] \cup {worker.frame.msg}
    BY <1>4 DEF WorkerAck, TypeOK
  <2>4. sessions \subseteq Conns
    BY DEF TypeOK
  <2> QED BY <2>1, <2>2, <2>3, <2>4 DEF KeptInv
<1>5. ASSUME NEW c \in Conns, Deliver(c) PROVE KeptInv'
  <2>1. PICK m \in ready : /\ ready' = ready \ {m}
                           /\ unacked' = [unacked EXCEPT ![c] = @ \cup {m}]
    BY <1>5 DEF Deliver
  <2>2. c \in sessions /\ UNCHANGED <<sent, sessions, started, lost, worker>>
    BY <1>5 DEF Deliver
  <2>3. \A d \in Conns : unacked[d] \subseteq unacked'[d]
    BY <2>1 DEF TypeOK
  <2>4. m \in unacked'[c]
    BY <2>1 DEF TypeOK
  <2>5. sessions \subseteq Conns
    BY DEF TypeOK
  <2> QED BY <2>1, <2>2, <2>3, <2>4, <2>5 DEF KeptInv
<1>6. ASSUME NEW c \in Conns, BrokerClose(c) PROVE KeptInv'
  <2>1. /\ ready' = ready \cup unacked[c] /\ sessions' = sessions \ {c}
        /\ UNCHANGED <<sent, started, lost, worker>>
        /\ \A d \in Conns : d # c => unacked'[d] = unacked[d]
    BY <1>6 DEF BrokerClose, TypeOK
  <2>2. sessions \subseteq Conns
    BY DEF TypeOK
  <2> QED BY <2>1, <2>2 DEF KeptInv
<1>7. CASE WorkerTake
  BY <1>7 DEF WorkerTake, KeptInv
<1>8. CASE HandlerEnds
  BY <1>8 DEF HandlerEnds, KeptInv, TypeOK
<1>9. CASE WatchdogTick \/ OnMessage
  BY <1>9 DEF WatchdogTick, OnMessage, KeptInv, EnsureWorker, TypeOK
<1>10. CASE Close \/ Restart
  BY <1>10 DEF Close, Restart, KeptInv, TypeOK
<1>11. CASE UNCHANGED <<sent, ready, unacked, sessions, started, lost, worker>>
  BY <1>11 DEF KeptInv
<1>12. CASE LinkLost \/ ReregisterQueue
  BY <1>12, <1>11 DEF LinkLost, ReregisterQueue
<1>13. ASSUME NEW c \in Conns, OnDisconnected(c) PROVE KeptInv'
  BY <1>13, <1>11 DEF OnDisconnected
<1>14. ASSUME NEW k \in Connectors, AttemptOk(k) \/ AttemptFails(k) \/ ReconnectDone(k)
       PROVE  KeptInv'
  BY <1>14, <1>11 DEF AttemptOk, AttemptFails, ReconnectDone
<1> QED
  BY <1>1, <1>2, <1>3, <1>4, <1>5, <1>6, <1>7, <1>8, <1>9, <1>10, <1>11, <1>12, <1>13, <1>14
  DEF Next

\* The agent opens a connection only when the broker has closed the old session
\* and its loss was reported, so there is never a second session.
LEMMA NextSessionInv ==
    ASSUME ~LateNotices, ~OverlappingSessions
    PROVE  TypeOK /\ SessionInv /\ [Next]_vars => SessionInv'
<1> SUFFICES ASSUME TypeOK, SessionInv, [Next]_vars PROVE SessionInv'
  OBVIOUS
<1>1. CASE Publish \/ QueueDeleted \/ LinkLost \/ WatchdogTick \/ ReregisterQueue \/ OnMessage
           \/ WorkerTake \/ HandlerEnds \/ WorkerAck
  BY <1>1 DEF SessionInv, Publish, QueueDeleted, LinkLost, WatchdogTick, ReregisterQueue, OnMessage,
              WorkerTake, HandlerEnds, WorkerAck
<1>2. CASE OnConnected
  BY <1>2 DEF SessionInv, OnConnected
<1>3. CASE Close \/ Restart
  BY <1>3 DEF SessionInv, Close, Restart
<1>4. ASSUME NEW c \in Conns, Deliver(c) \/ BrokerClose(c) \/ OnDisconnected(c) PROVE SessionInv'
  BY <1>4 DEF SessionInv, Deliver, BrokerClose, OnDisconnected
<1>5. ASSUME NEW k \in Connectors, AttemptOk(k) PROVE SessionInv'
  BY <1>5 DEF SessionInv, AttemptOk
<1>6. ASSUME NEW k \in Connectors, AttemptFails(k) PROVE SessionInv'
  BY <1>6 DEF SessionInv, AttemptFails
<1>7. ASSUME NEW k \in Connectors, ReconnectDone(k) PROVE SessionInv'
  BY <1>7 DEF SessionInv, ReconnectDone
<1>8. CASE UNCHANGED vars
  BY <1>8 DEF SessionInv
<1> QED
  BY <1>1, <1>2, <1>3, <1>4, <1>5, <1>6, <1>7, <1>8 DEF Next

\* A new generation, with nothing on the wire or at the session: no frame is left
\* to be in order.
LEMMA NothingCurrent ==
    ASSUME TypeOK, OwnInv, generation' = generation + 1, UNCHANGED messages,
           wire' = {}, link' = "subscribed" => unacked'[conn'] = {}
    PROVE  QueueOrderInv'
<1>1. /\ generation \in Nat
      /\ \A i \in 1..Len(messages) : messages[i].gen \in Nat /\ messages[i].gen <= generation
  <2>1. \A i \in 1..Len(messages) : messages[i] \in Frames
    BY DEF TypeOK
  <2>2. \A i \in 1..Len(messages) : FrameInv(messages[i])
    BY DEF OwnInv
  <2> QED BY <2>1, <2>2 DEF FrameInv, Frames, TypeOK
<1>2. \A i \in 1..Len(messages) : messages[i].gen # generation + 1
  BY <1>1
<1>3. \A i \in 1..Len(messages') : ~IsCurrent(messages[i])'
  BY <1>2 DEF IsCurrent
<1> QED
  BY <1>3 DEF QueueOrderInv

\* The worker takes the oldest frame of the queue, and whatever is older than a
\* frame on the wire or in the queue stays ahead of it.
LEMMA NextQueueOrderInv ==
    ASSUME ~LateNotices, ~OverlappingSessions
    PROVE  TypeOK /\ OwnInv /\ OrderInv /\ [Next]_vars => QueueOrderInv'
<1> SUFFICES ASSUME TypeOK, OwnInv, OrderInv, [Next]_vars PROVE QueueOrderInv'
  OBVIOUS
<1> USE ConstantsAssumption DEF OrderInv
<1>1. CASE /\ UNCHANGED <<messages, generation, wire, conn, link>>
           /\ started \subseteq started' /\ lost \subseteq lost'
           /\ link = "subscribed" => unacked'[conn] \subseteq unacked[conn]
  <2>1. \A k, n : Before(k, n) => Before(k, n)'
    BY <1>1 DEF Before, IsCurrent
  <2> QED BY <1>1, <2>1 DEF QueueOrderInv, IsCurrent
<1>2. CASE Publish \/ WatchdogTick \/ ReregisterQueue \/ HandlerEnds
  BY <1>1, <1>2 DEF Publish, WatchdogTick, ReregisterQueue, HandlerEnds
<1>3. CASE QueueDeleted
  <2>1. link = "subscribed" => unacked'[conn] \subseteq unacked[conn]
    BY <1>3 DEF QueueDeleted, TypeOK
  <2> QED BY <1>1, <1>3, <2>1 DEF QueueDeleted
<1>4. CASE WorkerAck
  <2>1. link = "subscribed" => unacked'[conn] \subseteq unacked[conn]
    BY <1>4 DEF WorkerAck, TypeOK
  <2> QED BY <1>1, <1>4, <2>1 DEF WorkerAck
<1>5. ASSUME NEW c \in Conns, BrokerClose(c) PROVE QueueOrderInv'
  <2>1. link = "subscribed" => unacked'[conn] \subseteq unacked[conn]
    BY <1>5 DEF BrokerClose, TypeOK
  <2> QED BY <1>1, <1>5, <2>1 DEF BrokerClose
<1>6. CASE /\ UNCHANGED <<messages, generation, started, lost>>
           /\ wire' = {} /\ link' # "subscribed"
  BY <1>6 DEF QueueOrderInv, Before, IsCurrent
<1>7. CASE LinkLost \/ Close
  BY <1>6, <1>7 DEF LinkLost, Close
<1>8. CASE Restart
  <2>1. messages' = <<>> /\ wire' = {} /\ link' = "down"
    BY <1>8 DEF Restart
  <2> QED BY <2>1 DEF QueueOrderInv
<1>9. CASE OnConnected
  <2>1. link = "connected" /\ wire = {} /\ sessions = {} /\ conn \in Conns
    BY <1>9 DEF OnConnected, OwnInv, SessionInv, TypeOK
  <2>2. unacked[conn] = {}
    BY <2>1 DEF BooksInv
  <2> QED BY <1>9, <2>1, <2>2, NothingCurrent DEF OnConnected
<1>10. ASSUME NEW c \in Conns, OnDisconnected(c) PROVE QueueOrderInv'
  <2>1. link = "down" /\ wire = {}
    BY <1>10 DEF OnDisconnected, SessionInv, OwnInv
  <2> QED BY <1>10, <2>1, NothingCurrent DEF OnDisconnected
<1>11. ASSUME NEW k \in Connectors, AttemptOk(k) \/ AttemptFails(k) PROVE QueueOrderInv'
  <2>1. wire = {}
    BY <1>11 DEF AttemptOk, AttemptFails, OwnInv
  <2> QED BY <1>6, <1>11, <2>1 DEF AttemptOk, AttemptFails
<1>12. ASSUME NEW k \in Connectors, ReconnectDone(k) PROVE QueueOrderInv'
  BY <1>1, <1>12 DEF ReconnectDone
<1>13. ASSUME NEW c \in Conns, Deliver(c) PROVE QueueOrderInv'
  <2>1. PICK m \in ready :
          /\ \A k \in ready : m <= k
          /\ unacked' = [unacked EXCEPT ![c] = @ \cup {m}]
          /\ wire' = IF c = conn /\ link = "subscribed"
                     THEN wire \cup {[conn |-> c, msg |-> m]} ELSE wire
    BY <1>13 DEF Deliver
  <2>2. c \in sessions /\ UNCHANGED <<sessions, conn, link, messages, generation, started, lost>>
    BY <1>13 DEF Deliver
  <2>3. CASE ~(c = conn /\ link = "subscribed")
    <3>1. link = "subscribed" => unacked'[conn] = unacked[conn]
      BY <2>1, <2>3 DEF TypeOK
    <3> QED BY <1>1, <2>1, <2>2, <2>3, <3>1
  <2>4. CASE c = conn /\ link = "subscribed"
    <3>1. \A k, n : Before(k, n)' <=> Before(k, n)
      BY <2>2 DEF Before, IsCurrent
    <3>2. wire' = wire \cup {[conn |-> c, msg |-> m]}
      BY <2>1, <2>4
    <3>3. unacked'[conn] = unacked[conn] \cup {m}
      BY <2>1, <2>4 DEF TypeOK
    <3>4. \A k \in 1..m : k # m => Before(k, Len(messages)) \/ \E g \in wire : g.msg = k
      <4> SUFFICES ASSUME NEW k \in 1..m, k # m
                   PROVE  Before(k, Len(messages)) \/ \E g \in wire : g.msg = k
        OBVIOUS
      <4>1. m \in 1..sent /\ sent \in Nat
        BY DEF BooksInv, TypeOK
      <4>2. k \in 1..sent /\ k \notin ready
        BY <2>1, <4>1
      <4>3. k \in started \cup lost \/ \E d \in sessions : k \in unacked[d]
        BY <4>2 DEF KeptInv
      <4>4. k \in started \cup lost \/ k \in unacked[conn]
        BY <4>3, <2>4 DEF SessionInv
      <4> QED BY <4>4, <2>4 DEF Before, QueueOrderInv
    <3>5. \E g \in wire' : g.msg = m
      <4>1. [conn |-> c, msg |-> m] \in wire' /\ [conn |-> c, msg |-> m].msg = m
        BY <3>2
      <4> QED BY <4>1, Zenon
    <3>6. \A f \in wire' : \A k \in 1..f.msg :
            Before(k, Len(messages))' \/ \E g \in wire' : g.msg = k
      <4>1. \A f \in wire : \A k \in 1..f.msg :
              Before(k, Len(messages))' \/ \E g \in wire' : g.msg = k
        BY <3>1, <3>2, <2>2 DEF QueueOrderInv
      <4>2. \A k \in 1..m : Before(k, Len(messages))' \/ \E g \in wire' : g.msg = k
        BY <3>1, <3>2, <3>4, <3>5, <2>2
      <4> QED BY <3>2, <4>1, <4>2
    <3>7. \A k \in unacked'[conn'] : Before(k, Len(messages))' \/ \E g \in wire' : g.msg = k
      <4>1. \A k \in unacked[conn] : Before(k, Len(messages))' \/ \E g \in wire' : g.msg = k
        BY <2>2, <2>4, <3>1, <3>2 DEF QueueOrderInv
      <4> QED BY <2>2, <3>3, <3>5, <4>1
    <3>8. \A i \in 1..Len(messages) : IsCurrent(messages[i])' => IsCurrent(messages[i])
      BY <2>2 DEF IsCurrent
    <3> QED BY <2>2, <3>1, <3>6, <3>7, <3>8 DEF QueueOrderInv
  <2> QED BY <2>3, <2>4
<1>14. CASE OnMessage
  <2>0. PICK L \in Nat : L = Len(messages)
    BY DEF TypeOK
  <2>1. PICK f \in wire :
          /\ \A g \in wire : f.msg <= g.msg
          /\ wire' = wire \ {f}
          /\ messages' = Append(messages, [gen |-> generation, conn |-> f.conn, msg |-> f.msg])
    BY <1>14 DEF OnMessage
  <2>2. UNCHANGED <<generation, started, lost, unacked, conn, link>>
    BY <1>14 DEF OnMessage
  <2>3. /\ Len(messages') = L + 1 /\ L \in Nat
        /\ \A i \in 1..L : messages'[i] = messages[i]
        /\ messages'[L + 1] = [gen |-> generation, conn |-> f.conn, msg |-> f.msg]
    BY <2>0, <2>1 DEF TypeOK
  <2>4. f.msg \in Nat /\ \A g \in wire : g.msg \in Nat
    BY <2>1 DEF TypeOK, Msgs
  <2>5. \A k : \A n \in 0..L : Before(k, n) => Before(k, n)'
    BY <2>2, <2>3 DEF Before, IsCurrent
  <2>6. \A k : Before(k, L) => Before(k, L + 1)'
    BY <2>2, <2>3 DEF Before, IsCurrent
  <2>7. Before(f.msg, L + 1)'
    <3>1. IsCurrent(messages[L + 1])' /\ messages'[L + 1].msg = f.msg /\ L + 1 \in 1..(L + 1)
      BY <2>2, <2>3 DEF IsCurrent
    <3> QED BY <3>1 DEF Before
  <2>8. \A k : Before(k, L) \/ (\E g \in wire : g.msg = k)
               => Before(k, L + 1)' \/ \E g \in wire' : g.msg = k
    BY <2>1, <2>6, <2>7
  <2>9. \A g \in wire' : \A k \in 1..g.msg :
          Before(k, L + 1)' \/ \E h \in wire' : h.msg = k
    BY <2>0, <2>1, <2>8 DEF QueueOrderInv
  <2>10. link' = "subscribed" => \A k \in unacked'[conn'] :
          Before(k, L + 1)' \/ \E h \in wire' : h.msg = k
    BY <2>0, <2>2, <2>8 DEF QueueOrderInv
  <2>11. \A i \in 1..(L + 1) : IsCurrent(messages[i])' =>
           \A k \in 1..messages'[i].msg : k # messages'[i].msg => Before(k, i - 1)'
    <3> SUFFICES ASSUME NEW i \in 1..(L + 1), IsCurrent(messages[i])',
                        NEW k \in 1..messages'[i].msg, k # messages'[i].msg
                 PROVE  Before(k, i - 1)'
      OBVIOUS
    <3>1. CASE i \in 1..L
      <4>1. IsCurrent(messages[i]) /\ messages'[i] = messages[i] /\ i - 1 \in 0..L
        BY <3>1, <2>2, <2>3 DEF IsCurrent
      <4>2. Before(k, i - 1)
        BY <2>0, <3>1, <4>1 DEF QueueOrderInv
      <4> QED BY <4>1, <4>2, <2>5
    <3>2. CASE i = L + 1
      <4>1. k \in 1..f.msg /\ k # f.msg
        BY <3>2, <2>3
      <4>2. ~\E g \in wire : g.msg = k
        BY <4>1, <2>1, <2>4
      <4>3. Before(k, L)
        BY <2>0, <4>1, <4>2, <2>1 DEF QueueOrderInv
      <4>4. L \in 0..L /\ i - 1 = L
        BY <3>2, <2>3
      <4> QED BY <4>3, <4>4, <2>5
    <3> QED BY <3>1, <3>2, <2>3
  <2> QED BY <2>3, <2>9, <2>10, <2>11 DEF QueueOrderInv
<1>15. CASE WorkerTake
  <2>0. PICK L \in Nat : L = Len(messages)
    BY DEF TypeOK
  <2>1. /\ messages # <<>> /\ messages' = Tail(messages)
        /\ UNCHANGED <<generation, lost, wire, unacked, conn, link>>
    BY <1>15 DEF WorkerTake
  <2>2. /\ L \in Nat /\ L >= 1 /\ Len(messages') = L - 1
        /\ Head(messages) = messages[1]
        /\ \A i \in 1..(L - 1) : messages'[i] = messages[i + 1]
    BY <2>0, <2>1 DEF TypeOK
  <2>3. /\ started \subseteq started'
        /\ IsCurrent(messages[1]) => messages[1].msg \in started'
    BY <1>15, <2>2 DEF WorkerTake
  <2>4. \A k : \A n \in 0..(L - 1) : Before(k, n + 1) => Before(k, n)'
    <3> SUFFICES ASSUME NEW k, NEW n \in 0..(L - 1), Before(k, n + 1) PROVE Before(k, n)'
      OBVIOUS
    <3>1. CASE k \in started \cup lost
      BY <3>1, <2>1, <2>3 DEF Before
    <3>2. CASE k \notin started \cup lost
      <4>1. PICK j \in 1..(n + 1) : IsCurrent(messages[j]) /\ messages[j].msg = k
        BY <3>2 DEF Before
      <4>2. CASE j = 1
        BY <4>1, <4>2, <2>3 DEF Before
      <4>3. CASE j # 1
        <5>1. j - 1 \in 1..n /\ j - 1 \in 1..(L - 1) /\ (j - 1) + 1 = j
          BY <4>1, <4>3, <2>2
        <5>2. messages'[j - 1] = messages[j]
          BY <5>1, <2>2
        <5> QED BY <5>1, <5>2, <4>1, <2>1 DEF Before, IsCurrent
      <4> QED BY <4>2, <4>3
    <3> QED BY <3>1, <3>2
  <2>5. \A k : Before(k, L) => Before(k, L - 1)'
    BY <2>2, <2>4
  <2>6. \A i \in 1..(L - 1) : IsCurrent(messages[i])' =>
           \A k \in 1..messages'[i].msg : k # messages'[i].msg => Before(k, i - 1)'
    <3> SUFFICES ASSUME NEW i \in 1..(L - 1), IsCurrent(messages[i])',
                        NEW k \in 1..messages'[i].msg, k # messages'[i].msg
                 PROVE  Before(k, i - 1)'
      OBVIOUS
    <3>1. /\ i + 1 \in 1..L /\ messages'[i] = messages[i + 1] /\ IsCurrent(messages[i + 1])
          /\ (i + 1) - 1 = i /\ (i - 1) + 1 = i /\ i - 1 \in 0..(L - 1)
      BY <2>1, <2>2 DEF IsCurrent
    <3>2. Before(k, (i + 1) - 1)
      BY <2>0, <3>1 DEF QueueOrderInv
    <3>3. Before(k, (i - 1) + 1)
      BY <3>1, <3>2
    <3> QED BY <3>1, <3>3, <2>4
  <2> QED BY <2>0, <2>1, <2>2, <2>5, <2>6 DEF QueueOrderInv
<1>16. CASE UNCHANGED vars
  BY <1>1, <1>16
<1> QED
  BY <1>2, <1>3, <1>4, <1>5, <1>7, <1>8, <1>9, <1>10, <1>11, <1>12, <1>13, <1>14, <1>15, <1>16
  DEF Next

\* Only _work starts handlers, and the frame it takes has everything older
\* before it.
LEMMA NextStartsInOrder ==
    TypeOK /\ OrderInv /\ [Next]_vars => StartsInOrder'
<1> SUFFICES ASSUME TypeOK, OrderInv, [Next]_vars PROVE StartsInOrder'
  OBVIOUS
<1>1. CASE WorkerTake /\ IsCurrent(Head(messages))
  <2>1. Head(messages) = messages[1] /\ 1 \in 1..Len(messages) /\ 1 - 1 = 0 /\ messages[1] \in Frames
    BY <1>1 DEF WorkerTake, TypeOK
  <2>2. started' = started \cup {messages[1].msg} /\ lost' = lost
    BY <1>1, <2>1 DEF WorkerTake
  <2>3. \A k \in 1..messages[1].msg : k # messages[1].msg => Before(k, 0)
    <3>1. \A k \in 1..messages[1].msg : k # messages[1].msg => Before(k, 1 - 1)
      BY <1>1, <2>1 DEF OrderInv, QueueOrderInv
    <3> QED BY <3>1, <2>1
  <2>4. \A k \in 1..messages[1].msg : k \in started' \cup lost'
    BY <2>2, <2>3 DEF Before
  <2> QED BY <2>2, <2>4 DEF OrderInv, StartsInOrder
<1>2. CASE started' = started /\ lost \subseteq lost'
  BY <1>2 DEF OrderInv, StartsInOrder
<1>3. CASE WorkerTake /\ ~IsCurrent(Head(messages))
  BY <1>2, <1>3 DEF WorkerTake
<1>4. CASE Publish \/ QueueDeleted \/ LinkLost \/ WatchdogTick \/ OnConnected \/ ReregisterQueue
           \/ OnMessage \/ HandlerEnds \/ WorkerAck \/ Close \/ Restart
  BY <1>2, <1>4 DEF Publish, QueueDeleted, LinkLost, WatchdogTick, OnConnected, ReregisterQueue,
                    OnMessage, HandlerEnds, WorkerAck, Close, Restart
<1>5. ASSUME NEW c \in Conns, Deliver(c) \/ BrokerClose(c) \/ OnDisconnected(c) PROVE StartsInOrder'
  BY <1>2, <1>5 DEF Deliver, BrokerClose, OnDisconnected
<1>6. ASSUME NEW k \in Connectors, AttemptOk(k) \/ AttemptFails(k) \/ ReconnectDone(k)
      PROVE  StartsInOrder'
  BY <1>2, <1>6 DEF AttemptOk, AttemptFails, ReconnectDone
<1>7. CASE UNCHANGED vars
  BY <1>2, <1>7
<1> QED
  BY <1>1, <1>3, <1>4, <1>5, <1>6, <1>7 DEF Next

\* Per-queue order: when the handler of a message is first started, the handlers
\* of all older messages of the queue were, except of those that went with a
\* deleted queue; over every loss of a connection, of the queue or of the
\* process, while the loss of a connection is known to both sides before the
\* next one is opened.
THEOREM StartsOrdered ==
    ASSUME ~LateNotices, ~OverlappingSessions PROVE Spec => []StartsInOrder
<1>1. Init => OrderInv
  BY DEF Init, OrderInv, StartsInOrder, BooksInv, KeptInv, SessionInv, QueueOrderInv
<1>2. TypeOK /\ OwnInv /\ OrderInv /\ [Next]_vars => OrderInv'
  BY NextStartsInOrder, NextBooksInv, NextKeptInv, NextSessionInv, NextQueueOrderInv DEF OrderInv
<1>3. OrderInv => StartsInOrder
  BY DEF OrderInv
<1> QED
  BY <1>1, <1>2, <1>3, OwnInvariant, TypeCorrect, PTL DEF Spec

-----------------------------------------------------------------------------
(* The prefetch window bounds the backlog, also with late notices and        *)
(* overlapping sessions.                                                     *)

\* No step gives a frame a generation that is still to come, and the wire is
\* that of the newest connection.
LEMMA NextWireInv == TypeOK /\ WireInv /\ [Next]_vars => WireInv'
<1> SUFFICES ASSUME TypeOK, WireInv, [Next]_vars PROVE WireInv'
  OBVIOUS
<1>0. /\ generation \in Nat
      /\ \A i \in 1..Len(messages) : messages[i].gen \in Nat
      /\ worker.pc \in {"handling", "acking"} => worker.frame.gen \in Nat
  <2>1. \A i \in 1..Len(messages) : messages[i] \in Frames
    BY DEF TypeOK
  <2>2. worker.pc \in {"handling", "acking"} => worker.frame \in Frames
    BY DEF TypeOK
  <2>3. generation \in Nat
    BY DEF TypeOK
  <2> QED BY <2>1, <2>2, <2>3 DEF Frames
<1>1. CASE Publish \/ QueueDeleted \/ ReregisterQueue \/ HandlerEnds \/ WorkerAck \/ LinkLost
  BY <1>1 DEF WireInv, Publish, QueueDeleted, ReregisterQueue, HandlerEnds, WorkerAck, LinkLost,
              TypeOK
<1>2. CASE WatchdogTick
  BY <1>2 DEF WireInv, WatchdogTick, EnsureWorker, TypeOK
<1>3. CASE OnConnected
  BY <1>0, <1>3 DEF WireInv, OnConnected
<1>4. CASE OnMessage
  <2>1. PICK f \in wire :
          messages' = Append(messages, [gen |-> generation, conn |-> f.conn, msg |-> f.msg])
    BY <1>4 DEF OnMessage
  <2>2. /\ Len(messages') = Len(messages) + 1
        /\ \A i \in 1..Len(messages) : messages'[i] = messages[i]
        /\ messages'[Len(messages) + 1] = [gen |-> generation, conn |-> f.conn, msg |-> f.msg]
    BY <2>1 DEF TypeOK
  <2>3. \A i \in 1..Len(messages') : messages'[i].gen <= generation
    BY <1>0, <2>2 DEF WireInv, TypeOK
  <2> QED BY <1>4, <2>3 DEF WireInv, OnMessage, EnsureWorker, TypeOK
<1>5. CASE WorkerTake
  BY <1>5 DEF WireInv, WorkerTake, TypeOK
<1>6. CASE Close \/ Restart
  BY <1>6 DEF WireInv, Close, Restart, TypeOK
<1>7. ASSUME NEW c \in Conns, Deliver(c) PROVE WireInv'
  <2>1. PICK m \in ready : wire' = IF c = conn /\ link = "subscribed"
                                   THEN wire \cup {[conn |-> c, msg |-> m]} ELSE wire
    BY <1>7 DEF Deliver
  <2>2. UNCHANGED <<messages, worker, generation, conn, link>>
    BY <1>7 DEF Deliver
  <2>3. \A f \in wire' : f.conn = conn
    BY <2>1 DEF WireInv
  <2>4. link # "subscribed" => wire' = {}
    BY <2>1 DEF WireInv
  <2> QED BY <2>2, <2>3, <2>4 DEF WireInv
<1>8. ASSUME NEW c \in Conns, OnDisconnected(c) PROVE WireInv'
  BY <1>0, <1>8 DEF WireInv, OnDisconnected
<1>9. ASSUME NEW k \in Connectors, AttemptOk(k) \/ AttemptFails(k) \/ ReconnectDone(k) PROVE WireInv'
  BY <1>9 DEF WireInv, AttemptOk, AttemptFails, ReconnectDone
<1>10. CASE UNCHANGED vars
  BY <1>10 DEF WireInv
<1>11. ASSUME NEW c \in Conns, BrokerClose(c) PROVE WireInv'
  BY <1>11 DEF WireInv, BrokerClose
<1> QED
  BY <1>1, <1>2, <1>3, <1>4, <1>5, <1>6, <1>7, <1>8, <1>9, <1>10, <1>11 DEF Next

\* What is on its way to the worker is a finite set of messages.
LEMMA PipelineFinite ==
    ASSUME TypeOK
    PROVE  /\ Pipeline \subseteq Msgs /\ IsFiniteSet(Pipeline)
           /\ \A c \in Conns : IsFiniteSet(unacked[c])
           /\ IsFiniteSet(LiveFrames \cup Current)
<1>1. \A i \in 1..Len(messages) : messages[i].msg \in Msgs
  <2>1. \A i \in 1..Len(messages) : messages[i] \in Frames
    BY DEF TypeOK
  <2> QED BY <2>1 DEF Frames
<1>2. LiveFrames \subseteq Msgs
  BY <1>1 DEF LiveFrames
<1>3. Current \subseteq Msgs
  BY DEF Current, TypeOK, Frames
<1>4. \A f \in wire : f.msg \in Msgs
  BY DEF TypeOK
<1>5. Pipeline \subseteq Msgs
  BY <1>2, <1>3, <1>4 DEF Pipeline
<1>6. IsFiniteSet(Msgs)
  BY ConstantsAssumption, FS_Interval DEF Msgs
<1> QED
  BY <1>2, <1>3, <1>5, <1>6, FS_Subset DEF TypeOK

\* When nothing joins the way to the worker, and the window of the open session
\* keeps what is on it, the bound stays.
LEMMA PipelineShrinks ==
    ASSUME TypeOK, TypeOK', WindowInv,
           Pipeline' \subseteq Pipeline,
           \A c \in Conns : unacked'[c] \subseteq unacked[c],
           link' = "subscribed" /\ conn' \in sessions' => Pipeline' \subseteq unacked'[conn']
    PROVE  WindowInv'
<1>0. IsFiniteSet(Pipeline) /\ \A c \in Conns : IsFiniteSet(unacked[c])
  BY PipelineFinite
<1>1. Cardinality(Pipeline') <= Cardinality(Pipeline)
  BY <1>0, FS_Subset
<1>2. \A c \in Conns : Cardinality(unacked'[c]) <= Cardinality(unacked[c])
  BY <1>0, FS_Subset
<1>3. /\ Cardinality(Pipeline) \in Nat /\ Cardinality(Pipeline') \in Nat
      /\ \A c \in Conns : Cardinality(unacked[c]) \in Nat /\ Cardinality(unacked'[c]) \in Nat
  <2>1. IsFiniteSet(Pipeline') /\ \A c \in Conns : IsFiniteSet(unacked'[c])
    BY PipelineFinite, FS_Subset
  <2> QED BY <2>1, PipelineFinite, FS_CardinalityType
<1>4. Cardinality(Pipeline') <= Prefetch
  BY <1>1, <1>3, ConstantsAssumption DEF WindowInv
<1>5. \A c \in Conns : Cardinality(unacked'[c]) <= Prefetch
  BY <1>2, <1>3, ConstantsAssumption DEF WindowInv
<1> QED
  BY <1>4, <1>5 DEF WindowInv

\* A new generation leaves nothing current.
LEMMA NewGenerationEmpties ==
    ASSUME TypeOK, WireInv, generation' = generation + 1, UNCHANGED <<messages, worker>>
    PROVE  /\ LiveFrames' = {} /\ Current' = {}
           /\ \A i \in 1..Len(messages') : ~IsCurrent(messages[i])'
<1>1. generation \in Nat /\ \A i \in 1..Len(messages) : messages[i] \in Frames
  BY DEF TypeOK
<1>2. \A i \in 1..Len(messages) : messages[i].gen # generation + 1
  BY <1>1 DEF WireInv, Frames
<1>3. worker.pc \in {"handling", "acking"} => worker.frame \in Frames
  BY DEF TypeOK
<1>4. worker.pc \in {"handling", "acking"} => worker.frame.gen # generation + 1
  BY <1>1, <1>3 DEF WireInv, Frames
<1> QED
  BY <1>2, <1>4 DEF LiveFrames, Current, IsCurrent

\* A frame joins the end of the queue with the generation of the moment.
LEMMA MessageJoins ==
    ASSUME TypeOK, OnMessage
    PROVE  \E f \in wire :
             /\ wire' = wire \ {f} /\ f.msg \in Msgs
             /\ Len(messages') = Len(messages) + 1
             /\ \A i \in 1..Len(messages) : messages'[i] = messages[i]
             /\ messages'[Len(messages) + 1].gen = generation
             /\ messages'[Len(messages) + 1].msg = f.msg
             /\ LiveFrames' = LiveFrames \cup {f.msg}
             /\ Current' = Current
<1>1. PICK f \in wire :
        /\ wire' = wire \ {f}
        /\ messages' = Append(messages, [gen |-> generation, conn |-> f.conn, msg |-> f.msg])
  BY DEF OnMessage
<1>2. /\ Len(messages') = Len(messages) + 1 /\ Len(messages) \in Nat
      /\ \A i \in 1..Len(messages) : messages'[i] = messages[i]
      /\ messages'[Len(messages) + 1].gen = generation
      /\ messages'[Len(messages) + 1].msg = f.msg
  BY <1>1 DEF TypeOK
<1>3. generation' = generation
  BY DEF OnMessage
<1>4. LiveFrames' = LiveFrames \cup {f.msg}
  <2>1. ASSUME NEW m PROVE m \in LiveFrames' <=> m \in LiveFrames \cup {f.msg}
    <3>1. m \in LiveFrames' <=> \E i \in 1..(Len(messages) + 1) :
              messages'[i].gen = generation /\ messages'[i].msg = m
      BY <1>2, <1>3 DEF LiveFrames, IsCurrent
    <3>2. m \in LiveFrames <=> \E i \in 1..Len(messages) :
              messages[i].gen = generation /\ messages[i].msg = m
      BY DEF LiveFrames, IsCurrent
    <3>3. \A i \in 1..(Len(messages) + 1) : i \in 1..Len(messages) \/ i = Len(messages) + 1
      BY <1>2
    <3>4. Len(messages) + 1 \in 1..(Len(messages) + 1)
          /\ \A i \in 1..Len(messages) : i \in 1..(Len(messages) + 1)
      BY <1>2
    <3> QED BY <1>2, <3>1, <3>2, <3>3, <3>4
  <2> QED BY <2>1
<1>5. Current' = Current
  BY <1>3 DEF OnMessage, EnsureWorker, Current, IsCurrent, TypeOK
<1>6. f.msg \in Msgs
  BY DEF TypeOK
<1> QED BY <1>1, <1>2, <1>4, <1>5, <1>6

\* The queue loses its first frame.
LEMMA FrameTaken ==
    ASSUME TypeOK, WorkerTake
    PROVE  /\ Len(messages) >= 1 /\ Len(messages') = Len(messages) - 1
           /\ Len(messages) \in Nat
           /\ Head(messages) = messages[1] /\ 1 \in 1..Len(messages)
           /\ \A i \in 1..(Len(messages) - 1) : messages'[i] = messages[i + 1]
           /\ LiveFrames' \subseteq LiveFrames
           /\ \A m \in LiveFrames' : \E i \in 1..Len(messages) :
                i # 1 /\ IsCurrent(messages[i]) /\ messages[i].msg = m
<1>1. messages # <<>> /\ messages' = Tail(messages) /\ generation' = generation
  BY DEF WorkerTake
<1>2. /\ Len(messages) \in Nat /\ Len(messages) >= 1 /\ Len(messages') = Len(messages) - 1
      /\ Head(messages) = messages[1]
      /\ \A i \in 1..(Len(messages) - 1) : messages'[i] = messages[i + 1]
  BY <1>1 DEF TypeOK
<1>3. \A m \in LiveFrames' : \E i \in 1..Len(messages) :
         i # 1 /\ IsCurrent(messages[i]) /\ messages[i].msg = m
  <2> SUFFICES ASSUME NEW m \in LiveFrames'
               PROVE  \E i \in 1..Len(messages) :
                        i # 1 /\ IsCurrent(messages[i]) /\ messages[i].msg = m
    OBVIOUS
  <2>1. PICK i \in 1..Len(messages') : messages'[i].gen = generation' /\ messages'[i].msg = m
    BY DEF LiveFrames, IsCurrent
  <2>2. i + 1 \in 1..Len(messages) /\ i + 1 # 1 /\ messages'[i] = messages[i + 1]
    BY <1>2, <2>1
  <2> QED BY <1>1, <2>1, <2>2 DEF IsCurrent
<1>4. LiveFrames' \subseteq LiveFrames
  BY <1>3 DEF LiveFrames
<1> QED BY <1>2, <1>3, <1>4

\* A message is delivered to a session when no other copy of it is on the way,
\* and its copy is gone when the worker has acked it.
LEMMA NextOnceInv == TypeOK /\ PrefetchInv /\ [Next]_vars => OnceInv'
<1> SUFFICES ASSUME TypeOK, PrefetchInv, [Next]_vars PROVE OnceInv'
  OBVIOUS
<1> USE DEF PrefetchInv
<1>1. CASE /\ UNCHANGED <<messages, generation>>
           /\ Current' \subseteq Current /\ wire' \subseteq wire
  <2>1. LiveFrames' = LiveFrames
    BY <1>1 DEF LiveFrames, IsCurrent
  <2> QED BY <1>1, <2>1 DEF OnceInv, IsCurrent
<1>2. CASE Publish \/ QueueDeleted \/ ReregisterQueue \/ LinkLost
  BY <1>1, <1>2 DEF Publish, QueueDeleted, ReregisterQueue, LinkLost, Current, IsCurrent
<1>3. CASE WatchdogTick \/ HandlerEnds \/ WorkerAck \/ Close
  <2>1. Current' \subseteq Current
    BY <1>3 DEF WatchdogTick, HandlerEnds, WorkerAck, Close, EnsureWorker, Current, IsCurrent, TypeOK
  <2> QED BY <1>1, <1>3, <2>1 DEF WatchdogTick, HandlerEnds, WorkerAck, Close
<1>4. ASSUME NEW c \in Conns, BrokerClose(c) PROVE OnceInv'
  BY <1>1, <1>4 DEF BrokerClose, Current, IsCurrent
<1>5. ASSUME NEW k \in Connectors, AttemptOk(k) \/ AttemptFails(k) \/ ReconnectDone(k) PROVE OnceInv'
  BY <1>1, <1>5 DEF AttemptOk, AttemptFails, ReconnectDone, Current, IsCurrent
<1>6. CASE OnConnected
  BY <1>6, NewGenerationEmpties DEF OnConnected, OnceInv
<1>7. ASSUME NEW c \in Conns, OnDisconnected(c) PROVE OnceInv'
  BY <1>7, NewGenerationEmpties DEF OnDisconnected, OnceInv
<1>8. CASE Restart
  BY <1>8 DEF Restart, OnceInv, LiveFrames, Current
<1>9. CASE OnMessage
  <2>1. PICK f \in wire :
             /\ wire' = wire \ {f}
             /\ Len(messages') = Len(messages) + 1
             /\ \A i \in 1..Len(messages) : messages'[i] = messages[i]
             /\ messages'[Len(messages) + 1].gen = generation
             /\ messages'[Len(messages) + 1].msg = f.msg
             /\ LiveFrames' = LiveFrames \cup {f.msg}
             /\ Current' = Current
    BY <1>9, MessageJoins
  <2>2. generation' = generation /\ Len(messages) \in Nat
    BY <1>9 DEF OnMessage, TypeOK
  <2>3. \A g \in wire' : g.msg # f.msg
    <3> SUFFICES ASSUME NEW g \in wire', g.msg = f.msg PROVE FALSE
      OBVIOUS
    <3>1. /\ f = [conn |-> f.conn, msg |-> f.msg]
          /\ g = [conn |-> g.conn, msg |-> g.msg]
      BY <2>1 DEF TypeOK
    <3>2. g.conn = f.conn
      BY <2>1 DEF WireInv
    <3>3. g = f
      BY <3>1, <3>2
    <3> QED BY <2>1, <3>3
  <2>4. f.msg \notin LiveFrames \cup Current
    BY <2>1 DEF OnceInv
  <2>5. \A i \in 1..Len(messages) : IsCurrent(messages[i]) => messages[i].msg # f.msg
    BY <2>4 DEF LiveFrames
  <2>6. \A i \in 1..(Len(messages) + 1) : i \in 1..Len(messages) \/ i = Len(messages) + 1
    BY <2>2
  <2>7. \A i, j \in 1..Len(messages') :
          i # j /\ IsCurrent(messages[i])' /\ IsCurrent(messages[j])'
            => messages'[i].msg # messages'[j].msg
    BY <2>1, <2>2, <2>5, <2>6 DEF OnceInv, IsCurrent
  <2> QED BY <2>1, <2>3, <2>4, <2>7 DEF OnceInv
<1>10. CASE WorkerTake
  <2>0. UNCHANGED <<generation, wire>>
    BY <1>10 DEF WorkerTake
  <2>1. \A i, j \in 1..Len(messages') :
          i # j /\ IsCurrent(messages[i])' /\ IsCurrent(messages[j])'
            => messages'[i].msg # messages'[j].msg
    <3>1. \A i \in 1..Len(messages') : /\ messages'[i] = messages[i + 1] /\ i + 1 \in 1..Len(messages)
                                       /\ i \in Nat
      BY <1>10, FrameTaken
    <3> QED BY <2>0, <3>1 DEF OnceInv, IsCurrent
  <2>2. Current' \subseteq {messages[1].msg} /\ (Current' # {} => IsCurrent(messages[1]))
    BY <1>10, FrameTaken DEF WorkerTake, Current, IsCurrent
  <2>3. Current' \subseteq LiveFrames
    BY <1>10, <2>2, FrameTaken DEF LiveFrames
  <2>4. Current' \cap LiveFrames' = {}
    <3> SUFFICES ASSUME NEW m \in Current', m \in LiveFrames' PROVE FALSE
      OBVIOUS
    <3>1. PICK i \in 1..Len(messages) : i # 1 /\ IsCurrent(messages[i]) /\ messages[i].msg = m
      BY <1>10, FrameTaken
    <3>2. m = messages[1].msg /\ IsCurrent(messages[1]) /\ 1 \in 1..Len(messages)
      BY <1>10, <2>2, FrameTaken
    <3> QED BY <3>1, <3>2 DEF OnceInv
  <2>5. LiveFrames' \subseteq LiveFrames
    BY <1>10, FrameTaken
  <2> QED BY <2>0, <2>1, <2>3, <2>4, <2>5 DEF OnceInv
<1>11. ASSUME NEW c \in Conns, Deliver(c) PROVE OnceInv'
  <2>1. PICK m \in ready : wire' = IF c = conn /\ link = "subscribed"
                                   THEN wire \cup {[conn |-> c, msg |-> m]} ELSE wire
    BY <1>11 DEF Deliver
  <2>2. c \in sessions /\ UNCHANGED <<messages, worker, generation>>
    BY <1>11 DEF Deliver
  <2>3. LiveFrames' = LiveFrames /\ Current' = Current
    BY <2>2 DEF LiveFrames, Current, IsCurrent
  <2>4. c = conn /\ link = "subscribed" => m \notin LiveFrames \cup Current
    BY <2>2 DEF WindowInv, BooksInv, Pipeline
  <2>5. \A f \in wire' : f.msg \notin LiveFrames \cup Current
    BY <2>1, <2>4 DEF OnceInv
  <2> QED BY <2>2, <2>3, <2>5 DEF OnceInv, IsCurrent
<1>12. CASE UNCHANGED vars
  BY <1>1, <1>12 DEF Current, IsCurrent
<1> QED
  BY <1>2, <1>3, <1>4, <1>5, <1>6, <1>7, <1>8, <1>9, <1>10, <1>11, <1>12 DEF Next

\* The broker hands out no more than the window, and what the agent holds of the
\* open session is in it until the ack.
LEMMA NextWindowInv == TypeOK /\ PrefetchInv /\ [Next]_vars => WindowInv'
<1> SUFFICES ASSUME TypeOK, TypeOK', PrefetchInv, [Next]_vars PROVE WindowInv'
  BY NextTypeOK
<1> USE DEF PrefetchInv
<1>1. CASE Pipeline' \subseteq Pipeline /\ UNCHANGED <<unacked, sessions, conn, link>>
  BY <1>1, PipelineShrinks DEF WindowInv
<1>3. CASE Publish \/ ReregisterQueue
  <2>1. Pipeline' = Pipeline
    BY <1>3 DEF Publish, ReregisterQueue, Pipeline, LiveFrames, Current, IsCurrent
  <2> QED BY <1>1, <1>3, <2>1 DEF Publish, ReregisterQueue
<1>4. CASE WatchdogTick \/ HandlerEnds
  <2>1. Current' \subseteq Current
    BY <1>4 DEF WatchdogTick, HandlerEnds, EnsureWorker, Current, IsCurrent, TypeOK
  <2>2. Pipeline' \subseteq Pipeline
    BY <1>4, <2>1 DEF WatchdogTick, HandlerEnds, Pipeline, LiveFrames, IsCurrent
  <2> QED BY <1>1, <1>4, <2>2 DEF WatchdogTick, HandlerEnds
<1>5. CASE QueueDeleted
  <2>1. Pipeline' = Pipeline
    BY <1>5 DEF QueueDeleted, Pipeline, LiveFrames, Current, IsCurrent
  <2>2. sessions' = {} /\ \A c \in Conns : unacked'[c] \subseteq unacked[c]
    BY <1>5 DEF QueueDeleted, TypeOK
  <2> QED BY <2>1, <2>2, PipelineShrinks
<1>6. CASE LinkLost \/ Close
  <2>1. Current' \subseteq Current
    BY <1>6 DEF LinkLost, Close, Current, IsCurrent, TypeOK
  <2>2. Pipeline' \subseteq Pipeline
    BY <1>6, <2>1 DEF LinkLost, Close, Pipeline, LiveFrames, IsCurrent
  <2>3. link' = "down" /\ unacked' = unacked
    BY <1>6 DEF LinkLost, Close
  <2> QED BY <2>2, <2>3, PipelineShrinks
<1>7. CASE Restart
  <2>1. Pipeline' = {}
    BY <1>7 DEF Restart, Pipeline, LiveFrames, Current
  <2>2. link' = "down" /\ unacked' = unacked
    BY <1>7 DEF Restart
  <2> QED BY <2>1, <2>2, PipelineShrinks
<1>8. CASE OnConnected
  <2>1. wire' = {}
    BY <1>8 DEF OnConnected, WireInv
  <2>2. Pipeline' = {}
    BY <1>8, <2>1, NewGenerationEmpties DEF OnConnected, Pipeline
  <2> QED BY <1>8, <2>2, PipelineShrinks DEF OnConnected
<1>9. ASSUME NEW c \in Conns, OnDisconnected(c) PROVE WindowInv'
  <2>1. Pipeline' \subseteq Pipeline
    BY <1>9, NewGenerationEmpties DEF OnDisconnected, Pipeline
  <2> QED BY <1>1, <1>9, <2>1 DEF OnDisconnected
<1>10. ASSUME NEW k \in Connectors, AttemptOk(k) \/ AttemptFails(k) PROVE WindowInv'
  <2>1. Pipeline' = Pipeline
    BY <1>10 DEF AttemptOk, AttemptFails, Pipeline, LiveFrames, Current, IsCurrent
  <2>2. link' # "subscribed" /\ unacked' = unacked
    BY <1>10 DEF AttemptOk, AttemptFails
  <2> QED BY <2>1, <2>2, PipelineShrinks
<1>11. ASSUME NEW k \in Connectors, ReconnectDone(k) PROVE WindowInv'
  <2>1. Pipeline' = Pipeline
    BY <1>11 DEF ReconnectDone, Pipeline, LiveFrames, Current, IsCurrent
  <2> QED BY <1>1, <1>11, <2>1 DEF ReconnectDone
<1>12. CASE OnMessage
  <2>1. PICK f \in wire : /\ wire' = wire \ {f}
                          /\ LiveFrames' = LiveFrames \cup {f.msg}
                          /\ Current' = Current
    BY <1>12, MessageJoins
  <2>2. Pipeline' \subseteq Pipeline
    BY <2>1 DEF Pipeline
  <2> QED BY <1>1, <1>12, <2>2 DEF OnMessage
<1>13. CASE WorkerTake
  <2>1. Current' \subseteq LiveFrames
    BY <1>13, FrameTaken DEF WorkerTake, Current, LiveFrames, IsCurrent
  <2>2. Pipeline' \subseteq Pipeline
    BY <1>13, <2>1, FrameTaken DEF Pipeline, WorkerTake
  <2> QED BY <1>1, <1>13, <2>2 DEF WorkerTake
<1>14. CASE WorkerAck
  <2>1. /\ LiveFrames' = LiveFrames /\ Current' = {}
        /\ UNCHANGED <<wire, link, conn, sessions>>
    BY <1>14 DEF WorkerAck, LiveFrames, Current, IsCurrent
  <2>2. Pipeline' \subseteq Pipeline
    BY <2>1 DEF Pipeline
  <2>3. IsCurrent(worker.frame) => worker.frame.msg \notin Pipeline'
    BY <1>14, <2>1 DEF WorkerAck, Pipeline, OnceInv, Current
  <2>4. \A c \in Conns : /\ unacked'[c] \subseteq unacked[c]
                         /\ unacked[c] \subseteq unacked'[c] \cup {worker.frame.msg}
                         /\ ~IsCurrent(worker.frame) => unacked'[c] = unacked[c]
    BY <1>14 DEF WorkerAck, TypeOK
  <2>5. link' = "subscribed" /\ conn' \in sessions' => Pipeline' \subseteq unacked'[conn']
    <3> SUFFICES ASSUME link' = "subscribed", conn' \in sessions'
                 PROVE  Pipeline' \subseteq unacked'[conn']
      OBVIOUS
    <3>1. Pipeline' \subseteq unacked[conn] /\ conn \in Conns /\ conn' = conn
      BY <2>1, <2>2 DEF WindowInv, TypeOK
    <3> QED BY <3>1, <2>3, <2>4
  <2> QED BY <2>2, <2>4, <2>5, PipelineShrinks
<1>15. ASSUME NEW c \in Conns, BrokerClose(c) PROVE WindowInv'
  <2>1. Pipeline' = Pipeline
    BY <1>15 DEF BrokerClose, Pipeline, LiveFrames, Current, IsCurrent
  <2>2. /\ \A d \in Conns : unacked'[d] = IF d = c THEN {} ELSE unacked[d]
        /\ UNCHANGED <<link, conn>> /\ sessions' = sessions \ {c}
    BY <1>15 DEF BrokerClose, TypeOK
  <2>3. link' = "subscribed" /\ conn' \in sessions' => Pipeline' \subseteq unacked'[conn']
    BY <2>1, <2>2 DEF WindowInv, TypeOK
  <2> QED BY <2>1, <2>2, <2>3, PipelineShrinks
<1>16. ASSUME NEW c \in Conns, Deliver(c) PROVE WindowInv'
  <2>1. PICK m \in ready :
          /\ unacked' = [unacked EXCEPT ![c] = @ \cup {m}]
          /\ wire' = IF c = conn /\ link = "subscribed"
                     THEN wire \cup {[conn |-> c, msg |-> m]} ELSE wire
    BY <1>16 DEF Deliver
  <2>2. /\ c \in sessions /\ Cardinality(unacked[c]) < Prefetch
        /\ UNCHANGED <<messages, worker, generation, sessions, conn, link>>
    BY <1>16 DEF Deliver
  <2>3. LiveFrames' = LiveFrames /\ Current' = Current
    BY <2>2 DEF LiveFrames, Current, IsCurrent
  <2>4. \A d \in Conns : unacked'[d] = IF d = c THEN unacked[c] \cup {m} ELSE unacked[d]
    BY <2>1 DEF TypeOK
  <2>5. \A d \in Conns : Cardinality(unacked'[d]) <= Prefetch
    <3>1. IsFiniteSet(unacked[c])
      BY PipelineFinite
    <3>2. /\ Cardinality(unacked[c]) \in Nat
          /\ Cardinality(unacked[c] \cup {m}) <= Cardinality(unacked[c]) + 1
          /\ Cardinality(unacked[c] \cup {m}) \in Nat
      <4>1. Cardinality(unacked[c]) \in Nat
        BY <3>1, FS_CardinalityType
      <4>2. /\ IsFiniteSet(unacked[c] \cup {m})
            /\ \/ Cardinality(unacked[c] \cup {m}) = Cardinality(unacked[c])
               \/ Cardinality(unacked[c] \cup {m}) = Cardinality(unacked[c]) + 1
        BY <3>1, FS_AddElement
      <4> QED BY <4>1, <4>2
    <3>3. Cardinality(unacked[c] \cup {m}) <= Prefetch
      BY <3>2, <2>2, ConstantsAssumption
    <3> QED BY <3>3, <2>4 DEF WindowInv
  <2>6. CASE ~(c = conn /\ link = "subscribed")
    <3>1. Pipeline' = Pipeline
      BY <2>1, <2>3, <2>6 DEF Pipeline
    <3>2. link = "subscribed" /\ conn \in sessions => unacked'[conn] = unacked[conn]
      BY <2>4, <2>6 DEF TypeOK
    <3> QED BY <2>2, <2>5, <3>1, <3>2 DEF WindowInv
  <2>7. CASE c = conn /\ link = "subscribed"
    <3>1. Pipeline' \subseteq Pipeline \cup {m}
      BY <2>1, <2>3, <2>7 DEF Pipeline
    <3>2. Pipeline' \subseteq unacked'[c]
      BY <2>2, <2>4, <2>7, <3>1 DEF WindowInv
    <3>3. /\ IsFiniteSet(unacked'[c])
          /\ Cardinality(Pipeline') <= Cardinality(unacked'[c])
          /\ Cardinality(Pipeline') \in Nat /\ Cardinality(unacked'[c]) \in Nat
      <4>1. IsFiniteSet(unacked[c])
        BY PipelineFinite
      <4>2. IsFiniteSet(unacked'[c])
        BY <4>1, <2>4, FS_AddElement
      <4> QED BY <3>2, <4>2, FS_Subset, FS_CardinalityType
    <3>4. Cardinality(Pipeline') <= Prefetch
      BY <2>5, <3>3, ConstantsAssumption
    <3> QED BY <2>2, <2>5, <2>7, <3>2, <3>4 DEF WindowInv
  <2> QED BY <2>6, <2>7
<1>17. CASE UNCHANGED vars
  <2>1. Pipeline' = Pipeline
    BY <1>17 DEF Pipeline, LiveFrames, Current, IsCurrent
  <2> QED BY <1>1, <1>17, <2>1
<1> QED
  BY <1>3, <1>4, <1>5, <1>6, <1>7, <1>8, <1>9, <1>10, <1>11, <1>12, <1>13, <1>14, <1>15, <1>16, <1>17
  DEF Next

\* STOMP_PREFETCH_COUNT bounds what waits or runs in the process and is still the
\* agent's to handle: also when notices come late and sessions overlap, no frame
\* of an old connection adds to it.
THEOREM BacklogIsBounded == Spec => []BacklogBounded
<1>1. Init => PrefetchInv
  <2> SUFFICES ASSUME Init PROVE PrefetchInv
    OBVIOUS
  <2>1. LiveFrames = {} /\ Current = {} /\ Pipeline = {}
    BY DEF Init, LiveFrames, Current, Pipeline
  <2>2. \A c \in Conns : unacked[c] = {}
    BY DEF Init
  <2>3. WindowInv
    BY <2>1, <2>2, FS_EmptySet, ConstantsAssumption DEF WindowInv, Init
  <2>4. BooksInv /\ WireInv /\ OnceInv
    BY <2>1, <2>2 DEF Init, BooksInv, WireInv, OnceInv
  <2> QED BY <2>3, <2>4 DEF PrefetchInv
<1>2. TypeOK /\ PrefetchInv /\ [Next]_vars => PrefetchInv'
  BY NextBooksInv, NextWireInv, NextOnceInv, NextWindowInv DEF PrefetchInv
<1>3. TypeOK /\ PrefetchInv => BacklogBounded
  <2> SUFFICES ASSUME TypeOK, PrefetchInv PROVE BacklogBounded
    OBVIOUS
  <2>1. LiveFrames \cup Current \subseteq Pipeline
    BY DEF Pipeline
  <2>2. /\ Cardinality(LiveFrames \cup Current) <= Cardinality(Pipeline)
        /\ Cardinality(LiveFrames \cup Current) \in Nat /\ Cardinality(Pipeline) \in Nat
    BY <2>1, PipelineFinite, FS_Subset, FS_CardinalityType
  <2> QED BY <2>2, ConstantsAssumption DEF PrefetchInv, WindowInv, BacklogBounded
<1> QED
  BY <1>1, <1>2, <1>3, TypeCorrect, PTL DEF Spec
=============================================================================
