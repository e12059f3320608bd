------------------------------ MODULE MC_Core ------------------------------
(***************************************************************************)
(* The core of the agent for TLC: the event listener, the processing of an *)
(* order and the teardown of an offering user. They share no state, so one *)
(* run explores one after the other: a behaviour is about the part it      *)
(* begins with, and leaves the other parts as they begin.                  *)
(***************************************************************************)
EXTENDS StompListener, OrderProcessor, OfferingUserTeardown

CONSTANTS Parts,             \* the parts a run is about
          p1, p2,            \* threads that process orders
          r1, r2,            \* resources of a person's project
          main, event        \* threads that tear a person down

VARIABLE part                \* the part a behaviour is about

coreVars == <<part, vars, orderVars, teardownVars>>

CoreInit ==
    /\ part \in Parts
    /\ Init /\ OrderInit /\ TeardownInit
    /\ part # "order" => type = CHOOSE t \in OrderTypes : TRUE
    /\ part # "teardown" => assoc = Resources

Step(p) == part = p /\ UNCHANGED part

CoreNext ==
    \/ Step("listener") /\ Next /\ UNCHANGED <<orderVars, teardownVars>>
    \/ Step("order") /\ OrderNext /\ UNCHANGED <<vars, teardownVars>>
    \/ Step("teardown") /\ TeardownNext /\ UNCHANGED <<vars, orderVars>>
    \* nothing more is to be done, as once the row is DELETED
    \/ Step("teardown") /\ UNCHANGED coreVars

\* Heartbeats make each side notice a connection that the other side closed,
\* threads that can run do run, handlers return, a closed agent is restarted,
\* and a broker that is tried again and again answers sometime.  Losing a
\* connection, the queue or the process is never forced.
ListenerFairness ==
    LET Of(A) == part = "listener" /\ A
    IN  /\ WF_vars(Of(DetectLoss)) /\ WF_vars(Of(WatchdogTick)) /\ WF_vars(Of(OnConnected))
        /\ WF_vars(Of(ReregisterQueue)) /\ WF_vars(Of(OnMessage)) /\ WF_vars(Of(WorkerTake))
        /\ WF_vars(Of(HandlerEnds)) /\ WF_vars(Of(WorkerAck)) /\ WF_vars(Of(Restart /\ closed))
        /\ \A c \in Conns : /\ WF_vars(Of(Deliver(c))) /\ WF_vars(Of(DetectGone(c)))
                            /\ WF_vars(Of(OnDisconnected(c)))
        /\ \A k \in Connectors : /\ WF_vars(Of(AttemptOk(k) \/ AttemptFails(k)))
                                 /\ WF_vars(Of(ReconnectDone(k)))
        /\ SF_vars(Of(\E k \in Connectors : AttemptOk(k)))

\* The main loop sweeps again and again, the worker goes on while there are
\* messages, a teardown goes on, and Waldur asks for the deletion sometime.
TeardownFairness ==
    LET Of(A) == part = "teardown" /\ A
    IN  /\ \A t \in Threads : WF_teardownVars(Of(Teardown(t)))
        /\ WF_teardownVars(Of(Begin)) /\ WF_teardownVars(Of(SyncProfiles))
        /\ WF_teardownVars(Of(HandleMessages))
        /\ WF_teardownVars(Of(RequestDeletion))

CoreSpec == CoreInit /\ [][CoreNext]_coreVars /\ ListenerFairness /\ TeardownFairness

\* A dropped consumer comes back: the queue is registered again when it is
\* missing, and the connection is subscribed again (on_disconnected,
\* _reregister_queue).
ConsumerRecovers == []<>(part = "listener" => link = "subscribed" /\ conn \in sessions)
=============================================================================
