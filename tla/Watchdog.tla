------------------------------ MODULE Watchdog ------------------------------
(***************************************************************************)
(* StompWatchdog, the tick of the event mode's main loop that calls it, and *)
(* the liveness probe that restarts the agent when the heartbeat is old.   *)
(* One offering with its own consumer ("main") and one on a federation     *)
(* target ("target").  Time is counted in ticks since the agent started.   *)
(* What a tick only logs is left out: outages and handlers of the target,  *)
(* refused setups.                                                         *)
(***************************************************************************)
EXTENDS Integers

CONSTANTS
    UnhealthyAfter,  \* STOMP_UNHEALTHY_AFTER
    StuckAfter,      \* handler_stuck_after
    StableTicks,     \* STABLE_TICKS
    RetryInitial,    \* SETUP_RETRY_INITIAL
    RetryMax,        \* SETUP_RETRY_MAX
    MaxAge,          \* DEFAULT_MAX_AGE of the probe
    PassPeriod,      \* RECONCILIATION_INTERVAL
    StatusPeriod,    \* RESOURCE_STATUS_RECONCILIATION_INTERVAL
    MaxTime          \* bound: ticks explored

\* The probe accepts more than one tick without a touch.  A pass touches the
\* heartbeat whatever the watchdog says, so each pass must leave a gap that the
\* other one cannot bridge (by default both come every 60 ticks, MaxAge is 5).
WatchdogParameters ==
    /\ {UnhealthyAfter, StuckAfter, StableTicks, RetryInitial, MaxAge, MaxTime} \subseteq Nat \ {0}
    /\ RetryMax \in Nat /\ RetryMax >= RetryInitial
    /\ MaxAge > 1
    /\ PassPeriod \in Nat /\ PassPeriod >= 2 * MaxAge - 1
    /\ StatusPeriod \in Nat /\ StatusPeriod >= 2 * MaxAge - 1

Roles == {"main", "target"}
Times == 0..(MaxTime + StuckAfter)
Never == -1

VARIABLES
    now,
    consumer,    \* of each role: "absent" from the consumers map, "down" or "up"
    handler,     \* when the running handler of each consumer started
    down,        \* _down_since: the items that count towards liveness
    ticks,       \* _connected_ticks
    nextRetry,   \* _next_setup_retry
    delay,       \* _setup_retry_delay
    refused,     \* is the setup of the offering's own consumer in _reported?
    lastPass, lastStatus,
    heartbeat,   \* when the heartbeat file was touched
    hung,        \* since when the main loop hangs in a call
    touched,     \* history: when a handler last touched the heartbeat
    unstable,    \* history: ticks since the own consumer was last stable, refused or set up
    fixable      \* history: since the start, was there more than refused setups?

watch == <<down, ticks, nextRetry, delay, refused>>
loop == <<lastPass, lastStatus, hung>>
beat == <<heartbeat, touched>>
vars == <<now, consumer, handler, watch, loop, beat, unstable, fixable>>

Items == {"setup", "consumer", "handler"}

TypeOK ==
    /\ now \in 0..MaxTime
    /\ consumer \in [Roles -> {"absent", "down", "up"}]
    /\ handler \in [Roles -> Times \cup {Never}]
    /\ down \in [Items -> Times \cup {Never}]
    /\ ticks \in [Roles -> 0..StableTicks]
    /\ nextRetry \in [Roles -> 0..(MaxTime + RetryMax) \cup {Never}]
    /\ delay \in [Roles -> 0..RetryMax]
    /\ refused \in BOOLEAN
    /\ lastPass \in Times \cup {Never} /\ lastStatus \in Times \cup {Never}
    /\ heartbeat \in Times
    /\ hung \in Times \cup {Never} /\ touched \in Times \cup {Never}
    /\ unstable \in Nat
    /\ fixable \in BOOLEAN
    /\ refused => consumer["main"] = "absent" /\ down["setup"] = Never

-----------------------------------------------------------------------------
\* start(): whatever could be set up is in the map, connected or not.
Begin(c) ==
    /\ now' = 0
    /\ consumer' = c
    /\ handler' = [r \in Roles |-> Never]
    /\ down' = [i \in Items |-> Never]
    /\ ticks' = [r \in Roles |-> 0]
    /\ nextRetry' = [r \in Roles |-> Never]
    /\ delay' = [r \in Roles |-> 0]
    /\ refused' = FALSE
    /\ lastPass' = Never /\ lastStatus' = Never
    /\ heartbeat' = 0 /\ hung' = Never /\ touched' = Never
    /\ unstable' = 0
    /\ fixable' = FALSE

Init ==
    /\ now = 0
    /\ consumer \in [Roles -> {"absent", "down", "up"}]
    /\ handler = [r \in Roles |-> Never]
    /\ down = [i \in Items |-> Never]
    /\ ticks = [r \in Roles |-> 0]
    /\ nextRetry = [r \in Roles |-> Never]
    /\ delay = [r \in Roles |-> 0]
    /\ refused = FALSE
    /\ lastPass = Never /\ lastStatus = Never
    /\ heartbeat = 0 /\ hung = Never /\ touched = Never
    /\ unstable = 0
    /\ fixable = FALSE

-----------------------------------------------------------------------------
(* The connections between two ticks.                                        *)

\* The connection is lost, or the listener's own reconnect succeeds.
Drop(r) ==
    /\ consumer[r] = "up"
    /\ consumer' = [consumer EXCEPT ![r] = "down"]
    /\ UNCHANGED <<now, handler, watch, loop, beat, unstable, fixable>>

Recover(r) ==
    /\ consumer[r] = "down"
    /\ consumer' = [consumer EXCEPT ![r] = "up"]
    /\ UNCHANGED <<now, handler, watch, loop, beat, unstable, fixable>>

HandlerStarts(r) ==
    /\ consumer[r] = "up" /\ handler[r] = Never
    /\ handler' = [handler EXCEPT ![r] = now]
    /\ UNCHANGED <<now, consumer, watch, loop, beat, unstable, fixable>>

\* A handler that syncs an offering or a resource touches the heartbeat of the
\* main loop from its worker thread (_process_resources, process_offering).
HandlerTouches ==
    /\ handler["main"] # Never
    /\ heartbeat' = now /\ touched' = now
    /\ UNCHANGED <<now, consumer, handler, watch, loop, unstable, fixable>>

HandlerEnds(r) ==
    /\ handler[r] # Never
    /\ handler' = [handler EXCEPT ![r] = Never]
    /\ UNCHANGED <<now, consumer, watch, loop, beat, unstable, fixable>>

-----------------------------------------------------------------------------
(* check().                                                                  *)

SetDefault(t) == IF t = Never THEN now ELSE t

\* _check_offering_setup: is a setup retried on this tick?
Due(r) == consumer[r] = "absent" /\ (nextRetry[r] = Never \/ now >= nextRetry[r])

\* What the attempts of this tick give: the registration is refused, fails, or
\* succeeds with or without a connection.  Errors of a target setup are
\* swallowed, so a target is never refused.
Answers == {a \in [Roles -> {"none", "refused", "failed", "registered", "open"}] :
                /\ a["target"] # "refused"
                /\ \A r \in Roles : Due(r) <=> a[r] # "none"}

AfterSetup(a, r) ==
    CASE a[r] = "open" -> "up" [] a[r] = "registered" -> "down" [] OTHER -> consumer[r]

\* _retry_setup and _schedule_setup_retry
RetryDelay(a, r) ==
    LET twice == 2 * delay[r] IN
    CASE a[r] = "refused" -> RetryMax
      [] a[r] = "failed" -> IF delay[r] = 0 THEN RetryInitial
                            ELSE IF twice < RetryMax THEN twice ELSE RetryMax
      [] a[r] \in {"registered", "open"} -> 0
      [] OTHER -> delay[r]

NextRetry(a, r) ==
    CASE a[r] \in {"refused", "failed"} -> now + RetryDelay(a, r)
      [] a[r] \in {"registered", "open"} -> Never
      [] OTHER -> nextRetry[r]

\* Mutant: a refused setup keeps counting.
SetupDownKeeps(a) ==
    CASE consumer["main"] # "absent" \/ refused -> down["setup"]
      [] a["main"] \in {"registered", "open"} -> Never
      [] OTHER -> SetDefault(down["setup"])

\* A missing consumer counts as down from the first tick that misses it, until
\* it is set up or the server refuses it.
SetupDown(a) ==
    CASE consumer["main"] # "absent" \/ refused -> down["setup"]
      [] a["main"] \in {"refused", "registered", "open"} -> Never
      [] OTHER -> SetDefault(down["setup"])

\* _check_consumer: ok tells whether the one reconnect of this tick, if any,
\* succeeds.
Checked(c, ok) == IF c = "down" /\ ok THEN "up" ELSE c
CheckedTicks(c, ok, n) ==
    CASE c = "up" -> IF n < StableTicks THEN n + 1 ELSE n
      [] c = "down" -> IF ok THEN 1 ELSE 0
      [] OTHER -> n

\* Mutant: one tick connected is enough.
ConsumerDownOnce(c) ==
    CASE c["main"] = "up" -> Never
      [] c["main"] = "down" -> SetDefault(down["consumer"])
      [] OTHER -> down["consumer"]

\* Mutant: every consumer is critical.
ConsumerDownAny(c) ==
    IF \E r \in Roles : c[r] = "down" THEN SetDefault(down["consumer"]) ELSE Never

\* Only the offering's own consumer is critical.
ConsumerDown(c) ==
    CASE c["main"] = "up" /\ ticks["main"] + 1 >= StableTicks -> Never
      [] c["main"] = "down" -> SetDefault(down["consumer"])
      [] OTHER -> down["consumer"]

\* _check_handler
HandlerDown(c) ==
    CASE c["main"] = "absent" -> down["handler"]
      [] c["main"] # "absent" /\ (handler["main"] = Never \/ now - handler["main"] < StuckAfter) -> Never
      [] OTHER -> IF down["handler"] = Never THEN handler["main"] + StuckAfter ELSE down["handler"]

\* _healthy
Healthy(d) == \A i \in Items : d[i] = Never \/ now - d[i] < UnhealthyAfter

\* The periodic passes touch the heartbeat for every offering.
PassDue == lastPass = Never \/ now - lastPass >= PassPeriod
StatusDue == lastStatus # Never /\ now - lastStatus >= StatusPeriod

Alive == now - heartbeat < MaxAge

\* check() with these answers, and the touch of the heartbeat after it.
Check(a, ok) ==
    LET c == [r \in Roles |-> AfterSetup(a, r)]
        d == [down EXCEPT !["setup"] = SetupDown(a),
                          !["consumer"] = ConsumerDown(c),
                          !["handler"] = HandlerDown(c)] IN
    /\ consumer' = [r \in Roles |-> Checked(c[r], ok[r])]
    /\ ticks' = [r \in Roles |-> CheckedTicks(c[r], ok[r], ticks[r])]
    /\ down' = d
    /\ delay' = [r \in Roles |-> RetryDelay(a, r)]
    /\ nextRetry' = [r \in Roles |-> NextRetry(a, r)]
    /\ refused' = (c["main"] = "absent" /\ (refused \/ a["main"] = "refused"))
    /\ heartbeat' = IF Healthy(d) \/ PassDue \/ StatusDue THEN now ELSE heartbeat
    /\ unstable' = IF \/ refused' \/ a["main"] \in {"registered", "open"}
                      \/ c["main"] = "up" /\ ticks["main"] + 1 >= StableTicks
                   THEN 0 ELSE unstable + 1
    /\ fixable' = (fixable \/ c["main"] # "absent" \/ a["main"] = "failed")

\* One turn of the main loop, and the sleep after it.
Tick ==
    /\ now < MaxTime /\ Alive /\ hung = Never
    /\ \E a \in Answers, ok \in [Roles -> BOOLEAN] : Check(a, ok)
    /\ lastPass' = IF PassDue THEN now ELSE lastPass
    /\ lastStatus' = IF lastStatus = Never \/ StatusDue THEN now ELSE lastStatus
    /\ now' = now + 1
    /\ UNCHANGED <<handler, hung, touched>>

\* A call of the main loop does not return: time goes on without it.
Hang ==
    /\ hung = Never /\ hung' = now
    /\ UNCHANGED <<now, consumer, handler, watch, lastPass, lastStatus, beat, unstable, fixable>>

Idle ==
    /\ hung # Never /\ now < MaxTime /\ Alive
    /\ now' = now + 1
    /\ UNCHANGED <<consumer, handler, watch, loop, beat, unstable, fixable>>

\* check_liveness fails and the kubelet restarts the agent.
Restart ==
    /\ ~Alive
    /\ \E c \in [Roles -> {"absent", "down", "up"}] : Begin(c)

Ended == now = MaxTime /\ Alive /\ UNCHANGED vars

Next ==
    \/ Tick \/ Hang \/ Idle \/ Restart \/ Ended \/ HandlerTouches
    \/ HandlerStarts("main") \/ HandlerEnds("main")
    \/ \E r \in Roles : Drop(r) \/ Recover(r)

-----------------------------------------------------------------------------
\* What the periodic passes add to the age the probe accepts.
PassGrace == 3 * (MaxAge - 1)
Grace == UnhealthyAfter + PassGrace

\* A sync on a worker thread touched the heartbeat so lately that it may be what
\* keeps the probe content.
Masked(grace) == touched # Never /\ now - touched <= grace

\* An outage a restart could fix ends in a restart: the own consumer is not
\* absent, and once set up not down or flapping, for longer than the threshold,
\* the age the probe accepts and what the two passes add to it, counted anew
\* from every touch of a sync on a worker thread.  A setup once refused is exempt.
OutageEnds == hung = Never => unstable < StableTicks + Grace \/ Masked(PassGrace + 1)

\* A handler that never returns does not hold its queue back for ever, unless it
\* goes on touching the heartbeat.
StuckEnds ==
    hung = Never /\ handler["main"] # Never =>
        now - handler["main"] <= StuckAfter + Grace \/ Masked(PassGrace + 1)

\* A main loop that hangs is noticed by the probe, after the last touch of a sync
\* on a worker thread.
HangEnds == hung # Never => now - hung <= MaxAge \/ Masked(MaxAge)

\* The agent is restarted only for what a restart could fix: its main loop hangs,
\* or its own consumer was unstable, or a handler stuck, for the whole threshold;
\* never for a federation target or for a setup the server refuses.
RestartHasCause ==
    Restart => \/ hung # Never
               \/ /\ fixable
                  /\ \/ unstable >= UnhealthyAfter
                     \/ down["handler"] # Never /\ now - down["handler"] >= UnhealthyAfter
-----------------------------------------------------------------------------
(* Inductive invariants, for the proofs.                                     *)

\* What is noted as down was noted by a tick of this run, and a consumer that is
\* in the map is never set up again.
NotedInv ==
    /\ heartbeat <= now /\ now - heartbeat <= MaxAge
    /\ \A i \in Items : down[i] # Never => down[i] < now
    /\ lastPass = Never <=> lastStatus = Never
    /\ lastPass < now /\ lastStatus < now
    /\ lastPass = Never => down = [i \in Items |-> Never] /\ unstable = 0 /\ heartbeat = now
    /\ consumer["main"] # "absent" => down["setup"] = Never /\ ~refused
    /\ consumer["main"] = "absent" =>
         /\ down["consumer"] = Never /\ down["handler"] = Never
         /\ handler["main"] = Never /\ ticks["main"] = 0

\* How long the own consumer is unstable, told from when it was noted.
UnstableInv ==
    /\ refused => unstable = 0
    /\ consumer["main"] = "absent" /\ ~refused =>
         unstable = IF down["setup"] = Never THEN 0 ELSE now - down["setup"]
    /\ consumer["main"] # "absent" /\ down["consumer"] = Never => unstable <= ticks["main"]
    /\ unstable > 0 /\ down["consumer"] = Never => ticks["main"] < StableTicks
    /\ down["consumer"] # Never =>
         /\ now - down["consumer"] <= unstable + 1
         /\ unstable < now - down["consumer"] + StableTicks

\* A handler is noted as stuck by the tick that finds it running too long.
StuckInv ==
    handler["main"] # Never =>
        /\ handler["main"] <= now
        /\ down["handler"] = Never => now <= handler["main"] + StuckAfter
        /\ down["handler"] # Never => down["handler"] <= handler["main"] + StuckAfter

\* From limit on the watchdog touches the heartbeat no more: at most one pass of
\* each kind still does, each while the touch before it is young enough.
PassesInv(limit) ==
    /\ heartbeat < limit \/ heartbeat = lastPass \/ heartbeat = lastStatus
    /\ lastPass >= limit /\ lastStatus < limit => lastPass <= limit + MaxAge - 2
    /\ lastStatus >= limit /\ lastPass < limit => lastStatus <= limit + MaxAge - 2
    /\ lastPass >= limit /\ lastStatus >= limit =>
         /\ lastPass <= limit + MaxAge - 2 \/ lastStatus <= limit + MaxAge - 2
         /\ lastPass - lastStatus <= MaxAge - 1 /\ lastStatus - lastPass <= MaxAge - 1

\* From here on only passes touch the heartbeat for what is down since then.
Limit(since) ==
    IF touched >= since + UnhealthyAfter THEN touched + 1 ELSE since + UnhealthyAfter

HeartbeatInv == \A i \in Items : down[i] # Never => PassesInv(Limit(down[i]))

\* The heartbeat is younger than a tick, or something was down for the whole
\* threshold when the last tick looked; and that was not only a refused setup.
CauseInv ==
    /\ heartbeat = now \/ heartbeat = now - 1
         \/ \E i \in Items : down[i] # Never /\ now - 1 - down[i] >= UnhealthyAfter
    /\ (\E i \in Items : down[i] # Never) => fixable
    /\ consumer["main"] = "absent" /\ nextRetry["main"] # Never /\ ~refused => fixable

\* While the main loop hangs only a handler touches the heartbeat.
HungInv ==
    /\ heartbeat <= now /\ now - heartbeat <= MaxAge /\ hung <= now /\ touched <= now
    /\ hung # Never => heartbeat <= hung \/ heartbeat = touched

WatchdogInv ==
    /\ HungInv
    /\ hung = Never => NotedInv /\ UnstableInv /\ StuckInv /\ HeartbeatInv /\ CauseInv
=============================================================================
