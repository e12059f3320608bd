------------------------ MODULE Components_proofs ------------------------
(***************************************************************************)
(* Proofs about three components, each for every value of its constants:   *)
(* Watchdog, for any threshold, age, period and retry delay that           *)
(* WatchdogParameters admits; LiteLLMBilling, for any resources, people,   *)
(* month length and retention; and SlurmBackend, for any allocations of    *)
(* the project, any of the settings, and any number of changes and failing *)
(* commands.                                                               *)
(***************************************************************************)
EXTENDS Watchdog, LiteLLMBilling, SlurmBackend, FiniteSetTheorems, TLAPS

-----------------------------------------------------------------------------
(* The watchdog and the main loop.                                           *)

USE DEF vars, watch, loop, beat

\* The specification of the main loop with the watchdog and the probe.
WatchdogSpec == Init /\ [][Next]_vars

\* The parameters, one by one.
LEMMA Numbers ==
    ASSUME WatchdogParameters
    PROVE  /\ UnhealthyAfter \in Nat /\ UnhealthyAfter >= 1
           /\ StuckAfter \in Nat /\ StuckAfter >= 1
           /\ StableTicks \in Nat /\ StableTicks >= 1
           /\ RetryInitial \in Nat /\ RetryInitial >= 1
           /\ RetryMax \in Nat /\ RetryMax >= RetryInitial
           /\ MaxAge \in Nat /\ MaxAge >= 2
           /\ MaxTime \in Nat /\ MaxTime >= 1
           /\ PassPeriod \in Nat /\ PassPeriod >= 2 * MaxAge - 1
           /\ StatusPeriod \in Nat /\ StatusPeriod >= 2 * MaxAge - 1
BY DEF WatchdogParameters

\* A run starts with nothing noted.
LEMMA InitTypeOK == WatchdogParameters /\ Init => TypeOK
<1> SUFFICES ASSUME WatchdogParameters, Init PROVE TypeOK
  OBVIOUS
<1>1. 0 \in Times /\ 0 \in 0..MaxTime /\ 0 \in 0..StableTicks /\ 0 \in 0..RetryMax
  BY Numbers DEF Times
<1> QED
  BY <1>1 DEF Init, TypeOK, Items, Roles

\* The retry delays stay within SETUP_RETRY_MAX.
LEMMA RetryTypes ==
    ASSUME WatchdogParameters, TypeOK, NEW a \in Answers, NEW r \in Roles
    PROVE  /\ RetryDelay(a, r) \in 0..RetryMax
           /\ NextRetry(a, r) \in 0..(MaxTime + RetryMax) \cup {Never}
<1>1. delay[r] \in Nat /\ delay[r] <= RetryMax /\ now \in Nat /\ now <= MaxTime
      /\ nextRetry[r] \in 0..(MaxTime + RetryMax) \cup {Never}
  BY Numbers DEF TypeOK
<1>2. RetryDelay(a, r) \in 0..RetryMax
  BY <1>1, Numbers DEF RetryDelay
<1> QED
  BY <1>1, <1>2, Numbers DEF NextRetry

\* What a check does to the items it counts and to the own consumer.
LEMMA CheckMain ==
    ASSUME WatchdogParameters, TypeOK, NEW a \in Answers, NEW ok \in [Roles -> BOOLEAN], Check(a, ok),
           NEW c, c = AfterSetup(a, "main")
    PROVE  /\ a["main"] \in {"none", "refused", "failed", "registered", "open"}
           /\ c \in {"absent", "down", "up"}
           /\ a["main"] = "open" => c = "up"
           /\ a["main"] = "registered" => c = "down"
           /\ a["main"] \notin {"registered", "open"} => c = consumer["main"]
           /\ consumer["main"] # "absent" => a["main"] = "none"
           /\ consumer["main"] = "absent" /\ nextRetry["main"] = Never => a["main"] # "none"
           /\ consumer'["main"] = IF c = "down" /\ ok["main"] THEN "up" ELSE c
           /\ ticks'["main"] = CheckedTicks(c, ok["main"], ticks["main"])
           /\ nextRetry'["main"] = NextRetry(a, "main")
           /\ down'["setup"] = SetupDown(a)
           /\ down'["consumer"] = IF c = "up" /\ ticks["main"] + 1 >= StableTicks THEN Never
                                  ELSE IF c = "down" /\ down["consumer"] = Never THEN now
                                  ELSE down["consumer"]
           /\ down'["handler"] = IF c = "absent" THEN down["handler"]
                                 ELSE IF handler["main"] = Never \/ now - handler["main"] < StuckAfter
                                 THEN Never
                                 ELSE IF down["handler"] = Never THEN handler["main"] + StuckAfter
                                 ELSE down["handler"]
           /\ heartbeat' = IF (\A i \in Items : down'[i] = Never \/ now - down'[i] < UnhealthyAfter)
                              \/ PassDue \/ StatusDue THEN now ELSE heartbeat
           /\ refused' <=> c = "absent" /\ (refused \/ a["main"] = "refused")
           /\ unstable' = IF refused' \/ a["main"] \in {"registered", "open"}
                             \/ (c = "up" /\ ticks["main"] + 1 >= StableTicks)
                          THEN 0 ELSE unstable + 1
           /\ fixable' <=> fixable \/ c # "absent" \/ a["main"] = "failed"
<1> DEFINE cs == [r \in Roles |-> AfterSetup(a, r)]
<1>0. "main" \in Roles /\ cs["main"] = c
  BY DEF Roles
<1>1. /\ a["main"] \in {"none", "refused", "failed", "registered", "open"}
      /\ Due("main") <=> a["main"] # "none"
  BY <1>0 DEF Answers
<1>2. consumer["main"] \in {"absent", "down", "up"}
  BY <1>0 DEF TypeOK
<1>3. /\ c \in {"absent", "down", "up"}
      /\ a["main"] = "open" => c = "up"
      /\ a["main"] = "registered" => c = "down"
      /\ a["main"] \notin {"registered", "open"} => c = consumer["main"]
  BY <1>1, <1>2 DEF AfterSetup
<1>4. /\ consumer["main"] # "absent" => a["main"] = "none"
      /\ consumer["main"] = "absent" /\ nextRetry["main"] = Never => a["main"] # "none"
  BY <1>1 DEF Due
<1>5. /\ consumer'["main"] = IF c = "down" /\ ok["main"] THEN "up" ELSE c
      /\ ticks'["main"] = CheckedTicks(c, ok["main"], ticks["main"])
      /\ nextRetry'["main"] = NextRetry(a, "main")
  BY <1>0 DEF Check, Checked
<1>6. /\ down'["setup"] = SetupDown(a)
      /\ down'["consumer"] = ConsumerDown(cs)
      /\ down'["handler"] = HandlerDown(cs)
      /\ down' = [down EXCEPT !["setup"] = SetupDown(a), !["consumer"] = ConsumerDown(cs),
                              !["handler"] = HandlerDown(cs)]
  BY DEF Check, TypeOK, Items
<1>7. down'["consumer"] = IF c = "up" /\ ticks["main"] + 1 >= StableTicks THEN Never
                          ELSE IF c = "down" /\ down["consumer"] = Never THEN now
                          ELSE down["consumer"]
  BY <1>0, <1>3, <1>6 DEF ConsumerDown, SetDefault
<1>8. down'["handler"] = IF c = "absent" THEN down["handler"]
                         ELSE IF handler["main"] = Never \/ now - handler["main"] < StuckAfter
                         THEN Never
                         ELSE IF down["handler"] = Never THEN handler["main"] + StuckAfter
                         ELSE down["handler"]
  BY <1>0, <1>3, <1>6 DEF HandlerDown
<1>9. heartbeat' = IF Healthy(down') \/ PassDue \/ StatusDue THEN now ELSE heartbeat
  BY <1>6 DEF Check
<1>10. refused' <=> c = "absent" /\ (refused \/ a["main"] = "refused")
  BY <1>0 DEF Check
<1>11. unstable' = IF refused' \/ a["main"] \in {"registered", "open"}
                       \/ (c = "up" /\ ticks["main"] + 1 >= StableTicks)
                   THEN 0 ELSE unstable + 1
  BY <1>0 DEF Check
<1>12. fixable' <=> fixable \/ c # "absent" \/ a["main"] = "failed"
  BY <1>0 DEF Check
<1> HIDE DEF cs
<1> QED
  BY <1>1, <1>3, <1>4, <1>5, <1>6, <1>7, <1>8, <1>9, <1>10, <1>11, <1>12 DEF Healthy

\* Every turn of the loop, restart and event of a connection keeps the types.
LEMMA NextTypeOK == WatchdogParameters /\ TypeOK /\ [Next]_vars => TypeOK'
<1> SUFFICES ASSUME WatchdogParameters, TypeOK, [Next]_vars PROVE TypeOK'
  OBVIOUS
<1>0. /\ now \in Nat /\ now <= MaxTime /\ now \in Times
      /\ MaxTime \in Nat /\ StuckAfter \in Nat /\ StableTicks \in Nat
  BY Numbers DEF TypeOK, Times
<1>1. CASE Tick
  <2>1. PICK a \in Answers, ok \in [Roles -> BOOLEAN] : Check(a, ok)
    BY <1>1 DEF Tick
  <2>2. PICK c : c = AfterSetup(a, "main")
    OBVIOUS
  <2>3. now' \in 0..MaxTime
    BY <1>0, <1>1 DEF Tick
  <2>4. consumer' \in [Roles -> {"absent", "down", "up"}]
    <3>1. \A r \in Roles : AfterSetup(a, r) \in {"absent", "down", "up"}
      BY DEF AfterSetup, TypeOK
    <3> QED BY <2>1, <3>1 DEF Check, Checked
  <2>5. handler' \in [Roles -> Times \cup {Never}]
    BY <1>1 DEF Tick, TypeOK
  <2>6. down' \in [Items -> Times \cup {Never}]
    <3>1. down["setup"] \in Times \cup {Never} /\ down["consumer"] \in Times \cup {Never}
          /\ down["handler"] \in Times \cup {Never} /\ handler["main"] \in Times \cup {Never}
      BY DEF TypeOK, Items, Roles
    <3>2. down'["setup"] \in Times \cup {Never}
      BY <1>0, <2>1, <2>2, <3>1, CheckMain DEF SetupDown, SetDefault
    <3>3. down'["consumer"] \in Times \cup {Never}
      BY <1>0, <2>1, <2>2, <3>1, CheckMain
    <3>4. down'["handler"] \in Times \cup {Never}
      <4>1. handler["main"] # Never /\ now - handler["main"] >= StuckAfter
              => handler["main"] + StuckAfter \in Times
        BY <1>0, <3>1 DEF Times
      <4>2. handler["main"] # Never => handler["main"] \in Int
        BY <3>1 DEF Times
      <4>3. handler["main"] = Never \/ now - handler["main"] < StuckAfter
            \/ now - handler["main"] >= StuckAfter
        BY <1>0, <4>2
      <4> QED BY <2>1, <2>2, <3>1, <4>1, <4>3, CheckMain
    <3>5. down' \in [Items -> {down'["setup"], down'["consumer"], down'["handler"]}]
      BY <2>1 DEF Check, TypeOK, Items
    <3> QED BY <3>2, <3>3, <3>4, <3>5
  <2>7. ticks' \in [Roles -> 0..StableTicks]
    <3>1. \A r \in Roles : ticks[r] \in Nat /\ ticks[r] <= StableTicks
      BY <1>0 DEF TypeOK
    <3>2. ASSUME NEW r \in Roles, NEW x, NEW y
          PROVE  CheckedTicks(x, y, ticks[r]) \in 0..StableTicks
      BY <1>0, <3>1, Numbers DEF CheckedTicks
    <3> QED BY <2>1, <3>2 DEF Check
  <2>8. /\ nextRetry' \in [Roles -> 0..(MaxTime + RetryMax) \cup {Never}]
        /\ delay' \in [Roles -> 0..RetryMax]
    BY <2>1, RetryTypes DEF Check
  <2>9. refused' \in BOOLEAN /\ fixable' \in BOOLEAN
    BY <2>1 DEF Check
  <2>10. /\ lastPass' \in Times \cup {Never} /\ lastStatus' \in Times \cup {Never}
         /\ heartbeat' \in Times
         /\ hung' \in Times \cup {Never} /\ touched' \in Times \cup {Never}
    BY <1>0, <1>1, <2>1 DEF Tick, Check, TypeOK
  <2>11. unstable' \in Nat
    BY <2>1 DEF Check, TypeOK
  <2>12. refused' => consumer'["main"] = "absent" /\ down'["setup"] = Never
    <3> SUFFICES ASSUME refused' PROVE consumer'["main"] = "absent" /\ down'["setup"] = Never
      OBVIOUS
    <3>1. c = "absent" /\ (refused \/ a["main"] = "refused")
      BY <2>1, <2>2, CheckMain
    <3>2. consumer'["main"] = "absent" /\ consumer["main"] = "absent"
      BY <2>1, <2>2, <3>1, CheckMain
    <3>3. down'["setup"] = SetupDown(a)
      BY <2>1, <2>2, CheckMain
    <3>4. CASE refused
      BY <3>2, <3>3, <3>4 DEF SetupDown, TypeOK
    <3>5. CASE ~refused
      <4>1. SetupDown(a) = Never
        BY <3>1, <3>2, <3>5 DEF SetupDown
      <4> QED BY <3>2, <3>3, <4>1
    <3> QED BY <3>4, <3>5
  <2> QED BY <2>3, <2>4, <2>5, <2>6, <2>7, <2>8, <2>9, <2>10, <2>11, <2>12 DEF TypeOK
<1>2. CASE Restart
  <2>1. 0 \in 0..StableTicks /\ 0 \in 0..RetryMax /\ 0 \in 0..MaxTime /\ 0 \in Times
    BY Numbers DEF Times
  <2>2. /\ consumer' \in [Roles -> {"absent", "down", "up"}] /\ now' = 0
        /\ handler' = [r \in Roles |-> Never] /\ down' = [i \in Items |-> Never]
        /\ ticks' = [r \in Roles |-> 0] /\ nextRetry' = [r \in Roles |-> Never]
        /\ delay' = [r \in Roles |-> 0] /\ refused' = FALSE /\ fixable' = FALSE
        /\ lastPass' = Never /\ lastStatus' = Never /\ heartbeat' = 0 /\ unstable' = 0
        /\ hung' = Never /\ touched' = Never
    BY <1>2 DEF Restart, Begin
  <2> QED BY <1>0, <2>1, <2>2 DEF TypeOK
<1>3. ASSUME NEW r \in Roles, Drop(r) \/ Recover(r) PROVE TypeOK'
  BY <1>3 DEF Drop, Recover, TypeOK, Roles
<1>4. ASSUME NEW r \in Roles, HandlerStarts(r) \/ HandlerEnds(r) PROVE TypeOK'
  BY <1>0, <1>4 DEF HandlerStarts, HandlerEnds, TypeOK
<1>5. CASE Hang \/ Idle \/ HandlerTouches
  BY <1>0, <1>5 DEF Hang, Idle, HandlerTouches, TypeOK
<1>6. CASE Ended \/ UNCHANGED vars
  BY <1>6 DEF Ended, TypeOK
<1>7. "main" \in Roles
  BY DEF Roles
<1> QED
  BY <1>1, <1>2, <1>3, <1>4, <1>5, <1>6, <1>7 DEF Next

-----------------------------------------------------------------------------
(* The invariant, one turn of the main loop at a time.                       *)

\* The numbers of a state are integers, and Never comes before every time.
LEMMA Integral ==
    ASSUME WatchdogParameters, TypeOK
    PROVE  /\ now \in Nat /\ heartbeat \in Nat /\ unstable \in Nat
           /\ lastPass \in Int /\ lastPass >= -1 /\ lastStatus \in Int /\ lastStatus >= -1
           /\ hung \in Int /\ hung >= -1 /\ touched \in Int /\ touched >= -1
           /\ \A i \in Items : down[i] \in Int /\ down[i] >= -1
           /\ handler["main"] \in Int /\ handler["main"] >= -1
           /\ ticks["main"] \in Nat /\ ticks["main"] <= StableTicks
<1>1. Times \cup {Never} \subseteq Int /\ \A t \in Times \cup {Never} : t >= -1
  BY Numbers DEF Times, Never
<1>2. lastPass \in Times \cup {Never} /\ lastStatus \in Times \cup {Never} /\ unstable \in Nat
      /\ now \in 0..MaxTime /\ heartbeat \in Times
      /\ hung \in Times \cup {Never} /\ touched \in Times \cup {Never}
  BY DEF TypeOK
<1>3. \A i \in Items : down[i] \in Times \cup {Never}
  BY DEF TypeOK
<1>4. "main" \in Roles
  BY DEF Roles
<1>5. handler["main"] \in Times \cup {Never} /\ ticks["main"] \in 0..StableTicks
  BY <1>4 DEF TypeOK
<1>6. now \in Nat /\ heartbeat \in Nat
  BY <1>2, Numbers DEF Times
<1>7. /\ lastPass \in Int /\ lastPass >= -1 /\ lastStatus \in Int /\ lastStatus >= -1
      /\ hung \in Int /\ hung >= -1 /\ touched \in Int /\ touched >= -1
  BY <1>1, <1>2
<1>8. \A i \in Items : down[i] \in Int /\ down[i] >= -1
  BY <1>1, <1>3
<1>9. handler["main"] \in Int /\ handler["main"] >= -1
      /\ ticks["main"] \in Nat /\ ticks["main"] <= StableTicks
  BY <1>1, <1>5, Numbers
<1> QED
  BY <1>2, <1>6, <1>7, <1>8, <1>9

\* The clock and the passes of one turn.
LEMMA TickClock ==
    ASSUME WatchdogParameters, TypeOK, WatchdogInv, Tick
    PROVE  /\ NotedInv /\ UnstableInv /\ StuckInv /\ HeartbeatInv /\ CauseInv
           /\ now' = now + 1 /\ now - heartbeat < MaxAge
           /\ touched <= now /\ touched' = touched
           /\ lastPass' = (IF lastPass = Never \/ now - lastPass >= PassPeriod THEN now ELSE lastPass)
           /\ lastStatus' = (IF lastStatus = Never \/ now - lastStatus >= StatusPeriod
                             THEN now ELSE lastStatus)
           /\ handler' = handler
<1>1. NotedInv /\ UnstableInv /\ StuckInv /\ HeartbeatInv /\ CauseInv /\ touched <= now
  BY DEF Tick, WatchdogInv, HungInv
<1>2. lastPass = Never <=> lastStatus = Never
  BY <1>1 DEF NotedInv
<1> QED
  BY <1>1, <1>2 DEF Tick, Alive, PassDue, StatusDue

\* A turn notes what it finds down at its own time, or when a handler became
\* stuck.
LEMMA TickNoted ==
    ASSUME WatchdogParameters, TypeOK, WatchdogInv, Tick
    PROVE  NotedInv' /\ StuckInv'
<1> USE Numbers, Integral, TickClock DEF Never
<1>1. PICK a \in Answers, ok \in [Roles -> BOOLEAN] : Check(a, ok)
  BY DEF Tick
<1>2. PICK c : c = AfterSetup(a, "main")
  OBVIOUS
<1>3. heartbeat' = now \/ heartbeat' = heartbeat
  BY <1>1, <1>2, CheckMain
<1>4. heartbeat' <= now' /\ now' - heartbeat' <= MaxAge
  BY <1>3 DEF NotedInv
<1>5. down'["setup"] \in {Never, down["setup"], now}
  <2>1. down'["setup"] = SetupDown(a)
    BY <1>1, <1>2, CheckMain
  <2> QED BY <2>1 DEF SetupDown, SetDefault
<1>6. down'["consumer"] \in {Never, down["consumer"], now}
  BY <1>1, <1>2, CheckMain
<1>7. /\ down'["handler"] = Never \/ down'["handler"] = down["handler"]
         \/ (handler["main"] # Never /\ now - handler["main"] >= StuckAfter
             /\ down'["handler"] = handler["main"] + StuckAfter)
  BY <1>1, <1>2, CheckMain
<1>8. \A i \in Items : down'[i] # Never => down'[i] < now'
  <2>1. \A i \in Items : down[i] # Never => down[i] < now
    BY DEF NotedInv
  <2> QED BY <1>5, <1>6, <1>7, <2>1 DEF Items
<1>9. lastPass' < now' /\ lastStatus' < now' /\ lastPass' # Never /\ lastStatus' # Never
  BY DEF NotedInv
<1>10. /\ consumer'["main"] = IF c = "down" /\ ok["main"] THEN "up" ELSE c
       /\ c \in {"absent", "down", "up"}
       /\ c = "absent" => consumer["main"] = "absent" /\ a["main"] \notin {"registered", "open"}
       /\ consumer["main"] # "absent" => c = consumer["main"]
       /\ c # "absent" /\ consumer["main"] = "absent" => a["main"] \in {"registered", "open"}
  BY <1>1, <1>2, CheckMain
<1>11. consumer'["main"] # "absent" => down'["setup"] = Never /\ ~refused'
  <2> SUFFICES ASSUME consumer'["main"] # "absent" PROVE down'["setup"] = Never /\ ~refused'
    OBVIOUS
  <2>1. c # "absent"
    BY <1>10
  <2>2. ~refused'
    BY <1>1, <1>2, <2>1, CheckMain
  <2>3. down'["setup"] = SetupDown(a)
    BY <1>1, <1>2, CheckMain
  <2>4. CASE consumer["main"] # "absent"
    BY <2>2, <2>3, <2>4 DEF NotedInv, SetupDown
  <2>5. CASE consumer["main"] = "absent"
    <3>1. a["main"] \in {"registered", "open"}
      BY <1>10, <2>1, <2>5
    <3>2. down["setup"] = Never \/ ~refused
      BY DEF TypeOK
    <3>3. SetupDown(a) = Never
      <4>1. CASE refused
        BY <2>5, <3>1, <3>2, <4>1 DEF SetupDown
      <4>2. CASE ~refused
        BY <2>5, <3>1, <4>2 DEF SetupDown
      <4> QED BY <4>1, <4>2
    <3> QED BY <2>2, <2>3, <3>3
  <2> QED BY <2>4, <2>5
<1>12. consumer'["main"] = "absent" =>
         /\ down'["consumer"] = Never /\ down'["handler"] = Never
         /\ handler'["main"] = Never /\ ticks'["main"] = 0
  <2> SUFFICES ASSUME consumer'["main"] = "absent"
               PROVE  /\ down'["consumer"] = Never /\ down'["handler"] = Never
                      /\ handler'["main"] = Never /\ ticks'["main"] = 0
    OBVIOUS
  <2>1. c = "absent" /\ consumer["main"] = "absent"
    BY <1>10
  <2>2. down["consumer"] = Never /\ down["handler"] = Never /\ handler["main"] = Never
        /\ ticks["main"] = 0
    BY <2>1 DEF NotedInv
  <2>3. ticks'["main"] = CheckedTicks(c, ok["main"], ticks["main"])
    BY <1>1, <1>2, CheckMain
  <2>4. ticks'["main"] = 0
    BY <2>1, <2>2, <2>3 DEF CheckedTicks
  <2> QED BY <1>1, <1>2, <2>1, <2>2, <2>4, CheckMain
<1>13. StuckInv'
  <2> SUFFICES ASSUME handler["main"] # Never
               PROVE  /\ handler["main"] <= now + 1
                      /\ down'["handler"] = Never => now + 1 <= handler["main"] + StuckAfter
                      /\ down'["handler"] # Never => down'["handler"] <= handler["main"] + StuckAfter
    BY DEF StuckInv
  <2>1. c # "absent"
    BY <1>10 DEF NotedInv
  <2>2. handler["main"] <= now
    BY DEF StuckInv
  <2>3. CASE now - handler["main"] < StuckAfter
    <3>1. down'["handler"] = Never
      BY <1>1, <1>2, <2>1, <2>3, CheckMain
    <3> QED BY <2>2, <2>3, <3>1
  <2>4. CASE now - handler["main"] >= StuckAfter
    <3>1. down'["handler"] = IF down["handler"] = Never THEN handler["main"] + StuckAfter
                             ELSE down["handler"]
      <4>1. ~(now - handler["main"] < StuckAfter)
        BY <2>4
      <4> QED BY <1>1, <1>2, <2>1, <4>1, CheckMain
    <3>2. down'["handler"] <= handler["main"] + StuckAfter
      BY <2>2, <3>1 DEF StuckInv
    <3>3. down'["handler"] # Never
      BY <2>2, <3>1
    <3> QED BY <2>2, <3>2, <3>3
  <2> QED BY <2>3, <2>4
<1> QED
  BY <1>4, <1>8, <1>9, <1>11, <1>12, <1>13 DEF NotedInv

\* A turn that does not find the own consumer stable, refused or newly set up
\* counts one more, and has noted it as down unless it was up in every turn.
LEMMA TickUnstable ==
    ASSUME WatchdogParameters, TypeOK, WatchdogInv, Tick
    PROVE  UnstableInv'
<1> USE Numbers, Integral, TickClock DEF Never
<1>1. PICK a \in Answers, ok \in [Roles -> BOOLEAN] : Check(a, ok)
  BY DEF Tick
<1>2. PICK c : c = AfterSetup(a, "main")
  OBVIOUS
<1>3. /\ consumer'["main"] = IF c = "down" /\ ok["main"] THEN "up" ELSE c
      /\ c \in {"absent", "down", "up"}
      /\ a["main"] = "open" => c = "up"
      /\ a["main"] = "registered" => c = "down"
      /\ a["main"] \notin {"registered", "open"} => c = consumer["main"]
      /\ consumer["main"] # "absent" => a["main"] = "none"
  BY <1>1, <1>2, CheckMain
<1>4. unstable' = IF refused' \/ a["main"] \in {"registered", "open"}
                     \/ (c = "up" /\ ticks["main"] + 1 >= StableTicks)
                  THEN 0 ELSE unstable + 1
  BY <1>1, <1>2, CheckMain
<1>5. down'["consumer"] = IF c = "up" /\ ticks["main"] + 1 >= StableTicks THEN Never
                          ELSE IF c = "down" /\ down["consumer"] = Never THEN now
                          ELSE down["consumer"]
  BY <1>1, <1>2, CheckMain
<1>6. ticks'["main"] = CheckedTicks(c, ok["main"], ticks["main"])
  BY <1>1, <1>2, CheckMain
<1>7. refused' => unstable' = 0
  BY <1>4
<1>8. refused' <=> c = "absent" /\ (refused \/ a["main"] = "refused")
  BY <1>1, <1>2, CheckMain
<1>9. CASE c = "absent"
  <2>1. consumer["main"] = "absent" /\ a["main"] \notin {"registered", "open"}
    BY <1>3, <1>9
  <2>2. down'["consumer"] = Never /\ ticks'["main"] = 0 /\ consumer'["main"] = "absent"
    BY <1>3, <1>5, <1>6, <1>9, <2>1 DEF CheckedTicks, NotedInv
  <2>3. ASSUME ~refused'
        PROVE  unstable' = IF down'["setup"] = Never THEN 0 ELSE now' - down'["setup"]
    <3>1. ~refused /\ a["main"] # "refused"
      BY <1>8, <1>9, <2>3
    <3>2. down'["setup"] = SetupDown(a)
      BY <1>1, <1>2, CheckMain
    <3>3. down'["setup"] = IF down["setup"] = Never THEN now ELSE down["setup"]
      BY <2>1, <3>1, <3>2 DEF SetupDown, SetDefault
    <3>4. unstable = IF down["setup"] = Never THEN 0 ELSE now - down["setup"]
      BY <2>1, <3>1 DEF UnstableInv
    <3>5. unstable' = unstable + 1
      BY <1>4, <1>9, <2>1, <2>3
    <3>6. down["setup"] \in Int /\ now \in Nat
      BY DEF Items
    <3> QED BY <3>3, <3>4, <3>5, <3>6
  <2> QED BY <1>7, <2>2, <2>3 DEF UnstableInv
<1>10. CASE c # "absent"
  <2>0. consumer'["main"] # "absent"
    BY <1>3, <1>10
  <2>00. down["consumer"] \in Int /\ (down["consumer"] # Never => down["consumer"] < now)
    BY DEF NotedInv, Items
  <2>1. CASE a["main"] \in {"registered", "open"}
    <3>1. unstable' = 0 /\ consumer["main"] = "absent" /\ down["consumer"] = Never
      BY <1>3, <1>4, <2>1 DEF NotedInv
    <3>2. down'["consumer"] # Never => down'["consumer"] = now
      BY <1>5, <3>1
    <3>3. ticks'["main"] \in Nat
      BY <1>6, <1>10 DEF CheckedTicks
    <3> QED BY <1>7, <2>0, <3>1, <3>2, <3>3 DEF UnstableInv
  <2>2. CASE c = "up" /\ ticks["main"] + 1 >= StableTicks
    <3>1. unstable' = 0 /\ down'["consumer"] = Never /\ ticks'["main"] \in Nat
      BY <1>4, <1>5, <1>6, <2>2 DEF CheckedTicks
    <3> QED BY <1>7, <2>0, <3>1 DEF UnstableInv
  <2>3. CASE /\ a["main"] \notin {"registered", "open"}
             /\ ~(c = "up" /\ ticks["main"] + 1 >= StableTicks)
    <3>1. unstable' = unstable + 1 /\ ~refused' /\ c = consumer["main"]
      BY <1>3, <1>4, <1>8, <1>10, <2>3
    <3>2. CASE c = "up"
      <4>1. /\ down'["consumer"] = down["consumer"] /\ ticks'["main"] = ticks["main"] + 1
            /\ ticks["main"] + 1 < StableTicks
        BY <1>5, <1>6, <2>3, <3>2 DEF CheckedTicks
      <4>2. CASE down["consumer"] = Never
        <5>1. unstable <= ticks["main"]
          BY <1>10, <3>1, <4>2 DEF UnstableInv
        <5> QED BY <1>7, <2>0, <3>1, <4>1, <4>2, <5>1 DEF UnstableInv
      <4>3. CASE down["consumer"] # Never
        <5>1. /\ now - down["consumer"] <= unstable + 1
              /\ unstable < now - down["consumer"] + StableTicks
          BY <4>3 DEF UnstableInv
        <5> QED BY <1>7, <2>0, <2>00, <3>1, <4>1, <4>3, <5>1 DEF UnstableInv
      <4> QED BY <4>2, <4>3
    <3>3. CASE c = "down"
      <4>1. CASE down["consumer"] = Never
        <5>1. unstable <= ticks["main"] /\ (unstable > 0 => ticks["main"] < StableTicks)
          BY <1>10, <3>1, <4>1 DEF UnstableInv
        <5>2. down'["consumer"] = now
          BY <1>5, <3>3, <4>1
        <5>3. unstable < StableTicks
          BY <5>1
        <5> QED BY <1>7, <2>0, <3>1, <5>2, <5>3 DEF UnstableInv
      <4>2. CASE down["consumer"] # Never
        <5>1. /\ now - down["consumer"] <= unstable + 1
              /\ unstable < now - down["consumer"] + StableTicks
          BY <4>2 DEF UnstableInv
        <5>2. down'["consumer"] = down["consumer"]
          BY <1>5, <3>3, <4>2
        <5> QED BY <1>7, <2>0, <2>00, <3>1, <4>2, <5>1, <5>2 DEF UnstableInv
      <4> QED BY <4>1, <4>2
    <3> QED BY <1>3, <1>10, <3>2, <3>3
  <2> QED BY <2>1, <2>2, <2>3
<1> QED
  BY <1>9, <1>10

\* A pass can touch the heartbeat for the watchdog only once after it stopped: the
\* next one of its kind comes too late.
LEMMA TickHeartbeat ==
    ASSUME WatchdogParameters, TypeOK, WatchdogInv, Tick
    PROVE  HeartbeatInv'
<1> USE Numbers, Integral, TickClock DEF Never
<1>1. PICK a \in Answers, ok \in [Roles -> BOOLEAN] : Check(a, ok)
  BY DEF Tick
<1>2. PICK c : c = AfterSetup(a, "main")
  OBVIOUS
<1>3. heartbeat' = IF (\A i \in Items : down'[i] = Never \/ now - down'[i] < UnhealthyAfter)
                      \/ PassDue \/ StatusDue THEN now ELSE heartbeat
  BY <1>1, <1>2, CheckMain
<1>4. /\ down'["setup"] \in {Never, down["setup"], now}
      /\ down'["consumer"] \in {Never, down["consumer"], now}
  <2>1. down'["setup"] = SetupDown(a)
    BY <1>1, <1>2, CheckMain
  <2>2. down'["consumer"] \in {Never, down["consumer"], now}
    BY <1>1, <1>2, CheckMain
  <2> QED BY <2>1, <2>2 DEF SetupDown, SetDefault
<1>5. \/ down'["handler"] = Never \/ down'["handler"] = down["handler"]
      \/ /\ down["handler"] = Never /\ handler["main"] # Never
         /\ now - handler["main"] >= StuckAfter
         /\ down'["handler"] = handler["main"] + StuckAfter
  BY <1>1, <1>2, CheckMain
<1>6. \A i \in Items : down'[i] \in {Never, down[i], now}
  <2>1. down'["handler"] \in {Never, down["handler"], now}
    <3>1. CASE /\ down["handler"] = Never /\ handler["main"] # Never
               /\ now - handler["main"] >= StuckAfter
               /\ down'["handler"] = handler["main"] + StuckAfter
      <4>1. now <= handler["main"] + StuckAfter
        BY <3>1 DEF StuckInv
      <4> QED BY <3>1, <4>1
    <3> QED BY <1>5, <3>1
  <2> QED BY <1>4, <2>1 DEF Items
<1>7. /\ lastPass' <= now /\ lastStatus' <= now /\ heartbeat' <= now
      /\ lastPass' \in Int /\ lastStatus' \in Int /\ heartbeat' \in Int
  BY <1>3 DEF NotedInv
<1>8. SUFFICES ASSUME NEW i \in Items, down'[i] # Never
               PROVE  PassesInv(Limit(down[i]))'
  BY DEF HeartbeatInv
<1>80. Limit(down[i])' = IF touched >= down'[i] + UnhealthyAfter THEN touched + 1
                         ELSE down'[i] + UnhealthyAfter
  BY DEF Limit
<1>9. CASE down'[i] = now
  <2>1. Limit(down[i])' = now + UnhealthyAfter
    BY <1>9, <1>80
  <2>2. PICK b \in Int : b = Limit(down[i])'
    BY <2>1
  <2>3. now < b
    BY <2>1, <2>2
  <2>4. PassesInv(b)'
    BY <1>7, <2>3 DEF PassesInv
  <2> QED BY <2>2, <2>4 DEF PassesInv
<1>10. CASE down'[i] = down[i] /\ down[i] # now
  <2>00. PICK b \in Int : b = Limit(down[i])
    BY DEF Limit
  <2>0. b >= down[i] + UnhealthyAfter /\ Limit(down[i])' = b
    BY <1>10, <1>80, <2>00 DEF Limit
  <2>1. PassesInv(b)
    BY <1>8, <1>10, <2>00 DEF HeartbeatInv
  <2>2. lastPass # Never /\ lastStatus # Never
    <3>1. down[i] # Never
      BY <1>8, <1>10
    <3>2. lastPass # Never
      BY <3>1 DEF NotedInv
    <3> QED BY <3>2 DEF NotedInv
  <2>3. /\ PassDue <=> now - lastPass >= PassPeriod
        /\ StatusDue <=> now - lastStatus >= StatusPeriod
    BY <2>2 DEF PassDue, StatusDue
  <2>4. /\ lastPass' = (IF now - lastPass >= PassPeriod THEN now ELSE lastPass)
        /\ lastStatus' = (IF now - lastStatus >= StatusPeriod THEN now ELSE lastStatus)
        /\ lastPass < now /\ lastStatus < now
    BY <2>2 DEF NotedInv
  <2>5. CASE now < b
    BY <1>7, <2>0, <2>5 DEF PassesInv
  <2>6. CASE now >= b
    <3>1. ~(\A j \in Items : down'[j] = Never \/ now - down'[j] < UnhealthyAfter)
      BY <1>8, <1>10, <2>0, <2>6
    <3>2. heartbeat' = IF now - lastPass >= PassPeriod \/ now - lastStatus >= StatusPeriod
                       THEN now ELSE heartbeat
      BY <1>3, <2>3, <3>1
    <3>3. now - heartbeat < MaxAge
      OBVIOUS
    <3>4. CASE now - lastPass >= PassPeriod /\ now - lastStatus >= StatusPeriod
      <4>1. lastPass' = now /\ lastStatus' = now /\ heartbeat' = now
        BY <2>4, <3>2, <3>4
      <4>2. now <= b + MaxAge - 2
        BY <2>1, <2>4, <3>3, <3>4 DEF PassesInv
      <4> QED BY <2>0, <4>1, <4>2 DEF PassesInv
    <3>5. CASE now - lastPass >= PassPeriod /\ ~(now - lastStatus >= StatusPeriod)
      <4>1. lastPass' = now /\ lastStatus' = lastStatus /\ heartbeat' = now
        BY <2>4, <3>2, <3>5
      <4>2. lastPass < b
        BY <2>1, <2>4, <3>3, <3>5 DEF PassesInv
      <4>3. CASE lastStatus < b
        <5>1. now <= b + MaxAge - 2
          BY <2>1, <3>3, <4>2, <4>3 DEF PassesInv
        <5> QED BY <2>0, <4>1, <4>3, <5>1 DEF PassesInv
      <4>4. CASE lastStatus >= b
        <5>1. lastStatus <= b + MaxAge - 2 /\ now - lastStatus <= MaxAge - 1
          BY <2>1, <3>3, <4>2, <4>4 DEF PassesInv
        <5> QED BY <2>0, <2>4, <4>1, <4>4, <5>1 DEF PassesInv
      <4> QED BY <4>3, <4>4
    <3>6. CASE ~(now - lastPass >= PassPeriod) /\ now - lastStatus >= StatusPeriod
      <4>1. lastPass' = lastPass /\ lastStatus' = now /\ heartbeat' = now
        BY <2>4, <3>2, <3>6
      <4>2. lastStatus < b
        BY <2>1, <2>4, <3>3, <3>6 DEF PassesInv
      <4>3. CASE lastPass < b
        <5>1. now <= b + MaxAge - 2
          BY <2>1, <3>3, <4>2, <4>3 DEF PassesInv
        <5> QED BY <2>0, <4>1, <4>3, <5>1 DEF PassesInv
      <4>4. CASE lastPass >= b
        <5>1. lastPass <= b + MaxAge - 2 /\ now - lastPass <= MaxAge - 1
          BY <2>1, <3>3, <4>2, <4>4 DEF PassesInv
        <5> QED BY <2>0, <2>4, <4>1, <4>4, <5>1 DEF PassesInv
      <4> QED BY <4>3, <4>4
    <3>7. CASE ~(now - lastPass >= PassPeriod) /\ ~(now - lastStatus >= StatusPeriod)
      <4>1. lastPass' = lastPass /\ lastStatus' = lastStatus /\ heartbeat' = heartbeat
        BY <2>4, <3>2, <3>7
      <4> QED BY <2>0, <2>1, <4>1 DEF PassesInv
    <3> QED BY <3>4, <3>5, <3>6, <3>7
  <2> QED BY <2>0, <2>5, <2>6
<1> QED
  BY <1>6, <1>8, <1>9, <1>10

\* A turn that does not touch the heartbeat found something down for the whole
\* threshold, and what it finds down is more than a refused setup.
LEMMA TickCause ==
    ASSUME WatchdogParameters, TypeOK, WatchdogInv, Tick
    PROVE  CauseInv'
<1> USE Numbers, Integral, TickClock DEF Never
<1>1. PICK a \in Answers, ok \in [Roles -> BOOLEAN] : Check(a, ok)
  BY DEF Tick
<1>2. PICK c : c = AfterSetup(a, "main")
  OBVIOUS
<1>3. heartbeat' = now'
        \/ heartbeat' = now' - 1
        \/ \E i \in Items : down'[i] # Never /\ now' - 1 - down'[i] >= UnhealthyAfter
  <2>1. \A i \in Items : down'[i] \in Int
    BY NextTypeOK, Integral, Numbers DEF Next, TypeOK, Times
  <2>2. CASE \A i \in Items : down'[i] = Never \/ now - down'[i] < UnhealthyAfter
    BY <1>1, <1>2, <2>2, CheckMain
  <2>3. CASE ~(\A i \in Items : down'[i] = Never \/ now - down'[i] < UnhealthyAfter)
    BY <2>1, <2>3
  <2> QED BY <2>2, <2>3
<1>4. /\ fixable' <=> fixable \/ c # "absent" \/ a["main"] = "failed"
      /\ a["main"] \in {"none", "refused", "failed", "registered", "open"}
      /\ a["main"] \notin {"registered", "open"} => c = consumer["main"]
      /\ consumer'["main"] = "absent" => c = "absent"
      /\ c = "absent" => consumer["main"] = "absent" /\ a["main"] \notin {"registered", "open"}
  BY <1>1, <1>2, CheckMain
<1>5. ASSUME c = "absent", ~refused, a["main"] = "none" PROVE fixable
  BY <1>1, <1>2, <1>4, <1>5, CheckMain DEF CauseInv
<1>6. ASSUME NEW i \in Items, down'[i] # Never PROVE fixable'
  <2>1. CASE c # "absent"
    BY <1>4, <2>1
  <2>2. CASE c = "absent" /\ down[i] # Never
    BY <1>4, <2>2 DEF CauseInv
  <2>3. CASE c = "absent" /\ down[i] = Never
    <3>1. i = "setup" /\ down'["setup"] = SetupDown(a)
      BY <1>1, <1>2, <1>6, <2>3, CheckMain DEF Items
    <3>2. ~refused /\ a["main"] # "refused"
      BY <1>4, <1>6, <2>3, <3>1 DEF SetupDown
    <3> QED BY <1>4, <1>5, <2>3, <3>2
  <2> QED BY <2>1, <2>2, <2>3
<1>7. ASSUME consumer'["main"] = "absent", nextRetry'["main"] # Never, ~refused' PROVE fixable'
  <2>1. c = "absent" /\ ~refused /\ a["main"] # "refused"
    <3>1. c = "absent"
      BY <1>4, <1>7
    <3> QED BY <1>1, <1>2, <1>7, <3>1, CheckMain
  <2> QED BY <1>4, <1>5, <2>1
<1> QED
  BY <1>3, <1>6, <1>7 DEF CauseInv

\* A restart begins with nothing noted.
LEMMA RestartKeeps ==
    ASSUME WatchdogParameters, TypeOK, Restart
    PROVE  WatchdogInv'
<1> USE Numbers, Integral DEF Never
<1>1. /\ now' = 0 /\ heartbeat' = 0 /\ unstable' = 0 /\ refused' = FALSE
      /\ hung' = Never /\ touched' = Never
      /\ lastPass' = Never /\ lastStatus' = Never
      /\ handler'["main"] = Never /\ ticks'["main"] = 0 /\ nextRetry'["main"] = Never
      /\ down' = [i \in Items |-> Never]
  BY DEF Restart, Begin, Roles
<1>2. \A i \in Items : down'[i] = Never
  BY <1>1
<1>3. down'["setup"] = Never /\ down'["consumer"] = Never /\ down'["handler"] = Never
  BY <1>2 DEF Items
<1>4. NotedInv'
  BY <1>1, <1>2, <1>3 DEF NotedInv
<1>5. UnstableInv' /\ StuckInv'
  BY <1>1, <1>3 DEF UnstableInv, StuckInv
<1>6. HeartbeatInv' /\ CauseInv'
  BY <1>1, <1>2 DEF HeartbeatInv, CauseInv
<1>7. HungInv'
  BY <1>1 DEF HungInv
<1> QED BY <1>4, <1>5, <1>6, <1>7 DEF WatchdogInv

\* What the connections do between two turns is seen by the next one only.
LEMMA ConnectionsKeep ==
    ASSUME WatchdogParameters, TypeOK, WatchdogInv, NEW r \in Roles,
           Drop(r) \/ Recover(r) \/ HandlerStarts(r) \/ HandlerEnds(r)
    PROVE  WatchdogInv'
<1> USE Numbers, Integral DEF Never
<1>1. UNCHANGED <<now, down, ticks, nextRetry, refused, lastPass, lastStatus, heartbeat,
                  hung, touched, unstable, fixable>>
  BY DEF Drop, Recover, HandlerStarts, HandlerEnds
<1>0. HungInv'
  BY <1>1 DEF WatchdogInv, HungInv
<1> SUFFICES ASSUME hung = Never
             PROVE  NotedInv' /\ UnstableInv' /\ StuckInv' /\ HeartbeatInv' /\ CauseInv'
  BY <1>0, <1>1 DEF WatchdogInv
<1>00. NotedInv /\ UnstableInv /\ StuckInv /\ HeartbeatInv /\ CauseInv
  BY DEF WatchdogInv
<1>2. consumer'["main"] = "absent" <=> consumer["main"] = "absent"
  BY DEF Drop, Recover, HandlerStarts, HandlerEnds, TypeOK, Roles
<1>3. \/ handler'["main"] = handler["main"] \/ handler'["main"] = Never
      \/ handler'["main"] = now /\ consumer["main"] = "up"
  BY DEF Drop, Recover, HandlerStarts, HandlerEnds, TypeOK, Roles
<1>4. NotedInv'
  BY <1>00, <1>1, <1>2, <1>3 DEF NotedInv
<1>5. UnstableInv' /\ CauseInv'
  BY <1>00, <1>1, <1>2 DEF UnstableInv, CauseInv
<1>6. StuckInv'
  <2>1. down["handler"] \in Int /\ (down["handler"] # Never => down["handler"] < now)
    BY <1>00 DEF NotedInv, Items
  <2> QED BY <1>00, <1>1, <1>3, <2>1 DEF StuckInv
<1>7. HeartbeatInv'
  BY <1>00, <1>1 DEF HeartbeatInv, PassesInv, Limit
<1> QED BY <1>4, <1>5, <1>6, <1>7

\* A sync on a worker thread makes the heartbeat young: whatever is down long
\* enough is noticed after it only.
LEMMA TouchKeeps ==
    ASSUME WatchdogParameters, TypeOK, WatchdogInv, HandlerTouches
    PROVE  WatchdogInv'
<1> USE Numbers, Integral DEF Never
<1>1. /\ UNCHANGED <<now, consumer, handler, down, ticks, nextRetry, refused, lastPass, lastStatus,
                     hung, unstable, fixable>>
      /\ heartbeat' = now /\ touched' = now
  BY DEF HandlerTouches
<1>0. HungInv'
  BY <1>1 DEF WatchdogInv, HungInv
<1> SUFFICES ASSUME hung = Never
             PROVE  NotedInv' /\ UnstableInv' /\ StuckInv' /\ HeartbeatInv' /\ CauseInv'
  BY <1>0, <1>1 DEF WatchdogInv
<1>00. NotedInv /\ UnstableInv /\ StuckInv /\ HeartbeatInv /\ CauseInv
  BY DEF WatchdogInv
<1>2. NotedInv'
  BY <1>00, <1>1 DEF NotedInv
<1>3. UnstableInv' /\ StuckInv' /\ CauseInv'
  BY <1>00, <1>1 DEF UnstableInv, StuckInv, CauseInv
<1>4. HeartbeatInv'
  <2> SUFFICES ASSUME NEW i \in Items, down[i] # Never
               PROVE  PassesInv(Limit(down[i]))'
    BY <1>1 DEF HeartbeatInv
  <2>1. Limit(down[i])' = IF now >= down[i] + UnhealthyAfter THEN now + 1
                          ELSE down[i] + UnhealthyAfter
    BY <1>1 DEF Limit
  <2>2. PICK b \in Int : b = Limit(down[i])' /\ now < b
    BY <2>1
  <2>3. lastPass < now /\ lastStatus < now
    BY <1>00 DEF NotedInv
  <2> QED BY <1>1, <2>2, <2>3 DEF PassesInv
<1> QED BY <1>2, <1>3, <1>4

\* While the main loop hangs nothing is known but the age of the heartbeat.
LEMMA HungKeeps ==
    ASSUME WatchdogParameters, TypeOK, WatchdogInv, Hang \/ Idle
    PROVE  WatchdogInv'
<1> USE Numbers, Integral DEF Never
<1>1. /\ hung' # Never /\ hung' <= now /\ heartbeat' = heartbeat /\ touched' = touched
      /\ hung' = hung \/ (hung = Never /\ hung' = now)
      /\ now' = now \/ (now' = now + 1 /\ now - heartbeat < MaxAge)
  BY DEF Hang, Idle, Alive, WatchdogInv, HungInv
<1>2. HungInv'
  BY <1>1 DEF WatchdogInv, HungInv
<1> QED BY <1>1, <1>2 DEF WatchdogInv

\* Nothing is noted when the agent starts.
LEMMA InitWatchdogInv == WatchdogParameters /\ Init => WatchdogInv
<1> SUFFICES ASSUME WatchdogParameters, Init PROVE WatchdogInv
  OBVIOUS
<1> USE Numbers DEF Never
<1>1. /\ now = 0 /\ heartbeat = 0 /\ unstable = 0 /\ refused = FALSE
      /\ hung = Never /\ touched = Never
      /\ lastPass = Never /\ lastStatus = Never
      /\ handler["main"] = Never /\ ticks["main"] = 0 /\ nextRetry["main"] = Never
      /\ down = [i \in Items |-> Never]
  BY DEF Init, Roles
<1>2. \A i \in Items : down[i] = Never
  BY <1>1
<1>3. down["setup"] = Never /\ down["consumer"] = Never /\ down["handler"] = Never
  BY <1>2 DEF Items
<1> QED
  BY <1>1, <1>2, <1>3
     DEF WatchdogInv, HungInv, NotedInv, UnstableInv, StuckInv, HeartbeatInv, CauseInv

\* The invariant is inductive.
LEMMA NextWatchdogInv ==
    WatchdogParameters /\ TypeOK /\ WatchdogInv /\ [Next]_vars => WatchdogInv'
<1> SUFFICES ASSUME WatchdogParameters, TypeOK, WatchdogInv, [Next]_vars PROVE WatchdogInv'
  OBVIOUS
<1>1. CASE Tick
  <2>1. HungInv'
    <3>1. NotedInv' /\ hung' = Never /\ touched' = touched /\ touched <= now /\ now' = now + 1
      BY <1>1, TickNoted, TickClock DEF Tick
    <3> QED BY <3>1, Integral DEF NotedInv, HungInv, Never
  <2> QED BY <1>1, <2>1, TickNoted, TickUnstable, TickHeartbeat, TickCause DEF WatchdogInv
<1>2. CASE Restart
  BY <1>2, RestartKeeps
<1>3. ASSUME NEW r \in Roles, Drop(r) \/ Recover(r) \/ HandlerStarts(r) \/ HandlerEnds(r)
      PROVE  WatchdogInv'
  BY <1>3, ConnectionsKeep
<1>4. CASE Hang \/ Idle \/ HandlerTouches
  BY <1>4, HungKeeps, TouchKeeps
<1>5. CASE Ended \/ UNCHANGED vars
  BY <1>5 DEF Ended, WatchdogInv, HungInv, NotedInv, UnstableInv, StuckInv, HeartbeatInv, PassesInv,
              Limit, CauseInv
<1>6. "main" \in Roles
  BY DEF Roles
<1> QED
  BY <1>1, <1>2, <1>3, <1>4, <1>5, <1>6 DEF Next

-----------------------------------------------------------------------------
(* What it says of outages and restarts.                                     *)

\* Nothing counts as down for longer than the threshold, the age the probe
\* accepts and what two passes can add to it, unless a sync touched the heartbeat.
LEMMA NotedEnds ==
    ASSUME WatchdogParameters, TypeOK, WatchdogInv, hung = Never,
           NEW i \in Items, down[i] # Never
    PROVE  now - down[i] <= Grace \/ Masked(PassGrace + 1)
<1> USE Numbers, Integral
<1>0. NotedInv /\ HeartbeatInv /\ touched <= now
  BY DEF WatchdogInv, HungInv
<1>1. PICK b \in Int : b = Limit(down[i])
  BY DEF Limit
<1>2. PassesInv(b)
  BY <1>0, <1>1 DEF HeartbeatInv
<1>3. heartbeat <= now /\ now - heartbeat <= MaxAge
  BY <1>0 DEF NotedInv
<1>4. heartbeat <= b + 2 * MaxAge - 3
  BY <1>2 DEF PassesInv
<1>5. PassGrace = 3 * MaxAge - 3 /\ Grace = UnhealthyAfter + 3 * MaxAge - 3
  BY DEF Grace, PassGrace
<1>6. CASE touched >= down[i] + UnhealthyAfter
  <2>1. b = touched + 1
    BY <1>1, <1>6 DEF Limit
  <2>2. now - touched <= 3 * MaxAge - 2
    BY <1>3, <1>4, <2>1
  <2>3. touched # Never
    BY <1>6 DEF Never
  <2> QED BY <1>5, <2>2, <2>3 DEF Masked
<1>7. CASE ~(touched >= down[i] + UnhealthyAfter)
  <2>1. b = down[i] + UnhealthyAfter
    BY <1>1, <1>7 DEF Limit
  <2> QED BY <1>3, <1>4, <1>5, <2>1
<1> QED BY <1>6, <1>7

\* The invariant bounds every outage, every stuck handler and every hang.
LEMMA InvEnds ==
    ASSUME WatchdogParameters, TypeOK, WatchdogInv
    PROVE  OutageEnds /\ StuckEnds /\ HangEnds
<1> USE Numbers, Integral DEF Never
<1>0. Grace \in Nat /\ Grace >= 1
  BY DEF Grace, PassGrace
<1>1. ASSUME hung = Never, ~Masked(PassGrace + 1)
      PROVE  /\ unstable < StableTicks + Grace
             /\ handler["main"] # Never => now - handler["main"] <= StuckAfter + Grace
  <2>0. UnstableInv /\ StuckInv
    BY <1>1 DEF WatchdogInv
  <2>1. /\ down["setup"] \in Int /\ (down["setup"] # Never => now - down["setup"] <= Grace)
        /\ down["consumer"] \in Int /\ (down["consumer"] # Never => now - down["consumer"] <= Grace)
        /\ down["handler"] \in Int /\ (down["handler"] # Never => now - down["handler"] <= Grace)
    BY <1>1, NotedEnds DEF Items
  <2>2. CASE refused
    BY <1>0, <2>0, <2>1, <2>2 DEF UnstableInv, StuckInv
  <2>3. CASE ~refused /\ consumer["main"] = "absent"
    BY <1>0, <2>0, <2>1, <2>3 DEF UnstableInv, StuckInv
  <2>4. CASE consumer["main"] # "absent"
    <3>1. handler["main"] # Never => now - handler["main"] <= StuckAfter + Grace
      BY <1>0, <2>0, <2>1 DEF StuckInv
    <3>2. CASE down["consumer"] = Never
      <4>1. unstable <= StableTicks
        BY <2>0, <2>4, <3>2 DEF UnstableInv
      <4> QED BY <1>0, <3>1, <4>1
    <3>3. CASE down["consumer"] # Never
      BY <1>0, <2>0, <2>1, <3>1, <3>3 DEF UnstableInv
    <3> QED BY <3>2, <3>3
  <2> QED BY <2>2, <2>3, <2>4
<1>2. OutageEnds /\ StuckEnds
  BY <1>1 DEF OutageEnds, StuckEnds
<1>3. HangEnds
  BY DEF WatchdogInv, HungInv, HangEnds, Masked
<1> QED BY <1>2, <1>3

\* The invariant tells why the probe fails.
LEMMA InvCause ==
    ASSUME WatchdogParameters, TypeOK, WatchdogInv
    PROVE  RestartHasCause
<1> USE Numbers, Integral DEF Never
<1> SUFFICES ASSUME Restart, hung = Never
             PROVE  /\ fixable
                    /\ \/ unstable >= UnhealthyAfter
                       \/ down["handler"] # Never /\ now - down["handler"] >= UnhealthyAfter
  BY DEF RestartHasCause
<1>0. NotedInv /\ UnstableInv /\ CauseInv
  BY DEF WatchdogInv
<1>1. now - heartbeat >= MaxAge
  BY DEF Restart, Alive
<1>2. PICK i \in Items : down[i] # Never /\ now - 1 - down[i] >= UnhealthyAfter
  BY <1>0, <1>1 DEF CauseInv
<1>3. fixable
  BY <1>0, <1>2 DEF CauseInv
<1>4. CASE i = "handler"
  BY <1>2, <1>3, <1>4
<1>5. CASE i = "setup"
  <2>1. consumer["main"] = "absent" /\ ~refused
    BY <1>0, <1>2, <1>5 DEF NotedInv, TypeOK
  <2>2. unstable = now - down["setup"]
    BY <1>0, <1>2, <1>5, <2>1 DEF UnstableInv
  <2> QED BY <1>2, <1>3, <1>5, <2>2
<1>6. CASE i = "consumer"
  <2>1. now - down["consumer"] <= unstable + 1
    BY <1>0, <1>2, <1>6 DEF UnstableInv
  <2> QED BY <1>2, <1>3, <1>6, <2>1
<1> QED BY <1>4, <1>5, <1>6 DEF Items

\* Type correctness of the main loop with the watchdog and the probe.
THEOREM WatchdogTypes == WatchdogParameters => (WatchdogSpec => []TypeOK)
<1> SUFFICES ASSUME WatchdogParameters PROVE WatchdogSpec => []TypeOK
  OBVIOUS
<1>1. Init => TypeOK
  BY InitTypeOK
<1>2. TypeOK /\ [Next]_vars => TypeOK'
  BY NextTypeOK
<1> QED BY <1>1, <1>2, PTL DEF WatchdogSpec

\* The invariant behind the two promises of the watchdog holds in every state.
LEMMA WatchdogAlways == WatchdogParameters => (WatchdogSpec => [](TypeOK /\ WatchdogInv))
<1> SUFFICES ASSUME WatchdogParameters PROVE WatchdogSpec => [](TypeOK /\ WatchdogInv)
  OBVIOUS
<1>1. Init => TypeOK /\ WatchdogInv
  BY InitTypeOK, InitWatchdogInv
<1>2. TypeOK /\ WatchdogInv /\ [Next]_vars => (TypeOK /\ WatchdogInv)'
  BY NextTypeOK, NextWatchdogInv
<1> QED BY <1>1, <1>2, PTL DEF WatchdogSpec

\* An outage of the own consumer, and a handler that never returns, last at most
\* the threshold, the age the probe accepts and what the periodic passes add by
\* touching the same heartbeat, and a main loop that hangs at most the age, each
\* counted anew from every sync on a worker thread that touches it too
\* (StompWatchdog.check, check_liveness, process_offering).
THEOREM OutagesEnd ==
    WatchdogParameters => (WatchdogSpec => [](OutageEnds /\ StuckEnds /\ HangEnds))
<1> SUFFICES ASSUME WatchdogParameters
             PROVE  WatchdogSpec => [](OutageEnds /\ StuckEnds /\ HangEnds)
  OBVIOUS
<1>1. TypeOK /\ WatchdogInv => OutageEnds /\ StuckEnds /\ HangEnds
  BY InvEnds
<1> QED BY <1>1, WatchdogAlways, PTL

\* The probe restarts the agent only for a main loop that hangs, or for an outage
\* of its own consumer or a stuck handler that lasted the whole threshold, never for a target or a setup that
\* the server refuses (_healthy).
THEOREM RestartsHaveCause == WatchdogParameters => (WatchdogSpec => [][RestartHasCause]_vars)
<1> SUFFICES ASSUME WatchdogParameters PROVE WatchdogSpec => [][RestartHasCause]_vars
  OBVIOUS
<1>1. TypeOK /\ WatchdogInv => RestartHasCause
  BY InvCause
<1> QED BY <1>1, WatchdogAlways, PTL

-----------------------------------------------------------------------------
(* The ownership periods of LiteLLM, and the accounts and QoS of SLURM.      *)

USE DEF bvars, svars, intents

\* The specification of the ownership periods and the reports made from them.
BillingSpec == BillingInit /\ [][BillingNext]_bvars

-----------------------------------------------------------------------------
(* Lists of periods.                                                         *)

\* The ranks of the members of a finite set of positions are 0, 1, 2 and so on
\* in the order of the positions.
LEMMA Ranks ==
    ASSUME NEW keep \in SUBSET Nat, IsFiniteSet(keep)
    PROVE  /\ Cardinality(keep) \in Nat
           /\ \A i \in keep : Rank(keep, i) \in 0 .. Cardinality(keep) - 1
           /\ \A i, j \in keep : i < j => Rank(keep, i) < Rank(keep, j)
           /\ \A k \in 0 .. Cardinality(keep) - 1 : \E i \in keep : Rank(keep, i) = k
<1>1. Cardinality(keep) \in Nat
  BY FS_CardinalityType
<1>2. ASSUME NEW i \in keep
      PROVE  /\ IsFiniteSet({j \in keep : j < i}) /\ Rank(keep, i) \in Nat
             /\ IsFiniteSet({j \in keep : j < i} \cup {i})
             /\ Cardinality({j \in keep : j < i} \cup {i}) = Rank(keep, i) + 1
  <2>1. IsFiniteSet({j \in keep : j < i})
    BY FS_Subset
  <2>2. Rank(keep, i) \in Nat
    BY <2>1, FS_CardinalityType DEF Rank
  <2>3. i \notin {j \in keep : j < i}
    OBVIOUS
  <2> QED BY <2>1, <2>2, <2>3, FS_AddElement DEF Rank
<1>3. ASSUME NEW i \in keep PROVE Rank(keep, i) \in 0 .. Cardinality(keep) - 1
  <2>1. {j \in keep : j < i} \cup {i} \in SUBSET keep
    OBVIOUS
  <2>2. Cardinality({j \in keep : j < i} \cup {i}) <= Cardinality(keep)
    BY <2>1, FS_Subset
  <2>3. Rank(keep, i) \in Nat /\ Rank(keep, i) + 1 <= Cardinality(keep)
    BY <1>2, <2>2
  <2> QED BY <1>1, <2>3
<1>4. ASSUME NEW i \in keep, NEW j \in keep, i < j PROVE Rank(keep, i) < Rank(keep, j)
  <2>1. {k \in keep : k < i} \cup {i} \in SUBSET {k \in keep : k < j}
    <3>1. \A k \in keep : k < i => k < j
      BY <1>4
    <3> QED BY <1>4, <3>1
  <2>2. IsFiniteSet({k \in keep : k < j})
    BY <1>2
  <2>3. Cardinality({k \in keep : k < i} \cup {i}) <= Cardinality({k \in keep : k < j})
    BY <2>1, <2>2, FS_Subset
  <2>4. Rank(keep, i) + 1 <= Rank(keep, j)
    BY <1>2, <2>3 DEF Rank
  <2>5. Rank(keep, i) \in Nat /\ Rank(keep, j) \in Nat
    BY <1>2
  <2> QED BY <2>4, <2>5
<1>5. ASSUME NEW k \in 0 .. Cardinality(keep) - 1 PROVE \E i \in keep : Rank(keep, i) = k
  <2> DEFINE f == [i \in keep |-> Rank(keep, i)]
             T == 0 .. Cardinality(keep) - 1
  <2>1. f \in [keep -> T]
    BY <1>3
  <2>2. \A i, j \in keep : f[i] = f[j] => i = j
    <3> SUFFICES ASSUME NEW i \in keep, NEW j \in keep, Rank(keep, i) = Rank(keep, j) PROVE i = j
      OBVIOUS
    <3>1. i < j \/ j < i \/ i = j
      OBVIOUS
    <3>2. Rank(keep, i) \in Nat
      BY <1>2
    <3> QED BY <1>4, <3>1, <3>2
  <2>3. f \in Injection(keep, T)
    BY <2>1, <2>2 DEF Injection, IsInjective
  <2>4. IsFiniteSet(T) /\ Cardinality(T) = Cardinality(keep)
    BY <1>1, FS_Interval
  <2>5. f \in Surjection(keep, T)
    BY <2>3, <2>4, FS_Injection
  <2>6. \E i \in keep : f[i] = k
    BY <2>5 DEF Surjection
  <2> QED BY <2>6
<1> QED BY <1>1, <1>3, <1>4, <1>5

\* What is kept of a list are its members at the kept positions, in their order.
LEMMA KeptFacts ==
    ASSUME NEW X, NEW ps \in Seq(X), NEW keep \in SUBSET DOMAIN ps
    PROVE  /\ Kept(ps, keep) \in Seq(X)
           /\ \A k \in DOMAIN Kept(ps, keep) :
                 Nth(keep, k) \in keep /\ Kept(ps, keep)[k] = ps[Nth(keep, k)]
           /\ \A k, l \in DOMAIN Kept(ps, keep) : Nth(keep, k) <= Nth(keep, l) => k <= l
           /\ \A i \in keep : \E k \in DOMAIN Kept(ps, keep) : Nth(keep, k) = i
<1>1. keep \in SUBSET Nat /\ IsFiniteSet(keep)
  <2>1. DOMAIN ps = 1 .. Len(ps) /\ Len(ps) \in Nat
    OBVIOUS
  <2>2. IsFiniteSet(1 .. Len(ps))
    BY <2>1, FS_Interval
  <2> QED BY <2>1, <2>2, FS_Subset
<1> DEFINE n == Cardinality(keep)
<1>2. n \in Nat
  BY <1>1, Ranks
<1>3. ASSUME NEW k \in 1 .. n PROVE Nth(keep, k) \in keep /\ Rank(keep, Nth(keep, k)) = k - 1
  <2>1. k - 1 \in 0 .. n - 1
    BY <1>2
  <2>2. \E i \in keep : Rank(keep, i) = k - 1
    BY <1>1, <2>1, Ranks
  <2> QED BY <2>2 DEF Nth
<1>4. DOMAIN Kept(ps, keep) = 1 .. n /\ \A k \in 1 .. n : Kept(ps, keep)[k] = ps[Nth(keep, k)]
  BY DEF Kept
<1>5. Kept(ps, keep) \in Seq(X)
  <2>1. \A k \in 1 .. n : ps[Nth(keep, k)] \in X
    BY <1>3
  <2>2. \A k \in 1 .. n : Kept(ps, keep)[k] \in X
    BY <1>4, <2>1
  <2>3. Kept(ps, keep) = [k \in 1 .. n |-> Kept(ps, keep)[k]]
    BY DEF Kept
  <2> QED BY <1>2, <2>2, <2>3
<1>6. ASSUME NEW k \in 1 .. n, NEW l \in 1 .. n, Nth(keep, k) <= Nth(keep, l) PROVE k <= l
  <2>1. Rank(keep, Nth(keep, k)) = k - 1 /\ Rank(keep, Nth(keep, l)) = l - 1
    BY <1>3
  <2>2. Nth(keep, k) \in Nat /\ Nth(keep, l) \in Nat
    BY <1>1, <1>3
  <2>3. CASE Nth(keep, k) = Nth(keep, l)
    <3>1. k - 1 = l - 1
      BY <2>1, <2>3, Zenon
    <3> QED BY <1>2, <3>1
  <2>4. CASE Nth(keep, k) < Nth(keep, l)
    <3>1. Rank(keep, Nth(keep, k)) < Rank(keep, Nth(keep, l))
      BY <1>1, <1>3, <2>4, Ranks
    <3> QED BY <1>2, <2>1, <3>1
  <2> QED BY <1>6, <2>2, <2>3, <2>4
<1>7. ASSUME NEW i \in keep PROVE \E k \in 1 .. n : Nth(keep, k) = i
  <2>1. Rank(keep, i) \in 0 .. n - 1
    BY <1>1, Ranks
  <2>2. PICK k \in 1 .. n : k = Rank(keep, i) + 1
    BY <1>2, <2>1
  <2>3. Rank(keep, Nth(keep, k)) = Rank(keep, i)
    <3>1. Rank(keep, Nth(keep, k)) = k - 1
      BY <1>3
    <3>2. k - 1 = Rank(keep, i)
      BY <2>1, <2>2
    <3> QED BY <3>1, <3>2
  <2>4. Nth(keep, k) \in Nat /\ i \in Nat
    BY <1>1, <1>3
  <2>5. ~(Nth(keep, k) < i) /\ ~(i < Nth(keep, k))
    <3>1. Rank(keep, i) \in Nat
      BY <2>1
    <3>2. Nth(keep, k) < i => Rank(keep, Nth(keep, k)) < Rank(keep, i)
      BY <1>1, <1>3, Ranks
    <3>3. i < Nth(keep, k) => Rank(keep, i) < Rank(keep, Nth(keep, k))
      BY <1>1, <1>3, Ranks
    <3> QED BY <2>3, <3>1, <3>2, <3>3
  <2>6. Nth(keep, k) = i
    BY <2>4, <2>5
  <2> QED BY <2>6
<1> QED BY <1>3, <1>4, <1>5, <1>6, <1>7

\* A set of positions has a first one.
LEMMA FirstPosition ==
    ASSUME NEW X, NEW ps \in Seq(X), NEW keep \in SUBSET DOMAIN ps, keep # {}
    PROVE  \E i \in keep : \A j \in keep : i <= j
<1>1. keep \in SUBSET Nat /\ IsFiniteSet(keep)
  <2>1. DOMAIN ps = 1 .. Len(ps) /\ Len(ps) \in Nat
    OBVIOUS
  <2>2. IsFiniteSet(1 .. Len(ps))
    BY <2>1, FS_Interval
  <2> QED BY <2>1, <2>2, FS_Subset
<1>2. Cardinality(keep) \in Nat /\ \A i \in keep : Rank(keep, i) \in 0 .. Cardinality(keep) - 1
  BY <1>1, Ranks
<1>3. 0 \in 0 .. Cardinality(keep) - 1
  BY <1>2
<1>4. PICK i \in keep : Rank(keep, i) = 0
  BY <1>1, <1>3, Ranks
<1>5. \A j \in keep : ~(j < i)
  <2> SUFFICES ASSUME NEW j \in keep, j < i PROVE FALSE
    OBVIOUS
  <2>1. Rank(keep, j) < Rank(keep, i)
    BY <1>1, Ranks
  <2> QED BY <1>2, <1>4, <2>1
<1> QED BY <1>1, <1>5
-----------------------------------------------------------------------------
(* The owner of a day.                                                       *)

\* Period i of the list covers the day, and no period before it does.
First(ps, d, i) ==
    /\ i \in DOMAIN ps /\ ps[i].from <= d /\ d <= ps[i].to
    /\ \A j \in DOMAIN ps : ps[j].from <= d /\ d <= ps[j].to => i <= j

\* owner_on: the resource of the first period that covers the day, if there is one.
LEMMA FirstOwns ==
    ASSUME NEW ps \in Seq(Periods), NEW d, NEW i, First(ps, d, i)
    PROVE  OwnerOn(ps, d) = ps[i].resource
<1> DEFINE cover == {j \in DOMAIN ps : ps[j].from <= d /\ d <= ps[j].to}
<1>1. i \in cover /\ \A j \in cover : i <= j
  BY DEF First
<1>2. cover \subseteq Nat
  OBVIOUS
<1>3. OwnerOn(ps, d) = IF cover = {} THEN "nobody"
                       ELSE ps[CHOOSE k \in cover : \A j \in cover : k <= j].resource
  BY DEF OwnerOn
<1>4. \A k \in cover : (\A j \in cover : k <= j) => k = i
  BY <1>1, <1>2
<1> HIDE DEF cover
<1>5. (CHOOSE k \in cover : \A j \in cover : k <= j) = i
  BY <1>1, <1>4
<1> QED BY <1>1, <1>3, <1>5

\* A day that has an owner has a first period.
LEMMA OwnedHasFirst ==
    ASSUME NEW ps \in Seq(Periods), NEW d, OwnerOn(ps, d) # "nobody"
    PROVE  \E i : First(ps, d, i) /\ OwnerOn(ps, d) = ps[i].resource
<1> DEFINE cover == {j \in DOMAIN ps : ps[j].from <= d /\ d <= ps[j].to}
<1>1. cover # {}
  BY DEF OwnerOn
<1>2. PICK i \in cover : \A j \in cover : i <= j
  BY <1>1, FirstPosition
<1>3. First(ps, d, i)
  BY <1>2 DEF First
<1> QED BY <1>3, FirstOwns

\* What BillingParameters says, one by one.
LEMMA Settings ==
    ASSUME BillingParameters
    PROVE  /\ DaysPerMonth \in Nat /\ DaysPerMonth >= 1 /\ Retention \in Nat /\ Retention >= 1
           /\ MaxDay \in Nat /\ MaxDay >= 1
           /\ "shared" \notin Resources /\ "none" \notin Resources /\ "nobody" \notin Resources
BY DEF BillingParameters

\* The periods of a record.
LEMMA PeriodFields ==
    ASSUME BillingParameters, NEW ps \in Seq(Periods), NEW i \in DOMAIN ps
    PROVE  /\ ps[i] \in Periods /\ ps[i].resource \in Resources
           /\ ps[i].from \in 0 .. MaxDay /\ ps[i].to \in 1 .. Open
           /\ ps[i].from \in Int /\ ps[i].to \in Int
<1>1. ps[i] \in Periods
  OBVIOUS
<1>2. ps[i].resource \in Resources /\ ps[i].from \in 0 .. MaxDay /\ ps[i].to \in 1 .. Open
  BY <1>1 DEF Periods
<1> QED BY <1>1, <1>2, Settings DEF Open

\* A record of periods is never the mark of a user the proxy does not have.
LEMMA RecordsDiffer ==
    ASSUME BillingParameters, NEW ps \in Seq(Periods)
    PROVE  ps # NoRecord
<1> SUFFICES ASSUME ps = NoRecord PROVE FALSE
  OBVIOUS
<1>1. 1 \in DOMAIN ps /\ ps[1].resource = "none"
  BY DEF NoRecord
<1> QED BY <1>1, PeriodFields, Settings

\* trim keeps the owner of every day from the cutoff on.
LEMMA TrimOwner ==
    ASSUME BillingParameters, NEW ps \in Seq(Periods), NEW c \in Int, NEW d \in Int, d >= c,
           OwnerOn(ps, d) # "nobody"
    PROVE  OwnerOn(Trim(ps, c), d) = OwnerOn(ps, d) /\ Trim(ps, c) # <<>>
<1> DEFINE keep == {i \in DOMAIN ps : ps[i].to >= c}
<1>0. Trim(ps, c) = Kept(ps, keep)
  BY DEF Trim
<1>1. PICK i : First(ps, d, i) /\ OwnerOn(ps, d) = ps[i].resource
  BY OwnedHasFirst
<1>2. i \in DOMAIN ps /\ ps[i].from <= d /\ d <= ps[i].to
  BY <1>1 DEF First
<1>3. i \in keep
  <2>1. ps[i].to \in Int
    BY <1>2, PeriodFields
  <2> QED BY <1>2, <2>1
<1>4. keep \in SUBSET DOMAIN ps
  OBVIOUS
<1> HIDE DEF keep
<1> DEFINE ts == Kept(ps, keep)
<1>6. ts \in Seq(Periods)
  BY <1>4, KeptFacts
<1>7. /\ \A k \in DOMAIN ts : Nth(keep, k) \in keep /\ ts[k] = ps[Nth(keep, k)]
      /\ \A k, l \in DOMAIN ts : Nth(keep, k) <= Nth(keep, l) => k <= l
      /\ \A j \in keep : \E k \in DOMAIN ts : Nth(keep, k) = j
  BY <1>4, KeptFacts
<1> HIDE DEF ts
<1>8. PICK k \in DOMAIN ts : Nth(keep, k) = i
  BY <1>3, <1>7
<1>9. First(ts, d, k)
  <2>1. ts[k] = ps[i]
    BY <1>7, <1>8
  <2>2. ASSUME NEW l \in DOMAIN ts, ts[l].from <= d, d <= ts[l].to PROVE k <= l
    <3>1. Nth(keep, l) \in DOMAIN ps /\ ts[l] = ps[Nth(keep, l)]
      BY <1>4, <1>7
    <3>2. i <= Nth(keep, l)
      BY <1>1, <2>2, <3>1 DEF First
    <3> QED BY <1>7, <1>8, <3>2
  <2> QED BY <1>2, <2>1, <2>2 DEF First
<1>10. OwnerOn(ts, d) = ps[i].resource
  BY <1>6, <1>7, <1>8, <1>9, FirstOwns
<1> QED BY <1>0, <1>1, <1>8, <1>10 DEF ts

\* What is left of a record is a record.
LEMMA TrimType ==
    ASSUME NEW ps \in Seq(Periods), NEW c
    PROVE  Trim(ps, c) \in Seq(Periods)
BY KeptFacts DEF Trim

\* claim appends a period, so a day that has an owner keeps it.
LEMMA ClaimOwner ==
    ASSUME BillingParameters, NEW ps \in Seq(Periods), NEW r \in Resources, NEW t \in 1 .. MaxDay
    PROVE  /\ Claim(ps, r, t) \in Seq(Periods)
           /\ \A d : OwnerOn(ps, d) # "nobody" => OwnerOn(Claim(ps, r, t), d) = OwnerOn(ps, d)
<1>1. CASE CurrentOwner(ps) = r
  BY <1>1 DEF Claim
<1>2. CASE CurrentOwner(ps) # r
  <2>1. PICK p : p = [resource |-> r, from |-> t, to |-> Open]
    OBVIOUS
  <2>2. p \in Periods
    BY <2>1, Settings DEF Periods, Open
  <2>3. Claim(ps, r, t) = Append(ps, p)
    BY <1>2, <2>1 DEF Claim
  <2>4. PICK qs : qs = Append(ps, p)
    OBVIOUS
  <2>5. /\ DOMAIN qs = 1 .. Len(ps) + 1 /\ DOMAIN ps = 1 .. Len(ps) /\ Len(ps) \in Nat
        /\ \A i \in DOMAIN ps : qs[i] = ps[i]
        /\ qs \in Seq(Periods)
    BY <2>2, <2>4
  <2>6. ASSUME NEW d, OwnerOn(ps, d) # "nobody" PROVE OwnerOn(qs, d) = OwnerOn(ps, d)
    <3>1. PICK i : First(ps, d, i) /\ OwnerOn(ps, d) = ps[i].resource
      BY <2>6, OwnedHasFirst
    <3>2. First(qs, d, i)
      BY <2>5, <3>1 DEF First
    <3>3. i \in DOMAIN ps
      BY <3>1 DEF First
    <3> QED BY <2>5, <3>1, <3>2, <3>3, FirstOwns
  <2> QED BY <2>3, <2>4, <2>5, <2>6
<1> QED BY <1>1, <1>2

\* release ends a period today, so today and the days before keep their owner.
LEMMA ReleaseOwner ==
    ASSUME BillingParameters, NEW ps \in Seq(Periods), NEW r, NEW t \in 1 .. MaxDay
    PROVE  /\ Release(ps, r, t) \in Seq(Periods)
           /\ \A d \in Int : d <= t /\ OwnerOn(ps, d) # "nobody"
                             => OwnerOn(Release(ps, r, t), d) = OwnerOn(ps, d)
<1>0. Open \in Nat /\ t < Open /\ t \in Nat /\ t \in 1 .. Open
  BY Settings DEF Open
<1>1. PICK qs : qs = Release(ps, r, t)
  OBVIOUS
<1>2. /\ qs = [i \in DOMAIN ps |-> qs[i]] /\ DOMAIN qs = DOMAIN ps
      /\ \A i \in DOMAIN ps : qs[i] = IF ps[i].to = Open /\ ps[i].resource = r
                                       THEN [ps[i] EXCEPT !.to = t] ELSE ps[i]
  BY <1>1 DEF Release
<1>3. ASSUME NEW i \in DOMAIN ps
      PROVE  /\ qs[i] \in Periods /\ qs[i].resource = ps[i].resource /\ qs[i].from = ps[i].from
             /\ qs[i].to = ps[i].to \/ (ps[i].to = Open /\ qs[i].to = t)
  <2>1. ps[i] \in Periods
    OBVIOUS
  <2>2. CASE ps[i].to = Open /\ ps[i].resource = r
    <3>1. qs[i] = [ps[i] EXCEPT !.to = t]
      BY <1>2, <2>2
    <3> QED BY <1>0, <2>1, <2>2, <3>1 DEF Periods
  <2>3. CASE ~(ps[i].to = Open /\ ps[i].resource = r)
    BY <1>2, <2>1, <2>3
  <2> QED BY <2>2, <2>3
<1>4. qs \in Seq(Periods)
  <2>1. DOMAIN ps = 1 .. Len(ps) /\ Len(ps) \in Nat
    OBVIOUS
  <2> QED BY <1>2, <1>3, <2>1
<1>5. ASSUME NEW d \in Int, d <= t, OwnerOn(ps, d) # "nobody"
      PROVE  OwnerOn(qs, d) = OwnerOn(ps, d)
  <2>1. PICK i : First(ps, d, i) /\ OwnerOn(ps, d) = ps[i].resource
    BY <1>5, OwnedHasFirst
  <2>2. \A j \in DOMAIN ps : d <= qs[j].to <=> d <= ps[j].to
    <3> SUFFICES ASSUME NEW j \in DOMAIN ps PROVE d <= qs[j].to <=> d <= ps[j].to
      OBVIOUS
    <3> QED BY <1>0, <1>3, <1>5
  <2>3. i \in DOMAIN ps
    BY <2>1 DEF First
  <2>4. First(qs, d, i)
    BY <1>2, <1>3, <2>1, <2>2 DEF First
  <2> QED BY <1>3, <1>4, <2>1, <2>3, <2>4, FirstOwns
<1> QED BY <1>1, <1>4, <1>5

\* The cutoff is the first day of a month not after today's.
LEMMA CutoffNotAfter ==
    ASSUME BillingParameters, NEW d \in Nat, d >= 1
    PROVE  RetentionCutoff(d) \in Int /\ RetentionCutoff(d) <= d
<1>1. PICK m : m = (d - 1) \div DaysPerMonth
  OBVIOUS
<1>2. m \in Int /\ m * DaysPerMonth <= d - 1
  BY <1>1, Settings
<1>3. (m - (Retention - 1)) * DaysPerMonth = m * DaysPerMonth - (Retention - 1) * DaysPerMonth
  BY <1>2, Settings
<1>4. (Retention - 1) * DaysPerMonth >= 0
  BY Settings
<1> QED BY <1>1, <1>2, <1>3, <1>4, Settings DEF RetentionCutoff, Month
-----------------------------------------------------------------------------
(* Records and requests.                                                     *)

\* The requests a report counts.
LEMMA CallFields ==
    ASSUME BillingParameters, BillingTypeOK, NEW q \in calls
    PROVE  /\ q.day \in Nat /\ q.day \in 1 .. MaxDay /\ q.alias \in Alias /\ q.email \in Emails
           /\ owners[q.email] = NoRecord \/ owners[q.email] \in Seq(Periods)
<1>1. q \in [day : 1 .. MaxDay, alias : Alias, email : Emails]
  BY DEF BillingTypeOK
<1>2. q.day \in 1 .. MaxDay /\ q.alias \in Alias /\ q.email \in Emails
  BY <1>1
<1> QED BY <1>2, Settings DEF BillingTypeOK

\* A pair of a request and the resource it was reported for.
LEMMA BilledFields ==
    ASSUME BillingTypeOK, NEW b \in billed
    PROVE  b[1] \in calls /\ b[2] \in Resources
BY DEF BillingTypeOK

\* Every step keeps the types.
LEMMA NextBillingTypeOK == BillingParameters /\ BillingTypeOK /\ [BillingNext]_bvars => BillingTypeOK'
<1> SUFFICES ASSUME BillingParameters, BillingTypeOK, [BillingNext]_bvars PROVE BillingTypeOK'
  OBVIOUS
<1>0. /\ today \in 1 .. MaxDay /\ today \in Nat /\ MaxDay \in Nat
      /\ owners \in [Emails -> Seq(Periods) \cup {NoRecord}]
  BY Settings DEF BillingTypeOK
<1>1. ASSUME owners' \in [Emails -> Seq(Periods) \cup {NoRecord}],
             UNCHANGED <<today, calls, split, billed>>, candidates' \subseteq Emails
      PROVE  BillingTypeOK'
  BY <1>1 DEF BillingTypeOK
<1>2. ASSUME NEW r \in Resources, NEW e \in Emails, EnsureLiteLLMUser(r, e) PROVE BillingTypeOK'
  <2>1. PICK ps : /\ ps = IF owners[e] = NoRecord THEN <<>> ELSE Trim(owners[e], RetentionCutoff(today))
                  /\ owners' = [owners EXCEPT ![e] = Claim(ps, r, today)]
    BY <1>2 DEF EnsureLiteLLMUser
  <2>2. ps \in Seq(Periods)
    BY <1>0, <2>1, TrimType
  <2>3. Claim(ps, r, today) \in Seq(Periods)
    BY <1>0, <2>2, ClaimOwner
  <2>4. owners' \in [Emails -> Seq(Periods) \cup {NoRecord}]
    BY <1>0, <2>1, <2>3
  <2> QED BY <1>1, <1>2, <2>4 DEF EnsureLiteLLMUser, BillingTypeOK
<1>3. ASSUME NEW r \in Resources, NEW e \in Emails, owners[e] # NoRecord
      PROVE  Release(Trim(owners[e], RetentionCutoff(today)), r, today) \in Seq(Periods)
  <2>1. Trim(owners[e], RetentionCutoff(today)) \in Seq(Periods)
    BY <1>0, <1>3, TrimType
  <2> QED BY <1>0, <2>1, ReleaseOwner
<1>4. ASSUME NEW r \in Resources, NEW e \in Emails, ReleaseLiteLLMUser(r, e) PROVE BillingTypeOK'
  <2>1. owners[e] # NoRecord
        /\ owners' = [owners EXCEPT ![e] = Release(Trim(owners[e], RetentionCutoff(today)), r, today)]
    BY <1>4 DEF ReleaseLiteLLMUser
  <2>2. owners' \in [Emails -> Seq(Periods) \cup {NoRecord}]
    BY <1>0, <1>3, <2>1
  <2> QED BY <1>1, <1>4, <2>2 DEF ReleaseLiteLLMUser, BillingTypeOK
<1>5. ASSUME NEW r \in Resources, RemoveAllUsers(r) PROVE BillingTypeOK'
  <2>1. PICK gone \in SUBSET {e \in Emails : owners[e] # NoRecord /\ CurrentOwner(owners[e]) = r} :
            owners' = [e \in Emails |-> IF e \in gone
                         THEN Release(Trim(owners[e], RetentionCutoff(today)), r, today) ELSE owners[e]]
    BY <1>5 DEF RemoveAllUsers
  <2>2. owners' \in [Emails -> Seq(Periods) \cup {NoRecord}]
    BY <1>0, <1>3, <2>1
  <2> QED BY <1>1, <1>5, <2>2 DEF RemoveAllUsers, BillingTypeOK
<1>6. ASSUME NEW r \in Resources, GetUsageReportForPeriod(r) PROVE BillingTypeOK'
  <2>1. ResourceRows(r) \subseteq calls
    BY DEF ResourceRows
  <2> QED BY <1>6, <2>1 DEF GetUsageReportForPeriod, BillingTypeOK
<1>7. ASSUME NEW a \in Alias, NEW e \in Emails, Served(a, e) PROVE BillingTypeOK'
  BY <1>7 DEF Served, BillingTypeOK
<1>8. CASE ManagedUsers
  BY <1>8 DEF ManagedUsers, BillingTypeOK
<1>9. CASE PruneExpiredUsers
  <2>1. owners' \in [Emails -> Seq(Periods) \cup {NoRecord}]
    BY <1>0, <1>9 DEF PruneExpiredUsers
  <2> QED BY <1>1, <1>9, <2>1 DEF PruneExpiredUsers
<1>10. CASE NextDay
  <2>1. today' \in 1 .. MaxDay
    BY <1>0, <1>10 DEF NextDay
  <2>2. calls' \subseteq calls /\ billed' \subseteq calls' \X Resources
    BY <1>10 DEF NextDay, BillingTypeOK
  <2> QED BY <1>10, <2>1, <2>2 DEF NextDay, BillingTypeOK
<1>11. CASE UNCHANGED bvars
  BY <1>11 DEF BillingTypeOK
<1> QED
  BY <1>2, <1>4, <1>5, <1>6, <1>7, <1>8, <1>9, <1>10, <1>11 DEF BillingNext
\* The record of the address keeps the owner of each day that can be reported.
Keeps(e) ==
    \A d \in Nat : /\ d >= RetentionCutoff(today) /\ d <= today
                  /\ owners[e] # NoRecord /\ OwnerOn(owners[e], d) \in Resources
                  => owners'[e] # NoRecord /\ OwnerOn(owners'[e], d) = OwnerOn(owners[e], d)

\* A step that only changes records, and keeps the owners, keeps the invariant.
LEMMA KeepsOwned ==
    ASSUME BillingParameters, BillingTypeOK, OwnedInv,
           UNCHANGED <<today, calls, billed>>, \A e \in Emails : Keeps(e)
    PROVE  OwnedInv'
<1>1. \A q \in calls : q.day >= RetentionCutoff(today) /\ q.day <= today
  BY DEF OwnedInv
<1>2. ASSUME NEW b \in billed
      PROVE  IF b[1].alias = Shared
             THEN /\ owners'[b[1].email] # NoRecord
                  /\ OwnerOn(owners'[b[1].email], b[1].day) = b[2]
             ELSE b[1].alias = b[2]
  <2>1. b[1] \in calls /\ b[2] \in Resources
    BY BilledFields
  <2>2. CASE b[1].alias # Shared
    BY <2>2 DEF OwnedInv
  <2>3. CASE b[1].alias = Shared
    <3>1. PICK e \in Emails, d \in Nat : e = b[1].email /\ d = b[1].day
      BY <2>1, CallFields
    <3>2. owners[e] # NoRecord /\ OwnerOn(owners[e], d) = b[2]
      BY <2>3, <3>1 DEF OwnedInv
    <3>3. d >= RetentionCutoff(today) /\ d <= today
      BY <1>1, <2>1, <3>1
    <3>4. owners'[e] # NoRecord /\ OwnerOn(owners'[e], d) = b[2]
      BY <2>1, <3>2, <3>3 DEF Keeps
    <3> QED BY <2>3, <3>1, <3>4
  <2> QED BY <2>2, <2>3
<1>3. RetentionCutoff(today)' = RetentionCutoff(today)
  BY DEF RetentionCutoff, Month
<1> QED BY <1>1, <1>2, <1>3 DEF OwnedInv

\* Trimmed and released, a record keeps the owners of the days that can be
\* reported.
LEMMA ReleasedKeeps ==
    ASSUME BillingParameters, BillingTypeOK, NEW e \in Emails, owners[e] # NoRecord, NEW r,
           owners'[e] = Release(Trim(owners[e], RetentionCutoff(today)), r, today)
    PROVE  Keeps(e)
<1>1. /\ owners[e] \in Seq(Periods) /\ today \in 1 .. MaxDay /\ today \in Nat /\ today >= 1
      /\ RetentionCutoff(today) \in Int
  BY Settings, CutoffNotAfter DEF BillingTypeOK
<1>2. PICK ps \in Seq(Periods) : ps = Trim(owners[e], RetentionCutoff(today))
  BY <1>1, TrimType
<1>3. Release(ps, r, today) \in Seq(Periods)
  BY <1>1, ReleaseOwner
<1>4. owners'[e] # NoRecord
  BY <1>2, <1>3, RecordsDiffer
<1>5. ASSUME NEW d \in Nat, d >= RetentionCutoff(today), d <= today,
             OwnerOn(owners[e], d) \in Resources
      PROVE  OwnerOn(owners'[e], d) = OwnerOn(owners[e], d)
  <2>1. OwnerOn(owners[e], d) # "nobody"
    BY <1>5, Settings
  <2>2. OwnerOn(ps, d) = OwnerOn(owners[e], d)
    BY <1>1, <1>2, <1>5, <2>1, TrimOwner
  <2>3. OwnerOn(Release(ps, r, today), d) = OwnerOn(ps, d)
    BY <1>1, <1>5, <2>1, <2>2, ReleaseOwner
  <2> QED BY <1>2, <2>2, <2>3
<1> QED BY <1>4, <1>5 DEF Keeps

\* Trimmed and claimed, it keeps them too.
LEMMA ClaimedKeeps ==
    ASSUME BillingParameters, BillingTypeOK, NEW e \in Emails, NEW r \in Resources,
           owners'[e] = Claim(Trim(owners[e], RetentionCutoff(today)), r, today)
    PROVE  Keeps(e)
<1> SUFFICES ASSUME owners[e] # NoRecord PROVE Keeps(e)
  BY DEF Keeps
<1>1. /\ owners[e] \in Seq(Periods) /\ today \in 1 .. MaxDay /\ today \in Nat /\ today >= 1
      /\ RetentionCutoff(today) \in Int
  BY Settings, CutoffNotAfter DEF BillingTypeOK
<1>2. PICK ps \in Seq(Periods) : ps = Trim(owners[e], RetentionCutoff(today))
  BY <1>1, TrimType
<1>3. Claim(ps, r, today) \in Seq(Periods)
  BY <1>1, ClaimOwner
<1>4. owners'[e] # NoRecord
  BY <1>2, <1>3, RecordsDiffer
<1>5. ASSUME NEW d \in Nat, d >= RetentionCutoff(today), d <= today,
             OwnerOn(owners[e], d) \in Resources
      PROVE  OwnerOn(owners'[e], d) = OwnerOn(owners[e], d)
  <2>1. OwnerOn(owners[e], d) # "nobody"
    BY <1>5, Settings
  <2>2. OwnerOn(ps, d) = OwnerOn(owners[e], d)
    BY <1>1, <1>2, <1>5, <2>1, TrimOwner
  <2>3. OwnerOn(Claim(ps, r, today), d) = OwnerOn(ps, d)
    BY <1>1, <2>1, <2>2, ClaimOwner
  <2> QED BY <1>2, <2>2, <2>3
<1> QED BY <1>4, <1>5 DEF Keeps

\* An expired record owns no day that can be reported.
LEMMA ExpiredKeeps ==
    ASSUME BillingParameters, BillingTypeOK, NEW e \in Emails,
           Expired(owners[e], RetentionCutoff(today))
    PROVE  Keeps(e)
<1>1. /\ owners[e] \in Seq(Periods) /\ today \in Nat /\ today >= 1
      /\ RetentionCutoff(today) \in Int
  BY Settings, CutoffNotAfter DEF BillingTypeOK, Expired
<1>2. ASSUME NEW d \in Nat, d >= RetentionCutoff(today), OwnerOn(owners[e], d) \in Resources
      PROVE  FALSE
  <2>1. OwnerOn(owners[e], d) # "nobody"
    BY <1>2, Settings
  <2>2. Trim(owners[e], RetentionCutoff(today)) # <<>>
    BY <1>1, <1>2, <2>1, TrimOwner
  <2> QED BY <2>2 DEF Expired
<1> QED BY <1>2 DEF Keeps

\* A report counts a request on a minted key for the key's resource, and one on
\* the shared key for the owner of its day.
LEMMA RowsOwned ==
    ASSUME BillingParameters, BillingTypeOK, NEW r \in Resources, NEW q \in ResourceRows(r)
    PROVE  /\ q \in calls
           /\ IF q.alias = Shared
              THEN owners[q.email] # NoRecord /\ OwnerOn(owners[q.email], q.day) = r
              ELSE q.alias = r
<1>1. q \in calls
  BY DEF ResourceRows
<1>2. CASE q.alias = r
  BY <1>1, <1>2, Settings DEF Shared
<1>3. CASE owners[q.email] # NoRecord /\ OwnerOn(owners[q.email], q.day) = r /\ ~BilledByAlias(q)
  <2>1. q.alias = Shared
    BY <1>1, <1>3 DEF BilledByAlias
  <2> QED BY <1>1, <1>3, <2>1
<1> QED BY <1>2, <1>3 DEF ResourceRows

\* Every step keeps the invariant.
LEMMA NextOwnedInv ==
    BillingParameters /\ BillingTypeOK /\ OwnedInv /\ [BillingNext]_bvars => OwnedInv'
<1> SUFFICES ASSUME BillingParameters, BillingTypeOK, OwnedInv, [BillingNext]_bvars PROVE OwnedInv'
  OBVIOUS
<1>0. owners \in [Emails -> Seq(Periods) \cup {NoRecord}]
  BY DEF BillingTypeOK
<1>1. ASSUME NEW e \in Emails, owners'[e] = owners[e] PROVE Keeps(e)
  BY <1>1 DEF Keeps
<1>2. ASSUME NEW r \in Resources, NEW e \in Emails, EnsureLiteLLMUser(r, e) PROVE OwnedInv'
  <2>1. UNCHANGED <<today, calls, billed>>
    BY <1>2 DEF EnsureLiteLLMUser
  <2>2. ASSUME NEW f \in Emails, f # e PROVE Keeps(f)
    BY <1>0, <1>1, <1>2, <2>2 DEF EnsureLiteLLMUser
  <2>3. Keeps(e)
    <3>1. CASE owners[e] = NoRecord
      BY <3>1 DEF Keeps
    <3>2. CASE owners[e] # NoRecord
      <4>1. owners'[e] = Claim(Trim(owners[e], RetentionCutoff(today)), r, today)
        BY <1>0, <1>2, <3>2 DEF EnsureLiteLLMUser
      <4> QED BY <4>1, ClaimedKeeps
    <3> QED BY <3>1, <3>2
  <2> QED BY <2>1, <2>2, <2>3, KeepsOwned
<1>3. ASSUME NEW r \in Resources, NEW e \in Emails, ReleaseLiteLLMUser(r, e) PROVE OwnedInv'
  <2>1. UNCHANGED <<today, calls, billed>> /\ owners[e] # NoRecord
    BY <1>3 DEF ReleaseLiteLLMUser
  <2>2. ASSUME NEW f \in Emails, f # e PROVE Keeps(f)
    BY <1>0, <1>1, <1>3, <2>2 DEF ReleaseLiteLLMUser
  <2>3. owners'[e] = Release(Trim(owners[e], RetentionCutoff(today)), r, today)
    BY <1>0, <1>3 DEF ReleaseLiteLLMUser
  <2>4. Keeps(e)
    BY <2>1, <2>3, ReleasedKeeps
  <2> QED BY <2>1, <2>2, <2>4, KeepsOwned
<1>4. ASSUME NEW r \in Resources, RemoveAllUsers(r) PROVE OwnedInv'
  <2>1. UNCHANGED <<today, calls, billed>>
    BY <1>4 DEF RemoveAllUsers
  <2>2. PICK gone \in SUBSET {e \in Emails : owners[e] # NoRecord /\ CurrentOwner(owners[e]) = r} :
            owners' = [e \in Emails |-> IF e \in gone
                         THEN Release(Trim(owners[e], RetentionCutoff(today)), r, today) ELSE owners[e]]
    BY <1>4 DEF RemoveAllUsers
  <2>3. ASSUME NEW e \in Emails PROVE Keeps(e)
    <3>1. CASE e \in gone
      BY <2>2, <3>1, ReleasedKeeps
    <3>2. CASE e \notin gone
      BY <1>1, <2>2, <3>2
    <3> QED BY <3>1, <3>2
  <2> QED BY <2>1, <2>3, KeepsOwned
<1>5. ASSUME NEW r \in Resources, GetUsageReportForPeriod(r) PROVE OwnedInv'
  <2>1. billed' = billed \cup (ResourceRows(r) \X {r}) /\ UNCHANGED <<today, owners, calls>>
    BY <1>5 DEF GetUsageReportForPeriod
  <2>2. ASSUME NEW b \in billed'
        PROVE  IF b[1].alias = Shared
               THEN /\ owners[b[1].email] # NoRecord
                    /\ OwnerOn(owners[b[1].email], b[1].day) = b[2]
               ELSE b[1].alias = b[2]
    <3>1. CASE b \in billed
      BY <3>1 DEF OwnedInv
    <3>2. CASE b \in ResourceRows(r) \X {r}
      <4>1. b[1] \in ResourceRows(r) /\ b[2] = r
        BY <3>2
      <4> QED BY <4>1, RowsOwned
    <3> QED BY <2>1, <3>1, <3>2
  <2>3. RetentionCutoff(today)' = RetentionCutoff(today)
    BY <2>1 DEF RetentionCutoff, Month
  <2> QED BY <2>1, <2>2, <2>3 DEF OwnedInv
<1>6. ASSUME NEW a \in Alias, NEW e \in Emails, Served(a, e) PROVE OwnedInv'
  <2>1. /\ calls' = calls \cup {[day |-> today, alias |-> a, email |-> e]}
        /\ UNCHANGED <<today, owners, billed>>
    BY <1>6 DEF Served
  <2>2. today \in Nat /\ RetentionCutoff(today) <= today
    BY Settings, CutoffNotAfter DEF BillingTypeOK
  <2>3. \A q \in calls' : q.day >= RetentionCutoff(today) /\ q.day <= today
    BY <2>1, <2>2 DEF OwnedInv
  <2>4. RetentionCutoff(today)' = RetentionCutoff(today)
    BY <2>1 DEF RetentionCutoff, Month
  <2> QED BY <2>1, <2>3, <2>4 DEF OwnedInv
<1>7. CASE ManagedUsers
  BY <1>1, <1>7, KeepsOwned DEF ManagedUsers
<1>8. CASE PruneExpiredUsers
  <2>1. UNCHANGED <<today, calls, billed>>
    BY <1>8 DEF PruneExpiredUsers
  <2>2. ASSUME NEW e \in Emails PROVE Keeps(e)
    <3>1. CASE Expired(owners[e], RetentionCutoff(today))
      BY <3>1, ExpiredKeeps
    <3>2. CASE ~Expired(owners[e], RetentionCutoff(today))
      BY <1>1, <1>8, <3>2 DEF PruneExpiredUsers
    <3> QED BY <3>1, <3>2
  <2> QED BY <2>1, <2>2, KeepsOwned
<1>9. CASE NextDay
  <2>1. /\ today' = today + 1 /\ calls' = {q \in calls : q.day >= RetentionCutoff(today')}
        /\ billed' \subseteq billed /\ UNCHANGED owners
    BY <1>9 DEF NextDay
  <2>2. ASSUME NEW q \in calls' PROVE q.day >= RetentionCutoff(today') /\ q.day <= today'
    <3>1. q \in calls /\ q.day >= RetentionCutoff(today')
      BY <2>1
    <3>2. q.day \in Nat /\ q.day <= today /\ today \in Nat
      BY <3>1, CallFields, Settings DEF OwnedInv, BillingTypeOK
    <3> QED BY <2>1, <3>1, <3>2
  <2>3. RetentionCutoff(today') = RetentionCutoff(today)'
    BY DEF RetentionCutoff, Month
  <2> QED BY <2>1, <2>2, <2>3 DEF OwnedInv
<1>10. CASE UNCHANGED bvars
  BY <1>1, <1>10, KeepsOwned
<1> QED
  BY <1>2, <1>3, <1>4, <1>5, <1>6, <1>7, <1>8, <1>9, <1>10 DEF BillingNext

-----------------------------------------------------------------------------
(* What bills once stays billed.                                             *)

\* The agent starts with no report made.
LEMMA InitBilling == BillingParameters /\ BillingInit => BillingTypeOK /\ OwnedInv
<1> SUFFICES ASSUME BillingParameters, BillingInit PROVE BillingTypeOK /\ OwnedInv
  OBVIOUS
<1>1. PICK r \in Resources :
         owners \in [Emails -> {NoRecord, <<>>, <<[resource |-> r, from |-> Always, to |-> Open]>>}]
  BY DEF BillingInit
<1>2. PICK p : p = [resource |-> r, from |-> Always, to |-> Open]
  OBVIOUS
<1>3. p \in Periods
  BY <1>2, Settings DEF Periods, Open, Always
<1>4. <<p>> \in Seq(Periods) /\ <<>> \in Seq(Periods)
  BY <1>3
<1>5. owners \in [Emails -> Seq(Periods) \cup {NoRecord}]
  BY <1>1, <1>2, <1>4
<1> QED BY <1>5, Settings DEF BillingInit, BillingTypeOK, OwnedInv

\* The invariant gives both promises.
LEMMA OwnedGives ==
    ASSUME BillingParameters, BillingTypeOK, OwnedInv
    PROVE  BilledOnce /\ ReportedStays
<1>1. BilledOnce
  BY DEF BilledOnce, OwnedInv
<1>2. ASSUME split, NEW b \in billed PROVE b[1] \in ResourceRows(b[2])
  <2>1. b[1] \in calls
    BY BilledFields
  <2>2. CASE b[1].alias = Shared
    <3>1. ~BilledByAlias(b[1])
      BY <1>2, <2>2 DEF BilledByAlias
    <3> QED BY <2>1, <2>2, <3>1 DEF OwnedInv, ResourceRows
  <2>3. CASE b[1].alias # Shared
    BY <2>1, <2>3 DEF OwnedInv, ResourceRows
  <2> QED BY <2>2, <2>3
<1> QED BY <1>1, <1>2 DEF ReportedStays

\* Over all reports ever made a request bills to one resource, and what was
\* reported stays in the report of its month, for any number of people, moves,
\* months and any retention (_resource_rows, owner_on, trim).
THEOREM BilledOnceForGood ==
    BillingParameters => (BillingSpec => [](BilledOnce /\ ReportedStays))
<1> SUFFICES ASSUME BillingParameters PROVE BillingSpec => [](BilledOnce /\ ReportedStays)
  OBVIOUS
<1>1. BillingInit => BillingTypeOK /\ OwnedInv
  BY InitBilling
<1>2. BillingTypeOK /\ OwnedInv /\ [BillingNext]_bvars => (BillingTypeOK /\ OwnedInv)'
  BY NextBillingTypeOK, NextOwnedInv
<1>3. BillingTypeOK /\ OwnedInv => BilledOnce /\ ReportedStays
  BY OwnedGives
<1> QED BY <1>1, <1>2, <1>3, PTL DEF BillingSpec

-----------------------------------------------------------------------------
(* SLURM: the commands of the plugin, on the allocations of one project.      *)

\* The specification of the plugin on the allocations of one project.
SlurmSpec == SlurmInit /\ [][SlurmNext]_svars

\* An allocation has the account of its project, and no deletion is about to drop
\* that one after this step, unless an account came while one was.
Held(c) ==
    \/ crossed' \/ c.accounts = {}
    \/ c.project # "none" /\ \A q \in Allocations : cleanup'[q] # "drop"

\* What every command of a step may leave behind: no refusal, no default that
\* dangles, no allocation without its project account, and no budget forgotten but
\* with its QoS.
Sound ==
    {c \in Clusters : /\ DefaultsHeld(c) /\ ~c.refused
                      /\ Held(c)
                      /\ \A x \in cluster.raw \ c.raw : Managed /\ x \notin cluster.qos \cap c.qos}

\* A deletion that is about to drop the project's account found no allocation, and
\* none has come since.
DropEmpty == (\E q \in Allocations : cleanup[q] = "drop") => cluster.accounts = {} \/ crossed

\* The parts of the inductive invariant.
SlurmInv == SlurmTypeOK /\ NeverRefused /\ ProjectKept /\ DropEmpty

\* A step that runs commands starts from a state that it may also leave behind.
Ready == SlurmInv /\ Held(cluster)

\* So does every step that leaves the clean-up of the project alone.
LEMMA ReadyWhenLeft == SlurmInv /\ UNCHANGED ending => Ready
BY DEF Ready, Held, SlurmInv, SlurmTypeOK, ProjectKept, DropEmpty, ending

\* The state before a command is a sound one to stop at.
LEMMA StartSound == Ready => cluster \in Sound
BY DEF Ready, SlurmInv, SlurmTypeOK, NeverRefused, Sound

\* A state with no more accounts and no project less is held as well.
LEMMA HeldSame ==
    ASSUME NEW c, NEW d, Held(c), d.accounts \subseteq c.accounts,
           c.project # "none" => d.project # "none"
    PROVE  Held(d)
BY DEF Held

\* A sequence of commands that each leave one of some states ends in one of them,
\* wherever it stops.
LEMMA PerformIn ==
    ASSUME Ready, NEW S, cluster \in S, NEW commands \in Seq(S), NEW ok, Perform(commands, ok)
    PROVE  /\ cluster' \in S /\ breaks' \in Nat
           /\ own' \in [Allocations -> Qos \cup {"none"}]
<1>0. own' \in [Allocations -> Qos \cup {"none"}]
  BY DEF Ready, SlurmInv, SlurmTypeOK, Perform
<1>1. PICK last \in 0 .. Len(commands) :
        \/ /\ cluster' = IF last = 0 THEN cluster ELSE commands[last]
           /\ breaks' = breaks
        \/ /\ breaks' = breaks + 1
           /\ \E i \in 0 .. last - 1 : cluster' = IF i = 0 THEN cluster ELSE commands[i]
  BY DEF Perform
<1>2. \A i \in 1 .. Len(commands) : commands[i] \in S
  OBVIOUS
<1>3. breaks \in Nat
  BY DEF Ready, SlurmInv, SlurmTypeOK
<1>4. CASE cluster' = (IF last = 0 THEN cluster ELSE commands[last]) /\ breaks' = breaks
  BY <1>0, <1>2, <1>3, <1>4
<1>5. ASSUME NEW i \in 0 .. last - 1, cluster' = (IF i = 0 THEN cluster ELSE commands[i]),
             breaks' = breaks + 1
      PROVE  cluster' \in S /\ breaks' \in Nat
  <2>1. i = 0 \/ i \in 1 .. Len(commands)
    OBVIOUS
  <2> QED BY <1>2, <1>3, <1>5, <2>1
<1> QED BY <1>0, <1>1, <1>4, <1>5

\* In particular sound commands end in a sound state.
LEMMA PerformSound ==
    ASSUME Ready, NEW commands, commands \in Seq(Sound), NEW ok, Perform(commands, ok)
    PROVE  /\ cluster' \in Sound /\ breaks' \in Nat
           /\ own' \in [Allocations -> Qos \cup {"none"}]
<1>1. PICK S : S = Sound
  OBVIOUS
<1>2. cluster \in S /\ commands \in Seq(S)
  BY <1>1, StartSound
<1> QED BY <1>1, <1>2, PerformIn

\* The fields of a sound state.
LEMMA SoundFields ==
    ASSUME NEW c \in Sound
    PROVE  /\ c \in Clusters
           /\ c.accounts \subseteq Allocations /\ c.project \in Customers \cup {"none"}
           /\ c.assoc \subseteq Allocations \cup {"root"}
           /\ c.default \in Allocations \cup {"root", "none"}
           /\ c.list \in [Allocations -> SUBSET Qos] /\ c.dq \in [Allocations -> Qos \cup {"none"}]
           /\ c.lever \subseteq Allocations /\ c.qos \subseteq Allocations /\ c.raw \subseteq Allocations
           /\ c.limit \in [Allocations -> 0 .. 4] /\ c.refused = FALSE
           /\ c.default \in c.assoc \cup {"none"}
           /\ \A r \in Allocations : c.dq[r] \in c.list[r] \cup {"none"}
           /\ Held(c)
           /\ \A x \in cluster.raw \ c.raw : Managed /\ x \notin cluster.qos \cap c.qos
BY DEF Sound, Clusters, DefaultsHeld

\* A write of the limits changes the limit, and forgets the budget only of a QoS
\* that is new (_write_allocation_limits).
LEMMA WriteSound ==
    ASSUME Ready, NEW c \in Sound, NEW r \in Allocations, NEW v \in 0 .. 4, NEW reset \in BOOLEAN,
           reset => Managed /\ r \notin cluster.qos
    PROVE  WriteAllocationLimits(c, r, v, reset) \in Sound
<1>1. CASE Managed /\ r \notin c.qos
  BY <1>1 DEF WriteAllocationLimits
<1>2. CASE ~(Managed /\ r \notin c.qos)
  <2>1. PICK d : d = [c EXCEPT !.limit[r] = v, !.raw = IF reset THEN c.raw \ {r} ELSE c.raw]
    OBVIOUS
  <2>2. WriteAllocationLimits(c, r, v, reset) = d
    BY <1>2, <2>1, SoundFields DEF WriteAllocationLimits
  <2>3. d \in Clusters
    <3>1. PICK l, w : /\ l = [c.limit EXCEPT ![r] = v] /\ w = (IF reset THEN c.raw \ {r} ELSE c.raw)
                      /\ d = [c EXCEPT !.limit = l, !.raw = w]
      BY <2>1
    <3>2. l \in [Allocations -> 0 .. 4] /\ w \in SUBSET Allocations
      BY <3>1, SoundFields
    <3>3. c \in Clusters
      BY SoundFields
    <3> QED BY <3>1, <3>2, <3>3 DEF Clusters
  <2>4. /\ d.accounts = c.accounts /\ d.project = c.project /\ d.assoc = c.assoc
        /\ d.default = c.default /\ d.list = c.list /\ d.dq = c.dq /\ d.qos = c.qos
        /\ d.refused = c.refused /\ d.raw = IF reset THEN c.raw \ {r} ELSE c.raw
    BY <2>1, SoundFields DEF Clusters
  <2>5. DefaultsHeld(d)
    BY <2>4, SoundFields DEF DefaultsHeld
  <2>6. \A x \in cluster.raw \ d.raw : Managed /\ x \notin cluster.qos \cap d.qos
    BY <2>4, SoundFields
  <2>7. Held(d)
    BY <2>4, HeldSame, SoundFields
  <2> QED BY <2>2, <2>3, <2>4, <2>5, <2>6, <2>7, SoundFields DEF Sound
<1> QED BY <1>1, <1>2

\* slurmdbd refuses no removal: the default account is moved first
\* (delete_association).
LEMMA DeleteAssociationSound ==
    ASSUME Ready, NEW c \in Sound, NEW a \in Allocations
    PROVE  /\ DeleteAssociation(c, a) \in Seq(Sound)
           /\ Len(DeleteAssociation(c, a)) \in {1, 2}
<1>1. ASSUME NEW d \in Sound, ~(d.default = a /\ a \in d.assoc /\ d.assoc # {a})
      PROVE  RemoveAssociation(d, a) \in Sound
  <2>1. CASE a \notin d.assoc
    BY <2>1 DEF RemoveAssociation
  <2>2. CASE a \in d.assoc
    <3>1. PICK s, t : /\ s = d.assoc \ {a} /\ t = (IF d.assoc = {a} THEN "none" ELSE d.default)
      OBVIOUS
    <3>2. PICK e : e = [d EXCEPT !.assoc = s, !.default = t]
      OBVIOUS
    <3>3. RemoveAssociation(d, a) = e
      BY <1>1, <2>2, <3>1, <3>2, SoundFields DEF RemoveAssociation
    <3>4. d \in Clusters /\ s \in SUBSET (Allocations \cup {"root"})
          /\ t \in Allocations \cup {"root", "none"}
      BY <3>1, SoundFields
    <3>5. e \in Clusters
      BY <3>2, <3>4 DEF Clusters
    <3>6. /\ e.accounts = d.accounts /\ e.project = d.project /\ e.assoc = s
          /\ e.default = t /\ e.list = d.list /\ e.dq = d.dq /\ e.qos = d.qos
          /\ e.refused = d.refused /\ e.raw = d.raw
      BY <3>2, <3>4 DEF Clusters
    <3>7. t \in s \cup {"none"}
      BY <1>1, <2>2, <3>1, SoundFields
    <3>8. DefaultsHeld(e)
      BY <3>6, <3>7, SoundFields DEF DefaultsHeld
    <3>9. \A x \in cluster.raw \ e.raw : Managed /\ x \notin cluster.qos \cap e.qos
      BY <3>6, SoundFields
    <3>10. Held(e)
      BY <3>6, HeldSame, SoundFields
    <3> QED BY <3>3, <3>5, <3>6, <3>8, <3>9, <3>10, SoundFields DEF Sound
  <2> QED BY <2>1, <2>2
<1>2. CASE c.assoc \ {a} # {} /\ c.default = a
  <2>1. PICK b \in c.assoc \ {a} : b = CHOOSE x \in c.assoc \ {a} : TRUE
    BY <1>2
  <2>2. PICK d : d = [c EXCEPT !.default = b]
    OBVIOUS
  <2>3. c \in Clusters /\ b \in Allocations \cup {"root", "none"}
    BY <2>1, SoundFields
  <2>4. d \in Clusters
    BY <2>2, <2>3 DEF Clusters
  <2>5. /\ d.accounts = c.accounts /\ d.project = c.project /\ d.assoc = c.assoc
        /\ d.default = b /\ d.list = c.list /\ d.dq = c.dq /\ d.qos = c.qos
        /\ d.refused = c.refused /\ d.raw = c.raw
    BY <2>2, <2>3 DEF Clusters
  <2>6. DefaultsHeld(d)
    BY <2>1, <2>5, SoundFields DEF DefaultsHeld
  <2>7. \A x \in cluster.raw \ d.raw : Managed /\ x \notin cluster.qos \cap d.qos
    BY <2>5, SoundFields
  <2>11. Held(d)
    BY <2>5, HeldSame, SoundFields
  <2>8. d \in Sound
    BY <2>4, <2>5, <2>6, <2>7, <2>11, SoundFields DEF Sound
  <2>9. RemoveAssociation(d, a) \in Sound
    BY <1>1, <2>1, <2>5, <2>8
  <2>10. DeleteAssociation(c, a) = <<d, RemoveAssociation(d, a)>>
    BY <1>2, <2>1, <2>2 DEF DeleteAssociation, SetDefaultAccount
  <2> QED BY <2>8, <2>9, <2>10
<1>3. CASE ~(c.assoc \ {a} # {} /\ c.default = a)
  <2>1. DeleteAssociation(c, a) = <<RemoveAssociation(c, a)>>
    BY <1>3 DEF DeleteAssociation
  <2>2. RemoveAssociation(c, a) \in Sound
    BY <1>1, <1>3
  <2> QED BY <2>1, <2>2
<1> QED BY <1>2, <1>3

\* A state that keeps the user of a sound one is sound when its accounts have
\* their project, its default QoS are held and its budgets are kept.
LEMMA Rebuilt ==
    ASSUME NEW c \in Sound, NEW d \in Clusters,
           d.assoc = c.assoc, d.default = c.default, d.refused = c.refused,
           Held(d),
           \A r \in Allocations : d.dq[r] \in d.list[r] \cup {"none"},
           \A x \in cluster.raw \ d.raw : Managed /\ x \notin cluster.qos \cap d.qos
    PROVE  d \in Sound
<1>1. c.default \in c.assoc \cup {"none"} /\ c.refused = FALSE
  BY SoundFields
<1>2. DefaultsHeld(d)
  BY <1>1 DEF DefaultsHeld
<1> QED BY <1>1, <1>2 DEF Sound

\* The limits Waldur wants are figures of the model.
LEMMA LimitsInRange ==
    ASSUME Ready
    PROVE  CollectResourceLimits \in 0 .. 4 /\ amount * months \in 0 .. 4
<1>1. amount \in {1, 2} /\ months \in {1, 2}
  BY DEF Ready, SlurmInv, SlurmTypeOK
<1>2. amount * months \in {1 * 1, 1 * 2, 2 * 1, 2 * 2}
  BY <1>1
<1>3. amount * months \in {1, 2, 4}
  BY <1>2
<1> QED BY <1>3 DEF CollectResourceLimits

\* The account of the project comes first (_pre_create_resource).
LEMMA ProjectCreatedSound ==
    ASSUME Ready, customer \in Customers
    PROVE  ProjectCreated(cluster) \in Sound
<1>1. PICK d : d = ProjectCreated(cluster)
  OBVIOUS
<1>2. cluster \in Sound /\ cluster \in Clusters
  BY StartSound, SoundFields
<1>3. PICK p \in Customers \cup {"none"} :
          p # "none" /\ p = (IF cluster.project = "none" THEN customer ELSE cluster.project)
  BY <1>2, SoundFields DEF Customers
<1>4. d = [cluster EXCEPT !.project = p]
  BY <1>1, <1>2, <1>3 DEF ProjectCreated, Clusters
<1>5. d \in Clusters /\ d.project = p
  BY <1>2, <1>3, <1>4 DEF Clusters
<1>6. /\ d.assoc = cluster.assoc /\ d.default = cluster.default /\ d.refused = cluster.refused
      /\ d.dq = cluster.dq /\ d.list = cluster.list /\ d.raw = cluster.raw
      /\ d.qos = cluster.qos /\ d.accounts = cluster.accounts
  BY <1>2, <1>4 DEF Clusters
<1>7. \A x \in Allocations : d.dq[x] \in d.list[x] \cup {"none"}
  BY <1>2, <1>6, SoundFields
<1>8. Held(d)
  BY <1>2, <1>3, <1>5, <1>6, HeldSame, SoundFields
<1>9. d \in Sound
  BY <1>2, <1>5, <1>6, <1>7, <1>8, Rebuilt
<1> QED BY <1>1, <1>9

\* The account, its QoS before its limits, while the account of the project is there
\* (create_resource_with_id).
LEMMA CreateSound ==
    ASSUME Ready, NEW r \in Allocations, cluster.project # "none",
           crossed' \/ \A q \in Allocations : cleanup'[q] # "drop"
    PROVE  CreateCommands(r) \in Seq(Sound)
<1>1. PICK c1 : c1 = cluster
  OBVIOUS
<1>2. c1 \in Sound /\ c1.project # "none" /\ c1.qos = cluster.qos /\ c1.raw = cluster.raw
  BY <1>1, StartSound
<1>3. PICK c2 : /\ c2 = AccountCreated(c1, r)
                /\ c2 = [c1 EXCEPT !.accounts = @ \cup {r}, !.list[r] = {"normal"}, !.limit[r] = 0,
                                   !.dq[r] = IF config.mode = "swapDefault" THEN "normal" ELSE "none"]
  BY DEF AccountCreated
<1>4. c2 \in Sound /\ c2.qos = cluster.qos
  <2>1. /\ c1 \in Clusters /\ c1.accounts \subseteq Allocations /\ c1.list \in [Allocations -> SUBSET Qos]
        /\ c1.dq \in [Allocations -> Qos \cup {"none"}] /\ c1.limit \in [Allocations -> 0 .. 4]
        /\ \A x \in Allocations : c1.dq[x] \in c1.list[x] \cup {"none"}
    BY <1>2, SoundFields
  <2>2. PICK h : h = IF config.mode = "swapDefault" THEN "normal" ELSE "none"
    OBVIOUS
  <2>3. PICK s, l, m, q : /\ s = c1.accounts \cup {r} /\ l = [c1.list EXCEPT ![r] = {"normal"}]
                          /\ m = [c1.limit EXCEPT ![r] = 0] /\ q = [c1.dq EXCEPT ![r] = h]
    OBVIOUS
  <2>4. s \in SUBSET Allocations /\ m \in [Allocations -> 0 .. 4]
    BY <2>1, <2>3
  <2>5. l \in [Allocations -> SUBSET Qos]
    BY <2>1, <2>3 DEF Qos, Levels
  <2>6. q \in [Allocations -> Qos \cup {"none"}]
    BY <2>1, <2>2, <2>3 DEF Qos, Levels
  <2>7. c2 = [c1 EXCEPT !.accounts = s, !.list = l, !.limit = m, !.dq = q]
    BY <1>3, <2>1, <2>2, <2>3 DEF Clusters
  <2>8. c2 \in Clusters
    BY <2>1, <2>4, <2>5, <2>6, <2>7 DEF Clusters
  <2>9. /\ c2.assoc = c1.assoc /\ c2.default = c1.default /\ c2.refused = c1.refused
        /\ c2.dq = q /\ c2.list = l /\ c2.raw = c1.raw /\ c2.qos = c1.qos
        /\ c2.project = c1.project
    BY <2>1, <2>7 DEF Clusters
  <2>10. \A x \in Allocations : c2.dq[x] \in c2.list[x] \cup {"none"}
    BY <2>1, <2>2, <2>3, <2>9
  <2>11. Held(c2)
    BY <1>2, <2>9 DEF Held
  <2> QED BY <1>2, <2>8, <2>9, <2>10, <2>11, Rebuilt
<1>5. PICK c3 : c3 = QosCreated(c2, r) /\ c3 = [c2 EXCEPT !.qos = IF Managed THEN @ \cup {r} ELSE @]
  BY DEF QosCreated
<1>6. c3 \in Sound
  <2>1. /\ c2 \in Clusters /\ c2.qos \subseteq Allocations
        /\ \A x \in Allocations : c2.dq[x] \in c2.list[x] \cup {"none"}
        /\ Held(c2)
    BY <1>4, SoundFields
  <2>2. PICK o \in SUBSET Allocations : o = (IF Managed THEN c2.qos \cup {r} ELSE c2.qos)
    BY <2>1
  <2>3. c3 \in Clusters
    BY <1>5, <2>1, <2>2 DEF Clusters
  <2>4. /\ c3.assoc = c2.assoc /\ c3.default = c2.default /\ c3.refused = c2.refused
        /\ c3.dq = c2.dq /\ c3.list = c2.list /\ c3.raw = c2.raw
        /\ c3.accounts = c2.accounts /\ c3.project = c2.project
    BY <1>5, <2>1 DEF Clusters
  <2>5. c2.raw = cluster.raw
    BY <1>2, <1>3, SoundFields DEF Clusters
  <2>6. Held(c3)
    BY <2>1, <2>4, HeldSame
  <2> QED BY <1>4, <2>1, <2>3, <2>4, <2>5, <2>6, Rebuilt
<1>7. PICK c4 : c4 = WriteAllocationLimits(c3, r, CollectResourceLimits, Managed /\ r \notin c2.qos)
  OBVIOUS
<1>8. c4 \in Sound
  <2>1. PICK reset \in BOOLEAN : reset = (Managed /\ r \notin c2.qos)
    BY DEF Managed
  <2>2. c4 = WriteAllocationLimits(c3, r, CollectResourceLimits, reset)
    BY <1>7, <2>1
  <2> QED BY <1>4, <1>6, <2>1, <2>2, LimitsInRange, WriteSound
<1>9. PICK c5 : /\ c5 = QosAttached(c4, r)
                /\ c5 = [c4 EXCEPT !.list[r] = IF Managed THEN @ \cup {r} ELSE @,
                                   !.dq[r] = IF Managed THEN r ELSE @]
  BY DEF QosAttached
<1>10. c5 \in Sound
  <2>1. /\ c4 \in Clusters /\ c4.list \in [Allocations -> SUBSET Qos]
        /\ c4.dq \in [Allocations -> Qos \cup {"none"}]
        /\ \A x \in Allocations : c4.dq[x] \in c4.list[x] \cup {"none"}
        /\ Held(c4)
        /\ \A x \in cluster.raw \ c4.raw : Managed /\ x \notin cluster.qos \cap c4.qos
    BY <1>8, SoundFields
  <2>2. PICK g, h : /\ g = (IF Managed THEN c4.list[r] \cup {r} ELSE c4.list[r])
                    /\ h = (IF Managed THEN r ELSE c4.dq[r])
    OBVIOUS
  <2>3. g \in SUBSET Qos /\ h \in Qos \cup {"none"} /\ h \in g \cup {"none"}
    <3>1. c4.list[r] \in SUBSET Qos /\ c4.dq[r] \in Qos \cup {"none"} /\ r \in Qos
          /\ c4.dq[r] \in c4.list[r] \cup {"none"}
      BY <2>1 DEF Qos
    <3> QED BY <2>2, <3>1
  <2>4. PICK l, q : l = [c4.list EXCEPT ![r] = g] /\ q = [c4.dq EXCEPT ![r] = h]
    OBVIOUS
  <2>5. l \in [Allocations -> SUBSET Qos] /\ q \in [Allocations -> Qos \cup {"none"}]
    BY <2>1, <2>3, <2>4
  <2>6. c5 = [c4 EXCEPT !.list = l, !.dq = q]
    BY <1>9, <2>1, <2>2, <2>4 DEF Clusters
  <2>7. c5 \in Clusters
    BY <2>1, <2>5, <2>6 DEF Clusters
  <2>8. /\ c5.assoc = c4.assoc /\ c5.default = c4.default /\ c5.refused = c4.refused
        /\ c5.dq = q /\ c5.list = l /\ c5.raw = c4.raw /\ c5.qos = c4.qos
        /\ c5.accounts = c4.accounts /\ c5.project = c4.project
    BY <2>1, <2>6 DEF Clusters
  <2>9. \A x \in Allocations : c5.dq[x] \in c5.list[x] \cup {"none"}
    BY <2>1, <2>3, <2>4, <2>8
  <2>10. Held(c5)
    BY <2>1, <2>8, HeldSame
  <2> QED BY <1>8, <2>1, <2>7, <2>8, <2>9, <2>10, Rebuilt
<1>11. CreateCommands(r) = <<c2, c3, c4, c5>>
  BY <1>1, <1>3, <1>5, <1>7, <1>9 DEF CreateCommands
<1> QED BY <1>4, <1>6, <1>8, <1>10, <1>11

\* The users and the QoS go before the account (delete_resource).
LEMMA DeleteSound ==
    ASSUME Ready, NEW r \in Allocations, NEW qos \in BOOLEAN
    PROVE  DeleteCommands(r, qos) \in Seq(Sound)
<1>0. cluster \in Sound
  BY StartSound
<1>1. PICK users : users = DeleteAssociation(cluster, r)
  OBVIOUS
<1>2. users \in Seq(Sound) /\ Len(users) \in {1, 2}
  BY <1>0, <1>1, DeleteAssociationSound
<1>3. PICK c1 \in Sound : c1 = users[Len(users)]
  BY <1>2
<1>4. PICK c2 : c2 = [c1 EXCEPT !.qos = IF Managed /\ qos THEN @ \ {r} ELSE @,
                                !.list[r] = IF Managed /\ qos THEN @ \ {r} ELSE @,
                                !.dq[r] = IF Managed /\ qos /\ @ = r THEN "none" ELSE @,
                                !.raw = IF Managed /\ qos THEN @ \ {r} ELSE @]
  OBVIOUS
<1>5. c2 \in Sound
  <2>1. /\ c1 \in Clusters /\ c1.list \in [Allocations -> SUBSET Qos]
        /\ c1.dq \in [Allocations -> Qos \cup {"none"}]
        /\ c1.qos \subseteq Allocations /\ c1.raw \subseteq Allocations
        /\ \A x \in Allocations : c1.dq[x] \in c1.list[x] \cup {"none"}
        /\ Held(c1)
        /\ \A x \in cluster.raw \ c1.raw : Managed /\ x \notin cluster.qos \cap c1.qos
    BY <1>3, SoundFields
  <2>2. PICK o, g, h, w : /\ o = (IF Managed /\ qos THEN c1.qos \ {r} ELSE c1.qos)
                          /\ g = (IF Managed /\ qos THEN c1.list[r] \ {r} ELSE c1.list[r])
                          /\ h = (IF Managed /\ qos /\ c1.dq[r] = r THEN "none" ELSE c1.dq[r])
                          /\ w = (IF Managed /\ qos THEN c1.raw \ {r} ELSE c1.raw)
    OBVIOUS
  <2>3. o \in SUBSET Allocations /\ w \in SUBSET Allocations
    BY <2>1, <2>2
  <2>4. g \in SUBSET Qos /\ h \in Qos \cup {"none"} /\ h \in g \cup {"none"}
    <3>1. c1.list[r] \in SUBSET Qos /\ c1.dq[r] \in Qos \cup {"none"}
          /\ c1.dq[r] \in c1.list[r] \cup {"none"}
      BY <2>1
    <3> QED BY <2>2, <3>1
  <2>5. \A x \in cluster.raw \ w : Managed /\ x \notin cluster.qos \cap o
    BY <2>1, <2>2
  <2>6. PICK l, q : l = [c1.list EXCEPT ![r] = g] /\ q = [c1.dq EXCEPT ![r] = h]
    OBVIOUS
  <2>7. l \in [Allocations -> SUBSET Qos] /\ q \in [Allocations -> Qos \cup {"none"}]
    BY <2>1, <2>4, <2>6
  <2>8. c2 = [c1 EXCEPT !.qos = o, !.list = l, !.dq = q, !.raw = w]
    BY <1>4, <2>1, <2>2, <2>6 DEF Clusters
  <2>9. c2 \in Clusters
    BY <2>1, <2>3, <2>7, <2>8 DEF Clusters
  <2>10. /\ c2.assoc = c1.assoc /\ c2.default = c1.default /\ c2.refused = c1.refused
         /\ c2.dq = q /\ c2.list = l /\ c2.raw = w /\ c2.qos = o
         /\ c2.accounts = c1.accounts /\ c2.project = c1.project
    BY <2>1, <2>8 DEF Clusters
  <2>11. \A x \in Allocations : c2.dq[x] \in c2.list[x] \cup {"none"}
    BY <2>1, <2>4, <2>6, <2>10
  <2>12. Held(c2)
    BY <2>1, <2>10, HeldSame
  <2> QED BY <1>3, <2>1, <2>5, <2>9, <2>10, <2>11, <2>12, Rebuilt
<1>6. WriteAllocationLimits(c2, r, 0, FALSE) \in Sound
  <2>1. 0 \in 0 .. 4 /\ FALSE \in BOOLEAN
    OBVIOUS
  <2> QED BY <1>5, <2>1, WriteSound
<1>7. PICK zeroed \in Sound : zeroed = WriteAllocationLimits(c2, r, 0, FALSE)
  BY <1>6
<1>8. PICK c3 : c3 = [c2 EXCEPT !.accounts = @ \ {r}, !.lever = @ \ {r}]
  OBVIOUS
<1>9. c3 \in Sound
  <2>1. /\ c2 \in Clusters /\ c2.accounts \subseteq Allocations /\ c2.lever \subseteq Allocations
        /\ \A x \in Allocations : c2.dq[x] \in c2.list[x] \cup {"none"}
        /\ Held(c2)
        /\ \A x \in cluster.raw \ c2.raw : Managed /\ x \notin cluster.qos \cap c2.qos
    BY <1>5, SoundFields
  <2>2. PICK s \in SUBSET Allocations, v \in SUBSET Allocations :
            s = c2.accounts \ {r} /\ v = c2.lever \ {r}
    BY <2>1
  <2>3. c3 \in Clusters
    BY <1>8, <2>1, <2>2 DEF Clusters
  <2>4. /\ c3.assoc = c2.assoc /\ c3.default = c2.default /\ c3.refused = c2.refused
        /\ c3.dq = c2.dq /\ c3.list = c2.list /\ c3.raw = c2.raw /\ c3.qos = c2.qos
        /\ c3.accounts = s /\ c3.project = c2.project
    BY <1>8, <2>1, <2>2 DEF Clusters
  <2>5. Held(c3)
    BY <2>1, <2>2, <2>4, HeldSame
  <2> QED BY <1>5, <2>1, <2>3, <2>4, <2>5, Rebuilt
<1>10. PICK c4 \in Sound : c4 = IF config.soft THEN zeroed ELSE c3
  BY <1>7, <1>9
<1>12. DeleteCommands(r, qos) = users \o <<c2, c4>>
  BY <1>1, <1>3, <1>4, <1>7, <1>8, <1>10 DEF DeleteCommands
<1>13. <<c2, c4>> \in Seq(Sound)
  BY <1>5
<1> QED BY <1>2, <1>12, <1>13

\* A write of the level keeps the default QoS within the list (_swap_account_qos).
LEMMA SwapSound ==
    ASSUME Ready, NEW c \in Sound, NEW r \in Allocations, NEW q \in Levels
    PROVE  SwapAccountQos(c, r, q) \in Sound
<1>0. CASE OwnDefaultOutside(r, {q})
  BY <1>0 DEF SwapAccountQos
<1> SUFFICES ASSUME ~OwnDefaultOutside(r, {q}) PROVE SwapAccountQos(c, r, q) \in Sound
  BY <1>0
<1>1. /\ c \in Clusters /\ c.list \in [Allocations -> SUBSET Qos]
      /\ c.dq \in [Allocations -> Qos \cup {"none"}]
      /\ \A x \in Allocations : c.dq[x] \in c.list[x] \cup {"none"}
      /\ Held(c)
      /\ \A x \in cluster.raw \ c.raw : Managed /\ x \notin cluster.qos \cap c.qos
  BY SoundFields
<1>2. PICK h : h = IF c.dq[r] \in {"none", q} THEN c.dq[r] ELSE q
  OBVIOUS
<1>3. h \in Qos \cup {"none"} /\ h \in {q} \cup {"none"} /\ {q} \in SUBSET Qos
  BY <1>2 DEF Qos
<1>4. PICK l, m : l = [c.list EXCEPT ![r] = {q}] /\ m = [c.dq EXCEPT ![r] = h]
  OBVIOUS
<1>5. l \in [Allocations -> SUBSET Qos] /\ m \in [Allocations -> Qos \cup {"none"}]
  BY <1>1, <1>3, <1>4
<1>6. PICK d : d = [c EXCEPT !.list = l, !.dq = m]
  OBVIOUS
<1>7. SwapAccountQos(c, r, q) = d
  <2>1. SwapAccountQos(c, r, q) = ModifyAccountQos(c, r, {q}, h)
    BY <1>2 DEF SwapAccountQos
  <2>2. ModifyAccountQos(c, r, {q}, h) = [c EXCEPT !.list[r] = {q}, !.dq[r] = h]
    BY <1>3 DEF ModifyAccountQos
  <2> QED BY <1>1, <1>4, <1>6, <2>1, <2>2 DEF Clusters
<1>8. d \in Clusters
  BY <1>1, <1>5, <1>6 DEF Clusters
<1>9. /\ d.assoc = c.assoc /\ d.default = c.default /\ d.refused = c.refused
      /\ d.dq = m /\ d.list = l /\ d.raw = c.raw /\ d.qos = c.qos
      /\ d.accounts = c.accounts /\ d.project = c.project
  BY <1>1, <1>6 DEF Clusters
<1>10. \A x \in Allocations : d.dq[x] \in d.list[x] \cup {"none"}
  BY <1>1, <1>3, <1>4, <1>9
<1>11. Held(d)
  BY <1>1, <1>9, HeldSame
<1>12. d \in Sound
  BY <1>1, <1>8, <1>9, <1>10, <1>11, Rebuilt
<1> QED BY <1>7, <1>12

\* The lever of an allocation is none of what makes a state sound.
LEMMA LeverSound ==
    ASSUME Ready, NEW v \in SUBSET Allocations
    PROVE  [cluster EXCEPT !.lever = v] \in Sound
<1>1. PICK d : d = [cluster EXCEPT !.lever = v]
  OBVIOUS
<1>2. cluster \in Clusters /\ cluster \in Sound
  BY StartSound, SoundFields
<1>3. d \in Clusters
  BY <1>1, <1>2 DEF Clusters
<1>4. /\ d.assoc = cluster.assoc /\ d.default = cluster.default /\ d.refused = cluster.refused
      /\ d.dq = cluster.dq /\ d.list = cluster.list /\ d.raw = cluster.raw /\ d.qos = cluster.qos
      /\ d.accounts = cluster.accounts /\ d.project = cluster.project
  BY <1>1, <1>2 DEF Clusters
<1>5. /\ \A x \in Allocations : d.dq[x] \in d.list[x] \cup {"none"}
      /\ Held(d)
  BY <1>2, <1>4, HeldSame, SoundFields
<1>6. d \in Sound
  BY <1>2, <1>3, <1>4, <1>5, Rebuilt
<1> QED BY <1>1, <1>6

\* The commands of pause, downscale and restore are sound.
LEMMA StatusSound ==
    ASSUME Ready, NEW r \in Allocations, NEW q \in Levels
    PROVE  RestoreCommands(r) \in Seq(Sound) /\ PauseCommands(r, q) \in Seq(Sound)
<1>1. cluster \in Sound /\ cluster.lever \subseteq Allocations /\ "normal" \in Levels
  BY StartSound, SoundFields DEF Levels
<1>2. PICK a \in Sound, b \in Sound : /\ a = [cluster EXCEPT !.lever = @ \ {r}]
                                      /\ b = [cluster EXCEPT !.lever = @ \cup {r}]
  <2>1. PICK v \in SUBSET Allocations, w \in SUBSET Allocations :
           v = cluster.lever \ {r} /\ w = cluster.lever \cup {r}
    BY <1>1
  <2>2. [cluster EXCEPT !.lever = v] \in Sound /\ [cluster EXCEPT !.lever = w] \in Sound
    BY LeverSound
  <2> QED BY <2>1, <2>2
<1>3. PICK c \in Sound, d \in Sound : /\ c = SwapAccountQos(cluster, r, "normal")
                                      /\ d = SwapAccountQos(cluster, r, q)
  BY <1>1, SwapSound
<1>4. <<>> \in Seq(Sound)
  OBVIOUS
<1>5. <<a>> \in Seq(Sound) /\ <<b>> \in Seq(Sound)
  BY <1>2
<1>6. <<c>> \in Seq(Sound) /\ <<d>> \in Seq(Sound)
  BY <1>3
<1>7. RestoreCommands(r) \in {<<>>, <<a>>, <<c>>}
  BY <1>2, <1>3 DEF RestoreCommands
<1>8. PauseCommands(r, q) \in {<<>>, <<b>>, <<d>>}
  BY <1>2, <1>3 DEF PauseCommands
<1> QED BY <1>4, <1>5, <1>6, <1>7, <1>8

\* The customer's account comes before the project's move (sync_resource_project).
LEMMA ProjectSound ==
    ASSUME Ready, NEW p \in Customers
    PROVE  [cluster EXCEPT !.project = p] \in Sound
<1>1. PICK d : d = [cluster EXCEPT !.project = p]
  OBVIOUS
<1>2. cluster \in Clusters /\ cluster \in Sound /\ p # "none" /\ p \in Customers \cup {"none"}
  BY StartSound, SoundFields DEF Customers
<1>3. d \in Clusters
  BY <1>1, <1>2 DEF Clusters
<1>4. /\ d.assoc = cluster.assoc /\ d.default = cluster.default /\ d.refused = cluster.refused
      /\ d.dq = cluster.dq /\ d.list = cluster.list /\ d.raw = cluster.raw /\ d.qos = cluster.qos
      /\ d.accounts = cluster.accounts /\ d.project = p
  BY <1>1, <1>2 DEF Clusters
<1>5. /\ \A x \in Allocations : d.dq[x] \in d.list[x] \cup {"none"}
      /\ Held(d)
  BY <1>2, <1>4, HeldSame, SoundFields
<1>6. d \in Sound
  BY <1>2, <1>3, <1>4, <1>5, Rebuilt
<1> QED BY <1>1, <1>6

\* A user is never left without the default account (add_user).
LEMMA AddUserSound ==
    ASSUME Ready, NEW r \in Allocations
    PROVE  AddUserCommands(r) \in Seq(Sound)
<1>1. ASSUME NEW c \in Sound, NEW s \in SUBSET (Allocations \cup {"root"}), NEW t \in s
      PROVE  [c EXCEPT !.assoc = s, !.default = t] \in Sound
  <2>1. PICK d : d = [c EXCEPT !.assoc = s, !.default = t]
    OBVIOUS
  <2>2. c \in Clusters /\ t \in Allocations \cup {"root", "none"}
    BY <1>1, SoundFields
  <2>3. d \in Clusters
    BY <2>1, <2>2 DEF Clusters
  <2>4. /\ d.assoc = s /\ d.default = t /\ d.refused = c.refused
        /\ d.dq = c.dq /\ d.list = c.list /\ d.raw = c.raw /\ d.qos = c.qos
        /\ d.accounts = c.accounts /\ d.project = c.project
    BY <2>1, <2>2 DEF Clusters
  <2>5. /\ \A x \in Allocations : d.dq[x] \in d.list[x] \cup {"none"}
        /\ Held(d)
        /\ ~d.refused
        /\ \A x \in cluster.raw \ d.raw : Managed /\ x \notin cluster.qos \cap d.qos
    BY <2>4, HeldSame, SoundFields
  <2>6. DefaultsHeld(d)
    BY <2>4, <2>5 DEF DefaultsHeld
  <2> QED BY <2>1, <2>3, <2>5, <2>6 DEF Sound
<1>2. PICK c1 : c1 = [cluster EXCEPT !.assoc = @ \cup {"root"}, !.default = "root"]
  OBVIOUS
<1>3. c1 \in Sound /\ c1.assoc = cluster.assoc \cup {"root"} /\ c1.default = "root"
  <2>1. cluster \in Sound /\ cluster \in Clusters
        /\ cluster.assoc \cup {"root"} \in SUBSET (Allocations \cup {"root"})
    BY StartSound, SoundFields
  <2>2. [cluster EXCEPT !.assoc = cluster.assoc \cup {"root"}, !.default = "root"] \in Sound
    <3>1. PICK s \in SUBSET (Allocations \cup {"root"}) : s = cluster.assoc \cup {"root"}
      BY <2>1
    <3>2. "root" \in s
      BY <3>1
    <3> QED BY <1>1, <2>1, <3>1, <3>2
  <2> QED BY <1>2, <2>1, <2>2 DEF Clusters
<1>4. PICK c2 : c2 = [c1 EXCEPT !.assoc = @ \cup {r},
                                !.default = IF config.mode = "enforced" THEN r ELSE @]
  OBVIOUS
<1>5. c2 \in Sound
  <2>1. PICK s \in SUBSET (Allocations \cup {"root"}) : s = c1.assoc \cup {r}
    BY <1>3, SoundFields
  <2>2. PICK t \in s : t = (IF config.mode = "enforced" THEN r ELSE c1.default)
    BY <1>3, <2>1
  <2>3. [c1 EXCEPT !.assoc = s, !.default = t] \in Sound
    BY <1>1, <1>3
  <2> QED BY <1>4, <2>1, <2>2, <2>3
<1>6. AddUserCommands(r) = <<c1, c2>>
  BY <1>2, <1>4 DEF AddUserCommands
<1> QED BY <1>3, <1>5, <1>6

\* A step that ends in a sound state keeps the invariant and the budgets.
LEMMA SoundStep ==
    ASSUME SlurmInv, cluster' \in Sound, breaks' \in Nat, config' = config,
           order' \in [Allocations -> Lives],
           wanted' \subseteq Allocations, level' \in [Allocations -> Levels], customer' \in Customers,
           amount' \in {1, 2}, months' \in {1, 2}, slurmEdits' \in Nat,
           own' \in [Allocations -> Qos \cup {"none"}],
           cleanup' \in [Allocations -> {"no", "list", "drop"}], crossed' \in BOOLEAN
    PROVE  SlurmInv' /\ BudgetKept
<1>1. /\ cluster' \in Clusters /\ cluster'.default \in cluster'.assoc \cup {"none"}
      /\ \A r \in Allocations : cluster'.dq[r] \in cluster'.list[r] \cup {"none"}
      /\ cluster'.refused = FALSE
      /\ \A x \in cluster.raw \ cluster'.raw : Managed /\ x \notin cluster.qos \cap cluster'.qos
      /\ \/ crossed' \/ cluster'.accounts = {}
         \/ cluster'.project # "none" /\ \A q \in Allocations : cleanup'[q] # "drop"
  <2>1. PICK c : c = cluster'
    OBVIOUS
  <2> QED BY <2>1, SoundFields DEF Held
<1>2. DefaultsHeld(cluster)' /\ NeverRefused'
  BY <1>1 DEF DefaultsHeld, NeverRefused
<1>3. ProjectKept' /\ DropEmpty'
  BY <1>1 DEF ProjectKept, DropEmpty
<1>4. SlurmTypeOK'
  BY <1>1, <1>2 DEF SlurmInv, SlurmTypeOK
<1>5. BudgetKept
  BY <1>1 DEF BudgetKept
<1> QED BY <1>2, <1>3, <1>4, <1>5 DEF SlurmInv

\* Every operation keeps the invariant and the budgets, wherever its commands
\* stop; only a periodic reset forgets one.
LEMMA NextSlurm ==
    ASSUME SlurmInv, SlurmNext
    PROVE  SlurmInv' /\ BudgetKept
<1>0. /\ config \in Configs /\ order \in [Allocations -> Lives]
      /\ wanted \subseteq Allocations /\ level \in [Allocations -> Levels] /\ customer \in Customers
      /\ amount \in {1, 2} /\ months \in {1, 2} /\ slurmEdits \in Nat /\ breaks \in Nat
      /\ own \in [Allocations -> Qos \cup {"none"}]
      /\ cleanup \in [Allocations -> {"no", "list", "drop"}] /\ crossed \in BOOLEAN
      /\ cluster \in Clusters
  BY DEF SlurmInv, SlurmTypeOK
\* the steps that leave the clean-up of the project alone
<1>00. ASSUME UNCHANGED ending PROVE Ready /\ cluster \in Sound
  BY <1>00, ReadyWhenLeft, StartSound
\* the steps that only run sacctmgr
<1>1. ASSUME cluster' \in Sound, breaks' \in Nat, own' \in [Allocations -> Qos \cup {"none"}],
             UNCHANGED <<config, order, intents, ending, slurmEdits>>
      PROVE  SlurmInv' /\ BudgetKept
  BY <1>0, <1>1, SoundStep DEF ending
<1>2. ASSUME NEW r \in Allocations, Order(r) \/ Terminate(r)
      PROVE  SlurmInv' /\ BudgetKept
  <2>1. /\ cluster' = cluster /\ breaks' = breaks /\ own' = own
        /\ UNCHANGED <<config, intents, ending, slurmEdits>>
        /\ order' \in [Allocations -> Lives]
    BY <1>0, <1>2 DEF Order, Terminate, Lives
  <2>2. cluster' \in Sound
    BY <1>00, <2>1
  <2> QED BY <1>0, <2>1, <2>2, SoundStep DEF ending
<1>30. ASSUME NEW r \in Allocations, PreCreateResource(r)
      PROVE  SlurmInv' /\ BudgetKept
  <2>1. PICK ok \in BOOLEAN :
          /\ Perform(<<ProjectCreated(cluster)>>, ok)
          /\ order' = [order EXCEPT ![r] = IF ok THEN "ensured" ELSE "ERRED"]
          /\ UNCHANGED <<config, intents, ending, slurmEdits>>
    BY <1>30 DEF PreCreateResource
  <2>2. Ready
    BY <1>00, <2>1
  <2>3. PICK c \in Sound : c = ProjectCreated(cluster)
    BY <1>0, <2>2, ProjectCreatedSound
  <2>4. PICK commands : commands = <<c>> /\ Perform(commands, ok)
    BY <2>1, <2>3
  <2>5. commands \in Seq(Sound)
    BY <2>4
  <2>6. cluster' \in Sound /\ breaks' \in Nat /\ own' \in [Allocations -> Qos \cup {"none"}]
    BY <2>2, <2>4, <2>5, PerformSound
  <2>7. order' \in [Allocations -> Lives]
    BY <1>0, <2>1 DEF Lives
  <2> QED BY <1>0, <2>1, <2>6, <2>7, SoundStep DEF ending
<1>3. ASSUME NEW r \in Allocations, CreateResourceWithId(r)
      PROVE  SlurmInv' /\ BudgetKept
  <2>0. PICK sound : sound = (r \notin cluster.accounts /\ cluster.project # "none")
    OBVIOUS
  <2>1. PICK ok \in BOOLEAN :
          /\ Perform(IF sound THEN CreateCommands(r) ELSE <<>>, ok)
          /\ order' = [order EXCEPT ![r] = IF ok /\ sound THEN "OK" ELSE "ERRED"]
    BY <1>3, <2>0 DEF CreateResourceWithId
  <2>2. /\ UNCHANGED <<config, intents, slurmEdits>> /\ cleanup' = cleanup
        /\ crossed' = (crossed \/ \E q \in Allocations : cleanup[q] = "drop")
    BY <1>3 DEF CreateResourceWithId
  <2>3. Ready
    BY <2>2 DEF Ready, Held, SlurmInv, SlurmTypeOK, ProjectKept
  <2>4. PICK commands : commands = IF sound THEN CreateCommands(r) ELSE <<>>
    OBVIOUS
  <2>5. commands \in Seq(Sound)
    <3>1. sound => CreateCommands(r) \in Seq(Sound)
      BY <2>0, <2>2, <2>3, CreateSound
    <3>2. <<>> \in Seq(Sound)
      OBVIOUS
    <3> QED BY <2>4, <3>1, <3>2
  <2>6. cluster' \in Sound /\ breaks' \in Nat /\ own' \in [Allocations -> Qos \cup {"none"}]
    BY <2>1, <2>3, <2>4, <2>5, PerformSound
  <2>7. order' \in [Allocations -> Lives]
    BY <1>0, <2>1 DEF Lives
  <2>8. crossed' \in BOOLEAN
    BY <2>2
  <2> QED BY <1>0, <2>2, <2>6, <2>7, <2>8, SoundStep
<1>4. ASSUME NEW r \in Allocations, DeleteResource(r)
      PROVE  SlurmInv' /\ BudgetKept
  <2>0. PICK there : there = (r \in cluster.accounts)
    OBVIOUS
  <2>1. PICK qos \in BOOLEAN, ok \in BOOLEAN :
          /\ Perform(IF there THEN DeleteCommands(r, qos) ELSE <<>>, ok)
          /\ order' = [order EXCEPT ![r] = IF ok /\ (config.soft \/ ~there) THEN "TERMINATED" ELSE @]
          /\ cleanup' = [cleanup EXCEPT ![r] = IF ok /\ ~config.soft /\ there THEN "list" ELSE @]
    <3>1. {TRUE, breaks = MaxBreaks} \subseteq BOOLEAN
      OBVIOUS
    <3> QED BY <1>4, <2>0, <3>1 DEF DeleteResource
  <2>2. UNCHANGED <<config, intents, crossed, slurmEdits>>
    BY <1>4 DEF DeleteResource
  <2>3. /\ cleanup' \in [Allocations -> {"no", "list", "drop"}]
        /\ \A q \in Allocations : cleanup'[q] = "drop" => cleanup[q] = "drop"
    BY <1>0, <2>1
  <2>4. Ready
    BY <2>2, <2>3 DEF Ready, Held, SlurmInv, ProjectKept, DropEmpty
  <2>5. PICK commands : commands = IF there THEN DeleteCommands(r, qos) ELSE <<>>
    OBVIOUS
  <2>6. commands \in Seq(Sound)
    <3>1. DeleteCommands(r, qos) \in Seq(Sound)
      BY <2>4, DeleteSound
    <3>2. <<>> \in Seq(Sound)
      OBVIOUS
    <3> QED BY <2>5, <3>1, <3>2
  <2>7. cluster' \in Sound /\ breaks' \in Nat /\ own' \in [Allocations -> Qos \cup {"none"}]
    BY <2>1, <2>4, <2>5, <2>6, PerformSound
  <2>8. order' \in [Allocations -> Lives]
    BY <1>0, <2>1 DEF Lives
  <2> QED BY <1>0, <2>2, <2>3, <2>7, <2>8, SoundStep
<1>40. ASSUME NEW r \in Allocations, ListProject(r)
      PROVE  SlurmInv' /\ BudgetKept
  <2>1. PICK ok \in BOOLEAN :
          /\ Perform(<<cluster>>, ok)
          /\ cleanup' = [cleanup EXCEPT ![r] = IF ok /\ LastOfProject(cluster) THEN "drop" ELSE "no"]
          /\ order' = [order EXCEPT ![r] = IF ok /\ ~LastOfProject(cluster) THEN "TERMINATED" ELSE @]
    BY <1>40 DEF ListProject
  <2>2. UNCHANGED <<config, intents, crossed, slurmEdits>>
    BY <1>40 DEF ListProject
  <2>3. /\ cleanup' \in [Allocations -> {"no", "list", "drop"}]
        /\ \A q \in Allocations : cleanup'[q] = "drop" => cleanup[q] = "drop" \/ cluster.accounts = {}
    BY <1>0, <2>1 DEF LastOfProject
  <2>4. Ready
    BY <2>2, <2>3 DEF Ready, Held, SlurmInv, ProjectKept, DropEmpty
  <2>5. PICK c \in Sound : c = cluster
    BY <2>4, StartSound
  <2>6. PICK commands : commands = <<c>> /\ Perform(commands, ok)
    BY <2>1, <2>5
  <2>7. commands \in Seq(Sound)
    BY <2>6
  <2>8. cluster' \in Sound /\ breaks' \in Nat /\ own' \in [Allocations -> Qos \cup {"none"}]
    BY <2>4, <2>6, <2>7, PerformSound
  <2>9. order' \in [Allocations -> Lives]
    BY <1>0, <2>1 DEF Lives
  <2> QED BY <1>0, <2>2, <2>3, <2>8, <2>9, SoundStep
<1>41. ASSUME NEW r \in Allocations, DropProject(r)
      PROVE  SlurmInv' /\ BudgetKept
  <2>1. PICK ok \in BOOLEAN :
          /\ Perform(<<[cluster EXCEPT !.project = "none"]>>, ok)
          /\ order' = [order EXCEPT ![r] = IF ok THEN "TERMINATED" ELSE @]
    BY <1>41 DEF DropProject
  <2>2. /\ cleanup[r] = "drop" /\ cleanup' = [cleanup EXCEPT ![r] = "no"]
        /\ UNCHANGED <<config, intents, crossed, slurmEdits>>
    BY <1>41 DEF DropProject
  <2>3. cluster.accounts = {} \/ crossed'
    BY <2>2 DEF SlurmInv, DropEmpty
  <2>4. Ready
    BY <2>3 DEF Ready, Held
  <2>5. PICK c : c = [cluster EXCEPT !.project = "none"]
    OBVIOUS
  <2>6. c \in Sound
    <3>1. cluster \in Sound
      BY <2>4, StartSound
    <3>2. c \in Clusters
      BY <1>0, <2>5 DEF Clusters
    <3>3. /\ c.assoc = cluster.assoc /\ c.default = cluster.default /\ c.refused = cluster.refused
          /\ c.dq = cluster.dq /\ c.list = cluster.list /\ c.raw = cluster.raw
          /\ c.qos = cluster.qos /\ c.accounts = cluster.accounts
      BY <1>0, <2>5 DEF Clusters
    <3>4. \A x \in Allocations : c.dq[x] \in c.list[x] \cup {"none"}
      BY <3>1, <3>3, SoundFields
    <3>5. Held(c)
      BY <2>3, <3>3 DEF Held
    <3> QED BY <3>1, <3>2, <3>3, <3>4, <3>5, Rebuilt
  <2>7. PICK commands : commands = <<c>> /\ Perform(commands, ok)
    BY <2>1, <2>5
  <2>8. commands \in Seq(Sound)
    BY <2>6, <2>7
  <2>9. cluster' \in Sound /\ breaks' \in Nat /\ own' \in [Allocations -> Qos \cup {"none"}]
    BY <2>4, <2>7, <2>8, PerformSound
  <2>10. order' \in [Allocations -> Lives] /\ cleanup' \in [Allocations -> {"no", "list", "drop"}]
    BY <1>0, <2>1, <2>2 DEF Lives
  <2> QED BY <1>0, <2>2, <2>9, <2>10, SoundStep
<1>5. ASSUME NEW r \in Allocations, SyncResourceProject(r)
      PROVE  SlurmInv' /\ BudgetKept
  <2>0. Ready /\ cluster \in Sound /\ UNCHANGED ending
    BY <1>00, <1>5 DEF SyncResourceProject, ending
  <2>1. PICK a \in Sound : a = [cluster EXCEPT !.project = IF @ = "none" THEN customer ELSE @]
    <3>1. PICK p \in Customers : p = IF cluster.project = "none" THEN customer ELSE cluster.project
      BY <2>0, <1>0, SoundFields
    <3> QED BY <2>0, <3>1, ProjectSound
  <2>2. PICK b \in Sound : b = [cluster EXCEPT !.project = customer]
    BY <2>0, <1>0, ProjectSound
  <2>3. PICK ok \in BOOLEAN : Perform(<<a, b>>, ok)
    BY <1>5, <2>1, <2>2 DEF SyncResourceProject, Attempt
  <2>4. <<a, b>> \in Seq(Sound)
    OBVIOUS
  <2> QED BY <2>0, <1>1, <1>5, <2>3, <2>4, PerformSound DEF SyncResourceProject
<1>6. ASSUME NEW r \in Allocations, AddUser(r)
      PROVE  SlurmInv' /\ BudgetKept
  <2>0. Ready /\ cluster \in Sound /\ UNCHANGED ending
    BY <1>00, <1>6 DEF AddUser, ending
  <2>1. PICK ok \in BOOLEAN : Perform(AddUserCommands(r), ok)
    BY <1>6 DEF AddUser, Attempt
  <2> QED BY <2>0, <1>1, <1>6, <2>1, AddUserSound, PerformSound DEF AddUser
<1>7. ASSUME NEW r \in Allocations, RemoveUser(r)
      PROVE  SlurmInv' /\ BudgetKept
  <2>0. Ready /\ cluster \in Sound /\ UNCHANGED ending
    BY <1>00, <1>7 DEF RemoveUser, ending
  <2>1. PICK ok \in BOOLEAN : Perform(DeleteAssociation(cluster, r), ok)
    BY <1>7 DEF RemoveUser, Attempt
  <2> QED BY <2>0, <1>0, <1>1, <1>7, <2>1, DeleteAssociationSound, PerformSound DEF RemoveUser
<1>8. ASSUME NEW r \in Allocations, SyncResourceStatus(r)
      PROVE  SlurmInv' /\ BudgetKept
  <2>0. Ready /\ cluster \in Sound /\ UNCHANGED ending
    BY <1>00, <1>8 DEF SyncResourceStatus, ending
  <2>1. PICK q \in Levels : q = level[r]
    BY <1>0
  <2>2. PICK commands : commands = IF q = "normal" THEN RestoreCommands(r) ELSE PauseCommands(r, q)
    OBVIOUS
  <2>3. commands \in Seq(Sound)
    BY <2>0, <2>2, StatusSound
  <2>4. PICK ok \in BOOLEAN : Perform(commands, ok)
    BY <1>8, <2>1, <2>2 DEF SyncResourceStatus, Attempt
  <2> QED BY <2>0, <1>1, <1>8, <2>3, <2>4, PerformSound DEF SyncResourceStatus
<1>9. ASSUME NEW r \in Allocations, SetResourceLimits(r)
      PROVE  SlurmInv' /\ BudgetKept
  <2>0. Ready /\ cluster \in Sound /\ UNCHANGED ending
    BY <1>00, <1>9 DEF SetResourceLimits, ending
  <2>1. amount' \in {1, 2} /\ months' = months /\ slurmEdits' \in Nat
        /\ UNCHANGED <<config, order, wanted, level, customer>>
    BY <1>0, <1>9 DEF SetResourceLimits
  <2>2. PICK v : v = CollectResourceLimits'
    OBVIOUS
  <2>3. v \in 0 .. 4
    <3>1. v = amount' * months'
      BY <2>2 DEF CollectResourceLimits
    <3>2. v \in {1 * 1, 1 * 2, 2 * 1, 2 * 2}
      BY <1>0, <2>1, <3>1
    <3> QED BY <3>2
  <2>4. PICK c \in Sound : c = WriteAllocationLimits(cluster, r, v, FALSE)
    <3>1. FALSE \in BOOLEAN
      OBVIOUS
    <3> QED BY <2>0, <1>0, <2>3, <3>1, WriteSound
  <2>5. PICK ok \in BOOLEAN : Perform(<<c>>, ok)
    BY <1>9, <2>2, <2>4 DEF SetResourceLimits, Attempt
  <2>6. <<c>> \in Seq(Sound)
    OBVIOUS
  <2>7. cluster' \in Sound /\ breaks' \in Nat /\ own' \in [Allocations -> Qos \cup {"none"}]
    BY <2>0, <2>5, <2>6, PerformSound
  <2> QED BY <2>0, <1>0, <2>1, <2>7, SoundStep DEF ending
<1>10. ASSUME NEW r \in Allocations, SyncResourceEndDate(r)
       PROVE  SlurmInv' /\ BudgetKept
  <2>0. Ready /\ cluster \in Sound /\ UNCHANGED ending
    BY <1>00, <1>10 DEF SyncResourceEndDate, ending
  <2>1. PICK c \in Sound : c = WriteAllocationLimits(cluster, r, CollectResourceLimits, FALSE)
    <3>1. FALSE \in BOOLEAN
      OBVIOUS
    <3> QED BY <2>0, <1>0, <3>1, LimitsInRange, WriteSound
  <2>2. PICK ok \in BOOLEAN : Perform(<<c>>, ok)
    BY <1>10, <2>1 DEF SyncResourceEndDate, Attempt
  <2>3. <<c>> \in Seq(Sound)
    OBVIOUS
  <2> QED BY <2>0, <1>1, <1>10, <2>2, <2>3, PerformSound DEF SyncResourceEndDate
<1>11. ASSUME NEW r \in Allocations, ApplyPeriodicSettings(r)
       PROVE  SlurmInv' /\ BudgetKept
  <2>0. Ready /\ cluster \in Sound /\ UNCHANGED ending
    BY <1>00, <1>11 DEF ApplyPeriodicSettings, ending
  <2>1. PICK reset \in BOOLEAN, ok \in BOOLEAN :
          Perform(<<[cluster EXCEPT !.limit[r] = amount * months],
                    [cluster EXCEPT !.limit[r] = amount * months,
                                    !.raw = IF reset THEN @ \ {r} ELSE @]>>, ok)
    BY <1>11 DEF ApplyPeriodicSettings, Attempt
  <2>2. /\ ~Managed /\ slurmEdits' = slurmEdits + 1
        /\ UNCHANGED <<config, order, intents>>
    BY <1>11 DEF ApplyPeriodicSettings
  <2>3. PICK T : T = {c \in Clusters : /\ c.accounts = cluster.accounts /\ c.project = cluster.project
                                       /\ c.assoc = cluster.assoc /\ c.default = cluster.default
                                       /\ c.list = cluster.list /\ c.dq = cluster.dq
                                       /\ c.refused = cluster.refused}
    OBVIOUS
  <2>4. cluster \in T /\ cluster \in Clusters
    BY <2>0, <1>0, <2>3, SoundFields
  <2>5. ASSUME NEW w \in SUBSET Allocations
        PROVE  [cluster EXCEPT !.limit[r] = amount * months, !.raw = w] \in T
    <3>1. PICK v \in 0 .. 4 : v = amount * months
      BY <2>0, LimitsInRange
    <3>2. PICK m : m = [cluster.limit EXCEPT ![r] = v]
      OBVIOUS
    <3>3. m \in [Allocations -> 0 .. 4]
      BY <2>0, <1>0, <3>2, SoundFields
    <3>4. PICK d : d = [cluster EXCEPT !.limit = m, !.raw = w]
      OBVIOUS
    <3>5. d \in Clusters
      BY <2>4, <3>3, <3>4 DEF Clusters
    <3>6. d \in T
      BY <2>3, <2>4, <3>4, <3>5 DEF Clusters
    <3>7. d = [cluster EXCEPT !.limit[r] = amount * months, !.raw = w]
      BY <2>4, <3>1, <3>2, <3>4 DEF Clusters
    <3> QED BY <3>6, <3>7
  <2>6. PICK a \in T : a = [cluster EXCEPT !.limit[r] = amount * months]
    <3>1. PICK w \in SUBSET Allocations : w = cluster.raw
      BY <2>0, <1>0, SoundFields
    <3>2. [cluster EXCEPT !.limit[r] = amount * months, !.raw = w]
            = [cluster EXCEPT !.limit[r] = amount * months]
      BY <2>4, <3>1 DEF Clusters
    <3> QED BY <2>5, <3>2
  <2>7. PICK b \in T : b = [cluster EXCEPT !.limit[r] = amount * months,
                                           !.raw = IF reset THEN @ \ {r} ELSE @]
    <3>1. PICK w \in SUBSET Allocations : w = IF reset THEN cluster.raw \ {r} ELSE cluster.raw
      BY <2>0, <1>0, SoundFields
    <3> QED BY <2>5, <3>1
  <2>8. <<a, b>> \in Seq(T)
    OBVIOUS
  <2>9. PICK commands : commands = <<a, b>> /\ Perform(commands, ok)
    BY <2>1, <2>6, <2>7
  <2>10. cluster' \in T /\ breaks' \in Nat /\ own' \in [Allocations -> Qos \cup {"none"}]
    BY <2>0, <2>4, <2>8, <2>9, PerformIn
  <2>11. /\ cluster' \in Clusters /\ cluster'.accounts = cluster.accounts
         /\ cluster'.project = cluster.project
         /\ cluster'.assoc = cluster.assoc /\ cluster'.default = cluster.default
         /\ cluster'.list = cluster.list /\ cluster'.dq = cluster.dq
         /\ cluster'.refused = cluster.refused
    BY <2>3, <2>10
  <2>12. DefaultsHeld(cluster)' /\ NeverRefused' /\ ProjectKept' /\ DropEmpty'
    BY <2>0, <2>11
       DEF SlurmInv, SlurmTypeOK, DefaultsHeld, NeverRefused, ProjectKept, DropEmpty, ending
  <2>13. slurmEdits' \in Nat /\ slurmEdits' # slurmEdits
    BY <1>0, <2>2
  <2>14. SlurmTypeOK'
    BY <1>0, <2>0, <2>2, <2>10, <2>11, <2>12, <2>13 DEF SlurmTypeOK, ending
  <2> QED BY <2>2, <2>12, <2>13, <2>14 DEF SlurmInv, BudgetKept
<1>12. ASSUME NEW r \in Allocations, Consume(r)
       PROVE  SlurmInv' /\ BudgetKept
  <2>0. Ready /\ cluster \in Sound /\ UNCHANGED ending
    BY <1>00, <1>12 DEF Consume, ending
  <2>1. PICK w \in SUBSET Allocations : w = cluster.raw \cup {r}
    <3>1. cluster.raw \subseteq Allocations
      BY <2>0, <1>0, SoundFields
    <3> QED BY <3>1
  <2>2. PICK d : d = [cluster EXCEPT !.raw = w]
    OBVIOUS
  <2>3. cluster \in Clusters /\ cluster \in Sound
    BY <2>0, <1>0, SoundFields
  <2>4. d \in Clusters
    BY <2>2, <2>3 DEF Clusters
  <2>5. /\ d.assoc = cluster.assoc /\ d.default = cluster.default /\ d.refused = cluster.refused
        /\ d.dq = cluster.dq /\ d.list = cluster.list /\ d.raw = w /\ d.qos = cluster.qos
        /\ d.accounts = cluster.accounts /\ d.project = cluster.project
    BY <2>2, <2>3 DEF Clusters
  <2>6. /\ \A x \in Allocations : d.dq[x] \in d.list[x] \cup {"none"}
        /\ Held(d)
        /\ cluster.raw \ d.raw = {}
    BY <2>0, <2>1, <2>3, <2>5, HeldSame, SoundFields
  <2>7. d \in Sound
    BY <2>3, <2>4, <2>5, <2>6, Rebuilt
  <2>8. cluster' = d /\ breaks' = breaks /\ own' = own
    BY <1>12, <2>1, <2>2 DEF Consume
  <2> QED BY <1>0, <1>1, <1>12, <2>7, <2>8 DEF Consume
<1>13. ASSUME Edit
       PROVE  SlurmInv' /\ BudgetKept
  <2>0. Ready /\ cluster \in Sound /\ UNCHANGED ending
    BY <1>00, <1>13 DEF Edit, ending
  <2>1. /\ cluster' = cluster /\ breaks' = breaks /\ config' = config /\ order' = order
        /\ slurmEdits' \in Nat /\ own' = own
    BY <1>0, <1>13 DEF Edit
  <2>2. wanted' \subseteq Allocations /\ level' \in [Allocations -> Levels] /\ customer' \in Customers
        /\ amount' \in {1, 2} /\ months' \in {1, 2}
    BY <1>0, <1>13 DEF Edit
  <2> QED BY <2>0, <1>0, <2>1, <2>2, SoundStep DEF ending
<1>14. ASSUME NEW r \in Allocations, AdminSetsDefault(r)
       PROVE  SlurmInv' /\ BudgetKept
  <2>0. Ready /\ cluster \in Sound /\ UNCHANGED ending
    BY <1>00, <1>14 DEF AdminSetsDefault, ending
  <2>1. /\ cluster' = cluster /\ breaks' = breaks /\ slurmEdits' \in Nat
        /\ UNCHANGED <<config, order, intents>>
    BY <1>0, <1>14 DEF AdminSetsDefault
  <2>2. cluster.list[r] \subseteq Qos
    BY <2>0, SoundFields
  <2>3. own' \in [Allocations -> Qos \cup {"none"}]
    BY <1>0, <1>14, <2>2 DEF AdminSetsDefault
  <2> QED BY <1>0, <2>0, <2>1, <2>3, SoundStep DEF ending
<1> QED
  BY <1>2, <1>30, <1>3, <1>4, <1>40, <1>41, <1>5, <1>6, <1>7, <1>8, <1>9, <1>10, <1>11, <1>12,
     <1>13, <1>14 DEF SlurmNext

\* The allocations start without accounts, users or budgets.
LEMMA InitSlurm == SlurmParameters /\ SlurmInit => SlurmInv
<1> SUFFICES ASSUME SlurmParameters, SlurmInit PROVE SlurmInv
  OBVIOUS
<1>1. cluster \in Clusters
  <2>1. [r \in Allocations |-> {"normal"}] \in [Allocations -> SUBSET Qos]
    BY DEF Qos, Levels
  <2>2. [r \in Allocations |-> "none"] \in [Allocations -> Qos \cup {"none"}]
    OBVIOUS
  <2>3. [r \in Allocations |-> 0] \in [Allocations -> 0 .. 4]
    OBVIOUS
  <2> QED BY <2>1, <2>2, <2>3 DEF SlurmInit, Clusters
<1>2. DefaultsHeld(cluster)
  BY DEF SlurmInit, DefaultsHeld
<1>3. SlurmTypeOK
  BY <1>1, <1>2 DEF SlurmInit, SlurmTypeOK, Levels, Customers, Lives
<1> QED BY <1>3 DEF SlurmInit, SlurmInv, NeverRefused, ProjectKept, DropEmpty

\* Nothing changes the invariant when nothing changes.
LEMMA SlurmStutter == SlurmInv /\ UNCHANGED svars => SlurmInv' /\ BudgetKept
BY DEF SlurmInv, SlurmTypeOK, NeverRefused, ProjectKept, DropEmpty, BudgetKept, DefaultsHeld

\* Type correctness: what SLURM holds is a cluster whose defaults exist, at every
\* point where a sequence of sacctmgr commands can stop.
THEOREM SlurmTypes == SlurmParameters => (SlurmSpec => []SlurmTypeOK)
<1>1. SlurmInv => SlurmTypeOK
  BY DEF SlurmInv
<1> QED BY <1>1, InitSlurm, NextSlurm, SlurmStutter, PTL DEF SlurmSpec

\* slurmdbd refuses no command of the plugin for what the plugin wrote, and the
\* project account stays as long as an allocation hangs under it, whichever commands
\* fail and whichever orders are at work at once, but for an account that is created
\* between the list of a deletion and its drop of the project (delete_association,
\* _swap_account_qos, delete_resource).
THEOREM CommandsAccepted == SlurmParameters => (SlurmSpec => [](NeverRefused /\ ProjectKept))
<1>1. SlurmInv => NeverRefused /\ ProjectKept
  BY DEF SlurmInv
<1> QED BY <1>1, InitSlurm, NextSlurm, SlurmStutter, PTL DEF SlurmSpec

\* What an allocation consumed is forgotten only with its QoS or by a periodic
\* reset, never by an update or a renewal of the limits
\* (_write_allocation_limits, apply_periodic_settings).
THEOREM BudgetsKept == SlurmParameters => (SlurmSpec => [][BudgetKept]_svars)
BY InitSlurm, NextSlurm, SlurmStutter, PTL DEF SlurmSpec

=============================================================================
