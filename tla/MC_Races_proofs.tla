-------------------------- MODULE MC_Races_proofs --------------------------
(***************************************************************************)
(* The promises of MC_Races about the listener, the watchdog, the billing  *)
(* of LiteLLM and SLURM, for every value of their constants.  A behaviour  *)
(* of MC_Races that is about a component is a behaviour of the component,  *)
(* so the theorems of the component's own proofs carry over.               *)
(***************************************************************************)
EXTENDS MC_Races, Sequences, TLAPS

\* the components again, with their theorems
ListenerP == INSTANCE StompListener_proofs
Proved == INSTANCE Components_proofs

USE DEF ListenerVars, DogVars, TwoKeysVars, TwoGroupsVars, BillingVars, PairVars, S3Vars, vars

-----------------------------------------------------------------------------
(* The listener.                                                             *)

\* The instance of MC_Races and the one with the theorems have the same
\* initial states and steps.
LEMMA SameListener == (Listener!Init <=> ListenerP!Init) /\ (Listener!Next <=> ListenerP!Next)
<1>1. Listener!Init <=> ListenerP!Init
  BY DEF Listener!Init, ListenerP!Init, Listener!Conns, ListenerP!Conns, Listener!NoFrame,
         ListenerP!NoFrame, Listener!Connectors, ListenerP!Connectors
<1>2. Listener!Publish <=> ListenerP!Publish
  BY DEF Listener!Publish, ListenerP!Publish, Listener!linkVars, ListenerP!linkVars,
         Listener!workVars, ListenerP!workVars
<1>3. Listener!QueueDeleted <=> ListenerP!QueueDeleted
  BY DEF Listener!QueueDeleted, ListenerP!QueueDeleted, Listener!Conns, ListenerP!Conns,
         Listener!linkVars, ListenerP!linkVars, Listener!workVars, ListenerP!workVars,
         Listener!WithinBound, ListenerP!WithinBound, Listener!Owed, ListenerP!Owed
<1>4. Listener!LinkLost <=> ListenerP!LinkLost
  BY DEF Listener!LinkLost, ListenerP!LinkLost, Listener!brokerVars, ListenerP!brokerVars,
         Listener!workVars, ListenerP!workVars, Listener!WithinBound, ListenerP!WithinBound,
         Listener!Owed, ListenerP!Owed
<1>5. Listener!WatchdogTick <=> ListenerP!WatchdogTick
  BY DEF Listener!WatchdogTick, ListenerP!WatchdogTick, Listener!EnsureWorker,
         ListenerP!EnsureWorker, Listener!ReconnectLocked, ListenerP!ReconnectLocked,
         Listener!brokerVars, ListenerP!brokerVars, Listener!linkVars, ListenerP!linkVars
<1>6. Listener!OnConnected <=> ListenerP!OnConnected
  BY DEF Listener!OnConnected, ListenerP!OnConnected, Listener!workVars, ListenerP!workVars
<1>7. Listener!ReregisterQueue <=> ListenerP!ReregisterQueue
  BY DEF Listener!ReregisterQueue, ListenerP!ReregisterQueue, Listener!linkVars,
         ListenerP!linkVars, Listener!workVars, ListenerP!workVars, Listener!WithinBound,
         ListenerP!WithinBound, Listener!Owed, ListenerP!Owed
<1>8. Listener!OnMessage <=> ListenerP!OnMessage
  BY DEF Listener!OnMessage, ListenerP!OnMessage, Listener!EnsureWorker,
         ListenerP!EnsureWorker, Listener!brokerVars, ListenerP!brokerVars
<1>9. Listener!WorkerTake <=> ListenerP!WorkerTake
  BY DEF Listener!WorkerTake, ListenerP!WorkerTake, Listener!IsCurrent, ListenerP!IsCurrent,
         Listener!brokerVars, ListenerP!brokerVars, Listener!linkVars, ListenerP!linkVars
<1>10. Listener!HandlerEnds <=> ListenerP!HandlerEnds
  BY DEF Listener!HandlerEnds, ListenerP!HandlerEnds, Listener!brokerVars,
         ListenerP!brokerVars, Listener!linkVars, ListenerP!linkVars
<1>11. Listener!WorkerAck <=> ListenerP!WorkerAck
  BY DEF Listener!WorkerAck, ListenerP!WorkerAck, Listener!NoFrame, ListenerP!NoFrame,
         Listener!IsCurrent, ListenerP!IsCurrent, Listener!BrokerTakesAck,
         ListenerP!BrokerTakesAck, Listener!linkVars, ListenerP!linkVars
<1>12. Listener!Close <=> ListenerP!Close
  BY DEF Listener!Close, ListenerP!Close, Listener!Connectors, ListenerP!Connectors,
         Listener!brokerVars, ListenerP!brokerVars, Listener!WithinBound,
         ListenerP!WithinBound, Listener!Owed, ListenerP!Owed
<1>13. Listener!Restart <=> ListenerP!Restart
  BY DEF Listener!Restart, ListenerP!Restart, Listener!NoFrame, ListenerP!NoFrame,
         Listener!Connectors, ListenerP!Connectors, Listener!WithinBound,
         ListenerP!WithinBound, Listener!Owed, ListenerP!Owed
<1>14. \A c : Listener!Deliver(c) <=> ListenerP!Deliver(c)
  BY DEF Listener!Deliver, ListenerP!Deliver, Listener!workVars, ListenerP!workVars,
         Listener!Cardinality, ListenerP!Cardinality
<1>15. \A c : Listener!BrokerClose(c) <=> ListenerP!BrokerClose(c)
  BY DEF Listener!BrokerClose, ListenerP!BrokerClose, Listener!linkVars, ListenerP!linkVars,
         Listener!workVars, ListenerP!workVars, Listener!WithinBound, ListenerP!WithinBound,
         Listener!Owed, ListenerP!Owed
<1>16. \A c : Listener!OnDisconnected(c) <=> ListenerP!OnDisconnected(c)
  BY DEF Listener!OnDisconnected, ListenerP!OnDisconnected, Listener!ReconnectLocked,
         ListenerP!ReconnectLocked, Listener!brokerVars, ListenerP!brokerVars,
         Listener!workVars, ListenerP!workVars
<1>17. \A k : Listener!AttemptOk(k) <=> ListenerP!AttemptOk(k)
  BY DEF Listener!AttemptOk, ListenerP!AttemptOk, Listener!brokerVars, ListenerP!brokerVars,
         Listener!workVars, ListenerP!workVars, Listener!WithinBound, ListenerP!WithinBound,
         Listener!Owed, ListenerP!Owed
<1>18. \A k : Listener!AttemptFails(k) <=> ListenerP!AttemptFails(k)
  BY DEF Listener!AttemptFails, ListenerP!AttemptFails, Listener!brokerVars,
         ListenerP!brokerVars, Listener!workVars, ListenerP!workVars, Listener!WithinBound,
         ListenerP!WithinBound, Listener!Owed, ListenerP!Owed
<1>19. \A k : Listener!ReconnectDone(k) <=> ListenerP!ReconnectDone(k)
  BY DEF Listener!ReconnectDone, ListenerP!ReconnectDone, Listener!brokerVars,
         ListenerP!brokerVars, Listener!linkVars, ListenerP!linkVars, Listener!workVars,
         ListenerP!workVars
<1>20. Listener!Next <=> ListenerP!Next
  BY <1>2, <1>3, <1>4, <1>5, <1>6, <1>7, <1>8, <1>9, <1>10, <1>11, <1>12, <1>13, <1>14,
     <1>15, <1>16, <1>17, <1>18, <1>19 DEF Listener!Next, ListenerP!Next, Listener!Conns,
     ListenerP!Conns, Listener!Connectors, ListenerP!Connectors
<1> QED BY <1>1, <1>20

\* A behaviour that is about the listener takes its steps only, and stays about it.
LEMMA AboutListener ==
    /\ Init /\ part = "listener" => ListenerP!Init
    /\ [Next]_vars /\ part = "listener" => [ListenerP!Next]_(ListenerP!vars)
    /\ [Next]_vars => (part = "listener" <=> (part = "listener")')
<1>1. Init /\ part = "listener" => ListenerP!Init
  BY SameListener DEF Init
<1>2. [Next]_vars /\ part = "listener" => [ListenerP!Next]_(ListenerP!vars)
  BY SameListener DEF Next, Step, ListenerP!vars, ListenerP!brokerVars, ListenerP!linkVars, ListenerP!workVars
<1>3. [Next]_vars => (part = "listener" <=> (part = "listener")')
  BY DEF Next, Step
<1> QED BY <1>1, <1>2, <1>3

\* STOMP_PREFETCH_COUNT bounds what waits or runs in the process, whatever the
\* broker, the network and the notices do (on_message).
THEOREM BacklogHolds == Spec => []BacklogBounded
<1>1. ListenerP!ListenerParameters /\ ListenerP!ConstantsAssumption
  BY Parameters DEF ListenerP!ConstantsAssumption, ListenerP!ListenerParameters, Listener!ListenerParameters
<1>2. ListenerP!Spec => []ListenerP!BacklogBounded
  BY <1>1, ListenerP!BacklogIsBounded
<1>3. ListenerP!BacklogBounded => BacklogBounded
  BY DEF BacklogBounded, Listener!BacklogBounded, ListenerP!BacklogBounded,
         Listener!LiveFrames, ListenerP!LiveFrames, Listener!Current, ListenerP!Current,
         Listener!IsCurrent, ListenerP!IsCurrent, Listener!Cardinality,
         ListenerP!Cardinality
<1>4. ~(part = "listener") => BacklogBounded
  BY DEF BacklogBounded
<1> QED BY <1>2, <1>3, <1>4, AboutListener, PTL DEF Spec, ListenerP!Spec

-----------------------------------------------------------------------------
(* The watchdog.                                                             *)

\* The instance of MC_Races and the one with the theorems have the same
\* initial states and steps.
LEMMA SameDog == (Dog!Init <=> Proved!Init) /\ (Dog!Next <=> Proved!Next)
<1>1. Dog!Init <=> Proved!Init
  BY DEF Dog!Init, Proved!Init, Dog!Roles, Proved!Roles, Dog!Never, Proved!Never, Dog!Items,
         Proved!Items
<1>2. Dog!Tick <=> Proved!Tick
  BY DEF Dog!Tick, Proved!Tick, Dog!Alive, Proved!Alive, Dog!Answers, Proved!Answers, Dog!Roles,
         Proved!Roles, Dog!Check, Proved!Check, Dog!PassDue, Proved!PassDue, Dog!Never,
         Proved!Never, Dog!StatusDue, Proved!StatusDue, Dog!Due, Proved!Due, Dog!AfterSetup,
         Proved!AfterSetup, Dog!SetupDown, Proved!SetupDown, Dog!ConsumerDown,
         Proved!ConsumerDown, Dog!HandlerDown, Proved!HandlerDown, Dog!Checked, Proved!Checked,
         Dog!CheckedTicks, Proved!CheckedTicks, Dog!RetryDelay, Proved!RetryDelay,
         Dog!NextRetry, Proved!NextRetry, Dog!Healthy, Proved!Healthy, Dog!SetDefault,
         Proved!SetDefault, Dog!Items, Proved!Items
<1>3. Dog!Restart <=> Proved!Restart
  BY DEF Dog!Restart, Proved!Restart, Dog!Alive, Proved!Alive, Dog!Roles, Proved!Roles, Dog!Begin,
         Proved!Begin, Dog!Never, Proved!Never, Dog!Items, Proved!Items
<1>4. Dog!Ended <=> Proved!Ended
  BY DEF Dog!Ended, Proved!Ended, Dog!Alive, Proved!Alive, Dog!vars, Proved!vars, Dog!watch,
         Proved!watch, Dog!loop, Proved!loop, Dog!beat, Proved!beat
<1>5. \A r : Dog!Drop(r) <=> Proved!Drop(r)
  BY DEF Dog!Drop, Proved!Drop, Dog!watch, Proved!watch, Dog!loop, Proved!loop, Dog!beat, Proved!beat
<1>6. \A r : Dog!Recover(r) <=> Proved!Recover(r)
  BY DEF Dog!Recover, Proved!Recover, Dog!watch, Proved!watch, Dog!loop, Proved!loop, Dog!beat, Proved!beat
<1>7. \A r : Dog!HandlerStarts(r) <=> Proved!HandlerStarts(r)
  BY DEF Dog!HandlerStarts, Proved!HandlerStarts, Dog!Never, Proved!Never, Dog!watch,
         Proved!watch, Dog!loop, Proved!loop, Dog!beat, Proved!beat
<1>8. \A r : Dog!HandlerEnds(r) <=> Proved!HandlerEnds(r)
  BY DEF Dog!HandlerEnds, Proved!HandlerEnds, Dog!Never, Proved!Never, Dog!watch, Proved!watch,
         Dog!loop, Proved!loop, Dog!beat, Proved!beat
<1>9. (Dog!Hang <=> Proved!Hang) /\ (Dog!Idle <=> Proved!Idle)
  BY DEF Dog!Hang, Proved!Hang, Dog!Idle, Proved!Idle, Dog!Alive, Proved!Alive, Dog!Never,
         Proved!Never, Dog!watch, Proved!watch, Dog!loop, Proved!loop, Dog!beat, Proved!beat
<1>10. Dog!HandlerTouches <=> Proved!HandlerTouches
  BY DEF Dog!HandlerTouches, Proved!HandlerTouches, Dog!Never, Proved!Never, Dog!watch,
         Proved!watch, Dog!loop, Proved!loop
<1>11. Dog!Next <=> Proved!Next
  BY <1>2, <1>3, <1>4, <1>5, <1>6, <1>7, <1>8, <1>9, <1>10 DEF Dog!Next, Proved!Next, Dog!Roles, Proved!Roles
<1> QED BY <1>1, <1>11

\* A behaviour that is about the watchdog takes its steps only, and stays about it.
LEMMA AboutDog ==
    /\ Init /\ part = "watchdog" => Proved!Init
    /\ [Next]_vars /\ part = "watchdog" => [Proved!Next]_(Proved!vars)
    /\ [Next]_vars => (part = "watchdog" <=> (part = "watchdog")')
<1>1. Init /\ part = "watchdog" => Proved!Init
  BY SameDog DEF Init
<1>2. [Next]_vars /\ part = "watchdog" => [Proved!Next]_(Proved!vars)
  BY SameDog DEF Next, Step, Proved!vars, Proved!watch, Proved!loop, Proved!beat
<1>3. [Next]_vars => (part = "watchdog" <=> (part = "watchdog")')
  BY DEF Next, Step
<1> QED BY <1>1, <1>2, <1>3

\* An outage of the consumer, a handler that never returns and a main loop that hangs
\* end in a restart, though the periodic passes touch the heartbeat; what a sync on a
\* worker thread hides is counted from its last touch (StompWatchdog.check,
\* process_offering).
THEOREM OutagesEndHere == Spec => []OutageEnds
<1>1. Proved!WatchdogParameters
  BY Parameters DEF Proved!WatchdogParameters, Dog!WatchdogParameters
<1>2. Proved!WatchdogSpec => [](Proved!OutageEnds /\ Proved!StuckEnds /\ Proved!HangEnds)
  BY <1>1, Proved!OutagesEnd
<1>3. (Proved!OutageEnds /\ Proved!StuckEnds /\ Proved!HangEnds) => OutageEnds
  BY DEF OutageEnds, Dog!OutageEnds, Proved!OutageEnds, Dog!StuckEnds, Proved!StuckEnds,
         Dog!HangEnds, Proved!HangEnds, Dog!Masked, Proved!Masked, Dog!PassGrace,
         Proved!PassGrace, Dog!Grace, Proved!Grace, Dog!Never, Proved!Never
<1>4. ~(part = "watchdog") => OutageEnds
  BY DEF OutageEnds
<1> QED BY <1>2, <1>3, <1>4, AboutDog, PTL DEF Spec, Proved!WatchdogSpec

\* The agent is restarted only for what a restart can fix (_healthy).
THEOREM RestartsNeedCause == Spec => RestartHasCause
<1>1. Proved!WatchdogParameters
  BY Parameters DEF Proved!WatchdogParameters, Dog!WatchdogParameters
<1>2. Proved!WatchdogSpec => [][Proved!RestartHasCause]_(Proved!vars)
  BY <1>1, Proved!RestartsHaveCause
<1>3. [Proved!RestartHasCause]_(Proved!vars) => [part = "watchdog" => Dog!RestartHasCause]_DogVars
  BY DEF Dog!RestartHasCause, Proved!RestartHasCause, Dog!Restart, Proved!Restart, Dog!Never,
         Proved!Never, Dog!Alive, Proved!Alive, Dog!Roles, Proved!Roles, Dog!Begin, Proved!Begin,
         Dog!Items, Proved!Items, Dog!vars, Proved!vars, Dog!watch, Proved!watch, Dog!loop, Proved!loop, Dog!beat, Proved!beat
<1>4. ~(part = "watchdog") => [part = "watchdog" => Dog!RestartHasCause]_DogVars
  OBVIOUS
<1> QED BY <1>2, <1>3, <1>4, AboutDog, PTL DEF Spec, Proved!WatchdogSpec, RestartHasCause

-----------------------------------------------------------------------------
(* The billing of LiteLLM.                                                   *)

\* The instance of MC_Races and the one with the theorems have the same
\* initial states and steps.
LEMMA SameBilling == (Billing!BillingInit <=> Proved!BillingInit) /\ (Billing!BillingNext <=> Proved!BillingNext)
<1>1. Billing!BillingInit <=> Proved!BillingInit
  BY DEF Billing!BillingInit, Proved!BillingInit, Billing!NoRecord, Proved!NoRecord,
         Billing!Always, Proved!Always, Billing!Open, Proved!Open
<1>2. \A r, e : Billing!EnsureLiteLLMUser(r, e) <=> Proved!EnsureLiteLLMUser(r, e)
  BY DEF Billing!EnsureLiteLLMUser, Proved!EnsureLiteLLMUser, Billing!NoRecord,
         Proved!NoRecord, Billing!Trim, Proved!Trim, Billing!RetentionCutoff,
         Proved!RetentionCutoff, Billing!CurrentOwner, Proved!CurrentOwner,
         Billing!Claim, Proved!Claim, Billing!Kept, Proved!Kept, Billing!Month,
         Proved!Month, Billing!Open, Proved!Open, Billing!Nth, Proved!Nth,
         Billing!Rank, Proved!Rank, Billing!Cardinality, Proved!Cardinality
<1>3. \A r, e : Billing!ReleaseLiteLLMUser(r, e) <=> Proved!ReleaseLiteLLMUser(r, e)
  BY DEF Billing!ReleaseLiteLLMUser, Proved!ReleaseLiteLLMUser, Billing!NoRecord,
         Proved!NoRecord, Billing!CurrentOwner, Proved!CurrentOwner, Billing!Release,
         Proved!Release, Billing!Trim, Proved!Trim, Billing!RetentionCutoff,
         Proved!RetentionCutoff, Billing!Open, Proved!Open, Billing!Kept, Proved!Kept,
         Billing!Month, Proved!Month, Billing!Nth, Proved!Nth, Billing!Rank,
         Proved!Rank, Billing!Cardinality, Proved!Cardinality
<1>4. \A r : Billing!RemoveAllUsers(r) <=> Proved!RemoveAllUsers(r)
  BY DEF Billing!RemoveAllUsers, Proved!RemoveAllUsers, Billing!NoRecord,
         Proved!NoRecord, Billing!CurrentOwner, Proved!CurrentOwner, Billing!Release,
         Proved!Release, Billing!Trim, Proved!Trim, Billing!RetentionCutoff,
         Proved!RetentionCutoff, Billing!Open, Proved!Open, Billing!Kept, Proved!Kept,
         Billing!Month, Proved!Month, Billing!Nth, Proved!Nth, Billing!Rank,
         Proved!Rank, Billing!Cardinality, Proved!Cardinality
<1>5. \A r : Billing!GetUsageReportForPeriod(r) <=> Proved!GetUsageReportForPeriod(r)
  BY DEF Billing!GetUsageReportForPeriod, Proved!GetUsageReportForPeriod,
         Billing!ResourceRows, Proved!ResourceRows, Billing!NoRecord, Proved!NoRecord,
         Billing!OwnerOn, Proved!OwnerOn, Billing!BilledByAlias, Proved!BilledByAlias,
         Billing!Shared, Proved!Shared
<1>6. \A alias, e : Billing!Served(alias, e) <=> Proved!Served(alias, e)
  BY DEF Billing!Served, Proved!Served, Billing!Cardinality, Proved!Cardinality
<1>7. Billing!ManagedUsers <=> Proved!ManagedUsers
  BY DEF Billing!ManagedUsers, Proved!ManagedUsers, Billing!Expired, Proved!Expired,
         Billing!RetentionCutoff, Proved!RetentionCutoff, Billing!NoRecord,
         Proved!NoRecord, Billing!Trim, Proved!Trim, Billing!Month, Proved!Month,
         Billing!Kept, Proved!Kept, Billing!Nth, Proved!Nth, Billing!Rank,
         Proved!Rank, Billing!Cardinality, Proved!Cardinality
<1>8. Billing!PruneExpiredUsers <=> Proved!PruneExpiredUsers
  BY DEF Billing!PruneExpiredUsers, Proved!PruneExpiredUsers, Billing!Expired,
         Proved!Expired, Billing!RetentionCutoff, Proved!RetentionCutoff,
         Billing!NoRecord, Proved!NoRecord, Billing!Trim, Proved!Trim, Billing!Month,
         Proved!Month, Billing!Kept, Proved!Kept, Billing!Nth, Proved!Nth,
         Billing!Rank, Proved!Rank, Billing!Cardinality, Proved!Cardinality
<1>9. Billing!NextDay <=> Proved!NextDay
  BY DEF Billing!NextDay, Proved!NextDay, Billing!RetentionCutoff,
         Proved!RetentionCutoff, Billing!Month, Proved!Month
<1>10. Billing!BillingNext <=> Proved!BillingNext
  BY <1>2, <1>3, <1>4, <1>5, <1>6, <1>7, <1>8, <1>9 DEF Billing!BillingNext,
     Proved!BillingNext, Billing!Alias, Proved!Alias, Billing!Shared, Proved!Shared
<1> QED BY <1>1, <1>10

\* A behaviour that is about the billing takes its steps only, and stays about it.
LEMMA AboutBilling ==
    /\ Init /\ part = "billing" => Proved!BillingInit
    /\ [Next]_vars /\ part = "billing" => [Proved!BillingNext]_(Proved!bvars)
    /\ [Next]_vars => (part = "billing" <=> (part = "billing")')
<1>1. Init /\ part = "billing" => Proved!BillingInit
  BY SameBilling DEF Init
<1>2. [Next]_vars /\ part = "billing" => [Proved!BillingNext]_(Proved!bvars)
  BY SameBilling DEF Next, Step, Proved!bvars
<1>3. [Next]_vars => (part = "billing" <=> (part = "billing")')
  BY DEF Next, Step
<1> QED BY <1>1, <1>2, <1>3

\* A request bills to one resource, and stays in that resource's report, though its
\* sender moves between resources and old periods are trimmed (_resource_rows, owner_on).
THEOREM BilledOnceHere == Spec => []BilledOnce
<1>1. Proved!BillingParameters
  BY Parameters DEF Proved!BillingParameters, Billing!BillingParameters
<1>2. Proved!BillingSpec => [](Proved!BilledOnce /\ Proved!ReportedStays)
  BY <1>1, Proved!BilledOnceForGood
<1>3. (Proved!BilledOnce /\ Proved!ReportedStays) => BilledOnce
  <2>1. ASSUME NEW ps, NEW d PROVE Billing!OwnerOn(ps, d) = Proved!OwnerOn(ps, d)
    BY DEF Billing!OwnerOn, Proved!OwnerOn
  <2>2. ASSUME NEW q PROVE Billing!BilledByAlias(q) <=> Proved!BilledByAlias(q)
    BY DEF Billing!BilledByAlias, Proved!BilledByAlias, Billing!Shared, Proved!Shared
  <2>3. ASSUME NEW r PROVE Billing!ResourceRows(r) = Proved!ResourceRows(r)
    BY <2>1, <2>2 DEF Billing!ResourceRows, Proved!ResourceRows, Billing!NoRecord, Proved!NoRecord
  <2>4. Proved!ReportedStays => Billing!ReportedStays
    BY <2>3 DEF Billing!ReportedStays, Proved!ReportedStays
  <2>5. Proved!BilledOnce => Billing!BilledOnce
    BY DEF Billing!BilledOnce, Proved!BilledOnce, Billing!Shared, Proved!Shared
  <2> QED BY <2>4, <2>5 DEF BilledOnce
<1>4. ~(part = "billing") => BilledOnce
  BY DEF BilledOnce
<1> QED BY <1>2, <1>3, <1>4, AboutBilling, PTL DEF Spec, Proved!BillingSpec

-----------------------------------------------------------------------------
(* SLURM.                                                                    *)

\* Both instances create an allocation by the same commands.
LEMMA SameCreate == \A r : Pair!CreateCommands(r) = Proved!CreateCommands(r)
<1> TAKE r
<1>2. \A c : Pair!AccountCreated(c, r) = Proved!AccountCreated(c, r)
  BY DEF Pair!AccountCreated, Proved!AccountCreated
<1>3. \A c : Pair!QosCreated(c, r) = Proved!QosCreated(c, r)
  BY DEF Pair!QosCreated, Proved!QosCreated, Pair!Managed, Proved!Managed
<1>4. \A c : Pair!QosAttached(c, r) = Proved!QosAttached(c, r)
  BY DEF Pair!QosAttached, Proved!QosAttached, Pair!Managed, Proved!Managed
<1>5. \A c, v, b : Pair!WriteAllocationLimits(c, r, v, b) = Proved!WriteAllocationLimits(c, r, v, b)
  BY SMTT(30) DEF Pair!Managed, Proved!Managed, Pair!WriteAllocationLimits, Proved!WriteAllocationLimits
<1>6. Pair!Managed = Proved!Managed /\ Pair!CollectResourceLimits = Proved!CollectResourceLimits
  BY DEF Pair!Managed, Proved!Managed, Pair!CollectResourceLimits, Proved!CollectResourceLimits
<1> QED BY <1>2, <1>3, <1>4, <1>5, <1>6 DEF Pair!CreateCommands, Proved!CreateCommands

\* Both instances delete an allocation by the same commands.
LEMMA SameDelete == \A r, qos : Pair!DeleteCommands(r, qos) = Proved!DeleteCommands(r, qos)
<1> TAKE r, qos
<1>1. PICK users : users = Pair!DeleteAssociation(cluster, r)
  OBVIOUS
<1>2. users = Proved!DeleteAssociation(cluster, r)
  BY <1>1 DEF Pair!DeleteAssociation, Proved!DeleteAssociation, Pair!SetDefaultAccount, Proved!SetDefaultAccount,
     Pair!RemoveAssociation, Proved!RemoveAssociation
<1>3. PICK c1, m : c1 = users[Len(users)] /\ m = Pair!Managed /\ m = Proved!Managed
  BY DEF Pair!Managed, Proved!Managed
<1>4. PICK c2 : c2 = [c1 EXCEPT !.qos = IF m /\ qos THEN @ \ {r} ELSE @,
                                !.list[r] = IF m /\ qos THEN @ \ {r} ELSE @,
                                !.dq[r] = IF m /\ qos /\ @ = r THEN "none" ELSE @,
                                !.raw = IF m /\ qos THEN @ \ {r} ELSE @]
  OBVIOUS
<1>5. PICK zeroed : zeroed = Pair!WriteAllocationLimits(c2, r, 0, FALSE)
  OBVIOUS
<1>6. zeroed = Proved!WriteAllocationLimits(c2, r, 0, FALSE)
  BY <1>5 DEF Pair!Managed, Proved!Managed, Pair!WriteAllocationLimits, Proved!WriteAllocationLimits
<1>7. PICK c3 : c3 = [c2 EXCEPT !.accounts = @ \ {r}, !.lever = @ \ {r}]
  OBVIOUS
<1>8. PICK c4 : c4 = IF config.soft THEN zeroed ELSE c3
  OBVIOUS
<1>9. Pair!DeleteCommands(r, qos) = users \o <<c2, c4>>
  BY <1>1, <1>3, <1>4, <1>5, <1>7, <1>8 DEF Pair!DeleteCommands
<1>10. Proved!DeleteCommands(r, qos) = users \o <<c2, c4>>
  BY <1>2, <1>3, <1>4, <1>6, <1>7, <1>8 DEF Proved!DeleteCommands
<1> QED BY <1>9, <1>10

\* Both instances swap a QoS by the same command.
LEMMA SameStatus ==
    \A r, q : /\ Pair!RestoreCommands(r) = Proved!RestoreCommands(r)
              /\ Pair!PauseCommands(r, q) = Proved!PauseCommands(r, q)
<1> TAKE r, q
<1>1. \A c, l, d : Pair!ModifyAccountQos(c, r, l, d) = Proved!ModifyAccountQos(c, r, l, d)
  BY DEF Pair!ModifyAccountQos, Proved!ModifyAccountQos
<1>2. \A l : Pair!OwnDefaultOutside(r, l) = Proved!OwnDefaultOutside(r, l)
  BY DEF Pair!OwnDefaultOutside, Proved!OwnDefaultOutside
<1>3. \A c, x : Pair!SwapAccountQos(c, r, x) = Proved!SwapAccountQos(c, r, x)
  BY <1>1, <1>2 DEF Pair!SwapAccountQos, Proved!SwapAccountQos
<1> QED BY <1>3 DEF Pair!RestoreCommands, Proved!RestoreCommands, Pair!PauseCommands,
                    Proved!PauseCommands, Pair!Lever, Proved!Lever

\* The instance of MC_Races and the one with the theorems have the same
\* initial states and steps.
LEMMA SamePair == (Pair!SlurmInit <=> Proved!SlurmInit) /\ (Pair!SlurmNext <=> Proved!SlurmNext)
<1>1. Pair!SlurmInit <=> Proved!SlurmInit
  BY DEF Pair!SlurmInit, Proved!SlurmInit
<1>2. \A r : Pair!Order(r) <=> Proved!Order(r)
  BY DEF Pair!Order, Proved!Order, Pair!intents, Proved!intents, Pair!ending, Proved!ending
<1>3. \A commands, ok : Pair!Perform(commands, ok) <=> Proved!Perform(commands, ok)
  BY DEF Pair!Perform, Proved!Perform
<1>4. \A r : Pair!CreateCommands(r) = Proved!CreateCommands(r)
  BY SameCreate
<1>5. \A r : Pair!CreateResourceWithId(r) <=> Proved!CreateResourceWithId(r)
  BY <1>3, <1>4 DEF Pair!CreateResourceWithId, Proved!CreateResourceWithId, Pair!intents, Proved!intents, Pair!ending, Proved!ending
<1>6. \A r : Pair!Terminate(r) <=> Proved!Terminate(r)
  BY DEF Pair!Terminate, Proved!Terminate, Pair!intents, Proved!intents, Pair!ending, Proved!ending
<1>7. \A r, qos : Pair!DeleteCommands(r, qos) = Proved!DeleteCommands(r, qos)
  BY SameDelete
<1>8. \A r : Pair!DeleteResource(r) <=> Proved!DeleteResource(r)
  BY <1>3, <1>7 DEF Pair!DeleteResource, Proved!DeleteResource, Pair!intents, Proved!intents, Pair!ending, Proved!ending
<1>9. \A r : Pair!SyncResourceProject(r) <=> Proved!SyncResourceProject(r)
  BY DEF Pair!SyncResourceProject, Proved!SyncResourceProject, Pair!Attempt, Proved!Attempt,
         Pair!intents, Proved!intents, Pair!ending, Proved!ending, Pair!Perform, Proved!Perform
<1>10. \A r : Pair!AddUser(r) <=> Proved!AddUser(r)
  BY DEF Pair!AddUser, Proved!AddUser, Pair!Attempt, Proved!Attempt, Pair!AddUserCommands,
         Proved!AddUserCommands, Pair!intents, Proved!intents, Pair!ending, Proved!ending, Pair!Perform, Proved!Perform
<1>11. \A r : Pair!RemoveUser(r) <=> Proved!RemoveUser(r)
  BY DEF Pair!RemoveUser, Proved!RemoveUser, Pair!Attempt, Proved!Attempt,
         Pair!DeleteAssociation, Proved!DeleteAssociation, Pair!intents, Proved!intents, Pair!ending, Proved!ending,
         Pair!Perform, Proved!Perform, Pair!SetDefaultAccount, Proved!SetDefaultAccount,
         Pair!RemoveAssociation, Proved!RemoveAssociation
<1>12. \A r : Pair!SyncResourceStatus(r) <=> Proved!SyncResourceStatus(r)
  BY <1>3, SameStatus DEF Pair!SyncResourceStatus, Proved!SyncResourceStatus, Pair!Attempt,
         Proved!Attempt, Pair!intents, Proved!intents, Pair!ending, Proved!ending
<1>13. \A r : Pair!SetResourceLimits(r) <=> Proved!SetResourceLimits(r)
  BY DEF Pair!SetResourceLimits, Proved!SetResourceLimits, Pair!Attempt, Proved!Attempt,
         Pair!WriteAllocationLimits, Proved!WriteAllocationLimits,
         Pair!CollectResourceLimits, Proved!CollectResourceLimits, Pair!Perform,
         Proved!Perform, Pair!Managed, Proved!Managed, Pair!ending, Proved!ending
<1>14. \A r : Pair!SyncResourceEndDate(r) <=> Proved!SyncResourceEndDate(r)
  BY DEF Pair!SyncResourceEndDate, Proved!SyncResourceEndDate, Pair!Attempt, Proved!Attempt,
         Pair!WriteAllocationLimits, Proved!WriteAllocationLimits,
         Pair!CollectResourceLimits, Proved!CollectResourceLimits, Pair!intents, Proved!intents, Pair!ending, Proved!ending, Pair!Perform, Proved!Perform, Pair!Managed, Proved!Managed
<1>15. \A r : Pair!ApplyPeriodicSettings(r) <=> Proved!ApplyPeriodicSettings(r)
  BY DEF Pair!ApplyPeriodicSettings, Proved!ApplyPeriodicSettings, Pair!Managed,
         Proved!Managed, Pair!Attempt, Proved!Attempt, Pair!intents, Proved!intents, Pair!ending, Proved!ending,
         Pair!Perform, Proved!Perform
<1>16. \A r : Pair!Consume(r) <=> Proved!Consume(r)
  BY DEF Pair!Consume, Proved!Consume, Pair!intents, Proved!intents, Pair!ending, Proved!ending
<1>17. Pair!Edit <=> Proved!Edit
  BY DEF Pair!Edit, Proved!Edit, Pair!Levels, Proved!Levels, Pair!Customers, Proved!Customers,
         Pair!ending, Proved!ending
<1>19. \A r : Pair!PreCreateResource(r) <=> Proved!PreCreateResource(r)
  <2>1. Pair!ProjectCreated(cluster) = Proved!ProjectCreated(cluster)
    BY DEF Pair!ProjectCreated, Proved!ProjectCreated
  <2> QED BY <1>3, <2>1 DEF Pair!PreCreateResource, Proved!PreCreateResource, Pair!intents,
             Proved!intents, Pair!ending, Proved!ending
<1>20. \A r : Pair!ListProject(r) <=> Proved!ListProject(r)
  BY <1>3 DEF Pair!ListProject, Proved!ListProject, Pair!LastOfProject, Proved!LastOfProject,
         Pair!intents, Proved!intents
<1>22. \A r : Pair!DropProject(r) <=> Proved!DropProject(r)
  BY <1>3 DEF Pair!DropProject, Proved!DropProject, Pair!intents, Proved!intents
<1>21. \A r : Pair!AdminSetsDefault(r) <=> Proved!AdminSetsDefault(r)
  BY DEF Pair!AdminSetsDefault, Proved!AdminSetsDefault, Pair!intents, Proved!intents,
         Pair!ending, Proved!ending
<1>18. Pair!SlurmNext <=> Proved!SlurmNext
  BY <1>2, <1>5, <1>6, <1>8, <1>9, <1>10, <1>11, <1>12, <1>13, <1>14, <1>15, <1>16, <1>17, <1>19,
     <1>20, <1>21, <1>22
     DEF Pair!SlurmNext, Proved!SlurmNext
<1> QED BY <1>1, <1>18

\* A behaviour that is about SLURM takes its steps only, and stays about it.
LEMMA AboutPair ==
    /\ Init /\ part = "pair" => Proved!SlurmInit
    /\ [Next]_vars /\ part = "pair" => [Proved!SlurmNext]_(Proved!svars)
    /\ [Next]_vars => (part = "pair" <=> (part = "pair")')
<1>1. Init /\ part = "pair" => Proved!SlurmInit
  BY SamePair DEF Init
<1>2. [Next]_vars /\ part = "pair" => [Proved!SlurmNext]_(Proved!svars)
  BY SamePair DEF Next, Step, Proved!svars
<1>3. [Next]_vars => (part = "pair" <=> (part = "pair")')
  BY DEF Next, Step
<1> QED BY <1>1, <1>2, <1>3

\* slurmdbd refuses no command for what the plugin wrote, and the project account
\* stays while an allocation needs it, for any number of allocations, changes,
\* failures and orders at work at once, but for an account that is created between
\* the list of a deletion and its drop of the project (delete_association,
\* _swap_account_qos, delete_resource).
THEOREM SlurmAccepts == Spec => []NeverRefused
<1>1. Proved!SlurmParameters
  BY Parameters DEF Proved!SlurmParameters, Pair!SlurmParameters, Proved!Modes, Pair!Modes
<1>2. Proved!SlurmSpec => [](Proved!NeverRefused /\ Proved!ProjectKept)
  BY <1>1, Proved!CommandsAccepted
<1>3. (Proved!NeverRefused /\ Proved!ProjectKept) => NeverRefused
  BY DEF NeverRefused, Pair!NeverRefused, Proved!NeverRefused, Pair!ProjectKept,
         Proved!ProjectKept
<1>4. ~(part = "pair") => NeverRefused
  BY DEF NeverRefused
<1> QED BY <1>2, <1>3, <1>4, AboutPair, PTL DEF Spec, Proved!SlurmSpec

\* What an allocation consumed is forgotten only with its QoS or by a periodic reset
\* (_write_allocation_limits, apply_periodic_settings).
THEOREM BudgetsKeptHere == Spec => BudgetKept
<1>1. Proved!SlurmParameters
  BY Parameters DEF Proved!SlurmParameters, Pair!SlurmParameters, Proved!Modes, Pair!Modes
<1>2. Proved!SlurmSpec => [][Proved!BudgetKept]_(Proved!svars)
  BY <1>1, Proved!BudgetsKept
<1>3. [Proved!BudgetKept]_(Proved!svars) => [part = "pair" => Pair!BudgetKept]_PairVars
  BY DEF Pair!BudgetKept, Proved!BudgetKept, Pair!Managed, Proved!Managed, Pair!svars,
         Proved!svars
<1>4. ~(part = "pair") => [part = "pair" => Pair!BudgetKept]_PairVars
  OBVIOUS
<1> QED BY <1>2, <1>3, <1>4, AboutPair, PTL DEF Spec, Proved!SlurmSpec, BudgetKept
=============================================================================
