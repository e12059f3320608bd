# A TLA+ model of the Waldur site agent

The Waldur site agent runs at a compute site. It takes marketplace orders and
membership changes from Waldur, carries them out on a backend (SLURM, LDAP,
OpenNebula, another Waldur, ...) and reports back. This directory holds TLA+
models of its core package `src/waldur_site_agent/` and of the plugins under
`src/plugins/`, TLC configurations that check them on small instances, and
TLAPS proofs of the properties that matter most for every instance.

## Inventory

| Component | State it keeps | Operations | Hard part |
|---|---|---|---|
| STOMP listener (`event_processing/listener.py`), one per offering | connection generation, queue of frames, worker thread, reconnect lock | `on_message`, `_work`, `_handle`, `_ack`, `on_connected`, `on_disconnected`, `on_error`, `reconnect`, `close` | receiver, worker, watchdog and broker interleave; redelivery; acks of an old connection |
| Watchdog and main loop (`watchdog.py`, `main.py`, `healthz.py`) | down-since times, retry backoff, stable ticks, heartbeat | `check`, `_retry_setup`, `_check_consumer`, `_healthy` | what withholds the liveness heartbeat, and what must not; syncs on worker threads touch it too |
| Order processor (`common/processors.py`, `backend/backends.py`) | none of its own: order and resource in Waldur, accounts at the backend | fetch, evaluate, approve, reject, create, update, terminate, set done, set erred | every call may fail or be lost; two threads on one order; crash between two calls |
| Membership processor (`common/processors.py`) | none: users in Waldur and at the backend | full sync, role change, resource sync, status sync | stale reads, late and lost events |
| Offering users (`common/utils.py`, `processors.py`, `handlers.py`) | offering user state machine in Waldur, accounts | mint a username, teardown, claim, complete | two passes with listings of different age; teardown against a grant |
| Event handlers (`event_processing/handlers.py`) | project group timers | one handler per object type | errors end in an ack, not in a retry |
| Reports (`common/processors.py`, `historical_usage_loader.py`) | none | usage per period, per user and per key | the turn of a month, corrections, anomalies |
| Resource API keys (`common/resource_api_keys.py`) | key state in Waldur and at the backend | mint, rotate, pause, resume, delete, replay | lost replies, replayed commands, two workers |
| Log shipping (`common/log_shipper.py`, `log_buffer.py`) | buffer, threads | add, ship, stop | full buffer, a thread that hangs at the shutdown |
| LDAP plugins | the directory | accounts, renames, project groups, role groups | a rename in steps; several writers of one directory |
| Federation plugin (`plugins/waldur`) | orders and resources at a second Waldur | create, update, terminate, sync of users and dates | asynchronous orders, lost events |
| Other plugins | the site's systems | `BaseBackend` methods | several remote calls per operation, each of which may fail |

How the parts meet. In event mode every offering has one durable queue at the
broker, one connection and one worker thread: the receiver thread puts frames
into `_messages`, the worker hands each to the handler of its object type, and
acks after the handler. Messages of one offering are therefore handled one
after the other. The process's main loop runs beside the workers: it ticks the
watchdog, reconciles orders that look stuck, sweeps departed offering users and
does the periodic membership passes, so a main-loop pass and a message may work
on the same order, person or key at the same time. Nothing in the agent is
persisted: Waldur and the backend hold all state, and a restart resumes from
there. In polling mode there is one thread and no queue.

What makes each part correct: the listener must handle every message at least
once, in order, and never ack on behalf of another connection; an order must be
marked done only when the backend holds what it asks for, and must be finished
sometime; a departed person must lose access, the account must outlive the
associations, and a person who is restored must have an account again; the
watchdog must withhold the heartbeat exactly for what a restart can fix; every
pass must converge to what Waldur wants without taking from anybody what was
theirs; a report must name the right month and never shrink; a key command that
is replayed must not leave a key nobody knows; a backend must not touch what is
not the agent's, nor leave anything behind. `PROJECT.json` lists the hazards
behind these, each at its line.

## Modules

| Module | Models |
|---|---|
| `StompListener` | the listener, its worker, what connects it, broker and transport |
| `OrderLifecycle` | what the agent promises about one order (abstract) |
| `OrderProcessor` | `process_order_with_retries` on one order, several threads; implements `OrderLifecycle` with `provisioned <- Provisioned` |
| `OfferingUserTeardown` | deletion of one offering user, role changes of that person |
| `Watchdog` | `StompWatchdog`, the main loop's tick, what touches the heartbeat (the tick, the periodic passes, syncs on a worker thread), a main loop that hangs, the probe |
| `LogShipping` | `LogBuffer`, the shipping threads and `stop_all` |
| `UsernameGeneration` | `update_offering_users` by the cycle and by events |
| `MembershipSync` | the user sync of a resource, role and account events, the status pass |
| `UsageReports` | the report processor, `report_api_key_usages`, the historical loader |
| `ApiKeyCommands` | the key handlers, the sweep, the pause of the resource, on LiteLLM's key operations |
| `LdapAccounts` | the account pass of the LDAP plugin: classification, creation, key conflicts, renames |
| `LdapProjectGroups` | the project group timer and `ProjectGroupReconciler` |
| `LdapRoleGroups` | the ldap-roles plugin: groups with markers, statuses of grants |
| `FederatedOrders` | orders that become orders at a second Waldur |
| `FederationSync` | profiles, roles, usernames, end dates between the two Waldurs |
| `LiteLLMChat` | the Open WebUI chat that follows a key |
| `LiteLLMBilling` | ownership periods and attribution of usage |
| `MupBackend` | MUP projects, allocations, members |
| `SlurmBackend` | sacctmgr commands on accounts, associations, QoS and limits |
| `OpenNebula` | VDCs with network and groups, rollback and deletion; VMs |
| `RancherBackend` | Rancher projects and the Keycloak groups they share |
| `RancherCrd`, `RancherImport` | the custom resources of the rancher-kc-crd plugin; its import commands |
| `UtNamespace` | managed namespaces, their quota, lists and role groups |
| `CephS3`, `CroitUsage` | S3 users, quotas and keys; storage metering over months |
| `NextcloudFolders` | group folders, their quota and guests |
| `HarborRegistry` | registry projects, labels and quotas |
| `StompListener_proofs`, `OrderProcessor_proofs`, `OfferingUserTeardown_proofs`, `LdapAccounts_proofs` | theorems about one component; each EXTENDS its module and `TLAPS` |
| `Components_proofs` | the same for `Watchdog`, `LiteLLMBilling` and `SlurmBackend` |
| `MC_Races_proofs` | the promises of `MC_Races` that follow from these theorems |
| `MC_Agent_proofs` | all safety promises of `MC_Agent`: those about accounts from `LdapAccounts_proofs`, the others proved of its instances |
| `MC_Backends_proofs` | the safety promises of `MC_Backends` but one, proved of its instances |
| `MC_Core` | the core for TLC: listener, order and teardown; EXTENDS the three modules |
| `MC_Races`, `MC_Agent`, `MC_Backends` | instances for TLC of several components, see below |

Definitions called *mutant* are deliberately wrong versions of an operator that
no specification uses; each property of a passing run has one that breaks it.

### The composites

The components of `MC_Core`, `MC_Races`, `MC_Agent` and `MC_Backends` meet only through
Waldur and the systems of the site; each module has its own view of those,
with every writer that matters to it as an action. A composite therefore takes
them one at a time: `part` is chosen in `Init` and never changes, the
component it names runs by its own `Init` and `Next`, and the variables of the
others are `Off` (in `MC_Core`: as they begin). Nothing is shared, so this checks each of them exactly as a
run of its own would. Two instances of one module (`Race` and `Swap`, ...) share
its variables and differ in their constants.

`MC_Races` takes the constants of the listener, the watchdog, LiteLLM's billing
and SLURM as constants of its own, with values from `Races.cfg`, and `MC_Agent`
those of all its components but the teardown and the API keys, and `MC_Backends`
those of the eight backends its theorems are about: they hold for all values. `Race` and `Swap` are instances of `LdapAccounts_proofs`, which
brings the theorems about that module along. The assumption `Parameters` of each
composite collects what its components assume of their constants.

A property of a composite is one promise of the agent, made by every component
it names: for instance `NothingLeftBehind` says of federated resources,
networks and namespaces alike that a terminated resource leaves nothing. Its
conjuncts are the operators of the component modules, where each is explained
next to the actions it is about.

### StompListener

| State | In the code |
|---|---|
| `sent ready unacked sessions acked lost queue` | the broker (external): the durable queue, what each session has not acked, the prefetch window |
| `conn link wire notices` | stomp.py (external): the newest connection, `is_connected()`, frames on the way, `on_disconnected` calls still to come |
| `generation messages worker closed` | `_connection_generation`, `_messages`, the `_work` thread, `_closed` |
| `tries` | the attempts left to each of the three callers of `connect_to_stomp_server`: startup, the listener's `reconnect`, a watchdog tick; a positive entry of the last two is the reconnect lock |
| `rereg` | the `_reregister_queue` thread that `on_error` starts for NOT_FOUND |
| `started handled` | history |

Actions are the callbacks (`OnConnected`, `OnDisconnected`, `OnMessage`), the
worker's steps (`WorkerTake`, `HandlerEnds`, `WorkerAck`), `WatchdogTick`,
`ReregisterQueue`, `Close`, the connection attempts, and the environment:
`Publish`, `Deliver`, `BrokerClose`, `QueueDeleted`, `LinkLost`, `Restart`.
Message bodies are numbers in publication order; the handler is opaque and
whether it raises makes no difference, because `_handle` logs what it raises.

Two constants separate what the code can influence from what it cannot.
`LateNotices` says whether another thread may reconnect before
`on_disconnected` of the old connection has run (stomp.py clears the socket
first, so this is possible). `OverlappingSessions` says whether the broker may
still hold the old session while the new one is open.

### OrderProcessor

| State | In the code |
|---|---|
| `type state backendId` | the order and its resource in Waldur |
| `account limits` | the backend: each possible name is absent, created only (`bare`) or fully set up (`ready`); the limits of an existing resource |
| `proc` | each thread: its place in `process_order`, the `backend_id` it works with, whether it re-creates under a known id, the number of the attempt |

Every remote call is an action of its own, with its failures as disjuncts.
`Hiccup` is a transient API error, which leaves `process_order` for
`process_order_with_retries`; the call may or may not have had its effect.
`Fault` is an error of the backend, which errs the order after approval and
keeps it pending before. `Crash` ends all threads anywhere.
`UPDATE_PLAN` is an update whose limits are the quotas of a plan.

`OrderLifecycle` is the promise: pending to executing by approval, to done only
while the backend holds what the order asks for, to erred only from executing.

### OfferingUserTeardown

| State | In the code |
|---|---|
| `userState role` | the offering user and the project role in Waldur |
| `inbox` | messages of the offering's queue that are not acked, in order |
| `assoc userAccount` | the cluster's associations, the directory's account |
| `thread` | `teardown_offering_user` as run by the main loop's sweep and by the worker: the state the row was read in, the resources still to pull, the resources listed |
| `eventTask` | the worker's handler: for a role change, the resources still to go through and whether something failed |

`Begin` and `TakeUpdate` start a teardown, then come `PullResources`,
`Claim`, `Remove`, `Check`, `Release`, `MarkError` and `Complete`. `TakeRoleChange`, `WorkerPull`,
`AddUser`, `RemoveUser`, `WorkerEnds`, `WorkerGoesOn`, `WorkerCheck` and
`WorkerRelease` are `process_user_role_changed`, `HandlerFails` its failure.
`SyncProfiles` is the profile pass of the LDAP backend. `Revoke`, `Grant`,
`RequestDeletion` and `Notify` are Waldur's (external). The constant `OneAtATime`
says whether roles change only while no message is waiting and no teardown is
under way; deletion requests and their events are free in both cases.

### The modules of the passes

Common to the modules of the core's passes and the plugins:

* A pass that reads first and writes later has its reading and its writing as
  separate actions, and keeps what it read in a variable (`pass`, `pulls`,
  `snap`, `listed`, ...). Whatever may happen in between is another action:
  Waldur changes, an event is handled, another pass runs.
* A handler that makes several remote calls is either a chain of actions, one
  per call, where another actor can get in between (`ApiKeyCommands`,
  `LiteLLMChat`, `LdapAccounts`, `LdapProjectGroups`, `RancherBackend`,
  `RancherCrd`, `RancherImport`, `CephS3`), or one action that stops after any
  prefix of its calls (`SlurmBackend`'s `Perform`, `OpenNebula`, `MupBackend`),
  where only failures matter. A check and the use that is made of it are separate
  actions wherever somebody else may write in between: the choice of a subnet and
  the network made with it (`StartVdc`, `CreateVdcResource`), the list of a
  project's allocations and the deletion of its account (`ListProject`,
  `DropProject`), the members of a shared group and its deletion
  (`ListGroupMembers`, `DeleteProjectGroupRole`, `DeleteGroup`), the figures Waldur
  holds and those a report writes (`ProcessResourcePeriod`, `CompareUsage`,
  `SubmitTotalUsage`, `SubmitUserUsages`).
* Where the code loses track of something, the model goes on and remembers it in a
  history variable (`stray`, `raced`, `slips`, `loose`, `crossed`, `undeleted`,
  `touched`). A property then names what it exempts, and holds after it for
  everything else.
* Names of people, resources and groups are members of small sets; amounts are
  small numbers; a formatted name is what it can collide with.
* Changes in Waldur are bounded by `Max...Edits` or `MaxChanges`, failed calls
  and interruptions by `Max...Faults`, `MaxTroubles`, `MaxHiccups` or `MaxBreaks`.

| Module | Variables and the state in the code | Main actions |
|---|---|---|
| `Watchdog` | `down`, `ticks`, `nextRetry`, `delay`, `refused`: `_down_since`, `_connected_ticks`, `_next_setup_retry`, `_setup_retry_delay`, membership of `_reported`; `heartbeat`: the mtime of the heartbeat file; `hung`: since when the main loop is in a call; `touched` (history): the last touch of a worker thread | `Tick` (`check` with `ConsumerDown`, `HandlerDown`, `SetupDown`, and the periodic passes of the same iteration), `HandlerTouches` (`process_offering` and `_process_resources` on a worker thread), `Hang` and `Idle`, `Restart` (the probe), `Drop`, `Recover`, `HandlerStarts`, `HandlerEnds` |
| `LogShipping` | `buffer`, `load` and `attempt` of each shipping thread, where `stop_all` is | `Log` with `Trim`, `Collect` with `GetAndClear`, `ShipBatch`, `Joined`, `CloseClient`, `DropClient`, `ThreadEnds` |
| `UsernameGeneration` | `rows` in Waldur, the listing of each thread, what the provider answers | `NameStep` of each thread |
| `MembershipSync` | the team and accounts in Waldur, members at the backend, events on the way, what the pass read | `PassSteps`, `Deliver`, `ReconcileResourceStatus` |
| `UsageReports` | figures per component and month in Waldur and at the backend, the pass, the loader | of the report `PullResource`, `Retrieve`, `ProcessResourcePeriod` (the figures read), `CompareUsage` (the anomaly check), `SubmitTotalUsage`, `SubmitUserUsages` and the key report; of the loader `LoadMonth`, `SubmitResourceUsage`, `SubmitUserUsage`; `NextDay` |
| `ApiKeyCommands` | `row`: the key in Waldur; `proxy`: keys, secrets, blocks; `worker`; `late`: a `set_key` that may still land; `stray`: keys whose minting was not learnt of | `OnMessage`, `Work`, `Sweep`, `StatusPass`, and the failures: `BackendFails`, `ReplyLost` (the proxy did it), `NoAnswer` |
| `LdapAccounts` | entries with number, key stamp and unfinished renames; the bulk read of each writer | `BeginPass`, `Step`, `AccountFails` |
| `LdapProjectGroups` | `entry`, `parent` in the directory; `pending`, `waiting`: the timer and the lock; `snap`: the listing of the pass | `OnEvent`, `TimerFires`, `PassStep`, `Periodic` |
| `LdapRoleGroups` | group entries with owner and members, grants, statuses | `PullReads`, `PullWrites`, `DeleteResource` |
| `FederatedOrders` | `source`: the order at A; `bid`; `remote`: what B holds; `slips`: what A lost track of | `ProcessCreateOrder`, `ProcessUpdateOrder`, `ProcessTerminateOrder`, `PollAsyncTargetOrder`, `FinishTarget` |
| `FederationSync` | role, name and dates on both sides | one action per step of the membership pass |
| `LiteLLMChat`, `LiteLLMBilling` | keys of a person, the chat account; owner periods, requests, reports | `PassStep`, `ApplyStep`; claims, releases, trims, reports |
| `SlurmBackend` | `cluster`: accounts, associations, QoS lists, limits; `own`: the default QoS an administrator gave a user; `cleanup`: where a deletion is; `crossed` (history) | `PreCreateResource`, `CreateResourceWithId`; `DeleteResource`, `ListProject`, `DropProject`; `AddUser`, `RemoveUser`, status, limits, end date; `AdminSetsDefault` |
| `OpenNebula` | `one`: groups, VDCs, networks, quotas; `vdcOrder`, `named`: state and `backend_id` in Waldur; `making`: a creation that chose its subnet; `finished`, `loose` (history) | `StartVdc` (the subnet, given or chosen), `CreateVdcResource` with `Rollback`, `TerminateVdc`, `DeleteVdcResource`, quota, groups, VMs |
| `RancherBackend` | projects and bindings; the shared group; `rLife`, `rNamed`; `sweep`: the removals a pass has under way and the members it saw | `PullResource`, `RemoveUser`, `ListGroupMembers`, `DeleteProjectGroupRole`, `DeleteGroup`; `AddUser`, `ReleaseUser`, creation, limits, deletion |
| `UtNamespace` | the custom resource, the role groups, `nsLife`, `nsNamed`, `nsFlags`; `undeleted` (history) | `CreateResourceWithId`, `DeleteResource`, `ReadsStatus` and `AppliesStatus` (pause, downscale, the restore that does nothing), users and role events |
| `MupBackend`, `NextcloudFolders`, `HarborRegistry` | what the remote system holds, the life of each resource in Waldur, the team | `CreateResource...`, `DeleteResource`, `AddUser`, `RemoveUser`, status and limit passes |
| `RancherCrd`, `RancherImport` | CRs with resourceVersion and status, pulls; the inventory file, ResourceProjects | `PullSteps`, `OperatorReconciles`; `CmdInventory`, `CmdApply`, `ImportStep` |
| `CephS3`, `CroitUsage` | users, keys, rotations; the series, submitted figures | creation in steps, `RotationStarts` ... `RotationReports`; `ReportsUsage` |

Three places abstract more than the rest. Reads that take one request are
atomic, also where the code pages through a listing. `UsernameGeneration` has
get-then-generate of a username as one step, since the provider decides both.
`UsageReports` counts in the unit Waldur keeps, so rounding is not visible.

## Runs

| Run | Shows |
|---|---|
| `core` | the listener with losses of connections, queue and process: nothing acked that was not handled, order of first starts, acks on the own connection, handlers only for live frames, every message acked or gone with its queue, the consumer recovers. Two threads on a create, update or terminate order: done means carried out, a pending order is never erred, and every step is one of `OrderLifecycle`. A teardown with roles that change one at a time: clean when deleted, account last, access ends |
| `races` | safety of the components whose threads and calls race, with the largest bounds |
| `agent` | the passes of the core and of the LDAP plugins: safety and convergence |
| `backends` | orders of all five types, and the backends of the plugins: safety and convergence |
| `listener_late` (violation) | `EveryMessageAcked` fails with `LateNotices`, see Findings |
| `order_transient` (violation) | `TransientNeverErrs`, see Findings |
| `order_restore` (violation) | `DoneIsProvisioned` for a restore, see Findings |
| `teardown_grant` (violation) | `DeletedIsClean` with a late grant, see Findings |
| `teardown_claim` (violation) | `ClaimHolds`, see Findings |
| `names_ok` (violation) | `OkHasUsername`, see Findings |
| `rotations` (violation) | `RotationsSafe` with two rotators, see Findings |
| `chat_closed` (violation) | `ChatFailsClosed`, see Findings |

What the composites promise:

| Property | Of | Statement |
|---|---|---|
| `BacklogBounded` | listener | with late notices and overlapping sessions, no more current frames than the prefetch count are in the process |
| `OutageEnds`, `RestartHasCause` | watchdog | an outage, a stuck handler or a main loop that hangs ends in a restart within a bound, counted anew from every touch of the heartbeat by a sync on a worker thread; nothing else ends in one |
| `ShownIsServed` | API keys, S3 | a key Waldur shows works, no other does once no command is at work, but for keys whose minting was not learnt of (`stray`) or that a late `set_key` raced (`raced`); an OK user has its quota; S3 keys as long as one rotation runs at a time |
| `BilledOnce` | LiteLLM | a request bills to one resource and stays in its report |
| `NeverRefused`, `BudgetKept` | SLURM | slurmdbd refuses nothing for what the plugin wrote (a default QoS of a user's own can keep a swap from happening), the project account stays while it is needed, unless an allocation is created between list and drop (`crossed`); what was consumed still counts |
| `ForeignUntouched` | S3, project groups | users and GIDs that are not the agent's stay, and so does a group in its parent while it is wanted |
| `NothingForgotten` | logs, project groups | no log entry is lost but the oldest on an overflow; an event starts a pass that reads after it |
| `RightMonth`, `NeverLowered` | usage | the right month; no figure is lowered and breakdowns add up, but for a figure that the historical loader replaced after the report read it |
| `AccessKept` | LDAP accounts | a rename costs no access and makes no second entry |
| `WaldurLearns` | names, membership, usage, roles | Waldur comes to show what is so |
| `PeopleSettle` | membership, LDAP, teardown | everybody Waldur lists has the access in the end, and nobody else |
| `BegunEnds` | teardown, logs, API keys | teardowns, shutdowns and key commands end |
| `NoFalseRemoval` | membership, LDAP, names | an old listing takes nothing from anybody that was theirs all the time |
| `OkHasItsOwn` | federation, MUP, Nextcloud, Harbor, OpenNebula, import | what is shown as done is there, and is the resource's own, whichever calls fail, but for the slips `untracked` and `again` of federated orders and for subnets that were given by the user, or chosen from a listing another network came after (`loose`) |
| `NothingLeftBehind` | federation, OpenNebula, namespaces | a terminated resource leaves nothing, whichever calls fail, but for the slips `unread`, `unrecorded` and `again` of federated orders, for VDCs whose creation was not completed, for namespaces that have no `backend_id` and for groups whose deletion failed |
| `OrdersEnd` | orders, federation, MUP | no order waits for ever |
| `TeamsSettle`, `SettingsFollow` | all plugins | people, limits, dates, custom resources and the flags that are set come to be Waldur's (a namespace's quota waits for the next limits when a flag is lifted) |
| `OthersKept` | Harbor, import, Rancher | nothing of another resource, run or the site is taken, but for a member who joins a shared group after its clean-up listed it |
| `FailsSafe` | LiteLLM, Croit | no step opens the chat wider than its key allows, nor does a figure shrink, when calls fail or data is missing |

### Bounds

Each bound is a named constant that a guard tests.

* Listener: two messages are enough for a reordering, and three connections for
  a loss during the recovery of another loss. `WithinBound` takes an event that
  costs a connection only while enough numbers are left to recover from it, so
  that the bound itself never makes a liveness property fail or hold. The
  prefetch is 2 where order is checked (two frames in the process) and 1, the
  code's value, where the backlog is. Reconnect attempts are 1 or 2: one
  failing and one after it.
* Orders: two threads, the most that work on one order (worker and main loop).
  Two names let the attempts run out after one collision. Two transient errors,
  a fault, a crash and a cancellation may happen in any order. `RetryCount` is 3
  in `core`, where a failed refetch may use an attempt up, and 2 in
  `backends`, where the attempts run out.
* Teardown: two resources in `core`, so that a pull or a removal can
  fail halfway; one in `agent`, where what matters is when the grant comes.
* Watchdog: thresholds of two ticks and nine ticks of time, so that an outage
  meets both periodic passes and the backoff reaches its limit. The periods are
  the shortest `WatchdogParameters` allows for an age of two ticks, and one more.
* Logs: three entries, one as large as the buffer, and two shippers: an overflow
  can happen while a batch is out and while `stop` waits.
* Usernames: one person, two threads, two changes of the provider's answer.
* Membership: a user, a service account and an outsider; two changes and a
  failure. People are treated one by one; the code has no step that relates two.
* Usage: two months of two days, a figure of 0 or 1, a correction and a failure.
  Two components, and both settings of `omit_anomalous_usage_components`: an
  anomaly omits its component or halts the month.
* API keys: two keys with one failure, or one with two; three requests, so that a
  command overtakes another; three slots, so that the proxy can have a key too many.
* LDAP: one person renamed by two writers, or two that swap names over three;
  one group with its parent and a failure, one that Waldur lists and one made
  by hand, two that Waldur lists, or one with two members, so that a change can
  meet a conflict twice; two resources whose role groups may have one name.
* Federation: four orders and failures in all, so that a failure can precede or follow
  each of three orders; three edits of roles, names and dates.
* SLURM: two allocations for what they share, one with more edits for what it
  converges to; four settings of QoS management and deletion.
* OpenNebula: two VDCs in a zone with two subnets or one (`Pools`), so that two creations
  want the same one; four edits, two failures (one in the operation, one in its rollback).
* MUP, Rancher, Harbor: two resources of one project or name, in Rancher five edits: two
  creations, and a person who leaves and joins while a clean-up is at work; Rancher CRs: one
  ResourceProject with two writers and the operator; import: two projects and two
  names, so that a rename collides; namespace, Nextcloud: one resource, one
  person, enough edits to go through all of its life twice; S3: two ids and two
  key rows, one rotator in `races` and two in `rotations`; metering: two months of three samples, two changes of the statistics.
* LiteLLM: two keys and two models; a person who moves between two resources
  across the turn of a month.

`CHECK_DEADLOCK` is off where the system may stop: in the composites, for a
component whose changes and failures are used up and that has nothing left to do.
In `core` it is on: the listener never stops, an order ends in `Finished`, and
`CoreNext` lets the teardown rest, since a deleted person with an empty queue is its end.

### Fairness

Weak fairness of a thread's next step says that the thread is scheduled and its
calls return: remote calls have timeouts, and the watchdog treats a handler
that does not return as a reason to restart. Weak fairness of a pass is the main
loop and the polling cycle, which repeat without end. `DetectLoss` and
`DetectGone` are the STOMP heartbeats of both sides. `RequestDeletion` is
Waldur's promise to ask for the deletion of a person without roles. In the
composites every conjunct of `Fairness` has its reason next to it.

Strong fairness is used where an action recurs but is not enabled all the time:
`AttemptOk` (a broker that is tried again and again answers sometime, which the
code can only hope for), a report cycle's pull that succeeds, the sweep and the
status pass of the keys, which run in one thread, the pulls of the periodic pass
over the role groups, and an operator who starts the import again. Nothing is
assumed of the shipping threads of the logs, and in Harbor only that not every
pass fails. Losses, faults, crashes, edits, cancellations and grants are never
forced, and they are bounded: the liveness results say that the system recovers
once failures and changes stop.

## Proofs

TLAPS checks the following for every value of the constants that satisfies the
parameters each module assumes (`OrderAssumption`, `TeardownAssumption`,
`...Parameters`), so for
any number of messages, connections, attempts, threads of the order processor,
resources, failures, days and edits, and for any thresholds and periods.

| Theorem | Statement | Assumes |
|---|---|---|
| `StompListener_proofs!TypeCorrect` | `Spec => []TypeOK` | |
| `AckedHandled` | `Spec => []AckedWasHandled` | |
| `AcksOwn`, `StartsLive` | `AcksOwnConnection`, `StartsOnlyLive` | `~LateNotices` |
| `StartsOrdered` | `Spec => []StartsInOrder` | `~LateNotices`, `~OverlappingSessions` |
| `BacklogIsBounded` | `Spec => []BacklogBounded` | |
| `OrderProcessor_proofs!TypeCorrect` | `OrderSpec => []OrderTypeOK` | |
| `PendingKept` | `OrderSpec => PendingNeverErred` | |
| `DoneProvisioned` | `OrderSpec => []DoneIsProvisioned` | create, update and terminate orders |
| `ImplementsLifecycle` | `OrderSpec => LifecycleSpec` | the same |
| `OfferingUserTeardown_proofs!TypeCorrect` | `TeardownSpec => []TeardownTypeOK` | |
| `ReleasedAfterAssociations` | `TeardownSpec => ReleasedLast` | `OneAtATime` |
| `DeletedWhenClean` | `TeardownSpec => DeletedIsClean` | `OneAtATime` |
| `Components_proofs!WatchdogTypes` | `WatchdogSpec => []TypeOK` | `WatchdogParameters` |
| `OutagesEnd` | `WatchdogSpec => [](OutageEnds /\ StuckEnds /\ HangEnds)` | `WatchdogParameters` |
| `RestartsHaveCause` | `WatchdogSpec => [][RestartHasCause]_vars` | `WatchdogParameters` |
| `BilledOnceForGood` | `BillingSpec => [](BilledOnce /\ ReportedStays)` | `BillingParameters` |
| `SlurmTypes` | `SlurmSpec => []SlurmTypeOK` | `SlurmParameters` |
| `CommandsAccepted` | `SlurmSpec => [](NeverRefused /\ ProjectKept)` | `SlurmParameters` |
| `BudgetsKept` | `SlurmSpec => [][BudgetKept]_svars` | `SlurmParameters` |
| `LdapAccounts_proofs!AccessIsKept` | `AccountSpec => [](AccessKept /\ OneEntryPerPerson)` | `AccountParameters` |
| `StampsHold` | `AccountSpec => [][StampedKeepsUid]_avars` | `AccountParameters` |
| `MC_Races_proofs!BacklogHolds`, `OutagesEndHere`, `BilledOnceHere`, `SlurmAccepts` | `Spec => []P` for `BacklogBounded`, `OutageEnds`, `BilledOnce`, `NeverRefused` of `MC_Races` | `Parameters` |
| `RestartsNeedCause`, `BudgetsKeptHere` | `RestartHasCause`, `BudgetKept` of `MC_Races` | `Parameters` |
| `MC_Agent_proofs!RightMonthHere` | `Spec => []RightMonth` of `MC_Agent` | `Parameters` |
| `NothingForgottenHere`, `AccessKeptHere` | `Spec => []P` for `NothingForgotten` (logs, project groups) and `AccessKept` (LDAP accounts) of `MC_Agent` | `Parameters` |
| `NeverLoweredHere`, `NoFalseRemovalHere` | `NeverLowered` (usage) and `NoFalseRemoval` (membership, LDAP accounts, role groups, usernames) of `MC_Agent` | `Parameters` |
| `MC_Backends_proofs!OkHasItsOwnHere` | `Spec => []OkHasItsOwn` of `MC_Backends` (federated orders, MUP, Nextcloud, Harbor, OpenNebula, import) | `Parameters` |
| `NothingLeftBehindHere` | `Spec => []NothingLeftBehind` (federated orders, OpenNebula, namespaces) | `Parameters` |
| `OthersKeptHere` | `Spec => OthersKept` (Harbor, import, Rancher) | `Parameters` |

The assumptions about the listener, orders and teardown are the ones without
which the code does otherwise: TLC has a counterexample to each, and the
violation runs show the ones that contradict a promise. The parameters say that
bounds are numbers, that a resource is not called like the marker for none, that
settings are ones the SLURM plugin has, that Harbor has a name to try and MUP's
manager is one of its people, and one thing about the watchdog: the
probe accepts more than one tick without a touch, and each periodic pass leaves
a gap that the other pass cannot bridge (`2 * MaxAge - 1` ticks; by default both
come every 60, with an age of 5). With more frequent passes their touches alone
could keep an agent with a dead consumer from being restarted for ever.

The inductive invariants, defined at the end of each module:

* `HandledInv` adds to `AckedWasHandled` that what the worker is about to ack
  has been handled.
* `OwnInv` relates generations and connections: a frame of the current
  generation came on the newest connection, and if that connection is not
  subscribed any more, an `on_disconnected`, which will advance the generation,
  is still to come. So no new connection can be opened while a frame of the old
  one counts as current. `LateNotices` is what breaks this.
* `OrderInv`: a message that was neither started nor lost is at the broker
  (`KeptInv`), in one place only (`BooksInv`), in the one session there is
  (`SessionInv`); and what is older than a frame is ahead of it on the way to the
  worker (`QueueOrderInv`). A lost connection puts what was unacked back into the
  queue, and the generation turns what the process holds of it stale, so a
  redelivery starts at the oldest message without a handler.
* `PrefetchInv`: no message is on its way to the worker twice (`OnceInv`), and
  while the newest connection has a session, all that is on the way or runs is
  unacked in it (`WindowInv`), so the broker's window bounds it. This needs no
  assumption on notices: `on_connected` advances the generation before it
  subscribes, so frames of an older connection do not count once a new session
  can deliver.
* `ApprovedInv`: a thread past the approval implies that the order is not
  pending. It needs that no step leads back to pending.
* `DoneInv`: a recorded `backend_id` of a new resource names a resource that is
  set up, because `set_backend_id` comes after the setup; so a retry that finds
  the id may skip the creation. A thread about to finish has `Provisioned`, and
  no step of another thread makes it false.
* `CleanInv`: each thread still has before itself every association that is
  left. While pulling: those not pulled yet or listed; then those listed; from
  the check on there is none. The worker has the same for what it still has to
  go through, unless something failed. A strict pull and the rule that the
  first failed removal ends the teardown are what keeps this. A grant adds
  associations; with `OneAtATime` it is handled while no teardown is under way
  and the row is OK, so it meets none of these claims.
* `WatchdogInv`: how long the consumer is unstable follows from when it was
  noted (`UnstableInv`), a stuck handler is noted in time (`StuckInv`), and from
  the threshold on only passes touch the heartbeat, at most one of each kind, each
  while the touch before it is young (`HeartbeatInv`). That is where the
  `3 * (MaxAge - 1)` of `Grace` come from. A sync on a worker thread touches the
  same heartbeat, so all of this counts from the threshold or from the last such
  touch, whichever is later (`Limit`); while the main loop hangs nothing else
  touches it (`HungInv`). `CauseInv` is the other direction: an old heartbeat
  means that the loop hangs or that something was down for the whole threshold.
* `OwnedInv`: a request billed by address is owned, on its day, by the resource
  it was reported for, and none is older than the periods kept. A claim, a
  release or a trim changes who owns a later day, or forgets days that no request
  has any more. `Trim` is written with positions (`Nth`, `Rank`, `Kept`) rather
  than with a filter, because nothing can be proved here of a recursive one.
* `SlurmInv` is the property itself with the types and `DropEmpty`: a deletion about
  to drop the project account found no allocation and none has come since, unless
  `crossed` says so. The work is in `Sound`, the
  set of states a command may leave: an operation is a sequence of commands that
  may stop after any of them, so each command has to lead into that set.
* `ReportInv`: a report that reads the month, pulls usage and reads the month
  again has usage of a month between the two readings (`ReadInOrder`), so once
  they agree it is of that month; the same for a key. The total that was filed is
  the one its breakdown is of, but for the components left out of both
  (`TotalFirst`), what is about to go out lowers nothing of what was read
  (`CheckedFirst`), and only a figure that is held has a breakdown
  (`BrokenDownIsFiled`). The arithmetic is one lemma: a later day is in no
  earlier month.
* `LogInv`: the main thread holds nothing before it collects the buffer, and what
  is due at the shutdown has left the buffer for good. That an overflow costs the
  oldest entries is a fact about `Trim`: the first entry that may stay exists by
  the least-number principle (`WFMin` of the library, which takes a set rather
  than an operator), and `Total` is a count rather than a recursion.
* `GroupInv`: a pass at work has managed, given up or refused every group it has
  been through, and what it is about to take from the parent was unwanted at some
  time and leaves something there, also when a conflict makes it read the parent
  again.
* `AccountInv`: `Orderly` while nobody was overtaken. A person is overtaken when
  Waldur changes a name or a key while a pass that read the old one is at work,
  and an heir who is given a name another person had. The entries of everybody but
  heirs are under names of their own, an unfinished rename has its person's access
  under both names until the old one is left, and what a pass read of an entry
  that is not in its place is still so (`Fresh`). The exemption is for all once
  anybody is overtaken: with two persons and two writers TLC has a counterexample
  to one that only exempts the person overtaken, whose entry then takes the place
  of somebody else's.
* `SyncInv`: whom a membership pass takes for stale was absent from the team or
  the accounts at some time since its pull, or is an outsider who is not preserved.
* `NameInv`: a thread that writes a row has a name for it, and no transition
  leads out of the state OK.
* `LrInv`: types, and that a pull is of a resource, so that the marker it writes
  is one.
* `OrdersInv`: an order in flight at Waldur B is the only one of its resource, which
  is busy with it (`Consistent`), so an order that is adopted is the one that was
  meant, and a termination that is done left the resource terminated. The target
  Waldur A names is an order like its own on the resource it names (`TargetFits`),
  an update in flight there is the one A waits for (`UpdatesKnown`), and a resource
  A does not name, or a creation without target, came from a slip (`SlipsKnown`).
  What A records exists at B (`Accounted`). None of this supposes that calls succeed.
* `OneInv`: the subnet a creation chose is free until another network is made
  (`ChosenIsFree`), those a rollback left behind included, and a VDC whose creation
  was completed and that is not there any more has no network.
* `ImportInv`: what `NoTwins` needs of the listing an apply works with while others
  rename projects (`Underway`): links that were listed stay, and an entry that was
  not listed was made for a project already done, whose name no other of the
  inventory has.
* `HarborInv`: a label is that of the resource a project was made for, so what a
  resource adopts or records is its own (`Owns`).
* `MupInv`, `NcInv`: the component, or the folder, that the backend id names was
  made before it was recorded. `NsInv`: a working namespace has its `backend_id`.
  `RancherInv`: a pass deletes the shared group only after a listing that showed
  nobody (`SawNobody`).

`MC_Races_proofs` carries four components' results over. A behaviour of the
composite that is about a component takes only its steps and stays about it, and
the instance in `MC_Races` and the one with the theorems are shown action by
action to have the same initial states and steps. `MC_Agent_proofs` proves of the
instances themselves what is needed, and takes what is about accounts from the
instances of `LdapAccounts_proofs`. `MC_Backends_proofs` takes the backends one after
the other and joins their invariants (`BackendInv`).

Only model-checked: liveness, which is out of this prover's reach; `ShownIsServed`
(its exceptions are histories of lost replies); `ForeignUntouched`; `FailsSafe`, of
which the Croit part compares sums over the samples of a month and needs an
induction over them; and the type invariants of the composites, which join those
of modules without proofs.

## Findings

* **A late `on_disconnected`** (`listener_late`, `listener.py:410`). The
  watchdog, or startup, reconnects between stomp.py's clearing of the socket
  and the old receiver thread's `on_disconnected`. The latter advances the
  generation although the connection is live; the frame received on it counts
  as stale, is not acked, and the broker sends nothing more.
* **A transient error errs an order** (`order_transient`, `processors.py:1355`).
  `set_backend_id` fails after the account was created; the retry takes its own
  account for a duplicate.
* **An interrupted restore is done** (`order_restore`, `processors.py:1695`).
  The next attempt finds the bare account and takes it as complete.
* **A grant during a sweep** (`teardown_grant`, `processors.py:2051`). An
  association added after the sweep's pull is left when the row is marked
  deleted.
* **A stale claim** (`teardown_claim`, `utils.py:1384`). A row listed as
  DELETING is torn down without asking, also when the person was restored since.
* **An OK account without a name** (`names_ok`, `utils.py:1722`). The pass
  completes the validation first and patches the username after it. Interrupted
  in between, it leaves an account in the state OK without a username, and no
  later pass looks at accounts that are OK.
* **Two rotations at once** (`rotations`, `ceph-s3/backend.py:718`). The keys that
  Waldur holds are read (`utils.py:2142`) before those of the S3 user are listed. The
  handler of key messages and the main loop's sweep may rotate two keys of one
  resource at the same time: a key one of them makes in between is listed and
  unknown to the other, which prunes it, and Waldur hands out a key that does not
  work. The docstring (`backend.py:713-716`) calls concurrent rotations safe.
* **A failed narrowing leaves the chat open** (`chat_closed`,
  `litellm/backend.py:2709`). `_apply_key_chat` narrows the groups of an account
  that is open; when the removal from a group fails, the account goes on serving
  with the groups of the earlier, wider key until a later pass succeeds. The
  docstring (`backend.py:2700-2702`) says that a failed call leaves it closed.

More cases are in the models without a run of their own. An update to a
plan that cannot be read counts as done with the old limits (`Update`); this is
why `core` has no `UPDATE_PLAN`. A teardown taken over from
`ERROR_DELETING` that fails again leaves the row DELETING (`MarkError`), which
is how rows get into the situation of the stale claim.

### Limits of what holds

While the modules were written, TLC refuted stronger properties than the ones
above. Where a doc promises such a property it has a run of its own, see Findings.
The following state what one might expect, not what a doc promises, so they have no
run; what the code does in each case is in the model.

* Watchdog: a restart "roughly the threshold plus five minutes" after an outage
  (`docs/architecture.md:270-277`) comes later while a full sync runs on a worker
  thread, because such a sync touches the same heartbeat (`handlers.py:339`, `401`,
  `428`, `processors.py:2218`, `3830`); one that goes on for long also hides a main loop
  that hangs. `OutageEnds` counts the bound from the last of these touches.
* Orders of a federated resource: the handler of target events passes one
  argument too many (`plugins/waldur` `backend.py:1679`,
  `target_event_handler.py:55`), so that only polling ends an order; an order
  interrupted after its submission may be submitted twice; a project lookup that
  fails creates a second project; a terminate order whose target fails may be
  followed by nothing (`backend.py:454`), and one whose lookup of the resource fails is
  done without a deletion (`backend.py:465`); two updates in a row may be applied in
  either order (`backend.py:1479`).
* Federation: a departed user is not deactivated at the target when the call
  fails once (`username_backend.py:249`).
* LiteLLM: a restore after a failed call opens a chat account with the groups it
  still has (`_set_chat_access_for_resource`).
* Membership: a restricted user of a failed pass keeps the access until the next
  (`processors.py:3331`).
* API keys: a `set_key` that lands late, a rotation handled twice at once, or an
  interruption between mint and `set_key` (`resource_api_keys.py:308-346`) leave a
  key Waldur does not know, and so does a `/key/generate` whose reply is lost
  (`litellm/client.py:170`, `289`): nobody learns of that key, and it serves until
  its resource goes. `ShownIsServed` excepts exactly these.
* Usage: a figure that the historical loader writes between a report's reading and its
  writing is overwritten, also with a lower one (`processors.py:4243`, `4397`); records of a breakdown are outside the anomaly check; the loader skips
  zeros; an anomaly halts the report of its month until somebody looks.
* LDAP accounts: a pass with an old listing may rename an entry back, two passes
  may each create an entry for a new person, and a rename that was withdrawn
  leaves its old name until the next pass (`ldap/backend.py:764-850`). Role
  groups: a pull that began before a termination may write the groups again
  (`ldap-roles/backend.py:239-260`).
* SLURM: `add_users_to_resource` logs a failure where others raise
  (`backends.py:1233`); the list of the project's allocations and the deletion of
  its account are separate commands (`backends.py:951-962`), so an allocation created
  in between loses its project account; a default QoS that an administrator gave a
  user makes slurmdbd roll a swap back, and the level stays
  (`slurm/docs/upgrading.md:163-165`); failures of the LDAP group are only logged.
* OpenNebula: a subnet that the user gives is not compared with the others
  (`client.py:759`); two creations that list the networks before either makes one may
  choose the same subnet (`client.py:450`, `538`); a rollback whose deletions fail, and
  a VDC that erred and is then terminated, leave their network behind; the rollback does
  not wait for leases, a failed group deletion leaks the group, two offerings on one zone do not see each other's subnets, and a
  resize that is retried may leave the VM off.
* MUP: a lookup that fails reads as "no project", an activation that fails goes
  unnoticed, a usage query that fails reports zero (`mup/backend.py:1360`,
  `client.py:388`).
* Rancher: a member who joins the shared group between the listing of its members and
  its deletion loses it until the next pass (`backend.py:323-339`); a namespace that failed is not tried again, a group binding that
  failed leaves the team without access (`backend.py:646-667`), and a released
  binding that failed stays (`backend.py:707-753`). CRs: one pruned by an old
  listing may be written again, and an empty listing prunes all
  (`rancher-kc-crd/backend.py:442`). Import: a project renamed to the name of
  another one is taken for it.
* Namespaces: a name in use at the creation takes the groups away with it; a custom
  resource whose creation landed with the reply lost has no `backend_id` and is not
  deleted; a group whose deletion failed stays; lifting a pause or a downscale leaves
  the quota as it is until the limits are set again.
  Ceph S3: a user made by an interrupted attempt may stay unknown
  (`ceph-s3/backend.py:629`). Harbor: a label that failed leaves a project nobody
  finds (`harbor/client.py:189-242`). Nextcloud: a folder id that was not recorded
  leads to a second folder.

## Not modelled

The component list in `PROJECT.json` has the reason for each part. In short:

* agent identity, configuration, command line, importable resources: requests at
  start or on demand, without state that anything races for;
* quotas and component mapping: pure arithmetic on floats and dictionaries;
* the Azure, DigitalOcean, OKD, MOAB, Sofia, CSCS DWDI, Envoy AI gateway and basic
  username plugins: one remote call per operation, which `OrderProcessor` and
  `ApiKeyCommands` have as a step that may fail;
* in the modelled parts: usage queries of the plugins other than Croit and
  LiteLLM, the SLURM REST client, budgets per key, restricted resources in the
  teardown, offerings without a membership or a username backend, resource and
  periodic limits messages, the WebSocket proxy.

Message and payload contents, logging, names' spelling and settings are
abstracted: no property is about them.

## Plan

1. Proofs: `ForeignUntouched` of `MC_Races`, and `FailsSafe` of `MC_Backends` but for
   the metering.
2. An abstract specification of a membership pass (read, compare, write) that the
   passes of the plugins implement.
3. Quotas and component mapping as operators against reference definitions.
