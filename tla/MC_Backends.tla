---------------------------- MODULE MC_Backends ----------------------------
(***************************************************************************)
(* The order processor and the backends of the plugins, one at a time: a   *)
(* behaviour picks one and follows it while the others are off. They share *)
(* no state with each other. A property is one promise, made by every      *)
(* backend it names.                                                       *)
(***************************************************************************)
EXTENDS Integers, TLC

CONSTANTS
    Parts,   \* the components a behaviour may be about
    \* the orders of a federated resource
    MaxFoEvents,
    \* the resources of a MUP project, its components and people
    MupGrants, Components, MupPeople, PI, MaxMupEdits, MaxMupFaults,
    \* OpenNebula: the VDCs, and the pools of subnets
    VDCs, Pools, MaxOneEdits, MaxOneFaults,
    \* Rancher: the resources that share the groups of their project, and its people
    SharedClusters, Members, MaxRancherEdits, MaxRancherFaults,
    \* the import: Rancher projects, their names and their people
    Projects, Titles, Holders, MaxImportEdits, MaxImportFaults,
    \* the managed namespace
    NsRoles, DefaultRole, NsPeople, MaxNsEdits, MaxNsFaults,
    \* Nextcloud: the team folders, their guests and sizes
    Shares, Guests, Sizes, MaxNcEdits, MaxNcFaults,
    \* Harbor: the resources, the names tried and the quotas
    Registries, Candidates, DefaultQuota, Quotas, MaxHarborEdits, MaxHarborFaults

VARIABLES part,  \* the component this behaviour is about; the others are Off
          type, state, backendId, account, limits, proc, hiccups, faults, crashes,
          cancels,
          setup, offered, roleA, roleB, known, nameA, nameB, endA, endB, seen, clock,
          fedEdits, fedTroubles,
          source, bid, alive, remote, inbox, slips, issued, foHiccups,
          keys, assigned, held, stamp, chatAccount, job, chatSeen, shut, changes,
          chatFaults,
          mup, orders, wanted, primary, mupTeam, approved, foreign, kept, loyal,
          mupEdits, mupFaults,
          cluster, config, order, slurmWanted, level, customer, amount, months,
          own, cleanup, crossed, slurmEdits, breaks,
          one, vdcOrder, team, left, making, named, finished, loose, vm, vmOrder,
          oneEdits, oneFaults,
          rancher, group, parent, rLife, rNamed, sweep, rWanted, rTeam, signedIn,
          released, rEdits,
          rFaults,
          rps, granted, cr, pull, roleEvent, report, crdKnown, crdEdits, crdFaults,
          ranch, imported, waldurUsers, inventory, listing, todo, importEdits,
          importFaults,
          ns, kc, nsLife, nsLimit, nsNamed, nsFlags, seenFlags, roleOf, nsEvents,
          inKc, undeleted,
          nsEdits, nsFaults,
          tick, cuHeld, statsUp, readable, samples, submitted, outages,
          cloud, ncLife, ncRow, ncSeen, ncEdits, ncFaults,
          harbor, hLife, hTry, hId, hLimit, hDown, hEdits, hFaults

Off == "off"

SlurmConfigs ==
    {[mode |-> "swap", soft |-> FALSE], [mode |-> "swapDefault", soft |-> TRUE],
     [mode |-> "skip", soft |-> FALSE], [mode |-> "enforced", soft |-> FALSE]}

\* Orders of every type that two threads process with a synchronous backend.
Approved == INSTANCE OrderProcessor WITH Procs <- {"p1", "p2"},
    OrderTypes <- {"CREATE", "RESTORE", "UPDATE", "UPDATE_PLAN", "TERMINATE"},
    NameTries <- 2, RetryCount <- 2, MaxHiccups <- 2, MaxFaults <- 1,
    MaxCrashes <- 1, MaxCancels <- 1

\* Roles, usernames and end dates of a federated resource.
Fed == INSTANCE FederationSync WITH MaxFedEdits <- 3, MaxFedTroubles <- 1

\* The orders of a federated resource.
Orders == INSTANCE FederatedOrders WITH MaxEvents <- MaxFoEvents,
    hiccups <- foHiccups

\* The chat of a person with two keys.
Chat == INSTANCE LiteLLMChat WITH Keys <- {1, 2}, Models <- {"m1", "m2"},
    MaxChanges <- 1, MaxFaults <- 1, account <- chatAccount, seen <- chatSeen

\* The resources of one MUP project, its manager and its members.
Mup == INSTANCE MupBackend WITH Grants <- MupGrants, People <- MupPeople

\* SLURM: one allocation with more changes, and its convergence.
Slurm == INSTANCE SlurmBackend WITH Allocations <- {"r1"}, Configs <- SlurmConfigs,
    MaxEdits <- 3, MaxBreaks <- 1, wanted <- slurmWanted

\* OpenNebula: VDCs in a zone, and a VM.
One == INSTANCE OpenNebula

\* Rancher: resources that share the groups of their project.
Rancher == INSTANCE RancherBackend WITH Clusters <- SharedClusters

\* Rancher CRs: one ResourceProject pulled by the pass and by an event.
Crd == INSTANCE RancherCrd WITH Rps <- {"r1"}, Grantees <- {"p"},
    RoleMap <- {"admin"}, OtherRoles <- {"viewer"}, ApplyMaxRetries <- 2,
    MaxCrdEdits <- 3, MaxCrdFaults <- 1, known <- crdKnown

\* The import of Rancher projects that may be renamed.
Import == INSTANCE RancherImport

\* A managed namespace, its Keycloak groups and its people.
Ns == INSTANCE UtNamespace WITH People <- NsPeople

\* Storage metering over two months of three samples.
Meter == INSTANCE CroitUsage WITH MonthTicks <- 3, MaxHeld <- 1, MaxOutages <- 2,
    held <- cuHeld

\* Nextcloud: team folders with guests.
Cloud == INSTANCE NextcloudFolders

\* Harbor: resources that want the same project name.
Harbor == INSTANCE HarborRegistry

\* The names of the checked instance.
TwoNames == <<"a", "b">>

ASSUME Parameters ==
    /\ Chat!ChatParameters /\ Slurm!SlurmParameters /\ Mup!MupParameters
    /\ One!OneParameters /\ Import!ImportParameters /\ Cloud!NcParameters
    /\ Harbor!HarborParameters

ApprovedVars == <<type, state, backendId, account, limits, proc, hiccups, faults,
                  crashes, cancels>>
FedVars == <<setup, offered, roleA, roleB, known, nameA, nameB, endA, endB, seen,
             clock, fedEdits, fedTroubles>>
OrdersVars == <<source, bid, alive, remote, inbox, slips, issued, foHiccups>>
ChatVars == <<keys, assigned, held, stamp, chatAccount, job, chatSeen, shut, changes,
              chatFaults>>
MupVars == <<mup, orders, wanted, primary, mupTeam, approved, foreign, kept, loyal,
             mupEdits, mupFaults>>
SlurmVars == <<cluster, config, order, slurmWanted, level, customer, amount, months,
               own, cleanup, crossed, slurmEdits, breaks>>
OneVars == <<one, vdcOrder, team, left, making, named, finished, loose, vm, vmOrder,
             oneEdits, oneFaults>>
RancherVars == <<rancher, group, parent, rLife, rNamed, sweep, rWanted, rTeam, signedIn,
                 released,
                 rEdits, rFaults>>
CrdVars == <<rps, granted, cr, pull, roleEvent, report, crdKnown, crdEdits, crdFaults>>
ImportVars == <<ranch, imported, waldurUsers, inventory, listing, todo, importEdits,
                importFaults>>
NsVars == <<ns, kc, nsLife, nsLimit, nsNamed, nsFlags, seenFlags, roleOf, nsEvents,
          inKc, undeleted,
            nsEdits, nsFaults>>
MeterVars == <<tick, cuHeld, statsUp, readable, samples, submitted, outages>>
CloudVars == <<cloud, ncLife, ncRow, ncSeen, ncEdits, ncFaults>>
HarborVars == <<harbor, hLife, hTry, hId, hLimit, hDown, hEdits, hFaults>>
vars == <<part, ApprovedVars, FedVars, OrdersVars, ChatVars, MupVars, SlurmVars,
                OneVars, RancherVars, CrdVars, ImportVars, NsVars, MeterVars,
                CloudVars, HarborVars>>

Init ==
    /\ part \in Parts
    /\ IF part = "approved" THEN Approved!OrderInit
       ELSE type = Off /\ state = Off /\ backendId = Off /\ account = Off /\
            limits = Off /\ proc = Off /\ hiccups = Off /\ faults = Off /\
            crashes = Off /\ cancels = Off
    /\ IF part = "federation" THEN Fed!FedInit
       ELSE setup = Off /\ offered = Off /\ roleA = Off /\ roleB = Off /\
            known = Off /\ nameA = Off /\ nameB = Off /\ endA = Off /\ endB = Off /\
            seen = Off /\ clock = Off /\ fedEdits = Off /\ fedTroubles = Off
    /\ IF part = "orders" THEN Orders!OrdersInit
       ELSE source = Off /\ bid = Off /\ alive = Off /\ remote = Off /\
            inbox = Off /\ slips = Off /\ issued = Off /\ foHiccups = Off
    /\ IF part = "chat" THEN Chat!ChatInit
       ELSE keys = Off /\ assigned = Off /\ held = Off /\ stamp = Off /\
            chatAccount = Off /\ job = Off /\ chatSeen = Off /\ shut = Off /\
            changes = Off /\ chatFaults = Off
    /\ IF part = "mup" THEN Mup!MupInit
       ELSE mup = Off /\ orders = Off /\ wanted = Off /\ primary = Off /\
            mupTeam = Off /\ approved = Off /\ foreign = Off /\ kept = Off /\
            loyal = Off /\ mupEdits = Off /\ mupFaults = Off
    /\ IF part = "slurm" THEN Slurm!SlurmInit
       ELSE cluster = Off /\ config = Off /\ order = Off /\ slurmWanted = Off /\
            level = Off /\ customer = Off /\ amount = Off /\ months = Off /\
            own = Off /\ cleanup = Off /\ crossed = Off /\
            slurmEdits = Off /\ breaks = Off
    /\ IF part = "one" THEN One!OneInit
       ELSE one = Off /\ vdcOrder = Off /\ team = Off /\ left = Off /\
            making = Off /\ named = Off /\ finished = Off /\ loose = Off /\ vm = Off /\
            vmOrder = Off /\ oneEdits = Off /\ oneFaults = Off
    /\ IF part = "rancher" THEN Rancher!RancherInit
       ELSE rancher = Off /\ group = Off /\ parent = Off /\ rLife = Off /\
            rNamed = Off /\ sweep = Off /\ rWanted = Off /\ rTeam = Off /\ signedIn = Off /\ released = Off /\
            rEdits = Off /\ rFaults = Off
    /\ IF part = "crd" THEN Crd!CrdInit
       ELSE rps = Off /\ granted = Off /\ cr = Off /\ pull = Off /\
            roleEvent = Off /\ report = Off /\ crdKnown = Off /\ crdEdits = Off /\
            crdFaults = Off
    /\ IF part = "import" THEN Import!ImportInit
       ELSE ranch = Off /\ imported = Off /\ waldurUsers = Off /\ inventory = Off /\
            listing = Off /\ todo = Off /\ importEdits = Off /\ importFaults = Off
    /\ IF part = "namespace" THEN Ns!NsInit
       ELSE ns = Off /\ kc = Off /\ nsLife = Off /\ nsLimit = Off /\
            nsNamed = Off /\ nsFlags = Off /\ seenFlags = Off /\ undeleted = Off /\
            roleOf = Off /\ nsEvents = Off /\
            inKc = Off /\ nsEdits = Off /\ nsFaults = Off
    /\ IF part = "meter" THEN Meter!MeterInit
       ELSE tick = Off /\ cuHeld = Off /\ statsUp = Off /\ readable = Off /\
            samples = Off /\ submitted = Off /\ outages = Off
    /\ IF part = "nextcloud" THEN Cloud!NcInit
       ELSE cloud = Off /\ ncLife = Off /\ ncRow = Off /\ ncSeen = Off /\
            ncEdits = Off /\ ncFaults = Off
    /\ IF part = "harbor" THEN Harbor!HarborInit
       ELSE harbor = Off /\ hLife = Off /\ hTry = Off /\ hId = Off /\ hLimit = Off /\
            hDown = Off /\ hEdits = Off /\ hFaults = Off

Step(name) == part = name /\ UNCHANGED part

Next ==
    \/ /\ Step("approved") /\ Approved!OrderNext
       /\ UNCHANGED <<FedVars, OrdersVars, ChatVars, MupVars, SlurmVars, OneVars,
                       RancherVars, CrdVars, ImportVars, NsVars, MeterVars,
                       CloudVars, HarborVars>>
    \/ /\ Step("federation") /\ Fed!FedNext
       /\ UNCHANGED <<ApprovedVars, OrdersVars, ChatVars, MupVars, SlurmVars,
                       OneVars, RancherVars, CrdVars, ImportVars, NsVars, MeterVars,
                       CloudVars, HarborVars>>
    \/ /\ Step("orders") /\ Orders!OrdersNext
       /\ UNCHANGED <<ApprovedVars, FedVars, ChatVars, MupVars, SlurmVars, OneVars,
                       RancherVars, CrdVars, ImportVars, NsVars, MeterVars,
                       CloudVars, HarborVars>>
    \/ /\ Step("chat") /\ Chat!ChatNext
       /\ UNCHANGED <<ApprovedVars, FedVars, OrdersVars, MupVars, SlurmVars, OneVars,
                       RancherVars, CrdVars, ImportVars, NsVars, MeterVars,
                       CloudVars, HarborVars>>
    \/ /\ Step("mup") /\ Mup!MupNext
       /\ UNCHANGED <<ApprovedVars, FedVars, OrdersVars, ChatVars, SlurmVars,
                       OneVars, RancherVars, CrdVars, ImportVars, NsVars, MeterVars,
                       CloudVars, HarborVars>>
    \/ /\ Step("slurm") /\ Slurm!SlurmNext
       /\ UNCHANGED <<ApprovedVars, FedVars, OrdersVars, ChatVars, MupVars, OneVars,
                       RancherVars, CrdVars, ImportVars, NsVars, MeterVars,
                       CloudVars, HarborVars>>
    \/ /\ Step("one") /\ One!OneNext
       /\ UNCHANGED <<ApprovedVars, FedVars, OrdersVars, ChatVars, MupVars,
                       SlurmVars, RancherVars, CrdVars, ImportVars, NsVars,
                       MeterVars, CloudVars, HarborVars>>
    \/ /\ Step("rancher") /\ Rancher!RancherNext
       /\ UNCHANGED <<ApprovedVars, FedVars, OrdersVars, ChatVars, MupVars,
                       SlurmVars, OneVars, CrdVars, ImportVars, NsVars, MeterVars,
                       CloudVars, HarborVars>>
    \/ /\ Step("crd") /\ Crd!CrdNext
       /\ UNCHANGED <<ApprovedVars, FedVars, OrdersVars, ChatVars, MupVars,
                       SlurmVars, OneVars, RancherVars, ImportVars, NsVars,
                       MeterVars, CloudVars, HarborVars>>
    \/ /\ Step("import") /\ Import!ImportNext
       /\ UNCHANGED <<ApprovedVars, FedVars, OrdersVars, ChatVars, MupVars,
                       SlurmVars, OneVars, RancherVars, CrdVars, NsVars, MeterVars,
                       CloudVars, HarborVars>>
    \/ /\ Step("namespace") /\ Ns!NsNext
       /\ UNCHANGED <<ApprovedVars, FedVars, OrdersVars, ChatVars, MupVars,
                       SlurmVars, OneVars, RancherVars, CrdVars, ImportVars,
                       MeterVars, CloudVars, HarborVars>>
    \/ /\ Step("meter") /\ Meter!MeterNext
       /\ UNCHANGED <<ApprovedVars, FedVars, OrdersVars, ChatVars, MupVars,
                       SlurmVars, OneVars, RancherVars, CrdVars, ImportVars, NsVars,
                       CloudVars, HarborVars>>
    \/ /\ Step("nextcloud") /\ Cloud!NcNext
       /\ UNCHANGED <<ApprovedVars, FedVars, OrdersVars, ChatVars, MupVars,
                       SlurmVars, OneVars, RancherVars, CrdVars, ImportVars, NsVars,
                       MeterVars, HarborVars>>
    \/ /\ Step("harbor") /\ Harbor!HarborNext
       /\ UNCHANGED <<ApprovedVars, FedVars, OrdersVars, ChatVars, MupVars,
                       SlurmVars, OneVars, RancherVars, CrdVars, ImportVars, NsVars,
                       MeterVars, CloudVars>>

Fairness ==
    \* approved: the polling cycle, the messages and the periodic reconciliation take
    \* an unfinished order up again and again, and every thread goes on
    /\ \A p \in {"p1", "p2"} : WF_ApprovedVars(part = "approved" /\ Approved!Work(p))
    \* federation: every membership pass takes each of these steps
    /\ WF_FedVars(part = "federation" /\ Fed!SyncUserProfiles)
    /\ WF_FedVars(part = "federation" /\ Fed!AddUsersToResource)
    /\ WF_FedVars(part = "federation" /\ Fed!RemoveUsersFromResource)
    /\ WF_FedVars(part = "federation" /\ Fed!ReconcileExistingUserRoles)
    /\ WF_FedVars(part = "federation" /\ Fed!SyncOfferingUserUsernames)
    /\ WF_FedVars(part = "federation" /\ Fed!FetchResources)
    /\ WF_FedVars(part = "federation" /\ Fed!SyncResourceEndDate)
    /\ WF_FedVars(part = "federation" /\ Fed!SyncProjectEndDate)
    \* orders: the agent polls its orders, and B's provider works on its own
    /\ WF_OrdersVars(part = "orders" /\ Orders!PollAsyncTargetOrder)
    /\ WF_OrdersVars(part = "orders" /\ Orders!ProcessCreateOrder)
    /\ WF_OrdersVars(part = "orders" /\ Orders!ProcessUpdateOrder)
    /\ WF_OrdersVars(part = "orders" /\ Orders!ProcessTerminateOrder)
    /\ \A i \in 1 .. MaxFoEvents :
          WF_OrdersVars(part = "orders" /\ i \in DOMAIN remote.orders /\ Orders!FinishTarget(i))
    \* chat: the membership pass recurs, and a started call returns
    /\ WF_ChatVars(part = "chat" /\ (Chat!PassStep \/ Chat!ApplyStep("pass")))
    /\ WF_ChatVars(part = "chat" /\ (Chat!ApplyStep("command") \/ Chat!Unstamp))
    \* mup: pending orders are tried on every poll, and passes come again
    /\ \A r \in MupGrants : WF_MupVars(part = "mup" /\ Mup!CreateResource(r))
    /\ \A r \in MupGrants : WF_MupVars(part = "mup" /\ Mup!SyncMembers(r))
    \* slurm: orders are processed and every membership pass syncs the allocation
    /\ WF_SlurmVars(part = "slurm" /\ Slurm!CreateResourceWithId("r1"))
    /\ WF_SlurmVars(part = "slurm" /\ Slurm!PreCreateResource("r1"))
    /\ WF_SlurmVars(part = "slurm" /\ Slurm!DeleteResource("r1"))
    /\ WF_SlurmVars(part = "slurm" /\ Slurm!ListProject("r1"))
    /\ WF_SlurmVars(part = "slurm" /\ Slurm!DropProject("r1"))
    /\ WF_SlurmVars(part = "slurm" /\ Slurm!SyncResourceProject("r1"))
    /\ WF_SlurmVars(part = "slurm" /\ Slurm!AddUser("r1"))
    /\ WF_SlurmVars(part = "slurm" /\ Slurm!RemoveUser("r1"))
    /\ WF_SlurmVars(part = "slurm" /\ Slurm!SyncResourceStatus("r1"))
    /\ WF_SlurmVars(part = "slurm" /\ Slurm!SyncResourceEndDate("r1"))
    \* one: orders are processed and every membership pass syncs every VDC
    /\ WF_OneVars(part = "one" /\ One!CreateVm)
    /\ \A v \in VDCs : WF_OneVars(part = "one" /\ One!StartVdc(v))
    /\ \A v \in VDCs : WF_OneVars(part = "one" /\ One!CreateVdcResource(v))
    /\ \A v \in VDCs : WF_OneVars(part = "one" /\ One!RefuseVdc(v))
    /\ \A v \in VDCs : WF_OneVars(part = "one" /\ One!DeleteVdcResource(v))
    /\ \A v \in VDCs : WF_OneVars(part = "one" /\ One!AddUser(v))
    /\ \A v \in VDCs : WF_OneVars(part = "one" /\ One!RemoveUser(v))
    \* rancher: orders are processed, and the passes of a resource come again
    /\ \A r \in SharedClusters : WF_RancherVars(part = "rancher" /\ Rancher!CreateResourceWithId(r))
    /\ \A r \in SharedClusters : WF_RancherVars(part = "rancher" /\ Rancher!DeleteResource(r))
    /\ \A r \in SharedClusters, p \in Members : WF_RancherVars(part = "rancher" /\ Rancher!AddUser(r, p))
    /\ \A r \in SharedClusters, p \in Members : WF_RancherVars(part = "rancher" /\ Rancher!RemoveUser(r, p))
    /\ \A r \in SharedClusters : WF_RancherVars(part = "rancher" /\ Rancher!PullResource(r))
    /\ \A r \in SharedClusters : WF_RancherVars(part = "rancher" /\ Rancher!ListGroupMembers(r))
    /\ \A r \in SharedClusters : WF_RancherVars(part = "rancher" /\ Rancher!DeleteProjectGroupRole(r))
    /\ \A r \in SharedClusters : WF_RancherVars(part = "rancher" /\ Rancher!DeleteGroup(r))
    \* crd: the pass recurs, the listener handles its events, the operator reconciles
    /\ \A i \in {"pass", "event"} : WF_CrdVars(part = "crd" /\ Crd!PullSteps(i))
    /\ WF_CrdVars(part = "crd" /\ Crd!OperatorReconciles("r1"))
    \* import: the operator of the agent runs both commands again
    /\ WF_ImportVars(part = "import" /\ Import!CmdApply)
    /\ WF_ImportVars(part = "import" /\ Import!ImportStep)
    \* namespace: orders and events are processed, and passes come again
    /\ WF_NsVars(part = "namespace" /\ Ns!CreateResourceWithId)
    /\ WF_NsVars(part = "namespace" /\ Ns!DeleteResource)
    /\ WF_NsVars(part = "namespace" /\ Ns!ReadsStatus)
    /\ WF_NsVars(part = "namespace" /\ Ns!AppliesStatus)
    /\ WF_NsVars(part = "namespace" /\ Ns!SyncsEmptyTeam)
    /\ \A u \in NsPeople : WF_NsVars(part = "namespace" /\ Ns!AddUsersToResource(u))
    /\ \A u \in NsPeople : WF_NsVars(part = "namespace" /\ Ns!RemovesStale(u))
    /\ \A u \in NsPeople : WF_NsVars(part = "namespace" /\ Ns!RoleEvent(u))
    \* meter: the report cycle computes every month in its window again
    /\ \A m \in Meter!Months : WF_MeterVars(part = "meter" /\ Meter!ReportsUsage(m))
    \* nextcloud: orders are processed, and passes come again
    /\ \A r \in Shares : WF_CloudVars(part = "nextcloud" /\ Cloud!NcPass(r))
    /\ \A r \in Shares : WF_CloudVars(part = "nextcloud" /\ Cloud!RecordFolder(r))
    /\ \A r \in Shares : WF_CloudVars(part = "nextcloud" /\ Cloud!CreateResource(r))
    \* harbor: passes come again, and not each of them fails
    /\ \A r \in Registries : WF_HarborVars(part = "harbor" /\ Harbor!SyncStatus(r) /\ Harbor!Smoothly)
    /\ \A r \in Registries : WF_HarborVars(part = "harbor" /\ Harbor!SyncResourceLimits(r))
    /\ SF_ImportVars(part = "import" /\ Import!CmdInventory)

Spec == Init /\ [][Next]_vars /\ Fairness
-----------------------------------------------------------------------------
\* Each component keeps the types its module declares.
TypeOK ==
    /\ part \in Parts
    /\ part = "approved" => Approved!OrderTypeOK
    /\ part = "federation" => Fed!FedTypeOK
    /\ part = "orders" => Orders!OrdersTypeOK
    /\ part = "chat" => Chat!ChatTypeOK
    /\ part = "mup" => Mup!MupTypeOK
    /\ part = "slurm" => Slurm!SlurmTypeOK
    /\ part = "one" => One!OneTypeOK
    /\ part = "rancher" => Rancher!RancherTypeOK
    /\ part = "crd" => Crd!CrdTypeOK
    /\ part = "import" => Import!ImportTypeOK
    /\ part = "namespace" => Ns!NsTypeOK
    /\ part = "meter" => Meter!MeterTypeOK
    /\ part = "nextcloud" => Cloud!NcTypeOK
    /\ part = "harbor" => Harbor!HarborTypeOK

\* What Waldur shows as done is there, it is the resource's own, and it is the one
\* Waldur names, whichever calls fail: but for the slips that DoneIsDone names, and
\* for a subnet that was taken unseen.
OkHasItsOwn ==
    \* the target did it (check_pending_order)
    /\ part = "orders" => Orders!DoneIsDone
    \* the allocation the backend id names (post_create_resource)
    /\ part = "mup" => Mup!PrimaryFollows
    \* the folder with its group (create_resource)
    /\ part = "nextcloud" => Cloud!OkIsLinked
    \* a project made for it (_is_marked_for)
    /\ part = "harbor" => Harbor!OkHasProject
    \* its subnet (_allocate_next_subnet)
    /\ part = "one" => One!SubnetsDisjoint
    \* one ResourceProject per name and project (import_cluster)
    /\ part = "import" => Import!NoTwins

\* A terminated resource leaves nothing at the backend, though orders are in
\* flight and calls fail (delete_resource): but for a lookup that failed and counted
\* as not found, and for what a failed creation left without an id in Waldur.
NothingLeftBehind ==
    \* no resource at the target (_adopt_in_flight_terminate_order)
    /\ part = "orders" => Orders!NothingLeftBehind
    \* no network
    /\ part = "one" => One!NetworkGone
    \* no namespace
    /\ part = "namespace" => Ns!NamespaceGone

\* No order waits for ever, whatever attempt, thread, process or event fails.
OrdersEnd ==
    \* an approved order is taken up again (process_order_with_retries)
    /\ []<>(part = "approved" => state # "EXECUTING")
    \* an order at the target is polled (check_pending_order)
    /\ []<>(part = "orders" => source.state # "executing")
    \* one that waits for a manager, once there is one (BackendNotReadyError)
    /\ <>[](part = "mup" => Mup!NobodyWaits)

\* With no more changes the people at the backend are the team of the resource.
TeamsSettle ==
    \* roles and usernames (reconcile_existing_user_roles)
    <>[](/\ part = "federation" => Fed!RolesMatch /\ Fed!NamesMatch
         \* members of the project (add_users_to_resource)
         /\ part = "mup" => Mup!MupMembersMatch
         \* groups of a VDC (add_user)
         /\ part = "one" => One!VdcTeamIsIn
         \* a Keycloak group two resources share (add_user, remove_user)
         /\ part = "rancher" => Rancher!GroupMatches
         \* role groups and the lists of the CR (_sync_users_to_cr)
         /\ part = "namespace" => Ns!NsRolesMatch /\ Ns!ListsMatch
         \* guests of a folder (add_users_to_resource)
         /\ part = "nextcloud" => Cloud!GuestsMatch)

\* With no more changes limits, dates, flags (paused and downscaled, where a backend
\* has them) and custom resources at the backend are those of Waldur.
SettingsFollow ==
    \* end dates (_decide_end_date_sync_direction)
    <>[](/\ part = "federation" => Fed!EndDatesMatch
         \* the chat and the key that carries it (_apply_key_chat)
         /\ part = "chat" => Chat!InLine
         \* limits, QoS and end date (sync_resource_project)
         /\ part = "slurm" => Slurm!SlurmSettled
         \* the CRs and their status (pull_resource, CrdClient.apply)
         /\ part = "crd" => Crd!CrsMatch /\ Crd!StatusMatches
         \* an import that is run again (import_cluster)
         /\ part = "import" => Import!ImportComplete
         \* a paused or downscaled quota (pause_resource, downscale_resource)
         /\ part = "namespace" => Ns!FlagsHold
         \* the figure of a month (get_usage_report_for_period)
         /\ part = "meter" => Meter!MonthSettled
         \* quota by limit and flags (sync_resource_limits)
         /\ part = "nextcloud" => Cloud!QuotaMatches
         \* the quota Waldur is told (sync_waldur_resource_limits)
         /\ part = "harbor" => Harbor!LimitsMatch)

\* A step never takes what belongs to another resource, an earlier run or the
\* site: but for a member who joins the shared group after its clean-up listed it.
OthersKept ==
    \* projects of the site (create_resource_with_id)
    [][/\ part = "harbor" => Harbor!SiteProjectsKept
       \* what earlier runs recorded (_record_backend_id, _apply_grants)
       /\ part = "import" => Import!ImportKeeps
       \* the shared group (_cleanup_empty_keycloak_groups)
       /\ part = "rancher" => Rancher!GroupKeepsTeam]_vars

\* A step never opens more than it should when calls fail or data is missing: the
\* chat but for a restoration after a failed call, see ChatFailsClosed.
FailsSafe ==
    \* the chat gives nothing that the key does not allow (_apply_key_chat)
    [][/\ part = "chat" => Chat!OpensNarrow
       \* a figure does not shrink (_apply_usage_policy)
       /\ part = "meter" => Meter!AccrualNeverDrops]_vars

\* A failed Open WebUI call leaves the account closed, never serving with the groups
\* an earlier, wider key left it in (_apply_key_chat).
ChatFailsClosed == [][part = "chat" => Chat!FailedCallCloses]_vars

=============================================================================
