----------------------------- MODULE MC_Agent ------------------------------
(***************************************************************************)
(* The passes of the agent's core and its LDAP plugins, one component at a *)
(* time: a behaviour picks a component and follows it while the others are *)
(* off. Two instances of one module share its variables. A property is one *)
(* promise, made by every component it names.                              *)
(***************************************************************************)
EXTENDS Integers, TLC

CONSTANTS
    Parts,   \* the components a behaviour may be about
    \* the log shippers
    Agents, MaxSize, Large, BatchSize, Retries, MaxEntries,
    \* the usernames
    Holders, Namers, MaxIdpChanges, MaxNameFaults,
    \* the members of a resource: of its team, its service accounts and others
    TeamUsers, ServiceAccounts, Outsiders, MaxEdits, MaxTroubles,
    \* the usage reports
    Components, Periods, DaysPerMonth, FinalReportDays, MaxDay, MaxUse, MaxMishaps,
    \* the project groups
    Groups, GroupUsers, Gid, Foreign, HandMade, Adopt, MaxGroupChanges, MaxGroupFaults,
    MaxWaiting,
    \* the LDAP accounts: of the persons two passes rename at once, and of those who may
    \* take each other's names
    Racers, Swappers, PosixNames, WaldurNames, FirstAccount, UidNumber, OnMismatch,
    EventThreads, MaxRaceChanges, MaxSwapChanges, MaxAccountFaults,
    \* the role groups
    Holdings, Duties, Common, Fellows, Pullers, MaxLrEdits, MaxLrFaults

VARIABLES part,  \* the component this behaviour is about; the others are Off
          buffer, logged, warn, load, attempt, event, alive, client, at, step,
          received, lost, due,
          rows, answer, allowed, todo, nameAt, idpChanges, nameFaults,
          state, role, inbox, assoc, account, thread, worker, grants, notices,
          faults, hiccups, crashes,
          team, live, restricted, flag, syncState, members, applied, preserve, run,
          status, mail, absent, edits, troubles,
          day, used, filed, parts, pass, loader, keyUsed, keyFiled, keyPeriod,
          takesClosed, omit, sent, uses, mishaps,
          row, paused, proxy, msgs, late, keyWorker, secrets, requests, keyFaults,
          stray, raced,
          waldur, entry, parent, people, groupMail, pending, ready, waiting, pc,
          snap, groupTodo, managed, untouchable, job, changes, groupFaults, unread,
          owed, unwanted,
          accAccount, ldap, access, proc, accChanges, accFaults, known, overtaken,
          held, heirs,
          lrEntry, lrGrants, inLdap, lrLife, pulls, statuses, lrEdits, lrFaults

Off == "off"

\* Log shippers, the buffer they share and the shutdown.
Logs == INSTANCE LogShipping

\* Usernames, given by the cycle and by an event at the same time.
Naming == INSTANCE UsernameGeneration WITH at <- nameAt

\* Offering users: a person torn down by the sweep and by an event, and restored.
Teardown == INSTANCE OfferingUserTeardown WITH Resources <- {"r1"},
    Sweeper <- "main", Events <- "event", OneAtATime <- FALSE, MaxNotices <- 1,
    MaxGrants <- 1, MaxUserFaults <- 1, MaxUserHiccups <- 1, MaxUserCrashes <- 1,
    userState <- state, userAccount <- account, eventTask <- worker, updates <- notices,
    userFaults <- faults, userHiccups <- hiccups, userCrashes <- crashes

\* Membership: users, service accounts, and people the site added by hand.
Team == INSTANCE MembershipSync WITH Users <- TeamUsers, Accounts <- ServiceAccounts,
    MaxChanges <- MaxEdits, state <- syncState

\* Usage: an anomaly leaves out the component it is about, or stops the report of
\* its month.
Usage == INSTANCE UsageReports

\* API keys: one of them, its commands until they settle.
ApiKeys == INSTANCE ApiKeyCommands WITH Rows <- {"r1"}, Slots <- {1, 2, 3},
    Enterprise <- FALSE, MaxRequests <- 3, MaxFaults <- 1, worker <- keyWorker,
    faults <- keyFaults

\* Project groups and their parent, with failures.
Projects == INSTANCE LdapProjectGroups WITH Users <- GroupUsers,
    MaxChanges <- MaxGroupChanges, MaxFaults <- MaxGroupFaults, mail <- groupMail,
    todo <- groupTodo, faults <- groupFaults

\* The GID of the one group the runs have.
GidOfA == "a" :> 1

\* What Waldur has of the persons of a run at first.
AccountsOfPQ == "p" :> [name |-> "a", key |-> "k1"] @@ "q" :> [name |-> "b", key |-> "k2"]
NumbersOfPQ == "p" :> 1 @@ "q" :> 2

RaceStart == [p \in Racers |-> FirstAccount[p]]
RaceUids == [p \in Racers |-> UidNumber[p]]
SwapStart == [p \in Swappers |-> FirstAccount[p]]
SwapUids == [p \in Swappers |-> UidNumber[p]]

\* Accounts: the cycle and events rename a person.  This instance and the next bring
\* the theorems about the module along.
Race == INSTANCE LdapAccounts_proofs WITH Persons <- Racers, Names <- PosixNames,
    Keys <- WaldurNames, Writers <- {"cycle"} \cup EventThreads, Start <- RaceStart,
    Uid <- RaceUids, Policy <- OnMismatch, MaxChanges <- MaxRaceChanges,
    MaxFaults <- MaxAccountFaults, MaxTroubles <- MaxRaceChanges,
    account <- accAccount, changes <- accChanges, faults <- accFaults

\* Accounts: persons who may take each other's names.
Swap == INSTANCE LdapAccounts_proofs WITH Persons <- Swappers, Names <- PosixNames,
    Keys <- WaldurNames, Writers <- {"cycle"}, Start <- SwapStart,
    Uid <- SwapUids, Policy <- OnMismatch, MaxChanges <- MaxSwapChanges,
    MaxFaults <- MaxAccountFaults, MaxTroubles <- MaxSwapChanges,
    account <- accAccount, changes <- accChanges, faults <- accFaults

\* Role groups, some roles rendering the same name for all resources.
Roles == INSTANCE LdapRoleGroups WITH entry <- lrEntry, grants <- lrGrants

ASSUME Parameters ==
    /\ Logs!Parameters
    /\ Usage!ReportParameters
    /\ ApiKeys!KeyParameters
    /\ Projects!GroupParameters
    /\ Race!AccountParameters
    /\ Swap!AccountParameters
    /\ Roles!LrParameters

LogsVars == <<buffer, logged, warn, load, attempt, event, alive, client, at, step,
              received, lost, due>>
NamingVars == <<rows, answer, allowed, todo, nameAt, idpChanges, nameFaults>>
TeardownVars == <<state, role, inbox, assoc, account, thread, worker, grants,
                  notices, faults, hiccups, crashes>>
TeamVars == <<team, live, restricted, flag, syncState, members, applied, preserve,
              run, status, mail, absent, edits, troubles>>
UsageVars == <<day, used, filed, parts, pass, loader, keyUsed, keyFiled, keyPeriod,
               takesClosed, omit, sent, uses, mishaps>>
ApiKeysVars == <<row, paused, proxy, msgs, late, keyWorker, secrets, requests,
                 keyFaults, stray, raced>>
ProjectGroupsVars == <<waldur, entry, parent, people, groupMail, pending, ready,
                       waiting, pc, snap, groupTodo, managed, untouchable, job,
                       changes, groupFaults, unread, owed, unwanted>>
RaceVars == <<accAccount, ldap, access, proc, accChanges, accFaults, known,
              overtaken, held, heirs>>
RolesVars == <<lrEntry, lrGrants, inLdap, lrLife, pulls, statuses, lrEdits, lrFaults>>
vars == <<part, LogsVars, NamingVars, TeardownVars, TeamVars, UsageVars, ApiKeysVars,
                ProjectGroupsVars, RaceVars, RolesVars>>

Init ==
    /\ part \in Parts
    /\ IF part = "logs" THEN Logs!LogInit
       ELSE buffer = Off /\ logged = Off /\ warn = Off /\ load = Off /\
            attempt = Off /\ event = Off /\ alive = Off /\ client = Off /\
            at = Off /\ step = Off /\ received = Off /\ lost = Off /\ due = Off
    /\ IF part = "names" THEN Naming!NameInit
       ELSE rows = Off /\ answer = Off /\ allowed = Off /\ todo = Off /\
            nameAt = Off /\ idpChanges = Off /\ nameFaults = Off
    /\ IF part = "restore" THEN Teardown!TeardownInit
       ELSE state = Off /\ role = Off /\ inbox = Off /\ assoc = Off /\
            account = Off /\ thread = Off /\ worker = Off /\ grants = Off /\
            notices = Off /\ faults = Off /\ hiccups = Off /\ crashes = Off
    /\ IF part = "team" THEN Team!SyncInit
       ELSE team = Off /\ live = Off /\ restricted = Off /\ flag = Off /\
            syncState = Off /\ members = Off /\ applied = Off /\ preserve = Off /\
            run = Off /\ status = Off /\ mail = Off /\ absent = Off /\ edits = Off /\
            troubles = Off
    /\ IF part = "usage" THEN Usage!ReportInit
       ELSE day = Off /\ used = Off /\ filed = Off /\ parts = Off /\ pass = Off /\
            loader = Off /\ keyUsed = Off /\ keyFiled = Off /\ keyPeriod = Off /\
            takesClosed = Off /\ omit = Off /\ sent = Off /\ uses = Off /\ mishaps = Off
    /\ IF part = "keys" THEN ApiKeys!KeyInit
       ELSE row = Off /\ paused = Off /\ proxy = Off /\ msgs = Off /\ late = Off /\
            keyWorker = Off /\ secrets = Off /\ requests = Off /\ keyFaults = Off /\
            stray = Off /\ raced = Off
    /\ IF part = "groups" THEN Projects!GroupInit
       ELSE waldur = Off /\ entry = Off /\ parent = Off /\ people = Off /\
            groupMail = Off /\ pending = Off /\ ready = Off /\ waiting = Off /\
            pc = Off /\ snap = Off /\ groupTodo = Off /\ managed = Off /\
            untouchable = Off /\ job = Off /\ changes = Off /\ groupFaults = Off /\
            unread = Off /\ owed = Off /\ unwanted = Off
    /\ IF part = "race" THEN Race!AccountInit
       ELSE IF part = "swap" THEN Swap!AccountInit
       ELSE accAccount = Off /\ ldap = Off /\ access = Off /\ proc = Off /\
            accChanges = Off /\ accFaults = Off /\ known = Off /\ overtaken = Off /\
            held = Off /\ heirs = Off
    /\ IF part = "roles" THEN Roles!LrInit
       ELSE lrEntry = Off /\ lrGrants = Off /\ inLdap = Off /\ lrLife = Off /\
            pulls = Off /\ statuses = Off /\ lrEdits = Off /\ lrFaults = Off

Step(name) == part = name /\ UNCHANGED part

Next ==
    \/ /\ Step("logs") /\ Logs!LogNext
       /\ UNCHANGED <<NamingVars, TeardownVars, TeamVars, UsageVars, ApiKeysVars,
                       ProjectGroupsVars, RaceVars, RolesVars>>
    \/ /\ Step("names") /\ Naming!NameNext
       /\ UNCHANGED <<LogsVars, TeardownVars, TeamVars, UsageVars, ApiKeysVars,
                       ProjectGroupsVars, RaceVars, RolesVars>>
    \/ /\ Step("restore") /\ Teardown!TeardownNext
       /\ UNCHANGED <<LogsVars, NamingVars, TeamVars, UsageVars, ApiKeysVars,
                       ProjectGroupsVars, RaceVars, RolesVars>>
    \/ /\ Step("team") /\ Team!SyncNext
       /\ UNCHANGED <<LogsVars, NamingVars, TeardownVars, UsageVars, ApiKeysVars,
                       ProjectGroupsVars, RaceVars, RolesVars>>
    \/ /\ Step("usage") /\ Usage!ReportNext
       /\ UNCHANGED <<LogsVars, NamingVars, TeardownVars, TeamVars, ApiKeysVars,
                       ProjectGroupsVars, RaceVars, RolesVars>>
    \/ /\ Step("keys") /\ ApiKeys!KeyNext
       /\ UNCHANGED <<LogsVars, NamingVars, TeardownVars, TeamVars, UsageVars,
                       ProjectGroupsVars, RaceVars, RolesVars>>
    \/ /\ Step("groups") /\ Projects!GroupNext
       /\ UNCHANGED <<LogsVars, NamingVars, TeardownVars, TeamVars, UsageVars,
                       ApiKeysVars, RaceVars, RolesVars>>
    \/ /\ Step("race") /\ Race!AccountNext
       /\ UNCHANGED <<LogsVars, NamingVars, TeardownVars, TeamVars, UsageVars,
                       ApiKeysVars, ProjectGroupsVars, RolesVars>>
    \/ /\ Step("swap") /\ Swap!AccountNext
       /\ UNCHANGED <<LogsVars, NamingVars, TeardownVars, TeamVars, UsageVars,
                       ApiKeysVars, ProjectGroupsVars, RolesVars>>
    \/ /\ Step("roles") /\ Roles!LrNext
       /\ UNCHANGED <<LogsVars, NamingVars, TeardownVars, TeamVars, UsageVars,
                       ApiKeysVars, ProjectGroupsVars, RaceVars>>

Fairness ==
    \* logs: a shutdown goes on, since a request ends by its timeout; nothing is
    \* assumed of the shipping threads
    /\ WF_LogsVars(part = "logs" /\ (\/ Logs!ShipBatch(Logs!Main)
                                     \/ Logs!Joined
                                     \/ Logs!CloseClient
                                     \/ Logs!DropClient))
    \* names: both loops come round again
    /\ \A t \in Namers : WF_NamingVars(part = "names" /\ Naming!NameStep(t))
    \* restore: the sweep and the profile sync recur, messages are handled, and what
    \* was begun goes on
    /\ \A t \in {"main", "event"} : WF_TeardownVars(part = "restore" /\ Teardown!Teardown(t))
    /\ WF_TeardownVars(part = "restore" /\ Teardown!Begin)
    /\ WF_TeardownVars(part = "restore" /\ Teardown!SyncProfiles)
    /\ WF_TeardownVars(part = "restore" /\ Teardown!HandleMessages)
    /\ WF_TeardownVars(part = "restore" /\ Teardown!RequestDeletion)
    \* team: passes recur, an event is handled or lost, a begun pass goes on
    /\ WF_TeamVars(part = "team" /\ Team!PassSteps)
    /\ WF_TeamVars(part = "team" /\ Team!Deliver)
    /\ WF_TeamVars(part = "team" /\ Team!ReconcileResourceStatus)
    \* usage: the report cycle runs every 30 minutes, and days pass
    /\ WF_UsageVars(part = "usage" /\ Usage!PassStep)
    /\ WF_UsageVars(part = "usage" /\ Usage!NextDay)
    /\ WF_UsageVars(part = "usage" /\ Usage!SubmitResourceUsage)
    /\ WF_UsageVars(part = "usage" /\ Usage!SubmitUserUsage)
    \* keys: messages are handled and what was begun goes on
    /\ \A w \in ApiKeys!Workers : WF_ApiKeysVars(part = "keys" /\ ApiKeys!Work(w))
    /\ WF_ApiKeysVars(part = "keys" /\ ApiKeys!OnMessage)
    \* groups: the worker, the timer thread, the pass and the periodic cycle go on
    /\ WF_ProjectGroupsVars(part = "groups" /\ Projects!OnEvent)
    /\ WF_ProjectGroupsVars(part = "groups" /\ Projects!TimerFires)
    /\ WF_ProjectGroupsVars(part = "groups" /\ Projects!PassStep)
    /\ WF_ProjectGroupsVars(part = "groups" /\ Projects!Periodic(TRUE))
    \* race, swap: the periodic pass comes round, and a begun pass goes on
    /\ WF_RaceVars(part = "race" /\ Race!BeginPass("cycle", Racers))
    /\ \A w \in {"cycle"} \cup EventThreads : WF_RaceVars(part = "race" /\ (\/ Race!Step(w)
                                                                   \/ (Race!Raises(w) /\ Race!AccountFails(w))))
    /\ WF_RaceVars(part = "swap" /\ Swap!BeginPass("cycle", Swappers))
    /\ WF_RaceVars(part = "swap" /\ (\/ Swap!Step("cycle")
                                     \/ (Swap!Raises("cycle") /\ Swap!AccountFails("cycle"))))
    \* roles: a begun pull goes on, orders are processed
    /\ \A t \in Pullers : WF_RolesVars(part = "roles" /\ Roles!PullWrites(t))
    /\ \A r \in Holdings : WF_RolesVars(part = "roles" /\ Roles!DeleteResource(r))
    \* what recurs but is not always possible, of whichever component is on; of the
    \* keys, the sweep shares the condition of one resource and the pass that of another
    /\ \A r \in Holdings : SF_<<UsageVars, ApiKeysVars, RolesVars>>(
          \/ /\ part = "usage" /\ Usage!PullResource /\ pass' # Usage!NoReport
             /\ UNCHANGED <<ApiKeysVars, RolesVars>>
          \/ /\ part = "keys" /\ IF r = "r1" THEN ApiKeys!Sweep("r1") ELSE ApiKeys!StatusPass
             /\ UNCHANGED <<UsageVars, RolesVars>>
          \/ /\ part = "roles" /\ Roles!PullReads("pass", r)
             /\ UNCHANGED <<UsageVars, ApiKeysVars>>)

Spec == Init /\ [][Next]_vars /\ Fairness
-----------------------------------------------------------------------------
\* Each component keeps the types its module declares.
TypeOK ==
    /\ part \in Parts
    /\ part = "logs" => Logs!LogTypeOK
    /\ part = "names" => Naming!NameTypeOK
    /\ part = "restore" => Teardown!TeardownTypeOK
    /\ part = "team" => Team!SyncTypeOK
    /\ part = "usage" => Usage!ReportTypeOK
    /\ part = "keys" => ApiKeys!KeyTypeOK
    /\ part = "groups" => Projects!GroupTypeOK
    /\ part = "race" => Race!AccountTypeOK
    /\ part = "swap" => Swap!AccountTypeOK
    /\ part = "roles" => Roles!LrTypeOK

\* What was taken in is not forgotten: a log entry is in one place until it is
\* shipped or written off, the oldest first, and an event starts a pass that
\* reads Waldur after it.
NothingForgotten ==
    \* between buffer, worker and server (get_and_clear, _ship_batch)
    /\ part = "logs" => Logs!NothingForgotten
    \* an overflow costs the oldest entries only (LogBuffer.add)
    /\ part = "logs" => Logs!BufferKeepsNewest
    \* what was due at the shutdown is shipped (stop)
    /\ part = "logs" => Logs!StopDrains
    \* the timer of the project groups (handlers.py)
    /\ part = "groups" => Projects!EventNotLost

\* Usage is filed under the month it was measured in, though the month turns
\* between the pull and the report (_process_resource, report_api_key_usages).
RightMonth ==
    part = "usage" => Usage!RightMonth

\* A rename never costs a person the access, nor gives them two entries, though
\* it stops halfway or two passes and two persons are at it.
AccessKept ==
    \* the cycle and an event (_rename, _finish_rename)
    /\ part = "race" => Race!AccessKept /\ Race!OneEntryPerPerson
    \* two who take each other's names (_ensure_account)
    /\ part = "swap" => Swap!AccessKept /\ Swap!OneEntryPerPerson

\* Waldur comes to show what is so.
WaldurLearns ==
    \* what the identity provider says (update_offering_users)
    <>[](/\ part = "names" => Naming!AnswersShown
         \* an ERRED resource is OK again (_sync_resource_status)
         /\ part = "team" => Team!ResourceHealthy
         \* what was used (_compute_reporting_periods)
         /\ part = "usage" => Usage!UsageFiled
         \* the status of a grant (_sync_report)
         /\ part = "roles" => Roles!StatusesMatch)

\* With no more changes everybody Waldur lists has the access, and nobody else.
PeopleSettle ==
    \* the team of a resource and its service accounts (_process_resources)
    <>[](/\ part = "team" => Team!MembersMatch
         \* project groups (the periodic reconciliation)
         /\ part = "groups" => Projects!Converged
         \* names of a rename that was interrupted (_finish_rename)
         /\ part = "race" => Race!AccessHasEntry
         \* the same with two persons
         /\ part = "swap" => Swap!AccessHasEntry
         \* role groups (pull_resource)
         /\ part = "roles" => Roles!GrantsMatch
         \* a person restored during a release (sync_user_profiles)
         /\ part = "restore" /\ state = "OK" => account)

\* What was begun ends, though its worker dies, its calls fail or its thread hangs.
BegunEnds ==
    \* a teardown, in DELETED or, after a restore, in OK (teardown_offering_user)
    /\ []<>(part = "restore" => state \notin Teardown!Departed)
    \* a stop() of the log shipper
    /\ []<>(part = "logs" => step # "join")
    \* a key command, and the key serves exactly when nothing pauses it
    \* (the sweep of resource_api_keys.py)
    /\ <>[](part = "keys" => ApiKeys!NothingInFlight /\ ApiKeys!PausesInStep)

\* A report never lowers a figure Waldur holds, and a breakdown adds up to it
\* (_check_usage_anomaly, _process_resource_period), but for figures that the
\* historical loader replaced after the report had read them.
NeverLowered == [][part = "usage" => Usage!NeverLowered /\ Usage!BreakdownAddsUp]_vars

\* A pass with an old listing takes nothing from anybody that was theirs all the
\* time.
NoFalseRemoval ==
    \* members of the team and service accounts (_sync_resource_users)
    [][/\ part = "team" => Team!NoFalseRemoval
       \* groups in their parent (_sync_parent)
       /\ part = "groups" => Projects!ParentLosesOnlyUnwanted
       \* the uid of a stamped entry (the key conflict)
       /\ part = "race" => Race!StampedKeepsUid
       \* the same with two persons
       /\ part = "swap" => Swap!StampedKeepsUid
       \* a ready account (_process_pending_users)
       /\ part = "names" => Naming!NamedStays
       \* groups the agent did not make (_ensure_owned_group)
       /\ part = "roles" => Roles!MarkersRespected]_vars

\* An OK account has its username in the end, as docs/offering-users.md says;
\* the code completes the validation first (_update_user_username).
OkHasUsername == <>[](part = "names" => Naming!OkIsNamed)

=============================================================================
