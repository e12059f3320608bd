----------------------------- MODULE MC_Races ------------------------------
(***************************************************************************)
(* Components of which only safety is claimed, one at a time: a behaviour  *)
(* picks a component and follows it while the others are off. They share   *)
(* no state with each other. A property is one promise, made by every      *)
(* component it names.                                                     *)
(***************************************************************************)
EXTENDS Integers, TLC

CONSTANTS
    Parts,   \* the components a behaviour may be about
    \* the listener
    MaxMsgs, MaxConns, Prefetch, ReconnectTries, WatchdogTries, StartupTries,
    LateNotices, OverlappingSessions,
    \* the watchdog
    UnhealthyAfter, StuckAfter, StableTicks, RetryInitial, RetryMax, MaxAge,
    PassPeriod, StatusPeriod, MaxTime,
    \* the billing of LiteLLM
    Resources, Emails, DaysPerMonth, Retention, MaxDay, MaxCalls, MaxPeriods,
    \* SLURM
    Allocations, Configs, MaxEdits, MaxBreaks,
    S3Rotators   \* who may rotate an S3 key at the same time

VARIABLES part,  \* the component this behaviour is about; the others are Off
          sent, queue, ready, unacked, sessions, acked, lost, conn, link, wire,
          notices, generation, messages, worker, tries, closed, rereg, started,
          handled,
          now, consumer, handler, down, ticks, nextRetry, delay, refused, lastPass,
          lastStatus, heartbeat, hung, touched, unstable, fixable,
          row, paused, proxy, msgs, late, keyWorker, secrets, requests, faults,
          stray, raced,
          waldur, entry, parent, people, mail, pending, groupReady, waiting, pc,
          snap, todo, managed, untouchable, job, changes, groupFaults, unread, owed,
          unwanted,
          today, owners, calls, split, candidates, billed,
          cluster, config, order, wanted, level, customer, amount, months,
          own, cleanup, crossed, slurmEdits, breaks,
          s3, make, s3Life, backendId, s3Row, rot, lastKey, s3Faults

Off == "off"

\* settings for Configs: every way QoS is managed
SlurmConfigs ==
    {[mode |-> "swap", soft |-> FALSE], [mode |-> "swapDefault", soft |-> TRUE],
     [mode |-> "skip", soft |-> FALSE], [mode |-> "enforced", soft |-> FALSE]}

\* The listener with late notices and overlapping sessions.
Listener == INSTANCE StompListener

\* The watchdog, long enough for an outage to meet both periodic passes.
Dog == INSTANCE Watchdog

\* API keys: two of them on a proxy that renews keys in place.
TwoKeys == INSTANCE ApiKeyCommands WITH Rows <- {"r1", "r2"}, Slots <- {1, 2, 3},
    Enterprise <- TRUE, MaxRequests <- 3, MaxFaults <- 1, worker <- keyWorker

\* API keys: one of them, with two failures.
LostKey == INSTANCE ApiKeyCommands WITH Rows <- {"r1"}, Slots <- {1, 2, 3},
    Enterprise <- FALSE, MaxRequests <- 3, MaxFaults <- 2, worker <- keyWorker

\* Project groups: one that Waldur lists and one made by hand.
TwoGroups == INSTANCE LdapProjectGroups WITH Groups <- {"a", "b"}, Users <- {"u1"},
    Gid <- ("a" :> 1 @@ "b" :> 2), Foreign <- {}, HandMade <- {"b"}, Adopt <- TRUE,
    MaxChanges <- 1, MaxFaults <- 0, MaxWaiting <- 1, ready <- groupReady,
    faults <- groupFaults

\* Project groups: two members that a sibling writes one after the other.
Clash == INSTANCE LdapProjectGroups WITH Groups <- {"a"}, Users <- {"u1", "u2"},
    Gid <- ("a" :> 1), Foreign <- {}, HandMade <- {}, Adopt <- TRUE, MaxChanges <- 2,
    MaxFaults <- 0, MaxWaiting <- 1, ready <- groupReady, faults <- groupFaults

\* Project groups: two that Waldur lists, and their parent.
BothListed == INSTANCE LdapProjectGroups WITH Groups <- {"a", "b"}, Users <- {},
    Gid <- ("a" :> 1 @@ "b" :> 2), Foreign <- {}, HandMade <- {}, Adopt <- TRUE,
    MaxChanges <- 0, MaxFaults <- 0, MaxWaiting <- 1, ready <- groupReady,
    faults <- groupFaults

\* A person that moves between two resources across the turn of a month.
Billing == INSTANCE LiteLLMBilling

\* SLURM: two allocations of one project (safety only).
Pair == INSTANCE SlurmBackend

\* S3: two candidate names for a user, and two key slots.
S3 == INSTANCE CephS3 WITH Uids <- <<"a", "b">>, Rotators <- S3Rotators,
    MaxKeys <- 7, MaxS3Faults <- 2, row <- s3Row

ASSUME Parameters ==
    /\ Listener!ListenerParameters
    /\ Dog!WatchdogParameters
    /\ TwoKeys!KeyParameters
    /\ LostKey!KeyParameters
    /\ TwoGroups!GroupParameters
    /\ Clash!GroupParameters
    /\ BothListed!GroupParameters
    /\ Billing!BillingParameters
    /\ Pair!SlurmParameters

ListenerVars == <<sent, queue, ready, unacked, sessions, acked, lost, conn, link,
                  wire, notices, generation, messages, worker, tries, closed, rereg,
                  started, handled>>
DogVars == <<now, consumer, handler, down, ticks, nextRetry, delay, refused,
             lastPass, lastStatus, heartbeat, hung, touched, unstable, fixable>>
TwoKeysVars == <<row, paused, proxy, msgs, late, keyWorker, secrets, requests,
                 faults, stray, raced>>
TwoGroupsVars == <<waldur, entry, parent, people, mail, pending, groupReady, waiting,
                   pc, snap, todo, managed, untouchable, job, changes, groupFaults,
                   unread, owed, unwanted>>
BillingVars == <<today, owners, calls, split, candidates, billed>>
PairVars == <<cluster, config, order, wanted, level, customer, amount, months,
              own, cleanup, crossed, slurmEdits, breaks>>
S3Vars == <<s3, make, s3Life, backendId, s3Row, rot, lastKey, s3Faults>>
vars == <<part, ListenerVars, DogVars, TwoKeysVars, TwoGroupsVars, BillingVars,
                PairVars, S3Vars>>

Init ==
    /\ part \in Parts
    /\ IF part = "listener" THEN Listener!Init
       ELSE sent = Off /\ queue = Off /\ ready = Off /\ unacked = Off /\
            sessions = Off /\ acked = Off /\ lost = Off /\ conn = Off /\
            link = Off /\ wire = Off /\ notices = Off /\ generation = Off /\
            messages = Off /\ worker = Off /\ tries = Off /\ closed = Off /\
            rereg = Off /\ started = Off /\ handled = Off
    /\ IF part = "watchdog" THEN Dog!Init
       ELSE now = Off /\ consumer = Off /\ handler = Off /\ down = Off /\
            ticks = Off /\ nextRetry = Off /\ delay = Off /\ refused = Off /\
            lastPass = Off /\ lastStatus = Off /\ heartbeat = Off /\
            hung = Off /\ touched = Off /\
            unstable = Off /\ fixable = Off
    /\ IF part = "twokeys" THEN TwoKeys!KeyInit
       ELSE IF part = "lostkey" THEN LostKey!KeyInit
       ELSE row = Off /\ paused = Off /\ proxy = Off /\ msgs = Off /\ late = Off /\
            keyWorker = Off /\ secrets = Off /\ requests = Off /\ faults = Off /\
            stray = Off /\ raced = Off
    /\ IF part = "twogroups" THEN TwoGroups!GroupInit
       ELSE IF part = "clash" THEN Clash!GroupInit
       ELSE IF part = "listed" THEN BothListed!GroupInit
       ELSE waldur = Off /\ entry = Off /\ parent = Off /\ people = Off /\
            mail = Off /\ pending = Off /\ groupReady = Off /\ waiting = Off /\
            pc = Off /\ snap = Off /\ todo = Off /\ managed = Off /\
            untouchable = Off /\ job = Off /\ changes = Off /\ groupFaults = Off /\
            unread = Off /\ owed = Off /\ unwanted = Off
    /\ IF part = "billing" THEN Billing!BillingInit
       ELSE today = Off /\ owners = Off /\ calls = Off /\ split = Off /\
            candidates = Off /\ billed = Off
    /\ IF part = "pair" THEN Pair!SlurmInit
       ELSE cluster = Off /\ config = Off /\ order = Off /\ wanted = Off /\
            level = Off /\ customer = Off /\ amount = Off /\ months = Off /\
            own = Off /\ cleanup = Off /\ crossed = Off /\
            slurmEdits = Off /\ breaks = Off
    /\ IF part = "s3" THEN S3!S3Init
       ELSE s3 = Off /\ make = Off /\ s3Life = Off /\ backendId = Off /\
            s3Row = Off /\ rot = Off /\ lastKey = Off /\ s3Faults = Off

Step(name) == part = name /\ UNCHANGED part

Next ==
    \/ /\ Step("listener") /\ Listener!Next
       /\ UNCHANGED <<DogVars, TwoKeysVars, TwoGroupsVars, BillingVars, PairVars,
                       S3Vars>>
    \/ /\ Step("watchdog") /\ Dog!Next
       /\ UNCHANGED <<ListenerVars, TwoKeysVars, TwoGroupsVars, BillingVars,
                       PairVars, S3Vars>>
    \/ /\ Step("twokeys") /\ TwoKeys!KeyNext
       /\ UNCHANGED <<ListenerVars, DogVars, TwoGroupsVars, BillingVars, PairVars,
                       S3Vars>>
    \/ /\ Step("lostkey") /\ LostKey!KeyNext
       /\ UNCHANGED <<ListenerVars, DogVars, TwoGroupsVars, BillingVars, PairVars,
                       S3Vars>>
    \/ /\ Step("twogroups") /\ TwoGroups!GroupNext
       /\ UNCHANGED <<ListenerVars, DogVars, TwoKeysVars, BillingVars, PairVars,
                       S3Vars>>
    \/ /\ Step("clash") /\ Clash!GroupNext
       /\ UNCHANGED <<ListenerVars, DogVars, TwoKeysVars, BillingVars, PairVars,
                       S3Vars>>
    \/ /\ Step("listed") /\ BothListed!GroupNext
       /\ UNCHANGED <<ListenerVars, DogVars, TwoKeysVars, BillingVars, PairVars,
                       S3Vars>>
    \/ /\ Step("billing") /\ Billing!BillingNext
       /\ UNCHANGED <<ListenerVars, DogVars, TwoKeysVars, TwoGroupsVars, PairVars,
                       S3Vars>>
    \/ /\ Step("pair") /\ Pair!SlurmNext
       /\ UNCHANGED <<ListenerVars, DogVars, TwoKeysVars, TwoGroupsVars, BillingVars,
                       S3Vars>>
    \/ /\ Step("s3") /\ S3!S3Next
       /\ UNCHANGED <<ListenerVars, DogVars, TwoKeysVars, TwoGroupsVars, BillingVars,
                       PairVars>>

Spec == Init /\ [][Next]_vars
-----------------------------------------------------------------------------
\* Each component keeps the types its module declares.
TypeOK ==
    /\ part \in Parts
    /\ part = "listener" => Listener!TypeOK
    /\ part = "watchdog" => Dog!TypeOK
    /\ part = "twokeys" => TwoKeys!KeyTypeOK
    /\ part = "lostkey" => LostKey!KeyTypeOK
    /\ part = "twogroups" => TwoGroups!GroupTypeOK
    /\ part = "clash" => Clash!GroupTypeOK
    /\ part = "listed" => BothListed!GroupTypeOK
    /\ part = "billing" => Billing!BillingTypeOK
    /\ part = "pair" => Pair!SlurmTypeOK
    /\ part = "s3" => S3!S3TypeOK

\* A notice that comes late and two sessions at a time do not make the queue
\* grow past the messages in flight (StompListener.on_message, the bound of the
\* prefetch window).
BacklogBounded == part = "listener" => Listener!BacklogBounded

\* What a restart can fix ends in one (StompWatchdog.check, check_liveness),
\* though the periodic passes and the syncs on worker threads touch the same
\* heartbeat: the wait is counted from the last touch of such a sync.
OutageEnds ==
    \* an outage of the consumer (_healthy)
    /\ part = "watchdog" => Dog!OutageEnds
    \* a handler that does not return (_check_handler)
    /\ part = "watchdog" => Dog!StuckEnds
    \* a main loop that hangs (check_liveness)
    /\ part = "watchdog" => Dog!HangEnds

\* The agent is restarted only for what a restart can fix (_healthy).
RestartHasCause == [][part = "watchdog" => Dog!RestartHasCause]_DogVars

\* What Waldur shows is so at the service: a key it hands out works and no other
\* key does once no command is at work, and an OK resource has its quota.
ShownIsServed ==
    \* keys renewed in place (handle_rotate, the withdrawals)
    /\ part = "twokeys" => TwoKeys!SettledIsLive /\ TwoKeys!NoStrayKey
    \* lost replies (_set_key, _set_key_landed)
    /\ part = "lostkey" => LostKey!SettledIsLive /\ LostKey!NoStrayKey
    \* S3 keys, rotated one after the other (_prune_unknown_keys)
    /\ part = "s3" => S3!HeldIsLive
    \* S3 users after a failed attempt (_create_s3_user)
    /\ part = "s3" => S3!OkIsCapped

\* A request bills to one resource, and what was reported of it stays in that
\* resource's report, though its sender moves between resources.
BilledOnce ==
    \* by key alias or by owner, never both (_resource_rows)
    /\ part = "billing" => Billing!BilledOnce
    \* claims and the trim of old periods (owner_on)
    /\ part = "billing" => Billing!ReportedStays

\* Two allocations of one project do not get in each other's way at slurmdbd: it
\* refuses no command for what the plugin wrote, and the account of the project
\* stays while one needs it, unless an account is created between the list of a
\* deletion and its drop of the project, which the code does not look for again.
NeverRefused ==
    \* the order of commands (delete_association, _swap_account_qos)
    /\ part = "pair" => Pair!NeverRefused
    \* the last one takes the account with it (delete_resource)
    /\ part = "pair" => Pair!ProjectKept

\* A key that one rotation makes is not deleted by another that runs at the same
\* time (rotate_resource_key: "structurally unprunable"). The handler of key
\* messages and the sweep may rotate two keys of one resource at once, and the
\* keys that Waldur holds are read before those the cluster has: what is made
\* in between is listed, and unknown.
RotationsSafe == part = "s3" => S3!HeldIsLive

\* What an allocation consumed is not forgotten (_write_allocation_limits).
BudgetKept == [][part = "pair" => Pair!BudgetKept]_PairVars

\* What the agent did not make stays as it is: users the cluster had before,
\* the GIDs of other groups, and a group's place in the parent while Waldur wants it.
ForeignUntouched ==
    \* a user id that is taken (_adopt_if_ours)
    [][/\ part = "s3" => S3!ForeignUntouched
       \* the owner of a GID, read once per pass (_reconcile_group)
       /\ part = "twogroups" => TwoGroups!NoNewSharing
       \* the same between two groups Waldur lists
       /\ part = "listed" => BothListed!NoNewSharing
       \* a group given up after two conflicts (_modify_members)
       /\ part = "clash" => Clash!ParentLosesOnlyUnwanted]_vars

=============================================================================
