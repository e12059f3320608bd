------------------------ MODULE OfferingUserTeardown ------------------------
(***************************************************************************)
(* The deletion of one offering user of one offering, and the handling of  *)
(* the role changes of that person.  Waldur keeps the offering user's      *)
(* state; the cluster keeps associations of the person with resources; a   *)
(* directory keeps the account.  The worker of the offering's queue        *)
(* handles one message after the other, role changes and deletion          *)
(* requests alike, while the main loop's sweep tears down every person     *)
(* Waldur wants gone.  The offering has a membership backend, and a        *)
(* username backend (LDAP, with Waldur as the source of accounts) that     *)
(* releases accounts.                                                      *)
(***************************************************************************)
EXTENDS Naturals, Sequences

CONSTANTS
    Resources,    \* the offering's resources in the person's project
    Sweeper,      \* the thread of the main loop, which sweeps periodically
    Events,       \* the worker thread of the offering's queue
    OneAtATime,   \* do roles change only when nothing about the person is under way?
    MaxGrants,    \* bound: roles granted after the first
    MaxNotices,   \* bound: update events that say the row is departed
    MaxUserFaults,    \* bound: calls the backend or the directory fails
    MaxUserHiccups,   \* bound: calls Waldur fails or whose reply is lost
    MaxUserCrashes    \* bound: ends of the agent process

ASSUME TeardownAssumption ==
    /\ Sweeper # Events /\ OneAtATime \in BOOLEAN
    /\ MaxGrants \in Nat /\ MaxNotices \in Nat
    /\ MaxUserFaults \in Nat /\ MaxUserHiccups \in Nat /\ MaxUserCrashes \in Nat

Threads == {Sweeper, Events}
Messages == {"granted", "revoked", "departed"}

Departed == {"REQUESTED_DELETION", "DELETING", "ERROR_DELETING"} \* DEPARTED_OFFERING_USER_STATES
States == {"OK", "DELETED"} \cup Departed

VARIABLES
    userState, \* the offering user's state in Waldur
    role,      \* whether the person has a role in the project
    inbox,     \* the messages of the queue not acknowledged yet
    assoc,     \* the resources the cluster associates the person with
    userAccount, \* whether the directory has the person's account
    thread,    \* the teardown each thread is in
    eventTask, \* the message the worker is handling
    grants, updates, userFaults, userHiccups, userCrashes

cluster == <<assoc, userAccount>>
surroundings == <<userState, role, inbox, cluster>>
troubles == <<grants, updates, userFaults, userHiccups, userCrashes>>
teardownVars == <<surroundings, thread, eventTask, troubles>>

\* A teardown: the state it read, the resources still to pull, and those of the
\* report that list the person and are not dealt with.  Only a pull has
\* resources left to read.
ThreadStates ==
    {r \in [pc : {"idle", "pull", "claim", "remove", "check", "release", "markerror", "complete"},
            seen : States, todo : SUBSET Resources, report : SUBSET Resources] :
        r.todo # {} => r.pc = "pull"}
Resting == [pc |-> "idle", seen |-> "OK", todo |-> {}, report |-> {}]

\* A message being handled.  For a role change: the resources still to go
\* through, and whether a removal or the pull failed.
HandlerStates ==
    {r \in [pc : {"idle", "pull", "change", "check", "release", "teardown"}, todo : SUBSET Resources,
            failed : BOOLEAN] :
        r.todo # {} => r.pc = "change"}
Waiting == [pc |-> "idle", todo |-> {}, failed |-> FALSE]

TeardownTypeOK ==
    /\ userState \in States
    /\ role \in BOOLEAN
    /\ inbox \in Seq(Messages)
    /\ assoc \subseteq Resources
    /\ userAccount \in BOOLEAN
    /\ thread \in [Threads -> ThreadStates]
    /\ eventTask \in HandlerStates
    /\ eventTask.pc # "idle" => inbox # <<>>
    /\ grants \in Nat /\ updates \in Nat /\ userFaults \in Nat /\ userHiccups \in Nat /\ userCrashes \in Nat

\* A member with an account.  A resource may be missing the association: an
\* earlier failure to add it is only logged.
TeardownInit ==
    /\ userState = "OK" /\ role = TRUE /\ inbox = <<>>
    /\ assoc \in SUBSET Resources
    /\ userAccount = TRUE
    /\ thread = [t \in Threads |-> Resting]
    /\ eventTask = Waiting
    /\ grants = 0 /\ updates = 0 /\ userFaults = 0 /\ userHiccups = 0 /\ userCrashes = 0

-----------------------------------------------------------------------------
(* Waldur.                                                                   *)

\* The environment may leave the agent time between two changes of a role: no
\* message is waiting and no teardown has begun.
Timely ==
    OneAtATime => inbox = <<>> /\ \A t \in Threads : thread[t].pc = "idle"

Revoke ==
    /\ role /\ Timely
    /\ role' = FALSE
    /\ inbox' = Append(inbox, "revoked")
    /\ UNCHANGED <<userState, cluster, thread, eventTask, troubles>>

\* A role for a person whose deletion is under way restores the offering user.
Grant ==
    /\ ~role /\ Timely /\ userState # "DELETED" /\ grants < MaxGrants
    /\ role' = TRUE
    /\ userState' = "OK"
    /\ inbox' = Append(inbox, "granted")
    /\ grants' = grants + 1
    /\ UNCHANGED <<cluster, thread, eventTask, updates, userFaults, userHiccups, userCrashes>>

\* Some time after the last role is gone Waldur asks for the deletion.
RequestDeletion ==
    /\ ~role /\ userState = "OK"
    /\ userState' = "REQUESTED_DELETION"
    /\ UNCHANGED <<role, inbox, cluster, thread, eventTask, troubles>>

\* An update event for a row in a deletion state, sooner or later.
Notify ==
    /\ userState \in Departed /\ updates < MaxNotices
    /\ inbox' = Append(inbox, "departed")
    /\ updates' = updates + 1
    /\ UNCHANGED <<userState, role, cluster, thread, eventTask, grants, userFaults, userHiccups, userCrashes>>

-----------------------------------------------------------------------------
(* Failures.                                                                 *)

TeardownFault ==
    /\ userFaults < MaxUserFaults /\ userFaults' = userFaults + 1
    /\ UNCHANGED <<grants, updates, userHiccups, userCrashes>>
TeardownHiccup ==
    /\ userHiccups < MaxUserHiccups /\ userHiccups' = userHiccups + 1
    /\ UNCHANGED <<grants, updates, userFaults, userCrashes>>

-----------------------------------------------------------------------------
(* teardown_offering_user, and the sweep that calls it.                      *)

ThreadAt(t, pc) == thread[t].pc = pc
ThreadGoto(t, pc) == thread' = [thread EXCEPT ![t].pc = pc]
Rest(t) == thread' = [thread EXCEPT ![t] = Resting]

\* The teardown of a row read as departed starts with the pull.
Opened == [pc |-> "pull", seen |-> userState, todo |-> Resources, report |-> {}]

\* Mutant: the sweep lists the requested and the failed deletions only, not the
\* interrupted ones.
BeginRequested ==
    /\ ThreadAt(Sweeper, "idle")
    /\ userState \in Departed \ {"DELETING"}
    /\ thread' = [thread EXCEPT ![Sweeper] = Opened]
    /\ UNCHANGED <<surroundings, eventTask, troubles>>

\* The sweep lists the departed offering users.
Begin ==
    /\ ThreadAt(Sweeper, "idle")
    /\ userState \in Departed
    /\ thread' = [thread EXCEPT ![Sweeper] = Opened]
    /\ UNCHANGED <<surroundings, eventTask, troubles>>

\* Mutant: a pull that is not strict drops the resource it could not read.
PullDrops(t) ==
    /\ ThreadAt(t, "pull")
    /\ \/ /\ thread[t].todo = {} /\ ThreadGoto(t, "claim")
          /\ UNCHANGED troubles
       \/ \E r \in thread[t].todo :
            \/ /\ thread' = [thread EXCEPT ![t].todo = @ \ {r}, ![t].report = @ \cup (assoc \cap {r})]
               /\ UNCHANGED troubles
            \/ thread' = [thread EXCEPT ![t].todo = @ \ {r}] /\ TeardownFault
    /\ UNCHANGED <<surroundings, eventTask>>

\* Mutant: the pull ends at the first resource.
PullFirst(t) ==
    /\ ThreadAt(t, "pull")
    /\ \E r \in thread[t].todo :
          thread' = [thread EXCEPT ![t].pc = "claim", ![t].todo = @ \ {r},
                                   ![t].report = @ \cup (assoc \cap {r})]
    /\ UNCHANGED <<surroundings, eventTask, troubles>>

\* pull_resources, strict: resource by resource, and one failure ends it all.
PullResources(t) ==
    /\ ThreadAt(t, "pull")
    /\ \/ /\ thread[t].todo = {} /\ ThreadGoto(t, "claim")
          /\ UNCHANGED troubles
       \/ \E r \in thread[t].todo :
            /\ thread' = [thread EXCEPT ![t].todo = @ \ {r}, ![t].report = @ \cup (assoc \cap {r})]
            /\ UNCHANGED troubles
       \/ Rest(t) /\ TeardownFault
    /\ UNCHANGED <<surroundings, eventTask>>

\* claim_offering_user_deletion: a row read as DELETING is taken without asking;
\* otherwise set_deleting, which Waldur refuses unless the deletion is requested
\* or failed.  A lost reply leaves the claim standing and the thread without it.
Claim(t) ==
    /\ ThreadAt(t, "claim")
    /\ \/ /\ thread[t].seen = "DELETING"
          /\ ThreadGoto(t, "remove") /\ UNCHANGED <<userState, troubles>>
       \/ /\ thread[t].seen # "DELETING" /\ userState \in {"REQUESTED_DELETION", "ERROR_DELETING"}
          /\ userState' = "DELETING"
          /\ ThreadGoto(t, "remove") /\ UNCHANGED troubles
       \/ /\ thread[t].seen # "DELETING" /\ userState \notin {"REQUESTED_DELETION", "ERROR_DELETING"}
          /\ Rest(t) /\ UNCHANGED <<userState, troubles>>
       \/ /\ thread[t].seen # "DELETING"
          /\ userState' \in {userState} \cup (IF userState \in {"REQUESTED_DELETION", "ERROR_DELETING"}
                                      THEN {"DELETING"} ELSE {})
          /\ Rest(t) /\ TeardownHiccup
    /\ UNCHANGED <<role, inbox, cluster, eventTask>>

\* _remove_user_from_reported_resources: the first failure ends the teardown.
Remove(t) ==
    /\ ThreadAt(t, "remove")
    /\ \/ /\ thread[t].report = {} /\ ThreadGoto(t, "check")
          /\ UNCHANGED <<assoc, troubles>>
       \/ \E r \in thread[t].report :
            /\ thread' = [thread EXCEPT ![t].report = @ \ {r}]
            /\ assoc' = assoc \ {r}
            /\ UNCHANGED troubles
       \/ /\ thread[t].report # {} /\ ThreadGoto(t, "markerror")
          /\ UNCHANGED assoc /\ TeardownFault
    /\ UNCHANGED <<userState, role, inbox, userAccount, eventTask>>

\* release_users asks Waldur first: an account that is live again is kept.
Check(t) ==
    /\ ThreadAt(t, "check")
    /\ \/ userState \in Departed \cup {"DELETED"} /\ ThreadGoto(t, "release") /\ UNCHANGED troubles
       \/ userState = "OK" /\ ThreadGoto(t, "complete") /\ UNCHANGED troubles
       \/ ThreadGoto(t, "markerror") /\ TeardownHiccup
    /\ UNCHANGED <<surroundings, eventTask>>

Release(t) ==
    /\ ThreadAt(t, "release")
    /\ \/ userAccount' = FALSE /\ ThreadGoto(t, "complete") /\ UNCHANGED troubles
       \/ ThreadGoto(t, "markerror") /\ TeardownFault /\ UNCHANGED userAccount
    /\ UNCHANGED <<userState, role, inbox, assoc, eventTask>>

\* mark_offering_user_error_deleting goes by the state read at the start, and
\* does its best only.
MarkError(t) ==
    /\ ThreadAt(t, "markerror")
    /\ \/ /\ thread[t].seen \in {"REQUESTED_DELETION", "DELETING"}
          /\ userState' = (IF userState = "DELETING" THEN "ERROR_DELETING" ELSE userState)
          /\ UNCHANGED troubles
       \/ /\ thread[t].seen = "ERROR_DELETING"
          /\ UNCHANGED <<userState, troubles>>
       \/ TeardownHiccup /\ UNCHANGED userState
    /\ Rest(t)
    /\ UNCHANGED <<role, inbox, cluster, eventTask>>

\* set_deleted, which Waldur refuses unless the row is DELETING.  A failure is
\* logged; the call may have had its effect.
Complete(t) ==
    /\ ThreadAt(t, "complete")
    /\ \/ userState' = (IF userState = "DELETING" THEN "DELETED" ELSE userState) /\ UNCHANGED troubles
       \/ /\ TeardownHiccup
          /\ userState' \in {userState} \cup (IF userState = "DELETING" THEN {"DELETED"} ELSE {})
    /\ Rest(t)
    /\ UNCHANGED <<role, inbox, cluster, eventTask>>

\* The periodic pass hands live offering users to sync_user_profiles, which
\* creates the missing account, before it lists the departed ones.
SyncProfiles ==
    /\ ThreadAt(Sweeper, "idle") /\ userState = "OK" /\ ~userAccount
    /\ userAccount' = TRUE
    /\ UNCHANGED <<userState, role, inbox, assoc, thread, eventTask, troubles>>

-----------------------------------------------------------------------------
(* The worker: the handlers of a role change and of an update event.         *)

WorkerAt(pc) == eventTask.pc = pc
Handling(messages) == inbox # <<>> /\ Head(inbox) \in messages

\* The message is acknowledged when its handler ends.
Acked == eventTask' = Waiting /\ inbox' = Tail(inbox)

\* An update event: the offering user is retrieved and, unless it is live
\* again, torn down.  A failure to ask Waldur ends the handler.
TakeUpdate ==
    /\ WorkerAt("idle") /\ Handling({"departed"})
    /\ \/ /\ userState \in Departed
          /\ thread' = [thread EXCEPT ![Events] = Opened]
          /\ eventTask' = [eventTask EXCEPT !.pc = "teardown"]
          /\ UNCHANGED <<inbox, troubles>>
       \/ userState \notin Departed /\ Acked /\ UNCHANGED <<thread, troubles>>
       \/ Acked /\ TeardownHiccup /\ UNCHANGED thread
    /\ UNCHANGED <<userState, role, cluster>>

UpdateHandled ==
    /\ WorkerAt("teardown") /\ ThreadAt(Events, "idle")
    /\ Acked
    /\ UNCHANGED <<userState, role, cluster, thread, troubles>>

\* process_user_role_changed: the offering users of the person are fetched, in
\* whatever state.
TakeRoleChange ==
    /\ WorkerAt("idle") /\ Handling({"granted", "revoked"})
    /\ eventTask' = [eventTask EXCEPT !.pc = "pull"]
    /\ UNCHANGED <<surroundings, thread, troubles>>

\* A failure to ask Waldur ends the handler, and the message is gone.
HandlerFails ==
    /\ WorkerAt("pull")
    /\ Acked /\ TeardownHiccup
    /\ UNCHANGED <<userState, role, cluster, thread>>

\* Pulling the resources: for a grant, those that cannot be read wait for the
\* next cycle; for a revocation all are gone through, and the account is kept.
WorkerPull ==
    /\ WorkerAt("pull")
    /\ \/ eventTask' = [pc |-> "change", todo |-> Resources, failed |-> FALSE] /\ UNCHANGED troubles
       \/ /\ Head(inbox) = "granted" /\ TeardownFault
          /\ \E R \in SUBSET Resources : eventTask' = [pc |-> "change", todo |-> R, failed |-> FALSE]
       \/ /\ Head(inbox) = "revoked" /\ TeardownFault
          /\ eventTask' = [pc |-> "change", todo |-> Resources, failed |-> TRUE]
    /\ UNCHANGED <<surroundings, thread>>

AddUser(r) ==
    /\ WorkerAt("change") /\ r \in eventTask.todo /\ Head(inbox) = "granted"
    /\ eventTask' = [eventTask EXCEPT !.todo = @ \ {r}]
    /\ \/ assoc' = assoc \cup {r} /\ UNCHANGED troubles
       \/ UNCHANGED assoc /\ TeardownFault
    /\ UNCHANGED <<userState, role, inbox, userAccount, thread>>

\* Mutant: a failed removal is only logged.
RemoveUserForgets(r) ==
    /\ WorkerAt("change") /\ r \in eventTask.todo /\ Head(inbox) = "revoked"
    /\ eventTask' = [eventTask EXCEPT !.todo = @ \ {r}]
    /\ \/ assoc' = assoc \ {r} /\ UNCHANGED troubles
       \/ UNCHANGED assoc /\ TeardownFault
    /\ UNCHANGED <<userState, role, inbox, userAccount, thread>>

RemoveUser(r) ==
    /\ WorkerAt("change") /\ r \in eventTask.todo /\ Head(inbox) = "revoked"
    /\ \/ /\ assoc' = assoc \ {r} /\ UNCHANGED troubles
          /\ eventTask' = [eventTask EXCEPT !.todo = @ \ {r}]
       \/ /\ UNCHANGED assoc /\ TeardownFault
          /\ eventTask' = [eventTask EXCEPT !.todo = @ \ {r}, !.failed = TRUE]
    /\ UNCHANGED <<userState, role, inbox, userAccount, thread>>

\* The account is released only when every association is known to be gone.
WorkerEnds ==
    /\ WorkerAt("change") /\ eventTask.todo = {}
    /\ \/ Head(inbox) = "granted" \/ eventTask.failed
    /\ Acked
    /\ UNCHANGED <<userState, role, cluster, thread, troubles>>

WorkerGoesOn ==
    /\ WorkerAt("change") /\ eventTask.todo = {}
    /\ Head(inbox) = "revoked" /\ ~eventTask.failed
    /\ eventTask' = [eventTask EXCEPT !.pc = "check"]
    /\ UNCHANGED <<surroundings, thread, troubles>>

\* _release_departed_users; release_offering_users logs any failure.
WorkerCheck ==
    /\ WorkerAt("check")
    /\ \/ userState # "OK" /\ eventTask' = [eventTask EXCEPT !.pc = "release"] /\ UNCHANGED <<inbox, troubles>>
       \/ userState = "OK" /\ Acked /\ UNCHANGED troubles
       \/ Acked /\ TeardownHiccup
    /\ UNCHANGED <<userState, role, cluster, thread>>

WorkerRelease ==
    /\ WorkerAt("release")
    /\ \/ userAccount' = FALSE /\ UNCHANGED troubles
       \/ UNCHANGED userAccount /\ TeardownFault
    /\ Acked
    /\ UNCHANGED <<userState, role, assoc, thread>>

-----------------------------------------------------------------------------
\* The process ends; messages that were not acknowledged come again.
AgentEnds ==
    /\ userCrashes < MaxUserCrashes
    /\ userCrashes' = userCrashes + 1
    /\ thread' = [t \in Threads |-> Resting]
    /\ eventTask' = Waiting
    /\ UNCHANGED <<surroundings, grants, updates, userFaults, userHiccups>>

Teardown(t) ==
    \/ PullResources(t) \/ Claim(t) \/ Remove(t)
    \/ Check(t) \/ Release(t) \/ MarkError(t) \/ Complete(t)

HandleMessages ==
    \/ TakeUpdate \/ UpdateHandled
    \/ TakeRoleChange \/ HandlerFails \/ WorkerPull
    \/ \E r \in Resources : AddUser(r) \/ RemoveUser(r)
    \/ WorkerEnds \/ WorkerGoesOn \/ WorkerCheck \/ WorkerRelease

Waldur == Revoke \/ Grant \/ RequestDeletion \/ Notify

TeardownNext ==
    \/ Begin \/ SyncProfiles \/ HandleMessages
    \/ \E t \in Threads : Teardown(t)
    \/ Waldur \/ AgentEnds

TeardownSpec == TeardownInit /\ [][TeardownNext]_teardownVars

-----------------------------------------------------------------------------
\* "nothing is ever marked Deleted while something on the cluster still refers
\* to it": no association is left when set_deleted takes effect.
DeletedIsClean == [][userState # "DELETED" /\ userState' = "DELETED" => assoc = {}]_teardownVars

\* "an entry is never parked or deleted while its association is still live":
\* the account goes when the last association is gone.
ReleasedLast == [][userAccount /\ ~userAccount' => assoc = {}]_teardownVars

\* "Nothing on the provider side is touched before the claim holds": a thread
\* that starts removing associations has the row in DELETING, also when the
\* person was restored after the thread read it.
ClaimHolds ==
    [][\A t \in Threads : ThreadAt(t, "claim") /\ thread'[t].pc = "remove"
          => userState' = "DELETING"]_teardownVars

\* A person without a role ends without an association, unless a role is granted
\* again, though a message may be lost and a removal may fail.
AccessEnds == ~role ~> (role \/ assoc = {})
-----------------------------------------------------------------------------
(* The inductive invariant behind ReleasedLast and DeletedIsClean when roles   *)
(* change one at a time: whatever association is left, each thread still has  *)
(* it before itself, and a grant, which adds some, is handled alone.          *)

ThreadCovers(t) ==
    /\ ThreadAt(t, "pull") => assoc \subseteq thread[t].todo \cup thread[t].report
    /\ thread[t].pc \in {"claim", "remove"} => assoc \subseteq thread[t].report
    /\ thread[t].pc \in {"check", "release", "complete"} => assoc = {}

WorkerCovers ==
    /\ WorkerAt("change") /\ ~eventTask.failed => assoc \subseteq eventTask.todo
    /\ eventTask.pc \in {"check", "release"} => assoc = {}

Restoring == inbox = <<"granted">>

GrantAlone ==
    /\ role /\ userState = "OK"
    /\ \A t \in Threads : ThreadAt(t, "idle")
    /\ eventTask.pc \in {"idle", "pull", "change"}

NoGrant ==
    /\ \A i \in 1..Len(inbox) : inbox[i] # "granted"
    /\ \A t \in Threads : ThreadCovers(t)
    /\ WorkerCovers

CleanInv == (Restoring /\ GrantAlone) \/ NoGrant
=============================================================================
