--------------------------- MODULE MembershipSync ---------------------------
(***************************************************************************)
(* The membership processor on one resource (common/processors.py): a pass *)
(* pulls the members the backend reports, then reads the team and the      *)
(* service accounts, adds and removes the difference, applies the pause    *)
(* flag and heals the state.  Meanwhile Waldur changes, and role and       *)
(* account events, which may be late, reordered or lost, are applied by a  *)
(* worker; the status pass re-reads and re-applies the flag on its own.    *)
(***************************************************************************)
EXTENDS Integers, FiniteSets

CONSTANTS Users,       \* people with an offering user
          Accounts,    \* service and course accounts
          Outsiders,   \* backend users Waldur does not know
          MaxChanges, MaxTroubles   \* bounds: changes in Waldur, failures

VARIABLES team, live,  \* Waldur: the team, the accounts that are OK
          restricted,  \* restrict_member_access
          flag,        \* paused or not, as Waldur wants it
          state,       \* the resource's state in Waldur
          members,     \* users the backend associates with the resource
          applied,     \* the flag the backend has applied
          preserve,    \* preserve_unmanaged_backend_users
          run,         \* the running pass and what it has read
          status,      \* the running status pass
          mail,        \* role and account events on their way
          absent,      \* seen outside the team or the accounts since the pull
          edits, troubles

mvars == <<team, live, restricted, flag, state, members, applied, preserve, run, status, mail,
           absent, edits, troubles>>
waldur == <<team, live, restricted, flag>>
limits == <<preserve, edits>>

Names == Users \cup Accounts \cup Outsiders
NoPass == [pc |-> "idle", pulled |-> {}, new |-> {}, stale |-> {}, existing |-> {}, live |-> {},
           listed |-> FALSE, restricted |-> FALSE, flag |-> FALSE, erred |-> FALSE]

SyncTypeOK ==
    /\ team \subseteq Users /\ live \subseteq Accounts /\ members \subseteq Names
    /\ {restricted, flag, applied, preserve} \subseteq BOOLEAN
    /\ state \in {"OK", "ERRED"}
    /\ run.new \cap run.stale = {} /\ run.new \cap run.pulled = {}
    /\ run.stale \subseteq run.pulled

SyncInit ==
    /\ team \in SUBSET Users /\ live \in SUBSET Accounts /\ members \in {team \cup Outsiders, live}
    /\ restricted = FALSE /\ flag = FALSE /\ applied = FALSE /\ state = "OK" /\ preserve \in BOOLEAN
    /\ run = NoPass /\ status = <<>> /\ mail = {} /\ absent = {} /\ edits = 0 /\ troubles = 0

Step(pc) == run' = [run EXCEPT !.pc = pc]
Trouble == troubles < MaxTroubles /\ troubles' = troubles + 1

(***************************************************************************)
(* The pass (process_offering, process_resource_by_uuid).                  *)
(***************************************************************************)
\* the resource is listed and the backend reports its members
Pull ==
    /\ run.pc = "idle"
    /\ run' = [NoPass EXCEPT !.pc = "team", !.pulled = members, !.restricted = restricted,
                             !.flag = flag, !.erred = (state = "ERRED")]
    /\ absent' = (Users \ team) \cup (Accounts \ live)
    /\ UNCHANGED <<waldur, limits, state, members, applied, status, mail, troubles>>

\* on the backend and not in the team, but for the accounts and, where they
\* are preserved, the users Waldur does not know
Stale(pulled, known) ==
    LET extra == pulled \ (team \cup live) IN IF preserve THEN extra \cap known ELSE extra

\* a mutant: the team is read with the listing and the members after it
GroupResourceUsernamesLate ==
    /\ run.pc = "team"
    /\ LET was == Users \ absent IN
       run' = [run EXCEPT !.pc = IF run.restricted THEN "restrict" ELSE "add", !.pulled = members,
                          !.existing = was \cap members, !.new = was \ members,
                          !.stale = (members \cap Users) \ was, !.listed = TRUE, !.live = live]
    /\ absent' = Users \ team
    /\ UNCHANGED <<waldur, limits, state, members, applied, status, mail, troubles>>

\* _group_resource_usernames: the difference between the team, read now, and
\* the pulled report; without the known usernames only confirmed ones go, and
\* without the account list nobody does
GroupResourceUsernames ==
    /\ run.pc = "team"
    /\ \E known \in {Users \cup Accounts} \cup SUBSET Users, listed \in BOOLEAN :
        LET stale == IF listed THEN Stale(run.pulled, known) ELSE {} IN
        /\ (known # Users \cup Accounts \/ ~listed) => troubles < MaxTroubles
        /\ troubles' = IF known # Users \cup Accounts \/ ~listed THEN troubles + 1 ELSE troubles
        /\ run' = [run EXCEPT !.pc = IF run.restricted THEN "restrict" ELSE "add",
                              !.existing = team \cap run.pulled, !.new = team \ run.pulled,
                              !.stale = stale, !.listed = listed, !.live = live]
    /\ UNCHANGED <<waldur, limits, state, members, applied, status, mail, absent>>

\* users the backend fails to add are left for the next pass
AddUsersToResource ==
    /\ run.pc = "add"
    /\ \E failed \in SUBSET run.new :
         /\ failed # {} => troubles < MaxTroubles
         /\ troubles' = IF failed # {} THEN troubles + 1 ELSE troubles
         /\ members' = members \cup (run.new \ failed)
    /\ Step("remove")
    /\ UNCHANGED <<waldur, limits, state, applied, status, mail, absent>>

RemoveUsersFromResource ==
    /\ run.pc = "remove"
    /\ \E failed \in SUBSET run.stale :
         /\ failed # {} => troubles < MaxTroubles
         /\ troubles' = IF failed # {} THEN troubles + 1 ELSE troubles
         /\ members' = members \ (run.stale \ failed)
    /\ Step("accounts")
    /\ UNCHANGED <<waldur, limits, state, applied, status, mail, absent>>

\* a restricted resource loses the team's associations and gets no new ones
RestrictMembers ==
    /\ run.pc = "restrict"
    /\ members' = members \ run.existing
    /\ Step("accounts")
    /\ UNCHANGED <<waldur, limits, state, applied, status, mail, absent, troubles>>

\* the account listing is the pass's own, read once
SyncResourceServiceAccounts ==
    /\ run.pc = "accounts"
    /\ LET now == IF run.listed THEN run.live ELSE live
       IN members' = (members \cup now) \ (Accounts \ now)
    /\ Step("status")
    /\ UNCHANGED <<waldur, limits, state, applied, status, mail, absent, troubles>>

SyncResourceStatus ==
    /\ run.pc = "status"
    /\ applied' = run.flag
    /\ Step("finish")
    /\ UNCHANGED <<waldur, limits, state, members, status, mail, absent, troubles>>

\* a resource read as ERRED is set back to OK once every backend step ran
FinishResource ==
    /\ run.pc = "finish"
    /\ state' = IF run.erred THEN "OK" ELSE state
    /\ run' = NoPass /\ absent' = {}
    /\ UNCHANGED <<waldur, limits, members, applied, status, mail, troubles>>

\* Waldur's own API refuses a request: the step is skipped, the rest still runs
SkipStep ==
    /\ run.pc \in {"team", "accounts", "status"} /\ Trouble
    /\ Step(CASE run.pc = "team" -> "accounts" [] run.pc = "accounts" -> "status" [] OTHER -> "finish")
    /\ UNCHANGED <<waldur, limits, state, members, applied, status, mail, absent>>

\* the backend fails: the rest of the resource is skipped and it is ERRED
MarkErred ==
    /\ run.pc \in {"add", "remove", "restrict", "status"} /\ Trouble
    /\ state' = "ERRED" /\ run' = NoPass /\ absent' = {}
    /\ UNCHANGED <<waldur, limits, members, applied, status, mail>>

\* Waldur is unreachable for a while: the resource is left as it is
TransientError ==
    /\ run.pc \notin {"idle", "accounts"} /\ Trouble
    /\ run' = NoPass /\ absent' = {}
    /\ UNCHANGED <<waldur, limits, state, members, applied, status, mail>>

(* reconcile_resource_statuses: the flag is read just before it is applied *)
StatusReads ==
    /\ status = <<>> /\ status' = <<flag>>
    /\ UNCHANGED <<waldur, limits, state, members, applied, run, mail, absent, troubles>>

ReconcileResourceStatus ==
    /\ status # <<>> /\ applied' = status[1] /\ status' = <<>>
    /\ UNCHANGED <<waldur, limits, state, members, run, mail, absent, troubles>>

(***************************************************************************)
(* Events, applied by a worker.                                            *)
(***************************************************************************)
\* a granted role adds the user unless the resource is restricted, a revoked
\* one removes the user; the team is not asked
ProcessUserRoleChanged(u, granted) ==
    /\ <<u, granted>> \in mail /\ u \in Users /\ mail' = mail \ {<<u, granted>>}
    /\ members' = IF granted THEN IF restricted THEN members ELSE members \cup {u} ELSE members \ {u}
    /\ UNCHANGED <<waldur, limits, state, applied, run, status, absent, troubles>>

\* an account is added when Waldur lists it, whatever became of the event's order
ProcessAccountCreation(a) ==
    /\ <<a, TRUE>> \in mail /\ a \in Accounts /\ mail' = mail \ {<<a, TRUE>>}
    /\ members' = IF a \in live THEN members \cup {a} ELSE members
    /\ UNCHANGED <<waldur, limits, state, applied, run, status, absent, troubles>>

ProcessAccountRemoval(a) ==
    /\ <<a, FALSE>> \in mail /\ a \in Accounts /\ mail' = mail \ {<<a, FALSE>>}
    /\ members' = members \ {a}
    /\ UNCHANGED <<waldur, limits, state, applied, run, status, absent, troubles>>

LoseEvent(e) ==
    /\ e \in mail /\ mail' = mail \ {e}
    /\ UNCHANGED <<waldur, limits, state, members, applied, run, status, absent, troubles>>

(***************************************************************************)
(* Waldur.                                                                 *)
(***************************************************************************)
Edit == edits < MaxChanges /\ edits' = edits + 1

\* a member joins or leaves the team, an account is opened or closed
Change(n) ==
    /\ Edit
    /\ team' = IF n \in Users THEN IF n \in team THEN team \ {n} ELSE team \cup {n} ELSE team
    /\ live' = IF n \in Accounts THEN IF n \in live THEN live \ {n} ELSE live \cup {n} ELSE live
    /\ mail' = mail \cup {<<n, n \notin team \cup live>>}
    /\ absent' = IF n \in team \cup live /\ run.pc # "idle" THEN absent \cup {n} ELSE absent
    /\ UNCHANGED <<restricted, flag, preserve, state, members, applied, run, status, troubles>>

SetFlags ==
    /\ Edit
    /\ \/ restricted' = ~restricted /\ UNCHANGED flag
       \/ flag' = ~flag /\ UNCHANGED restricted
    /\ UNCHANGED <<team, live, preserve, state, members, applied, run, status, mail, absent, troubles>>

PassSteps == \/ Pull \/ GroupResourceUsernames \/ AddUsersToResource \/ RemoveUsersFromResource
             \/ RestrictMembers \/ SyncResourceServiceAccounts \/ SyncResourceStatus \/ FinishResource

SyncNext ==
    \/ PassSteps \/ SkipStep \/ MarkErred \/ TransientError
    \/ StatusReads \/ ReconcileResourceStatus
    \/ \E u \in Users, g \in BOOLEAN : ProcessUserRoleChanged(u, g)
    \/ \E a \in Accounts : ProcessAccountCreation(a) \/ ProcessAccountRemoval(a)
    \/ \E e \in mail : LoseEvent(e)
    \/ \E n \in Users \cup Accounts : Change(n)
    \/ SetFlags

Deliver == \E e \in mail : \/ ProcessUserRoleChanged(e[1], e[2])
                           \/ ProcessAccountCreation(e[1]) \/ ProcessAccountRemoval(e[1])

(***************************************************************************)
(* Properties.                                                             *)
(***************************************************************************)
\* _sync_resource_users: the pass removes as stale only someone who really was
\* outside the team, or an account that was not OK, at some time since the
\* members were pulled; users Waldur does not know only where they are not
\* preserved.
NoFalseRemoval ==
    RemoveUsersFromResource =>
     \A n \in members \ members' : n \in absent \/ (n \in Outsiders /\ ~preserve)

\* _process_resources: once Waldur stops changing, the associations of an
\* unrestricted resource are its team and its accounts, with the preserved
\* outsiders, whatever was late, lost, stale or failed before.
MembersMatch ==
    ~restricted => /\ members \cap (Users \cup Accounts) = team \cup live
                   /\ ~preserve => members \cap Outsiders = {}

\* _sync_resource, _sync_resource_status: a resource that a failure marked
\* ERRED is OK again and the backend has the flag Waldur shows.
ResourceHealthy == state = "OK" /\ applied = flag

(***************************************************************************)
(* What makes NoFalseRemoval inductive.                                    *)
(***************************************************************************)
SyncRuns == [pc : {"idle", "team", "restrict", "add", "remove", "accounts", "status", "finish"},
             pulled : SUBSET Names, new : SUBSET Names, stale : SUBSET Names,
             existing : SUBSET Names, live : SUBSET Names, listed : BOOLEAN,
             restricted : BOOLEAN, flag : BOOLEAN, erred : BOOLEAN]

\* Whoever is outside the team or the accounts during a pass is in absent, and so
\* is whom the pass takes for stale, or Waldur does not know them.
SyncInv ==
    /\ team \subseteq Users /\ live \subseteq Accounts /\ members \subseteq Names
    /\ {restricted, flag} \subseteq BOOLEAN
    /\ run \in SyncRuns
    /\ run.pc # "idle" => (Users \ team) \cup (Accounts \ live) \subseteq absent
    /\ run.pc \in {"add", "remove"} =>
          \A n \in run.stale : n \in absent \/ (n \in Outsiders /\ ~preserve)
=============================================================================
