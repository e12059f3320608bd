----------------------------- MODULE RancherCrd -----------------------------
(***************************************************************************)
(* The Rancher and Keycloak CRD plugin (plugins/rancher-kc-crd) on one     *)
(* resource, with no cluster_role_map: every ResourceProject of Waldur     *)
(* becomes a custom resource (CR) that an operator reconciles.  A pull     *)
(* runs in the periodic pass and, for a role event, in the listener's      *)
(* thread at the same time.  A version is kept as "fresh": nobody wrote    *)
(* the CR since this pull read it.                                         *)
(***************************************************************************)
EXTENDS Integers, FiniteSets

CONSTANTS Rps,              \* ResourceProjects
          Grantees,         \* people
          RoleMap,          \* roles of the role_map
          OtherRoles,       \* roles of the offering that it lacks
          ApplyMaxRetries,  \* _APPLY_MAX_RETRIES
          MaxCrdEdits,      \* bound: changes in Waldur and first sign-ins
          MaxCrdFaults      \* bound: calls that fail, reconciliations that err

VARIABLES rps,      \* Waldur: the state of each ResourceProject
          granted,  \* Waldur: the role each person holds on it
          cr,       \* Kubernetes: the CR of each, with the operator's status
          pull,     \* the two pulls: the periodic pass and the role event
          roleEvent,\* a role event that waits
          report,   \* _membership_sync_reports
          known,    \* people Keycloak knows
          crdEdits, crdFaults

crdvars == <<rps, granted, cr, pull, roleEvent, report, known, crdEdits, crdFaults>>

\* build_role_bindings: a role that is not in the map reaches nobody
BuildRoleBindings(r) == {p \in Grantees : granted[r][p] \in RoleMap}

Live == {r \in Rps : rps[r] \notin {"none", "gone"}}
NoCr == [exists |-> FALSE, spec |-> {}, phase |-> "none", synced |-> {}]
Unreported == [r \in Rps |-> [p \in Grantees |-> "none"]]
Idle == [at |-> "idle", listed |-> {}, todo |-> {}, before |-> {}, said |-> Unreported, r |-> "-",
         body |-> {}, found |-> FALSE, fresh |-> FALSE, tries |-> 0]

CrdTypeOK ==
    /\ rps \in [Rps -> {"none", "Creating", "Updating", "OK", "Erred", "gone"}]
    /\ granted \in [Rps -> [Grantees -> RoleMap \cup OtherRoles \cup {"none"}]] /\ known \subseteq Grantees
    /\ \A r \in Rps : cr[r].synced \subseteq Grantees /\ (cr[r].exists \/ cr[r] = NoCr)
    /\ \A i \in {"pass", "event"} : pull[i].todo \subseteq pull[i].listed /\ pull[i].tries < ApplyMaxRetries
    /\ \A r \in Rps, p \in Grantees : report[r][p] \in {"none", "pending", "error", "synced", "missing_in_idp"}

CrdInit ==
    /\ rps = [r \in Rps |-> "none"] /\ granted = Unreported /\ cr = [r \in Rps |-> NoCr]
    /\ pull = [i \in {"pass", "event"} |-> Idle] /\ roleEvent = FALSE /\ report = Unreported
    /\ known = {} /\ crdEdits = 0 /\ crdFaults = 0

CrdBroken == crdFaults < MaxCrdFaults /\ crdFaults' = crdFaults + 1

\* ResourceProjects come, change and go; a role that is granted or revoked is
\* also an event; people sign in
CrdEdit ==
    /\ crdEdits < MaxCrdEdits /\ crdEdits' = crdEdits + 1
    /\ \/ \E r \in Rps : /\ \/ rps[r] = "none" /\ rps' = [rps EXCEPT ![r] = "Creating"]
                            \/ rps[r] = "OK" /\ rps' = [rps EXCEPT ![r] = "Updating"]
                            \/ r \in Live /\ rps' = [rps EXCEPT ![r] = "gone"]
                         /\ UNCHANGED <<granted, known, roleEvent>>
       \/ \E r \in Live, p \in Grantees, role \in RoleMap \cup OtherRoles \cup {"none"} :
             /\ granted[r][p] # role /\ granted' = [granted EXCEPT ![r][p] = role]
             /\ roleEvent' = TRUE /\ UNCHANGED <<rps, known>>
       \/ \E p \in Grantees \ known : known' = known \cup {p} /\ UNCHANGED <<rps, granted, roleEvent>>
    /\ UNCHANGED <<cr, pull, report, crdFaults>>

\* a CR that somebody writes is stale in every other pull that has read it
Written(i, r) == [j \in DOMAIN pull |-> IF j # i /\ pull[j].r = r THEN [pull[j] EXCEPT !.fresh = FALSE] ELSE pull[j]]

\* the operator reconciles a CR and writes its status, or fails
OperatorReconciles(r) ==
    /\ cr[r].exists
    /\ LET done == [cr[r] EXCEPT !.phase = "Ready", !.synced = cr[r].spec \cap known] IN
       \/ cr[r] # done /\ cr' = [cr EXCEPT ![r] = done] /\ UNCHANGED crdFaults
       \/ CrdBroken /\ cr' = [cr EXCEPT ![r].phase = "Error"]
    /\ pull' = Written("operator", r) /\ UNCHANGED <<rps, granted, roleEvent, report, known, crdEdits>>

(***************************************************************************)
(* pull_resource, step by step.                                            *)
(***************************************************************************)
\* the ResourceProjects are listed; a role event runs the same pull, whatever
\* it was about (add_user, remove_user)
PullStarts(i) ==
    /\ pull[i].at = "idle" /\ (i = "event" => roleEvent)
    /\ roleEvent' = IF i = "event" THEN FALSE ELSE roleEvent
    /\ pull' = [pull EXCEPT ![i] = [Idle EXCEPT !.at = "scan", !.listed = Live, !.todo = Live,
                                    !.before = {r \in Live : rps[r] # "OK"}]]
    /\ UNCHANGED <<rps, granted, cr, report, known, crdEdits, crdFaults>>

\* build_cr_spec: the CR names the project and its role bindings
BuildCrSpec(r) == BuildRoleBindings(r)

\* the users of the next ResourceProject are fetched, its spec is built and
\* apply() reads the CR; one that is gone by now ends the pull
PullReads(i, r) ==
    /\ pull[i].at = "scan" /\ r \in pull[i].todo
    /\ pull' = [pull EXCEPT ![i] = IF r \notin Live THEN Idle
                                   ELSE [@ EXCEPT !.at = "put", !.todo = @ \ {r}, !.r = r, !.body = BuildCrSpec(r),
                                                  !.found = cr[r].exists, !.fresh = TRUE, !.tries = 0]]
    /\ UNCHANGED <<rps, granted, cr, roleEvent, report, known, crdEdits, crdFaults>>

\* _derive_grant_states for one grant
DeriveGrantStates(c, p) ==
    CASE c.phase = "Error" -> "error"
      [] c.phase = "none" -> "pending"
      [] c.phase = "Ready" /\ p \in c.synced -> "synced"
      [] OTHER -> "missing_in_idp"

\* _sync_rp_state_from_cr: Ready ends a state the listing saw in progress
SyncRpStateFromCr(r, before, c) ==
    IF c.phase = "Ready" /\ before THEN "OK" ELSE IF c.phase = "Error" THEN "Erred" ELSE rps[r]

\* the replaced CR: the new spec, the status as it was
Applied(r, body) == [cr[r] EXCEPT !.exists = TRUE, !.spec = body]

\* apply() writes what it built, when nobody wrote in between; then the status
\* is read and the state of the ResourceProject and the grants follow from it
PullApplies(i) ==
    LET x == pull[i]
        r == x.r
        c == Applied(r, x.body)
        mine == [p \in Grantees |-> IF p \in x.body THEN DeriveGrantStates(c, p) ELSE "none"]
    IN /\ x.at = "put" /\ x.fresh
       /\ cr' = [cr EXCEPT ![r] = c]
       /\ \/ rps' = [rps EXCEPT ![r] = IF r \in Live THEN SyncRpStateFromCr(r, r \in x.before, c) ELSE @]
             /\ UNCHANGED crdFaults
          \/ CrdBroken /\ UNCHANGED rps
       /\ pull' = [Written(i, r) EXCEPT ![i].at = "scan", ![i].r = "-", ![i].body = {}, ![i].found = FALSE,
                                        ![i].fresh = FALSE, ![i].tries = 0, ![i].said[r] = mine]
       /\ UNCHANGED <<granted, roleEvent, report, known, crdEdits>>

\* somebody wrote: a conflict is tried again with a new read; a CR that came
\* or went since, and the last try, end the pull
PullConflicts(i) ==
    LET x == pull[i] IN
    /\ x.at = "put" /\ ~x.fresh
    /\ pull' = [pull EXCEPT ![i] = IF x.found /\ cr[x.r].exists /\ x.tries < ApplyMaxRetries - 1
                                   THEN [@ EXCEPT !.fresh = TRUE, !.tries = @ + 1] ELSE Idle]
    /\ UNCHANGED <<rps, granted, cr, roleEvent, report, known, crdEdits, crdFaults>>

\* the CRs of this resource that no listed ResourceProject stands behind
Orphans(listed) == {r \in Rps : cr[r].exists} \ listed

\* after the last ResourceProject the report is stored and the orphans are
\* deleted; one that cannot be is logged
PullPrunes(i) ==
    /\ pull[i].at = "scan" /\ pull[i].todo = {}
    /\ \/ cr' = [r \in Rps |-> IF r \in Orphans(pull[i].listed) THEN NoCr ELSE cr[r]] /\ UNCHANGED crdFaults
       \/ Orphans(pull[i].listed) # {} /\ CrdBroken /\ UNCHANGED cr
    /\ report' = pull[i].said
    /\ pull' = [[j \in DOMAIN pull |-> IF pull[j].r \in Orphans(pull[i].listed) THEN [pull[j] EXCEPT !.fresh = FALSE] ELSE pull[j]]
                EXCEPT ![i] = Idle]
    /\ UNCHANGED <<rps, granted, roleEvent, known, crdEdits>>

\* a call to Waldur or to Kubernetes fails, and the pull with it
PullFails(i) ==
    /\ pull[i].at # "idle" /\ CrdBroken /\ pull' = [pull EXCEPT ![i] = Idle]
    /\ UNCHANGED <<rps, granted, cr, roleEvent, report, known, crdEdits>>

PullSteps(i) == PullStarts(i) \/ (\E r \in Rps : PullReads(i, r)) \/ PullApplies(i) \/ PullConflicts(i) \/ PullPrunes(i)

CrdNext ==
    \/ CrdEdit
    \/ \E r \in Rps : OperatorReconciles(r)
    \/ \E i \in {"pass", "event"} : PullSteps(i) \/ PullFails(i)

(***************************************************************************)
(* Properties.                                                             *)
(***************************************************************************)
\* With no more changes the CRs are those of the ResourceProjects in Waldur,
\* each with the people who hold a mapped role, whatever an older pull wrote or
\* pruned in between (pull_resource, CrdClient.apply).
CrsMatch ==
    \A r \in Rps : IF r \in Live THEN cr[r].exists /\ cr[r].spec = {p \in Grantees : granted[r][p] \in RoleMap} ELSE ~cr[r].exists

\* With no more changes a ResourceProject that the operator reconciled is OK
\* in Waldur, also after an error, and the report says synced of exactly the
\* people Keycloak knows (_sync_rp_state_from_cr, _derive_grant_states).
StatusMatches ==
    \A r \in Live : /\ rps[r] = "OK"
                    /\ \A p \in Grantees : granted[r][p] \in RoleMap =>
                          report[r][p] = IF p \in known THEN "synced" ELSE "missing_in_idp"
=============================================================================
