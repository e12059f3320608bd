--------------------------- MODULE LdapRoleGroups ---------------------------
(***************************************************************************)
(* The ldap-roles plugin (plugins/ldap-roles): role grants on a resource   *)
(* become members of LDAP groups that carry the marker of the resource. A  *)
(* pull reads the grants, then writes the groups; the periodic pass and    *)
(* the role events pull the same resource, while an order terminates it.   *)
(***************************************************************************)
EXTENDS Integers, FiniteSets

CONSTANTS Holdings,      \* resources
          Duties,        \* roles of the role map
          Common,        \* roles whose template renders one name for all resources
          Fellows,       \* people
          Pullers,       \* threads that pull; "pass" is the one that reports
          MaxLrEdits,    \* bound: grants, terminations, new LDAP entries
          MaxLrFaults    \* bound: failed calls

\* No resource has the mark of a group that is not there or not the agent's.
LrParameters == {"none", "site"} \cap Holdings = {}

VARIABLES entry,     \* [group name -> [owner, members]]; owner "none": absent
          grants,    \* [resource -> set of <<person, role>>] in Waldur
          inLdap,    \* people with an LDAP entry
          lrLife,    \* [resource -> "ok", "terminating" or "gone"]
          pulls,     \* [thread -> what its pull read, or NoPull]
          statuses,  \* [resource -> [grant -> state reported to Waldur]]
          lrEdits, lrFaults

lrvars == <<entry, grants, inLdap, lrLife, pulls, statuses, lrEdits, lrFaults>>

\* render_group_name
GroupName(r, d) == IF d \in Common THEN <<"all", d>> ELSE <<r, d>>

GroupNames == {GroupName(r, d) : r \in Holdings, d \in Duties}
Absent == [owner |-> "none", members |-> {}]
NoPull == [of |-> "none", grants |-> {}]
Grants == Fellows \X Duties
Entries == [owner : Holdings \cup {"none", "site"}, members : SUBSET Fellows]
Readings == [of : Holdings \cup {"none"}, grants : SUBSET Grants]

LrTypeOK ==
    /\ entry \in [GroupNames -> Entries]
    /\ grants \in [Holdings -> SUBSET Grants] /\ inLdap \subseteq Fellows /\ lrLife \in [Holdings -> {"ok", "terminating", "gone"}]
    /\ pulls \in [Pullers -> Readings]
    /\ statuses \in [Holdings -> [Grants -> {"none", "synced", "missing", "error"}]]

LrInit ==
    /\ \E made \in SUBSET {GroupName(r, d) : r \in Holdings, d \in Common} :
          entry = [n \in GroupNames |-> IF n \in made THEN [owner |-> "site", members |-> Fellows] ELSE Absent]
    /\ grants = [r \in Holdings |-> {}] /\ inLdap \in SUBSET Fellows /\ lrLife = [r \in Holdings |-> "ok"]
    /\ pulls = [t \in Pullers |-> NoPull] /\ statuses = [r \in Holdings |-> [g \in Grants |-> "none"]] /\ lrEdits = 0 /\ lrFaults = 0

LrFault == lrFaults < MaxLrFaults /\ lrFaults' = lrFaults + 1

\* Roles are granted and revoked, a resource is terminated, an account appears.
LrEdit ==
    /\ lrEdits < MaxLrEdits /\ lrEdits' = lrEdits + 1
    /\ \/ /\ \E r \in Holdings, g \in Grants :
                grants' = [grants EXCEPT ![r] = IF g \in @ THEN @ \ {g} ELSE @ \cup {g}]
          /\ UNCHANGED <<inLdap, lrLife>>
       \/ \E r \in Holdings : lrLife[r] = "ok" /\ lrLife' = [lrLife EXCEPT ![r] = "terminating"] /\ UNCHANGED <<grants, inLdap>>
       \/ inLdap # Fellows /\ inLdap' = Fellows /\ UNCHANGED <<grants, lrLife>>
    /\ UNCHANGED <<entry, pulls, statuses, lrFaults>>

\* pull_resource, first half: the grants are read; a failure raises before any
\* group is touched
PullReads(t, r) ==
    /\ pulls[t] = NoPull /\ lrLife[r] = "ok" /\ pulls' = [pulls EXCEPT ![t] = [of |-> r, grants |-> grants[r]]]
    /\ UNCHANGED <<entry, grants, inLdap, lrLife, statuses, lrEdits, lrFaults>>

\* build_grants, group_grants
Desired(r, gs, n) == {g[1] : g \in {h \in gs : GroupName(r, h[2]) = n}}

\* _ensure_owned_group
EnsureOwnedGroup(r, n) == entry[n].owner \in {"none", r}

\* _sync_group: the stale leave, and those with an entry join
SyncedMembers(now, want) == (now \cap want) \cup (want \cap inLdap)

\* _revoke_undesired_groups
Revoked(now) == {}

\* The groups after a pull whose writes to the names in failed were lost.
Reconciled(r, gs, failed) ==
    [n \in GroupNames |->
        IF n \in failed THEN entry[n]
        ELSE IF Desired(r, gs, n) # {}
        THEN IF EnsureOwnedGroup(r, n) THEN [owner |-> r, members |-> SyncedMembers(entry[n].members, Desired(r, gs, n))] ELSE entry[n]
        ELSE IF entry[n].owner = r THEN [entry[n] EXCEPT !.members = Revoked(@)] ELSE entry[n]]

\* mutant: whoever is wanted counts as a member
OutcomeAssumed(r, gs, failed, g) == IF g \notin gs THEN "none" ELSE IF GroupName(r, g[2]) \in failed THEN "error" ELSE "synced"

\* the outcomes of _sync_group, one per grant (_sync_report)
Outcome(r, gs, failed, g) ==
    CASE g \notin gs -> "none"
      [] g \in gs /\ (GroupName(r, g[2]) \in failed \/ ~EnsureOwnedGroup(r, GroupName(r, g[2]))) -> "error"
      [] OTHER -> IF g[1] \in inLdap THEN "synced" ELSE "missing"

\* pull_resource, second half, and the report of the pass
PullWrites(t) ==
    LET r == pulls[t].of gs == pulls[t].grants
    IN /\ pulls[t] # NoPull /\ pulls' = [pulls EXCEPT ![t] = NoPull]
       /\ \E failed \in {{}} \cup {{n} : n \in GroupNames} :
             /\ IF failed = {} THEN UNCHANGED lrFaults ELSE LrFault
             /\ entry' = Reconciled(r, gs, failed)
             /\ statuses' = IF t = "pass" THEN [statuses EXCEPT ![r] = [g \in Grants |-> Outcome(r, gs, failed, g)]] ELSE statuses
       /\ UNCHANGED <<grants, inLdap, lrLife, lrEdits>>

\* delete_resource empties every owned group, or raises and is retried
DeleteResource(r) ==
    /\ lrLife[r] = "terminating"
    /\ LET emptied == [n \in GroupNames |-> IF entry[n].owner = r THEN [entry[n] EXCEPT !.members = {}] ELSE entry[n]]
       IN \/ entry' = emptied /\ lrLife' = [lrLife EXCEPT ![r] = "gone"] /\ UNCHANGED lrFaults
          \/ \E n \in GroupNames : entry' = [emptied EXCEPT ![n] = entry[n]] /\ LrFault /\ UNCHANGED lrLife
    /\ UNCHANGED <<grants, inLdap, pulls, statuses, lrEdits>>

LrNext ==
    \/ LrEdit
    \/ \E t \in Pullers : PullWrites(t) \/ \E r \in Holdings : PullReads(t, r)
    \/ \E r \in Holdings : DeleteResource(r)

(***************************************************************************)
(* Properties.                                                             *)
(***************************************************************************)
\* A group the agent did not make for a resource keeps its members and its
\* owner, though a template renders its name (_ensure_owned_group).
MarkersRespected ==
    \A n \in GroupNames : /\ entry[n].owner = "site" => entry'[n] = entry[n]
                          /\ entry[n].owner # "none" => entry'[n].owner = entry[n].owner

\* The groups a live resource owns end with exactly the granted people that
\* have an account, whichever thread pulled with whichever reading last
\* (pull_resource, _sync_group, _revoke_undesired_groups).
GrantsMatch ==
    \A r \in Holdings, n \in GroupNames :
       lrLife[r] = "ok" /\ entry[n].owner = r => entry[n].members = Desired(r, grants[r], n) \cap inLdap

\* What Waldur is told of a grant is true in the end: synced if the person is
\* in the group, missing without an account, error if the group is not the
\* resource's (_sync_report, _report_membership_sync_statuses).
StatusesMatch ==
    \A r \in Holdings, g \in Grants :
       lrLife[r] = "ok" =>
          LET n == GroupName(r, g[2])
          IN statuses[r][g] = CASE g \notin grants[r] -> "none"
                                [] g \in grants[r] /\ entry[n].owner # r -> "error"
                                [] OTHER -> IF g[1] \in entry[n].members THEN "synced" ELSE "missing"

(***************************************************************************)
(* What makes MarkersRespected inductive: only a resource pulls.           *)
(***************************************************************************)
LrInv ==
    /\ LrParameters
    /\ entry \in [GroupNames -> Entries]
    /\ pulls \in [Pullers -> Readings]
    /\ grants \in [Holdings -> SUBSET Grants] /\ inLdap \subseteq Fellows
    /\ \A t \in Pullers : pulls[t] # NoPull => pulls[t].of \in Holdings
=============================================================================
