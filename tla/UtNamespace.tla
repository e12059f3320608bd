----------------------------- MODULE UtNamespace -----------------------------
(***************************************************************************)
(* The namespace plugin (plugins/k8s-ut-namespace) on one resource: a      *)
(* ManagedNamespace custom resource with a quota and lists of users, and   *)
(* a Keycloak group for each namespace role.                               *)
(***************************************************************************)
EXTENDS Integers, FiniteSets

CONSTANTS NsRoles,          \* NS_ROLES
          DefaultRole,      \* default_role
          People,           \* users of Waldur
          MaxNsEdits,       \* bound: changes in Waldur, first sign-ins
          MaxNsFaults       \* bound: calls that fail

VARIABLES ns,         \* the custom resource: exists, quota, users of each role
          kc,         \* the Keycloak groups: [role -> exists, members]
          nsLife,     \* the resource in Waldur
          nsLimit,    \* its limit
          nsNamed,    \* it has a backend_id
          nsFlags,    \* its flags: subset of "paused", "downscaled"
          seenFlags,  \* what a pass made of the flags, until it acts on it
          roleOf,     \* the team: the namespace role the role of each maps to
          nsEvents,   \* role events that wait: people granted or revoked
          inKc,       \* people Keycloak knows
          undeleted,  \* history: groups whose deletion failed last
          nsEdits, nsFaults

nsvars == <<ns, kc, nsLife, nsLimit, nsNamed, nsFlags, seenFlags, roleOf, nsEvents, inKc,
            undeleted, nsEdits, nsFaults>>
nsWaldur == <<nsLimit, nsFlags, roleOf, inKc, nsEdits>>
nsRecord == <<nsNamed, undeleted>>

Nobody == [r \in NsRoles |-> {}]
NoNamespace == [exists |-> FALSE, quota |-> 0, users |-> Nobody]
NoGroups == [exists |-> [r \in NsRoles |-> FALSE], members |-> Nobody]
Team == {p \in People : roleOf[p] # "none"}
Grouped == UNION {kc.members[r] : r \in NsRoles}

NsTypeOK ==
    /\ ns.exists \in BOOLEAN /\ ns.quota \in 0 .. 3 /\ (ns.exists \/ ns = NoNamespace)
    /\ \A r \in NsRoles : kc.members[r] \subseteq People /\ (kc.exists[r] \/ kc.members[r] = {})
    /\ nsLife \in {"none", "creating", "OK", "ERRED", "terminating", "TERMINATED"}
    /\ roleOf \in [People -> NsRoles \cup {"none"}] /\ nsEvents \subseteq People
    /\ nsFlags \subseteq {"paused", "downscaled"} /\ seenFlags \in {"unread", "paused", "downscaled", "active"}
    /\ nsNamed \in BOOLEAN /\ undeleted \subseteq NsRoles

NsInit ==
    /\ ns = NoNamespace /\ kc = NoGroups /\ nsLife = "none" /\ nsLimit = 2 /\ nsFlags = {}
    /\ nsNamed = FALSE /\ undeleted = {} /\ seenFlags = "unread" /\ roleOf = [p \in People |-> "none"] /\ nsEvents = {} /\ inKc = {}
    /\ nsEdits = 0 /\ nsFaults = 0

NsBroken == nsFaults < MaxNsFaults /\ nsFaults' = nsFaults + 1
NsSound == UNCHANGED nsFaults
NsEdited == nsEdits < MaxNsEdits /\ nsEdits' = nsEdits + 1

NsEdit ==
    /\ NsEdited
    /\ \/ /\ nsLife \in {"none", "OK", "ERRED"} /\ nsLife' = IF nsLife = "none" THEN "creating" ELSE "terminating"
          /\ UNCHANGED <<nsFlags, roleOf, nsEvents, inKc>>
       \/ /\ nsLife = "OK" /\ \E f \in {"paused", "downscaled"} : nsFlags' = (nsFlags \cup {f}) \ (nsFlags \cap {f})
          /\ UNCHANGED <<nsLife, roleOf, nsEvents, inKc>>
       \/ \E p \in People, r \in NsRoles \cup {"none"} :
             /\ r # roleOf[p] /\ roleOf' = [roleOf EXCEPT ![p] = r] /\ nsEvents' = nsEvents \cup {p}
             /\ UNCHANGED <<nsLife, nsFlags, inKc>>
       \/ \E p \in People \ inKc : inKc' = inKc \cup {p} /\ UNCHANGED <<nsLife, nsFlags, roleOf, nsEvents>>
    /\ UNCHANGED <<ns, kc, nsLimit, nsRecord, seenFlags, nsFaults>>

(***************************************************************************)
(* Orders.                                                                 *)
(***************************************************************************)
\* _create_keycloak_groups: existing ones are used
CreateKeycloakGroups(some) == [kc EXCEPT !.exists = [r \in NsRoles |-> @[r] \/ r \in some]]

\* _delete_keycloak_groups: a group that cannot be deleted is kept
DeleteKeycloakGroups(g, kept) ==
    [exists |-> [r \in NsRoles |-> r \in kept /\ g.exists[r]],
     members |-> [r \in NsRoles |-> IF r \in kept THEN g.members[r] ELSE {}]]

\* create_resource_with_id: groups, then the custom resource; when that fails
\* the groups are deleted again, as far as that succeeds, and a custom resource
\* whose reply was lost stays; the backend_id is recorded at the end
CreateResourceWithId ==
    LET made == [NoNamespace EXCEPT !.exists = TRUE, !.quota = nsLimit]
    IN  /\ nsLife = "creating"
        /\ \/ /\ kc' = CreateKeycloakGroups(NsRoles) /\ ns' = made /\ nsNamed' = TRUE
              /\ nsLife' = "OK" /\ NsSound
           \/ /\ NsBroken /\ nsLife' = "ERRED" /\ UNCHANGED nsNamed
              /\ \/ UNCHANGED ns /\ \E some \in SUBSET NsRoles : some # NsRoles /\ kc' = CreateKeycloakGroups(some)
                 \/ /\ ns' \in {ns, made}
                    /\ \E kept \in SUBSET NsRoles : kc' = DeleteKeycloakGroups(CreateKeycloakGroups(NsRoles), kept)
        /\ UNCHANGED <<nsWaldur, seenFlags, nsEvents, undeleted>>

\* delete_resource: the custom resource first, then the groups; only the
\* first may fail the order, and without a backend_id nothing is deleted
DeleteResource ==
    /\ nsLife = "terminating"
    /\ \/ ~nsNamed /\ nsLife' = "TERMINATED" /\ NsSound /\ UNCHANGED <<ns, kc, undeleted>>
       \/ /\ nsNamed /\ ns' = NoNamespace /\ nsLife' = "TERMINATED"
          /\ \E kept \in SUBSET NsRoles :
                /\ kc' = DeleteKeycloakGroups(kc, kept) /\ undeleted' = kept
                /\ IF kept = {} THEN NsSound ELSE NsBroken
       \/ nsNamed /\ NsBroken /\ nsLife' = "ERRED" /\ ns' \in {ns, NoNamespace} /\ UNCHANGED <<kc, undeleted>>
    /\ UNCHANGED <<nsWaldur, nsNamed, seenFlags, nsEvents>>

\* set_resource_limits: the quota is patched, paused or not
SetResourceLimits ==
    /\ nsLife = "OK" /\ NsEdited
    /\ \/ nsLimit' = 5 - nsLimit /\ ns' = [ns EXCEPT !.quota = 5 - nsLimit] /\ NsSound
       \/ NsBroken /\ UNCHANGED <<nsLimit, ns>>
    /\ UNCHANGED <<kc, nsLife, nsRecord, nsFlags, seenFlags, roleOf, nsEvents, inKc>>

\* a pass reads the resource, and acts on its flags later, pausing first:
\* pause_resource sets the quota to zero, downscale_resource to a minimum (1),
\* restore_resource does nothing
ReadsStatus ==
    /\ nsLife = "OK" /\ seenFlags = "unread"
    /\ seenFlags' = IF "paused" \in nsFlags THEN "paused"
                    ELSE IF "downscaled" \in nsFlags THEN "downscaled" ELSE "active"
    /\ UNCHANGED <<ns, kc, nsLife, nsWaldur, nsRecord, nsEvents, nsFaults>>

PauseResource(x) == IF x.exists THEN [x EXCEPT !.quota = 0] ELSE x

DownscaleResource(x) == IF x.exists THEN [x EXCEPT !.quota = 1] ELSE x

AppliesStatus ==
    /\ seenFlags # "unread" /\ seenFlags' = "unread"
    /\ \/ /\ NsSound
          /\ ns' = CASE seenFlags = "paused" -> PauseResource(ns)
                     [] seenFlags = "downscaled" -> DownscaleResource(ns)
                     [] OTHER -> ns
       \/ seenFlags # "active" /\ NsBroken /\ UNCHANGED ns
    /\ UNCHANGED <<kc, nsLife, nsWaldur, nsRecord, nsEvents>>

(***************************************************************************)
(* Members.                                                                *)
(***************************************************************************)

\* _sync_users_to_cr: the lists of the whole team
SyncUsersToCr == [r \in NsRoles |-> {p \in People : roleOf[p] = r}]

\* out of the wrong groups, into the right one
Moved(p) == [kc EXCEPT !.members = [r \in NsRoles |-> IF r = roleOf[p] /\ kc.exists[r] THEN @[r] \cup {p} ELSE @[r] \ {p}]]

\* add_users_to_resource in a pass, on one member: everybody with a role is
\* put right, new or not; a removal or an addition that fails is logged
AddUsersToResource(p) ==
    /\ nsLife = "OK" /\ ns.exists /\ p \in Team
    /\ \/ ns' = [ns EXCEPT !.users = SyncUsersToCr] /\ NsSound /\ kc' = IF p \in inKc THEN Moved(p) ELSE kc
       \/ UNCHANGED ns /\ NsBroken /\ kc' = IF p \in inKc THEN Moved(p) ELSE kc
       \/ /\ ns' = [ns EXCEPT !.users = SyncUsersToCr] /\ p \in inKc /\ NsBroken
          /\ \/ kc' = [Moved(p) EXCEPT !.members[roleOf[p]] = kc.members[roleOf[p]]]
             \/ \E r \in NsRoles \ {roleOf[p]} : kc' = [Moved(p) EXCEPT !.members[r] = kc.members[r]]
    /\ UNCHANGED <<nsLife, nsWaldur, nsRecord, seenFlags, nsEvents>>

\* a team without members clears the lists too
SyncsEmptyTeam ==
    /\ nsLife = "OK" /\ ns.exists /\ Team = {} /\ ns' = [ns EXCEPT !.users = SyncUsersToCr]
    /\ UNCHANGED <<kc, nsLife, nsWaldur, nsRecord, seenFlags, nsEvents, nsFaults>>

\* remove_user out of every group; one that fails is logged.  A pass calls it
\* for members that left, an event for a revoked role
RemoveUser(p) ==
    \/ kc' = [kc EXCEPT !.members = [r \in NsRoles |-> @[r] \ {p}]] /\ NsSound
    \/ p \in Grouped /\ NsBroken /\ UNCHANGED kc

RemovesStale(p) ==
    /\ nsLife = "OK" /\ ns.exists /\ p \in Grouped \ Team /\ RemoveUser(p)
    /\ UNCHANGED <<ns, nsLife, nsWaldur, nsRecord, seenFlags, nsEvents>>

\* add_user for a role event: the group of the default role, whatever the role
AddUser(p) ==
    IF p \notin inKc \/ ~kc.exists[DefaultRole] THEN UNCHANGED <<kc, nsFaults>>
    ELSE \/ kc' = [kc EXCEPT !.members[DefaultRole] = @ \cup {p}] /\ NsSound
         \/ NsBroken /\ UNCHANGED kc

RoleEvent(p) ==
    /\ p \in nsEvents /\ nsEvents' = nsEvents \ {p}
    /\ IF nsLife # "OK" THEN UNCHANGED <<kc, nsFaults>> ELSE IF p \in Team THEN AddUser(p) ELSE RemoveUser(p)
    /\ UNCHANGED <<ns, nsLife, nsWaldur, nsRecord, seenFlags>>

NsNext ==
    \/ NsEdit \/ CreateResourceWithId \/ DeleteResource \/ SetResourceLimits \/ ReadsStatus \/ AppliesStatus \/ SyncsEmptyTeam
    \/ \E p \in People : AddUsersToResource(p) \/ RemovesStale(p) \/ RoleEvent(p)

(***************************************************************************)
(* Properties.                                                             *)
(***************************************************************************)
\* With no more changes everybody Keycloak knows is in the group of their own
\* role and in no other, and nobody else is in one, also when an event put
\* them into the default group first (add_user, add_users_to_resource).
NsRolesMatch ==
    nsLife = "OK" => \A p \in People, r \in NsRoles : p \in kc.members[r] <=> p \in inKc /\ roleOf[p] = r

\* With no more changes the lists of the custom resource are the team
\* (_sync_users_to_cr).
ListsMatch == nsLife = "OK" => ns.users = [r \in NsRoles |-> {p \in People : roleOf[p] = r}]

\* With no more changes a paused resource has no quota and a downscaled one the
\* least, also when its limits were updated after the flag was set
\* (pause_resource, downscale_resource, set_resource_limits).  A flag that is
\* taken back restores nothing: the quota waits for the next limits.
FlagsHold ==
    nsLife = "OK" /\ nsFlags # {} => ns.quota = IF "paused" \in nsFlags THEN 0 ELSE 1

\* A terminated resource leaves no namespace, and no group but those whose
\* deletion failed, also when an earlier deletion failed half way
\* (delete_resource, _delete_keycloak_groups).  What a failed creation leaves
\* has no backend_id, and is not deleted.
NamespaceGone ==
    nsLife = "TERMINATED" /\ nsNamed =>
       ~ns.exists /\ \A r \in NsRoles : kc.exists[r] => r \in undeleted

(***************************************************************************)
(* What makes NamespaceGone inductive: a working resource has its          *)
(* backend_id.                                                             *)
(***************************************************************************)
NsInv ==
    /\ NamespaceGone
    /\ nsLife \in {"none", "creating", "OK", "ERRED", "terminating", "TERMINATED"}
    /\ nsLife = "OK" => nsNamed
=============================================================================
