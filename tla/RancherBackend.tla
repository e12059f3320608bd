--------------------------- MODULE RancherBackend ---------------------------
(***************************************************************************)
(* The Rancher plugin (plugins/rancher, plugins/keycloak-client) on the    *)
(* resources of one Waldur project: each has a Rancher project with a      *)
(* namespace and a quota; they share one Keycloak group, named after the   *)
(* Waldur project, which every Rancher project binds to its role.          *)
(***************************************************************************)
EXTENDS Integers, FiniteSets

CONSTANTS Clusters,          \* resources of the Waldur project
          Members,           \* people
          MaxRancherEdits,   \* bound: changes in Waldur
          MaxRancherFaults   \* bound: calls that fail

VARIABLES rancher,    \* projects, bindings of the group, namespaces, quotas
          group,      \* the Keycloak group: whether it exists, its members
          parent,     \* the group of the cluster
          rLife,      \* the life of each resource in Waldur
          rNamed,     \* resources with a backend_id
          sweep,      \* the removals that a pass over a resource has under way
          rWanted,    \* the limit of each resource in Waldur
          rTeam,      \* the team of the Waldur project
          signedIn,   \* people Keycloak knows
          released,   \* people whose removal was acknowledged
          rEdits, rFaults

rvars == <<rancher, group, parent, rLife, rNamed, sweep, rWanted, rTeam, signedIn, released,
           rEdits, rFaults>>
waldurSide == <<rWanted, rTeam, signedIn, rEdits>>

NoGroup == [exists |-> FALSE, members |-> {}]

\* where the pass is, the people it still has to remove, the members it saw,
\* and whether the group it saw is still the one there is
Sweeps == [at : {"idle", "remove", "list", "unbind", "delete"}, stale : SUBSET Members,
           saw : SUBSET Members, same : BOOLEAN]

RancherTypeOK ==
    /\ rancher.projects \subseteq Clusters /\ rancher.bound \subseteq Clusters
    /\ rancher.quota \in [Clusters -> 0 .. 2]
    /\ group.exists \in BOOLEAN /\ group.members \subseteq Members
    /\ group.exists \/ group = NoGroup
    /\ rLife \in [Clusters -> {"none", "creating", "OK", "ERRED", "terminating", "TERMINATED"}]
    /\ released \subseteq Members /\ parent \in BOOLEAN
    /\ rNamed \subseteq Clusters /\ sweep \in [Clusters -> Sweeps]

RancherInit ==
    /\ rancher = [projects |-> {}, bound |-> {}, spaces |-> {}, quota |-> [r \in Clusters |-> 0]]
    /\ group = NoGroup /\ parent = FALSE
    /\ rNamed = {}
    /\ sweep = [r \in Clusters |-> [at |-> "idle", stale |-> {}, saw |-> {}, same |-> FALSE]]
    /\ rLife = [r \in Clusters |-> "none"] /\ rWanted = [r \in Clusters |-> 1]
    /\ rTeam \in SUBSET Members /\ signedIn = {} /\ released = {} /\ rEdits = 0 /\ rFaults = 0

Broken == rFaults < MaxRancherFaults /\ rFaults' = rFaults + 1
Sound == UNCHANGED rFaults
RancherEdited == rEdits < MaxRancherEdits /\ rEdits' = rEdits + 1

OrderOrTeam ==
    /\ RancherEdited
    /\ \/ \E r \in Clusters : /\ rLife[r] \in {"none", "OK", "ERRED"}
                              /\ rLife' = [rLife EXCEPT ![r] = IF @ = "none" THEN "creating" ELSE "terminating"]
                              /\ UNCHANGED <<rTeam, released, signedIn>>
       \/ \E p \in Members : /\ rTeam' = (rTeam \cup {p}) \ (rTeam \cap {p})
                             /\ released' = released \ {p} /\ UNCHANGED <<rLife, signedIn>>
       \/ \E p \in Members \ signedIn : signedIn' = signedIn \cup {p} /\ UNCHANGED <<rLife, rTeam, released>>
    /\ UNCHANGED <<rancher, group, parent, rNamed, sweep, rWanted, rFaults>>

(***************************************************************************)
(* Creation.                                                               *)
(***************************************************************************)

\* _create_keycloak_groups: the parent and the child, reused when they exist
CreateKeycloakGroups(g) == [g EXCEPT !.exists = TRUE]

\* _bind_keycloak_group_to_rancher_project
BindKeycloakGroup(x, r) == [x EXCEPT !.bound = @ \cup {r}]

\* the namespace and its quota
CreateNamespace(x, r) == [x EXCEPT !.spaces = @ \cup {r}, !.quota[r] = rWanted[r]]

\* create_resource_with_id: the project, the groups, the binding, the
\* namespace; only the project must succeed, and the reply of its creation may
\* be lost
CreateResourceWithId(r) ==
    /\ rLife[r] = "creating"
    /\ LET x1 == [rancher EXCEPT !.projects = @ \cup {r}]
           x2 == BindKeycloakGroup(x1, r)
       IN
       \/ /\ rLife' = [rLife EXCEPT ![r] = "OK"] /\ rNamed' = rNamed \cup {r}
          /\ \/ /\ rancher' = CreateNamespace(x2, r) /\ group' = CreateKeycloakGroups(group)
                /\ parent' = TRUE /\ Sound
             \/ /\ rancher' = CreateNamespace(x1, r) /\ Broken
                /\ \/ UNCHANGED <<group, parent>>
                   \/ parent' = TRUE /\ group' \in {group, CreateKeycloakGroups(group)}
             \/ /\ rancher' \in {x2, [x2 EXCEPT !.spaces = @ \cup {r}]}
                /\ group' = CreateKeycloakGroups(group) /\ parent' = TRUE /\ Broken
       \/ /\ rLife' = [rLife EXCEPT ![r] = "ERRED"] /\ Broken
          /\ rancher' \in {rancher, x1} /\ UNCHANGED <<group, parent, rNamed>>
    /\ UNCHANGED <<sweep, waldurSide, released>>

\* set_resource_limits: the quota of the namespace, when there is one
SetResourceLimits(r) ==
    /\ rLife[r] = "OK" /\ RancherEdited
    /\ \/ /\ rWanted' = [rWanted EXCEPT ![r] = 3 - @]
          /\ rancher' = IF r \in rancher.spaces THEN [rancher EXCEPT !.quota[r] = 3 - rWanted[r]] ELSE rancher
          /\ Sound
       \/ Broken /\ UNCHANGED <<rWanted, rancher>>
    /\ UNCHANGED <<group, parent, rLife, rNamed, sweep, rTeam, signedIn, released>>

\* a pass that is about to delete the group misses one that is made anew
GroupGone == sweep' = [r \in Clusters |-> [sweep[r] EXCEPT !.same = FALSE]]

\* delete_resource: the project and all in it, then the group that the other
\* resources share; a project that is gone is an error, and a resource without
\* a backend_id has nothing to delete
DeleteResource(r) ==
    /\ rLife[r] = "terminating"
    /\ LET gone == [rancher EXCEPT !.projects = @ \ {r}, !.bound = @ \ {r}, !.spaces = @ \ {r}, !.quota[r] = 0] IN
       \/ /\ r \notin rNamed /\ rLife' = [rLife EXCEPT ![r] = "TERMINATED"] /\ Sound
          /\ UNCHANGED <<rancher, group, sweep>>
       \/ /\ r \in rNamed \cap rancher.projects /\ rancher' = gone
          /\ rLife' = [rLife EXCEPT ![r] = "TERMINATED"]
          /\ \/ group' = NoGroup /\ GroupGone /\ Sound
             \/ group.exists /\ UNCHANGED <<group, sweep>> /\ Broken
       \/ /\ r \in rNamed /\ rLife' = [rLife EXCEPT ![r] = "ERRED"] /\ UNCHANGED <<group, sweep>>
          /\ \/ r \in rancher.projects /\ Broken /\ rancher' \in {rancher, gone}
             \/ r \notin rancher.projects /\ Sound /\ UNCHANGED rancher
    /\ UNCHANGED <<parent, rNamed, waldurSide, released>>

(***************************************************************************)
(* Members.                                                                *)
(***************************************************************************)
\* a mutant: a group that is missing is not made
GetOrCreateKeycloakChildGroupOnly(r) == group.exists /\ UNCHANGED <<rancher, parent>> /\ Sound

\* _get_or_create_keycloak_child_group: one that is made is bound to the
\* Rancher project whose pass makes it, unless that fails
GetOrCreateKeycloakChildGroup(r) ==
    IF group.exists THEN UNCHANGED <<rancher, parent>> /\ Sound
    ELSE /\ parent' = TRUE
         /\ \/ rancher' = BindKeycloakGroup(rancher, r) /\ Sound
            \/ UNCHANGED rancher /\ Broken

\* add_user: by a pass or a role event; people Keycloak does not know are
\* tried again, and so is a call that fails
AddUser(r, p) ==
    /\ rLife[r] = "OK" /\ p \in rTeam \cap signedIn /\ p \notin group.members
    /\ GetOrCreateKeycloakChildGroup(r)
    /\ group' = [CreateKeycloakGroups(group) EXCEPT !.members = @ \cup {p}]
    /\ UNCHANGED <<rLife, rNamed, sweep, waldurSide, released>>

\* the pass over r reads the group and the team, and removes who is in the
\* first only; everything after this step goes by what it read
PullResource(r) ==
    /\ rLife[r] = "OK" /\ sweep[r].at = "idle" /\ group.members \ rTeam # {}
    /\ sweep' = [sweep EXCEPT ![r].at = "remove", ![r].stale = group.members \ rTeam]
    /\ UNCHANGED <<rancher, group, parent, rLife, rNamed, waldurSide, released, rFaults>>

\* on to the next person, or the pass is over
Resume(r, stale) ==
    sweep' = [sweep EXCEPT ![r] = [at |-> IF stale = {} THEN "idle" ELSE "remove", stale |-> stale,
                                   saw |-> {}, same |-> FALSE]]

\* remove_user: out of the group, then its clean-up; a call that fails is
\* logged, and a group that is gone needs neither
RemoveUser(r, p) ==
    /\ sweep[r].at = "remove" /\ p \in sweep[r].stale
    /\ \/ /\ group.exists /\ group' = [group EXCEPT !.members = @ \ {p}] /\ Sound
          /\ sweep' = [sweep EXCEPT ![r].at = "list", ![r].stale = @ \ {p}]
       \/ ~group.exists /\ Resume(r, sweep[r].stale \ {p}) /\ Sound /\ UNCHANGED group
       \/ Resume(r, sweep[r].stale \ {p}) /\ Broken /\ UNCHANGED group
    /\ UNCHANGED <<rancher, parent, rLife, rNamed, waldurSide, released>>

\* a mutant: the group goes though the listing showed members
EmptyGroupAny(saw) == TRUE

EmptyGroup(saw) == saw = {}

\* _cleanup_empty_keycloak_groups, first the members: those that cannot be
\* listed count as none
ListGroupMembers(r) ==
    /\ sweep[r].at = "list"
    /\ \/ ~group.exists /\ Resume(r, sweep[r].stale) /\ Sound
       \/ /\ group.exists
          /\ \E saw \in {group.members, {}} :
                /\ IF saw = group.members THEN Sound ELSE Broken
                /\ IF EmptyGroup(saw)
                   THEN sweep' = [sweep EXCEPT ![r].at = "unbind", ![r].saw = saw, ![r].same = TRUE]
                   ELSE Resume(r, sweep[r].stale)
    /\ UNCHANGED <<rancher, group, parent, rLife, rNamed, waldurSide, released>>

\* then the binding of this project; one that stays is logged
DeleteProjectGroupRole(r) ==
    /\ sweep[r].at = "unbind" /\ sweep' = [sweep EXCEPT ![r].at = "delete"]
    /\ \/ rancher' = [rancher EXCEPT !.bound = @ \ {r}] /\ Sound
       \/ UNCHANGED rancher /\ Broken
    /\ UNCHANGED <<group, parent, rLife, rNamed, waldurSide, released>>

\* then the group that was listed, whoever joined it since, and its parent
DeleteGroup(r) ==
    /\ sweep[r].at = "delete"
    /\ \/ /\ sweep[r].same /\ group' = NoGroup /\ parent' = FALSE /\ Sound
          /\ LET stale == sweep[r].stale
             IN  sweep' = [q \in Clusters |->
                   IF q # r THEN [sweep[q] EXCEPT !.same = FALSE]
                   ELSE [at |-> IF stale = {} THEN "idle" ELSE "remove", stale |-> stale,
                         saw |-> {}, same |-> FALSE]]
       \/ ~sweep[r].same /\ Resume(r, sweep[r].stale) /\ Sound /\ UNCHANGED <<group, parent>>
       \/ Resume(r, sweep[r].stale) /\ Broken /\ UNCHANGED <<group, parent>>
    /\ UNCHANGED <<rancher, rLife, rNamed, waldurSide, released>>

\* the offering user is being deleted: removed wherever the pull reports it,
\* and acknowledged when no resource is left that does; a listing or a removal
\* that fails looks like success
ReleaseUser(p) ==
    /\ p \notin rTeam \cup released /\ released' = released \cup {p}
    /\ IF (\A r \in Clusters : rLife[r] # "OK") \/ p \notin group.members
       THEN UNCHANGED <<group, sweep, rFaults>>
       ELSE \/ \E r \in Clusters :
                  /\ rLife[r] = "OK" /\ sweep[r].at = "idle"
                  /\ group' = [group EXCEPT !.members = @ \ {p}] /\ Sound
                  /\ sweep' = [sweep EXCEPT ![r].at = "list"]
            \/ Broken /\ UNCHANGED <<group, sweep>>
    /\ UNCHANGED <<rancher, parent, rLife, rNamed, waldurSide>>

RancherNext ==
    \/ OrderOrTeam
    \/ \E r \in Clusters : CreateResourceWithId(r) \/ SetResourceLimits(r) \/ DeleteResource(r)
    \/ \E r \in Clusters : PullResource(r) \/ ListGroupMembers(r) \/ DeleteProjectGroupRole(r) \/ DeleteGroup(r)
    \/ \E r \in Clusters, p \in Members : AddUser(r, p) \/ RemoveUser(r, p)
    \/ \E p \in Members : ReleaseUser(p)

(***************************************************************************)
(* Properties.                                                             *)
(***************************************************************************)
\* The group that several resources share loses a member who stays in the
\* team only in a failed call, with a resource that ends, or through a pass that
\* could not know: it removes who was not in the team when it read the team, or
\* deletes the group and the listing did not show the member
\* (_cleanup_empty_keycloak_groups, delete_resource).
GroupKeepsTeam ==
    \A p \in group.members \cap rTeam \cap rTeam' : p \notin group'.members =>
       \/ rFaults' > rFaults
       \/ \E r \in Clusters :
             \/ rLife[r] = "terminating" /\ rLife'[r] = "TERMINATED"
             \/ sweep[r].at = "remove" /\ p \in sweep[r].stale
             \/ sweep[r].at = "delete" /\ p \notin sweep[r].saw

\* With no more changes the group holds the team that Keycloak knows and
\* nobody else, also after another resource took the group with it (add_user,
\* remove_user).
GroupMatches ==
    (\E r \in Clusters : rLife[r] = "OK") => group.members = rTeam \cap signedIn

(***************************************************************************)
(* What GroupKeepsTeam needs of a state: a pass deletes the group only     *)
(* after a listing that showed nobody.                                     *)
(***************************************************************************)
SawNobody == \A r \in Clusters : sweep[r].at \in {"unbind", "delete"} => sweep[r].saw = {}

RancherInv ==
    /\ rFaults \in Nat /\ rTeam \subseteq Members
    /\ group \in [exists : BOOLEAN, members : SUBSET Members]
    /\ rLife \in [Clusters -> {"none", "creating", "OK", "ERRED", "terminating", "TERMINATED"}]
    /\ sweep \in [Clusters -> Sweeps] /\ SawNobody
=============================================================================
