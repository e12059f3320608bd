----------------------------- MODULE MupBackend -----------------------------
(***************************************************************************)
(* The MUP plugin (plugins/mup) on one Waldur project: the MUP project of  *)
(* its grant, one allocation per resource and component, the users and the *)
(* members of the project.  The orders of the resources and the membership *)
(* passes are run by the core; a call to MUP may fail.                     *)
(***************************************************************************)
EXTENDS Integers, FiniteSetsExt

CONSTANTS Grants,        \* resources of the project
          Components,    \* 1 .. n, in the order of the configuration
          People, PI,    \* the project's people, its manager among them
          MaxMupEdits,   \* bound: changes in Waldur
          MaxMupFaults   \* bound: calls that fail

VARIABLES mup,        \* what MUP holds
          orders,     \* the life of each resource in Waldur
          wanted,     \* the limits of each resource in Waldur
          primary,    \* the component whose allocation is the backend id, or 0
          mupTeam,    \* the people of the Waldur project
          approved,   \* people whose offering user is OK
          foreign,    \* people MUP knows by another username
          kept,       \* preserve_unmanaged_backend_users
          loyal,      \* history: in the team from their first day on
          mupEdits, mupFaults

pvars == <<mup, orders, wanted, primary, mupTeam, approved, foreign, kept, loyal, mupEdits, mupFaults>>
inWaldur == <<wanted, mupTeam, approved, foreign, kept, loyal, mupEdits>>

MupTypeOK ==
    /\ mup.project \in {"none", "inactive", "active"}
    /\ mup.size \in [Grants -> [Components -> -1 .. 2]]
    /\ mup.known \subseteq People /\ mup.member \in [People -> {"none", "active", "inactive"}]
    /\ orders \in [Grants -> {"none", "creating", "OK", "ERRED", "TERMINATED"}]
    /\ \A p \in People : mup.member[p] # "none" => p \in mup.known /\ mup.project # "none"

MupInit ==
    /\ foreign \in {{}, People \ {PI}} /\ kept \in BOOLEAN
    /\ mup = [project |-> "none", size |-> [r \in Grants |-> [c \in Components |-> -1]],
              known |-> foreign, member |-> [p \in People |-> "none"]]
    /\ orders = [r \in Grants |-> "none"] /\ primary = [r \in Grants |-> 0]
    /\ wanted = [r \in Grants |-> [c \in Components |-> 1]]
    /\ mupTeam \in SUBSET People /\ approved = {} /\ loyal = People
    /\ mupEdits = 0 /\ mupFaults = 0

Fails == mupFaults < MaxMupFaults /\ mupFaults' = mupFaults + 1
Works == UNCHANGED mupFaults
\* a set of calls of which some fail
Failing(calls) ==
    {f \in SUBSET calls : f = {} \/ mupFaults < MaxMupFaults}
Counted(f) == mupFaults' = IF f = {} THEN mupFaults ELSE mupFaults + 1

(***************************************************************************)
(* Waldur.                                                                 *)
(***************************************************************************)
EditWaldur ==
    /\ mupEdits < MaxMupEdits /\ mupEdits' = mupEdits + 1
    /\ \/ \E r \in Grants : orders[r] = "none" /\ orders' = [orders EXCEPT ![r] = "creating"]
          /\ UNCHANGED <<mupTeam, approved, loyal>>
       \/ \E p \in People \ approved : approved' = approved \cup {p} /\ UNCHANGED <<orders, mupTeam, loyal>>
       \/ \E p \in People \ mupTeam : mupTeam' = mupTeam \cup {p} /\ UNCHANGED <<orders, approved, loyal>>
       \/ \E p \in mupTeam : mupTeam' = mupTeam \ {p} /\ loyal' = loyal \ {p} /\ UNCHANGED <<orders, approved>>
    /\ UNCHANGED <<mup, wanted, primary, foreign, kept, mupFaults>>

(***************************************************************************)
(* The creation of a resource.                                             *)
(***************************************************************************)
\* _find_pi_from_context and the state of its offering user; else the order
\* waits (BackendNotReadyError)
PIReady == PI \in mupTeam \cap approved

\* _get_or_create_user: by e-mail, or by a user request
GetOrCreateUser(m, p) == [m EXCEPT !.known = @ \cup {p}]

\* add_project_member; MUP refuses a member it already has, active or not
AddProjectMember(m, ps) ==
    [m EXCEPT !.member = [p \in People |-> IF p \in ps /\ @[p] = "none" THEN "active" ELSE @[p]],
              !.known = @ \cup ps]

\* the users whose account is ready, but for the ones that fail
CreateAndAddUsersFromContext(m, failed) ==
    AddProjectMember(m, (mupTeam \cap approved) \ failed)

\* _pre_create_resource: the manager, the project, its activation, which may
\* fail unnoticed, and the users
PreCreateResource(activated, failed) ==
    LET m1 == IF mup.project # "none" THEN mup ELSE [GetOrCreateUser(mup, PI) EXCEPT !.project = "inactive"]
        m2 == IF activated THEN [m1 EXCEPT !.project = "active"] ELSE m1
    IN  CreateAndAddUsersFromContext(m2, failed)

\* post_create_resource: an allocation per component; the first one made
\* names the resource, and none is an error
PostCreateResource(m, r, failed) ==
    /\ mup' = [m EXCEPT !.size[r] = [c \in Components |-> IF c \in failed THEN -1 ELSE wanted[r][c]]]
    /\ orders' = [orders EXCEPT ![r] = IF failed = Components THEN "ERRED" ELSE "OK"]
    /\ primary' = [primary EXCEPT ![r] = IF failed = Components THEN 0 ELSE Min(Components \ failed)]

\* with a project, or with a manager to make one
CreateResource(r) ==
    /\ orders[r] = "creating"
    /\ mup.project # "none" \/ PIReady
    /\ \E f \in Failing(People \cup {"activate"}), g \in Failing(Components) :
         /\ f = {} \/ g = {}
         /\ PostCreateResource(PreCreateResource("activate" \notin f, f), r, g)
         /\ mupFaults' = IF f = {} /\ g = {} THEN mupFaults ELSE mupFaults + 1
    /\ UNCHANGED inWaldur

\* the manager's request or the project's creation fails; so does the lookup,
\* which then counts as a missing project that MUP refuses to make again
CreateResourceFails(r) ==
    /\ orders[r] = "creating" /\ PIReady /\ Fails
    /\ orders' = [orders EXCEPT ![r] = "ERRED"]
    /\ \/ UNCHANGED mup
       \/ mup.project = "none" /\ mup' = GetOrCreateUser(mup, PI)
    /\ UNCHANGED <<primary, inWaldur>>

(***************************************************************************)
(* Its limits and its end.                                                 *)
(***************************************************************************)
\* an update order: only the allocation the backend id names is resized; a
\* call that fails leaves the limits of Waldur as they were
SetResourceLimits(r) ==
    /\ orders[r] = "OK" /\ mupEdits < MaxMupEdits /\ mupEdits' = mupEdits + 1
    /\ \/ /\ \E w \in [Components -> 1 .. 2] :
               /\ wanted' = [wanted EXCEPT ![r] = w]
               /\ mup' = [mup EXCEPT !.size[r][primary[r]] = w[primary[r]]]
          /\ Works
       \/ Fails /\ UNCHANGED <<mup, wanted>>
    /\ UNCHANGED <<orders, primary, mupTeam, approved, foreign, kept, loyal>>

\* delete_resource asks for a project whose grant is the backend id, which is
\* the name of an allocation: nothing is found, and the order is done
DeleteResource(r) ==
    /\ orders[r] = "OK" /\ mupEdits < MaxMupEdits /\ mupEdits' = mupEdits + 1
    /\ orders' = [orders EXCEPT ![r] = "TERMINATED"]
    /\ UNCHANGED <<mup, wanted, primary, mupTeam, approved, foreign, kept, loyal, mupFaults>>

(***************************************************************************)
(* The membership pass of a resource.                                      *)
(***************************************************************************)
\* every member counts, active or not
PullBackendResource == {p \in People : mup.member[p] # "none"}

\* found by username or e-mail, else requested once the account is ready
AddUsersToResource(m, new, failed) ==
    AddProjectMember(m, {p \in new : p \in m.known \/ p \in approved} \ failed)

\* members that are named are deactivated, never deleted
RemoveUsersFromResource(m, stale, failed) ==
    [m EXCEPT !.member = [p \in People |-> IF p \in stale \ failed /\ @[p] # "none"
                                             THEN "inactive" ELSE @[p]]]

\* the difference between the usernames of the team and of the members: one
\* whom MUP knows by another name is new and stale at once, or only new when
\* names unknown to Waldur are kept; a pull that fails skips the resource
SyncMembers(r) ==
    /\ orders[r] = "OK"
    /\ LET pulled == PullBackendResource
           new    == mupTeam \ (pulled \ foreign)
           stale  == ((pulled \ foreign) \ mupTeam) \cup (IF kept THEN {} ELSE pulled \cap foreign)
       IN  \E f \in Failing(new \cup stale) :
             /\ mup' = RemoveUsersFromResource(AddUsersToResource(mup, new, f), stale, f)
             /\ Counted(f)
    /\ mup' # mup
    /\ UNCHANGED <<orders, primary, inWaldur>>

MupNext ==
    \/ EditWaldur
    \/ \E r \in Grants :
          CreateResource(r) \/ CreateResourceFails(r) \/ SetResourceLimits(r) \/ DeleteResource(r) \/ SyncMembers(r)

(***************************************************************************)
(* Properties.                                                             *)
(***************************************************************************)
\* The backend id of a resource names an allocation of its own that exists,
\* of the size Waldur asks for, whichever creations failed and however often
\* the limits changed (post_create_resource, set_resource_limits).
PrimaryFollows ==
    \A r \in Grants : orders[r] = "OK" => primary[r] # 0 /\ mup.size[r][primary[r]] = wanted[r][primary[r]]

\* An order does not wait for ever once the manager is there.
NobodyWaits == PIReady => \A r \in Grants : orders[r] # "creating"

\* With no more changes, nobody who left the project is an active member, and
\* whoever is ready and never left is one, where MUP knows them by the name
\* Waldur uses (add_users_to_resource, remove_users_from_resource).
MupMembersMatch ==
    (\E r \in Grants : orders[r] = "OK") =>
      \A p \in People \ foreign :
         /\ p \notin mupTeam => mup.member[p] # "active"
         /\ p \in mupTeam \cap approved \cap loyal => mup.member[p] = "active"

(***************************************************************************)
(* What makes PrimaryFollows inductive: the component that names a         *)
(* resource is one that has an allocation, so it is among those whose      *)
(* limits an update can carry.                                             *)
(***************************************************************************)
MupParameters == Components \subseteq Nat \ {0} /\ PI \in People

MupStates ==
    [project : {"none", "inactive", "active"}, size : [Grants -> [Components -> Int]],
     known : SUBSET People, member : [People -> {"none", "active", "inactive"}]]

MupInv ==
    /\ mup \in MupStates
    /\ orders \in [Grants -> {"none", "creating", "OK", "ERRED", "TERMINATED"}]
    /\ wanted \in [Grants -> [Components -> Nat]]
    /\ primary \in [Grants -> Components \cup {0}]
    /\ mupTeam \subseteq People /\ approved \subseteq People
    /\ \A r \in Grants : orders[r] = "OK" =>
          primary[r] \in Components /\ mup.size[r][primary[r]] = wanted[r][primary[r]]
=============================================================================
