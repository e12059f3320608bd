--------------------------- MODULE FederationSync ---------------------------
(***************************************************************************)
(* Waldur-to-Waldur federation (plugins/waldur): what the membership pass  *)
(* carries between the two Waldurs for one resource and one user: the      *)
(* profile in the identity bridge, the role, the username, and the end     *)
(* date of the resource or of its project.                                 *)
(***************************************************************************)
EXTENDS Integers

CONSTANTS MaxFedEdits,     \* bound: changes on either Waldur
          MaxFedTroubles   \* bound: calls that fail

Roles == {"none", "member", "manager"}

VARIABLES setup,      \* how users are resolved, the end date and its direction
          offered,    \* the user is an offering user of A
          roleA, roleB,    \* the role in the project on either side
          known,      \* the profile is active on B
          nameA, nameB,    \* the username on either side, 0 for none
          endA, endB, \* the end date: the edit it comes from, and when it was written
          seen,       \* the resource of A as this pass fetched it
          clock, fedEdits, fedTroubles

fvars == <<setup, offered, roleA, roleB, known, nameA, nameB, endA, endB, seen, clock,
           fedEdits, fedTroubles>>
people == <<offered, roleA, roleB, known, nameA, nameB>>
dates  == <<endA, endB, seen, clock>>

FedTypeOK ==
    /\ setup \in [resolve : {"bridge", "field"}, date : {"resource", "project"},
                  direction : {"bidirectional", "a_to_b", "b_to_a"}]
    /\ roleA \in Roles /\ roleB \in Roles /\ (roleA # "none" => offered)
    /\ offered \in BOOLEAN /\ known \in BOOLEAN
    /\ endA.edit \in 0 .. fedEdits /\ endB.edit \in 0 .. fedEdits
    /\ endA.at <= clock /\ endB.at <= clock

FedInit ==
    /\ setup \in [resolve : {"bridge", "field"}, date : {"resource", "project"},
                  direction : {"bidirectional", "a_to_b", "b_to_a"}]
    /\ offered = FALSE /\ roleA = "none" /\ roleB = "none" /\ known = FALSE
    /\ nameA = 0 /\ nameB = 0
    /\ endA = [edit |-> 0, at |-> 0] /\ endB = endA /\ seen = [edit |-> 0, at |-> -1]
    /\ clock = 0 /\ fedEdits = 0 /\ fedTroubles = 0

Trouble == fedTroubles < MaxFedTroubles /\ fedTroubles' = fedTroubles + 1

(***************************************************************************)
(* Changes on the two Waldurs.                                             *)
(***************************************************************************)
EditUser ==
    /\ fedEdits < MaxFedEdits /\ fedEdits' = fedEdits + 1
    /\ \/ roleA' \in Roles \ {roleA} /\ offered' = TRUE /\ UNCHANGED nameB
       \/ offered /\ roleA = "none" /\ offered' = FALSE /\ UNCHANGED <<roleA, nameB>>
       \/ known /\ nameB' = nameB + 1 /\ UNCHANGED <<offered, roleA>>
    /\ UNCHANGED <<setup, roleB, known, nameA, dates, fedTroubles>>

EditEndDate ==
    /\ fedEdits < MaxFedEdits /\ fedEdits' = fedEdits + 1 /\ clock' = clock + 1
    /\ LET new == [edit |-> fedEdits', at |-> clock']
       IN  \/ endA' = new /\ UNCHANGED endB
           \/ endB' = new /\ UNCHANGED endA
    /\ UNCHANGED <<setup, people, seen, fedTroubles>>

(***************************************************************************)
(* Users.                                                                  *)
(***************************************************************************)
\* the offering users of the last sync of this instance of the backend:
\* every pass makes a new instance, so there are none
PreviousOfferingUsernames == {}

\* _push_user_to_identity_bridge, and deactivate_users for those who left
SyncUserProfiles ==
    /\ known' = IF offered THEN TRUE
                ELSE IF "user" \in PreviousOfferingUsernames THEN FALSE
                ELSE known
    /\ UNCHANGED <<setup, offered, roleA, roleB, nameA, nameB, dates, fedEdits, fedTroubles>>

\* the bridge creates the profile it is asked for; a field finds it
ResolveRemoteUser == setup.resolve = "bridge" \/ known
Resolved == known' = (known \/ setup.resolve = "bridge")

Call(role) ==
    \/ roleB' = role /\ UNCHANGED fedTroubles
    \/ Trouble /\ UNCHANGED roleB

\* add_users_to_resource
AddUsersToResource ==
    /\ roleA # "none" /\ roleB = "none" /\ ResolveRemoteUser /\ Resolved
    /\ Call(roleA)
    /\ UNCHANGED <<setup, offered, roleA, nameA, nameB, dates, fedEdits>>

\* _fetch_b_side_roles: the role of someone who left is asked of B
FetchBSideRoles == roleB

\* remove_users_from_resource: B refuses to revoke another role
RemoveUsersFromResource ==
    /\ roleA = "none" /\ roleB # "none" /\ ResolveRemoteUser /\ Resolved
    /\ Call(IF FetchBSideRoles = roleB THEN "none" ELSE roleB)
    /\ UNCHANGED <<setup, offered, roleA, nameA, nameB, dates, fedEdits>>

\* the old role is revoked, then the new one granted; a failure may leave
\* the user without a role
ReconcileExistingUserRoles ==
    /\ roleA # "none" /\ roleB \notin {"none", roleA} /\ ResolveRemoteUser /\ Resolved
    /\ \/ Call(roleA)
       \/ Trouble /\ roleB' = "none"
    /\ UNCHANGED <<setup, offered, roleA, nameA, nameB, dates, fedEdits>>

Differs == nameB # 0 /\ nameA # nameB

\* sync_offering_user_usernames: B assigns the names
SyncOfferingUserUsernames ==
    /\ offered /\ Differs
    /\ nameA' = nameB
    /\ UNCHANGED <<setup, offered, roleA, roleB, known, nameB, dates, fedEdits, fedTroubles>>

(***************************************************************************)
(* End dates.                                                              *)
(***************************************************************************)
\* the resources of A are listed at the start of the pass
FetchResources ==
    /\ seen.at = -1
    /\ seen' = endA
    /\ UNCHANGED <<setup, people, endA, endB, clock, fedEdits, fedTroubles>>

\* a mutant: a newer date at B is not taken over
DecideEndDateSyncDirectionOneWay(a, b) ==
    CASE a.edit = b.edit -> "none"
      [] setup.direction = "b_to_a" -> "B"
      [] setup.direction = "a_to_b" \/ a.at > b.at -> "A"
      [] OTHER -> "none"

\* 0 stands for no timestamp, which loses against any
DecideEndDateSyncDirection(a, b) ==
    CASE a.edit = b.edit -> "none"
      [] setup.direction = "a_to_b" -> "A"
      [] setup.direction = "b_to_a" -> "B"
      [] a.at > b.at -> "A"
      [] b.at > a.at -> "B"
      [] OTHER -> "none"

Push(wins, a) ==
    /\ endB' = IF wins = "A" THEN [edit |-> a.edit, at |-> clock + 1] ELSE endB
    /\ endA' = IF wins = "B" THEN [edit |-> endB.edit, at |-> clock + 1] ELSE endA
    /\ clock' = IF wins = "none" THEN clock ELSE clock + 1

\* the date of A as it was fetched against the date of B as it is; a refusal
\* is logged
SyncResourceEndDate ==
    /\ setup.date = "resource" /\ seen.at # -1 /\ seen' = [seen EXCEPT !.at = -1, !.edit = 0]
    /\ \/ Push(DecideEndDateSyncDirection(seen, endB), seen) /\ UNCHANGED fedTroubles
       \/ Trouble /\ UNCHANGED <<endA, endB, clock>>
    /\ UNCHANGED <<setup, people, fedEdits>>

\* the timestamp comes with the source project, which may not be fetched
SyncProjectEndDate ==
    /\ setup.date = "project" /\ seen.at # -1 /\ seen' = [seen EXCEPT !.at = -1, !.edit = 0]
    /\ \/ Push(DecideEndDateSyncDirection(seen, endB), seen) /\ UNCHANGED fedTroubles
       \/ LET unstamped == [seen EXCEPT !.at = 0]
          IN  Trouble /\ Push(DecideEndDateSyncDirection(unstamped, endB), unstamped)
    /\ UNCHANGED <<setup, people, fedEdits>>

\* the target event handlers would start the same syncs: see FederatedOrders
FedNext ==
    \/ EditUser \/ EditEndDate
    \/ SyncUserProfiles \/ AddUsersToResource \/ RemoveUsersFromResource
    \/ ReconcileExistingUserRoles \/ SyncOfferingUserUsernames
    \/ FetchResources \/ SyncResourceEndDate \/ SyncProjectEndDate

(***************************************************************************)
(* Properties.                                                             *)
(***************************************************************************)
\* With no more changes the user has the same role on both sides, also after
\* a role update stopped half way (reconcile_existing_user_roles).
RolesMatch == roleA = roleB

\* With no more changes the username of B is the one of A, renamed or new
\* (sync_offering_user_usernames).
NamesMatch == offered /\ nameB # 0 => nameA = nameB

\* With no more changes the two end dates agree in every direction setting,
\* whatever was edited while a pass was on its way
\* (_decide_end_date_sync_direction).
EndDatesMatch == endA.edit = endB.edit
=============================================================================
