-------------------------- MODULE NextcloudFolders --------------------------
(***************************************************************************)
(* The Nextcloud plugin (plugins/nextcloud): a group and a group folder    *)
(* per resource, created in steps that a retry completes; the quota, which *)
(* orders, status and limit syncs write with the flags they read earlier;  *)
(* and the members of the group.                                           *)
(***************************************************************************)
EXTENDS Integers, FiniteSets

CONSTANTS Shares,        \* resources of the offering
          Guests,        \* people
          Sizes,         \* quotas that are ordered, above 1
          MaxNcEdits,    \* bound: orders, flags and changes of the team
          MaxNcFaults    \* bound: calls that fail

VARIABLES cloud,     \* [resource -> what Nextcloud holds of it]
          ncLife,    \* [resource -> state of the resource and its order]
          ncRow,     \* [resource -> [paused, down, limit, team] in Waldur]
          ncSeen,    \* [resource -> what the running sync read, or Unread]
          ncEdits, ncFaults

ncvars == <<cloud, ncLife, ncRow, ncSeen, ncEdits, ncFaults>>

Empty == [group |-> FALSE, folder |-> FALSE, linked |-> FALSE, quota |-> -3, members |-> {}]
Row == [paused : BOOLEAN, down : BOOLEAN, limit : Sizes, team : SUBSET Guests]
Unread == [step |-> "none"]

NcTypeOK ==
    /\ \A r \in Shares : /\ cloud[r].quota \in Int /\ cloud[r].members \subseteq Guests
                         /\ cloud[r].linked => cloud[r].folder
    /\ ncLife \in [Shares -> {"creating", "made", "ok", "terminating", "gone", "erred"}] /\ ncRow \in [Shares -> Row]
    /\ \A r \in Shares : ncSeen[r] = Unread \/ ncSeen[r].row \in Row

NcInit ==
    /\ cloud = [r \in Shares |-> Empty] /\ ncLife = [r \in Shares |-> "creating"] /\ ncSeen = [r \in Shares |-> Unread]
    /\ ncRow \in [Shares -> {w \in Row : ~w.paused /\ ~w.down}] /\ ncEdits = 0 /\ ncFaults = 0

NcFault == ncFaults < MaxNcFaults /\ ncFaults' = ncFaults + 1
Calm == UNCHANGED ncFaults

\* Users pause, downscale, join, leave and terminate.
NcEdit ==
    /\ ncEdits < MaxNcEdits /\ ncEdits' = ncEdits + 1
    /\ \E r \in Shares :
          \/ ncLife[r] = "ok" /\ ncLife' = [ncLife EXCEPT ![r] = "terminating"] /\ UNCHANGED ncRow
          \/ /\ \E w \in {[ncRow[r] EXCEPT !.paused = ~@], [ncRow[r] EXCEPT !.down = ~@]}
                      \cup {[ncRow[r] EXCEPT !.team = t] : t \in SUBSET Guests} : ncRow' = [ncRow EXCEPT ![r] = w]
             /\ UNCHANGED ncLife
    /\ UNCHANGED <<cloud, ncSeen, ncFaults>>

\* create_resource_with_id: a folder with the group of the resource is a
\* duplicate; the order then fails whatever name it tries. A listing that
\* failed shows none, and then the mount point conflicts and no orphan is found.
IsDuplicate(r) == cloud[r].group /\ cloud[r].linked

DuplicateFound(r) ==
    /\ ncLife[r] = "creating" /\ IsDuplicate(r) /\ ncLife' = [ncLife EXCEPT ![r] = "erred"]
    /\ UNCHANGED <<cloud, ncRow, ncSeen, ncEdits, ncFaults>>

\* create_group_folder, or the orphan of an earlier attempt
\* (_find_orphaned_folder), and then add_group_to_folder
GroupToFolder(c) == [c EXCEPT !.folder = TRUE, !.linked = TRUE]

\* What Nextcloud holds after so many steps of create_resource: the group, the
\* folder, the folder with the group; the quota and the members each may fail
\* without failing the order.
FolderSteps(r, upTo) ==
    CASE upTo = 1 -> [cloud[r] EXCEPT !.group = TRUE]
      [] upTo = 2 -> [cloud[r] EXCEPT !.group = TRUE, !.folder = TRUE]
      [] OTHER -> GroupToFolder([cloud[r] EXCEPT !.group = TRUE])

\* create_resource: the order fails at a step, and is retried or errs
CreateStops(r) ==
    /\ ncLife[r] = "creating" /\ ~IsDuplicate(r) /\ NcFault
    /\ \E upTo \in 1 .. 2 : cloud' = [cloud EXCEPT ![r] = FolderSteps(r, upTo)]
    /\ ncLife' \in {ncLife, [ncLife EXCEPT ![r] = "erred"]} /\ UNCHANGED <<ncRow, ncSeen, ncEdits>>

\* create_resource to the end
CreateResource(r) ==
    /\ ncLife[r] = "creating" /\ ~IsDuplicate(r) /\ ncLife' = [ncLife EXCEPT ![r] = "made"]
    /\ LET c == FolderSteps(r, 3)
       IN \/ cloud' = [cloud EXCEPT ![r] = [c EXCEPT !.quota = ncRow[r].limit, !.members = @ \cup ncRow[r].team]] /\ Calm
          \/ cloud' = [cloud EXCEPT ![r] = [c EXCEPT !.members = @ \cup ncRow[r].team]] /\ NcFault
          \/ \E m \in SUBSET ncRow[r].team : cloud' = [cloud EXCEPT ![r] = [c EXCEPT !.quota = ncRow[r].limit, !.members = @ \cup m]] /\ NcFault
    /\ UNCHANGED <<ncRow, ncSeen, ncEdits>>

\* the id of the folder is recorded, or the order is retried
RecordFolder(r) ==
    /\ ncLife[r] = "made"
    /\ \/ ncLife' = [ncLife EXCEPT ![r] = "ok"] /\ Calm
       \/ ncLife' = [ncLife EXCEPT ![r] = "creating"] /\ NcFault
    /\ UNCHANGED <<cloud, ncRow, ncSeen, ncEdits>>

\* delete_resource: folder, then group; a failure of either is logged
DeleteFolder(r) ==
    /\ ncLife[r] = "terminating" /\ ncLife' = [ncLife EXCEPT ![r] = "gone"]
    /\ \/ cloud' = [cloud EXCEPT ![r] = Empty] /\ Calm
       \/ cloud' = [cloud EXCEPT ![r] = [Empty EXCEPT !.group = TRUE, !.members = cloud[r].members]] /\ NcFault
       \/ cloud' = [cloud EXCEPT ![r].group = FALSE, ![r].linked = FALSE, ![r].members = {}] /\ NcFault
    /\ UNCHANGED <<ncRow, ncSeen, ncEdits>>

\* set_resource_limits, for an update order
UpdateQuota(r) ==
    /\ ncLife[r] = "ok" /\ ncEdits < MaxNcEdits /\ ncEdits' = ncEdits + 1
    /\ \E q \in Sizes : ncRow' = [ncRow EXCEPT ![r].limit = q] /\ cloud' = [cloud EXCEPT ![r].quota = q]
    /\ UNCHANGED <<ncLife, ncSeen, ncFaults>>

\* A membership pass or a resource event reads the resource; status, limits
\* and users follow with what it read.
ReadShare(r) ==
    /\ ncLife[r] = "ok" /\ ncSeen[r] = Unread /\ ncSeen' = [ncSeen EXCEPT ![r] = [step |-> "users", row |-> ncRow[r]]]
    /\ UNCHANGED <<cloud, ncLife, ncRow, ncEdits, ncFaults>>

AfterStep(r, next) == ncSeen' = [ncSeen EXCEPT ![r] = IF next = "none" THEN Unread ELSE [@ EXCEPT !.step = next]]

\* The users of the pulled resource against the team: the missing are added
\* and the stale removed (add_users_to_resource, remove_users_from_resource).
NewMembers(m, team) == team

\* Users: each call may fail; a listing of the members that failed shows none,
\* so that nobody is removed (list_group_members).
SyncUsers(r) ==
    /\ ncSeen[r].step = "users" /\ AfterStep(r, "status")
    /\ IF ncLife[r] = "ok"
       THEN \/ cloud' = [cloud EXCEPT ![r].members = NewMembers(@, ncSeen[r].row.team)] /\ Calm
            \/ NcFault /\ \E m \in {ncSeen[r].row.team \cup cloud[r].members} \cup {cloud[r].members} : cloud' = [cloud EXCEPT ![r].members = m]
       ELSE UNCHANGED cloud /\ Calm
    /\ UNCHANGED <<ncLife, ncRow, ncEdits>>

\* pause_resource, downscale_resource; restore_resource does nothing
StatusQuota(w, q) == IF w.paused THEN 0 ELSE IF w.down THEN 1 ELSE q

SyncStatus(r) ==
    /\ ncSeen[r].step = "status" /\ AfterStep(r, "limits")
    /\ IF ncLife[r] = "ok"
       THEN \/ cloud' = [cloud EXCEPT ![r].quota = StatusQuota(ncSeen[r].row, @)] /\ Calm
            \/ NcFault /\ UNCHANGED cloud
       ELSE UNCHANGED cloud /\ Calm
    /\ UNCHANGED <<ncLife, ncRow, ncEdits>>

\* sync_resource_limits leaves a paused or downscaled resource alone
SkipsLimits(w) == w.paused \/ w.down

SyncLimits(r) ==
    /\ ncSeen[r].step = "limits" /\ AfterStep(r, "none")
    /\ IF ncLife[r] = "ok" /\ ~SkipsLimits(ncSeen[r].row)
       THEN \/ cloud' = [cloud EXCEPT ![r].quota = ncSeen[r].row.limit] /\ Calm
            \/ NcFault /\ UNCHANGED cloud
       ELSE UNCHANGED cloud /\ Calm
    /\ UNCHANGED <<ncLife, ncRow, ncEdits>>

NcPass(r) == ReadShare(r) \/ SyncUsers(r) \/ SyncStatus(r) \/ SyncLimits(r)

NcNext ==
    \/ NcEdit
    \/ \E r \in Shares :
          \/ DuplicateFound(r) \/ CreateStops(r) \/ CreateResource(r) \/ RecordFolder(r) \/ DeleteFolder(r) \/ UpdateQuota(r)
          \/ NcPass(r)

(***************************************************************************)
(* Properties.                                                             *)
(***************************************************************************)
\* A resource that is OK has its folder with its group on it, however many
\* attempts its creation took (create_resource, _find_orphaned_folder).
OkIsLinked == \A r \in Shares : ncLife[r] = "ok" => cloud[r].group /\ cloud[r].linked

\* The quota ends as the flags and the limit say, whatever failed at creation
\* and whatever older reading a sync applied last (sync_resource_limits,
\* pause_resource, downscale_resource).
QuotaMatches == \A r \in Shares : ncLife[r] = "ok" => cloud[r].quota = StatusQuota(ncRow[r], ncRow[r].limit)

\* The group ends with the team of the resource and nobody else
\* (add_users_to_resource, remove_users_from_resource).
GuestsMatch == \A r \in Shares : ncLife[r] = "ok" => cloud[r].members = ncRow[r].team

(***************************************************************************)
(* What makes OkIsLinked inductive: a folder that is made is linked before *)
(* its id is recorded, and only the deletion unlinks it.                   *)
(***************************************************************************)
NcParameters == Sizes \subseteq Int

Folders ==
    [group : BOOLEAN, folder : BOOLEAN, linked : BOOLEAN, quota : Int, members : SUBSET Guests]

NcInv ==
    /\ cloud \in [Shares -> Folders] /\ ncRow \in [Shares -> Row]
    /\ ncLife \in [Shares -> {"creating", "made", "ok", "terminating", "gone", "erred"}]
    /\ ncSeen \in [Shares -> {Unread} \cup [step : {"users", "status", "limits"}, row : Row]]
    /\ \A r \in Shares : ncLife[r] \in {"made", "ok"} => cloud[r].group /\ cloud[r].linked
=============================================================================
