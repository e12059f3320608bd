--------------------------- MODULE HarborRegistry ---------------------------
(***************************************************************************)
(* The Harbor plugin (plugins/harbor): a project per resource, found again *)
(* by a label when an order is retried, a storage quota that orders,       *)
(* status passes and limit passes all write or read, and access through a  *)
(* group. Lookups that fail read as "no such project".                     *)
(***************************************************************************)
EXTENDS Integers, Sequences, FiniteSets

CONSTANTS Registries,       \* resources of the offering
          Candidates,       \* the names the processor tries, in order
          DefaultQuota,     \* default_storage_quota_gb
          Quotas,           \* quotas that are ordered
          MaxHarborEdits,   \* bound: orders and flags
          MaxHarborFaults   \* bound: calls that fail

VARIABLES harbor,      \* [name -> project, or NoProject]
          hLife,       \* [resource -> state of the resource and its order]
          hTry,        \* [resource -> candidate to try next]
          hId,         \* [resource -> backend_id in Waldur, or ""]
          hLimit,      \* [resource -> limit in Waldur]
          hDown,       \* [resource -> downscaled in Waldur]
          hEdits, hFaults

hvars == <<harbor, hLife, hTry, hId, hLimit, hDown, hEdits, hFaults>>

HarborNames == {Candidates[k] : k \in DOMAIN Candidates}
NoProject == [by |-> "nobody", label |-> "none", quota |-> 0, group |-> FALSE]
Site == [by |-> "site", label |-> "none", quota |-> 5, group |-> FALSE]

HarborTypeOK ==
    /\ \A n \in HarborNames : harbor[n] = NoProject
          \/ /\ harbor[n].by \in Registries \cup {"site"} /\ harbor[n].label \in Registries \cup {"none"}
             /\ harbor[n].quota \in Nat /\ harbor[n].group \in BOOLEAN
    /\ hLife \in [Registries -> {"new", "creating", "made", "ok", "terminating", "gone", "erred"}]
    /\ hTry \in [Registries -> 1 .. Len(Candidates)] /\ hId \in [Registries -> HarborNames \cup {""}]
    /\ hLimit \in [Registries -> Nat] /\ hDown \in [Registries -> BOOLEAN]

HarborInit ==
    /\ harbor \in [HarborNames -> {NoProject}] \cup {[n \in HarborNames |-> IF n = Candidates[1] THEN Site ELSE NoProject]}
    /\ hLife = [r \in Registries |-> "new"] /\ hTry = [r \in Registries |-> 1] /\ hId = [r \in Registries |-> ""]
    /\ hLimit \in [Registries -> Quotas] /\ hDown = [r \in Registries |-> FALSE] /\ hEdits = 0 /\ hFaults = 0

HarborFault == hFaults < MaxHarborFaults /\ hFaults' = hFaults + 1
Smoothly == UNCHANGED hFaults
Exists(n) == harbor[n] # NoProject
At(r) == Candidates[hTry[r]]

\* Users order, terminate, and downscale
HarborEdit ==
    /\ hEdits < MaxHarborEdits /\ hEdits' = hEdits + 1
    /\ \E r \in Registries :
          \/ hLife[r] = "new" /\ hLife' = [hLife EXCEPT ![r] = "creating"] /\ UNCHANGED hDown
          \/ hLife[r] = "ok" /\ hLife' = [hLife EXCEPT ![r] = "terminating"] /\ UNCHANGED hDown
          \/ hLife[r] = "ok" /\ hDown' = [hDown EXCEPT ![r] = ~@] /\ UNCHANGED hLife
    /\ UNCHANGED <<harbor, hTry, hId, hLimit, hFaults>>

\* _calculate_storage_quota
StorageQuota(r) == hLimit[r]

\* update_project_quota
WithQuota(n, q) == [harbor EXCEPT ![n].quota = q]

\* _mark_project: the label of the resource, or none if it failed twice
Marked(r, labelled) == IF labelled THEN r ELSE "none"

\* What Harbor holds when the creation of a project stops after so many steps:
\* the project, its quota, the label, the group. The label may be missing
\* though the rest is done.
Created(r, upTo, labelled) ==
    [by |-> r, quota |-> IF upTo >= 2 THEN StorageQuota(r) ELSE 0, label |-> Marked(r, upTo >= 3 /\ labelled), group |-> upTo >= 4]

\* a mutant: any label of the agent will do
IsMarkedForAny(r, n) == harbor[n].label # "none" \/ harbor[n].by = "site"

\* _is_marked_for
IsMarkedFor(r, n) == harbor[n].label = r

\* an adopted project gets the quota and the group, as a new one does
Adopted(r, n) == [harbor[n] EXCEPT !.quota = StorageQuota(r), !.group = TRUE]

\* The attempt failed: the order is retried from the first name, or errs.
AttemptFails(r) == hTry' = [hTry EXCEPT ![r] = 1] /\ hLife' \in {hLife, [hLife EXCEPT ![r] = "erred"]}

\* The project is in place; the processor has yet to record its name.
AttemptDone(r) == hLife' = [hLife EXCEPT ![r] = "made"] /\ UNCHANGED hTry

\* DuplicateResourceError: the next name, or the end of them
NextName(r) ==
    IF hTry[r] < Len(Candidates) THEN hTry' = [hTry EXCEPT ![r] = @ + 1] /\ UNCHANGED hLife
    ELSE hLife' = [hLife EXCEPT ![r] = "erred"] /\ UNCHANGED hTry

\* create_resource_with_id for a name that is free; a step may fail, and only
\* the label may fail without failing the order
CreateProject(r) ==
    /\ hLife[r] = "creating" /\ ~Exists(At(r))
    /\ \/ harbor' = [harbor EXCEPT ![At(r)] = Created(r, 4, TRUE)] /\ AttemptDone(r) /\ Smoothly
       \/ harbor' = [harbor EXCEPT ![At(r)] = Created(r, 4, FALSE)] /\ AttemptDone(r) /\ HarborFault
       \/ \E upTo \in 1 .. 3 : harbor' = [harbor EXCEPT ![At(r)] = Created(r, upTo, TRUE)] /\ AttemptFails(r) /\ HarborFault
       \/ AttemptFails(r) /\ HarborFault /\ UNCHANGED harbor
    /\ UNCHANGED <<hId, hLimit, hDown, hEdits>>

\* create_resource_with_id for a name that is taken: adopt the project or go
\* on. A lookup that failed reads as free in create_project, which then meets
\* a conflict, and as without labels in list_project_label_names.
MeetProject(r) ==
    /\ hLife[r] = "creating" /\ Exists(At(r))
    /\ \/ /\ IsMarkedFor(r, At(r)) /\ harbor' = [harbor EXCEPT ![At(r)] = Adopted(r, At(r))] /\ AttemptDone(r) /\ Smoothly
       \/ ~IsMarkedFor(r, At(r)) /\ NextName(r) /\ Smoothly /\ UNCHANGED harbor
       \/ HarborFault /\ (AttemptFails(r) \/ NextName(r)) /\ UNCHANGED harbor
    /\ UNCHANGED <<hId, hLimit, hDown, hEdits>>

\* set_backend_id in Waldur; when it fails the order is retried
RecordProject(r) ==
    /\ hLife[r] = "made"
    /\ \/ hLife' = [hLife EXCEPT ![r] = "ok"] /\ hId' = [hId EXCEPT ![r] = At(r)] /\ Smoothly /\ UNCHANGED hTry
       \/ HarborFault /\ hLife' = [hLife EXCEPT ![r] = "creating"] /\ hTry' = [hTry EXCEPT ![r] = 1] /\ UNCHANGED hId
    /\ UNCHANGED <<harbor, hLimit, hDown, hEdits>>

\* delete_resource: a failure is logged, and the termination goes on
DeleteResource(r) ==
    /\ hLife[r] = "terminating" /\ hLife' = [hLife EXCEPT ![r] = "gone"]
    /\ \/ harbor' = [harbor EXCEPT ![hId[r]] = NoProject] /\ Smoothly
       \/ HarborFault /\ UNCHANGED harbor
    /\ UNCHANGED <<hTry, hId, hLimit, hDown, hEdits>>

\* set_resource_limits, for an update order; a failure raises and nothing changes
SetResourceLimits(r) ==
    /\ hLife[r] = "ok" /\ hEdits < MaxHarborEdits /\ hEdits' = hEdits + 1
    /\ \E q \in Quotas : harbor' = WithQuota(hId[r], q) /\ hLimit' = [hLimit EXCEPT ![r] = q]
    /\ UNCHANGED <<hLife, hTry, hId, hDown, hFaults>>

\* The status pass: downscale_resource or restore_resource; pausing is not done
\* by this plugin. A failure is logged.
SyncStatus(r) ==
    /\ hLife[r] = "ok"
    /\ \/ harbor' = WithQuota(hId[r], IF hDown[r] THEN 1 ELSE DefaultQuota) /\ Smoothly
       \/ HarborFault /\ UNCHANGED harbor
    /\ UNCHANGED <<hLife, hTry, hId, hLimit, hDown, hEdits>>

\* sync_waldur_resource_limits reports what the backend has, if it differs;
\* a quota that is not positive reads as zero, and an unread one as nothing.
ReportsLimits(r, seen) == seen # hLimit[r]

SyncResourceLimits(r) ==
    /\ hLife[r] = "ok" /\ ReportsLimits(r, harbor[hId[r]].quota) /\ hLimit' = [hLimit EXCEPT ![r] = harbor[hId[r]].quota]
    /\ UNCHANGED <<harbor, hLife, hTry, hId, hDown, hEdits, hFaults>>

HarborNext ==
    \/ HarborEdit
    \/ \E r \in Registries :
          \/ CreateProject(r) \/ MeetProject(r) \/ RecordProject(r) \/ DeleteResource(r) \/ SetResourceLimits(r)
          \/ SyncStatus(r) \/ SyncResourceLimits(r)

(***************************************************************************)
(* Properties.                                                             *)
(***************************************************************************)
\* A project the agent did not create is never changed or removed, whatever
\* was read of it and however often an order was retried (create_resource_with_id).
SiteProjectsKept == \A n \in HarborNames : harbor[n].by = "site" => harbor'[n] = harbor[n]

\* A resource that is OK has a project that was made for it, with its group,
\* retried and adopted creations included (create_resource_with_id, _is_marked_for).
OkHasProject == \A r \in Registries : hLife[r] = "ok" => harbor[hId[r]].by = r /\ harbor[hId[r]].group

\* In the end Waldur shows the quota that Harbor enforces (sync_waldur_resource_limits).
LimitsMatch == \A r \in Registries : hLife[r] = "ok" => hLimit[r] = harbor[hId[r]].quota

(***************************************************************************)
(* What makes OkHasProject and SiteProjectsKept inductive: a label is that *)
(* of the resource the project was made for, so whatever a resource has    *)
(* made, recorded or adopted is its own.                                   *)
(***************************************************************************)
HarborParameters ==
    /\ Candidates \in Seq(HarborNames) /\ Candidates # <<>>
    /\ {"none", "nobody", "site"} \cap Registries = {}
    /\ Quotas \subseteq Nat /\ DefaultQuota \in Nat

RegistryProjects ==
    [by : Registries \cup {"nobody", "site"}, label : Registries \cup {"none"},
     quota : Nat, group : BOOLEAN]

Owns(r) ==
    /\ hLife[r] = "made" => harbor[At(r)].by = r /\ harbor[At(r)].group
    /\ hLife[r] \in {"ok", "terminating"} => hId[r] \in HarborNames /\ harbor[hId[r]].by = r
    /\ hLife[r] = "ok" => harbor[hId[r]].group

HarborInv ==
    /\ harbor \in [HarborNames -> RegistryProjects]
    /\ hLife \in [Registries -> {"new", "creating", "made", "ok", "terminating", "gone", "erred"}]
    /\ hTry \in [Registries -> 1 .. Len(Candidates)] /\ hId \in [Registries -> HarborNames \cup {""}]
    /\ hLimit \in [Registries -> Nat]
    /\ \A n \in HarborNames : harbor[n].label \in {"none", harbor[n].by}
    /\ \A r \in Registries : Owns(r)
=============================================================================
