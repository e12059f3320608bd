------------------------------- MODULE CephS3 -------------------------------
(***************************************************************************)
(* The Ceph S3 plugin (plugins/ceph-s3, the croit flavour) on one          *)
(* resource: an S3 user under one of the ids the order processor           *)
(* generates, its quota, its keys, and their rotation by the handler of    *)
(* key messages and by the sweep for stuck keys.                           *)
(***************************************************************************)
EXTENDS Integers, FiniteSets, Sequences

CONSTANTS Uids,          \* the ids the processor tries, in order
          Rotators,      \* who may rotate at the same time
          MaxKeys,       \* bound: keys ever made
          MaxS3Faults    \* bound: calls that fail, agents that stop

VARIABLES s3,       \* the cluster: owner, keys and quota of each id
          make,     \* the creation that runs
          s3Life,   \* the resource in Waldur
          backendId,\* its backend_id
          row,      \* the two key rows of the resource in Waldur
          rot,      \* the rotations that run
          lastKey, s3Faults

s3vars == <<s3, make, s3Life, backendId, row, rot, lastKey, s3Faults>>

UidSet == {Uids[k] : k \in DOMAIN Uids}
Slots == {1, 2}
Fresh == lastKey + 1
NoUser == [owner |-> "none", keys |-> {}, capped |-> FALSE]
NotMaking == [at |-> "off", try |-> 1, created |-> FALSE, key |-> 0]
NotRotating == [at |-> "off", slot |-> 1, known |-> {}, told |-> FALSE, prunable |-> {}, new |-> 0]
Rows == {row[i].key : i \in Slots} \ {0}

S3TypeOK ==
    /\ \A u \in UidSet : s3[u].owner \in {"none", "us", "them"} /\ s3[u].keys \subseteq 0 .. MaxKeys
    /\ make.try \in DOMAIN Uids \cup {0} /\ backendId \in UidSet \cup {"-"}
    /\ s3Life \in {"none", "creating", "OK", "ERRED", "terminating", "TERMINATED"}
    /\ \A i \in Slots : row[i].key \in 0 .. MaxKeys /\ row[i].state \in {"none", "OK", "Updating", "Erred"}
    /\ \A t \in Rotators : rot[t].at \in {"off", "list", "swap", "prune", "report"}

\* the cluster may hold a user of somebody else under the first id
S3Init ==
    /\ \E taken \in SUBSET UidSet : s3 = [u \in UidSet |-> IF u \in taken
                                                     THEN [owner |-> "them", keys |-> {0}, capped |-> FALSE] ELSE NoUser]
    /\ make = NotMaking /\ s3Life = "none" /\ backendId = "-"
    /\ row = [i \in Slots |-> [key |-> 0, state |-> "none"]]
    /\ rot = [t \in Rotators |-> NotRotating] /\ lastKey = 0 /\ s3Faults = 0

S3Broken == s3Faults < MaxS3Faults /\ s3Faults' = s3Faults + 1
S3Sound == UNCHANGED s3Faults

\* orders, and rotations that users ask for
S3Edit ==
    /\ \/ s3Life = "none" /\ s3Life' = "creating" /\ make' = [NotMaking EXCEPT !.at = "user"] /\ UNCHANGED row
       \/ /\ s3Life = "OK" /\ \A t \in Rotators : rot[t].at = "off"
          /\ s3Life' = "terminating" /\ UNCHANGED <<make, row>>
       \/ /\ s3Life = "OK" /\ UNCHANGED <<s3Life, make>>
          /\ \E i \in Slots : row[i].state \in {"OK", "Erred"} /\ row' = [row EXCEPT ![i].state = "Updating"]
    /\ UNCHANGED <<s3, backendId, rot, lastKey, s3Faults>>

(***************************************************************************)
(* Creation.                                                               *)
(***************************************************************************)
\* a mutant: any user that exists is adopted
AdoptIfOursAny(u) == TRUE

\* _adopt_if_ours: by the stamp that the creation wrote
AdoptIfOurs(u) == s3[u].owner = "us"

\* _create_or_adopt_user: a new user comes with a key of its own; a foreign
\* one makes the processor try the next id
CreateOrAdoptUser ==
    LET u == Uids[make.try] IN
    /\ make.at = "user"
    /\ \/ /\ s3[u].owner = "none" /\ lastKey < MaxKeys /\ S3Sound
          /\ s3' = [s3 EXCEPT ![u] = [NoUser EXCEPT !.owner = "us", !.keys = {Fresh}]] /\ lastKey' = Fresh
          /\ make' = [make EXCEPT !.at = "sweep", !.created = TRUE] /\ UNCHANGED s3Life
       \/ /\ s3[u].owner # "none" /\ AdoptIfOurs(u) /\ S3Sound
          /\ make' = [make EXCEPT !.at = "quota", !.created = FALSE] /\ UNCHANGED <<s3, lastKey, s3Life>>
       \/ /\ s3[u].owner # "none" /\ ~AdoptIfOurs(u) /\ S3Sound /\ UNCHANGED <<s3, lastKey>>
          /\ IF make.try < Len(Uids) THEN make' = [make EXCEPT !.try = @ + 1] /\ UNCHANGED s3Life
             ELSE make' = NotMaking /\ s3Life' = "ERRED"
       \/ S3Broken /\ make' = NotMaking /\ s3Life' = "ERRED" /\ UNCHANGED <<s3, lastKey>>
    /\ UNCHANGED <<backendId, row, rot>>

\* _remove_auto_generated_keys: of a user that was just made
RemoveAutoGeneratedKeys ==
    /\ make.at = "sweep"
    /\ \/ s3' = [s3 EXCEPT ![Uids[make.try]].keys = {}] /\ make' = [make EXCEPT !.at = "quota"] /\ S3Sound /\ UNCHANGED s3Life
       \/ S3Broken /\ make' = NotMaking /\ s3Life' = "ERRED" /\ UNCHANGED s3
    /\ UNCHANGED <<backendId, row, rot, lastKey>>

\* quotas are set again on a user that was adopted
QuotaWanted == TRUE

\* _apply_bucket_quotas, then Waldur learns the backend_id
ApplyBucketQuotas ==
    /\ make.at = "quota"
    /\ \/ /\ s3' = IF QuotaWanted THEN [s3 EXCEPT ![Uids[make.try]].capped = TRUE] ELSE s3
          /\ backendId' = Uids[make.try] /\ make' = [make EXCEPT !.at = "prune"] /\ S3Sound /\ UNCHANGED s3Life
       \/ S3Broken /\ make' = NotMaking /\ s3Life' = "ERRED" /\ UNCHANGED <<s3, backendId>>
    /\ UNCHANGED <<row, rot, lastKey>>

\* provision_resource_api_keys: an empty list of Waldur prunes nothing
ProvisionPrunes ==
    /\ make.at = "prune" /\ make' = [make EXCEPT !.at = "mint"]
    /\ s3' = IF Rows = {} THEN s3 ELSE [s3 EXCEPT ![backendId].keys = @ \cap Rows]
    /\ UNCHANGED <<s3Life, backendId, row, rot, lastKey, s3Faults>>

\* generate_resource_keys: a key is made, reported, then the next; a failure
\* ends it and the order is done all the same
ProvisionMints ==
    /\ make.at = "mint" /\ UNCHANGED <<backendId, rot>>
    /\ \/ /\ make.key = 0 /\ lastKey < MaxKeys /\ \E i \in Slots : row[i].state = "none"
          /\ s3' = [s3 EXCEPT ![backendId].keys = @ \cup {Fresh}] /\ lastKey' = Fresh
          /\ make' = [make EXCEPT !.key = Fresh] /\ S3Sound /\ UNCHANGED <<row, s3Life>>
       \/ /\ make.key # 0 /\ UNCHANGED <<s3, lastKey, s3Life>> /\ S3Sound
          /\ LET i == CHOOSE j \in Slots : row[j].state = "none" /\ \A k \in 1 .. j - 1 : row[k].state # "none"
             IN row' = [row EXCEPT ![i] = [key |-> make.key, state |-> "OK"]]
          /\ make' = [make EXCEPT !.key = 0]
       \/ /\ make' = NotMaking /\ s3Life' = "OK" /\ UNCHANGED <<s3, row, lastKey>>
          /\ IF make.key = 0 /\ \A i \in Slots : row[i].state # "none" THEN S3Sound ELSE S3Broken

\* the agent stops, and the order is processed again: from the start, or not
\* at all once Waldur has the backend_id
AgentStops ==
    /\ s3Life = "creating" /\ S3Broken
    /\ IF backendId = "-" THEN make' = [NotMaking EXCEPT !.at = "user"] /\ UNCHANGED s3Life
       ELSE make' = NotMaking /\ s3Life' = "OK"
    /\ UNCHANGED <<s3, backendId, row, rot, lastKey>>

\* delete_resource: a user that is not there counts as deleted
DeleteResource ==
    /\ s3Life = "terminating"
    /\ \/ s3' = [s3 EXCEPT ![backendId] = NoUser] /\ s3Life' = "TERMINATED" /\ S3Sound
       \/ S3Broken /\ s3Life' = "ERRED" /\ s3' \in {s3, [s3 EXCEPT ![backendId] = NoUser]}
    /\ UNCHANGED <<make, backendId, row, rot, lastKey>>

(***************************************************************************)
(* rotate_resource_api_key.                                                *)
(***************************************************************************)
\* the keys that Waldur holds are listed first; a list that fails is unknown
RotationStarts(t, i) ==
    /\ s3Life = "OK" /\ rot[t].at = "off" /\ row[i].state = "Updating" /\ \A o \in Rotators : rot[o].at = "off" \/ rot[o].slot # i
    /\ \E told \in BOOLEAN :
          /\ told => \A j \in Slots : row[j].state # "none" => row[j].key # 0
          /\ IF told THEN S3Sound ELSE S3Broken
          /\ rot' = [rot EXCEPT ![t] = [NotRotating EXCEPT !.at = "list", !.slot = i, !.told = told,
                                                           !.known = IF told THEN Rows ELSE {}]]
    /\ UNCHANGED <<s3, make, s3Life, backendId, row, lastKey>>

\* then the keys the user has, before any is made
RotationLists(t) ==
    /\ rot[t].at = "list"
    /\ rot' = [rot EXCEPT ![t].at = "swap", ![t].prunable = s3[backendId].keys \ {row[rot[t].slot].key}]
    /\ UNCHANGED <<s3, make, s3Life, backendId, row, lastKey, s3Faults>>

\* the new key is added, the old one dropped
Swapped(keys, old, new) == (keys \cup {new}) \ {old}

RotationSwaps(t) ==
    LET x == rot[t]
        old == row[x.slot].key
    IN /\ x.at = "swap" /\ lastKey < MaxKeys
       /\ s3' = [s3 EXCEPT ![backendId].keys = Swapped(@, old, Fresh)] /\ lastKey' = Fresh
       /\ rot' = [rot EXCEPT ![t].at = "prune", ![t].new = Fresh]
       /\ UNCHANGED <<make, s3Life, backendId, row, s3Faults>>

\* _prune_unknown_keys: of those listed before, the ones Waldur did not name
Pruned(t) ==
    IF rot[t].told THEN {k \in s3[backendId].keys : k \in rot[t].prunable /\ k \notin rot[t].known \cup {rot[t].new}} ELSE {}

RotationPrunes(t) ==
    /\ rot[t].at = "prune" /\ s3' = [s3 EXCEPT ![backendId].keys = @ \ Pruned(t)] /\ rot' = [rot EXCEPT ![t].at = "report"]
    /\ UNCHANGED <<make, s3Life, backendId, row, lastKey, s3Faults>>

\* set_key; an answer that is lost is reported as an error, which Waldur
\* refuses for a key that is OK
RotationReports(t) ==
    LET x == rot[t] IN
    /\ x.at = "report" /\ rot' = [rot EXCEPT ![t] = NotRotating]
    /\ \/ row' = [row EXCEPT ![x.slot] = [key |-> x.new, state |-> "OK"]] /\ S3Sound
       \/ row' = [row EXCEPT ![x.slot].state = "Erred"] /\ S3Broken
    /\ UNCHANGED <<s3, make, s3Life, backendId, lastKey>>

\* a call to the cluster fails: the key is erred, what was done stays
RotationFails(t) ==
    /\ rot[t].at \in {"list", "swap", "prune"} /\ S3Broken
    /\ rot' = [rot EXCEPT ![t] = NotRotating] /\ row' = [row EXCEPT ![rot[t].slot].state = "Erred"]
    /\ UNCHANGED <<s3, make, s3Life, backendId, lastKey>>

S3Next ==
    \/ S3Edit \/ CreateOrAdoptUser \/ RemoveAutoGeneratedKeys \/ ApplyBucketQuotas \/ ProvisionPrunes \/ ProvisionMints
    \/ AgentStops \/ DeleteResource
    \/ \E t \in Rotators : \/ \E i \in Slots : RotationStarts(t, i)
                           \/ RotationLists(t) \/ RotationSwaps(t) \/ RotationPrunes(t) \/ RotationReports(t) \/ RotationFails(t)

(***************************************************************************)
(* Properties.                                                             *)
(***************************************************************************)
\* A user that the cluster had before is never adopted, changed or deleted,
\* whatever creation failed and came again (_adopt_if_ours, delete_resource).
ForeignUntouched == \A u \in UidSet : s3[u].owner = "them" => s3'[u] = s3[u]

\* A resource is OK only with a capped user behind it, also when its creation
\* was interrupted and adopted what the first run made (_create_s3_user).
OkIsCapped == s3Life = "OK" => s3[backendId].owner = "us" /\ s3[backendId].capped

\* A key that Waldur shows as OK works (rotate_resource_key,
\* _prune_unknown_keys): no rotation takes the key of the other row. So with one
\* rotator at a time, and not with two: see RotationsSafe of MC_Races.
HeldIsLive == s3Life = "OK" => \A i \in Slots : row[i].state = "OK" => row[i].key \in s3[backendId].keys
=============================================================================
