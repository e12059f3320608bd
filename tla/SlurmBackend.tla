---------------------------- MODULE SlurmBackend ----------------------------
(***************************************************************************)
(* The SLURM plugin (plugins/slurm) on the allocations of one project: the *)
(* accounts, the associations of a user, the QoS and the limits of each    *)
(* allocation.  An operation is a sequence of sacctmgr commands, any of    *)
(* which may fail; slurmdbd refuses the commands that would leave a        *)
(* default account or a default QoS dangling.  Orders of two allocations   *)
(* may be at work at once: the creation first ensures the project's        *)
(* account, and the deletion lists the accounts of the project before it   *)
(* drops that one.  The LDAP group and the directories, whose failures are *)
(* only logged, are left out.                                              *)
(***************************************************************************)
EXTENDS Integers, Sequences, FiniteSets

CONSTANTS Allocations,     \* backend ids of the project's allocations
          Configs,         \* settings explored: how QoS is managed, and soft_delete
          MaxEdits,        \* bound: changes in Waldur
          MaxBreaks        \* bound: commands that fail

Modes == {"swap", "swapDefault", "skip", "enforced"}
SlurmParameters == Configs \subseteq [mode : Modes, soft : BOOLEAN]
Levels == {"normal", "downscaled", "paused"}
Customers == {"c1", "c2"}

VARIABLES cluster,   \* what SLURM holds
          config,    \* the settings in force
          order,     \* the life of each allocation in Waldur
          wanted,    \* allocations whose team has the user
          level,     \* the level Waldur wants each allocation at
          customer,  \* the customer of the project in Waldur
          amount, months,   \* the prepaid limits in Waldur
          own,       \* the default QoS an administrator gave the user in an account
          cleanup,   \* how far the deletion of an allocation is with its project
          crossed,   \* an account came while a deletion was about to drop the project
          slurmEdits, breaks

svars == <<cluster, config, order, wanted, level, customer, amount, months,
           own, cleanup, crossed, slurmEdits, breaks>>
ending == <<cleanup, crossed>>
intents == <<wanted, level, customer, amount, months>>

Lever == config.mode \in {"skip", "enforced"}
Managed == config.mode = "skip"

Lives == {"none", "creating", "ensured", "OK", "ERRED", "terminating", "TERMINATED"}
Qos == Levels \cup Allocations
Clusters ==
    [accounts : SUBSET Allocations, project : Customers \cup {"none"},
     assoc : SUBSET (Allocations \cup {"root"}), default : Allocations \cup {"root", "none"},
     list : [Allocations -> SUBSET Qos], dq : [Allocations -> Qos \cup {"none"}],
     lever : SUBSET Allocations, qos : SUBSET Allocations, raw : SUBSET Allocations,
     limit : [Allocations -> 0 .. 4], refused : BOOLEAN]

\* a default account is one of the user's, a default QoS one of the account's
DefaultsHeld(c) ==
    /\ c.default \in c.assoc \cup {"none"}
    /\ \A r \in Allocations : c.dq[r] \in c.list[r] \cup {"none"}

SlurmTypeOK ==
    /\ cluster \in Clusters /\ DefaultsHeld(cluster)
    /\ config \in Configs
    /\ order \in [Allocations -> Lives]
    /\ wanted \subseteq Allocations /\ level \in [Allocations -> Levels] /\ customer \in Customers
    /\ amount \in {1, 2} /\ months \in {1, 2}
    /\ own \in [Allocations -> Qos \cup {"none"}]
    /\ cleanup \in [Allocations -> {"no", "list", "drop"}] /\ crossed \in BOOLEAN
    /\ slurmEdits \in Nat /\ breaks \in Nat

SlurmInit ==
    /\ cluster = [accounts |-> {}, project |-> "none", assoc |-> {}, default |-> "none",
                  list |-> [r \in Allocations |-> {"normal"}], dq |-> [r \in Allocations |-> "none"],
                  lever |-> {}, qos |-> {}, raw |-> {}, limit |-> [r \in Allocations |-> 0],
                  refused |-> FALSE]
    /\ config \in Configs
    /\ order = [r \in Allocations |-> "none"] /\ wanted = {}
    /\ level = [r \in Allocations |-> "normal"] /\ customer = "c1" /\ amount = 1 /\ months = 1
    /\ own = [r \in Allocations |-> "none"] /\ cleanup = [r \in Allocations |-> "no"] /\ crossed = FALSE
    /\ slurmEdits = 0 /\ breaks = 0

\* the commands take effect one by one, up to the end, a refusal or a failure;
\* ok says whether all of them were carried out; an association that goes takes
\* its own default QoS with it
Perform(commands, ok) ==
    LET after(i) == IF i = 0 THEN cluster ELSE commands[i] IN
    \E last \in 0 .. Len(commands) :
        /\ \A i \in 1 .. last - 1 : ~commands[i].refused
        /\ last < Len(commands) => last > 0 /\ commands[last].refused
        /\ \/ /\ ok = (last = 0 \/ ~after(last).refused)
              /\ cluster' = after(last) /\ UNCHANGED breaks
           \/ /\ ~ok /\ breaks < MaxBreaks /\ breaks' = breaks + 1
              /\ \E i \in 0 .. last - 1 : cluster' = after(i)
        /\ own' = [r \in Allocations |-> IF r \in cluster'.assoc THEN own[r] ELSE "none"]

\* the caller goes on either way
Attempt(commands) == \E ok \in BOOLEAN : Perform(commands, ok)

(***************************************************************************)
(* Accounts.                                                               *)
(***************************************************************************)
Order(r) ==
    /\ order[r] = "none"
    /\ order' = [order EXCEPT ![r] = "creating"]
    /\ UNCHANGED <<cluster, config, intents, own, ending, slurmEdits, breaks>>

\* a mutant: a limit written to the QoS starts its budget afresh
WriteAllocationLimitsResets(c, r, value, reset) ==
    IF Managed /\ r \notin c.qos THEN c
    ELSE [c EXCEPT !.limit[r] = value, !.raw = IF Managed THEN @ \ {r} ELSE @]

\* "Nothing modified" counts as done where the QoS is missing
WriteAllocationLimits(c, r, value, reset) ==
    IF Managed /\ r \notin c.qos THEN c
    ELSE [c EXCEPT !.limit[r] = value, !.raw = IF reset THEN @ \ {r} ELSE @]

\* prepaid limits are multiplied by the months bought
CollectResourceLimits == amount * months

\* _pre_create_resource: the account of the project, under its customer
ProjectCreated(c) == [c EXCEPT !.project = IF @ = "none" THEN customer ELSE @]

\* the account of the allocation
AccountCreated(c, r) ==
    [c EXCEPT !.accounts = @ \cup {r}, !.list[r] = {"normal"}, !.limit[r] = 0,
              !.dq[r] = IF config.mode = "swapDefault" THEN "normal" ELSE "none"]

\* _create_account_qos and _attach_account_qos, where QoS is managed
QosCreated(c, r) == [c EXCEPT !.qos = IF Managed THEN @ \cup {r} ELSE @]
QosAttached(c, r) ==
    [c EXCEPT !.list[r] = IF Managed THEN @ \cup {r} ELSE @, !.dq[r] = IF Managed THEN r ELSE @]

\* _pre_create_resource: the account of the project is there when it returns
PreCreateResource(r) ==
    /\ order[r] = "creating"
    /\ \E ok \in BOOLEAN :
          /\ Perform(<<ProjectCreated(cluster)>>, ok)
          /\ order' = [order EXCEPT ![r] = IF ok THEN "ensured" ELSE "ERRED"]
    /\ UNCHANGED <<config, intents, ending, slurmEdits>>

\* the account, _on_backend_resource_created, the limits, post_create_resource
CreateCommands(r) ==
    LET c2 == AccountCreated(cluster, r)
        c3 == QosCreated(c2, r)
        c4 == WriteAllocationLimits(c3, r, CollectResourceLimits, Managed /\ r \notin c2.qos)
        c5 == QosAttached(c4, r)
    IN  <<c2, c3, c4, c5>>

\* an id in use raises DuplicateResourceError, a parent that is gone by now an
\* error of sacctmgr
CreateResourceWithId(r) ==
    /\ order[r] = "ensured"
    /\ LET sound == r \notin cluster.accounts /\ cluster.project # "none" IN
       \E ok \in BOOLEAN :
          /\ Perform(IF sound THEN CreateCommands(r) ELSE <<>>, ok)
          /\ order' = [order EXCEPT ![r] = IF ok /\ sound THEN "OK" ELSE "ERRED"]
    /\ crossed' = (crossed \/ \E q \in Allocations : cleanup[q] = "drop")
    /\ UNCHANGED <<config, intents, cleanup, slurmEdits>>

Terminate(r) ==
    /\ order[r] = "OK"
    /\ order' = [order EXCEPT ![r] = "terminating"]
    /\ UNCHANGED <<cluster, config, intents, own, ending, slurmEdits, breaks>>

SetDefaultAccount(c, a) == [c EXCEPT !.default = a]

RemoveAssociation(c, a) ==
    IF a \notin c.assoc THEN c
    ELSE IF c.default = a /\ c.assoc # {a} THEN [c EXCEPT !.refused = TRUE]
    ELSE [c EXCEPT !.assoc = @ \ {a}, !.default = IF c.assoc = {a} THEN "none" ELSE @]

\* the default moves to a remaining account first; the last association
\* takes the user with it
DeleteAssociation(c, a) ==
    LET remaining == c.assoc \ {a} IN
    IF remaining # {} /\ c.default = a
    THEN LET moved == SetDefaultAccount(c, CHOOSE b \in remaining : TRUE)
         IN  <<moved, RemoveAssociation(moved, a)>>
    ELSE <<RemoveAssociation(c, a)>>

\* a mutant: the project account goes with the allocation
LastOfProjectAlways(c) == TRUE

LastOfProject(c) == c.accounts = {}

\* the users and the QoS, then the account; soft_delete keeps it with zero limits
DeleteCommands(r, qos) ==
    LET users == DeleteAssociation(cluster, r)
        c1 == users[Len(users)]
        c2 == [c1 EXCEPT !.qos = IF Managed /\ qos THEN @ \ {r} ELSE @,
                         !.list[r] = IF Managed /\ qos THEN @ \ {r} ELSE @,
                         !.dq[r] = IF Managed /\ qos /\ @ = r THEN "none" ELSE @,
                         !.raw = IF Managed /\ qos THEN @ \ {r} ELSE @]
        c3 == IF config.soft THEN WriteAllocationLimits(c2, r, 0, FALSE)
              ELSE [c2 EXCEPT !.accounts = @ \ {r}, !.lever = @ \ {r}]
    IN  users \o <<c2, c3>>

\* an account already gone leaves nothing to do; a failure is tried again
DeleteResource(r) ==
    /\ order[r] = "terminating" /\ cleanup[r] = "no"
    /\ LET there == r \in cluster.accounts IN
       \E qos \in {TRUE, breaks = MaxBreaks}, ok \in BOOLEAN :
          /\ Perform(IF there THEN DeleteCommands(r, qos) ELSE <<>>, ok)
          /\ order' = [order EXCEPT ![r] = IF ok /\ (config.soft \/ ~there) THEN "TERMINATED" ELSE @]
          /\ cleanup' = [cleanup EXCEPT ![r] = IF ok /\ ~config.soft /\ there THEN "list" ELSE @]
    /\ UNCHANGED <<config, intents, crossed, slurmEdits>>

\* the accounts of the project are listed after that; where the list fails the
\* order is processed again, and finds nothing to do
ListProject(r) ==
    /\ cleanup[r] = "list"
    /\ \E ok \in BOOLEAN :
          /\ Perform(<<cluster>>, ok)
          /\ cleanup' = [cleanup EXCEPT ![r] = IF ok /\ LastOfProject(cluster) THEN "drop" ELSE "no"]
          /\ order' = [order EXCEPT ![r] = IF ok /\ ~LastOfProject(cluster) THEN "TERMINATED" ELSE @]
    /\ UNCHANGED <<config, intents, crossed, slurmEdits>>

\* ... and the account of the project goes when that list was empty
DropProject(r) ==
    /\ cleanup[r] = "drop" /\ cleanup' = [cleanup EXCEPT ![r] = "no"]
    /\ \E ok \in BOOLEAN :
          /\ Perform(<<[cluster EXCEPT !.project = "none"]>>, ok)
          /\ order' = [order EXCEPT ![r] = IF ok THEN "TERMINATED" ELSE @]
    /\ UNCHANGED <<config, intents, crossed, slurmEdits>>

\* the customer's account, the project's, and the project under the customer
SyncResourceProject(r) ==
    /\ order[r] = "OK" /\ cluster.project # customer
    /\ Attempt(<<[cluster EXCEPT !.project = IF @ = "none" THEN customer ELSE @],
                 [cluster EXCEPT !.project = customer]>>)
    /\ UNCHANGED <<config, order, intents, ending, slurmEdits>>

(***************************************************************************)
(* Members.                                                                *)
(***************************************************************************)
\* the association with the default account comes first, then the one with
\* the allocation, which QoS enforcement makes the default
AddUserCommands(r) ==
    LET c1 == [cluster EXCEPT !.assoc = @ \cup {"root"}, !.default = "root"]
        c2 == [c1 EXCEPT !.assoc = @ \cup {r}, !.default = IF config.mode = "enforced" THEN r ELSE @]
    IN  <<c1, c2>>

\* a failure is tried again by the next pass, told as False or raised
AddUser(r) ==
    /\ order[r] = "OK" /\ r \in wanted \ cluster.assoc
    /\ Attempt(AddUserCommands(r))
    /\ UNCHANGED <<config, order, intents, ending, slurmEdits>>

\* active jobs are cancelled, then the association goes
RemoveUser(r) ==
    /\ order[r] = "OK" /\ r \in cluster.assoc \ wanted
    /\ Attempt(DeleteAssociation(cluster, r))
    /\ UNCHANGED <<config, order, intents, ending, slurmEdits>>

(***************************************************************************)
(* Level and limits.                                                       *)
(***************************************************************************)
\* slurmdbd takes a QoS list only with the default in it
ModifyAccountQos(c, r, list, default) ==
    IF default \in list \cup {"none"} THEN [c EXCEPT !.list[r] = list, !.dq[r] = default]
    ELSE [c EXCEPT !.refused = TRUE]

\* the user's own default, which the agent does not write, is not in the list
\* (then slurmdbd rolls the change back and the caller goes on)
OwnDefaultOutside(r, list) == own[r] \notin list \cup {"none"}

\* a mutant: the default QoS stays where it is
SwapAccountQosAlone(c, r, q) ==
    IF OwnDefaultOutside(r, {q}) THEN c ELSE ModifyAccountQos(c, r, {q}, c.dq[r])

\* the default QoS moves along in the same command
SwapAccountQos(c, r, q) ==
    IF OwnDefaultOutside(r, {q}) THEN c
    ELSE ModifyAccountQos(c, r, {q}, IF c.dq[r] \in {"none", q} THEN c.dq[r] ELSE q)

\* restore_resource: the lever is cleared, or the default QoS written
RestoreCommands(r) ==
    IF Lever THEN <<[cluster EXCEPT !.lever = @ \ {r}]>>
    ELSE IF cluster.list[r] = {"normal"} THEN <<>>
    ELSE <<SwapAccountQos(cluster, r, "normal")>>

\* pause_resource, and downscale_resource with its own QoS
PauseCommands(r, q) ==
    IF Lever THEN <<[cluster EXCEPT !.lever = @ \cup {r}]>>
    ELSE IF cluster.list[r] = {q} THEN <<>>
    ELSE <<SwapAccountQos(cluster, r, q)>>

SyncResourceStatus(r) ==
    /\ order[r] = "OK"
    /\ Attempt(IF level[r] = "normal" THEN RestoreCommands(r) ELSE PauseCommands(r, level[r]))
    /\ UNCHANGED <<config, order, intents, ending, slurmEdits>>

\* an update order of prepaid limits goes through _setup_resource_limits,
\* which multiplies them; the usage is kept unless the QoS is new
SetResourceLimits(r) ==
    /\ order[r] = "OK" /\ slurmEdits < MaxEdits /\ slurmEdits' = slurmEdits + 1
    /\ amount' = 3 - amount
    /\ UNCHANGED <<config, order, wanted, level, customer, months, ending>>
    /\ Attempt(<<WriteAllocationLimits(cluster, r, CollectResourceLimits', FALSE)>>)

SyncResourceEndDate(r) ==
    /\ order[r] = "OK"
    /\ Attempt(<<WriteAllocationLimits(cluster, r, CollectResourceLimits, FALSE)>>)
    /\ UNCHANGED <<config, order, intents, ending, slurmEdits>>

\* periodic settings: what differs is written, usage reset when asked
ApplyPeriodicSettings(r) ==
    /\ ~Managed /\ order[r] = "OK" /\ slurmEdits < MaxEdits /\ slurmEdits' = slurmEdits + 1
    /\ \E reset \in BOOLEAN :
          Attempt(<<[cluster EXCEPT !.limit[r] = amount * months],
                    [cluster EXCEPT !.limit[r] = amount * months,
                                    !.raw = IF reset THEN @ \ {r} ELSE @]>>)
    /\ UNCHANGED <<config, order, intents, ending>>

(***************************************************************************)
(* Waldur and the users.                                                   *)
(***************************************************************************)
Edit ==
    /\ slurmEdits < MaxEdits /\ slurmEdits' = slurmEdits + 1
    /\ \/ \E r \in Allocations : wanted' \in {wanted \cup {r}, wanted \ {r}} \ {wanted}
          /\ UNCHANGED <<level, customer, amount, months>>
       \/ \E r \in Allocations, l \in Levels : level' = [level EXCEPT ![r] = l]
          /\ UNCHANGED <<wanted, customer, amount, months>>
       \/ customer' \in Customers \ {customer} /\ UNCHANGED <<wanted, level, amount, months>>
       \/ months' = 2 /\ UNCHANGED <<wanted, level, customer, amount>>
    /\ UNCHANGED <<cluster, config, order, own, ending, breaks>>

\* jobs consume the budget
Consume(r) ==
    /\ r \in cluster.assoc
    /\ cluster' = [cluster EXCEPT !.raw = @ \cup {r}]
    /\ UNCHANGED <<config, order, intents, own, ending, slurmEdits, breaks>>

\* an administrator gives the user a default QoS of the account, or clears it
AdminSetsDefault(r) ==
    /\ r \in cluster.assoc /\ slurmEdits < MaxEdits /\ slurmEdits' = slurmEdits + 1
    /\ \E q \in cluster.list[r] \cup {"none"} : own' = [own EXCEPT ![r] = q]
    /\ UNCHANGED <<cluster, config, order, intents, ending, breaks>>

SlurmNext ==
    \/ \E r \in Allocations :
          \/ Order(r) \/ PreCreateResource(r) \/ CreateResourceWithId(r) \/ Terminate(r)
          \/ DeleteResource(r) \/ ListProject(r) \/ DropProject(r)
          \/ SyncResourceProject(r) \/ AddUser(r) \/ RemoveUser(r) \/ SyncResourceStatus(r)
          \/ SetResourceLimits(r) \/ SyncResourceEndDate(r) \/ ApplyPeriodicSettings(r) \/ Consume(r)
          \/ AdminSetsDefault(r)
    \/ Edit

(***************************************************************************)
(* Properties.                                                             *)
(***************************************************************************)
\* slurmdbd never refuses what the plugin asks: a default account or a
\* default QoS is moved before its association or its QoS goes, whatever
\* step an earlier operation stopped at (delete_association,
\* _swap_account_qos). Only the default QoS that an administrator gave a user,
\* which the plugin does not write, can keep a swap from happening.
NeverRefused == ~cluster.refused

\* The project account stays as long as an allocation hangs under it, also
\* after a creation or a deletion that stopped half way, and though orders of
\* two allocations are at work at once (delete_resource). So unless an account
\* is created after a deletion listed the project and before it drops it: the
\* code does not look again.
ProjectKept == cluster.accounts # {} => cluster.project # "none" \/ crossed

\* What an allocation consumed is forgotten only when its QoS is created or
\* a periodic reset asks for it: no update or renewal of the limits resets
\* it (_write_allocation_limits, _qos_created_this_cycle).
BudgetKept ==
    \A r \in cluster.raw \ cluster'.raw :
          IF Managed THEN r \notin cluster.qos \cap cluster'.qos ELSE slurmEdits' # slurmEdits

\* With no more changes in Waldur the allocations that live get the team,
\* the level, the customer and the prepaid limits Waldur wants, and one that
\* was terminated keeps no user (sync_resource_project, restore_resource,
\* sync_resource_end_date). A level that an administrator's default QoS for the
\* user stands against is not applied.
SlurmSettled ==
    \A r \in Allocations :
       /\ order[r] = "OK" =>
             /\ r \in cluster.assoc <=> r \in wanted
             /\ cluster.project = customer
             /\ IF Lever THEN r \in cluster.lever <=> level[r] # "normal"
                ELSE cluster.list[r] = {level[r]} \/ OwnDefaultOutside(r, {level[r]})
             /\ cluster.limit[r] = amount * months
       /\ order[r] = "TERMINATED" => r \notin cluster.assoc
=============================================================================
