----------------------------- MODULE OpenNebula -----------------------------
(***************************************************************************)
(* The OpenNebula plugin (plugins/opennebula): virtual data centres (VDCs) *)
(* with a group, a network, a router and a security group, their groups in *)
(* Keycloak, and a VM inside one of them.  Creations of two VDCs may be at *)
(* work at once: each lists the subnets in use, then makes its network.  A *)
(* creation that fails is rolled back as far as the deletions succeed, and *)
(* a VDC whose creation failed may be terminated too; a deletion that      *)
(* fails is processed again; a VDC that was terminated may be restored     *)
(* under its name.                                                         *)
(***************************************************************************)
EXTENDS Integers, Sequences, FiniteSets

CONSTANTS VDCs,            \* names of VDCs
          Pools,           \* pools of subnets, after the base network, a zone may have
          MaxOneEdits,     \* bound: changes in Waldur
          MaxOneFaults     \* bound: calls that fail

VARIABLES one,        \* what OpenNebula and Keycloak hold, and the pool of the zone
          vdcOrder,   \* the life of each VDC in Waldur
          team,       \* VDCs the user belongs to in Waldur
          left,       \* VDCs with an undelivered event that the user left
          making,     \* the creations that chose a subnet and have no network yet
          named,      \* VDCs whose backend_id Waldur has
          finished,   \* VDCs whose last creation was completed
          loose,      \* VDCs whose subnet no listing showed to be free when it was taken
          vm, vmOrder,     \* a VM of a VDC and its life in Waldur
          oneEdits, oneFaults

nvars == <<one, vdcOrder, team, left, making, named, finished, loose, vm, vmOrder,
           oneEdits, oneFaults>>
created == <<making, named, finished, loose>>

Lives == {"none", "creating", "OK", "ERRED", "terminating", "TERMINATED"}
NotMaking == [at |-> "off", subnet |-> 0, given |-> FALSE, stale |-> FALSE]

OneTypeOK ==
    /\ \A f \in {"group", "vdc", "router", "sg", "kc", "saml", "member"} : one[f] \subseteq VDCs
    /\ one.vnet \in [VDCs -> one.pool \cup {0}]
    /\ named \cup finished \cup loose \subseteq VDCs
    /\ \A v \in VDCs : making[v] # NotMaking => making[v].at = "net" /\ making[v].subnet \in one.pool
    /\ vdcOrder \in [VDCs -> Lives] /\ vmOrder \in Lives /\ team \subseteq VDCs /\ left \subseteq VDCs
    /\ vm.state \in {"none", "active", "off", "stray"} /\ vm.size \in 0 .. 2

OneInit ==
    /\ \E pool \in Pools :
          one = [group |-> {}, vdc |-> {}, vnet |-> [v \in VDCs |-> 0],
                 router |-> {}, sg |-> {}, kc |-> {}, saml |-> {}, member |-> {},
                 quota |-> [v \in VDCs |-> 0], pool |-> pool]
    /\ vdcOrder = [v \in VDCs |-> "none"] /\ team = {} /\ left = {}
    /\ making = [v \in VDCs |-> NotMaking] /\ named = {} /\ finished = {} /\ loose = {}
    /\ vm = [state |-> "none", size |-> 0, of |-> CHOOSE v \in VDCs : TRUE] /\ vmOrder = "none"
    /\ oneEdits = 0 /\ oneFaults = 0

Fault == oneFaults < MaxOneFaults /\ oneFaults' = oneFaults + 1
Edited == oneEdits < MaxOneEdits /\ oneEdits' = oneEdits + 1

(***************************************************************************)
(* VDCs.                                                                   *)
(***************************************************************************)
\* an order, or the restoration of a terminated VDC under its name
OrderVdc(v) ==
    /\ vdcOrder[v] \in {"none", "TERMINATED"} /\ Edited
    /\ vdcOrder' = [vdcOrder EXCEPT ![v] = "creating"] /\ finished' = finished \ {v}
    /\ UNCHANGED <<one, team, left, making, named, loose, vm, vmOrder, oneFaults>>

\* a mutant: the networks of VDCs that are gone are not looked at
AllocateNextSubnetLive(s) == s \notin {one.vnet[v] : v \in one.vdc}

\* the first subnet no waldur_*_internal network uses
AllocateNextSubnet(s) ==
    /\ s \notin {one.vnet[v] : v \in VDCs}
    /\ \A t \in one.pool : t < s => t \in {one.vnet[v] : v \in VDCs}

\* the subnet the user gave with the order, which nothing is checked against,
\* or the next one
ChooseSubnet(s, given) == s \in one.pool /\ (given \/ AllocateNextSubnet(s))

\* a network whose name is taken is used as it is
CreateVxlanNetwork(c, v, s) == [c EXCEPT !.vnet[v] = IF @ = 0 THEN s ELSE @]

\* the network, the router on its gateway and the security group
SetupNetworking(c, v, s) ==
    LET c1 == CreateVxlanNetwork(c, v, s)
        c2 == [c1 EXCEPT !.router = @ \cup {v}]
        c3 == [c2 EXCEPT !.sg = @ \cup {v}]
    IN  <<c1, c2, c3>>

\* the rollback deletes in reverse order; what it could not delete is only
\* logged, but for the VDC, whose failure leaves the group too
Rollback(c, v, kept) ==
    [c EXCEPT !.sg = IF "sg" \in kept THEN @ ELSE @ \ {v},
              !.router = IF "router" \in kept THEN @ ELSE @ \ {v},
              !.vnet[v] = IF "vnet" \in kept THEN @ ELSE 0,
              !.vdc = IF "vdc" \in kept THEN @ ELSE @ \ {v},
              !.group = IF {"vdc", "group"} \cap kept # {} THEN @ ELSE @ \ {v}]

\* a step of the creation fails; a network also stays when the VM of the router
\* still holds a lease
CreationFails(c, v) ==
    /\ vdcOrder' = [vdcOrder EXCEPT ![v] = "ERRED"]
    /\ \/ /\ Fault
          /\ \E kept \in {{}, IF v \in c.router THEN {"vnet"} ELSE {}} : one' = Rollback(c, v, kept)
       \/ /\ oneFaults + 2 <= MaxOneFaults /\ oneFaults' = oneFaults + 2
          /\ \E kept \in SUBSET {"sg", "router", "vnet", "vdc", "group"} : one' = Rollback(c, v, kept)

\* create_resource: the group, the VDC with its clusters, and the subnet
StartVdc(v) ==
    LET c1 == [one EXCEPT !.group = @ \cup {v}]
        c2 == [c1 EXCEPT !.vdc = @ \cup {v}]
    IN /\ vdcOrder[v] = "creating" /\ making[v] = NotMaking /\ v \notin one.vdc
       /\ \/ \E s \in one.pool, given \in BOOLEAN :
                /\ ChooseSubnet(s, given) /\ one' = c2
                /\ making' = [making EXCEPT ![v] =
                                 [at |-> "net", subnet |-> s, given |-> given, stale |-> FALSE]]
                /\ UNCHANGED <<vdcOrder, oneFaults>>
          \/ \E c \in {one, c1, c2} : CreationFails(c, v) /\ UNCHANGED making
          \/ /\ \A s \in one.pool : ~AllocateNextSubnet(s)
             /\ vdcOrder' = [vdcOrder EXCEPT ![v] = "ERRED"] /\ one' = Rollback(c2, v, {})
             /\ UNCHANGED <<making, oneFaults>>
       /\ UNCHANGED <<team, left, named, finished, loose, vm, vmOrder, oneEdits>>

\* the name is taken
RefuseVdc(v) ==
    /\ vdcOrder[v] = "creating" /\ making[v] = NotMaking /\ v \in one.vdc
    /\ vdcOrder' = [vdcOrder EXCEPT ![v] = "ERRED"]
    /\ UNCHANGED <<one, team, left, created, vm, vmOrder, oneEdits, oneFaults>>

\* _create_keycloak_groups, the SAML groups of OpenNebula and their mapping;
\* a failure leaves the VDC without them
KeycloakSetup(c, v) ==
    {[c EXCEPT !.kc = @ \cup {v}, !.saml = @ \cup {v}]}
       \cup IF oneFaults < MaxOneFaults THEN {c, [c EXCEPT !.kc = @ \cup {v}]} ELSE {}

\* create_resource_with_id after that: done with its quotas, or failed and rolled
\* back (OpenNebula gives a router no address outside its network), or failed
\* at the quotas, which rolls back nothing
CreateVdcResource(v) ==
    LET x == making[v]
        stages == SetupNetworking(one, v, x.subnet)
        reused == one.vnet[v] \notin {0, x.subnet}
    IN /\ x.at = "net"
       /\ \/ /\ ~reused
             /\ \E c \in KeycloakSetup(stages[3], v) :
                   /\ one' = [c EXCEPT !.quota[v] = 1]
                   /\ IF v \in c.saml THEN UNCHANGED oneFaults ELSE Fault
             /\ vdcOrder' = [vdcOrder EXCEPT ![v] = "OK"]
             /\ named' = named \cup {v} /\ finished' = finished \cup {v}
          \/ /\ UNCHANGED <<named, finished>> /\ ~reused
             /\ Fault /\ vdcOrder' = [vdcOrder EXCEPT ![v] = "ERRED"]
             /\ one' = [stages[3] EXCEPT !.kc = @ \cup {v}, !.saml = @ \cup {v}]
          \/ /\ UNCHANGED <<named, finished>>
             /\ \/ CreationFails(one, v)
                \/ \E k \in 1 .. IF reused THEN 1 ELSE 3 : CreationFails(stages[k], v)
          \/ /\ UNCHANGED <<named, finished, oneFaults>> /\ reused
             /\ vdcOrder' = [vdcOrder EXCEPT ![v] = "ERRED"] /\ one' = Rollback(stages[2], v, {})
       /\ LET taken == one'.vnet[v] # one.vnet[v] IN
          /\ making' = [w \in VDCs |-> IF w = v THEN NotMaking
                                       ELSE IF taken /\ making[w] # NotMaking THEN [making[w] EXCEPT !.stale = TRUE]
                                       ELSE making[w]]
          /\ loose' = IF ~taken THEN loose ELSE IF x.given \/ x.stale THEN loose \cup {v} ELSE loose \ {v}
       /\ UNCHANGED <<team, left, vm, vmOrder, oneEdits>>

TerminateVdc(v) ==
    /\ vdcOrder[v] \in {"OK", "ERRED"} /\ Edited
    /\ vm.of = v => vmOrder \in {"none", "ERRED", "TERMINATED"}
    /\ vdcOrder' = [vdcOrder EXCEPT ![v] = "terminating"]
    /\ UNCHANGED <<one, team, left, created, vm, vmOrder, oneFaults>>

\* the groups of Keycloak and the SAML mapping, whose failure is only logged
PreDeleteResource(c, v) ==
    {[c EXCEPT !.kc = @ \ {v}, !.saml = @ \ {v}, !.member = @ \ {v}]}
       \cup IF oneFaults < MaxOneFaults THEN {c} ELSE {}

\* the router first, and its VMs until they are gone, then the network
TeardownNetworking(c, v) ==
    LET c1 == [c EXCEPT !.router = @ \ {v}]
        c2 == [c1 EXCEPT !.vnet[v] = 0]
        c3 == [c2 EXCEPT !.sg = @ \ {v}]
    IN  <<c1, c2, c3>>

\* the networking, the VDC, the group
DeleteResource(c, v) ==
    LET net == TeardownNetworking(c, v)
        c1  == [net[3] EXCEPT !.vdc = @ \ {v}]
    IN  <<c>> \o net \o <<c1, [c1 EXCEPT !.group = @ \ {v}]>>

\* delete_resource of the base class: a VDC without a backend_id, or that is not
\* there, is done; a failure is processed again
DeleteVdcResource(v) ==
    /\ vdcOrder[v] = "terminating"
    /\ IF v \notin named \/ v \notin one.vdc
       THEN vdcOrder' = [vdcOrder EXCEPT ![v] = "TERMINATED"] /\ UNCHANGED <<one, oneFaults>>
       ELSE \E c \in PreDeleteResource(one, v) :
              LET stages == DeleteResource(c, v) IN
              \/ /\ one' = stages[6] /\ vdcOrder' = [vdcOrder EXCEPT ![v] = "TERMINATED"]
                 /\ IF v \in c.kc THEN Fault ELSE UNCHANGED oneFaults
              \/ /\ Fault /\ v \notin c.kc /\ UNCHANGED vdcOrder
                 /\ \E k \in 1 .. 5 : one' = stages[k]
    /\ UNCHANGED <<team, left, created, vm, vmOrder, oneEdits>>

\* set_resource_limits: the quotas of the group
SetQuota(v) ==
    /\ vdcOrder[v] = "OK" /\ v \in one.group /\ Edited
    /\ one' = [one EXCEPT !.quota[v] = 3 - @]
    /\ UNCHANGED <<vdcOrder, team, left, vm, vmOrder, oneFaults, created>>

(***************************************************************************)
(* Members.                                                                *)
(***************************************************************************)
EditTeam(v) ==
    /\ Edited
    /\ IF v \in team THEN team' = team \ {v} /\ left' = left \cup {v}
       ELSE team' = team \cup {v} /\ left' = left \ {v}
    /\ UNCHANGED <<one, vdcOrder, vm, vmOrder, oneFaults, created>>

\* the group of the role, made when it is missing
FindVdcRoleGroup(c, v) == [c EXCEPT !.kc = @ \cup {v}]

\* list_resource_users knows no members, so every pass adds the whole team
AddUser(v) ==
    /\ vdcOrder[v] = "OK" /\ v \in team \ one.member
    /\ LET c == FindVdcRoleGroup(one, v)
       IN  v \in c.kc /\ one' = [c EXCEPT !.member = @ \cup {v}]
    /\ UNCHANGED <<vdcOrder, team, left, vm, vmOrder, oneEdits, oneFaults, created>>

\* on the event of the role only: out of every role group; a failure is
\* logged and the user counts as removed
RemoveUser(v) ==
    /\ vdcOrder[v] = "OK" /\ v \in left /\ left' = left \ {v}
    /\ \/ one' = [one EXCEPT !.member = @ \ {v}] /\ UNCHANGED oneFaults
       \/ Fault /\ UNCHANGED one
    /\ UNCHANGED <<vdcOrder, team, vm, vmOrder, oneEdits, created>>

(***************************************************************************)
(* The VM.                                                                 *)
(***************************************************************************)
OrderVm ==
    /\ vmOrder = "none" /\ Edited /\ vmOrder' = "creating"
    /\ vdcOrder[vm.of] = "OK"
    /\ UNCHANGED <<one, vdcOrder, team, left, vm, oneFaults, created>>

\* instantiated, given to the group of the VDC, awaited; taken down when one
\* of these fails, unless that fails too
CreateVm ==
    /\ vmOrder = "creating"
    /\ \/ /\ vm' = [vm EXCEPT !.state = "active", !.size = 1] /\ vmOrder' = "OK" /\ UNCHANGED oneFaults
       \/ Fault /\ vmOrder' = "ERRED" /\ UNCHANGED vm
       \/ /\ oneFaults + 2 <= MaxOneFaults /\ oneFaults' = oneFaults + 2
          /\ vm' = [vm EXCEPT !.state = "stray", !.size = 1] /\ vmOrder' = "ERRED"
    /\ UNCHANGED <<one, vdcOrder, team, left, oneEdits, created>>

\* powered off, resized, resumed when it was running, and awaited
Resized == vm' = [vm EXCEPT !.size = 3 - @]

\* a failure on the way leaves it as it is at that point
ResizeVm ==
    /\ vmOrder = "OK" /\ Edited
    /\ \/ Resized /\ UNCHANGED oneFaults
       \/ /\ Fault
          /\ vm' \in {vm, [vm EXCEPT !.state = "off"], [vm EXCEPT !.state = "off", !.size = 3 - @]}
    /\ UNCHANGED <<one, vdcOrder, team, left, vmOrder, created>>

\* the owner starts a VM that was left off
StartVm ==
    /\ vm.state = "off"
    /\ vm' = [vm EXCEPT !.state = "active"]
    /\ UNCHANGED <<one, vdcOrder, team, left, vmOrder, oneEdits, oneFaults, created>>

\* terminate-hard; a VM that is gone is done
DeleteVm ==
    /\ vmOrder = "OK" /\ Edited
    /\ \/ vm' = [vm EXCEPT !.state = "none", !.size = 0] /\ vmOrder' = "TERMINATED" /\ UNCHANGED oneFaults
       \/ Fault /\ UNCHANGED <<vm, vmOrder>>
    /\ UNCHANGED <<one, vdcOrder, team, left, created>>

OneNext ==
    \/ \E v \in VDCs :
          \/ OrderVdc(v) \/ StartVdc(v) \/ CreateVdcResource(v) \/ RefuseVdc(v) \/ TerminateVdc(v)
          \/ DeleteVdcResource(v) \/ SetQuota(v) \/ EditTeam(v) \/ AddUser(v) \/ RemoveUser(v)
    \/ OrderVm \/ CreateVm \/ ResizeVm \/ StartVm \/ DeleteVm

(***************************************************************************)
(* Properties.                                                             *)
(***************************************************************************)
\* Two networks share a subnet only when one of them took it unseen: the user
\* gave it, or another network was made after the listing. So also when a
\* rollback or a deletion left a network behind, or a VDC was restored
\* (_allocate_next_subnet, _create_vxlan_network).
SubnetsDisjoint ==
    \A v, w \in VDCs : v # w /\ one.vnet[v] # 0 /\ one.vnet[v] = one.vnet[w] => {v, w} \cap loose # {}

\* A VDC whose creation was completed has no network, router or security group
\* once it counts as terminated, however many attempts its deletion took
\* (delete_resource). One whose creation failed may: its termination finds no
\* backend_id, or no VDC, and skips the rest.
NetworkGone ==
    \A v \in finished : vdcOrder[v] = "TERMINATED" =>
                           one.vnet[v] = 0 /\ v \notin one.router \cup one.sg \cup one.vdc

\* With no more changes the team of a VDC are members of its groups, also
\* when the groups of Keycloak could not be made at first or a member was
\* removed by a late event (add_user).
VdcTeamIsIn == \A v \in VDCs : vdcOrder[v] = "OK" /\ v \in team => v \in one.member

(***************************************************************************)
(* What makes SubnetsDisjoint and NetworkGone inductive: the subnet a      *)
(* creation chose is free until another network is made, and a VDC that    *)
(* was completed and is not there any more has no network.                 *)
(***************************************************************************)
OneParameters == Pools \subseteq SUBSET (Nat \ {0})

Holdings ==
    [group : SUBSET VDCs, vdc : SUBSET VDCs, vnet : [VDCs -> Nat],
     router : SUBSET VDCs, sg : SUBSET VDCs, kc : SUBSET VDCs, saml : SUBSET VDCs,
     member : SUBSET VDCs, quota : [VDCs -> Int], pool : SUBSET (Nat \ {0})]
Makings == [at : {"off", "net"}, subnet : Nat, given : BOOLEAN, stale : BOOLEAN]

Unnetworked(v) == one.vnet[v] = 0 /\ v \notin one.router \cup one.sg

ChosenIsFree ==
    \A v \in VDCs : making[v].at = "net" /\ ~making[v].given /\ ~making[v].stale =>
                       making[v].subnet # 0 /\ \A w \in VDCs : one.vnet[w] # making[v].subnet

OneInv ==
    /\ one \in Holdings /\ vdcOrder \in [VDCs -> Lives] /\ making \in [VDCs -> Makings]
    /\ named \subseteq VDCs /\ finished \subseteq named
    /\ SubnetsDisjoint /\ ChosenIsFree
    /\ \A v \in finished : v \notin one.vdc => Unnetworked(v)
    /\ \A v \in finished : vdcOrder[v] \in {"OK", "terminating", "TERMINATED"}
    /\ \A v \in finished : vdcOrder[v] = "TERMINATED" => v \notin one.vdc
    /\ \A v \in VDCs : making[v].at = "net" => vdcOrder[v] = "creating" /\ v \in one.vdc
=============================================================================
