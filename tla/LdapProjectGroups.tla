-------------------------- MODULE LdapProjectGroups --------------------------
(***************************************************************************)
(* Project groups in LDAP: the timer that turns project group events into  *)
(* passes, the lock that serialises the passes of an offering, and the     *)
(* ProjectGroupReconciler, one directory operation per step, next to a      *)
(* sibling offering's agent that writes the same groups.                    *)
(*                                                                          *)
(* Left out: the organization description, a name held by a posixGroup      *)
(* elsewhere (it refuses a creation like a held GID does), groups without a *)
(* name and groups listed twice.                                            *)
(***************************************************************************)
EXTENDS Integers, FiniteSets

CONSTANTS
    Groups, Users,
    Gid,          \* the GID Waldur allocates to each group
    Foreign,      \* GIDs held by entries outside the project OU
    HandMade,     \* groups under the project OU that Waldur does not list
    Adopt,        \* on_gid_mismatch is "adopt"
    MaxChanges, MaxFaults, MaxWaiting   \* bounds: changes, failures, waiting passes

GroupParameters ==
    /\ HandMade \subseteq Groups /\ {"standin", "parent"} \cap Groups = {}
    /\ Gid \in [Groups -> Nat \ {0}]
    /\ Foreign \subseteq Nat
    /\ Adopt \in BOOLEAN
    /\ {MaxChanges, MaxFaults, MaxWaiting} \subseteq Nat

None == [gid |-> 0, members |-> {}]
Standin == "standin"       \* empty_group_member_dn
Gids == {0} \cup {Gid[g] : g \in Groups}

VARIABLES
    waldur,     \* what Waldur lists: gid (0 for none), members, used on the offering
    entry,      \* the entries under the project OU
    parent,     \* the members of the parent entry, a groupOfNames
    people,     \* users whose account has an entry the account pass vouches for
    mail,       \* an event not handled yet
    pending,    \* a timer in _project_group_timers
    ready,      \* _FULL_ACCOUNT_PASS_DONE
    waiting,    \* passes waiting for the offering's lock
    pc,         \* the pass that has the lock
    snap,       \* its listing and its reads of the directory
    todo, managed, untouchable,
    job,        \* the modify at hand: its target and what to add and to remove
    changes, faults,
    unread,     \* history: Waldur changed and no pass has read it since
    owed,       \* history: reading failed, was deferred or the agent restarted
    unwanted    \* history: groups that were not wanted in the parent at some time,
                \* or not written because their GID was held

dir == <<entry, parent, people>>
pass == <<pc, snap, todo, managed, untouchable, job>>
gvars == <<waldur, dir, mail, pending, ready, waiting, pass, changes, faults,
           unread, owed, unwanted>>

Listed == Groups \ HandMade
Row == [gid : Gids, members : SUBSET Users, used : BOOLEAN]
Wanted(w, g) == g \in Listed /\ w[g].gid # 0 /\ w[g].used

GroupTypeOK ==
    /\ waldur \in [Listed -> Row]
    /\ entry \in [Groups -> [gid : Gids, members : SUBSET Users]]
    /\ parent \subseteq Groups \cup {Standin} /\ parent # {}
    /\ people \subseteq Users
    /\ {mail, pending, ready, unread, owed} \subseteq BOOLEAN
    /\ waiting \in 0..MaxWaiting
    /\ pc \in {"idle", "read", "groups", "gid", "modify", "again", "parent"}
    /\ todo \subseteq Listed /\ managed \subseteq Listed /\ untouchable \subseteq Listed
    /\ changes \in 0..MaxChanges /\ faults \in 0..MaxFaults

NoSnap == [waldur |-> <<>>, entry |-> <<>>, people |-> {}]
NoJob == [target |-> "none", add |-> {}, remove |-> {}]

\* Whatever the directory holds: entries of earlier passes or made by hand.
GroupInit ==
    /\ waldur \in [Listed -> Row]
    /\ \A g \in Listed : waldur[g].gid \in {0, Gid[g]}
    /\ entry \in [Groups -> {None} \cup [gid : Gids \ {0}, members : SUBSET Users]]
    /\ \A g \in HandMade : entry[g] # None
    /\ parent \in {{Standin}} \cup ((SUBSET Groups) \ {{}})
    /\ \A g \in parent \ {Standin} : entry[g] # None
    /\ people = Users
    /\ mail = FALSE /\ pending = FALSE /\ ready = FALSE /\ waiting = 0
    /\ pc = "idle" /\ snap = NoSnap /\ job = NoJob
    /\ todo = {} /\ managed = {} /\ untouchable = {}
    /\ changes = 0 /\ faults = 0
    /\ unread = FALSE /\ owed = TRUE
    /\ unwanted = {g \in Listed : ~Wanted(waldur, g)}

-----------------------------------------------------------------------------
(* Waldur, the sibling agent and the account pass.                           *)

\* A membership, a resource or an allocation changes, and an event is sent.
Change(g, r) ==
    /\ changes < MaxChanges
    /\ r # waldur[g] /\ r.gid \in {waldur[g].gid, Gid[g]}
    /\ waldur' = [waldur EXCEPT ![g] = r]
    /\ changes' = changes + 1
    /\ mail' = TRUE /\ unread' = TRUE
    /\ unwanted' = unwanted \cup {h \in Listed : ~Wanted(waldur', h)}
    /\ UNCHANGED <<dir, pending, ready, waiting, pass, faults, owed>>

Free(e, g) == Gid[g] \notin Foreign /\ \A h \in Groups \ {g} : e[h].gid # Gid[g]

\* The sibling writes a group as Waldur has it now, or lists it in the parent.
Sibling(g) ==
    /\ waldur[g].gid # 0
    /\ \/ /\ entry[g] = None /\ Free(entry, g)
          /\ entry' = [entry EXCEPT ![g] = [gid |-> Gid[g], members |-> waldur[g].members \cap people]]
          /\ UNCHANGED parent
       \/ /\ entry[g] # None /\ entry[g].members # waldur[g].members \cap people
          /\ entry' = [entry EXCEPT ![g].members = waldur[g].members \cap people]
          /\ UNCHANGED parent
       \/ /\ entry[g] # None /\ waldur[g].used /\ g \notin parent
          /\ parent' = parent \cup {g}
          /\ UNCHANGED entry
    /\ UNCHANGED <<waldur, people, mail, pending, ready, waiting, pass,
                   changes, faults, unread, owed, unwanted>>

-----------------------------------------------------------------------------
(* Events, timers and the lock.                                              *)

\* Mutant: the marker stays until the pass is over and absorbs the event.
OnEventAbsorbed ==
    /\ mail
    /\ mail' = FALSE
    /\ pending' = (pending \/ pc = "idle")
    /\ UNCHANGED <<waldur, dir, ready, waiting, pass, changes, faults, unread, owed, unwanted>>

\* on_project_group_message_stomp and schedule_project_group_reconcile: the
\* first event schedules a pass, later ones ride along.
OnEvent ==
    /\ mail
    /\ mail' = FALSE
    /\ pending' = TRUE
    /\ UNCHANGED <<waldur, dir, ready, waiting, pass, changes, faults, unread, owed, unwanted>>

\* run_project_group_reconcile: the marker is cleared first.  Before the first
\* complete account pass the pass is deferred to the periodic one.
TimerFires ==
    /\ pending /\ waiting < MaxWaiting
    /\ pending' = FALSE
    /\ IF ready THEN waiting' = waiting + 1 /\ UNCHANGED owed
       ELSE owed' = TRUE /\ UNCHANGED waiting
    /\ UNCHANGED <<waldur, dir, mail, ready, pass, changes, faults, unread, unwanted>>

\* The periodic cycle: the account pass, and reconcile_offering when it is over.
\* An account pass that fails part-way defers the group passes.
Periodic(ok) ==
    /\ waiting < MaxWaiting
    /\ ~ok => faults < MaxFaults
    /\ ready' = ok
    /\ IF ok THEN waiting' = waiting + 1 /\ UNCHANGED <<owed, faults>>
       ELSE owed' = TRUE /\ faults' = faults + 1 /\ UNCHANGED waiting
    /\ UNCHANGED <<waldur, dir, mail, pending, pass, changes, unread, unwanted>>

\* The agent ends: timers and passes are lost.
AgentRestarts ==
    /\ faults < MaxFaults
    /\ faults' = faults + 1
    /\ pending' = FALSE /\ ready' = FALSE /\ waiting' = 0
    /\ pc' = "idle" /\ snap' = NoSnap /\ job' = NoJob
    /\ todo' = {} /\ managed' = {} /\ untouchable' = {}
    /\ owed' = TRUE
    /\ UNCHANGED <<waldur, dir, mail, changes, unread, unwanted>>

Lock ==
    /\ pc = "idle" /\ waiting > 0
    /\ waiting' = waiting - 1
    /\ pc' = "read"
    /\ UNCHANGED <<waldur, dir, mail, pending, ready, snap, todo, managed, untouchable, job,
                   changes, faults, unread, owed, unwanted>>

-----------------------------------------------------------------------------
(* One pass.                                                                 *)

EndPass ==
    /\ pc' = "idle" /\ snap' = NoSnap /\ job' = NoJob
    /\ todo' = {} /\ managed' = {} /\ untouchable' = {}

\* fetch_provider_project_groups and the bulk reads of run().
Fetch ==
    /\ pc = "read"
    /\ snap' = [waldur |-> waldur, entry |-> entry, people |-> people]
    /\ todo' = Listed
    /\ pc' = "groups"
    /\ unread' = FALSE /\ owed' = FALSE
    /\ UNCHANGED <<waldur, dir, mail, pending, ready, waiting, managed, untouchable, job,
                   changes, faults, unwanted>>

\* Waldur cannot be read, changed while it was read, or lists nothing.
FetchFails ==
    /\ pc = "read" /\ faults < MaxFaults
    /\ faults' = faults + 1 /\ owed' = TRUE
    /\ EndPass
    /\ UNCHANGED <<waldur, dir, mail, pending, ready, waiting, changes, unread, unwanted>>

\* The members a group is to have: those with an entry (_member_values).
Members(g) == snap.waldur[g].members \cap snap.people

\* Another entry holds the GID, as far as the pass knows.
Others(g) == ~Free(snap.entry, g)

\* _sync_members: from what was read of the group.
MemberJob(g, e) ==
    [target |-> g, add |-> Members(g) \ e.members, remove |-> e.members \ Members(g)]

\* _reconcile_group up to the members.
Created(g) ==
    /\ entry[g] = None /\ snap.entry[g] = None
    /\ entry' = [entry EXCEPT ![g] = [gid |-> Gid[g], members |-> Members(g)]]
    /\ snap' = [snap EXCEPT !.entry[g] = entry'[g]]
    /\ managed' = managed \cup {g}
    /\ UNCHANGED <<pc, job>>

\* An existing entry, or one created since the bulk read: its GID, then its
\* members.
Existing(g) ==
    LET e == IF snap.entry[g] = None THEN entry[g] ELSE snap.entry[g]
        renumber == e.gid # Gid[g] /\ Adopt /\ ~Others(g) IN
    /\ e # None
    /\ entry' = IF renumber THEN [entry EXCEPT ![g].gid = Gid[g]] ELSE entry
    /\ snap' = IF renumber THEN [snap EXCEPT !.entry[g].gid = Gid[g]] ELSE snap
    /\ managed' = managed \cup {g}
    /\ job' = MemberJob(g, e)
    /\ pc' = "modify"

\* No entry is made while another one holds the GID.
Refused(g) == snap.waldur[g].gid # 0 /\ snap.entry[g] = None /\ Others(g)

ReconcileGroup(g) ==
    /\ pc = "groups" /\ g \in todo
    /\ todo' = todo \ {g}
    /\ \/ /\ snap.waldur[g].gid = 0
          /\ untouchable' = untouchable \cup {g}
          /\ UNCHANGED <<entry, pc, snap, managed, job>>
       \/ /\ snap.waldur[g].gid # 0
          /\ \/ Refused(g) /\ UNCHANGED <<entry, pc, snap, managed, job>>
             \/ snap.entry[g] = None /\ ~Refused(g) /\ (Created(g) \/ Existing(g))
             \/ snap.entry[g] # None /\ Existing(g)
          /\ UNCHANGED untouchable
    /\ unwanted' = IF Refused(g) THEN unwanted \cup {g} ELSE unwanted
    /\ UNCHANGED <<waldur, parent, people, mail, pending, ready, waiting,
                   changes, faults, unread, owed>>

\* A failure says nothing about the group: it keeps its place in the parents.
GiveUp(g) == untouchable' = untouchable \cup {g}

\* The groups a parent may lose.
Removable == Listed \ untouchable

\* _reconcile_parent: the parent is read and the modify computed.
ReconcileParent ==
    /\ pc = "groups" /\ todo = {}
    /\ LET desired == {g \in managed : snap.waldur[g].used} IN
       job' = [target |-> "parent", add |-> desired \ parent,
               remove |-> (parent \ desired) \cap Removable]
    /\ pc' = "modify"
    /\ UNCHANGED <<waldur, dir, mail, pending, ready, waiting, snap, todo, managed, untouchable,
                   changes, faults, unread, owed, unwanted>>

Current(t) == IF t = "parent" THEN parent ELSE entry[t].members

\* The stand-in for a parent that would be empty.
ToAdd(j) ==
    IF j.target = "parent" /\ j.add = {} /\ j.remove # {} /\ parent \subseteq j.remove
    THEN {Standin} ELSE j.add

\* The directory refuses to add what is there, to remove what is not, and to
\* empty a groupOfNames.
Conflict(add, rem) == add \cap Current(job.target) # {} \/ ~(rem \subseteq Current(job.target))

Write(add, rem) ==
    IF job.target = "parent"
    THEN parent' = (parent \cup add) \ rem /\ UNCHANGED entry
    ELSE entry' = [entry EXCEPT ![job.target].members = (@ \cup add) \ rem] /\ UNCHANGED parent

AfterJob == IF job.target = "parent" THEN EndPass
            ELSE pc' = "groups" /\ job' = NoJob /\ UNCHANGED <<snap, todo, managed, untouchable>>

\* _modify_members; a conflict is tried once more with what is left to do.
ModifyMembers ==
    /\ pc = "modify"
    /\ LET add == ToAdd(job) IN
       IF Conflict(add, job.remove)
       THEN /\ pc' = "again"
            /\ job' = [job EXCEPT !.add = add \ Current(job.target),
                                  !.remove = job.remove \cap Current(job.target)]
            /\ UNCHANGED <<entry, parent, snap, todo, managed, untouchable>>
       ELSE Write(add, job.remove) /\ AfterJob
    /\ UNCHANGED <<waldur, people, mail, pending, ready, waiting,
                   changes, faults, unread, owed, unwanted>>

ModifyAgain ==
    /\ pc = "again"
    /\ IF Conflict(job.add, job.remove)
       THEN /\ IF job.target = "parent" THEN EndPass
               ELSE /\ GiveUp(job.target) /\ pc' = "groups" /\ job' = NoJob
                    /\ UNCHANGED <<snap, todo, managed>>
            /\ UNCHANGED <<entry, parent>>
       ELSE Write(job.add, job.remove) /\ AfterJob
    /\ UNCHANGED <<waldur, people, mail, pending, ready, waiting,
                   changes, faults, unread, owed, unwanted>>

\* A directory operation raises: the group is given up for this pass, and a
\* parent too.
OperationFails ==
    /\ faults < MaxFaults
    /\ faults' = faults + 1
    /\ \/ /\ pc \in {"modify", "again"} /\ job.target \in Groups
          /\ GiveUp(job.target) /\ pc' = "groups" /\ job' = NoJob
          /\ UNCHANGED <<snap, todo, managed>>
       \/ pc \in {"modify", "again"} /\ job.target = "parent" /\ EndPass
       \/ /\ pc = "groups"
          /\ \E g \in todo : todo' = todo \ {g} /\ GiveUp(g)
          /\ UNCHANGED <<pc, snap, managed, job>>
    /\ UNCHANGED <<waldur, dir, mail, pending, ready, waiting, changes, unread, owed, unwanted>>

PassStep == Lock \/ Fetch \/ (\E g \in Listed : ReconcileGroup(g)) \/ ReconcileParent
            \/ ModifyMembers \/ ModifyAgain

GroupNext ==
    \/ \E g \in Listed : \E r \in Row : Change(g, r)
    \/ \E g \in Listed : Sibling(g)
    \/ OnEvent \/ TimerFires \/ AgentRestarts \/ FetchFails \/ OperationFails
    \/ \E ok \in BOOLEAN : Periodic(ok)
    \/ PassStep

-----------------------------------------------------------------------------
\* No event is absorbed by a pass that may have read the listing before it: a
\* change no pass has read is announced by a message, a timer or a pass that
\* has yet to read, or the periodic cycle is to make up for a failure.
EventNotLost ==
    unread => mail \/ pending \/ waiting > 0 \/ pc = "read" \/ owed

\* A parent entry only loses groups that Waldur lists and that it did not want
\* there at some time, or that were not written because their GID was held:
\* neither a group that failed, nor one made by hand, nor the last one without a
\* stand-in.
ParentLosesOnlyUnwanted ==
    /\ \A g \in parent \ parent' : g \in unwanted
    /\ parent' # {}

\* No pass makes two groups share a GID, although the directory would let it.
Sharing(e) == {p \in Groups \X Groups : p[1] # p[2] /\ e[p[1]].gid # 0 /\ e[p[1]].gid = e[p[2]].gid}
NoNewSharing == Sharing(entry') \subseteq Sharing(entry)

\* Once Waldur stays as it is, the directory comes to agree with it, whatever
\* failed before: events bring a pass, and the periodic cycle repairs the rest.
Converged ==
    \A g \in Listed : waldur[g].gid # 0 =>
        IF entry[g] = None THEN ~Free(entry, g)
        ELSE /\ entry[g].members = waldur[g].members \cap people
             /\ g \in parent <=> waldur[g].used

-----------------------------------------------------------------------------
\* What makes EventNotLost and ParentLosesOnlyUnwanted inductive: a pass at work
\* has managed, given up or refused every group it has been through, and what it
\* is about to take from the parent was unwanted and leaves something there.
AtWork == pc \in {"groups", "modify", "again"}
AtParent == pc \in {"modify", "again"} /\ job.target = "parent"
GroupInv ==
    /\ EventNotLost
    /\ waiting \in Nat
    /\ waldur \in [Listed -> Row]
    /\ parent \subseteq Groups \cup {Standin} /\ parent # {}
    /\ managed \subseteq Listed
    /\ \A g \in Listed : ~Wanted(waldur, g) => g \in unwanted
    /\ AtWork => \A g \in Listed : ~Wanted(snap.waldur, g) => g \in unwanted
    /\ AtWork => \A g \in Listed \ todo : g \in managed \cup untouchable \cup unwanted
    /\ pc \in {"modify", "again"} => job.target \in Groups \cup {"parent"}
    /\ AtParent => /\ job.remove \subseteq unwanted \cap Listed
                   /\ job.add \subseteq Groups \cup {Standin}
                   /\ job.add \cap job.remove = {}
    /\ AtParent /\ pc = "again" => job.add # {} \/ ~(parent \subseteq job.remove)
==============================================================================
