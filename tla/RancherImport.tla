---------------------------- MODULE RancherImport ----------------------------
(***************************************************************************)
(* The import of Rancher projects that exist already (plugins/             *)
(* rancher-kc-crd, import_existing.py), on one cluster: `inventory` writes *)
(* the projects and the people behind their bindings to a file, `apply     *)
(* --execute` turns the file into ResourceProjects and roles, maybe much   *)
(* later and maybe more than once.                                         *)
(***************************************************************************)
EXTENDS Integers, FiniteSets, Sequences

CONSTANTS Projects,         \* ids of Rancher projects
          Titles,           \* names a project may have
          Holders,          \* people with bindings
          MaxImportEdits,   \* bound: changes in Rancher, new Waldur users
          MaxImportFaults   \* bound: calls to Waldur that fail, interruptions

VARIABLES ranch,      \* Rancher: name and people of each project
          imported,   \* Waldur: the ResourceProjects, in the order they came
          waldurUsers,\* people with an active Waldur account
          inventory,  \* the file: what ranch was
          listing,    \* ResourceProjects as the running apply read them
          todo,       \* projects it has still to do
          importEdits, importFaults

ivars == <<ranch, imported, waldurUsers, inventory, listing, todo, importEdits, importFaults>>
NoProject == [name |-> "-", people |-> {}]

ImportTypeOK ==
    /\ \A p \in Projects : ranch[p].name \in Titles \cup {"-"} /\ ranch[p].people \subseteq Holders
    /\ \A k \in DOMAIN imported : /\ imported[k].name \in Titles /\ imported[k].link \in Projects \cup {"-"}
                                  /\ imported[k].team \subseteq waldurUsers
    /\ todo \subseteq Projects

ImportInit ==
    /\ ranch = [p \in Projects |-> NoProject] /\ imported = <<>> /\ waldurUsers = {}
    /\ inventory = ranch /\ listing = <<>> /\ todo = {} /\ importEdits = 0 /\ importFaults = 0

ImportBroken == importFaults < MaxImportFaults /\ importFaults' = importFaults + 1

\* projects are made and renamed, people bound and unbound, and accounts made
RancherEdit ==
    /\ importEdits < MaxImportEdits /\ importEdits' = importEdits + 1
    /\ \/ \E p \in Projects, n \in Titles : ranch[p].name # n /\ ranch' = [ranch EXCEPT ![p].name = n] /\ UNCHANGED waldurUsers
       \/ \E p \in Projects, u \in Holders : /\ ranch[p].name # "-" /\ UNCHANGED waldurUsers
                                             /\ ranch' = [ranch EXCEPT ![p].people = (@ \cup {u}) \ (@ \cap {u})]
       \/ \E u \in Holders \ waldurUsers : waldurUsers' = waldurUsers \cup {u} /\ UNCHANGED ranch
    /\ UNCHANGED <<imported, inventory, listing, todo, importFaults>>

\* cmd_inventory: projects, bindings and the people behind them
CmdInventory ==
    /\ inventory # ranch /\ todo = {} /\ inventory' = ranch
    /\ UNCHANGED <<ranch, imported, waldurUsers, listing, todo, importEdits, importFaults>>

\* a name that several projects of the inventory share
DuplicateName(p) == \E q \in Projects \ {p} : inventory[q].name = inventory[p].name

\* cmd_apply, import_cluster: the ResourceProjects are listed once
CmdApply ==
    /\ todo = {} /\ todo' = {p \in Projects : inventory[p].name # "-"} /\ listing' = imported
    /\ UNCHANGED <<ranch, imported, waldurUsers, inventory, importEdits, importFaults>>

\* by_backend_id first, by_name then
Lookup(p) ==
    LET linked == {k \in DOMAIN listing : listing[k].link = p}
    IN IF linked # {} THEN linked ELSE {k \in DOMAIN listing : listing[k].name = inventory[p].name}

\* resolve_user: people without an active account are skipped
Grants(p) == inventory[p].people \cap waldurUsers

\* _apply_grants: those missing are added, one call each
ApplyGrants(x, p, done) == [x EXCEPT !.team = @ \cup done]

\* _record_backend_id: where the ResourceProject has none
RecordBackendId(x, p) == [x EXCEPT !.link = IF @ = "-" THEN p ELSE @]

\* import_cluster on a project that has its ResourceProject
ImportExisting(p) ==
    /\ p \in todo /\ ~DuplicateName(p) /\ todo' = todo \ {p}
    /\ \E k \in Lookup(p) :
          /\ listing[k].name = inventory[p].name
          /\ \/ /\ imported' = [imported EXCEPT ![k] = ApplyGrants(RecordBackendId(@, p), p, Grants(p))]
                /\ UNCHANGED importFaults
             \/ \E done \in SUBSET Grants(p), linked \in BOOLEAN :
                   /\ imported' = [imported EXCEPT ![k] = ApplyGrants(IF linked THEN RecordBackendId(@, p) ELSE @, p, done)]
                   /\ ImportBroken
    /\ UNCHANGED <<ranch, waldurUsers, inventory, listing, importEdits>>

\* _create_project, then the link and the grants; each call may fail
CreateProject(p) ==
    /\ p \in todo /\ ~DuplicateName(p) /\ Lookup(p) = {} /\ todo' = todo \ {p}
    /\ LET new == [name |-> inventory[p].name, link |-> "-", team |-> {}] IN
       \/ imported' = Append(imported, ApplyGrants(RecordBackendId(new, p), p, Grants(p))) /\ UNCHANGED importFaults
       \/ \E done \in SUBSET Grants(p), linked \in BOOLEAN :
             /\ imported' = Append(imported, ApplyGrants(IF linked THEN RecordBackendId(new, p) ELSE new, p, done))
             /\ ImportBroken
       \/ UNCHANGED imported /\ ImportBroken
    /\ UNCHANGED <<ranch, waldurUsers, inventory, listing, importEdits>>

\* a shared name, and a project linked under another name, are skipped
SkipProject(p) ==
    /\ p \in todo /\ todo' = todo \ {p}
    /\ DuplicateName(p) \/ \E k \in Lookup(p) : listing[k].name # inventory[p].name
    /\ UNCHANGED <<ranch, imported, waldurUsers, inventory, listing, importEdits, importFaults>>

\* the command is interrupted
Interrupted ==
    /\ todo # {} /\ todo' = {} /\ ImportBroken
    /\ UNCHANGED <<ranch, imported, waldurUsers, inventory, listing, importEdits>>

ImportStep == \E p \in Projects : ImportExisting(p) \/ CreateProject(p) \/ SkipProject(p)
ImportNext == RancherEdit \/ CmdInventory \/ CmdApply \/ ImportStep \/ Interrupted

(***************************************************************************)
(* Properties.                                                             *)
(***************************************************************************)
\* No two ResourceProjects carry the same name or the same Rancher project,
\* however often the import ran and failed, and whatever was renamed in
\* between: two CRs would then drive one project (import_cluster).
NoTwins ==
    \A j, k \in DOMAIN imported : j # k =>
        imported[j].name # imported[k].name /\ (imported[j].link # "-" => imported[j].link # imported[k].link)

\* A run leaves the ResourceProjects of earlier runs as they are: a link that
\* was recorded stays, and nobody loses a role (_record_backend_id,
\* _apply_grants).
ImportKeeps ==
    \A k \in DOMAIN imported : /\ imported[k].link # "-" => imported'[k].link = imported[k].link
                               /\ imported[k].team \subseteq imported'[k].team

\* Running both commands again finishes what a run left undone: every project
\* with a name of its own that no other name holds has its ResourceProject,
\* with a role for everybody bound to it who has an account.
ImportComplete ==
    \A p \in Projects : LET n == ranch[p].name IN
      \/ n = "-" \/ \E q \in Projects \ {p} : ranch[q].name = n
      \/ \E k \in DOMAIN imported : imported[k].link = p /\ imported[k].name # n
      \/ \E k \in DOMAIN imported : imported[k].name = n /\ ranch[p].people \cap waldurUsers \subseteq imported[k].team

(***************************************************************************)
(* What makes NoTwins inductive.  While an apply runs, its listing is what *)
(* was there when it began: names are not changed, a link that was listed  *)
(* stays, a project still to do is linked only where it was listed, and a  *)
(* ResourceProject that was not listed has the name of a project already   *)
(* done, which no other project of the inventory has.                      *)
(***************************************************************************)
ImportParameters == "-" \notin Projects

ResourceProjects == [name : Titles, link : Projects \cup {"-"}, team : SUBSET Holders]

Underway ==
    /\ Len(listing) <= Len(imported)
    /\ \A k \in 1 .. Len(listing) :
          /\ imported[k].name = listing[k].name
          /\ listing[k].link # "-" => imported[k].link = listing[k].link
    /\ \A k \in 1 .. Len(imported) :
          imported[k].link \in todo => k <= Len(listing) /\ listing[k].link = imported[k].link
    /\ \A k \in (Len(listing) + 1) .. Len(imported) : \E q \in Projects \ todo :
          ~DuplicateName(q) /\ imported[k].name = inventory[q].name

ImportInv ==
    /\ ranch \in [Projects -> [name : Titles \cup {"-"}, people : SUBSET Holders]]
    /\ inventory \in [Projects -> [name : Titles \cup {"-"}, people : SUBSET Holders]]
    /\ imported \in Seq(ResourceProjects) /\ listing \in Seq(ResourceProjects)
    /\ todo \subseteq {p \in Projects : inventory[p].name # "-"}
    /\ todo # {} => Underway
    /\ NoTwins
=============================================================================
