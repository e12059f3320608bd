----------------------------- MODULE LdapAccounts -----------------------------
(***************************************************************************)
(* The account pass of the LDAP plugin with account_source "waldur": the    *)
(* bulk read, classify() and what is done about each account, and the       *)
(* rename of an entry in steps an interruption can resume.  Two writers run *)
(* at once: the periodic pass over all accounts and the pass an event       *)
(* starts for one.  An entry carries its uidNumber, the Waldur username     *)
(* stamped on it (its key) and the names of unfinished renames; all groups  *)
(* under groups_ou are one.                                                 *)
(*                                                                          *)
(* Left out: profile attributes, gidNumber (it drifts as uidNumber does),   *)
(* personal groups, mail, and parked entries, which OfferingUserTeardown    *)
(* has.                                                                     *)
(***************************************************************************)
EXTENDS Integers, FiniteSets

CONSTANTS
    Persons, Names, Keys,
    Writers,       \* the threads that run a pass: the periodic cycle and event handlers
    Uid,           \* the uidNumber Waldur assigned to each person
    Start,         \* the POSIX name and Waldur username of each person at first
    Policy,        \* on_posix_mismatch: "report", "adopt" or "fail"
    MaxChanges, MaxFaults, MaxTroubles  \* bounds: changes in Waldur, failures, both together

NoKey == "nokey"

AccountParameters ==
    /\ Uid \in [Persons -> Nat \ {0}]
    /\ \A p, q \in Persons : p # q => Uid[p] # Uid[q]
    /\ Start \in [Persons -> [name : Names, key : Keys]]
    /\ \A p, q \in Persons : p # q => Start[p].name # Start[q].name /\ Start[p].key # Start[q].key
    /\ NoKey \notin Keys
    /\ Policy \in {"report", "adopt", "fail"}
    /\ {MaxChanges, MaxFaults, MaxTroubles} \subseteq Nat

NoEntry == [uid |-> 0, key |-> NoKey, pending |-> {}]
Entries == [uid : {0} \cup {Uid[p] : p \in Persons}, key : Keys \cup {NoKey}, pending : SUBSET Names]

VARIABLES
    account,   \* Waldur: each person's POSIX name and Waldur username
    ldap,      \* the entries under people_ou
    access,    \* the names listed in groups
    proc,      \* the two account passes
    changes, faults,
    known,     \* history: persons with a stamped entry from the start
    overtaken, \* history: persons Waldur changed while a pass was at work, with a
               \* rename of theirs unfinished, or to the Waldur username another
               \* person's entry still carries
    held,      \* history: the names accounts have had in Waldur
    heirs      \* history: persons given a name that someone had before

history == <<known, overtaken, held, heirs>>
avars == <<account, ldap, access, proc, changes, faults, history>>

Desired(p) == [person |-> p, name |-> account[p].name, uid |-> Uid[p], key |-> account[p].key]
Idle == [pc |-> "idle", phase |-> "accounts", work |-> {}, dir |-> <<>>,
         keys |-> {}, me |-> <<>>, old |-> <<>>]

AccountTypeOK ==
    /\ account \in [Persons -> [name : Names, key : Keys]]
    /\ ldap \in [Names -> Entries]
    /\ access \subseteq Names
    /\ \A w \in Writers : proc[w].pc \in {"idle", "next", "apply", "add", "grant",
            "reread", "mark", "join", "modrdn", "check", "leave", "clear"}
    /\ changes \in 0..MaxChanges /\ faults \in 0..MaxFaults

\* Every person has the name and the key Waldur gives them; entries are theirs,
\* stamped or not, with access, or there is none yet.
AccountInit ==
    /\ account = Start
    /\ \E there \in SUBSET Persons : \E stamped \in SUBSET there :
         /\ ldap = [n \in Names |->
                    IF \E p \in there : account[p].name = n
                    THEN LET p == CHOOSE p \in there : account[p].name = n IN
                         [uid |-> Uid[p], key |-> IF p \in stamped THEN account[p].key ELSE NoKey,
                          pending |-> {}]
                    ELSE NoEntry]
         /\ known = stamped
    /\ access = {n \in Names : ldap[n] # NoEntry}
    /\ overtaken = {}
    /\ held = {Start[p].name : p \in Persons} /\ heirs = {}
    /\ proc = [w \in Writers |-> Idle]
    /\ changes = 0 /\ faults = 0

-----------------------------------------------------------------------------
(* Waldur.                                                                   *)

\* The POSIX name or the Waldur username of a person changes.
ChangeAccount(p, r) ==
    /\ changes < MaxChanges /\ changes + faults < MaxTroubles
    /\ r # account[p] /\ (r.name = account[p].name \/ r.key = account[p].key)
    /\ \A q \in Persons \ {p} : r.name # account[q].name /\ r.key # account[q].key
    /\ account' = [account EXCEPT ![p] = r]
    /\ changes' = changes + 1
    /\ overtaken' = IF \/ \E w \in Writers : proc[w].pc # "idle"
                       \/ \E n \in Names : ldap[n].uid = Uid[p] /\ ldap[n].pending # {}
                       \/ \E n \in Names : ldap[n].uid # Uid[p] /\ ldap[n].key = r.key
                    THEN overtaken \cup {p} ELSE overtaken
    /\ held' = held \cup {r.name}
    /\ heirs' = IF r.name # account[p].name /\ r.name \in held THEN heirs \cup {p} ELSE heirs
    /\ UNCHANGED <<ldap, access, proc, faults, known>>

-----------------------------------------------------------------------------
(* classify(), over the directory a pass has in memory.                      *)

KeyOwners(dir, d) == {n \in Names : dir[n] # NoEntry /\ dir[n].key = d.key}
UidTaken(dir, d) == \E n \in Names \ {d.name} : dir[n] # NoEntry /\ dir[n].uid = d.uid

\* rename_refusal: the one entry with the person's key and uidNumber.
RenameFrom(dir, d) ==
    IF Cardinality(KeyOwners(dir, d)) = 1
    THEN {n \in KeyOwners(dir, d) : dir[n].uid = d.uid} ELSE {}

\* With no entry under the wanted name.
Missing(dir, d) ==
    IF KeyOwners(dir, d) \ {d.name} # {} \/ UidTaken(dir, d)
    THEN IF RenameFrom(dir, d) # {} THEN "rename" ELSE "uid_taken"
    ELSE "create"

\* The entry carries another person's key.
KeyConflict(dir, d, keys) ==
    LET e == dir[d.name] IN
    e.key # NoKey /\ e.key # d.key /\ ~(e.uid = d.uid /\ e.key \notin keys)

\* The key is written where there is none, or over one no account has any more,
\* and never as a second copy.
Stamps(dir, d) == dir[d.name].key # d.key /\ KeyOwners(dir, d) \ {d.name} = {}

Present(dir, d, keys) ==
    CASE KeyConflict(dir, d, keys) -> "key_conflict"
      [] ~KeyConflict(dir, d, keys) /\ dir[d.name].uid # d.uid ->
            IF UidTaken(dir, d) THEN "uid_taken" ELSE "drift"
      [] OTHER -> IF Stamps(dir, d) THEN "update" ELSE "noop"

Classify(dir, d, keys) ==
    IF dir[d.name] = NoEntry THEN Missing(dir, d) ELSE Present(dir, d, keys)

-----------------------------------------------------------------------------
(* A pass.                                                                   *)

Set(w, r) == proc' = [proc EXCEPT ![w] = r]
Done(r) == [r EXCEPT !.pc = "next", !.me = <<>>, !.old = <<>>]
Goto(w, pc) == Set(w, [proc[w] EXCEPT !.pc = pc])

\* The accounts of the batch and, in bulk, the directory; an event names one
\* account.
BeginPass(w, batch) ==
    /\ proc[w].pc = "idle"
    /\ IF w = "cycle" THEN batch = Persons ELSE Cardinality(batch) = 1
    /\ Set(w, [Idle EXCEPT !.pc = "next", !.work = {Desired(p) : p \in batch}, !.dir = ldap,
                           !.keys = {account[p].key : p \in batch}])
    /\ UNCHANGED <<account, ldap, access, changes, faults, history>>

\* What _apply does next about an account, by its classification.
Outcome(r, d) ==
    LET o == Classify(r.dir, d, r.keys) IN
    CASE o = "rename" -> "reread"
      [] o = "create" -> "add"
      [] o = "update" \/ (o = "drift" /\ Policy = "adopt") -> "apply"
      [] OTHER -> "next"

\* _reconcile_accounts: the renames first, then the others, classified again.
NextAccount(w) ==
    /\ proc[w].pc = "next" /\ proc[w].phase # "end"
    /\ LET r == proc[w]
           renames == {d \in r.work : Outcome(r, d) = "reread"} IN
       \E d \in IF renames # {} THEN renames ELSE r.work :
          LET s == [r EXCEPT !.work = @ \ {d}, !.me = d, !.pc = Outcome(r, d)] IN
          Set(w, IF d \in renames THEN [s EXCEPT !.old = CHOOSE n \in RenameFrom(r.dir, d) : TRUE]
                 ELSE IF s.pc = "next" THEN [s EXCEPT !.me = <<>>] ELSE s)
    /\ UNCHANGED <<account, ldap, access, changes, faults, history>>

\* _apply and _apply_drift: the Waldur username or the uidNumber is written.
Apply(w) ==
    /\ proc[w].pc = "apply"
    /\ LET r == proc[w]
           d == r.me
           change(e) == IF Classify(r.dir, d, r.keys) = "drift" THEN [e EXCEPT !.uid = d.uid]
                        ELSE [e EXCEPT !.key = d.key] IN
       /\ ldap[d.name] # NoEntry
       /\ ldap' = [ldap EXCEPT ![d.name] = change(@)]
       /\ Set(w, Done([r EXCEPT !.dir[d.name] = change(@)]))
    /\ UNCHANGED <<account, access, changes, faults, history>>

\* create_user_with_ids; when another writer was faster, its entry is read and
\* the account classified against it.
AddEntry(w) ==
    /\ proc[w].pc = "add"
    /\ LET r == proc[w]
           d == r.me
           e == [uid |-> d.uid, key |-> d.key, pending |-> {}] IN
       IF ldap[d.name] = NoEntry
       THEN /\ ldap' = [ldap EXCEPT ![d.name] = e]
            /\ Set(w, [r EXCEPT !.pc = "grant", !.dir[d.name] = e])
       ELSE /\ Set(w, Done([r EXCEPT !.work = @ \cup {d}, !.dir[d.name] = ldap[d.name]]))
            /\ UNCHANGED ldap
    /\ UNCHANGED <<account, access, changes, faults, history>>

Grant(w) ==
    /\ proc[w].pc = "grant"
    /\ access' = access \cup {proc[w].me.name}
    /\ Set(w, Done(proc[w]))
    /\ UNCHANGED <<account, ldap, changes, faults, history>>

-----------------------------------------------------------------------------
(* _rename.                                                                  *)

\* _is_this_account
IsThisAccount(e, d) == e # NoEntry /\ e.uid = d.uid /\ e.key = d.key

\* _renamed_in_memory
Moved(r, e) == [r EXCEPT !.dir = [r.dir EXCEPT ![r.old] = NoEntry, ![r.me.name] = e]]

\* The old entry is read again; another writer may have renamed it.
Reread(w) ==
    /\ proc[w].pc = "reread"
    /\ LET r == proc[w] IN
       \/ IsThisAccount(ldap[r.old], r.me) /\ Goto(w, "mark")
       \/ /\ ldap[r.old] = NoEntry /\ IsThisAccount(ldap[r.me.name], r.me)
          /\ Set(w, [Moved(r, ldap[r.me.name]) EXCEPT !.pc = "check"])
    /\ UNCHANGED <<account, ldap, access, changes, faults, history>>

\* Step (i): the record of the rename, then the memberships of the new name.
Mark(w) ==
    /\ proc[w].pc = "mark" /\ ldap[proc[w].old] # NoEntry
    /\ ldap' = [ldap EXCEPT ![proc[w].old].pending = @ \cup {proc[w].old}]
    /\ Goto(w, "join")
    /\ UNCHANGED <<account, access, changes, faults, history>>

\* Mutant: the memberships are copied after the entry was moved, if at all.
JoinNothing(w) ==
    /\ proc[w].pc = "join"
    /\ Goto(w, "modrdn")
    /\ UNCHANGED <<account, ldap, access, changes, faults, history>>

Join(w) ==
    /\ proc[w].pc = "join"
    /\ access' = IF proc[w].old \in access THEN access \cup {proc[w].me.name} ELSE access
    /\ Goto(w, "modrdn")
    /\ UNCHANGED <<account, ldap, changes, faults, history>>

\* Step (ii)
Modrdn(w) ==
    /\ proc[w].pc = "modrdn"
    /\ LET r == proc[w]
           new == r.me.name IN
       \/ /\ ldap[r.old] # NoEntry /\ ldap[new] = NoEntry
          /\ ldap' = [ldap EXCEPT ![new] = ldap[r.old], ![r.old] = NoEntry]
          /\ Set(w, [Moved(r, [r.dir[r.old] EXCEPT !.pending = {}]) EXCEPT !.pc = "check"])
       \/ /\ ldap[r.old] = NoEntry \/ ldap[new] # NoEntry
          /\ IsThisAccount(ldap[new], r.me)
          /\ Set(w, [Moved(r, ldap[new]) EXCEPT !.pc = "check"])
          /\ UNCHANGED ldap
    /\ UNCHANGED <<account, access, changes, faults, history>>

\* Step (iii), _finish_rename: is the old name taken again?
CheckOld(w) ==
    /\ proc[w].pc = "check"
    /\ Goto(w, IF ldap[proc[w].old] = NoEntry THEN "leave" ELSE "clear")
    /\ UNCHANGED <<account, ldap, access, changes, faults, history>>

Leave(w) ==
    /\ proc[w].pc = "leave"
    /\ access' = access \ {proc[w].old}
    /\ Goto(w, "clear")
    /\ UNCHANGED <<account, ldap, changes, faults, history>>

ClearRecord(w) ==
    /\ proc[w].pc = "clear" /\ ldap[proc[w].me.name] # NoEntry
    /\ ldap' = [ldap EXCEPT ![proc[w].me.name].pending = @ \ {proc[w].old}]
    /\ Set(w, Done([proc[w] EXCEPT !.work = IF proc[w].phase = "end" THEN {} ELSE @ \cup {proc[w].me}]))
    /\ UNCHANGED <<account, access, changes, faults, history>>

\* Mutant: an entry that has the name Waldur wants is taken to be finished.
UnfinishedNever(dir) == {}

\* _finish_pending_renames, once all accounts are done: what an earlier pass
\* left, as the bulk read had it.
Unfinished(dir) == {r \in Names \X Names : r[1] # r[2] /\ r[2] \in dir[r[1]].pending}

FinishPending(w) ==
    /\ proc[w].pc = "next" /\ proc[w].work = {}
    /\ LET r == proc[w] IN
       IF Unfinished(r.dir) = {} THEN Set(w, Idle)
       ELSE \E u \in Unfinished(r.dir) :
              Set(w, [r EXCEPT !.pc = "check", !.phase = "end", !.old = u[2],
                               !.me = [person |-> "any", name |-> u[1], uid |-> 0, key |-> NoKey],
                               !.dir[u[1]].pending = @ \ {u[2]}])
    /\ UNCHANGED <<account, ldap, access, changes, faults, history>>

-----------------------------------------------------------------------------
MayFault == faults < MaxFaults /\ changes + faults < MaxTroubles

\* An operation raises BackendError: the account is left for the next cycle.
\* Some do for what another writer did, others for a fault of the directory.
Raises(w) ==
    LET r == proc[w] IN
    \/ r.pc = "apply" /\ ldap[r.me.name] = NoEntry
    \/ /\ r.pc = "reread" /\ ~IsThisAccount(ldap[r.old], r.me)
       /\ ~(ldap[r.old] = NoEntry /\ IsThisAccount(ldap[r.me.name], r.me))
    \/ r.pc = "mark" /\ ldap[r.old] = NoEntry
    \/ /\ r.pc = "modrdn" /\ (ldap[r.old] = NoEntry \/ ldap[r.me.name] # NoEntry)
       /\ ~IsThisAccount(ldap[r.me.name], r.me)
    \/ r.pc = "clear" /\ ldap[r.me.name] = NoEntry

AccountFails(w) ==
    /\ proc[w].pc \notin {"idle", "next"}
    /\ Raises(w) \/ MayFault
    /\ faults' = IF Raises(w) THEN faults ELSE faults + 1
    /\ Set(w, Done(proc[w]))
    /\ UNCHANGED <<account, ldap, access, changes, history>>

\* The agent ends in the middle.
PassesLost ==
    /\ MayFault
    /\ faults' = faults + 1
    /\ proc' = [w \in Writers |-> Idle]
    /\ UNCHANGED <<account, ldap, access, changes, history>>

Step(w) == NextAccount(w) \/ Apply(w) \/ AddEntry(w) \/ Grant(w) \/ Reread(w) \/ Mark(w)
           \/ Join(w) \/ Modrdn(w) \/ CheckOld(w) \/ Leave(w) \/ ClearRecord(w) \/ FinishPending(w)

AccountNext ==
    \/ \E p \in Persons : \E r \in [name : Names, key : Keys] : ChangeAccount(p, r)
    \/ \E w \in Writers : \E b \in SUBSET Persons : BeginPass(w, b)
    \/ \E w \in Writers : Step(w) \/ AccountFails(w)
    \/ PassesLost

-----------------------------------------------------------------------------
Own(p) == {n \in Names : ldap[n].uid = Uid[p]}

\* A rename never costs access: the entry of a person who had one is listed in
\* the groups under the name it has, at every moment of the rename, whatever
\* fails and whoever renames it too.  Exempt is a person given a name for the
\* second time: that nobody has it, and the removal of its memberships, are two
\* operations of an unfinished rename.  Where a person was overtaken nothing is
\* promised, to others neither: their entries may stand in the way.
AccessKept == overtaken = {} => \A p \in known \ heirs : Own(p) \subseteq access

\* A person never has two entries: a rename moves the entry, and no pass creates
\* one next to it.
OneEntryPerPerson == overtaken = {} => \A p \in Persons : \A m, n \in Own(p) : m = n

\* An entry stamped with a person's Waldur username is never renumbered for an
\* account that gets its name, not even by the "adopt" policy.
StampedKeepsUid ==
    \A n \in Names : ldap[n].key # NoKey /\ ldap'[n] # NoEntry =>
            overtaken # {} \/ ldap'[n].uid = ldap[n].uid

\* Once Waldur stays as it is, no name without an entry stays in the groups, so
\* nobody who gets the name later gets its access; but for a person
\* renamed under a pass that is at work or before the last rename was done.
AccessHasEntry == overtaken # {} \/ \A n \in access : ldap[n] # NoEntry

-----------------------------------------------------------------------------
(* What makes these inductive, as long as nobody is overtaken.               *)

Wishes == [person : Persons \cup {"any"}, name : Names, uid : {0} \cup {Uid[p] : p \in Persons},
           key : Keys \cup {NoKey}]
Passes == [pc : {"idle", "next", "apply", "add", "grant", "reread", "mark", "join", "modrdn",
                 "check", "leave", "clear"},
           phase : {"accounts", "end"}, work : SUBSET Wishes, dir : [Names -> Entries] \cup {<<>>},
           keys : SUBSET Keys, me : Wishes \cup {<<>>}, old : Names \cup {<<>>}]
AccountTypes ==
    /\ account \in [Persons -> [name : Names, key : Keys]]
    /\ ldap \in [Names -> Entries] /\ access \subseteq Names
    /\ known \subseteq Persons
    /\ proc \in [Writers -> Passes]
    /\ \A w \in Writers : proc[w].pc # "idle" => proc[w].dir \in [Names -> Entries]

\* Names and Waldur usernames are of one person each, and what a name was ever used
\* for is known.
Distinct ==
    /\ \A p, q \in Persons : account[p].name = account[q].name => p = q
    /\ \A p, q \in Persons : account[p].key = account[q].key => p = q
    /\ \A p \in Persons : account[p].name \in held

\* The directory, or what a pass has of it: entries are under names that were held,
\* and who has the name of an entry of another, or of an unfinished rename, is an heir.
Traced(d) ==
    /\ \A n \in Names : d[n] # NoEntry => d[n].uid # 0 /\ n \in held
    /\ \A n \in Names : d[n].pending \subseteq held
    /\ \A p \in Persons : d[account[p].name].uid \notin {0, Uid[p]} => p \in heirs
    /\ \A p \in Persons, n \in Names : account[p].name \in d[n].pending => p \in heirs

\* One entry per uidNumber; who carries the Waldur username of a person has the
\* uidNumber; the stamped entry of a known person stays stamped.
Sound ==
    /\ \A m, n \in Names : ldap[m].uid # 0 /\ ldap[m].uid = ldap[n].uid => m = n
    /\ \A p \in Persons, n \in Names : ldap[n].key = account[p].key => ldap[n].uid = Uid[p]
    /\ \A p \in known : \E n \in Names : ldap[n].uid = Uid[p] /\ ldap[n].key # NoKey

Mine(n, p) == ldap[n].uid = Uid[p] /\ ldap[n].key = account[p].key

\* There is no entry of another person under the name.
Rightful(n) ==
    ldap[n].uid = 0 \/ \E p \in Persons : account[p].name = n /\ ldap[n].uid = Uid[p]

\* An entry that is not under its person's name is as the pass has read it.
Fresh(r) ==
    \A p \in Persons, n \in Names : ldap[n].uid = Uid[p] /\ n # account[p].name =>
        r.dir[n].uid = Uid[p] /\ r.dir[n].key = ldap[n].key

Leaving(r) == r.pc \in {"check", "leave", "clear"}
Moving(r) == r.pc \in {"mark", "join", "modrdn"}
Busy(r) == r.pc \in {"apply", "add", "grant", "reread"} \/ Moving(r)

\* A pass wants what Waldur has.
UpToDate(r) ==
    /\ r.phase = "end" => r.work = {} /\ ~Busy(r)
    /\ r.work \subseteq {Desired(p) : p \in Persons}
    /\ Busy(r) \/ (Leaving(r) /\ r.phase = "accounts")
          => \E p \in Persons : r.me = Desired(p)
    /\ Leaving(r) => r.me \in Wishes
    /\ r.pc \in {"apply", "add"} => Outcome(r, r.me) = r.pc

\* A rename: from an entry that was the person's when it was read, and is while it
\* has not been moved.  A name that is left is nobody's, or an heir's.
InRename(r) ==
    /\ r.pc = "reread" \/ Moving(r) =>
          /\ r.old # r.me.name
          /\ r.dir[r.old].uid = r.me.uid /\ r.dir[r.old].key = r.me.key
    /\ r.pc = "reread" \/ Moving(r) \/ Leaving(r) =>
          /\ r.old \in Names \cap held
          /\ \A p \in Persons : account[p].name = r.old => p \in heirs
    /\ Moving(r) => \A p \in Persons : r.me = Desired(p) => Mine(r.old, p) \/ Mine(r.me.name, p)
    /\ r.pc = "modrdn" => \A p \in known \ heirs : r.me = Desired(p) => r.me.name \in access
    /\ r.pc = "leave" => Rightful(r.old)

AtWork(r) == Traced(r.dir) /\ Fresh(r) /\ UpToDate(r) /\ InRename(r)

Orderly ==
    /\ AccountTypes /\ Distinct /\ Traced(ldap) /\ Sound
    /\ \A p \in known \ heirs : Own(p) \subseteq access
    /\ \A w \in Writers : proc[w].pc # "idle" => AtWork(proc[w])

AccountInv == AccountParameters /\ (overtaken = {} => Orderly)
===============================================================================
