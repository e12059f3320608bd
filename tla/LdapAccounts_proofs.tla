------------------------ MODULE LdapAccounts_proofs ------------------------
(***************************************************************************)
(* Proofs about LdapAccounts, for any persons, names, Waldur usernames,    *)
(* writers, policy and number of changes and failures: its inductive       *)
(* invariant AccountInv, and that no step renumbers a stamped entry.       *)
(***************************************************************************)
EXTENDS LdapAccounts, TLAPS

\* What the parameters say.
LEMMA Constants ==
    ASSUME AccountParameters
    PROVE  /\ \A p \in Persons : Uid[p] \in Nat /\ Uid[p] # 0
           /\ \A p, q \in Persons : Uid[p] = Uid[q] => p = q
           /\ NoKey \notin Keys
           /\ NoEntry \in Entries
           /\ NoEntry.uid = 0 /\ NoEntry.key = NoKey /\ NoEntry.pending = {}
<1>1. NoEntry \in Entries /\ NoEntry.uid = 0 /\ NoEntry.key = NoKey /\ NoEntry.pending = {}
  BY DEF NoEntry, Entries
<1> QED BY <1>1 DEF AccountParameters

\* What an account pass that writes does to the others: nothing, when entries it
\* changes are under the names of their persons.
LEMMA OthersKeep ==
    ASSUME Distinct, NEW x \in Passes, AtWork(x), UNCHANGED <<account, history>>,
           \A p \in Persons, n \in Names : ldap'[n].uid = Uid[p] /\ n # account[p].name =>
               ldap[n].uid = Uid[p] /\ ldap[n].key = ldap'[n].key,
           \A p \in Persons, n \in Names : Mine(n, p) => Mine(n, p)' \/ Mine(account[p].name, p)',
           \A n \in Names : Rightful(n) => Rightful(n)',
           \A p \in known \ heirs : account[p].name \in access => account[p].name \in access'
    PROVE  AtWork(x)'
<1>1. UNCHANGED <<account, known, overtaken, held, heirs>>
  BY DEF history
<1>2. Traced(x.dir)'
  BY <1>1 DEF AtWork, Traced
<1>3. Fresh(x)'
  BY <1>1 DEF AtWork, Fresh
<1>4. \A p \in Persons : Desired(p)' = Desired(p)
  BY <1>1 DEF Desired
<1>5. UpToDate(x)'
  BY <1>4 DEF AtWork, UpToDate
<1>6. InRename(x)'
  <2>1. /\ x.pc = "reread" \/ Moving(x) =>
              /\ x.old # x.me.name
              /\ x.dir[x.old].uid = x.me.uid /\ x.dir[x.old].key = x.me.key
        /\ x.pc = "reread" \/ Moving(x) \/ Leaving(x) =>
              /\ x.old \in Names \cap held'
              /\ \A p \in Persons : account'[p].name = x.old => p \in heirs'
    BY <1>1 DEF AtWork, InRename
  <2>2. ASSUME Moving(x), NEW p \in Persons, x.me = Desired(p)
        PROVE  Mine(x.old, p)' \/ Mine(x.me.name, p)'
    <3>1. x.old \in Names /\ x.me.name \in Names /\ x.me.name = account[p].name
      BY <2>1, <2>2 DEF Desired, Passes, Wishes
    <3> QED BY <1>1, <2>2, <3>1 DEF AtWork, InRename
  <2>3. ASSUME x.pc = "modrdn", NEW p \in known \ heirs, x.me = Desired(p)
        PROVE  x.me.name \in access'
    BY <2>3 DEF AtWork, InRename, Desired
  <2>4. x.pc = "leave" => Rightful(x.old)'
    BY <2>1 DEF AtWork, InRename, Leaving
  <2>5. \A p \in Persons : x.me = Desired(p)' => x.me = Desired(p)
    BY <1>4
  <2>6. Moving(x)' = Moving(x) /\ Leaving(x)' = Leaving(x)
    BY DEF Moving, Leaving
  <2>7. Moving(x) => \A p \in Persons : x.me = Desired(p)' => (Mine(x.old, p) \/ Mine(x.me.name, p))'
    BY <2>2, <2>5
  <2>8. x.pc = "modrdn" => \A p \in (known \ heirs)' : x.me = Desired(p)' => x.me.name \in access'
    BY <1>1, <2>3 DEF Desired
  <2> QED BY <1>1, <2>1, <2>4, <2>6, <2>7, <2>8 DEF InRename
<1> QED BY <1>2, <1>3, <1>5, <1>6 DEF AtWork

\* A step of one pass.
LEMMA WritesKeep ==
    ASSUME AccountParameters, Orderly, NEW w \in Writers, NEW r \in Passes,
           proc' = [proc EXCEPT ![w] = r],
           r.pc # "idle" => r.dir \in [Names -> Entries] /\ AtWork(r)',
           UNCHANGED <<account, history>>, ldap' \in [Names -> Entries], access' \subseteq Names,
           Traced(ldap)', Sound', \A p \in known \ heirs : Own(p)' \subseteq access',
           \A p \in Persons, n \in Names : ldap'[n].uid = Uid[p] /\ n # account[p].name =>
               ldap[n].uid = Uid[p] /\ ldap[n].key = ldap'[n].key,
           \A p \in Persons, n \in Names : Mine(n, p) => Mine(n, p)' \/ Mine(account[p].name, p)',
           \A n \in Names : Rightful(n) => Rightful(n)',
           \A p \in known \ heirs : account[p].name \in access => account[p].name \in access'
    PROVE  Orderly'
<1>1. UNCHANGED <<account, known, overtaken, held, heirs>>
  BY DEF history
<1>2. proc \in [Writers -> Passes]
  BY DEF Orderly, AccountTypes
<1>3. proc'[w] = r /\ \A v \in Writers : v # w => proc'[v] = proc[v]
  BY <1>2
<1>4. Distinct'
  BY <1>1 DEF Orderly, Distinct
<1>5. proc' \in [Writers -> Passes]
  BY <1>2
<1>6. \A v \in Writers : proc'[v].pc # "idle" => proc'[v].dir \in [Names -> Entries]
  BY <1>3 DEF Orderly, AccountTypes
<1>7. AccountTypes'
  BY <1>1, <1>5, <1>6 DEF Orderly, AccountTypes
<1>8. ASSUME NEW v \in Writers, proc'[v].pc # "idle" PROVE AtWork(proc[v])'
  <2>1. CASE v = w
    BY <1>3, <1>8, <2>1
  <2>2. CASE v # w
    <3>1. PICK x \in Passes : x = proc[v]
      BY <1>2
    <3>2. AtWork(x)
      BY <1>3, <1>8, <2>2, <3>1 DEF Orderly
    <3>3. Distinct
      BY DEF Orderly
    <3>4. AtWork(x)'
      BY <3>2, <3>3, OthersKeep
    <3>5. proc'[v] = x
      BY <1>3, <2>2, <3>1
    <3> QED BY <3>4, <3>5
  <2> QED BY <2>1, <2>2
<1>9. \A p \in (known \ heirs)' : Own(p)' \subseteq access'
  BY <1>1
<1> QED BY <1>4, <1>7, <1>8, <1>9 DEF Orderly

\* The pass at work.
LEMMA AtHand ==
    ASSUME Orderly, NEW w \in Writers, NEW r, r = proc[w], r.pc # "idle"
    PROVE  /\ r \in Passes /\ r.dir \in [Names -> Entries]
           /\ Traced(r.dir) /\ Fresh(r) /\ UpToDate(r) /\ InRename(r)
BY DEF Orderly, AccountTypes, AtWork

\* What the wanted attributes of an account are.
LEMMA Wanted ==
    ASSUME AccountParameters, Orderly, NEW p \in Persons, NEW d, d = Desired(p)
    PROVE  /\ d \in Wishes /\ d.name = account[p].name /\ d.uid = Uid[p] /\ d.key = account[p].key
           /\ d.name \in Names /\ d.key \in Keys
<1>1. account[p] \in [name : Names, key : Keys]
  BY DEF Orderly, AccountTypes
<1>2. d.person = p /\ d.name = account[p].name /\ d.uid = Uid[p] /\ d.key = account[p].key
  BY DEF Desired
<1> QED BY <1>1, <1>2 DEF Desired, Wishes

\* A step that leaves uidNumbers and keys as they are, and takes nothing from the
\* groups.
LEMMA MildKeeps ==
    ASSUME AccountParameters, Orderly, NEW w \in Writers, NEW r \in Passes,
           proc' = [proc EXCEPT ![w] = r],
           r.pc # "idle" => /\ r.dir \in [Names -> Entries]
                            /\ Traced(r.dir) /\ Fresh(r) /\ UpToDate(r) /\ InRename(r)',
           UNCHANGED <<account, history>>, ldap' \in [Names -> Entries],
           access \subseteq access', access' \subseteq Names, Traced(ldap)',
           \A n \in Names : ldap'[n].uid = ldap[n].uid /\ ldap'[n].key = ldap[n].key
    PROVE  Orderly'
<1>1. UNCHANGED <<account, known, overtaken, held, heirs>>
  BY DEF history
<1>2. Sound'
  BY <1>1 DEF Orderly, Sound
<1>3. \A p \in known \ heirs : Own(p)' \subseteq access'
  BY <1>1 DEF Orderly, Own
<1>4. \A p \in Persons, n \in Names : Mine(n, p) => Mine(n, p)' \/ Mine(account[p].name, p)'
  BY <1>1 DEF Mine
<1>5. \A n \in Names : Rightful(n) => Rightful(n)'
  BY <1>1 DEF Rightful
<1>6. ASSUME r.pc # "idle" PROVE r.dir \in [Names -> Entries] /\ AtWork(r)'
  <2>1. Traced(r.dir)'
    BY <1>1, <1>6 DEF Traced
  <2>2. Fresh(r)'
    BY <1>1, <1>6 DEF Fresh
  <2>3. UpToDate(r)'
    <3>1. \A p \in Persons : Desired(p)' = Desired(p)
      BY <1>1 DEF Desired
    <3> QED BY <1>6, <3>1 DEF UpToDate
  <2> QED BY <1>6, <2>1, <2>2, <2>3 DEF AtWork
<1> QED BY <1>2, <1>3, <1>4, <1>5, <1>6, WritesKeep

\* A step that only a pass's own record knows of.
LEMMA QuietKeeps ==
    ASSUME AccountParameters, Orderly, NEW w \in Writers, NEW r \in Passes,
           proc' = [proc EXCEPT ![w] = r],
           r.pc # "idle" => /\ r.dir \in [Names -> Entries]
                            /\ Traced(r.dir) /\ Fresh(r) /\ UpToDate(r) /\ InRename(r),
           UNCHANGED <<account, ldap, access, history>>
    PROVE  Orderly'
<1>1. UNCHANGED <<account, known, overtaken, held, heirs, ldap, access>>
  BY DEF history
<1>2. Traced(ldap)'
  BY <1>1 DEF Orderly, Traced
<1>3. r.pc # "idle" => InRename(r)'
  BY <1>1 DEF InRename, Mine, Rightful, Desired, Moving, Leaving
<1>4. ldap' \in [Names -> Entries] /\ access' \subseteq Names /\ access \subseteq access'
  BY <1>1 DEF Orderly, AccountTypes
<1>5. \A n \in Names : ldap'[n].uid = ldap[n].uid /\ ldap'[n].key = ldap[n].key
  BY <1>1
<1>6. UNCHANGED <<account, history>>
  OBVIOUS
<1>7. r.pc # "idle" => /\ r.dir \in [Names -> Entries]
                       /\ Traced(r.dir) /\ Fresh(r) /\ UpToDate(r) /\ InRename(r)'
  BY <1>3
<1> QED BY <1>2, <1>4, <1>5, <1>6, <1>7, MildKeeps

\* A pass begins with the accounts Waldur has and the directory as it is.
LEMMA BeginKeeps ==
    ASSUME AccountParameters, Orderly, NEW w \in Writers, NEW b \in SUBSET Persons, BeginPass(w, b)
    PROVE  Orderly'
<1>1. PICK r : r = [Idle EXCEPT !.pc = "next", !.work = {Desired(p) : p \in b}, !.dir = ldap,
                                !.keys = {account[p].key : p \in b}]
  OBVIOUS
<1>2. proc' = [proc EXCEPT ![w] = r] /\ UNCHANGED <<account, ldap, access, history>>
  BY <1>1 DEF BeginPass, Set
<1>3. /\ r.pc = "next" /\ r.phase = "accounts" /\ r.work = {Desired(p) : p \in b} /\ r.dir = ldap
      /\ r.keys = {account[p].key : p \in b} /\ r.me = <<>> /\ r.old = <<>>
  BY <1>1 DEF Idle
<1>4. r.work \subseteq Wishes /\ r.keys \subseteq Keys
  BY <1>3, Wanted DEF Orderly, AccountTypes
<1>5. ldap \in [Names -> Entries]
  BY DEF Orderly, AccountTypes
<1>6. r \in Passes
  BY <1>1, <1>3, <1>4, <1>5 DEF Idle, Passes
<1>7. Traced(r.dir)
  BY <1>3 DEF Orderly
<1>8. Fresh(r)
  BY <1>3 DEF Fresh
<1>9. UpToDate(r)
  BY <1>3 DEF UpToDate, Busy, Moving, Leaving
<1>10. InRename(r)
  BY <1>3 DEF InRename, Moving, Leaving
<1> QED BY <1>2, <1>3, <1>5, <1>6, <1>7, <1>8, <1>9, <1>10, QuietKeeps

\* What is done next about an account, and why.
LEMMA OutcomeIs ==
    ASSUME NEW r, NEW d
    PROVE  /\ Outcome(r, d) \in {"reread", "add", "apply", "next"}
           /\ Outcome(r, d) = "reread" => r.dir[d.name] = NoEntry /\ RenameFrom(r.dir, d) # {}
           /\ Outcome(r, d) = "add" => r.dir[d.name] = NoEntry /\ ~UidTaken(r.dir, d)
           /\ Outcome(r, d) = "apply" =>
                 /\ r.dir[d.name] # NoEntry /\ ~KeyConflict(r.dir, d, r.keys)
                 /\ \/ /\ Classify(r.dir, d, r.keys) = "drift"
                       /\ r.dir[d.name].uid # d.uid /\ ~UidTaken(r.dir, d)
                    \/ Classify(r.dir, d, r.keys) = "update" /\ r.dir[d.name].uid = d.uid
<1>1. CASE r.dir[d.name] = NoEntry
  BY <1>1 DEF Outcome, Classify, Missing
<1>2. CASE r.dir[d.name] # NoEntry
  <2>1. CASE KeyConflict(r.dir, d, r.keys)
    BY <1>2, <2>1 DEF Outcome, Classify, Present
  <2>2. CASE ~KeyConflict(r.dir, d, r.keys) /\ r.dir[d.name].uid # d.uid
    BY <1>2, <2>2 DEF Outcome, Classify, Present
  <2>3. CASE ~KeyConflict(r.dir, d, r.keys) /\ r.dir[d.name].uid = d.uid
    BY <1>2, <2>3 DEF Outcome, Classify, Present
  <2> QED BY <2>1, <2>2, <2>3
<1> QED BY <1>1, <1>2

\* The next account: a rename starts from an entry that is the person's.
LEMMA NextKeeps ==
    ASSUME AccountParameters, Orderly, NEW w \in Writers, NextAccount(w)
    PROVE  Orderly'
<1>1. PICK r : r = proc[w]
  OBVIOUS
<1>2. r.pc = "next" /\ r.phase # "end" /\ UNCHANGED <<account, ldap, access, history>>
  BY <1>1 DEF NextAccount
<1>3. /\ r \in Passes /\ r.dir \in [Names -> Entries]
      /\ Traced(r.dir) /\ Fresh(r) /\ UpToDate(r) /\ InRename(r)
  BY <1>1, <1>2, AtHand
<1> DEFINE renames == {d \in r.work : Outcome(r, d) = "reread"}
           chosen(d) == [r EXCEPT !.work = @ \ {d}, !.me = d, !.pc = Outcome(r, d)]
           record(d) == IF d \in renames
                        THEN [chosen(d) EXCEPT !.old = CHOOSE n \in RenameFrom(r.dir, d) : TRUE]
                        ELSE IF chosen(d).pc = "next" THEN [chosen(d) EXCEPT !.me = <<>>]
                        ELSE chosen(d)
<1>4. PICK d \in r.work : proc' = [proc EXCEPT ![w] = record(d)]
  BY <1>1 DEF NextAccount, Set
<1> HIDE DEF record
<1>5. PICK s : s = record(d)
  OBVIOUS
<1> USE DEF record
<1>6. PICK p \in Persons : d = Desired(p)
  BY <1>3 DEF UpToDate
<1>7. d \in Wishes /\ d.name = account[p].name /\ d.uid = Uid[p] /\ d.key = account[p].key
  BY <1>6, Wanted
<1>8. Outcome(r, d) \in {"reread", "add", "apply", "next"}
  BY OutcomeIs
<1>9. PICK c : c = chosen(d)
  OBVIOUS
<1>10. /\ c \in Passes /\ c.pc = Outcome(r, d) /\ c.phase = r.phase /\ c.work = r.work \ {d}
       /\ c.dir = r.dir /\ c.keys = r.keys /\ c.me = d
  BY <1>3, <1>7, <1>8, <1>9 DEF Passes
<1>11. r.work \ {d} \subseteq r.work
  OBVIOUS
<1>12. r.phase = "accounts"
  BY <1>2, <1>3 DEF Passes
<1>13. CASE Outcome(r, d) = "reread"
  <2>1. PICK n : n = CHOOSE m \in RenameFrom(r.dir, d) : TRUE
    OBVIOUS
  <2>2. r.dir[d.name] = NoEntry /\ n \in RenameFrom(r.dir, d)
    BY <1>13, <2>1, OutcomeIs
  <2>3. n \in Names /\ r.dir[n] # NoEntry /\ r.dir[n].uid = d.uid /\ r.dir[n].key = d.key
    BY <2>2 DEF RenameFrom, KeyOwners
  <2>4. s = [c EXCEPT !.old = n]
    BY <1>5, <1>9, <1>13, <2>1
  <2>5. /\ s \in Passes /\ s.pc = "reread" /\ s.phase = r.phase /\ s.work = r.work \ {d}
        /\ s.dir = r.dir /\ s.keys = r.keys /\ s.me = d /\ s.old = n
    BY <1>10, <1>13, <2>3, <2>4 DEF Passes
  <2>6. Fresh(s)
    BY <1>3, <2>5 DEF Fresh
  <2>7. UpToDate(s)
    BY <1>3, <1>6, <1>11, <1>12, <2>5 DEF UpToDate, Busy, Leaving, Moving
  <2>8. n \in held /\ n # d.name
    BY <1>3, <2>2, <2>3 DEF Traced
  <2>9. ASSUME NEW q \in Persons, account[q].name = n PROVE q \in heirs
    <3>1. q # p
      BY <1>7, <2>8, <2>9
    <3>2. Uid[p] # 0 /\ Uid[p] # Uid[q]
      BY <3>1, Constants
    <3> QED BY <1>3, <1>7, <2>3, <2>9, <3>2 DEF Traced
  <2>10. InRename(s)
    BY <2>3, <2>5, <2>8, <2>9 DEF InRename, Moving, Leaving
  <2> QED BY <1>2, <1>3, <1>4, <1>5, <2>5, <2>6, <2>7, <2>10, QuietKeeps
<1>14. CASE Outcome(r, d) # "reread"
  <2>1. s = IF c.pc = "next" THEN [c EXCEPT !.me = <<>>] ELSE c
    BY <1>5, <1>9, <1>14
  <2>2. /\ s \in Passes /\ s.pc = Outcome(r, d) /\ s.phase = r.phase /\ s.work = r.work \ {d}
        /\ s.dir = r.dir /\ s.keys = r.keys /\ (s.pc # "next" => s.me = d)
    BY <1>10, <2>1 DEF Passes
  <2>3. Fresh(s)
    BY <1>3, <2>2 DEF Fresh
  <2>4. s.pc # "next" => Outcome(s, s.me) = s.pc
    BY <2>2 DEF Outcome
  <2>5. UpToDate(s)
    BY <1>3, <1>6, <1>8, <1>11, <1>12, <1>14, <2>2, <2>4 DEF UpToDate, Busy, Leaving, Moving
  <2>6. InRename(s)
    BY <1>8, <1>14, <2>2 DEF InRename, Moving, Leaving
  <2> QED BY <1>2, <1>3, <1>4, <1>5, <2>2, <2>3, <2>5, <2>6, QuietKeeps
<1> QED BY <1>13, <1>14

\* The pass goes on with the next account, or none.
LEMMA DoneKeeps ==
    ASSUME AccountParameters, Orderly, NEW r \in Passes, NEW s,
           r.dir \in [Names -> Entries], UpToDate(r),
           s = Done(r)
    PROVE  /\ s \in Passes /\ s.pc = "next" /\ s.dir = r.dir /\ s.work = r.work
           /\ UpToDate(s) /\ InRename(s) /\ InRename(s)'
<1>1. /\ s \in Passes /\ s.pc = "next" /\ s.phase = r.phase /\ s.work = r.work /\ s.dir = r.dir
  BY DEF Done, Passes
<1>2. UpToDate(s)
  BY <1>1 DEF UpToDate, Busy, Leaving, Moving
<1>3. InRename(s) /\ InRename(s)'
  BY <1>1 DEF InRename, Leaving, Moving
<1> QED BY <1>1, <1>2, <1>3

\* The account is left for the next cycle.
LEMMA FailKeeps ==
    ASSUME AccountParameters, Orderly, NEW w \in Writers, AccountFails(w)
    PROVE  Orderly'
<1>1. PICK r : r = proc[w]
  OBVIOUS
<1>2. r.pc # "idle" /\ UNCHANGED <<account, ldap, access, history>>
  BY <1>1 DEF AccountFails
<1>3. r \in Passes /\ r.dir \in [Names -> Entries] /\ Traced(r.dir) /\ Fresh(r) /\ UpToDate(r)
  BY <1>1, <1>2, AtHand
<1>4. PICK s : s = Done(r)
  OBVIOUS
<1>5. proc' = [proc EXCEPT ![w] = s]
  BY <1>1, <1>4 DEF AccountFails, Set
<1>6. s \in Passes /\ s.pc = "next" /\ s.dir = r.dir /\ UpToDate(s) /\ InRename(s)
  BY <1>3, <1>4, DoneKeeps
<1>7. Fresh(s)
  BY <1>3, <1>6 DEF Fresh
<1> QED BY <1>2, <1>3, <1>5, <1>6, <1>7, QuietKeeps

\* A pass changes its place in a rename.
LEMMA PlaceKeeps ==
    ASSUME NEW r \in Passes, NEW s, Traced(r.dir), Fresh(r), UpToDate(r), InRename(r),
           NEW c \in {"mark", "join", "modrdn", "check", "leave", "clear"},
           s = [r EXCEPT !.pc = c],
           \/ c \in {"mark", "join", "modrdn"} /\ (r.pc = "reread" \/ Moving(r))
           \/ c \in {"leave", "clear"} /\ Leaving(r)
    PROVE  /\ s \in Passes /\ s.pc = c /\ s.phase = r.phase /\ s.work = r.work /\ s.dir = r.dir
           /\ s.keys = r.keys /\ s.me = r.me /\ s.old = r.old
           /\ Traced(s.dir) /\ Fresh(s) /\ UpToDate(s)
<1>1. /\ s \in Passes /\ s.pc = c /\ s.phase = r.phase /\ s.work = r.work /\ s.dir = r.dir
      /\ s.keys = r.keys /\ s.me = r.me /\ s.old = r.old
  BY DEF Passes
<1>2. Traced(s.dir)
  BY <1>1
<1>3. Fresh(s)
  BY <1>1 DEF Fresh
<1>4. UpToDate(s)
  BY <1>1 DEF UpToDate, Busy, Moving, Leaving
<1> QED BY <1>1, <1>2, <1>3, <1>4

\* A name nobody has an entry under may be left.
LEMMA CheckKeeps ==
    ASSUME AccountParameters, Orderly, NEW w \in Writers, CheckOld(w)
    PROVE  Orderly'
<1>1. PICK r : r = proc[w]
  OBVIOUS
<1>2. r.pc = "check" /\ UNCHANGED <<account, ldap, access, history>>
  BY <1>1 DEF CheckOld
<1>3. /\ r \in Passes /\ r.dir \in [Names -> Entries]
      /\ Traced(r.dir) /\ Fresh(r) /\ UpToDate(r) /\ InRename(r)
  BY <1>1, <1>2, AtHand
<1>4. PICK c : c = IF ldap[r.old] = NoEntry THEN "leave" ELSE "clear"
  OBVIOUS
<1>5. PICK s : s = [r EXCEPT !.pc = c]
  OBVIOUS
<1>6. proc' = [proc EXCEPT ![w] = s]
  BY <1>1, <1>4, <1>5 DEF CheckOld, Goto, Set
<1>7. /\ s \in Passes /\ s.pc = c /\ s.dir = r.dir /\ s.me = r.me /\ s.old = r.old
      /\ Traced(s.dir) /\ Fresh(s) /\ UpToDate(s)
  BY <1>2, <1>3, <1>4, <1>5, PlaceKeeps DEF Leaving
<1>8. c = "leave" => Rightful(r.old)
  BY <1>4 DEF Rightful, NoEntry
<1>9. InRename(s)
  BY <1>2, <1>3, <1>4, <1>7, <1>8 DEF InRename, Moving, Leaving
<1> QED BY <1>2, <1>3, <1>6, <1>7, <1>9, QuietKeeps

\* A rename another writer made is taken over in memory.
LEMMA MovedKeeps ==
    ASSUME AccountParameters, Orderly, NEW r \in Passes, NEW p \in Persons, NEW e \in Entries,
           NEW s \in Passes, s.dir \in [Names -> Entries],
           r.dir \in [Names -> Entries], Traced(r.dir), UpToDate(r), InRename(r),
           r.pc = "reread" \/ Moving(r), r.me = Desired(p), e.uid = Uid[p],
           e.pending \subseteq held, \A q \in Persons : account[q].name \in e.pending => q \in heirs,
           s.pc = "check", s.phase = r.phase, s.work = r.work, s.me = r.me, s.old = r.old,
           s.dir[r.old] = NoEntry, s.dir[r.me.name] = e,
           \A n \in Names : n # r.old /\ n # r.me.name => s.dir[n] = r.dir[n]
    PROVE  Traced(s.dir) /\ UpToDate(s) /\ InRename(s)
<1>1. r.old \in Names /\ r.old # r.me.name
  BY DEF InRename
<1>2. r.me.name = account[p].name /\ r.me.name \in Names /\ r.me \in Wishes
  BY Wanted
<1>3. Uid[p] # 0 /\ NoEntry.uid = 0 /\ NoEntry.pending = {}
  BY Constants
<1>4. Traced(s.dir)
  <2>1. r.me.name \in held /\ \A q \in Persons : account[q].name = r.me.name => q = p
    BY <1>2 DEF Orderly, Distinct
  <2>2. \A n \in Names : s.dir[n] # NoEntry => s.dir[n].uid # 0 /\ n \in held
    BY <1>3, <2>1 DEF Traced
  <2>3. \A n \in Names : s.dir[n].pending \subseteq held
    BY <1>3 DEF Traced
  <2>4. \A q \in Persons : account[q].name \in Names
    BY DEF Orderly, AccountTypes
  <2>5. \A q \in Persons : s.dir[account[q].name].uid \notin {0, Uid[q]} => q \in heirs
    BY <1>3, <2>1, <2>4 DEF Traced
  <2>6. \A q \in Persons, n \in Names : account[q].name \in s.dir[n].pending => q \in heirs
    BY <1>3 DEF Traced
  <2> QED BY <2>2, <2>3, <2>5, <2>6 DEF Traced
<1>5. UpToDate(s)
  BY <1>2 DEF UpToDate, Busy, Moving, Leaving
<1>6. InRename(s)
  BY DEF InRename, Moving, Leaving
<1> QED BY <1>4, <1>5, <1>6

\* The entry is still the person's, or another writer has moved it.
LEMMA RereadKeeps ==
    ASSUME AccountParameters, Orderly, NEW w \in Writers, Reread(w)
    PROVE  Orderly'
<1>1. PICK r : r = proc[w]
  OBVIOUS
<1>2. r.pc = "reread" /\ UNCHANGED <<account, ldap, access, history>>
  BY <1>1 DEF Reread
<1>3. /\ r \in Passes /\ r.dir \in [Names -> Entries]
      /\ Traced(r.dir) /\ Fresh(r) /\ UpToDate(r) /\ InRename(r)
  BY <1>1, <1>2, AtHand
<1>4. PICK p \in Persons : r.me = Desired(p)
  BY <1>2, <1>3 DEF UpToDate, Busy
<1>5. /\ r.me.name = account[p].name /\ r.me.uid = Uid[p] /\ r.me.key = account[p].key
      /\ r.me.name \in Names
  BY <1>4, Wanted
<1>6. r.old \in Names /\ r.old # r.me.name
  BY <1>2, <1>3 DEF InRename
<1>7. CASE IsThisAccount(ldap[r.old], r.me) /\ proc' = [proc EXCEPT ![w] = [r EXCEPT !.pc = "mark"]]
  <2>1. PICK s : s = [r EXCEPT !.pc = "mark"]
    OBVIOUS
  <2>2. /\ s \in Passes /\ s.pc = "mark" /\ s.dir = r.dir /\ s.me = r.me /\ s.old = r.old
        /\ Traced(s.dir) /\ Fresh(s) /\ UpToDate(s)
    BY <1>2, <1>3, <2>1, PlaceKeeps
  <2>3. Mine(r.old, p)
    BY <1>5, <1>7 DEF IsThisAccount, Mine
  <2>4. ASSUME NEW q \in Persons, r.me = Desired(q) PROVE q = p
    BY <1>4, <2>4 DEF Desired
  <2>5. InRename(s)
    BY <1>2, <1>3, <2>2, <2>3, <2>4 DEF InRename, Moving, Leaving
  <2> QED BY <1>2, <1>3, <1>7, <2>1, <2>2, <2>5, QuietKeeps
<1>8. CASE /\ ldap[r.old] = NoEntry /\ IsThisAccount(ldap[r.me.name], r.me)
           /\ proc' = [proc EXCEPT ![w] = [Moved(r, ldap[r.me.name]) EXCEPT !.pc = "check"]]
  <2>1. PICK e : e = ldap[r.me.name]
    OBVIOUS
  <2>2. PICK f : f = [r.dir EXCEPT ![r.old] = NoEntry, ![r.me.name] = e]
    OBVIOUS
  <2>3. PICK s : s = [r EXCEPT !.dir = f, !.pc = "check"]
    OBVIOUS
  <2>4. proc' = [proc EXCEPT ![w] = s]
    BY <1>8, <2>1, <2>2, <2>3 DEF Moved
  <2>5. e \in Entries /\ e.uid = Uid[p] /\ NoEntry \in Entries /\ NoEntry.uid = 0
    BY <1>5, <1>8, <2>1, Constants DEF Orderly, AccountTypes, IsThisAccount
  <2>6. e.pending \subseteq held /\ \A q \in Persons : account[q].name \in e.pending => q \in heirs
    BY <1>5, <2>1 DEF Orderly, Traced
  <2>7. /\ f \in [Names -> Entries] /\ f[r.old] = NoEntry /\ f[r.me.name] = e
        /\ \A n \in Names : n # r.old /\ n # r.me.name => f[n] = r.dir[n]
    BY <1>3, <1>5, <1>6, <2>2, <2>5
  <2>8. /\ s \in Passes /\ s.pc = "check" /\ s.phase = r.phase /\ s.work = r.work /\ s.dir = f
        /\ s.me = r.me /\ s.old = r.old
    BY <1>3, <2>3, <2>7 DEF Passes
  <2>9. Traced(s.dir) /\ UpToDate(s) /\ InRename(s)
    BY <1>2, <1>3, <1>4, <2>5, <2>6, <2>7, <2>8, MovedKeeps
  <2>10. \A q \in Persons : Uid[q] # 0
    BY Constants
  <2>11. Fresh(s)
    BY <1>3, <1>5, <1>6, <1>8, <2>1, <2>5, <2>7, <2>8, <2>10 DEF Fresh
  <2> QED BY <1>2, <2>4, <2>7, <2>8, <2>9, <2>11, QuietKeeps
<1> QED BY <1>1, <1>7, <1>8 DEF Reread, Goto, Set

\* What an earlier pass left unfinished is of a name that was held.
LEMMA FinishKeeps ==
    ASSUME AccountParameters, Orderly, NEW w \in Writers, FinishPending(w)
    PROVE  Orderly'
<1>1. PICK r : r = proc[w]
  OBVIOUS
<1>2. r.pc = "next" /\ r.work = {} /\ UNCHANGED <<account, ldap, access, history>>
  BY <1>1 DEF FinishPending
<1>3. /\ r \in Passes /\ r.dir \in [Names -> Entries]
      /\ Traced(r.dir) /\ Fresh(r) /\ UpToDate(r) /\ InRename(r)
  BY <1>1, <1>2, AtHand
<1>4. CASE proc' = [proc EXCEPT ![w] = Idle]
  <2>1. Idle \in Passes /\ Idle.pc = "idle"
    BY DEF Idle, Passes
  <2> QED BY <1>2, <1>4, <2>1, QuietKeeps
<1>5. ASSUME NEW u \in Unfinished(r.dir),
             proc' = [proc EXCEPT ![w] =
                        [r EXCEPT !.pc = "check", !.phase = "end", !.old = u[2],
                               !.me = [person |-> "any", name |-> u[1], uid |-> 0, key |-> NoKey],
                               !.dir[u[1]].pending = @ \ {u[2]}]]
      PROVE  Orderly'
  <2>1. u[1] \in Names /\ u[2] \in Names /\ u[2] \in r.dir[u[1]].pending
    BY <1>5 DEF Unfinished
  <2>2. PICK a : a = u[1]
    OBVIOUS
  <2>3. PICK b : b = u[2]
    OBVIOUS
  <2>4. PICK e : e = [r.dir[a] EXCEPT !.pending = @ \ {b}]
    OBVIOUS
  <2>5. PICK f : f = [r.dir EXCEPT ![a] = e]
    OBVIOUS
  <2>6. PICK m : m = [person |-> "any", name |-> a, uid |-> 0, key |-> NoKey]
    OBVIOUS
  <2>7. PICK s : s = [r EXCEPT !.pc = "check", !.phase = "end", !.old = b, !.me = m, !.dir = f]
    OBVIOUS
  <2>8. proc' = [proc EXCEPT ![w] = s]
    BY <1>5, <2>2, <2>3, <2>4, <2>5, <2>6, <2>7
  <2>9. r.dir[a] \in Entries
    BY <1>3, <2>1, <2>2
  <2>10. /\ e \in Entries /\ e.uid = r.dir[a].uid /\ e.key = r.dir[a].key
         /\ e.pending \subseteq r.dir[a].pending
    BY <2>4, <2>9 DEF Entries
  <2>11. /\ f \in [Names -> Entries] /\ f[a] = e /\ \A n \in Names : n # a => f[n] = r.dir[n]
    BY <1>3, <2>1, <2>2, <2>5, <2>10
  <2>12. m \in Wishes
    BY <2>1, <2>2, <2>6 DEF Wishes
  <2>13. /\ s \in Passes /\ s.pc = "check" /\ s.phase = "end" /\ s.work = {} /\ s.dir = f
         /\ s.me = m /\ s.old = b
    BY <1>2, <1>3, <2>1, <2>3, <2>7, <2>11, <2>12 DEF Passes
  <2>14. /\ \A n \in Names : f[n].uid = r.dir[n].uid /\ f[n].key = r.dir[n].key
         /\ \A n \in Names : f[n].pending \subseteq r.dir[n].pending
    BY <2>10, <2>11
  <2>15. r.dir[a] # NoEntry
    BY <2>1, <2>2, Constants
  <2>16. Traced(f)
    <3>1. \A n \in Names : f[n] # NoEntry => f[n].uid # 0 /\ n \in held
      BY <1>3, <2>11, <2>14, <2>15 DEF Traced
    <3>2. \A q \in Persons : account[q].name \in Names
      BY DEF Orderly, AccountTypes
    <3> QED BY <1>3, <2>14, <3>1, <3>2 DEF Traced
  <2>17. Fresh(s)
    BY <1>3, <2>13, <2>14 DEF Fresh
  <2>18. UpToDate(s)
    BY <2>12, <2>13 DEF UpToDate, Busy, Moving, Leaving
  <2>19. b \in held /\ \A q \in Persons : account[q].name = b => q \in heirs
    BY <1>3, <2>1, <2>2, <2>3 DEF Traced
  <2>20. InRename(s)
    BY <2>1, <2>3, <2>13, <2>19 DEF InRename, Moving, Leaving
  <2> QED BY <1>2, <2>8, <2>11, <2>13, <2>16, <2>17, <2>18, <2>20, QuietKeeps
<1> QED BY <1>1, <1>4, <1>5 DEF FinishPending, Set

\* The new entry is listed in the groups.
LEMMA GrantKeeps ==
    ASSUME AccountParameters, Orderly, NEW w \in Writers, Grant(w)
    PROVE  Orderly' /\ UNCHANGED ldap
<1>1. PICK r : r = proc[w]
  OBVIOUS
<1>2. r.pc = "grant" /\ UNCHANGED <<account, ldap, history>> /\ access' = access \cup {r.me.name}
  BY <1>1 DEF Grant
<1>3. r \in Passes /\ r.dir \in [Names -> Entries] /\ Traced(r.dir) /\ Fresh(r) /\ UpToDate(r)
  BY <1>1, <1>2, AtHand
<1>4. PICK p \in Persons : r.me = Desired(p)
  BY <1>2, <1>3 DEF UpToDate, Busy
<1>5. r.me.name \in Names
  BY <1>4, Wanted
<1>6. PICK s : s = Done(r)
  OBVIOUS
<1>7. proc' = [proc EXCEPT ![w] = s]
  BY <1>1, <1>6 DEF Grant, Set
<1>8. s \in Passes /\ s.pc = "next" /\ s.dir = r.dir /\ UpToDate(s) /\ InRename(s)'
  BY <1>3, <1>6, DoneKeeps
<1>9. Fresh(s)
  BY <1>3, <1>8 DEF Fresh
<1>10. UNCHANGED <<account, known, overtaken, held, heirs, ldap>>
  BY <1>2 DEF history
<1>11. Traced(ldap)'
  BY <1>10 DEF Orderly, Traced
<1>12. ldap' \in [Names -> Entries] /\ access' \subseteq Names /\ access \subseteq access'
  BY <1>2, <1>5 DEF Orderly, AccountTypes
<1>13. \A n \in Names : ldap'[n].uid = ldap[n].uid /\ ldap'[n].key = ldap[n].key
  BY <1>2
<1> QED BY <1>2, <1>3, <1>7, <1>8, <1>9, <1>11, <1>12, <1>13, MildKeeps

\* The uidNumbers and keys stay, so an entry keeps its person.
LEMMA JoinKeeps ==
    ASSUME AccountParameters, Orderly, NEW w \in Writers, Join(w)
    PROVE  Orderly' /\ UNCHANGED ldap
<1>1. PICK r : r = proc[w]
  OBVIOUS
<1>2. /\ r.pc = "join" /\ UNCHANGED <<account, ldap, history>>
      /\ access' = IF r.old \in access THEN access \cup {r.me.name} ELSE access
  BY <1>1 DEF Join
<1>3. /\ r \in Passes /\ r.dir \in [Names -> Entries]
      /\ Traced(r.dir) /\ Fresh(r) /\ UpToDate(r) /\ InRename(r)
  BY <1>1, <1>2, AtHand
<1>4. PICK p \in Persons : r.me = Desired(p)
  BY <1>2, <1>3 DEF UpToDate, Busy, Moving
<1>5. r.me.name \in Names /\ r.old \in Names
  BY <1>2, <1>3, <1>4, Wanted DEF InRename, Moving
<1>6. PICK s : s = [r EXCEPT !.pc = "modrdn"]
  OBVIOUS
<1>7. proc' = [proc EXCEPT ![w] = s]
  BY <1>1, <1>6 DEF Join, Goto, Set
<1>8. /\ s \in Passes /\ s.pc = "modrdn" /\ s.dir = r.dir /\ s.me = r.me /\ s.old = r.old
      /\ Traced(s.dir) /\ Fresh(s) /\ UpToDate(s)
  BY <1>2, <1>3, <1>6, PlaceKeeps DEF Moving
<1>9. UNCHANGED <<account, known, overtaken, held, heirs, ldap>>
  BY <1>2 DEF history
<1>10. Traced(ldap)'
  BY <1>9 DEF Orderly, Traced
<1>11. ldap' \in [Names -> Entries] /\ access' \subseteq Names /\ access \subseteq access'
  BY <1>2, <1>5 DEF Orderly, AccountTypes
<1>12. \A n \in Names : ldap'[n].uid = ldap[n].uid /\ ldap'[n].key = ldap[n].key
  BY <1>2
<1>13. ASSUME NEW q \in known \ heirs, r.me = Desired(q) PROVE r.me.name \in access'
  <2>1. q \in Persons
    BY DEF Orderly, AccountTypes
  <2>2. Mine(r.old, q) \/ Mine(r.me.name, q)
    BY <1>2, <1>3, <1>13, <2>1 DEF InRename, Moving
  <2>3. r.old \in Own(q) \/ r.me.name \in Own(q)
    BY <1>5, <2>2 DEF Mine, Own
  <2> QED BY <1>2, <1>13, <2>3 DEF Orderly
<1>14. InRename(s)'
  <2>1. \A q \in Persons : Desired(q)' = Desired(q)
    BY <1>9 DEF Desired
  <2>2. \A q \in Persons, n \in Names : Mine(n, q)' = Mine(n, q)
    BY <1>9 DEF Mine
  <2>3. \A q \in Persons : s.me = Desired(q)' => (Mine(s.old, q) \/ Mine(s.me.name, q))'
    BY <1>2, <1>3, <1>5, <1>8, <2>1, <2>2 DEF InRename, Moving
  <2>4. \A q \in (known \ heirs)' : s.me = Desired(q)' => s.me.name \in access'
    BY <1>8, <1>9, <1>13 DEF Desired
  <2>5. /\ s.old # s.me.name /\ s.dir[s.old].uid = s.me.uid /\ s.dir[s.old].key = s.me.key
        /\ s.old \in Names \cap held'
        /\ \A q \in Persons : account'[q].name = s.old => q \in heirs'
    BY <1>2, <1>3, <1>8, <1>9 DEF InRename, Moving
  <2> QED BY <1>8, <2>3, <2>4, <2>5 DEF InRename, Moving, Leaving
<1> QED BY <1>2, <1>3, <1>7, <1>8, <1>10, <1>11, <1>12, <1>14, MildKeeps

\* The names of unfinished renames of one entry change.
LEMMA RecordKeeps ==
    ASSUME AccountParameters, Orderly, NEW m \in Names, ldap[m] # NoEntry, NEW e \in Entries,
           ldap' = [ldap EXCEPT ![m] = e], e.uid = ldap[m].uid, e.key = ldap[m].key,
           e.pending \subseteq held, \A q \in Persons : account[q].name \in e.pending => q \in heirs,
           UNCHANGED <<account, history>>
    PROVE  /\ ldap' \in [Names -> Entries] /\ Traced(ldap)'
           /\ \A n \in Names : ldap'[n].uid = ldap[n].uid /\ ldap'[n].key = ldap[n].key
<1>1. UNCHANGED <<account, known, overtaken, held, heirs>>
  BY DEF history
<1>2. ldap \in [Names -> Entries] /\ Traced(ldap) /\ \A q \in Persons : account[q].name \in Names
  BY DEF Orderly, AccountTypes
<1>3. /\ ldap' \in [Names -> Entries] /\ ldap'[m] = e /\ \A n \in Names : n # m => ldap'[n] = ldap[n]
  BY <1>2
<1>4. \A n \in Names : ldap'[n].uid = ldap[n].uid /\ ldap'[n].key = ldap[n].key
  BY <1>3
<1>5. \A n \in Names : ldap'[n] # NoEntry => ldap'[n].uid # 0 /\ n \in held'
  BY <1>1, <1>2, <1>3, <1>4 DEF Traced
<1>6. \A n \in Names : ldap'[n].pending \subseteq held'
  BY <1>1, <1>2, <1>3 DEF Traced
<1>7. \A q \in Persons : ldap'[account'[q].name].uid \notin {0, Uid[q]} => q \in heirs'
  BY <1>1, <1>2, <1>4 DEF Traced
<1>8. \A q \in Persons, n \in Names : account'[q].name \in ldap'[n].pending => q \in heirs'
  BY <1>1, <1>2, <1>3 DEF Traced
<1> QED BY <1>3, <1>4, <1>5, <1>6, <1>7, <1>8 DEF Traced

\* The rename is recorded.
LEMMA MarkKeeps ==
    ASSUME AccountParameters, Orderly, NEW w \in Writers, Mark(w)
    PROVE  Orderly' /\ \A n \in Names : ldap'[n].uid = ldap[n].uid
<1>1. PICK r : r = proc[w]
  OBVIOUS
<1>2. r.pc = "mark" /\ ldap[r.old] # NoEntry /\ UNCHANGED <<account, access, history>>
  BY <1>1 DEF Mark
<1>3. /\ r \in Passes /\ r.dir \in [Names -> Entries]
      /\ Traced(r.dir) /\ Fresh(r) /\ UpToDate(r) /\ InRename(r)
  BY <1>1, <1>2, AtHand
<1>4. r.old \in Names /\ r.old \in held /\ \A q \in Persons : account[q].name = r.old => q \in heirs
  BY <1>2, <1>3 DEF InRename, Moving
<1>5. PICK e : e = [ldap[r.old] EXCEPT !.pending = @ \cup {r.old}]
  OBVIOUS
<1>6. ldap' = [ldap EXCEPT ![r.old] = e]
  BY <1>1, <1>5 DEF Mark
<1>7. ldap[r.old] \in Entries
  BY <1>4 DEF Orderly, AccountTypes
<1>8. /\ e \in Entries /\ e.uid = ldap[r.old].uid /\ e.key = ldap[r.old].key
      /\ e.pending = ldap[r.old].pending \cup {r.old}
  BY <1>4, <1>5, <1>7 DEF Entries
<1>9. e.pending \subseteq held /\ \A q \in Persons : account[q].name \in e.pending => q \in heirs
  BY <1>4, <1>8 DEF Orderly, Traced
<1>10. UNCHANGED <<account, history>>
  BY <1>2
<1>11. /\ ldap' \in [Names -> Entries] /\ Traced(ldap)'
       /\ \A n \in Names : ldap'[n].uid = ldap[n].uid /\ ldap'[n].key = ldap[n].key
  BY <1>2, <1>4, <1>6, <1>8, <1>9, <1>10, RecordKeeps
<1>12. PICK s : s = [r EXCEPT !.pc = "join"]
  OBVIOUS
<1>13. proc' = [proc EXCEPT ![w] = s]
  BY <1>1, <1>12 DEF Mark, Goto, Set
<1>14. /\ s \in Passes /\ s.pc = "join" /\ s.dir = r.dir /\ s.me = r.me /\ s.old = r.old
       /\ Traced(s.dir) /\ Fresh(s) /\ UpToDate(s)
  BY <1>2, <1>3, <1>12, PlaceKeeps DEF Moving
<1>15. UNCHANGED <<account, known, overtaken, held, heirs>>
  BY <1>2 DEF history
<1>16. ASSUME NEW q \in Persons, s.me = Desired(q)' PROVE (Mine(s.old, q) \/ Mine(s.me.name, q))'
  <2>1. r.me = Desired(q) /\ r.me.name \in Names
    BY <1>14, <1>15, <1>16, Wanted DEF Desired
  <2>2. Mine(r.old, q) \/ Mine(r.me.name, q)
    BY <1>2, <1>3, <2>1 DEF InRename, Moving
  <2> QED BY <1>4, <1>11, <1>14, <1>15, <2>1, <2>2 DEF Mine
<1>17. InRename(s)'
  BY <1>2, <1>3, <1>14, <1>15, <1>16 DEF InRename, Moving, Leaving
<1>18. access \subseteq access' /\ access' \subseteq Names
  BY <1>2 DEF Orderly, AccountTypes
<1> QED BY <1>3, <1>10, <1>11, <1>13, <1>14, <1>17, <1>18, MildKeeps

\* The record of the rename is removed.
LEMMA ClearKeeps ==
    ASSUME AccountParameters, Orderly, NEW w \in Writers, ClearRecord(w)
    PROVE  Orderly' /\ \A n \in Names : ldap'[n].uid = ldap[n].uid
<1>1. PICK r : r = proc[w]
  OBVIOUS
<1>2. r.pc = "clear" /\ ldap[r.me.name] # NoEntry /\ UNCHANGED <<account, access, history>>
  BY <1>1 DEF ClearRecord
<1>3. /\ r \in Passes /\ r.dir \in [Names -> Entries]
      /\ Traced(r.dir) /\ Fresh(r) /\ UpToDate(r) /\ InRename(r)
  BY <1>1, <1>2, AtHand
<1>4. r.me \in Wishes /\ r.me.name \in Names
  BY <1>2, <1>3 DEF UpToDate, Leaving, Wishes
<1>5. PICK e : e = [ldap[r.me.name] EXCEPT !.pending = @ \ {r.old}]
  OBVIOUS
<1>6. ldap' = [ldap EXCEPT ![r.me.name] = e]
  BY <1>1, <1>5 DEF ClearRecord
<1>7. ldap[r.me.name] \in Entries
  BY <1>4 DEF Orderly, AccountTypes
<1>8. /\ e \in Entries /\ e.uid = ldap[r.me.name].uid /\ e.key = ldap[r.me.name].key
      /\ e.pending \subseteq ldap[r.me.name].pending
  BY <1>5, <1>7 DEF Entries
<1>9. e.pending \subseteq held /\ \A q \in Persons : account[q].name \in e.pending => q \in heirs
  BY <1>4, <1>8 DEF Orderly, Traced
<1>10. UNCHANGED <<account, history>>
  BY <1>2
<1>11. /\ ldap' \in [Names -> Entries] /\ Traced(ldap)'
       /\ \A n \in Names : ldap'[n].uid = ldap[n].uid /\ ldap'[n].key = ldap[n].key
  BY <1>2, <1>4, <1>6, <1>8, <1>9, <1>10, RecordKeeps
<1>12. PICK v : v = IF r.phase = "end" THEN {} ELSE r.work \cup {r.me}
  OBVIOUS
<1>13. PICK s : s = [r EXCEPT !.work = v, !.pc = "next", !.me = <<>>, !.old = <<>>]
  OBVIOUS
<1>14. proc' = [proc EXCEPT ![w] = s]
  BY <1>1, <1>12, <1>13 DEF ClearRecord, Set, Done
<1>15. v \subseteq Wishes
  BY <1>3, <1>4, <1>12 DEF Passes
<1>16. s \in Passes /\ s.pc = "next" /\ s.phase = r.phase /\ s.work = v /\ s.dir = r.dir
  BY <1>3, <1>13, <1>15 DEF Passes
<1>17. v \subseteq {Desired(p) : p \in Persons}
  BY <1>2, <1>3, <1>12 DEF UpToDate, Leaving, Passes
<1>18. UpToDate(s)
  BY <1>12, <1>16, <1>17 DEF UpToDate, Busy, Moving, Leaving
<1>19. Fresh(s)
  BY <1>3, <1>16 DEF Fresh
<1>20. InRename(s)'
  BY <1>16 DEF InRename, Moving, Leaving
<1>21. access \subseteq access' /\ access' \subseteq Names
  BY <1>2 DEF Orderly, AccountTypes
<1> QED BY <1>3, <1>10, <1>11, <1>14, <1>16, <1>18, <1>19, <1>20, <1>21, MildKeeps

\* The memberships of a name that is left were nobody's but an heir's.
LEMMA LeaveKeeps ==
    ASSUME AccountParameters, Orderly, NEW w \in Writers, Leave(w)
    PROVE  Orderly' /\ UNCHANGED ldap
<1>1. PICK r : r = proc[w]
  OBVIOUS
<1>2. r.pc = "leave" /\ UNCHANGED <<account, ldap, history>> /\ access' = access \ {r.old}
  BY <1>1 DEF Leave
<1>3. /\ r \in Passes /\ r.dir \in [Names -> Entries]
      /\ Traced(r.dir) /\ Fresh(r) /\ UpToDate(r) /\ InRename(r)
  BY <1>1, <1>2, AtHand
<1>4. /\ r.old \in Names /\ Rightful(r.old)
      /\ \A q \in Persons : account[q].name = r.old => q \in heirs
  BY <1>2, <1>3 DEF InRename, Leaving
<1>5. PICK s : s = [r EXCEPT !.pc = "clear"]
  OBVIOUS
<1>6. proc' = [proc EXCEPT ![w] = s]
  BY <1>1, <1>5 DEF Leave, Goto, Set
<1>7. /\ s \in Passes /\ s.pc = "clear" /\ s.dir = r.dir /\ s.me = r.me /\ s.old = r.old
      /\ Traced(s.dir) /\ Fresh(s) /\ UpToDate(s)
  BY <1>2, <1>3, <1>5, PlaceKeeps DEF Leaving
<1>8. UNCHANGED <<account, known, overtaken, held, heirs, ldap>>
  BY <1>2 DEF history
<1>9. known \subseteq Persons /\ ldap \in [Names -> Entries] /\ access \subseteq Names
  BY DEF Orderly, AccountTypes
<1>10. ASSUME NEW q \in known \ heirs PROVE r.old \notin Own(q) /\ account[q].name # r.old
  <2>1. q \in Persons /\ Uid[q] # 0
    BY <1>9, Constants
  <2>2. account[q].name # r.old
    BY <1>4, <1>10, <2>1
  <2>3. ASSUME NEW p \in Persons, account[p].name = r.old, ldap[r.old].uid = Uid[p], r.old \in Own(q)
        PROVE  FALSE
    <3>1. p = q
      BY <2>1, <2>3, Constants DEF Own
    <3> QED BY <2>2, <2>3, <3>1
  <2> QED BY <1>4, <2>1, <2>2, <2>3 DEF Rightful, Own
<1>11. \A q \in known \ heirs : Own(q)' \subseteq access'
  BY <1>2, <1>8, <1>10 DEF Orderly, Own
<1>12. \A q \in known \ heirs : account[q].name \in access => account[q].name \in access'
  BY <1>2, <1>10
<1>13. Traced(ldap)' /\ Sound'
  BY <1>8 DEF Orderly, Traced, Sound
<1>14. \A q \in Persons, n \in Names : Mine(n, q) => Mine(n, q)' \/ Mine(account[q].name, q)'
  BY <1>8 DEF Mine
<1>15. \A n \in Names : Rightful(n) => Rightful(n)'
  BY <1>8 DEF Rightful
<1>16. AtWork(s)'
  <2>1. Traced(s.dir)' /\ Fresh(s)'
    BY <1>7, <1>8 DEF Traced, Fresh
  <2>2. UpToDate(s)'
    BY <1>7, <1>8 DEF UpToDate, Desired
  <2>3. InRename(s)'
    BY <1>2, <1>3, <1>7, <1>8 DEF InRename, Moving, Leaving
  <2> QED BY <2>1, <2>2, <2>3 DEF AtWork
<1>17. /\ ldap' \in [Names -> Entries] /\ access' \subseteq Names /\ s.dir \in [Names -> Entries]
       /\ \A p \in Persons, n \in Names : ldap'[n].uid = Uid[p] /\ n # account[p].name =>
               ldap[n].uid = Uid[p] /\ ldap[n].key = ldap'[n].key
  BY <1>2, <1>3, <1>7, <1>9
<1>18. UNCHANGED <<account, history>>
  BY <1>2
<1>19. Orderly'
  BY <1>6, <1>7, <1>11, <1>12, <1>13, <1>14, <1>15, <1>16, <1>17, <1>18, WritesKeep
<1> QED BY <1>2, <1>19

\* A person's entry, the only one, is written under the name Waldur has.
LEMMA OwnKeeps ==
    ASSUME AccountParameters, Orderly, NEW w \in Writers, proc[w].pc # "idle", NEW p \in Persons,
           ldap' \in [Names -> Entries],
           \A n \in Names : n # account[p].name => ldap'[n] = ldap[n],
           UNCHANGED <<account, access, history>>,
           ldap'[account[p].name].uid = Uid[p],
           ldap'[account[p].name].pending \subseteq ldap[account[p].name].pending,
           \A n \in Names : ldap[n].uid = Uid[p] => n = account[p].name,
           \/ /\ ldap[account[p].name].uid = Uid[p]
              /\ ldap'[account[p].name].key \in {ldap[account[p].name].key, account[p].key}
           \/ /\ ldap[account[p].name].uid # Uid[p] /\ ldap[account[p].name].key = NoKey
              /\ ldap'[account[p].name].key \in {NoKey, account[p].key},
           NEW s \in Passes, proc' = [proc EXCEPT ![w] = s], s.pc \in {"next", "grant"},
           s.dir \in [Names -> Entries], Traced(s.dir), UpToDate(s),
           \A n \in Names : n # account[p].name => s.dir[n] = proc[w].dir[n]
    PROVE  Orderly' /\ \A n \in Names : ldap[n].key # NoKey => ldap'[n].uid = ldap[n].uid
<1>1. PICK r : r = proc[w]
  OBVIOUS
<1>2. PICK m : m = account[p].name
  OBVIOUS
<1>3. PICK e : e = ldap'[m]
  OBVIOUS
<1>4. /\ e.uid = Uid[p] /\ e.pending \subseteq ldap[m].pending
      /\ \A n \in Names : ldap[n].uid = Uid[p] => n = m
      /\ \A n \in Names : n # m => s.dir[n] = r.dir[n]
      /\ \/ ldap[m].uid = Uid[p] /\ e.key \in {ldap[m].key, account[p].key}
         \/ ldap[m].uid # Uid[p] /\ ldap[m].key = NoKey /\ e.key \in {NoKey, account[p].key}
  BY <1>1, <1>2, <1>3
<1>5. UNCHANGED <<account, known, overtaken, held, heirs, access>>
  BY DEF history
<1>6. /\ ldap \in [Names -> Entries] /\ access \subseteq Names /\ known \subseteq Persons
      /\ \A q \in Persons : account[q].name \in Names /\ account[q].key \in Keys
  BY DEF Orderly, AccountTypes
<1>7. /\ m \in Names /\ ldap' \in [Names -> Entries] /\ ldap'[m] = e
      /\ \A n \in Names : n # m => ldap'[n] = ldap[n]
  BY <1>6, <1>2, <1>3
<1>8. /\ \A q \in Persons : Uid[q] # 0 /\ (Uid[q] = Uid[p] => q = p)
      /\ NoKey \notin Keys
  BY Constants
<1>9. \A q \in Persons : account[q].name = m => q = p
  BY <1>2 DEF Orderly, Distinct
<1>10. Traced(ldap)'
  <2>1. Traced(ldap) /\ m \in held
    BY <1>2 DEF Orderly, Distinct
  <2>2. \A n \in Names : ldap'[n] # NoEntry => ldap'[n].uid # 0 /\ n \in held'
    BY <1>5, <1>7, <1>8, <1>4, <2>1 DEF Traced
  <2>3. \A n \in Names : ldap'[n].pending \subseteq ldap[n].pending
    BY <1>7, <1>4
  <2>4. \A q \in Persons : ldap'[account'[q].name].uid \notin {0, Uid[q]} => q \in heirs'
    BY <1>5, <1>6, <1>7, <1>9, <1>4, <2>1 DEF Traced
  <2> QED BY <1>5, <2>1, <2>2, <2>3, <2>4 DEF Traced
<1>11. ASSUME NEW q \in known, q \in Persons
      PROVE  \E n \in Names : ldap'[n].uid = Uid[q] /\ ldap'[n].key # NoKey
  <2>1. PICK n \in Names : ldap[n].uid = Uid[q] /\ ldap[n].key # NoKey
    BY DEF Orderly, Sound
  <2> QED BY <1>6, <1>7, <1>8, <1>4, <2>1
<1>12. Sound'
  <2>1. \A a, b \in Names : ldap'[a].uid # 0 /\ ldap'[a].uid = ldap'[b].uid => a = b
    BY <1>7, <1>4 DEF Orderly, Sound
  <2>2. \A q \in Persons, n \in Names : ldap'[n].key = account'[q].key => ldap'[n].uid = Uid[q]
    <3> SUFFICES ASSUME NEW q \in Persons, NEW n \in Names, ldap'[n].key = account[q].key
                 PROVE  ldap'[n].uid = Uid[q]
      BY <1>5
    <3>1. CASE n # m
      BY <1>7, <3>1 DEF Orderly, Sound
    <3>2. CASE n = m /\ e.key = ldap[m].key /\ ldap[m].uid = Uid[p]
      BY <1>7, <1>4, <3>2 DEF Orderly, Sound
    <3>3. CASE n = m /\ e.key = account[p].key
      BY <1>7, <1>4, <3>3 DEF Orderly, Distinct
    <3>4. CASE n = m /\ e.key = NoKey
      BY <1>6, <1>7, <1>8, <3>4
    <3> QED BY <1>4, <3>1, <3>2, <3>3, <3>4
  <2>3. \A q \in known' : \E n \in Names : ldap'[n].uid = Uid[q] /\ ldap'[n].key # NoKey
    BY <1>5, <1>6, <1>11
  <2> QED BY <2>1, <2>2, <2>3 DEF Sound
<1>13. ASSUME NEW q \in known \ heirs PROVE Own(q)' \subseteq access'
  <2>1. q \in Persons
    BY <1>6
  <2>2. PICK n \in Names : ldap[n].uid = Uid[q] /\ ldap[n].key # NoKey
    BY <1>13 DEF Orderly, Sound
  <2>3. CASE q = p
    <3>1. n = m
      BY <1>4, <2>2, <2>3
    <3>2. Own(q)' \subseteq Own(q)
      BY <1>7, <1>4, <2>2, <2>3, <3>1 DEF Own
    <3> QED BY <1>5, <1>13, <3>2 DEF Orderly
  <2>4. CASE q # p
    <3>1. Own(q)' \subseteq Own(q)
      BY <1>7, <1>8, <1>4, <2>1, <2>4 DEF Own
    <3> QED BY <1>5, <1>13, <3>1 DEF Orderly
  <2> QED BY <2>3, <2>4
<1>14. \A q \in Persons, n \in Names : ldap'[n].uid = Uid[q] /\ n # account[q].name =>
               ldap[n].uid = Uid[q] /\ ldap[n].key = ldap'[n].key
  BY <1>7, <1>8, <1>2, <1>4
<1>15. \A q \in Persons, n \in Names : Mine(n, q) => Mine(n, q)'
  BY <1>5, <1>6, <1>7, <1>8, <1>4 DEF Mine
<1>16. \A n \in Names : Rightful(n) => Rightful(n)'
  BY <1>5, <1>7, <1>2, <1>4 DEF Rightful
<1>17. AtWork(s)'
  <2>1. Traced(s.dir)'
    BY <1>5 DEF Traced
  <2>2. Fresh(r)
    BY <1>1, AtHand
  <2>3. Fresh(s)'
    BY <1>5, <1>7, <1>8, <1>2, <1>4, <2>2 DEF Fresh
  <2>4. UpToDate(s)'
    BY <1>5 DEF UpToDate, Desired
  <2>5. InRename(s)'
    BY DEF InRename, Moving, Leaving
  <2> QED BY <2>1, <2>3, <2>4, <2>5 DEF AtWork
<1>18. access' \subseteq Names
  BY <1>5, <1>6
<1>19. \A q \in known \ heirs : account[q].name \in access => account[q].name \in access'
  BY <1>5
<1>20. UNCHANGED <<account, history>>
  OBVIOUS
<1>21. Orderly'
  BY <1>7, <1>10, <1>12, <1>13, <1>14, <1>15, <1>16, <1>17, <1>18, <1>19, <1>20, WritesKeep
<1>22. \A n \in Names : ldap[n].key # NoKey => ldap'[n].uid = ldap[n].uid
  BY <1>7, <1>4
<1> QED BY <1>21, <1>22

\* A person without an entry gets one, unless another writer was faster.
LEMMA AddKeeps ==
    ASSUME AccountParameters, Orderly, NEW w \in Writers, AddEntry(w)
    PROVE  Orderly' /\ \A n \in Names : ldap[n].key # NoKey => ldap'[n].uid = ldap[n].uid
<1>1. PICK r : r = proc[w]
  OBVIOUS
<1>2. r.pc = "add" /\ UNCHANGED <<account, access, history>>
  BY <1>1 DEF AddEntry
<1>3. /\ r \in Passes /\ r.dir \in [Names -> Entries]
      /\ Traced(r.dir) /\ Fresh(r) /\ UpToDate(r) /\ InRename(r)
  BY <1>1, <1>2, AtHand
<1>4. PICK p \in Persons : r.me = Desired(p)
  BY <1>2, <1>3 DEF UpToDate, Busy
<1>5. PICK m : m = r.me.name
  OBVIOUS
<1>6. /\ m = account[p].name /\ r.me.uid = Uid[p] /\ r.me.key = account[p].key /\ m \in Names
      /\ r.me.key \in Keys /\ r.me \in Wishes
  BY <1>4, <1>5, Wanted
<1>7. r.dir[m] = NoEntry /\ ~UidTaken(r.dir, r.me)
  BY <1>2, <1>3, <1>5, OutcomeIs DEF UpToDate
<1>8. m \in held /\ \A q \in Persons : account[q].name = m => q = p
  BY <1>6 DEF Orderly, Distinct
<1>9. \A q \in Persons : Uid[q] # 0
  BY Constants
<1>10. NoEntry.uid = 0 /\ NoEntry.key = NoKey /\ NoEntry.pending = {}
  BY Constants
<1>11. ldap \in [Names -> Entries] /\ \A q \in Persons : account[q].name \in Names
  BY DEF Orderly, AccountTypes
<1>12. r.phase = "accounts"
  BY <1>2, <1>3 DEF UpToDate, Busy, Passes
<1>13. CASE ldap[m] = NoEntry
  <2>1. PICK e : e = [uid |-> r.me.uid, key |-> r.me.key, pending |-> {}]
    OBVIOUS
  <2>2. e \in Entries /\ e.uid = Uid[p] /\ e.key = account[p].key /\ e.pending = {}
    BY <1>6, <2>1 DEF Entries
  <2>3. PICK f : f = [r.dir EXCEPT ![m] = e]
    OBVIOUS
  <2>4. f \in [Names -> Entries] /\ f[m] = e /\ \A n \in Names : n # m => f[n] = r.dir[n]
    BY <1>3, <1>6, <2>2, <2>3
  <2>5. PICK s : s = [r EXCEPT !.pc = "grant", !.dir = f]
    OBVIOUS
  <2>6. ldap' = [ldap EXCEPT ![m] = e] /\ proc' = [proc EXCEPT ![w] = s]
    BY <1>1, <1>5, <1>13, <2>1, <2>3, <2>5 DEF AddEntry, Set
  <2>7. /\ s \in Passes /\ s.pc = "grant" /\ s.phase = r.phase /\ s.work = r.work /\ s.dir = f
        /\ s.me = r.me
    BY <1>3, <2>4, <2>5 DEF Passes
  <2>8. Traced(f)
    BY <1>3, <1>8, <1>9, <1>11, <2>2, <2>4 DEF Traced
  <2>9. UpToDate(s)
    BY <1>3, <1>4, <1>12, <2>7 DEF UpToDate, Busy, Moving, Leaving
  <2>10. \A n \in Names : ldap[n].uid = Uid[p] => n = m
    BY <1>3, <1>5, <1>6, <1>7, <1>9, <1>10 DEF Fresh, UidTaken
  <2>11. ldap[m].uid # Uid[p] /\ ldap[m].key = NoKey /\ e.pending \subseteq ldap[m].pending
    BY <1>9, <1>10, <1>13, <2>2
  <2>12. r.pc # "idle" /\ s.pc \in {"next", "grant"} /\ s.dir \in [Names -> Entries] /\ Traced(s.dir)
    BY <1>2, <2>4, <2>7, <2>8
  <2>13. \A n \in Names : n # m => s.dir[n] = r.dir[n]
    BY <2>4, <2>7
  <2>14. /\ ldap' \in [Names -> Entries] /\ ldap'[m] = e
         /\ \A n \in Names : n # m => ldap'[n] = ldap[n]
    BY <1>6, <1>11, <2>2, <2>6
  <2>15. proc' = [proc EXCEPT ![w] = s] /\ UNCHANGED <<account, access, history>>
    BY <1>2, <2>6
  <2> QED BY <1>1, <1>6, <2>2, <2>7, <2>9, <2>10, <2>11, <2>12, <2>13, <2>14, <2>15, OwnKeeps
<1>14. CASE ldap[m] # NoEntry
  <2>1. PICK f : f = [r.dir EXCEPT ![m] = ldap[m]]
    OBVIOUS
  <2>2. f \in [Names -> Entries] /\ f[m] = ldap[m] /\ \A n \in Names : n # m => f[n] = r.dir[n]
    BY <1>3, <1>6, <1>11, <2>1
  <2>3. PICK s : s = [r EXCEPT !.work = @ \cup {r.me}, !.dir = f, !.pc = "next", !.me = <<>>,
                               !.old = <<>>]
    OBVIOUS
  <2>4. UNCHANGED ldap /\ proc' = [proc EXCEPT ![w] = s]
    BY <1>1, <1>5, <1>14, <2>1, <2>3 DEF AddEntry, Set, Done
  <2>5. /\ s \in Passes /\ s.pc = "next" /\ s.phase = r.phase
        /\ s.work = r.work \cup {r.me} /\ s.dir = f
    BY <1>3, <1>6, <2>2, <2>3 DEF Passes
  <2>6. Traced(f)
    <3>1. Traced(ldap)
      BY DEF Orderly
    <3> QED BY <1>3, <1>6, <1>11, <2>2, <3>1 DEF Traced
  <2>7. Fresh(s)
    BY <1>3, <2>2, <2>5 DEF Fresh
  <2>8. UpToDate(s)
    BY <1>3, <1>4, <1>12, <2>5 DEF UpToDate, Busy, Moving, Leaving
  <2>9. InRename(s)
    BY <2>5 DEF InRename, Moving, Leaving
  <2>10. UNCHANGED <<account, ldap, access, history>>
    BY <1>2, <2>4
  <2>11. Orderly'
    BY <2>2, <2>4, <2>5, <2>6, <2>7, <2>8, <2>9, <2>10, QuietKeeps
  <2> QED BY <2>4, <2>11
<1> QED BY <1>13, <1>14

\* What the pass writes to an entry that is there, or sees of one, is its person's.
LEMMA ApplyKeeps ==
    ASSUME AccountParameters, Orderly, NEW w \in Writers, Apply(w)
    PROVE  Orderly' /\ \A n \in Names : ldap[n].key # NoKey => ldap'[n].uid = ldap[n].uid
<1>1. PICK r : r = proc[w]
  OBVIOUS
<1>2. PICK m : m = r.me.name
  OBVIOUS
<1>3. r.pc = "apply" /\ ldap[m] # NoEntry /\ UNCHANGED <<account, access, history>>
  BY <1>1, <1>2 DEF Apply
<1>4. /\ r \in Passes /\ r.dir \in [Names -> Entries]
      /\ Traced(r.dir) /\ Fresh(r) /\ UpToDate(r) /\ InRename(r)
  BY <1>1, <1>3, AtHand
<1>5. PICK p \in Persons : r.me = Desired(p)
  BY <1>3, <1>4 DEF UpToDate, Busy
<1>6. /\ m = account[p].name /\ r.me.uid = Uid[p] /\ r.me.key = account[p].key /\ m \in Names
      /\ r.me.key \in Keys /\ r.me \in Wishes
  BY <1>2, <1>5, Wanted
<1>7. /\ r.dir[m] # NoEntry /\ ~KeyConflict(r.dir, r.me, r.keys)
      /\ \/ /\ Classify(r.dir, r.me, r.keys) = "drift"
            /\ r.dir[m].uid # Uid[p] /\ ~UidTaken(r.dir, r.me)
         \/ Classify(r.dir, r.me, r.keys) = "update" /\ r.dir[m].uid = Uid[p]
  <2>1. Outcome(r, r.me) = "apply"
    BY <1>3, <1>4 DEF UpToDate
  <2> QED BY <1>2, <1>6, <2>1, OutcomeIs
<1>8. m \in held /\ \A q \in Persons : account[q].name = m => q = p
  BY <1>6 DEF Orderly, Distinct
<1>9. /\ \A q \in Persons : Uid[q] # 0 /\ (Uid[q] = Uid[p] => q = p)
      /\ NoKey \notin Keys /\ NoEntry.uid = 0
  BY Constants
<1>10. ldap \in [Names -> Entries] /\ \A q \in Persons : account[q].name \in Names
  BY DEF Orderly, AccountTypes
<1>11. r.phase = "accounts"
  BY <1>3, <1>4 DEF UpToDate, Busy, Passes
<1>12. ldap[m] \in Entries /\ r.dir[m] \in Entries
  BY <1>4, <1>6, <1>10
<1> DEFINE change(e) == IF Classify(r.dir, r.me, r.keys) = "drift" THEN [e EXCEPT !.uid = r.me.uid]
                        ELSE [e EXCEPT !.key = r.me.key]
<1>13. PICK f : f = [r.dir EXCEPT ![m] = change(r.dir[m])]
  OBVIOUS
<1>14. PICK s : s = [r EXCEPT !.dir = f, !.pc = "next", !.me = <<>>, !.old = <<>>]
  OBVIOUS
<1>15. ldap' = [ldap EXCEPT ![m] = change(ldap[m])] /\ proc' = [proc EXCEPT ![w] = s]
  BY <1>1, <1>2, <1>13, <1>14 DEF Apply, Set, Done
<1>16. PICK e : e = change(ldap[m])
  OBVIOUS
<1>17. PICK g : g = change(r.dir[m])
  OBVIOUS
<1>18. /\ e \in Entries /\ e.pending = ldap[m].pending
       /\ IF Classify(r.dir, r.me, r.keys) = "drift" THEN e.uid = Uid[p] /\ e.key = ldap[m].key
          ELSE e.uid = ldap[m].uid /\ e.key = account[p].key
  BY <1>6, <1>12, <1>16 DEF Entries
<1>19. /\ g \in Entries /\ g.pending = r.dir[m].pending
       /\ IF Classify(r.dir, r.me, r.keys) = "drift" THEN g.uid = Uid[p] /\ g.key = r.dir[m].key
          ELSE g.uid = r.dir[m].uid /\ g.key = account[p].key
  BY <1>6, <1>12, <1>17 DEF Entries
<1> HIDE DEF change
<1>20. /\ ldap' \in [Names -> Entries] /\ ldap'[m] = e
       /\ \A n \in Names : n # m => ldap'[n] = ldap[n]
  BY <1>6, <1>10, <1>15, <1>16, <1>18
<1>21. f \in [Names -> Entries] /\ f[m] = g /\ \A n \in Names : n # m => f[n] = r.dir[n]
  BY <1>4, <1>6, <1>13, <1>17, <1>19
<1>22. /\ s \in Passes /\ s.pc = "next" /\ s.phase = r.phase /\ s.work = r.work /\ s.dir = f
  BY <1>4, <1>14, <1>21 DEF Passes
<1>23. g.uid = Uid[p]
  BY <1>7, <1>19
<1>24. Traced(f)
  BY <1>4, <1>8, <1>9, <1>10, <1>19, <1>21, <1>23 DEF Traced
<1>25. UpToDate(s)
  BY <1>4, <1>22 DEF UpToDate, Busy, Moving, Leaving
<1>26. \A n \in Names : ldap[n].uid = Uid[p] => n = m
  <2>1. CASE r.dir[m].uid = Uid[p]
    <3>1. ldap[m].uid # 0
      BY <1>3, <1>6 DEF Orderly, Traced
    <3>2. ldap[m].uid = Uid[p]
      BY <1>4, <1>6, <1>8, <1>9, <1>12, <2>1, <3>1 DEF Fresh, Entries
    <3> QED BY <1>6, <3>1, <3>2 DEF Orderly, Sound
  <2>2. CASE ~UidTaken(r.dir, r.me)
    BY <1>2, <1>4, <1>6, <1>9, <2>2 DEF Fresh, UidTaken
  <2> QED BY <1>7, <2>1, <2>2
<1>27. e.uid = Uid[p] /\ \/ ldap[m].uid = Uid[p] /\ e.key \in {ldap[m].key, account[p].key}
                         \/ ldap[m].uid # Uid[p] /\ ldap[m].key = NoKey /\ e.key = NoKey
  <2>1. CASE ldap[m].uid = Uid[p]
    BY <1>18, <2>1
  <2>2. CASE ldap[m].uid # Uid[p]
    <3>1. PICK x \in Persons : ldap[m].uid = Uid[x]
      BY <1>3, <1>6, <1>12 DEF Orderly, Traced, Entries
    <3>2. m # account[x].name
      BY <1>8, <2>2, <3>1
    <3>3. r.dir[m].uid = Uid[x] /\ r.dir[m].key = ldap[m].key
      BY <1>4, <1>6, <3>1, <3>2 DEF Fresh
    <3>4. Classify(r.dir, r.me, r.keys) = "drift"
      BY <1>7, <2>2, <3>1, <3>3
    <3>5. ldap[m].key # account[p].key
      BY <1>6, <2>2 DEF Orderly, Sound
    <3>6. ldap[m].key = NoKey
      BY <1>2, <1>6, <1>7, <2>2, <3>1, <3>3, <3>5 DEF KeyConflict
    <3> QED BY <1>18, <2>2, <3>4, <3>6
  <2> QED BY <2>1, <2>2
<1>28. UNCHANGED <<account, access, history>>
  BY <1>3
<1>29. proc[w].pc # "idle" /\ \A n \in Names : n # m => s.dir[n] = proc[w].dir[n]
  BY <1>1, <1>3, <1>21, <1>22
<1>30. e.pending \subseteq ldap[m].pending
  BY <1>18
<1>31. s.pc \in {"next", "grant"} /\ s.dir \in [Names -> Entries] /\ Traced(s.dir)
  BY <1>21, <1>22, <1>24
<1>32. /\ \A n \in Names : n # account[p].name => ldap'[n] = ldap[n]
       /\ ldap'[account[p].name].uid = Uid[p]
       /\ ldap'[account[p].name].pending \subseteq ldap[account[p].name].pending
       /\ \A n \in Names : ldap[n].uid = Uid[p] => n = account[p].name
       /\ \A n \in Names : n # account[p].name => s.dir[n] = proc[w].dir[n]
       /\ \/ /\ ldap[account[p].name].uid = Uid[p]
             /\ ldap'[account[p].name].key \in {ldap[account[p].name].key, account[p].key}
          \/ /\ ldap[account[p].name].uid # Uid[p] /\ ldap[account[p].name].key = NoKey
             /\ ldap'[account[p].name].key \in {NoKey, account[p].key}
  BY <1>6, <1>20, <1>26, <1>27, <1>29, <1>30
<1>33. proc' = [proc EXCEPT ![w] = s] /\ ldap' \in [Names -> Entries] /\ s \in Passes
  BY <1>15, <1>20, <1>22
<1> QED BY <1>25, <1>28, <1>29, <1>31, <1>32, <1>33, OwnKeeps

\* The entry is moved to its person's name, which was free.
LEMMA MoveKeeps ==
    ASSUME AccountParameters, Orderly, NEW w \in Writers, proc[w].pc # "idle",
           NEW p \in Persons, NEW o \in Names, o # account[p].name,
           ldap[o].uid = Uid[p], ldap[o].key = account[p].key, ldap[account[p].name] = NoEntry,
           p \in known \ heirs => account[p].name \in access,
           ldap' \in [Names -> Entries], ldap'[account[p].name] = ldap[o], ldap'[o] = NoEntry,
           \A n \in Names : n # account[p].name /\ n # o => ldap'[n] = ldap[n],
           UNCHANGED <<account, access, history>>,
           NEW s \in Passes, proc' = [proc EXCEPT ![w] = s], s.pc = "check",
           s.dir \in [Names -> Entries], Traced(s.dir), UpToDate(s), InRename(s),
           \A n \in Names : n # account[p].name /\ n # o => s.dir[n] = proc[w].dir[n]
    PROVE  Orderly'
<1>1. PICK r : r = proc[w]
  OBVIOUS
<1>2. PICK m : m = account[p].name
  OBVIOUS
<1>3. UNCHANGED <<account, known, overtaken, held, heirs, access>>
  BY DEF history
<1>4. /\ ldap \in [Names -> Entries] /\ access \subseteq Names /\ known \subseteq Persons
      /\ \A q \in Persons : account[q].name \in Names /\ account[q].key \in Keys
  BY DEF Orderly, AccountTypes
<1>5. /\ \A q \in Persons : Uid[q] # 0 /\ (Uid[q] = Uid[p] => q = p)
      /\ NoKey \notin Keys /\ NoEntry.uid = 0 /\ NoEntry.key = NoKey /\ NoEntry.pending = {}
  BY Constants
<1>6. m \in Names /\ m \in held /\ \A q \in Persons : account[q].name = m => q = p
  BY <1>4, <1>2 DEF Orderly, Distinct
<1>7. Traced(ldap)'
  <2>1. Traced(ldap)
    BY DEF Orderly
  <2>2. \A n \in Names : ldap'[n] # NoEntry => ldap'[n].uid # 0 /\ n \in held'
    BY <1>3, <1>5, <1>6, <2>1, <1>2 DEF Traced
  <2>3. \A n \in Names : ldap'[n].pending \subseteq held'
    BY <1>3, <1>5, <2>1, <1>2 DEF Traced
  <2>4. \A q \in Persons : ldap'[account'[q].name].uid \notin {0, Uid[q]} => q \in heirs'
    BY <1>3, <1>4, <1>5, <1>6, <2>1, <1>2 DEF Traced
  <2>5. \A q \in Persons, n \in Names : account'[q].name \in ldap'[n].pending => q \in heirs'
    BY <1>3, <1>5, <2>1, <1>2 DEF Traced
  <2> QED BY <2>2, <2>3, <2>4, <2>5 DEF Traced
<1>8. Sound'
  <2>1. \A a, b \in Names : ldap'[a].uid # 0 /\ ldap'[a].uid = ldap'[b].uid => a = b
    BY <1>5, <1>6, <1>2 DEF Orderly, Sound
  <2>2. \A q \in Persons, n \in Names : ldap'[n].key = account'[q].key => ldap'[n].uid = Uid[q]
    BY <1>3, <1>4, <1>5, <1>6, <1>2 DEF Orderly, Sound
  <2>3. ASSUME NEW q \in known PROVE \E n \in Names : ldap'[n].uid = Uid[q] /\ ldap'[n].key # NoKey
    <3>1. PICK n \in Names : ldap[n].uid = Uid[q] /\ ldap[n].key # NoKey
      BY DEF Orderly, Sound
    <3>2. CASE n = o
      BY <1>6, <3>1, <3>2, <1>2
    <3>3. CASE n # o
      BY <1>5, <3>1, <3>3, <1>2
    <3> QED BY <3>2, <3>3
  <2> QED BY <1>3, <2>1, <2>2, <2>3 DEF Sound
<1>9. ASSUME NEW q \in known \ heirs PROVE Own(q)' \subseteq access'
  <2>1. q \in Persons
    BY <1>4
  <2>2. CASE q = p
    <3>1. Own(p) \subseteq {o}
      BY <1>5, <1>2 DEF Orderly, Sound, Own
    <3>2. Own(p)' \subseteq {m}
      BY <1>5, <3>1, <1>2 DEF Own
    <3> QED BY <1>3, <1>9, <2>2, <3>2, <1>2
  <2>3. CASE q # p
    <3>1. Own(q)' \subseteq Own(q)
      BY <1>5, <2>1, <2>3, <1>2 DEF Own
    <3> QED BY <1>3, <1>9, <3>1 DEF Orderly
  <2> QED BY <2>2, <2>3
<1>10. \A q \in Persons, n \in Names : ldap'[n].uid = Uid[q] /\ n # account[q].name =>
               ldap[n].uid = Uid[q] /\ ldap[n].key = ldap'[n].key
  BY <1>5, <1>2
<1>11. \A q \in Persons, n \in Names : Mine(n, q) => Mine(n, q)' \/ Mine(account[q].name, q)'
  BY <1>3, <1>4, <1>5, <1>2 DEF Mine
<1>12. \A n \in Names : Rightful(n) => Rightful(n)'
  BY <1>3, <1>5, <1>2 DEF Rightful
<1>13. AtWork(s)'
  <2>1. Traced(s.dir)'
    BY <1>3 DEF Traced
  <2>2. Fresh(r)
    BY <1>1, AtHand
  <2>3. Fresh(s)'
    BY <1>3, <1>5, <2>2, <1>1, <1>2 DEF Fresh
  <2>4. UpToDate(s)'
    BY <1>3 DEF UpToDate, Desired
  <2>5. InRename(s)'
    BY <1>3 DEF InRename, Moving, Leaving
  <2> QED BY <2>1, <2>3, <2>4, <2>5 DEF AtWork
<1>14. access' \subseteq Names
  BY <1>3, <1>4
<1>15. \A q \in known \ heirs : account[q].name \in access => account[q].name \in access'
  BY <1>3
<1>16. UNCHANGED <<account, history>>
  OBVIOUS
<1> QED BY <1>7, <1>8, <1>9, <1>10, <1>11, <1>12, <1>13, <1>14, <1>15, <1>16, WritesKeep

\* The entry is moved, or another writer has done it.
LEMMA ModrdnKeeps ==
    ASSUME AccountParameters, Orderly, NEW w \in Writers, Modrdn(w)
    PROVE  /\ Orderly'
           /\ \A n \in Names : ldap[n].key # NoKey /\ ldap'[n] # NoEntry => ldap'[n].uid = ldap[n].uid
<1>1. PICK r : r = proc[w]
  OBVIOUS
<1>2. PICK m : m = r.me.name
  OBVIOUS
<1>3. r.pc = "modrdn" /\ UNCHANGED <<account, access, history>>
  BY <1>1 DEF Modrdn
<1>4. /\ r \in Passes /\ r.dir \in [Names -> Entries]
      /\ Traced(r.dir) /\ Fresh(r) /\ UpToDate(r) /\ InRename(r)
  BY <1>1, <1>3, AtHand
<1>5. PICK p \in Persons : r.me = Desired(p)
  BY <1>3, <1>4 DEF UpToDate, Busy, Moving
<1>6. m = account[p].name /\ r.me.uid = Uid[p] /\ r.me.key = account[p].key /\ m \in Names
  BY <1>2, <1>5, Wanted
<1>7. PICK o : o = r.old
  OBVIOUS
<1>8. /\ o \in Names /\ o # m /\ r.dir[o].uid = Uid[p] /\ r.dir[o].key = account[p].key
      /\ Mine(o, p) \/ Mine(m, p)
      /\ p \in known \ heirs => m \in access
  BY <1>2, <1>3, <1>4, <1>5, <1>6, <1>7 DEF InRename, Moving
<1>9. /\ \A q \in Persons : Uid[q] # 0 /\ (Uid[q] = Uid[p] => q = p)
      /\ NoEntry \in Entries /\ NoEntry.uid = 0 /\ NoEntry.key = NoKey
  BY Constants
<1>10. ldap \in [Names -> Entries]
  BY DEF Orderly, AccountTypes
<1>11. CASE /\ ldap[o] # NoEntry /\ ldap[m] = NoEntry
            /\ ldap' = [ldap EXCEPT ![m] = ldap[o], ![o] = NoEntry]
            /\ proc' = [proc EXCEPT ![w] =
                          [Moved(r, [r.dir[o] EXCEPT !.pending = {}]) EXCEPT !.pc = "check"]]
  <2>1. PICK e : e = [r.dir[o] EXCEPT !.pending = {}]
    OBVIOUS
  <2>2. PICK f : f = [r.dir EXCEPT ![o] = NoEntry, ![m] = e]
    OBVIOUS
  <2>3. PICK s : s = [r EXCEPT !.dir = f, !.pc = "check"]
    OBVIOUS
  <2>4. proc' = [proc EXCEPT ![w] = s]
    BY <1>2, <1>7, <1>11, <2>1, <2>2, <2>3 DEF Moved
  <2>5. r.dir[o] \in Entries
    BY <1>4, <1>8
  <2>6. e \in Entries /\ e.uid = Uid[p] /\ e.pending = {}
    BY <1>8, <2>1, <2>5 DEF Entries
  <2>7. /\ f \in [Names -> Entries] /\ f[o] = NoEntry /\ f[m] = e
        /\ \A n \in Names : n # o /\ n # m => f[n] = r.dir[n]
    BY <1>4, <1>6, <1>8, <1>9, <2>2, <2>6
  <2>8. /\ s \in Passes /\ s.pc = "check" /\ s.phase = r.phase /\ s.work = r.work /\ s.dir = f
        /\ s.me = r.me /\ s.old = r.old
    BY <1>4, <2>3, <2>7 DEF Passes
  <2>9. /\ Moving(r) /\ e.pending \subseteq held
        /\ \A q \in Persons : account[q].name \in e.pending => q \in heirs
    BY <1>3, <2>6 DEF Moving
  <2>10. /\ s.dir \in [Names -> Entries] /\ s.dir[r.old] = NoEntry /\ s.dir[r.me.name] = e
         /\ \A n \in Names : n # r.old /\ n # r.me.name => s.dir[n] = r.dir[n]
    BY <1>2, <1>7, <2>7, <2>8
  <2>11. Traced(s.dir) /\ UpToDate(s) /\ InRename(s)
    BY <1>4, <1>5, <2>6, <2>8, <2>9, <2>10, MovedKeeps
  <2>12. /\ ldap' \in [Names -> Entries] /\ ldap'[m] = ldap[o] /\ ldap'[o] = NoEntry
         /\ \A n \in Names : n # m /\ n # o => ldap'[n] = ldap[n]
    BY <1>6, <1>8, <1>9, <1>10, <1>11
  <2>13. ldap[o].uid = Uid[p] /\ ldap[o].key = account[p].key
    BY <1>8, <1>9, <1>11 DEF Mine
  <2>14. /\ ldap[m] = NoEntry /\ s.dir \in [Names -> Entries]
         /\ \A n \in Names : n # m /\ n # o => s.dir[n] = r.dir[n]
    BY <1>11, <2>7, <2>8
  <2>15. Orderly'
    <3>1. /\ proc[w].pc # "idle" /\ o # account[p].name /\ ldap[account[p].name] = NoEntry
          /\ p \in known \ heirs => account[p].name \in access
          /\ ldap' \in [Names -> Entries] /\ ldap'[account[p].name] = ldap[o] /\ ldap'[o] = NoEntry
          /\ \A n \in Names : n # account[p].name /\ n # o => ldap'[n] = ldap[n]
          /\ \A n \in Names : n # account[p].name /\ n # o => s.dir[n] = proc[w].dir[n]
      BY <1>1, <1>3, <1>6, <1>8, <2>12, <2>14
    <3> QED BY <1>3, <1>8, <2>4, <2>8, <2>10, <2>11, <2>13, <3>1, MoveKeeps
  <2>16. \A n \in Names : ldap[n].key # NoKey /\ ldap'[n] # NoEntry => ldap'[n].uid = ldap[n].uid
    BY <1>9, <1>11, <2>12
  <2> QED BY <2>15, <2>16
<1>12. CASE /\ IsThisAccount(ldap[m], r.me) /\ UNCHANGED ldap
            /\ proc' = [proc EXCEPT ![w] = [Moved(r, ldap[m]) EXCEPT !.pc = "check"]]
  <2>1. PICK e : e = ldap[m]
    OBVIOUS
  <2>2. PICK f : f = [r.dir EXCEPT ![o] = NoEntry, ![m] = e]
    OBVIOUS
  <2>3. PICK s : s = [r EXCEPT !.dir = f, !.pc = "check"]
    OBVIOUS
  <2>4. proc' = [proc EXCEPT ![w] = s]
    BY <1>2, <1>7, <1>12, <2>1, <2>2, <2>3 DEF Moved
  <2>5. e \in Entries /\ e.uid = Uid[p]
    BY <1>6, <1>10, <1>12, <2>1 DEF IsThisAccount
  <2>6. e.pending \subseteq held /\ \A q \in Persons : account[q].name \in e.pending => q \in heirs
    BY <1>6, <2>1 DEF Orderly, Traced
  <2>7. /\ f \in [Names -> Entries] /\ f[o] = NoEntry /\ f[m] = e
        /\ \A n \in Names : n # o /\ n # m => f[n] = r.dir[n]
    BY <1>4, <1>6, <1>8, <1>9, <2>2, <2>5
  <2>8. /\ s \in Passes /\ s.pc = "check" /\ s.phase = r.phase /\ s.work = r.work /\ s.dir = f
        /\ s.me = r.me /\ s.old = r.old
    BY <1>4, <2>3, <2>7 DEF Passes
  <2>9. Moving(r)
    BY <1>3 DEF Moving
  <2>10. /\ s.dir \in [Names -> Entries] /\ s.dir[r.old] = NoEntry /\ s.dir[r.me.name] = e
         /\ \A n \in Names : n # r.old /\ n # r.me.name => s.dir[n] = r.dir[n]
    BY <1>2, <1>7, <2>7, <2>8
  <2>11. Traced(s.dir) /\ UpToDate(s) /\ InRename(s)
    BY <1>4, <1>5, <2>5, <2>6, <2>8, <2>9, <2>10, MovedKeeps
  <2>12. \A q \in Persons : ldap[o].uid = Uid[q] => o = account[q].name
    <3> SUFFICES ASSUME NEW q \in Persons, ldap[o].uid = Uid[q], o # account[q].name PROVE FALSE
      OBVIOUS
    <3>1. Uid[q] = Uid[p]
      BY <1>4, <1>8 DEF Fresh
    <3>2. ldap[m].uid = Uid[p]
      BY <2>1, <2>5
    <3> QED BY <1>6, <1>8, <1>9, <3>1, <3>2 DEF Orderly, Sound
  <2>13. Fresh(s)
    BY <1>4, <2>1, <2>7, <2>8, <2>12 DEF Fresh
  <2>14. UNCHANGED <<account, ldap, access, history>>
    BY <1>3, <1>12
  <2>15. Orderly'
    BY <2>4, <2>8, <2>10, <2>11, <2>13, <2>14, QuietKeeps
  <2> QED BY <1>12, <2>15
<1> QED BY <1>1, <1>2, <1>7, <1>11, <1>12 DEF Modrdn, Set

\* Waldur changes an account while no pass is at work and no rename of the person is
\* unfinished.
LEMMA ChangeKeeps ==
    ASSUME AccountParameters, Orderly, overtaken' = {},
           NEW p \in Persons, NEW r \in [name : Names, key : Keys], ChangeAccount(p, r)
    PROVE  Orderly'
<1>1. /\ \A w \in Writers : proc[w].pc = "idle"
      /\ \A n \in Names : ldap[n].key = r.key => ldap[n].uid = Uid[p]
  BY DEF ChangeAccount
<1>2. /\ \A q \in Persons \ {p} : r.name # account[q].name /\ r.key # account[q].key
      /\ account' = [account EXCEPT ![p] = r] /\ held' = held \cup {r.name}
      /\ heirs' = IF r.name # account[p].name /\ r.name \in held THEN heirs \cup {p} ELSE heirs
      /\ UNCHANGED <<ldap, access, proc, known>>
  BY DEF ChangeAccount
<1>3. AccountTypes /\ Distinct /\ Traced(ldap) /\ Sound
  BY DEF Orderly
<1>4. /\ account' \in [Persons -> [name : Names, key : Keys]] /\ account'[p] = r
      /\ \A q \in Persons : q # p => account'[q] = account[q]
  BY <1>2, <1>3 DEF AccountTypes
<1>5. AccountTypes'
  BY <1>2, <1>3, <1>4 DEF AccountTypes
<1>6. Distinct'
  BY <1>2, <1>3, <1>4 DEF Distinct
<1>7. heirs \subseteq heirs' /\ (r.name = account[p].name \/ r.name \notin held \/ p \in heirs')
  BY <1>2
<1>8. Traced(ldap)'
  <2>1. \A n \in Names : ldap'[n] # NoEntry => ldap'[n].uid # 0 /\ n \in held'
    BY <1>2, <1>3 DEF Traced
  <2>2. \A n \in Names : ldap'[n].pending \subseteq held'
    BY <1>2, <1>3 DEF Traced
  <2>3. ASSUME NEW q \in Persons, ldap'[account'[q].name].uid \notin {0, Uid[q]} PROVE q \in heirs'
    <3>1. CASE q # p
      BY <1>2, <1>3, <1>4, <1>7, <2>3, <3>1 DEF Traced
    <3>2. CASE q = p
      <4>1. ldap[r.name].uid \notin {0, Uid[p]} /\ r.name \in Names
        BY <1>2, <1>4, <2>3, <3>2
      <4>2. r.name \in held
        BY <1>3, <4>1, Constants DEF Traced
      <4> QED BY <1>3, <1>7, <3>2, <4>1, <4>2 DEF Traced
    <3> QED BY <3>1, <3>2
  <2>4. ASSUME NEW q \in Persons, NEW n \in Names, account'[q].name \in ldap'[n].pending
        PROVE  q \in heirs'
    <3>1. CASE q # p
      BY <1>2, <1>3, <1>4, <1>7, <2>4, <3>1 DEF Traced
    <3>2. CASE q = p
      BY <1>2, <1>3, <1>4, <1>7, <2>4, <3>2 DEF Traced
    <3> QED BY <3>1, <3>2
  <2> QED BY <2>1, <2>2, <2>3, <2>4 DEF Traced
<1>9. Sound'
  BY <1>1, <1>2, <1>3, <1>4 DEF Sound
<1>10. \A q \in (known \ heirs)' : Own(q)' \subseteq access'
  BY <1>2, <1>7 DEF Orderly, Own
<1> QED BY <1>1, <1>2, <1>5, <1>6, <1>8, <1>9, <1>10 DEF Orderly

\* The agent ends, and its passes with it.
LEMMA LostKeeps ==
    ASSUME AccountParameters, Orderly, PassesLost
    PROVE  Orderly'
<1>1. UNCHANGED <<account, ldap, access, known, overtaken, held, heirs>>
  BY DEF PassesLost, history
<1>2. Idle \in Passes /\ Idle.pc = "idle"
  BY DEF Idle, Passes
<1>3. proc' \in [Writers -> Passes] /\ \A w \in Writers : proc'[w].pc = "idle"
  BY <1>2 DEF PassesLost
<1>4. AccountTypes' /\ Distinct'
  BY <1>1, <1>3 DEF Orderly, AccountTypes, Distinct
<1>5. Traced(ldap)' /\ Sound'
  BY <1>1 DEF Orderly, Traced, Sound
<1>6. \A q \in (known \ heirs)' : Own(q)' \subseteq access'
  BY <1>1 DEF Orderly, Own
<1> QED BY <1>3, <1>4, <1>5, <1>6 DEF Orderly

\* The agent finds a directory that is in order.
LEMMA AccountsBegin ==
    ASSUME AccountParameters, AccountInit
    PROVE  AccountInv
<1>1. /\ account \in [Persons -> [name : Names, key : Keys]]
      /\ \A p, q \in Persons : account[p].name = account[q].name => p = q
      /\ \A p, q \in Persons : account[p].key = account[q].key => p = q
  BY DEF AccountInit, AccountParameters
<1>2. PICK there \in SUBSET Persons : \E stamped \in SUBSET there :
         /\ ldap = [n \in Names |->
                    IF \E p \in there : account[p].name = n
                    THEN LET p == CHOOSE p \in there : account[p].name = n IN
                         [uid |-> Uid[p], key |-> IF p \in stamped THEN account[p].key ELSE NoKey,
                          pending |-> {}]
                    ELSE NoEntry]
         /\ known = stamped
  BY DEF AccountInit
<1>3. /\ known \subseteq there
       /\ ldap = [n \in Names |->
                    IF \E p \in there : account[p].name = n
                    THEN LET p == CHOOSE p \in there : account[p].name = n IN
                         [uid |-> Uid[p], key |-> IF p \in known THEN account[p].key ELSE NoKey,
                          pending |-> {}]
                    ELSE NoEntry]
  BY <1>2
<1>4. ASSUME NEW p \in there
      PROVE  /\ ldap[account[p].name] = [uid |-> Uid[p],
                       key |-> IF p \in known THEN account[p].key ELSE NoKey, pending |-> {}]
             /\ account[p].name \in Names
  <2>1. PICK n : n = account[p].name
    OBVIOUS
  <2>2. n \in Names /\ p \in Persons
    BY <1>1, <2>1
  <2>3. PICK c : c = CHOOSE q \in there : account[q].name = n
    OBVIOUS
  <2>4. c \in there /\ account[c].name = n
    BY <2>1, <2>3
  <2>5. c = p
    BY <1>1, <2>1, <2>2, <2>4
  <2>6. ldap[n] = LET q == CHOOSE q \in there : account[q].name = n IN
                  [uid |-> Uid[q], key |-> IF q \in known THEN account[q].key ELSE NoKey,
                   pending |-> {}]
    BY <1>3, <2>1, <2>2
  <2> QED BY <2>1, <2>2, <2>3, <2>5, <2>6
<1>5. \A n \in Names : (\A p \in there : account[p].name # n) => ldap[n] = NoEntry
  BY <1>3
<1>6. ASSUME NEW p \in there
      PROVE  /\ ldap[account[p].name].uid = Uid[p] /\ ldap[account[p].name].pending = {}
             /\ p \in known => ldap[account[p].name].key = account[p].key
             /\ p \notin known => ldap[account[p].name].key = NoKey
             /\ account[p].name \in Names /\ ldap[account[p].name] \in Entries
  <2>1. PICK k : k = IF p \in known THEN account[p].key ELSE NoKey
    OBVIOUS
  <2>2. /\ ldap[account[p].name] = [uid |-> Uid[p], key |-> k, pending |-> {}]
        /\ account[p].name \in Names
    BY <1>4, <1>6, <2>1
  <2>3. p \in Persons /\ k \in Keys \cup {NoKey}
    BY <1>1, <1>6, <2>1
  <2> QED BY <2>1, <2>2, <2>3 DEF Entries
<1>7. /\ \A p \in Persons : Uid[p] \in Nat /\ Uid[p] # 0
      /\ \A p, q \in Persons : Uid[p] = Uid[q] => p = q
      /\ NoKey \notin Keys
      /\ NoEntry \in Entries
      /\ NoEntry.uid = 0 /\ NoEntry.key = NoKey /\ NoEntry.pending = {}
  BY Constants
<1>8. \A n \in Names : ldap[n] # NoEntry => \E p \in there : account[p].name = n
  BY <1>5
<1>9. /\ account = Start /\ access = {n \in Names : ldap[n] # NoEntry} /\ overtaken = {}
      /\ held = {Start[p].name : p \in Persons} /\ heirs = {} /\ proc = [w \in Writers |-> Idle]
  BY DEF AccountInit
<1>10. Distinct
  BY <1>1, <1>9 DEF Distinct
<1>11. ldap \in [Names -> Entries]
  <2>1. DOMAIN ldap = Names /\ ldap = [n \in Names |-> ldap[n]]
    BY <1>3
  <2>2. \A n \in Names : ldap[n] \in Entries
    BY <1>5, <1>6, <1>7
  <2> QED BY <2>1, <2>2
<1>12. Idle \in Passes /\ Idle.pc = "idle"
  BY DEF Idle, Passes
<1>13. proc \in [Writers -> Passes] /\ \A w \in Writers : proc[w].pc = "idle"
  BY <1>9, <1>12
<1>14. AccountTypes
  BY <1>1, <1>3, <1>9, <1>11, <1>13 DEF AccountTypes
<1>15. Traced(ldap)
  <2>1. \A n \in Names : ldap[n].pending = {}
    BY <1>6, <1>7, <1>8
  <2>2. \A n \in Names : ldap[n] # NoEntry => ldap[n].uid # 0 /\ n \in held
    BY <1>6, <1>7, <1>8, <1>10 DEF Distinct
  <2>3. \A p \in Persons : ldap[account[p].name].uid \in {0, Uid[p]}
    <3> SUFFICES ASSUME NEW p \in Persons PROVE ldap[account[p].name].uid \in {0, Uid[p]}
      OBVIOUS
    <3>1. CASE p \in there
      BY <1>6, <3>1
    <3>2. CASE p \notin there
      <4>1. \A q \in there : account[q].name # account[p].name
        BY <1>1, <3>2
      <4> QED BY <1>1, <1>5, <1>7, <4>1
    <3> QED BY <3>1, <3>2
  <2> QED BY <2>1, <2>2, <2>3 DEF Traced
<1>16. Sound
  <2>1. ASSUME NEW m \in Names, NEW n \in Names, ldap[m].uid # 0, ldap[m].uid = ldap[n].uid
        PROVE  m = n
    <3>1. PICK p \in there : account[p].name = m
      BY <1>7, <1>8, <2>1
    <3>2. PICK q \in there : account[q].name = n
      BY <1>7, <1>8, <2>1
    <3> QED BY <1>6, <1>7, <2>1, <3>1, <3>2
  <2>2. ASSUME NEW p \in Persons, NEW n \in Names, ldap[n].key = account[p].key
        PROVE  ldap[n].uid = Uid[p]
    <3>1. ldap[n].key # NoKey
      BY <1>1, <1>7, <2>2
    <3>2. PICK q \in there : account[q].name = n
      BY <1>7, <1>8, <3>1
    <3>3. q = p
      BY <1>1, <1>6, <2>2, <3>1, <3>2
    <3> QED BY <1>6, <3>2, <3>3
  <2>3. ASSUME NEW p \in known PROVE \E n \in Names : ldap[n].uid = Uid[p] /\ ldap[n].key # NoKey
    <3>1. p \in known /\ p \in there /\ account[p].key \in Keys
      BY <1>1, <1>3
    <3> QED BY <1>6, <1>7, <3>1
  <2> QED BY <2>1, <2>2, <2>3 DEF Sound
<1>17. \A p \in known \ heirs : Own(p) \subseteq access
  <2> SUFFICES ASSUME NEW p \in known, NEW n \in Own(p) PROVE n \in access
    OBVIOUS
  <2>1. n \in Names /\ ldap[n].uid = Uid[p] /\ p \in Persons
    BY <1>3 DEF Own
  <2> QED BY <1>7, <1>9, <2>1
<1> QED BY <1>10, <1>13, <1>14, <1>15, <1>16, <1>17 DEF AccountInv, Orderly

\* The invariant is inductive, and no step renumbers a known entry.
LEMMA AccountStepsKeep ==
    ASSUME AccountInv, [AccountNext]_avars
    PROVE  AccountInv' /\ StampedKeepsUid
<1>1. AccountParameters
  BY DEF AccountInv
<1>2. AccountParameters'
  BY <1>1 DEF AccountParameters
<1>3. overtaken \subseteq overtaken'
  <2>1. ASSUME NEW p \in Persons, NEW r \in [name : Names, key : Keys], ChangeAccount(p, r)
        PROVE  overtaken \subseteq overtaken'
    BY <2>1 DEF ChangeAccount
  <2>2. ASSUME UNCHANGED history PROVE overtaken \subseteq overtaken'
    BY <2>2 DEF history
  <2>3. CASE UNCHANGED avars
    BY <2>2, <2>3 DEF avars
  <2>4. CASE AccountNext
    BY <2>1, <2>2, <2>4 DEF AccountNext, BeginPass, Step, AccountFails, PassesLost, NextAccount,
       Apply, AddEntry, Grant, Reread, Mark, Join, Modrdn, CheckOld, Leave, ClearRecord, FinishPending
  <2> QED BY <2>3, <2>4
<1>4. CASE overtaken = {}
  <2>1. Orderly
    BY <1>4 DEF AccountInv
  <2>2. \A n \in Names : ldap[n].uid = ldap[n].uid
    OBVIOUS
  <2>3. ASSUME UNCHANGED ldap PROVE StampedKeepsUid
    BY <2>3 DEF StampedKeepsUid
  <2>4. ASSUME \A n \in Names : ldap[n].key # NoKey /\ ldap'[n] # NoEntry => ldap'[n].uid = ldap[n].uid
        PROVE  StampedKeepsUid
    BY <2>4 DEF StampedKeepsUid
  <2>5. CASE \E p \in Persons : \E r \in [name : Names, key : Keys] : ChangeAccount(p, r)
    <3>1. PICK p \in Persons, r \in [name : Names, key : Keys] : ChangeAccount(p, r)
      BY <2>5
    <3>2. overtaken' = {} => Orderly'
      BY <1>1, <2>1, <3>1, ChangeKeeps
    <3>3. UNCHANGED ldap
      BY <3>1 DEF ChangeAccount
    <3> QED BY <1>2, <2>3, <3>2, <3>3 DEF AccountInv
  <2>6. ASSUME NEW w \in Writers, NEW b \in SUBSET Persons, BeginPass(w, b)
        PROVE  Orderly' /\ StampedKeepsUid
    BY <1>1, <2>1, <2>3, <2>6, BeginKeeps DEF BeginPass
  <2>7. ASSUME NEW w \in Writers, NextAccount(w) PROVE Orderly' /\ StampedKeepsUid
    BY <1>1, <2>1, <2>3, <2>7, NextKeeps DEF NextAccount
  <2>8. ASSUME NEW w \in Writers, Apply(w) PROVE Orderly' /\ StampedKeepsUid
    BY <1>1, <2>1, <2>4, <2>8, ApplyKeeps
  <2>9. ASSUME NEW w \in Writers, AddEntry(w) PROVE Orderly' /\ StampedKeepsUid
    BY <1>1, <2>1, <2>4, <2>9, AddKeeps
  <2>10. ASSUME NEW w \in Writers, Grant(w) PROVE Orderly' /\ StampedKeepsUid
    BY <1>1, <2>1, <2>3, <2>10, GrantKeeps
  <2>11. ASSUME NEW w \in Writers, Reread(w) PROVE Orderly' /\ StampedKeepsUid
    BY <1>1, <2>1, <2>3, <2>11, RereadKeeps DEF Reread
  <2>12. ASSUME NEW w \in Writers, Mark(w) PROVE Orderly' /\ StampedKeepsUid
    BY <1>1, <2>1, <2>4, <2>12, MarkKeeps
  <2>13. ASSUME NEW w \in Writers, Join(w) PROVE Orderly' /\ StampedKeepsUid
    BY <1>1, <2>1, <2>3, <2>13, JoinKeeps
  <2>14. ASSUME NEW w \in Writers, Modrdn(w) PROVE Orderly' /\ StampedKeepsUid
    BY <1>1, <2>1, <2>4, <2>14, ModrdnKeeps
  <2>15. ASSUME NEW w \in Writers, CheckOld(w) PROVE Orderly' /\ StampedKeepsUid
    BY <1>1, <2>1, <2>3, <2>15, CheckKeeps DEF CheckOld
  <2>16. ASSUME NEW w \in Writers, Leave(w) PROVE Orderly' /\ StampedKeepsUid
    BY <1>1, <2>1, <2>3, <2>16, LeaveKeeps
  <2>17. ASSUME NEW w \in Writers, ClearRecord(w) PROVE Orderly' /\ StampedKeepsUid
    BY <1>1, <2>1, <2>4, <2>17, ClearKeeps
  <2>18. ASSUME NEW w \in Writers, FinishPending(w) PROVE Orderly' /\ StampedKeepsUid
    BY <1>1, <2>1, <2>3, <2>18, FinishKeeps DEF FinishPending
  <2>19. ASSUME NEW w \in Writers, AccountFails(w) PROVE Orderly' /\ StampedKeepsUid
    BY <1>1, <2>1, <2>3, <2>19, FailKeeps DEF AccountFails
  <2>20. CASE PassesLost
    BY <1>1, <1>2, <2>1, <2>3, <2>20, LostKeeps DEF PassesLost, AccountInv
  <2>21. CASE UNCHANGED avars
    <3>1. UNCHANGED <<account, ldap, access, proc, known, overtaken, held, heirs>>
      BY <2>21 DEF avars, history
    <3>2. AccountTypes' /\ Distinct'
      BY <2>1, <3>1 DEF Orderly, AccountTypes, Distinct
    <3>3. Traced(ldap)' /\ Sound'
      BY <2>1, <3>1 DEF Orderly, Traced, Sound
    <3>4. \A q \in (known \ heirs)' : Own(q)' \subseteq access'
      BY <2>1, <3>1 DEF Orderly, Own
    <3>5. ASSUME NEW v \in Writers, proc'[v].pc # "idle" PROVE AtWork(proc[v])'
      <4>1. PICK x \in Passes : x = proc[v]
        BY <2>1 DEF Orderly, AccountTypes
      <4>2. AtWork(x) /\ Distinct
        BY <2>1, <3>1, <3>5, <4>1 DEF Orderly
      <4>3. UNCHANGED <<account, history>>
        BY <2>21 DEF avars
      <4>4. \A q \in Persons, n \in Names : Mine(n, q) => Mine(n, q)'
        BY <3>1 DEF Mine
      <4>5. \A n \in Names : Rightful(n) => Rightful(n)'
        BY <3>1 DEF Rightful
      <4>6. AtWork(x)'
        BY <3>1, <4>2, <4>3, <4>4, <4>5, OthersKeep
      <4> QED BY <3>1, <4>1, <4>6
    <3>6. AccountInv'
      BY <1>2, <3>2, <3>3, <3>4, <3>5 DEF AccountInv, Orderly
    <3> QED BY <2>3, <3>1, <3>6
  <2>22. CASE AccountNext
    BY <1>2, <2>5, <2>6, <2>7, <2>8, <2>9, <2>10, <2>11, <2>12, <2>13, <2>14, <2>15, <2>16, <2>17,
       <2>18, <2>19, <2>20, <2>22 DEF AccountNext, Step, AccountInv
  <2> QED BY <2>21, <2>22
<1>5. CASE overtaken # {}
  BY <1>2, <1>3, <1>5 DEF AccountInv, StampedKeepsUid
<1> QED BY <1>4, <1>5

\* The invariant says what the property does.
LEMMA AccountsKeepAccess ==
    ASSUME AccountInv
    PROVE  AccessKept /\ OneEntryPerPerson
<1>1. AccessKept
  BY DEF AccountInv, Orderly, AccessKept
<1>2. OneEntryPerPerson
  <2> SUFFICES ASSUME overtaken = {}, NEW p \in Persons, NEW m \in Own(p), NEW n \in Own(p) PROVE m = n
    BY DEF OneEntryPerPerson
  <2>1. Uid[p] # 0
    BY Constants DEF AccountInv
  <2> QED BY <2>1 DEF AccountInv, Orderly, Sound, Own
<1> QED BY <1>1, <1>2

-----------------------------------------------------------------------------
\* The specification of the account passes.
AccountSpec == AccountInit /\ [][AccountNext]_avars

\* A rename never costs a person the access nor gives them a second entry, wherever it
\* stops and whoever is at it too, as long as Waldur changes nobody under a pass
\* (_rename, _finish_rename, _ensure_account).
THEOREM AccessIsKept ==
    AccountParameters => (AccountSpec => [](AccessKept /\ OneEntryPerPerson))
<1> SUFFICES ASSUME AccountParameters PROVE AccountSpec => [](AccessKept /\ OneEntryPerPerson)
  OBVIOUS
<1>1. AccountInit => AccountInv
  BY AccountsBegin
<1>2. AccountInv /\ [AccountNext]_avars => AccountInv'
  BY AccountStepsKeep
<1>3. AccountInv => AccessKept /\ OneEntryPerPerson
  BY AccountsKeepAccess
<1> QED BY <1>1, <1>2, <1>3, PTL DEF AccountSpec

\* No step gives an entry that carries a Waldur username another uidNumber, not even
\* under the policy "adopt" (_apply_drift, the key conflict of classify).
THEOREM StampsHold ==
    AccountParameters => (AccountSpec => [][StampedKeepsUid]_avars)
<1> SUFFICES ASSUME AccountParameters PROVE AccountSpec => [][StampedKeepsUid]_avars
  OBVIOUS
<1>1. AccountInit => AccountInv
  BY AccountsBegin
<1>2. AccountInv /\ [AccountNext]_avars => AccountInv' /\ StampedKeepsUid
  BY AccountStepsKeep
<1> QED BY <1>1, <1>2, PTL DEF AccountSpec
=============================================================================
