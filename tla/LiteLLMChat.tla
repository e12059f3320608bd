---------------------------- MODULE LiteLLMChat ----------------------------
(***************************************************************************)
(* Chat that follows the key (plugins/litellm backend.py).  On an offering *)
(* with Open WebUI a person's chat is open while the key that carries it   *)
(* serves and offers that key's models.  Two actors write it: the          *)
(* membership pass (sync_resource_key_assignees, then the status pass that *)
(* pauses or restores the resource) and the per-key commands, which run on *)
(* another thread.  Every call to the proxy and to Open WebUI is a step of *)
(* its own and may fail.  One resource and one of its members: the code    *)
(* treats every member on its own.                                         *)
(***************************************************************************)
EXTENDS Integers, FiniteSets

CONSTANTS Keys,        \* slot numbers of the resource's keys
          Models,      \* the offering's models
          MaxChanges,  \* bound on commands, reassignments and holds
          MaxFaults    \* bound on failed calls

ChatParameters == Keys \subseteq Nat \ {0} /\ MaxChanges \in Nat /\ MaxFaults \in Nat

VARIABLES keys,      \* keys on the proxy: there, self-paused, models
          assigned,  \* slots of the keys Waldur assigns to the person
          held,      \* the resource is paused or downscaled in Waldur
          stamp,     \* META_KEY on the person's record, 0 for ""
          account,   \* the Open WebUI account: role and model groups
          job,       \* what the pass and the command are doing
          seen,      \* what the running pass has read
          shut,      \* the resource's keys are blocked on the proxy with their resource
          changes, chatFaults

cvars == <<keys, assigned, held, stamp, account, job, seen, shut, changes, chatFaults>>

Actors == {"pass", "command"}
Close == {"close"}       \* in place of a set of models: the chat is to be closed
None == 0                \* META_KEY "" : no key carries the chat
Idle == [pc |-> "idle", want |-> Close, alone |-> TRUE]

\* keys the proxy holds
Held(ks) == {k \in Keys : ks[k].there}

\* the lowest slot of the person's keys that the proxy holds, whatever its state
ChatKeyChoice(mine, ks) ==
    LET options == mine \cap Held(ks)
    IN  IF options = {} THEN None ELSE CHOOSE k \in options : \A o \in options : k <= o

IsSelfPaused(ks, k) == ks[k].paused

\* an empty model list on a key stands for every model of the offering
ChatModels(models) == IF models = {} THEN Models ELSE models

ChatTypeOK ==
    /\ keys \in [Keys -> [there : BOOLEAN, paused : BOOLEAN, models : SUBSET Models]]
    /\ assigned \subseteq Keys /\ held \in BOOLEAN /\ stamp \in Keys \cup {None}
    /\ account \in [role : {"none", "pending", "user"}, groups : SUBSET Models]
    /\ account.role = "none" => account.groups = {}
    /\ \A a \in Actors : job[a].want \in SUBSET Models \cup {Close}

ChatInit ==
    /\ \E minted \in SUBSET Keys :
          /\ keys = [k \in Keys |-> [there |-> k \in minted, paused |-> FALSE, models |-> Models]]
          /\ assigned \in SUBSET minted
    /\ held = FALSE /\ stamp = None
    /\ account = [role |-> "none", groups |-> {}]
    /\ job = [a \in Actors |-> Idle]
    /\ seen = [keys |-> keys, alias |-> None, held |-> FALSE, stamp |-> None]
    /\ changes = 0 /\ chatFaults = 0 /\ shut = FALSE

\* an actor moves on; `alone` says that nobody else acted during its call
Go(a, pc) ==
    job' = [b \in Actors |-> IF b = a THEN [job[a] EXCEPT !.pc = pc] ELSE [job[b] EXCEPT !.alone = FALSE]]

\* a mutant: the account is opened before its groups are set
ApplyKeyChatOpens(want) == [pc |-> IF want = Close THEN "revoke" ELSE "ensure", want |-> want, alone |-> TRUE]

(***************************************************************************)
(* _apply_key_chat, one call a step.  Closed first and groups after;       *)
(* groups first and opened after, removals before additions.               *)
(***************************************************************************)
\* the Open WebUI calls: what each leaves of the account
SetRole(role) == [account EXCEPT !.role = role]
CreateUser(role) == [role |-> role, groups |-> {}]
LeaveGroups(gs) == [account EXCEPT !.groups = @ \ gs]
JoinGroups(gs) == [account EXCEPT !.groups = @ \cup gs]

\* where an actor that has decided on `want` enters _apply_key_chat
ApplyKeyChat(want) == [pc |-> IF want = Close THEN "revoke" ELSE "narrow", want |-> want, alone |-> TRUE]

\* a finished call returns to the pass, which still has the status pass to run
After(a) == IF a = "pass" THEN "status" ELSE "idle"
Closed(a) == IF a = "command" /\ stamp # None /\ ~keys[stamp].there THEN "unstamp" ELSE After(a)

Revoke(a) ==
    /\ job[a].pc = "revoke"
    /\ account' = IF account.role = "user" THEN SetRole("pending") ELSE account
    /\ Go(a, "strip")
    /\ UNCHANGED <<keys, assigned, held, stamp, seen, shut, changes, chatFaults>>

Strip(a) ==
    /\ job[a].pc = "strip"
    /\ account' = LeaveGroups(Models)
    /\ Go(a, Closed(a))
    /\ UNCHANGED <<keys, assigned, held, stamp, seen, shut, changes, chatFaults>>

\* delete_resource_key: the record of the key's holder stops pointing at it
Unstamp ==
    /\ job["command"].pc = "unstamp"
    /\ stamp' = None
    /\ Go("command", "idle")
    /\ UNCHANGED <<keys, assigned, held, account, seen, shut, changes, chatFaults>>

\* leaves the groups of other models; without an account there is nothing to do
Narrow(a) ==
    /\ job[a].pc = "narrow"
    /\ account' = LeaveGroups(Models \ job[a].want)
    /\ Go(a, IF account.role = "none" THEN "ensure" ELSE "widen")
    /\ UNCHANGED <<keys, assigned, held, stamp, seen, shut, changes, chatFaults>>

Widen(a) ==
    /\ job[a].pc = "widen"
    /\ account' = JoinGroups(job[a].want)
    /\ Go(a, "ensure")
    /\ UNCHANGED <<keys, assigned, held, stamp, seen, shut, changes, chatFaults>>

\* a missing account is created closed, and the groups come before it is opened
EnsureChatAccount(a) ==
    /\ job[a].pc = "ensure"
    /\ IF account.role = "none"
       THEN /\ account' = CreateUser("pending")
            /\ Go(a, "narrow")
       ELSE /\ account' = SetRole("user")
            /\ Go(a, After(a))
    /\ UNCHANGED <<keys, assigned, held, stamp, seen, shut, changes, chatFaults>>

\* a call fails: the rest of the member's work is skipped, the next pass retries
ChatCallFails(a) ==
    /\ job[a].pc \in {"stamp", "reread", "revoke", "strip", "narrow", "widen", "ensure", "unstamp"}
    /\ chatFaults < MaxFaults /\ chatFaults' = chatFaults + 1
    /\ Go(a, After(a))
    /\ UNCHANGED <<keys, assigned, held, stamp, account, seen, shut, changes>>

(***************************************************************************)
(* The membership pass: sync_resource_key_assignees.                       *)
(***************************************************************************)
PassStarts ==
    /\ job["pass"].pc = "idle"
    /\ seen' = [keys |-> keys, alias |-> ChatKeyChoice(assigned, keys), held |-> held, stamp |-> stamp]
    /\ Go("pass", "stamp")
    /\ UNCHANGED <<keys, assigned, held, stamp, account, shut, changes, chatFaults>>

\* the stamp is written only when the record as listed carries another one
Stamp ==
    /\ job["pass"].pc = "stamp"
    /\ stamp' = IF seen.stamp # seen.alias THEN seen.alias ELSE stamp
    /\ Go("pass", "reread")
    /\ UNCHANGED <<keys, assigned, held, account, seen, shut, changes, chatFaults>>

\* judged by the key's own pause as listed and Waldur's flag
Serves(k) == k # None /\ ~IsSelfPaused(seen.keys, k) /\ ~seen.held

\* the key is read again just before the chat is opened
Reread ==
    /\ job["pass"].pc = "reread"
    /\ LET k == seen.alias
           opens == Serves(k) /\ keys[k].there /\ ~IsSelfPaused(keys, k)
       IN job' = [job EXCEPT !["pass"] = ApplyKeyChat(IF opens THEN ChatModels(keys[k].models) ELSE Close)]
    /\ UNCHANGED <<keys, assigned, held, stamp, account, seen, shut, changes, chatFaults>>

\* the status pass reads the keys and the members anew, the resource it was given
StatusReads ==
    /\ job["pass"].pc = "status"
    /\ seen' = [seen EXCEPT !.keys = keys, !.stamp = stamp]
    /\ shut' = seen.held
    /\ Go("pass", "access")
    /\ UNCHANGED <<keys, assigned, held, stamp, account, changes, chatFaults>>

\* pause_resource demotes every member; restore_resource re-enables an existing
\* account whose stamped key is there and not paused on its own
SetChatAccess ==
    /\ job["pass"].pc = "access"
    /\ LET k == seen.stamp
           back == k # None /\ seen.keys[k].there /\ ~IsSelfPaused(seen.keys, k)
       IN account' = CASE seen.held /\ account.role = "user" -> SetRole("pending")
                       [] ~seen.held /\ account.role = "pending" /\ back -> SetRole("user")
                       [] OTHER -> account
    /\ Go("pass", "idle")
    /\ UNCHANGED <<keys, assigned, held, stamp, seen, shut, changes, chatFaults>>

\* the status call fails for this member
StatusFails ==
    /\ job["pass"].pc = "access"
    /\ chatFaults < MaxFaults /\ chatFaults' = chatFaults + 1
    /\ Go("pass", "idle")
    /\ UNCHANGED <<keys, assigned, held, stamp, account, seen, shut, changes>>

(***************************************************************************)
(* The per-key commands: the key is written, then its holder's chat.       *)
(***************************************************************************)
Command == job["command"].pc = "idle" /\ changes < MaxChanges /\ changes' = changes + 1

\* the chat of the key's holder, if the person's record points at it
Follow(k, want) ==
    job' = IF stamp = k THEN [job EXCEPT !["command"] = ApplyKeyChat(want)] ELSE job

PauseResourceKey(k) ==
    /\ Command
    /\ keys' = [keys EXCEPT ![k].paused = keys[k].there]
    /\ Follow(k, Close)
    /\ UNCHANGED <<assigned, held, stamp, account, seen, shut, chatFaults>>

\* resume and update write the settings, lift the pause and reopen the chat
\* unless the resource holds the key
ConfigureKey(k, models) ==
    /\ Command /\ keys[k].there
    /\ keys' = [keys EXCEPT ![k].paused = FALSE, ![k].models = models]
    /\ Follow(k, IF shut THEN Close ELSE ChatModels(models))
    /\ UNCHANGED <<assigned, held, stamp, account, seen, shut, chatFaults>>

\* the key goes, the chat closes, and the record stops pointing at the key (Unstamp)
DeleteResourceKey(k) ==
    /\ Command
    /\ keys' = [keys EXCEPT ![k].there = FALSE, ![k].paused = FALSE]
    /\ Follow(k, Close)
    /\ UNCHANGED <<assigned, held, stamp, account, seen, shut, chatFaults>>

\* a key is minted into a free slot
MintResourceKey(k, models) ==
    /\ Command /\ ~keys[k].there
    /\ keys' = [keys EXCEPT ![k] = [there |-> TRUE, paused |-> FALSE, models |-> models]]
    /\ UNCHANGED <<assigned, held, stamp, account, job, seen, shut, chatFaults>>

(* Waldur: a key is reassigned, or the resource is paused or restored *)
Reassign(ks) ==
    /\ changes < MaxChanges /\ changes' = changes + 1
    /\ ks # assigned /\ assigned' = ks
    /\ UNCHANGED <<keys, held, stamp, account, job, seen, shut, chatFaults>>

\* a hold that is lifted again counts as one change with it
HoldOrRelease ==
    /\ held' = ~held
    /\ IF held THEN UNCHANGED changes ELSE changes < MaxChanges /\ changes' = changes + 1
    /\ UNCHANGED <<keys, assigned, stamp, account, job, seen, shut, chatFaults>>

PassStep == PassStarts \/ Stamp \/ Reread \/ StatusReads \/ SetChatAccess
ApplyStep(a) == Revoke(a) \/ Strip(a) \/ Narrow(a) \/ Widen(a) \/ EnsureChatAccount(a)

ChatNext ==
    \/ PassStep \/ StatusFails \/ Unstamp
    \/ \E a \in Actors : ApplyStep(a) \/ ChatCallFails(a)
    \/ \E k \in Keys : PauseResourceKey(k) \/ DeleteResourceKey(k)
    \/ \E k \in Keys, ms \in SUBSET Models : ConfigureKey(k, ms) \/ MintResourceKey(k, ms)
    \/ \E ks \in SUBSET Keys : Reassign(ks)
    \/ HoldOrRelease

(***************************************************************************)
(* Properties.                                                             *)
(***************************************************************************)
\* The state Waldur asks for: the chat is open exactly while the key that
\* carries it serves, with that key's models.
InLine ==
    LET k == ChatKeyChoice(assigned, keys)
        serves == k # None /\ ~keys[k].paused /\ ~held
    IN  /\ account.role = "user" <=> serves
        /\ serves => account.groups = ChatModels(keys[k].models)

\* what the person can use in the chat
Served(acc) == IF acc.role = "user" THEN acc.groups ELSE {}
Gains == Served(account') \ Served(account)

\* _apply_key_chat: no step gives the person a model that the key it acts for
\* does not allow, be the chat closed or open before, whatever call failed
\* earlier, unless the other actor wrote in between.  A restore (_set_chat_access_for_resource)
\* sets no groups: it too gives none, once every call was answered.
OpensNarrow ==
    /\ \A a \in Actors : ApplyStep(a) /\ job[a].alone => Gains \subseteq job[a].want
    /\ SetChatAccess /\ job["pass"].alone /\ chatFaults = 0 /\ seen.stamp # None =>
          Gains \subseteq ChatModels(seen.keys[seen.stamp].models)

\* _apply_key_chat: "a failed Open WebUI call leaves the account closed, never
\* serving with the groups an earlier, wider key left it in".
FailedCallCloses ==
    \A a \in Actors :
       ChatCallFails(a) /\ job[a].pc \in {"narrow", "widen", "ensure"} /\ job[a].alone
       => Served(account') \subseteq job[a].want
=============================================================================
