---------------------------- MODULE ApiKeyCommands ----------------------------
(***************************************************************************)
(* Commands about single API keys of one resource: what Waldur keeps of a   *)
(* key, how the agent carries a command out on a LiteLLM proxy and answers  *)
(* it, the sweep that replays a command without an answer, and the status   *)
(* pass that applies the pause of the whole resource to the same keys.  The *)
(* STOMP handler and the main loop (sweep, status pass) work at once, each  *)
(* with a backend object of its own.                                        *)
(*                                                                          *)
(* A key of the proxy is its alias, its secret, whether it is blocked and   *)
(* whether it is recorded as paused on its own (waldur_key_paused).  Left   *)
(* out: limits, model lists and the chat accounts of holders.               *)
(***************************************************************************)
EXTENDS Integers, FiniteSets, Sequences

CONSTANTS
    Rows,          \* the keys Waldur may come to hold
    Slots,         \* 1..n: the aliases of the resource
    Enterprise,    \* the proxy has /key/regenerate
    MaxRequests, MaxFaults   \* bounds: what users ask for, what goes wrong

KeyParameters ==
    /\ Slots = 1..Cardinality(Slots)
    /\ Enterprise \in BOOLEAN
    /\ {MaxRequests, MaxFaults} \subseteq Nat

VARIABLES
    row,        \* Waldur: state, pending_action, client_id and secret of each key
    paused,     \* Waldur: the resource is paused
    proxy,      \* the keys on the proxy
    msgs,       \* STOMP messages on their way, in order
    late,       \* set_key requests given up on that may still land
    worker,     \* the STOMP handler and the main loop
    secrets,    \* secrets made so far
    requests, faults,
    stray,      \* history: aliases of keys whose command ended in the middle, or whose
                \* /key/generate was carried out without a reply
    raced       \* history: keys whose late set_key landed after all, or that got a
                \* command while the agent was still about the last

kvars == <<row, paused, proxy, msgs, late, worker, secrets, requests, faults, stray, raced>>

NoSlot == 0
NoRow == [st |-> "none", act |-> "", id |-> NoSlot, secret |-> 0]
NoKey == [there |-> FALSE, secret |-> 0, blocked |-> FALSE, own |-> FALSE]
Workers == {"handler", "main"}
Actions == {"create", "rotate", "pause", "resume", "update", "delete"}
Idle == [pc |-> "idle", act |-> "", row |-> "", id |-> NoSlot, reserved |-> {}, flag |-> FALSE,
         todo |-> {}, seen |-> <<>>, slot |-> NoSlot, secret |-> 0, op |-> "none", blocked |-> FALSE]

InFlight(r) == r.st \in {"creating", "updating", "deleting"}
There == {s \in Slots : proxy[s].there}

KeyTypeOK ==
    /\ row \in [Rows -> [st : {"none", "creating", "updating", "deleting", "ok", "paused", "erred", "deleted"},
                         act : Actions \cup {""}, id : Slots \cup {NoSlot}, secret : Nat]]
    /\ proxy \in [Slots -> [there : BOOLEAN, secret : Nat, blocked : BOOLEAN, own : BOOLEAN]]
    /\ msgs \in Seq([row : Rows, act : Actions, id : Slots \cup {NoSlot}])
    /\ \A w \in Workers : worker[w].pc \in
          {"idle", "read", "apply", "again", "act", "mint", "renew", "ack", "ask", "withdraw", "erred"}
    /\ \A k \in Rows : InFlight(row[k]) <=> row[k].act # ""

\* No key yet, or one that serves.
KeyInit ==
    /\ \E have \in {{}, {CHOOSE k \in Rows : TRUE}} :
         /\ row = [k \in Rows |-> IF k \in have THEN [st |-> "ok", act |-> "", id |-> 1, secret |-> 1] ELSE NoRow]
         /\ proxy = [s \in Slots |-> IF s = 1 /\ have # {} THEN [NoKey EXCEPT !.there = TRUE, !.secret = 1] ELSE NoKey]
    /\ paused = FALSE
    /\ msgs = <<>> /\ late = {}
    /\ worker = [w \in Workers |-> Idle]
    /\ secrets = 1 /\ requests = 0 /\ faults = 0
    /\ stray = {} /\ raced = {}

-----------------------------------------------------------------------------
(* Waldur.                                                                   *)

\* A command is accepted when none is pending; a requested key can be deleted
\* while it is created.
Accepts(r, a) ==
    CASE a = "create" -> r.st = "none"
      [] a = "delete" -> r.st \in {"ok", "paused", "erred", "creating"}
      [] a = "rotate" -> r.st = "ok" \/ (r.st = "erred" /\ r.id # NoSlot)
      [] a = "resume" -> r.st = "paused"
      [] OTHER -> r.st = "ok"

Pending(a) == CASE a = "create" -> "creating" [] a = "delete" -> "deleting" [] OTHER -> "updating"

\* The agent still has a command about the key, which Waldur takes for settled.
AtWork(k) == (\E w \in Workers : worker[w].row = k) \/ (\E i \in DOMAIN msgs : msgs[i].row = k)

Request(k, a) ==
    /\ requests < MaxRequests /\ Accepts(row[k], a)
    /\ requests' = requests + 1
    /\ row' = [row EXCEPT ![k].st = Pending(a), ![k].act = a]
    /\ msgs' = Append(msgs, [row |-> k, act |-> a, id |-> row[k].id])
    /\ raced' = IF a # "delete" /\ AtWork(k) THEN raced \cup {k} ELSE raced
    /\ UNCHANGED <<paused, proxy, late, worker, secrets, faults, stray>>

PauseResource ==
    /\ requests < MaxRequests
    /\ requests' = requests + 1
    /\ paused' = ~paused
    /\ UNCHANGED <<row, proxy, msgs, late, worker, secrets, faults, stray, raced>>

\* set_key, set_paused, set_ok and set_deleted answer the command in flight and
\* no other; a client_id is one key's for good.
Answers(k, a, slot) ==
    /\ row[k].act = a
    /\ a = "create" => \A j \in Rows \ {k} : row[j].id # slot

Settled(r, a, slot, secret) ==
    CASE a \in {"create", "rotate"} -> [st |-> "ok", act |-> "", id |-> slot, secret |-> secret]
      [] a = "pause" -> [r EXCEPT !.st = "paused", !.act = ""]
      [] a = "delete" -> [r EXCEPT !.st = "deleted", !.act = ""]
      [] OTHER -> [r EXCEPT !.st = "ok", !.act = ""]

MessageLost ==
    /\ faults < MaxFaults /\ faults' = faults + 1
    /\ msgs # <<>> /\ msgs' = Tail(msgs)
    /\ UNCHANGED <<row, paused, proxy, late, worker, secrets, requests, stray, raced>>

\* A set_key nobody waits for any more reaches Waldur.
LateLands(l) ==
    /\ late' = late \ {l}
    /\ row' = IF Answers(l.row, l.act, l.slot)
              THEN [row EXCEPT ![l.row] = Settled(row[l.row], l.act, l.slot, l.secret)] ELSE row
    /\ raced' = IF Answers(l.row, l.act, l.slot) THEN raced \cup {l.row} ELSE raced
    /\ UNCHANGED <<paused, proxy, msgs, worker, secrets, requests, faults, stray>>

-----------------------------------------------------------------------------
(* The agent takes a command.                                                *)

Set(w, r) == worker' = [worker EXCEPT ![w] = r]
Goto(w, pc) == Set(w, [worker[w] EXCEPT !.pc = pc])

\* create, resume, update and rotate read Waldur first; a delete without a
\* client_id has nothing to do on the proxy.
First(a, id) ==
    CASE a \in {"create", "resume", "update", "rotate"} -> "read"
      [] a = "delete" /\ id = NoSlot -> "ack"
      [] OTHER -> "act"

Command(k, a, id) == [Idle EXCEPT !.pc = First(a, id), !.act = a, !.row = k, !.id = id, !.slot = id]

OnMessage ==
    /\ worker["handler"].pc = "idle" /\ msgs # <<>>
    /\ msgs' = Tail(msgs)
    /\ Set("handler", Command(Head(msgs).row, Head(msgs).act, Head(msgs).id))
    /\ UNCHANGED <<row, paused, proxy, late, secrets, requests, faults, stray, raced>>

\* A key in flight for longer than the handler ever takes.
Stuck(k) == InFlight(row[k])

\* The sweep replays what the key awaits, as its row has it.
Sweep(k) ==
    /\ worker["main"].pc = "idle"
    /\ Stuck(k) /\ \A i \in DOMAIN msgs : msgs[i].row # k
    /\ worker["handler"].pc = "idle" \/ worker["handler"].row # k
    /\ Set("main", Command(k, row[k].act, row[k].id))
    /\ UNCHANGED <<row, paused, proxy, msgs, late, secrets, requests, faults, stray, raced>>

StatusPass ==
    /\ worker["main"].pc = "idle"
    /\ Set("main", [Idle EXCEPT !.pc = "read", !.act = "status"])
    /\ UNCHANGED <<row, paused, proxy, msgs, late, secrets, requests, faults, stray, raced>>

\* The client_ids Waldur holds, deleted keys included, and the resource's pause.
Read(w) ==
    /\ worker[w].pc = "read"
    /\ Set(w, [worker[w] EXCEPT !.pc = "apply", !.flag = paused, !.seen = proxy, !.todo = There,
                                !.reserved = {row[k].id : k \in Rows} \ {NoSlot}])
    /\ UNCHANGED <<row, paused, proxy, msgs, late, secrets, requests, faults, stray, raced>>

\* Waldur does not answer before anything was applied: left pending.
NotYet(w) ==
    /\ faults < MaxFaults /\ faults' = faults + 1
    /\ worker[w].pc = "read"
    /\ Set(w, Idle)
    /\ UNCHANGED <<row, paused, proxy, msgs, late, secrets, requests, stray, raced>>

-----------------------------------------------------------------------------
(* pause_resource and restore_resource, key by key over a listing.           *)

\* A restore reads again the keys that are blocked without a pause of their own,
\* to unblock them, and those that serve in spite of one, to block them.
Op(seen, now) ==
    IF seen.own THEN (IF now.own /\ ~now.blocked THEN "block" ELSE "none")
    ELSE IF now.own THEN "none" ELSE "unblock"

NextKey(w, s) == [worker[w] EXCEPT !.pc = "apply", !.todo = @ \ {s}, !.slot = worker[w].id, !.op = "none"]

ApplyPause(w) ==
    /\ worker[w].pc = "apply" /\ worker[w].flag
    /\ \E s \in worker[w].todo :
         /\ proxy' = IF proxy[s].there THEN [proxy EXCEPT ![s].blocked = TRUE] ELSE proxy
         /\ Set(w, NextKey(w, s))
    /\ UNCHANGED <<row, paused, msgs, late, secrets, requests, faults, stray, raced>>

ApplyRestore(w) ==
    /\ worker[w].pc = "apply" /\ ~worker[w].flag
    /\ \E s \in worker[w].todo :
         LET seen == worker[w].seen[s]
             op == IF seen.blocked # seen.own /\ proxy[s].there THEN Op(seen, proxy[s]) ELSE "none" IN
         Set(w, IF op = "none" THEN NextKey(w, s) ELSE [worker[w] EXCEPT !.pc = "again", !.slot = s, !.op = op])
    /\ UNCHANGED <<row, paused, proxy, msgs, late, secrets, requests, faults, stray, raced>>

\* The block or unblock itself, after the key was read again.
ApplyAgain(w) ==
    /\ worker[w].pc = "again"
    /\ LET s == worker[w].slot IN
       /\ proxy' = IF proxy[s].there THEN [proxy EXCEPT ![s].blocked = (worker[w].op = "block")] ELSE proxy
       /\ Set(w, NextKey(w, s))
    /\ UNCHANGED <<row, paused, msgs, late, secrets, requests, faults, stray, raced>>

Ready(w) ==
    /\ worker[w].pc = "apply" /\ worker[w].todo = {}
    /\ Set(w, IF worker[w].act = "status" THEN Idle ELSE [worker[w] EXCEPT !.pc = "act", !.seen = <<>>])
    /\ UNCHANGED <<row, paused, proxy, msgs, late, secrets, requests, faults, stray, raced>>

-----------------------------------------------------------------------------
(* The command on the proxy.                                                 *)

\* _resource_is_paused: what Waldur said, or else what the keys show.
IsPaused(w) ==
    LET others == {s \in There : ~proxy[s].own} IN
    worker[w].flag \/ (others # {} /\ \A s \in others : proxy[s].blocked)

Put(s, blocked) == [proxy EXCEPT ![s] = [there |-> TRUE, secret |-> secrets + 1, blocked |-> blocked, own |-> FALSE]]

\* mint_resource_key: the next slot neither the proxy nor Waldur has.
NextSlot(w) ==
    LET free == Slots \ (There \cup worker[w].reserved) IN {s \in free : \A t \in free : s <= t}

Mint(w) ==
    /\ worker[w].pc = "act" /\ worker[w].act = "create"
    /\ \E s \in NextSlot(w) :
         /\ proxy' = Put(s, IsPaused(w))
         /\ Set(w, [worker[w] EXCEPT !.pc = "ack", !.slot = s, !.secret = secrets + 1])
    /\ secrets' = secrets + 1
    /\ UNCHANGED <<row, paused, msgs, late, requests, faults, stray, raced>>

\* rotate_resource_key: the key's own pause is lifted and its settings written;
\* a key the proxy lost is minted again.
Rotate(w) ==
    /\ worker[w].pc = "act" /\ worker[w].act = "rotate"
    /\ LET s == worker[w].slot
           r == [worker[w] EXCEPT !.blocked = IsPaused(w)] IN
       IF proxy[s].there
       THEN /\ proxy' = [proxy EXCEPT ![s].own = FALSE, ![s].blocked = IsPaused(w)]
            /\ Set(w, [r EXCEPT !.pc = "renew"])
       ELSE /\ Set(w, [r EXCEPT !.pc = "mint"])
            /\ UNCHANGED proxy
    /\ UNCHANGED <<row, paused, msgs, late, secrets, requests, faults, stray, raced>>

\* Regenerated in place, or deleted to be minted under the same alias.
Renew(w) ==
    /\ worker[w].pc = "renew"
    /\ LET s == worker[w].slot IN
       IF ~proxy[s].there THEN Goto(w, "erred") /\ UNCHANGED <<proxy, secrets>>
       ELSE IF Enterprise
       THEN /\ proxy' = [proxy EXCEPT ![s].secret = secrets + 1]
            /\ Set(w, [worker[w] EXCEPT !.pc = "ack", !.secret = secrets + 1])
            /\ secrets' = secrets + 1
       ELSE /\ proxy' = [proxy EXCEPT ![s] = NoKey]
            /\ Goto(w, "mint")
            /\ UNCHANGED secrets
    /\ UNCHANGED <<row, paused, msgs, late, requests, faults, stray, raced>>

\* The proxy refuses an alias it has.
MintAgain(w) ==
    /\ worker[w].pc = "mint"
    /\ IF proxy[worker[w].slot].there
       THEN Goto(w, "erred") /\ UNCHANGED <<proxy, secrets>>
       ELSE /\ proxy' = Put(worker[w].slot, worker[w].blocked)
            /\ Set(w, [worker[w] EXCEPT !.pc = "ack", !.secret = secrets + 1])
            /\ secrets' = secrets + 1
    /\ UNCHANGED <<row, paused, msgs, late, requests, faults, stray, raced>>

\* pause_resource_key and delete_resource_key; a missing key is no failure.
PauseOrDelete(w) ==
    /\ worker[w].pc = "act" /\ worker[w].act \in {"pause", "delete"}
    /\ LET s == worker[w].slot IN
       proxy' = CASE worker[w].act = "delete" -> [proxy EXCEPT ![s] = NoKey]
                  [] worker[w].act = "pause" /\ proxy[s].there ->
                        [proxy EXCEPT ![s].own = TRUE, ![s].blocked = TRUE]
                  [] OTHER -> proxy
    /\ Goto(w, "ack")
    /\ UNCHANGED <<row, paused, msgs, late, secrets, requests, faults, stray, raced>>

\* _configure_key
Configure(w) ==
    /\ worker[w].pc = "act" /\ worker[w].act \in {"resume", "update"}
    /\ LET s == worker[w].slot IN
       /\ proxy' = IF proxy[s].there THEN [proxy EXCEPT ![s].own = FALSE, ![s].blocked = IsPaused(w)] ELSE proxy
       /\ Goto(w, IF proxy[s].there THEN "ack" ELSE "erred")
    /\ UNCHANGED <<row, paused, msgs, late, secrets, requests, faults, stray, raced>>

\* The proxy after the call w is at, where that call is about a key it has.
Carried(w) ==
    LET r == worker[w] IN
    CASE r.pc = "again" -> [proxy EXCEPT ![r.slot].blocked = (r.op = "block")]
      [] r.pc = "renew" /\ Enterprise -> [proxy EXCEPT ![r.slot].secret = secrets + 1]
      [] r.pc = "renew" \/ r.act = "delete" -> [proxy EXCEPT ![r.slot] = NoKey]
      [] r.act = "pause" -> [proxy EXCEPT ![r.slot].own = TRUE, ![r.slot].blocked = TRUE]
      [] OTHER -> [proxy EXCEPT ![r.slot].own = FALSE, ![r.slot].blocked = IsPaused(w)]

GivesUp(w) ==
    /\ faults < MaxFaults /\ faults' = faults + 1
    /\ Set(w, IF worker[w].act = "status" THEN Idle ELSE [worker[w] EXCEPT !.pc = "erred"])
    /\ UNCHANGED <<row, paused, msgs, late, requests, raced>>

\* The proxy refuses, or is not reached.
BackendFails(w) ==
    /\ worker[w].pc \in {"apply", "again", "act", "mint", "renew"}
    /\ GivesUp(w)
    /\ UNCHANGED <<proxy, secrets, stray>>

\* The proxy does what it is asked and the reply is lost (_request): a key it
\* minted is nobody's, since its alias was only about to be told to Waldur.
ReplyLost(w) ==
    /\ GivesUp(w)
    /\ \/ /\ worker[w].pc = "act" /\ worker[w].act = "create"
          /\ \E s \in NextSlot(w) : proxy' = Put(s, IsPaused(w)) /\ stray' = stray \cup {s}
          /\ secrets' = secrets + 1
       \/ /\ worker[w].pc = "mint" /\ ~proxy[worker[w].slot].there
          /\ proxy' = Put(worker[w].slot, worker[w].blocked)
          /\ secrets' = secrets + 1 /\ UNCHANGED stray
       \/ /\ worker[w].pc \in {"again", "renew"} \/ (worker[w].pc = "act" /\ worker[w].act # "create")
          /\ proxy[worker[w].slot].there /\ proxy' = Carried(w)
          /\ secrets' = (IF worker[w].pc = "renew" /\ Enterprise THEN secrets + 1 ELSE secrets)
          /\ UNCHANGED stray

-----------------------------------------------------------------------------
(* The answer to Waldur.                                                     *)

Acknowledge(w) ==
    /\ worker[w].pc = "ack"
    /\ LET r == worker[w] IN
       IF Answers(r.row, r.act, r.slot)
       THEN /\ row' = [row EXCEPT ![r.row] = Settled(@, r.act, r.slot, r.secret)]
            /\ Set(w, Idle)
       ELSE /\ Set(w, [r EXCEPT !.pc = IF r.act = "create" THEN "withdraw" ELSE "erred"])
            /\ UNCHANGED row
    /\ UNCHANGED <<paused, proxy, msgs, late, secrets, requests, faults, stray, raced>>

\* No answer: it landed, it did not, or it will.
NoAnswer(w) ==
    /\ faults < MaxFaults /\ faults' = faults + 1
    /\ worker[w].pc = "ack"
    /\ LET r == worker[w] IN
       /\ \/ UNCHANGED <<row, late>>
          \/ /\ row' = IF Answers(r.row, r.act, r.slot)
                       THEN [row EXCEPT ![r.row] = Settled(@, r.act, r.slot, r.secret)] ELSE row
             /\ UNCHANGED late
          \/ /\ late' = late \cup {[row |-> r.row, act |-> r.act, slot |-> r.slot, secret |-> r.secret]}
             /\ UNCHANGED row
       /\ Set(w, [r EXCEPT !.pc = IF r.act = "create" THEN "ask" ELSE "erred", !.op = "unanswered"])
    /\ UNCHANGED <<paused, proxy, msgs, secrets, requests, stray, raced>>

\* Mutant: a set_key without an answer is taken to have failed.
SetKeyLandedDenied(w) ==
    /\ worker[w].pc = "ask"
    /\ Goto(w, "withdraw")
    /\ UNCHANGED <<row, paused, proxy, msgs, late, secrets, requests, faults, stray, raced>>

\* _set_key_landed
SetKeyLanded(w) ==
    /\ worker[w].pc = "ask"
    /\ Goto(w, IF row[worker[w].row].id = worker[w].slot THEN "erred" ELSE "withdraw")
    /\ UNCHANGED <<row, paused, proxy, msgs, late, secrets, requests, faults, stray, raced>>

CannotTell(w) ==
    /\ faults < MaxFaults /\ faults' = faults + 1
    /\ worker[w].pc \in {"ask", "withdraw"}
    /\ stray' = stray \cup {worker[w].slot}
    /\ Set(w, IF worker[w].op = "unanswered" THEN [worker[w] EXCEPT !.pc = "erred"] ELSE Idle)
    /\ UNCHANGED <<row, paused, proxy, msgs, late, secrets, requests, raced>>

Withdraw(w) ==
    /\ worker[w].pc = "withdraw"
    /\ proxy' = [proxy EXCEPT ![worker[w].slot] = NoKey]
    /\ Set(w, IF worker[w].op = "unanswered" THEN [worker[w] EXCEPT !.pc = "erred"] ELSE Idle)
    /\ UNCHANGED <<row, paused, msgs, late, secrets, requests, faults, stray, raced>>

\* set_erred, which Waldur takes only while a command is in flight.
SetErred(w) ==
    /\ worker[w].pc = "erred"
    /\ LET k == worker[w].row IN
       row' = IF InFlight(row[k]) THEN [row EXCEPT ![k].st = "erred", ![k].act = ""] ELSE row
    /\ Set(w, Idle)
    /\ UNCHANGED <<paused, proxy, msgs, late, secrets, requests, faults, stray, raced>>

SetErredLost(w) ==
    /\ faults < MaxFaults /\ faults' = faults + 1
    /\ worker[w].pc = "erred"
    /\ Set(w, Idle)
    /\ UNCHANGED <<row, paused, proxy, msgs, late, secrets, requests, stray, raced>>

\* The agent ends.
Crash ==
    /\ faults < MaxFaults /\ faults' = faults + 1
    /\ stray' = stray \cup {worker[w].slot : w \in {v \in Workers :
                    worker[v].act = "create" /\ worker[v].pc \in {"ack", "ask", "withdraw"}}}
    /\ worker' = [w \in Workers |-> Idle]
    /\ UNCHANGED <<row, paused, proxy, msgs, late, secrets, requests, raced>>

Work(w) == Read(w) \/ ApplyPause(w) \/ ApplyRestore(w) \/ ApplyAgain(w) \/ Ready(w) \/ Mint(w) \/ Rotate(w)
           \/ Renew(w) \/ MintAgain(w) \/ PauseOrDelete(w) \/ Configure(w) \/ Acknowledge(w)
           \/ SetKeyLanded(w) \/ Withdraw(w) \/ SetErred(w)
Trouble(w) == NotYet(w) \/ BackendFails(w) \/ ReplyLost(w) \/ NoAnswer(w) \/ CannotTell(w) \/ SetErredLost(w)

KeyNext ==
    \/ \E k \in Rows, a \in Actions : Request(k, a)
    \/ PauseResource
    \/ MessageLost \/ OnMessage
    \/ \E l \in late : LateLands(l)
    \/ \E k \in Rows : Sweep(k)
    \/ StatusPass
    \/ \E w \in Workers : Work(w) \/ Trouble(w)
    \/ Crash

-----------------------------------------------------------------------------
Settles(k) == row[k].st \in {"ok", "paused"} /\ k \notin raced

\* A key Waldur shows as settled is one the proxy has, with the secret Waldur
\* hands out, whatever is lost, replayed or interrupted; but for a set_key that
\* lands after the agent gave it up, and a command that meets the last one.
SettledIsLive ==
    \A k \in Rows : Settles(k) => proxy[row[k].id].there /\ proxy[row[k].id].secret = row[k].secret

\* With no command at work, every key on the proxy is one Waldur holds: a key
\* Waldur refuses or never learns of is withdrawn, unless the agent ended, or
\* failed once more, in between, or the reply that told its alias and secret was
\* lost: that key stays on the proxy until the resource goes.
NoStrayKey ==
    (\A w \in Workers : worker[w].pc = "idle") =>
        \A s \in There \ stray : \E k \in Rows : row[k].id = s /\ (row[k].st # "deleted" \/ k \in raced)

\* Once Waldur stays as it is, a key serves exactly when neither it nor its
\* resource is paused, although pauses of keys and of the resource are written
\* to the same flag by workers that do not wait for each other.
PausesInStep ==
    \A k \in Rows : Settles(k) => proxy[row[k].id].blocked = (paused \/ row[k].st = "paused")

\* No key stays in flight: a command whose message, handler or answer was lost
\* is replayed by the sweep.
NothingInFlight == \A k \in Rows : ~InFlight(row[k])
===============================================================================
