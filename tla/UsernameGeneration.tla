------------------------ MODULE UsernameGeneration ------------------------
(***************************************************************************)
(* Usernames of offering users (waldur_site_agent/common/utils.py,         *)
(* update_offering_users): a pass lists the rows, then takes each one      *)
(* through begin_creating, the identity provider and the write-back, with  *)
(* the state the listing gave it. The periodic pass and the passes that    *)
(* events start overlap.                                                   *)
(***************************************************************************)
EXTENDS Integers, FiniteSets

CONSTANTS Holders,          \* offering users
          Namers,          \* threads that run update_offering_users
          MaxIdpChanges,    \* bound: changes of what the provider answers
          MaxNameFaults     \* bound: failed calls to Waldur and interruptions

VARIABLES rows,        \* [user -> [state, named]] in Waldur
          answer,      \* [user -> what the identity provider says of the person]
          allowed,     \* the offering's policy lets the agent generate names
          todo,        \* [thread -> set of <<user, state listed>>]
          at,          \* [thread -> the user being processed, and the step]
          idpChanges, nameFaults

nvars == <<rows, answer, allowed, todo, at, idpChanges, nameFaults>>

Early == {"requested", "creating", "error", "linking", "validation"}
RowStates == Early \cup {"ok"}
Answers == {"ready", "nothing", "linking", "validation", "broken"}
Pending == {"linking", "validation"}
Idle == [user |-> "", seen |-> "ok", step |-> "idle", name |-> FALSE]
Refusals == Answers \ {"ready", "nothing"}
Steps == {"begin", "name", "complete", "patch"} \cup Refusals
Records == [state : RowStates, named : BOOLEAN]
Jobs == [user : Holders, seen : Early, step : Steps, name : BOOLEAN]

NameTypeOK ==
    /\ rows \in [Holders -> Records] /\ answer \in [Holders -> Answers] /\ allowed \in BOOLEAN
    /\ \A t \in Namers : todo[t] \subseteq Holders \X Early
    /\ \A t \in Namers : at[t] = Idle \/ at[t] \in Jobs

NameInit ==
    /\ rows = [u \in Holders |-> [state |-> "requested", named |-> FALSE]] /\ answer \in [Holders -> Answers] /\ allowed \in BOOLEAN
    /\ todo = [t \in Namers |-> {}] /\ at = [t \in Namers |-> Idle] /\ idpChanges = 0 /\ nameFaults = 0

\* The person links the account or is validated, the provider breaks or
\* recovers, the operator changes the policy.
IdpChanges ==
    /\ idpChanges < MaxIdpChanges /\ idpChanges' = idpChanges + 1
    /\ \/ \E u \in Holders, a \in Answers : answer' = [answer EXCEPT ![u] = a] /\ UNCHANGED allowed
       \/ allowed' = ~allowed /\ UNCHANGED answer
    /\ UNCHANGED <<rows, todo, at, nameFaults>>

\* _group_users_by_state
GroupUsersByState(r) == r.state \in Early

\* The listing of the periodic reconciliation (run_periodic_offering_user_reconciliation).
Listed(r) == r.state \in Early

\* _can_generate_usernames, _validate_offering_user_configuration
CanGenerateUsernames == allowed

\* update_offering_users: list the rows and start
UpdateOfferingUsers(t) ==
    /\ at[t] = Idle /\ todo[t] = {} /\ CanGenerateUsernames
    /\ LET listed == {u \in Holders : Listed(rows[u]) /\ GroupUsersByState(rows[u])}
       IN listed # {} /\ todo' = [todo EXCEPT ![t] = {<<u, rows[u].state>> : u \in listed}]
    /\ UNCHANGED <<rows, answer, allowed, at, idpChanges, nameFaults>>

\* The requested ones come first, then the pending ones; requested and failed
\* rows are moved to CREATING before the provider is asked.
TakeUser(t) ==
    /\ at[t] = Idle
    /\ \E j \in todo[t] :
          /\ j[2] = "requested" \/ \A k \in todo[t] : k[2] # "requested"
          /\ todo' = [todo EXCEPT ![t] = @ \ {j}]
          /\ at' = [at EXCEPT ![t] = [user |-> j[1], seen |-> j[2], step |-> IF j[2] \in {"requested", "error"} THEN "begin" ELSE "name", name |-> FALSE]]
    /\ UNCHANGED <<rows, answer, allowed, idpChanges, nameFaults>>

\* Waldur's transitions of a row; what it refuses changes nothing
Transition(u, from, to) == IF rows[u].state \in from THEN [rows EXCEPT ![u].state = to] ELSE rows
Refuses(u, from) == rows[u].state \notin from

\* begin_creating; a refusal is ignored, or ends the work on this user
BeginCreating(t) ==
    /\ at[t].step = "begin" /\ rows' = Transition(at[t].user, {"requested", "error"}, "creating")
    /\ \/ at' = [at EXCEPT ![t].step = "name"]
       \/ Refuses(at[t].user, {"requested", "error"}) /\ at' = [at EXCEPT ![t] = Idle]
    /\ UNCHANGED <<answer, allowed, todo, idpChanges, nameFaults>>

\* The three refusals of a provider: link the account, validate, failure
\* (_handle_account_linking_error, _handle_validation_error, _set_error_creating).
\* A row listed in that pending state is left as it is.
OnRefusal(u, seen, a) ==
    CASE a = "broken" -> IF seen \in Pending THEN rows ELSE Transition(u, {"creating"}, "error")
      [] OTHER -> IF seen = a THEN rows ELSE Transition(u, {"creating", "error"} \cup (Pending \ {a}), a)

\* _update_user_username writes a name only if the provider has one.
Writes(a) == a = "ready"

\* _update_user_username, first half: get_or_create_username
GetOrCreateUsername(t) ==
    LET a == answer[at[t].user]
    IN /\ at[t].step = "name"
       /\ \/ a \in Refusals /\ at' = [at EXCEPT ![t].step = a]
          \/ Writes(a) /\ at' = [at EXCEPT ![t].step = IF at[t].seen \in Pending THEN "complete" ELSE "patch", ![t].name = (a = "ready")]
          \/ a \notin Refusals /\ ~Writes(a) /\ at' = [at EXCEPT ![t] = Idle]
       /\ UNCHANGED <<rows, answer, allowed, todo, idpChanges, nameFaults>>

\* the exception handlers of _process_requested_users and _process_pending_users
HandleRefusal(t) ==
    /\ at[t].step \in Refusals /\ rows' = OnRefusal(at[t].user, at[t].seen, at[t].step)
    /\ at' = [at EXCEPT ![t] = Idle] /\ UNCHANGED <<answer, allowed, todo, idpChanges, nameFaults>>

\* set_validation_complete, for rows listed as pending
SetValidationComplete(t) ==
    /\ at[t].step = "complete" /\ rows' = Transition(at[t].user, Pending, "ok")
    /\ \/ at' = [at EXCEPT ![t].step = "patch"]
       \/ Refuses(at[t].user, Pending) /\ at' = [at EXCEPT ![t] = Idle]
    /\ UNCHANGED <<answer, allowed, todo, idpChanges, nameFaults>>

\* The name is written; Waldur moves a creating or failed row to OK on save.
PatchUsername(t) ==
    LET u == at[t].user
    IN /\ at[t].step = "patch"
       /\ rows' = [rows EXCEPT ![u] = [state |-> IF @.state \in {"creating", "error"} THEN "ok" ELSE @.state, named |-> at[t].name]]
       /\ at' = [at EXCEPT ![t] = Idle] /\ UNCHANGED <<answer, allowed, todo, idpChanges, nameFaults>>

\* A call fails, and the next user follows; or the agent is interrupted.
PassInterrupted(t) ==
    /\ nameFaults < MaxNameFaults /\ nameFaults' = nameFaults + 1 /\ at[t] # Idle /\ at' = [at EXCEPT ![t] = Idle]
    /\ todo' \in {todo, [todo EXCEPT ![t] = {}]} /\ UNCHANGED <<rows, answer, allowed, idpChanges>>

NameStep(t) ==
    UpdateOfferingUsers(t) \/ TakeUser(t) \/ BeginCreating(t) \/ GetOrCreateUsername(t) \/ HandleRefusal(t)
    \/ SetValidationComplete(t) \/ PatchUsername(t)
NameNext == IdpChanges \/ \E t \in Namers : NameStep(t) \/ PassInterrupted(t)

(***************************************************************************)
(* Properties.                                                             *)
(***************************************************************************)
\* What the identity provider last said of a person reaches Waldur: a ready
\* account is OK, one that waits for the person says for what, and one the
\* provider fails on is ERROR_CREATING or still waiting, whatever pass with
\* whatever listing handled it last (update_offering_users and its helpers).
AnswersShown ==
    allowed => \A u \in Holders : rows[u].state \in
      {"ok"} \cup (CASE answer[u] = "ready" -> {} [] answer[u] = "nothing" -> Early [] answer[u] = "broken" -> Pending \cup {"creating", "error"} [] OTHER -> {answer[u]})

\* An account that is ready and named stays so: a pass with an old listing
\* cannot take it back (the handlers of _process_pending_users).
NamedStays == \A u \in Holders : rows[u].named /\ rows[u].state = "ok" => rows'[u] = rows[u]

\* What docs/offering-users.md says of the state OK, "Username successfully
\* generated and user is ready for resource access", in the end: an OK
\* account has its username. _update_user_username completes the validation
\* before it writes the name, and no pass takes up an OK row again.
OkIsNamed == \A u \in Holders : rows[u].state = "ok" => rows[u].named

(***************************************************************************)
(* What makes NamedStays inductive: a row is written only with a name.     *)
(***************************************************************************)
Prepared ==
    /\ at \in [Namers -> {Idle} \cup Jobs]
    /\ \A t \in Namers : at[t].step \in {"complete", "patch"} => at[t].name

NameInv ==
    /\ rows \in [Holders -> Records]
    /\ answer \in [Holders -> Answers]
    /\ todo \in [Namers -> SUBSET (Holders \X Early)]
    /\ Prepared
=============================================================================
