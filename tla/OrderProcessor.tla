--------------------------- MODULE OrderProcessor ---------------------------
(***************************************************************************)
(* OfferingOrderProcessor working on one marketplace order of a backend    *)
(* without asynchronous orders.  Several threads may work on the same      *)
(* order: the worker of the event queue, and the main loop whose periodic  *)
(* reconciliation picks up orders that look stuck.  Every call to Waldur   *)
(* and to the backend is a step of its own, so calls of other threads, a   *)
(* lost reply or the end of the process may come between any two.          *)
(***************************************************************************)
EXTENDS Naturals

CONSTANTS
    Procs,        \* threads that process orders
    OrderTypes,   \* types of order explored
    NameTries,    \* backend_id_max_retries: names tried for a new resource
    RetryCount,   \* retry_count of process_order_with_retries
    MaxHiccups,   \* bound: transient Waldur API failures
    MaxFaults,    \* bound: calls the backend fails or is not ready for
    MaxCrashes,   \* bound: ends of the agent process
    MaxCancels    \* bound: orders ended in Waldur by someone else

\* An update carries new limits, or a new plan whose quotas are the limits.
Types == {"CREATE", "RESTORE", "UPDATE", "UPDATE_PLAN", "TERMINATE"}

ASSUME OrderAssumption ==
    /\ OrderTypes \subseteq Types
    /\ NameTries \in Nat \ {0}
    /\ RetryCount \in Nat \ {0}
    /\ MaxHiccups \in Nat /\ MaxFaults \in Nat /\ MaxCrashes \in Nat /\ MaxCancels \in Nat

\* Names a new resource can get; 0 is the empty backend_id.
Names == 1..NameTries
NoName == 0

Terminal == {"DONE", "ERRED", "CANCELED", "REJECTED"}   \* _TERMINAL_ORDER_STATES
Active == {"PENDING_PROVIDER", "EXECUTING"}

VARIABLES
    type,       \* the order's type
    state,      \* the order's state in Waldur
    backendId,  \* the resource's backend_id in Waldur
    account,    \* the backend: "absent", "bare" (created only) or "ready" for each name
    limits,     \* the resource's limits at the backend, for an update
    proc,       \* each thread: where it is and what it has read
    hiccups, faults, crashes, cancels

world == <<type, state, backendId, account, limits>>
counters == <<hiccups, faults, crashes, cancels>>
orderVars == <<world, proc, counters>>

Pcs == {"idle", "evaluate", "approve", "refresh", "reject", "provision", "pull", "create",
        "creating", "setup", "record", "limits", "finish", "setdone", "error", "seterred",
        "refetch"}

\* What a thread holds: the backend_id it works with, whether it re-creates
\* under an id Waldur already has, and the number of its attempt; a thread that
\* retries has an attempt left.
ProcStates ==
    {r \in [pc : Pcs, name : Names \cup {NoName}, reuse : BOOLEAN, attempt : 0..RetryCount] :
        r.pc = "refetch" => r.attempt < RetryCount}
Idle == [pc |-> "idle", name |-> NoName, reuse |-> FALSE, attempt |-> 0]

OrderTypeOK ==
    /\ type \in OrderTypes
    /\ state \in Terminal \cup Active
    /\ backendId \in Names \cup {NoName}
    /\ account \in [Names -> {"absent", "bare", "ready"}]
    /\ limits \in {"old", "new"}
    /\ proc \in [Procs -> ProcStates]
    /\ hiccups \in Nat /\ faults \in Nat /\ crashes \in Nat /\ cancels \in Nat

\* A new resource has no backend_id, and nobody else uses its names.  The others
\* have one; the account of a resource to restore is gone.
OrderInit ==
    /\ type \in OrderTypes
    /\ state = "PENDING_PROVIDER"
    /\ backendId = IF type = "CREATE" THEN NoName ELSE 1
    /\ account = [n \in Names |-> IF type \in Types \ {"CREATE", "RESTORE"} /\ n = 1
                                  THEN "ready" ELSE "absent"]
    /\ limits = "old"
    /\ proc = [p \in Procs |-> Idle]
    /\ hiccups = 0 /\ faults = 0 /\ crashes = 0 /\ cancels = 0

-----------------------------------------------------------------------------
At(p, pc) == proc[p].pc = pc
Goto(p, pc) == proc' = [proc EXCEPT ![p].pc = pc]
Stop(p) == proc' = [proc EXCEPT ![p] = Idle]

\* Mutant: one attempt too many.
RetryOnceMore(p) ==
    IF proc[p].attempt <= RetryCount THEN Goto(p, "refetch") ELSE Stop(p)

\* A transient API error leaves process_order, which the retry loop calls again
\* with the order fetched anew, until its attempts are used up.
Retry(p) ==
    IF proc[p].attempt < RetryCount THEN Goto(p, "refetch") ELSE Stop(p)

\* A call to Waldur fails: a 5xx or a network error, where the call may have
\* had its effect.
Glitch ==
    /\ hiccups < MaxHiccups
    /\ hiccups' = hiccups + 1
    /\ UNCHANGED <<faults, crashes, cancels>>

Hiccup(p) == Glitch /\ Retry(p)

\* The backend raises: BackendError, or BackendNotReadyError.
Fault ==
    /\ faults < MaxFaults
    /\ faults' = faults + 1
    /\ UNCHANGED <<hiccups, crashes, cancels>>

-----------------------------------------------------------------------------
(* Fetching the order, and the part of process_order before provisioning.    *)

\* A thread takes the order up: the handler fetched it for a message, or the
\* main loop listed it among the pending and executing ones.
Dispatch(p, n) ==
    proc' = [proc EXCEPT ![p] =
        [Idle EXCEPT !.attempt = n,
                     !.pc = IF state = "PENDING_PROVIDER" THEN "evaluate" ELSE "provision"]]

Start(p) ==
    /\ At(p, "idle")
    /\ state \in Active
    /\ Dispatch(p, 1)
    /\ UNCHANGED <<world, counters>>

\* process_order_with_retries after a failed attempt: get_order_info, and
\* process_order skips an order that is finished.  An error status ends the
\* attempts; a network failure uses up one of them.
Refetch(p) ==
    /\ At(p, "refetch")
    /\ \/ state \in Active /\ Dispatch(p, proc[p].attempt + 1) /\ UNCHANGED counters
       \/ state \in Terminal /\ Stop(p) /\ UNCHANGED counters
       \/ Glitch /\ Stop(p)
       \/ /\ Glitch
          /\ proc[p].attempt + 1 < RetryCount
          /\ proc' = [proc EXCEPT ![p].attempt = @ + 1]
    /\ UNCHANGED world

\* Mutant: an error of the evaluation errs the order.
EvaluateErrs(p) ==
    /\ At(p, "evaluate")
    /\ \/ Goto(p, "approve") /\ UNCHANGED counters
       \/ Fault /\ Goto(p, "error")
    /\ UNCHANGED world

\* evaluate_pending_order: accept, reject, or keep pending; so does any error,
\* because nothing has been provisioned yet.
Evaluate(p) ==
    /\ At(p, "evaluate")
    /\ \/ Goto(p, "approve") /\ UNCHANGED counters
       \/ Goto(p, "reject") /\ UNCHANGED counters
       \/ Stop(p) /\ UNCHANGED counters
       \/ Fault /\ Stop(p)
       \/ Hiccup(p)
    /\ UNCHANGED world

\* approve_by_provider.  Waldur refuses it (409) unless the order is pending;
\* the error leaves the order as it is.
Approve(p) ==
    /\ At(p, "approve")
    /\ \/ /\ state = "PENDING_PROVIDER"
          /\ state' = "EXECUTING"
          /\ \/ Goto(p, "refresh") /\ UNCHANGED counters
             \/ Hiccup(p)
       \/ state # "PENDING_PROVIDER" /\ Stop(p) /\ UNCHANGED <<state, counters>>
       \/ Hiccup(p) /\ UNCHANGED state
    /\ UNCHANGED <<type, backendId, account, limits>>

\* The order is retrieved again; whatever its state, provisioning starts.
Refresh(p) ==
    /\ At(p, "refresh")
    /\ \/ Goto(p, "provision") /\ UNCHANGED counters
       \/ Hiccup(p)
    /\ UNCHANGED world

Reject(p) ==
    /\ At(p, "reject")
    /\ \/ /\ state = "PENDING_PROVIDER"
          /\ state' = "REJECTED"
          /\ \/ Stop(p) /\ UNCHANGED counters
             \/ Hiccup(p)
       \/ state # "PENDING_PROVIDER" /\ Stop(p) /\ UNCHANGED <<state, counters>>
       \/ Hiccup(p) /\ UNCHANGED state
    /\ UNCHANGED <<type, backendId, account, limits>>

-----------------------------------------------------------------------------
(* _process_create_order.                                                    *)

\* The resource is retrieved: an empty backend_id means a new name.
ReadResource(p) ==
    /\ At(p, "provision")
    /\ type \in {"CREATE", "RESTORE"}
    /\ \/ /\ proc' = [proc EXCEPT ![p].name  = IF backendId = NoName THEN 1 ELSE backendId,
                                  ![p].reuse = backendId # NoName,
                                  ![p].pc    = IF backendId = NoName THEN "create" ELSE "pull"]
          /\ UNCHANGED counters
       \/ Hiccup(p)
    /\ UNCHANGED world

\* pull_resource: a resource that is there is taken as created.  An error of the
\* backend is logged and reads as "not there".
Pull(p) ==
    /\ At(p, "pull")
    /\ \/ account[proc[p].name] # "absent" /\ Goto(p, "finish") /\ UNCHANGED counters
       \/ account[proc[p].name] = "absent" /\ Goto(p, "create") /\ UNCHANGED counters
       \/ Fault /\ Goto(p, "create")
    /\ UNCHANGED world

\* The existence check of _create_backend_resource, and what a name that is
\* taken leads to: the next name, or the end of the attempts.
CreateCheck(p) ==
    /\ At(p, "create")
    /\ \/ account[proc[p].name] = "absent" /\ Goto(p, "creating") /\ UNCHANGED counters
       \/ /\ account[proc[p].name] # "absent"
          /\ IF proc[p].reuse \/ proc[p].name = NameTries
             THEN Goto(p, "error")
             ELSE proc' = [proc EXCEPT ![p].name = @ + 1]
          /\ UNCHANGED counters
       \/ Fault /\ (Stop(p) \/ Goto(p, "error"))
    /\ UNCHANGED world

\* Mutant: Waldur gets the backend_id before the resource is set up.
CreateDoRecords(p) ==
    /\ At(p, "creating")
    /\ account[proc[p].name] = "absent"
    /\ account' = [account EXCEPT ![proc[p].name] = "bare"]
    /\ backendId' = proc[p].name
    /\ Goto(p, "setup")
    /\ UNCHANGED <<type, state, limits, counters>>

\* client.create_resource; a name another thread created meanwhile is refused.
\* A call that fails may have created the account.
CreateDo(p) ==
    /\ At(p, "creating")
    /\ \/ /\ account[proc[p].name] = "absent"
          /\ account' = [account EXCEPT ![proc[p].name] = "bare"]
          /\ \/ Goto(p, "setup") /\ UNCHANGED counters
             \/ Fault /\ Goto(p, "error")
       \/ account[proc[p].name] # "absent" /\ Goto(p, "error") /\ UNCHANGED <<account, counters>>
       \/ Fault /\ Goto(p, "error") /\ UNCHANGED account
    /\ UNCHANGED <<type, state, backendId, limits>>

\* _on_backend_resource_created, the limits, post_create_resource.
Setup(p) ==
    /\ At(p, "setup")
    /\ \/ /\ account' = [account EXCEPT ![proc[p].name] = "ready"]
          /\ Goto(p, IF proc[p].reuse THEN "finish" ELSE "record")
          /\ UNCHANGED counters
       \/ Fault /\ Goto(p, "error") /\ UNCHANGED account
    /\ UNCHANGED <<type, state, backendId, limits>>

\* set_backend_id tells Waldur the name.
SetBackendId(p) ==
    /\ At(p, "record")
    /\ \/ /\ backendId' = proc[p].name
          /\ \/ Goto(p, "limits") /\ UNCHANGED counters
             \/ Hiccup(p)
       \/ Hiccup(p) /\ UNCHANGED backendId
    /\ UNCHANGED <<type, state, account, limits>>

\* set_limits; metadata, endpoints and API keys do not fail the order.
SetLimits(p) ==
    /\ At(p, "limits")
    /\ \/ Goto(p, "finish") /\ UNCHANGED counters
       \/ Hiccup(p)
    /\ UNCHANGED world

-----------------------------------------------------------------------------
(* _process_update_order and _process_terminate_order: read the resource,    *)
(* then one call to the backend.                                             *)

\* The quotas of a plan that cannot be read are empty (_resolve_plan_limits),
\* and an update without limits counts as done.
Update(p) ==
    /\ At(p, "provision")
    /\ type \in {"UPDATE", "UPDATE_PLAN"}
    /\ \/ limits' = "new" /\ Goto(p, "finish") /\ UNCHANGED counters
       \/ Fault /\ Goto(p, "error") /\ UNCHANGED limits
       \/ Hiccup(p) /\ UNCHANGED limits
       \/ type = "UPDATE_PLAN" /\ Glitch /\ Goto(p, "finish") /\ UNCHANGED limits
    /\ UNCHANGED <<type, state, backendId, account>>

\* Mutant: an error of the backend counts as deleted.
TerminateIgnoresErrors(p) ==
    /\ At(p, "provision")
    /\ type = "TERMINATE"
    /\ \/ /\ account' = [n \in Names |-> IF n = backendId THEN "absent" ELSE account[n]]
          /\ UNCHANGED counters
       \/ Fault /\ UNCHANGED account
    /\ Goto(p, "finish")
    /\ UNCHANGED <<type, state, backendId, limits>>

\* delete_resource skips a resource without backend_id or without account.
Terminate(p) ==
    /\ At(p, "provision")
    /\ type = "TERMINATE"
    /\ \/ /\ account' = [n \in Names |-> IF n = backendId THEN "absent" ELSE account[n]]
          /\ Goto(p, "finish")
          /\ UNCHANGED counters
       \/ Fault /\ (Stop(p) \/ Goto(p, "error")) /\ UNCHANGED account
       \/ Hiccup(p) /\ UNCHANGED account
    /\ UNCHANGED <<type, state, backendId, limits>>

-----------------------------------------------------------------------------
(* The end of process_order.                                                 *)

\* order_is_done: read the state; only an executing order is set done.  Users
\* are added after that, and what fails there is left to membership sync.
FinishRead(p) ==
    /\ At(p, "finish")
    /\ \/ state = "EXECUTING" /\ Goto(p, "setdone") /\ UNCHANGED counters
       \/ state # "EXECUTING" /\ Stop(p) /\ UNCHANGED counters
       \/ Hiccup(p)
    /\ UNCHANGED world

\* set_state_done; Waldur refuses an order that is not executing any more.
SetDone(p) ==
    /\ At(p, "setdone")
    /\ \/ /\ state = "EXECUTING"
          /\ state' = "DONE"
          /\ \/ Stop(p) /\ UNCHANGED counters
             \/ Hiccup(p)
       \/ state # "EXECUTING" /\ Goto(p, "error") /\ UNCHANGED <<state, counters>>
       \/ Hiccup(p) /\ UNCHANGED state
    /\ UNCHANGED <<type, backendId, account, limits>>

\* _current_order_state: when the state cannot be read the local, unfinished
\* one counts.
ErrRead(p) ==
    /\ At(p, "error")
    /\ \/ state \in Terminal /\ Stop(p) /\ UNCHANGED counters
       \/ state \notin Terminal /\ Goto(p, "seterred") /\ UNCHANGED counters
       \/ Glitch /\ Goto(p, "seterred")
    /\ UNCHANGED world

\* set_state_erred, whose own failure is logged.  Waldur takes it for an order
\* that is not finished.
SetErred(p) ==
    /\ At(p, "seterred")
    /\ \/ state' = (IF state \in Active THEN "ERRED" ELSE state) /\ UNCHANGED counters
       \/ Glitch /\ UNCHANGED state
    /\ Stop(p)
    /\ UNCHANGED <<type, backendId, account, limits>>

-----------------------------------------------------------------------------
(* The environment.                                                          *)

Cancel ==
    /\ cancels < MaxCancels
    /\ state \in Active
    /\ state' = "CANCELED"
    /\ cancels' = cancels + 1
    /\ UNCHANGED <<type, backendId, account, limits, proc, hiccups, faults, crashes>>

\* The process ends and starts again: every thread is back at the beginning.
Crash ==
    /\ crashes < MaxCrashes
    /\ crashes' = crashes + 1
    /\ proc' = [p \in Procs |-> Idle]
    /\ UNCHANGED <<world, hiccups, faults, cancels>>

\* Nothing is left to do once the order is finished and every thread is idle.
Finished ==
    /\ state \in Terminal
    /\ \A p \in Procs : At(p, "idle")
    /\ UNCHANGED orderVars

Work(p) ==
    \/ Start(p) \/ Refetch(p) \/ Evaluate(p) \/ Approve(p) \/ Refresh(p) \/ Reject(p)
    \/ ReadResource(p) \/ Pull(p) \/ CreateCheck(p) \/ CreateDo(p) \/ Setup(p)
    \/ SetBackendId(p) \/ SetLimits(p) \/ Update(p) \/ Terminate(p)
    \/ FinishRead(p) \/ SetDone(p) \/ ErrRead(p) \/ SetErred(p)

OrderNext == (\E p \in Procs : Work(p)) \/ Cancel \/ Crash \/ Finished

OrderSpec == OrderInit /\ [][OrderNext]_orderVars

-----------------------------------------------------------------------------
\* What the order asks for: the resource exists, set up, under the backend_id
\* that Waldur has; has the new limits; or is gone.
Provisioned ==
    /\ type \in {"CREATE", "RESTORE"} => backendId # NoName /\ account[backendId] = "ready"
    /\ type \in {"UPDATE", "UPDATE_PLAN"} => limits = "new"
    /\ type = "TERMINATE" => backendId = NoName \/ account[backendId] = "absent"

\* An order the agent marked done was carried out in full, whichever threads
\* worked on it and wherever they were interrupted.
DoneIsProvisioned == state = "DONE" => Provisioned

\* Failures before provisioning (evaluation, approval, rejection) keep the order
\* pending: it is never erred without having been approved first.
PendingNeverErred == [][state = "PENDING_PROVIDER" => state' # "ERRED"]_orderVars

\* "A transient error never errs an order: it is retried and the order keeps its
\* state": without a failure of the backend no order ends erred.
TransientNeverErrs == state = "ERRED" => faults > 0

\* The processor implements the lifecycle it promises.
Lifecycle == INSTANCE OrderLifecycle WITH provisioned <- Provisioned
LifecycleSpec == Lifecycle!Spec
-----------------------------------------------------------------------------
(* Inductive invariants, for the proofs.                                     *)

\* Beyond the approval nothing is pending any more.
BeforeApproval == {"idle", "evaluate", "approve", "reject", "refetch"}
ApprovedInv ==
    \A p \in Procs : proc[p].pc \notin BeforeApproval => state # "PENDING_PROVIDER"

\* Where a thread that creates a resource is, and what it knows there.
Creating == {"pull", "create", "creating", "setup", "record", "limits"}
CreatorInv(p) ==
    /\ type = "CREATE"
    /\ proc[p].name \in Names
    /\ proc[p].reuse \/ proc[p].pc \in {"pull", "limits"} => backendId # NoName
    /\ proc[p].pc = "record" => account[proc[p].name] = "ready"

\* A new resource's backend_id is recorded only once the resource is set up, so
\* a retry that finds the id may take the resource as it is.
DoneInv ==
    /\ type = "CREATE" /\ backendId # NoName => account[backendId] = "ready"
    /\ state = "DONE" => Provisioned
    /\ \A p \in Procs :
          /\ proc[p].pc \in Creating => CreatorInv(p)
          /\ proc[p].pc \in {"finish", "setdone"} => Provisioned
=============================================================================
