--------------------------- MODULE FederatedOrders ---------------------------
(***************************************************************************)
(* Waldur-to-Waldur federation (plugins/waldur): the orders of a resource  *)
(* of Waldur A become orders on Waldur B, which its own provider executes. *)
(* A source order stays EXECUTING until its target order ends.  A call to  *)
(* either Waldur may fail between any two effects of a handler.            *)
(***************************************************************************)
EXTENDS Integers, Sequences, FiniteSets

CONSTANT MaxEvents     \* bound: orders issued, and attempts in which a call fails, together

VARIABLES source,    \* the current order on Waldur A; target is order.backend_id
          bid,       \* backend_id of the resource on A: its resource on B, 0 for none
          alive,     \* the resource of A in Waldur A
          remote,    \* projects, resources and orders of Waldur B
          inbox,     \* target orders whose event was not delivered yet
          slips,     \* history: what failed calls left unfinished, see Slips
          issued, hiccups

ovars == <<source, bid, alive, remote, inbox, slips, issued, hiccups>>

\* "unrecorded": B accepted a create order, and A learned of neither its
\* resource nor its order; "untracked": of the resource only; "again": a
\* resource that could not be pulled was created again, and A keeps the first;
\* "unread": a resource that could not be read counted as gone
Slips == {"unrecorded", "untracked", "again", "unread"}

Ends == {"done", "erred"}

OrdersTypeOK ==
    /\ source.type \in {"none", "create", "update", "terminate"}
    /\ source.state \in {"none", "executing"} \cup Ends
    /\ source.target \in 0 .. Len(remote.orders) /\ bid \in 0 .. Len(remote.res)
    /\ alive \in {"none", "OK", "ERRED", "TERMINATED"}
    /\ \A i \in DOMAIN remote.orders : remote.orders[i].res \in DOMAIN remote.res
    /\ inbox \subseteq DOMAIN remote.orders /\ slips \subseteq Slips

OrdersInit ==
    /\ source = [type |-> "none", state |-> "none", target |-> 0, limit |-> 0]
    /\ bid = 0 /\ alive = "none"
    /\ remote = [projects |-> 0, res |-> <<>>, orders |-> <<>>]
    /\ inbox = {} /\ slips = {} /\ issued = 0 /\ hiccups = 0

(***************************************************************************)
(* Waldur A and Waldur B.                                                  *)
(***************************************************************************)
\* a create order, an update of the limits, or a termination
Issue ==
    /\ source.state # "executing" /\ issued + hiccups < MaxEvents /\ issued' = issued + 1
    /\ \E type \in {"create", "update", "terminate"}, limit \in 1 .. 2 :
          /\ CASE type = "create" -> alive = "none"
               [] type = "update" -> alive = "OK"
               [] OTHER -> alive \in {"OK", "ERRED"}
          /\ source' = [type |-> type, state |-> "executing", target |-> 0,
                        limit |-> IF type = "terminate" THEN 0 ELSE limit]
    /\ UNCHANGED <<bid, alive, remote, inbox, slips, hiccups>>

NewOrder(b, type, r, limit) ==
    [b EXCEPT !.orders = Append(@, [type |-> type, res |-> r, state |-> "executing", limit |-> limit])]

\* create_update_order and create_terminate_order: B accepts an order of a
\* resource that has none in flight
Accepts(r) == remote.res[r].state \in {"OK", "ERRED"}

CreateOrder(b, type, r, limit) ==
    LET state == IF type = "terminate" THEN "TERMINATING" ELSE "UPDATING"
    IN  NewOrder([b EXCEPT !.res[r].state = state], type, r, limit)

\* the provider of B ends an order, and tells it
FinishTarget(i) ==
    /\ remote.orders[i].state = "executing"
    /\ \E end \in Ends :
          LET o == remote.orders[i]
              rs == IF end = "erred" THEN "ERRED" ELSE IF o.type = "terminate" THEN "TERMINATED" ELSE "OK"
          IN  remote' = [remote EXCEPT !.orders[i].state = end,
                !.res[o.res] = [state |-> rs, limit |-> IF end = "done" /\ o.type # "terminate" THEN o.limit ELSE @.limit]]
    /\ inbox' = inbox \cup {i}
    /\ UNCHANGED <<source, bid, alive, slips, issued, hiccups>>

\* the owner of the project on B terminates the resource there
RemoteTerminate(r) ==
    /\ Accepts(r) /\ issued + hiccups < MaxEvents /\ issued' = issued + 1
    /\ remote' = CreateOrder(remote, "terminate", r, 0)
    /\ UNCHANGED <<source, bid, alive, inbox, slips, hiccups>>

(***************************************************************************)
(* The agent.                                                              *)
(***************************************************************************)
\* set_state_done and set_state_erred, and what they make of the resource of A
End(end) ==
    /\ source' = [source EXCEPT !.state = end]
    /\ alive' = IF source.type = "terminate" /\ end = "done" THEN "TERMINATED"
                ELSE IF end = "done" THEN "OK"
                ELSE "ERRED"

\* a failing call: Waldur's hiccups keep the order, other errors end it
Hiccup == issued + hiccups < MaxEvents /\ hiccups' = hiccups + 1

Fail ==
    /\ Hiccup
    /\ \/ End("erred")
       \/ UNCHANGED <<source, alive>>

Polled == source.state = "executing" /\ source.target # 0

\* a mutant: only a DONE target order counts as ended
CheckPendingOrderDone(end) == remote.orders[source.target].state = "done" /\ end = "done"

\* check_pending_order: True, BackendError, or still pending
CheckPendingOrder(end) == remote.orders[source.target].state = end /\ end \in Ends

\* _poll_async_target_order; a B that cannot answer is asked again
PollAsyncTargetOrder ==
    /\ Polled
    /\ \E end \in Ends : CheckPendingOrder(end) /\ End(end)
    /\ UNCHANGED <<bid, remote, inbox, slips, issued, hiccups>>

\* find_or_create_project: a lookup that fails counts as not found
FindOrCreateProject(b, seen) ==
    [b EXCEPT !.projects = IF seen /\ @ > 0 THEN @ ELSE @ + 1]

\* create_resource_with_id and create_marketplace_order: the resource is
\* there, in CREATING, when the order is accepted
Submit(b) ==
    NewOrder([b EXCEPT !.res = Append(@, [state |-> "CREATING", limit |-> 0])],
             "create", Len(b.res) + 1, source.limit)

\* _create_resource: a resource that is created again keeps its backend_id
SetBackendId(new) == bid' = IF bid = 0 THEN new ELSE bid

Slip(kinds) == slips' = slips \cup kinds

\* the project, the order on B, the backend_id of the resource and of the
\* order, in this order, and an interruption after each of them
CreateResource(seen) ==
    LET b1 == FindOrCreateProject(remote, seen)
        b2 == Submit(b1)
        again == IF bid = 0 THEN {} ELSE {"again"}
    IN  \/ /\ remote' = b2 /\ SetBackendId(Len(b2.res)) /\ Slip(again)
           /\ source' = [source EXCEPT !.target = Len(b2.orders)]
           /\ UNCHANGED alive
           /\ IF seen /\ bid = 0 THEN UNCHANGED hiccups ELSE Hiccup
        \/ Fail /\ remote' \in {remote, b1} /\ UNCHANGED <<bid, slips>>
        \/ Fail /\ remote' = b2 /\ UNCHANGED bid /\ Slip({"unrecorded"})
        \/ Fail /\ remote' = b2 /\ SetBackendId(Len(b2.res)) /\ Slip(again \cup {"untracked"})

\* a resource that is there needs no creation; one that cannot be pulled is
\* created again
ProcessCreateOrder ==
    /\ source.type = "create" /\ source.state = "executing" /\ source.target = 0
    /\ \/ \E seen \in BOOLEAN : CreateResource(seen)
       \/ bid # 0 /\ End("done") /\ UNCHANGED <<bid, remote, slips, hiccups>>
    /\ UNCHANGED <<inbox, issued>>

\* set_state of an order on B and the recording of its id on A
SubmitAsyncTargetOrder(type) ==
    LET b == CreateOrder(remote, type, bid, source.limit)
    IN  \/ remote' = b /\ source' = [source EXCEPT !.target = Len(b.orders)] /\ UNCHANGED <<alive, hiccups>>
        \/ Fail /\ remote' \in {remote, b}

\* set_resource_limits: nothing to do when B has the limits already
ProcessUpdateOrder ==
    /\ source.type = "update" /\ source.state = "executing" /\ source.target = 0
    /\ \/ remote.res[bid].limit = source.limit /\ End("done") /\ UNCHANGED <<remote, hiccups>>
       \/ remote.res[bid].limit # source.limit /\ Accepts(bid) /\ SubmitAsyncTargetOrder("update")
       \/ /\ remote.res[bid].limit # source.limit /\ remote.res[bid].state \notin {"OK", "ERRED"}
          /\ End("erred") /\ UNCHANGED <<remote, hiccups>>
    /\ UNCHANGED <<bid, inbox, slips, issued>>

\* a mutant: a resource that is terminating on B counts as gone
AdoptInFlightTerminateOrderGone == End("done")

AdoptInFlightTerminateOrder ==
    /\ \E i \in DOMAIN remote.orders :
          /\ remote.orders[i] = [type |-> "terminate", res |-> bid, state |-> "executing", limit |-> 0]
          /\ source' = [source EXCEPT !.target = i]
    /\ UNCHANGED alive

\* delete_resource: a resource that cannot be read counts as gone; one that
\* is being created or updated is tried again later
ProcessTerminateOrder ==
    /\ source.type = "terminate" /\ source.state = "executing" /\ source.target = 0
    /\ \/ bid = 0 /\ End("done") /\ UNCHANGED <<remote, slips, hiccups>>
       \/ bid # 0 /\ Hiccup /\ End("done") /\ Slip({"unread"}) /\ UNCHANGED remote
       \/ /\ bid # 0 /\ remote.res[bid].state = "TERMINATED"
          /\ End("done") /\ UNCHANGED <<remote, slips, hiccups>>
       \/ /\ bid # 0 /\ remote.res[bid].state = "TERMINATING"
          /\ AdoptInFlightTerminateOrder /\ UNCHANGED <<remote, slips, hiccups>>
       \/ bid # 0 /\ Accepts(bid) /\ SubmitAsyncTargetOrder("terminate") /\ UNCHANGED slips
    /\ UNCHANGED <<bid, inbox, issued>>

\* target_router passes the order handler (which would end the order of A,
\* make_target_order_handler) one argument more than it takes: the TypeError
\* is logged by the listener, and the message is gone
TargetRouter(i) ==
    /\ i \in inbox /\ inbox' = inbox \ {i}
    /\ UNCHANGED <<source, bid, alive, remote, slips, issued, hiccups>>

OrdersNext ==
    \/ Issue \/ PollAsyncTargetOrder
    \/ ProcessCreateOrder \/ ProcessUpdateOrder \/ ProcessTerminateOrder
    \/ \E i \in DOMAIN remote.orders : FinishTarget(i) \/ TargetRouter(i)
    \/ \E r \in DOMAIN remote.res : RemoteTerminate(r)

(***************************************************************************)
(* Properties.                                                             *)
(***************************************************************************)
\* A terminated resource of A leaves nothing alive on B, whatever order failed
\* before, whichever calls fail and whoever terminated it (delete_resource,
\* _adopt_in_flight_terminate_order), but for two slips of the code: the lookup
\* of the deletion failed, or B has a resource whose id A never kept.
NothingLeftBehind ==
    alive = "TERMINATED" /\ "unread" \notin slips =>
       \A r \in DOMAIN remote.res :
          \/ remote.res[r].state = "TERMINATED"
          \/ r # bid /\ slips \cap {"unrecorded", "again"} # {}

\* An order of A is done only when B did it, whichever calls fail: its own
\* target order is done, with its limits, on the resource that A names
\* (check_pending_order), or an update found its limits at B.  But for two
\* slips: a resource created again, and a create order whose target was not
\* recorded, which is done as soon as the resource can be pulled.
DoneIsDone ==
    source.state = "done" /\ source.type \in {"create", "update"} =>
       /\ bid # 0
       /\ source.target # 0 =>
             LET o == remote.orders[source.target]
             IN  /\ o.type = source.type /\ o.state = "done" /\ o.limit = source.limit
                 /\ o.res = bid \/ "again" \in slips
       /\ source.target = 0 =>
             IF source.type = "update" THEN remote.res[bid].limit = source.limit
             ELSE "untracked" \in slips

(***************************************************************************)
(* What makes the two inductive.  Of Waldur B: an order in flight is the   *)
(* only one of its resource, which is busy with it and does not have its   *)
(* limits yet; a termination that is done left its resource TERMINATED.    *)
(***************************************************************************)
TargetOrders ==
    [type : {"create", "update", "terminate"}, res : Nat, state : {"executing"} \cup Ends, limit : Nat]

TargetResources ==
    [state : {"CREATING", "UPDATING", "TERMINATING", "OK", "ERRED", "TERMINATED"}, limit : Nat]

Remotes == [projects : Nat, res : Seq(TargetResources), orders : Seq(TargetOrders)]

InRange(b) == \A i \in 1 .. Len(b.orders) : b.orders[i].res \in 1 .. Len(b.res)

Busy(type) == IF type = "create" THEN "CREATING" ELSE IF type = "update" THEN "UPDATING" ELSE "TERMINATING"

InFlight(b, i) == b.orders[i].state = "executing"

BusyWith(b, i) ==
    LET o == b.orders[i]
    IN  /\ b.res[o.res].state = Busy(o.type)
        /\ o.type = "create" => b.res[o.res].limit = 0
        /\ o.type = "update" => b.res[o.res].limit # o.limit

Consistent(b) ==
    \A i \in 1 .. Len(b.orders) :
       /\ InFlight(b, i) => BusyWith(b, i)
       /\ InFlight(b, i) => \A j \in 1 .. Len(b.orders) : InFlight(b, j) /\ b.orders[j].res = b.orders[i].res => j = i
       /\ b.orders[i].state = "done" /\ b.orders[i].type = "terminate" => b.res[b.orders[i].res].state = "TERMINATED"

\* Of Waldur A
Accounted ==
    /\ source \in [type : {"none", "create", "update", "terminate"}, state : {"none", "executing"} \cup Ends,
                   target : 0 .. Len(remote.orders), limit : Nat]
    /\ bid \in 0 .. Len(remote.res) /\ alive \in {"none", "OK", "ERRED", "TERMINATED"}
    /\ remote \in Remotes /\ InRange(remote)
    /\ source.state = "executing" =>
          /\ alive # "TERMINATED" /\ source.type # "none"
          /\ source.type = "create" => alive = "none"
          /\ source.type = "update" => alive = "OK"
    /\ source.type \in {"create", "update"} =>
          source.limit # 0 /\ (source.state = "done" => alive = "OK")
    /\ alive = "OK" \/ source.target # 0 => bid # 0
    /\ alive = "none" /\ bid # 0 => source.state = "executing"

\* the target of an order is an order like it, of the resource that A names
TargetFits ==
    source.target # 0 =>
       /\ remote.orders[source.target].type = source.type
       /\ source.type # "terminate" => remote.orders[source.target].limit = source.limit
       /\ \/ remote.orders[source.target].res = bid
          \/ source.type = "create" /\ "again" \in slips

\* an update that is in flight on the resource is the one A waits for, unless
\* its order failed
UpdatesKnown ==
    \A i \in 1 .. Len(remote.orders) :
       InFlight(remote, i) /\ remote.orders[i].type = "update" /\ remote.orders[i].res = bid =>
          \/ alive \in {"ERRED", "TERMINATED"}
          \/ /\ source.type = "update" /\ source.state = "executing" /\ source.target \in {0, i}
             /\ remote.orders[i].limit = source.limit

\* a resource that A does not name, and a creation without its target, are slips
SlipsKnown ==
    /\ \A r \in 1 .. Len(remote.res) : r # bid => slips \cap {"unrecorded", "again"} # {}
    /\ source.type = "create" /\ source.state = "executing" /\ source.target = 0 /\ bid # 0 => "untracked" \in slips

OrdersInv ==
    /\ Accounted /\ Consistent(remote) /\ TargetFits /\ UpdatesKnown /\ SlipsKnown
    /\ NothingLeftBehind /\ DoneIsDone
=============================================================================
