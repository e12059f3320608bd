--------------------------- MODULE OrderLifecycle ---------------------------
(***************************************************************************)
(* What the agent promises about one marketplace order, whatever fails or  *)
(* restarts: an order is approved before it is worked on, and it is marked *)
(* done only while the backend holds what it asked for.                    *)
(***************************************************************************)
VARIABLES
    state,       \* the order's state in Waldur
    provisioned  \* does the backend hold what the order asks for?

vars == <<state, provisioned>>

Terminal == {"DONE", "ERRED", "CANCELED", "REJECTED"}
States == Terminal \cup {"PENDING_PROVIDER", "EXECUTING"}

TypeOK == state \in States /\ provisioned \in BOOLEAN

Init == state = "PENDING_PROVIDER" /\ provisioned \in BOOLEAN

Approve == state = "PENDING_PROVIDER" /\ state' = "EXECUTING" /\ UNCHANGED provisioned
Reject == state = "PENDING_PROVIDER" /\ state' = "REJECTED" /\ UNCHANGED provisioned
MarkDone == state = "EXECUTING" /\ provisioned /\ state' = "DONE" /\ UNCHANGED provisioned
MarkErred == state = "EXECUTING" /\ state' = "ERRED" /\ UNCHANGED provisioned
\* The customer or the operator ends the order in Waldur.
Cancel ==
    /\ state \in {"PENDING_PROVIDER", "EXECUTING"}
    /\ state' = "CANCELED"
    /\ UNCHANGED provisioned
\* The backend comes to hold what was asked for; it never loses it again.
Provision == provisioned' = TRUE /\ UNCHANGED state

Next == Approve \/ Reject \/ MarkDone \/ MarkErred \/ Cancel \/ Provision

Spec == Init /\ [][Next]_vars
=============================================================================
