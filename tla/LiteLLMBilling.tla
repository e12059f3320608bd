--------------------------- MODULE LiteLLMBilling ---------------------------
(***************************************************************************)
(* Which resource a request on the LiteLLM proxy bills to.  API usage      *)
(* bills to the resource of the key that served it; chat usage arrives on  *)
(* Open WebUI's shared key and bills to the resource that owned the        *)
(* person's address on the day of the request (plugins/litellm             *)
(* ownership.py, reporting.py and the user management of backend.py).      *)
(* Every report recomputes its month from the proxy's rows and from the    *)
(* ownership periods as they are now, so moving, removing or pruning       *)
(* people must not change what was reported.                               *)
(***************************************************************************)
EXTENDS Integers, Sequences, FiniteSets

CONSTANTS Resources, Emails,
          DaysPerMonth, Retention,   \* ownership_retention_months
          MaxDay, MaxCalls, MaxPeriods   \* bounds: days, requests, periods of a record

BillingParameters ==
    /\ {DaysPerMonth, Retention, MaxDay} \subseteq Nat \ {0} /\ MaxCalls \in Nat /\ MaxPeriods \in Nat
    /\ Resources \cap {"shared", "none", "nobody"} = {}   \* what stands for no resource below

VARIABLES today,       \* the proxy's UTC day
          owners,      \* ownership periods on each address's user record
          calls,       \* requests the proxy has served
          split,       \* the proxy splits a person's usage by key
          candidates,  \* expired addresses of the last listing
          billed       \* pairs of a request and a resource it was reported for
bvars == <<today, owners, calls, split, candidates, billed>>

Shared == "shared"             \* the alias of Open WebUI's own key
NoRecord == <<[resource |-> "none", from |-> 0, to |-> 0]>>    \* the proxy has no such user
Open == MaxDay + 1             \* the end of a period that is not over
Always == 0                    \* the start of a period with no known start
Alias == Resources \cup {Shared}
Periods == [resource : Resources, from : 0 .. MaxDay, to : 1 .. Open]

BillingTypeOK ==
    /\ today \in 1 .. MaxDay /\ split \in BOOLEAN /\ candidates \subseteq Emails
    /\ owners \in [Emails -> Seq(Periods) \cup {NoRecord}]
    /\ calls \subseteq [day : 1 .. MaxDay, alias : Alias, email : Emails]
    /\ billed \subseteq calls \X Resources

(* ownership.py *)
CurrentOwner(ps) ==
    LET open == {i \in DOMAIN ps : ps[i].to = Open}
    IN  IF open = {} THEN "nobody" ELSE ps[CHOOSE i \in open : \A j \in open : i <= j].resource

\* a mutant: the day of a move goes to the resource the person joined
OwnerOnLast(ps, d) ==
    LET cover == {i \in DOMAIN ps : ps[i].from <= d /\ d <= ps[i].to}
    IN  IF cover = {} THEN "nobody" ELSE ps[CHOOSE i \in cover : \A j \in cover : i >= j].resource

\* the first period that covers the day
OwnerOn(ps, d) ==
    LET cover == {i \in DOMAIN ps : ps[i].from <= d /\ d <= ps[i].to}
    IN  IF cover = {} THEN "nobody" ELSE ps[CHOOSE i \in cover : \A j \in cover : i <= j].resource

Claim(ps, r, d) ==
    IF CurrentOwner(ps) = r THEN ps ELSE Append(ps, [resource |-> r, from |-> d, to |-> Open])

Release(ps, r, d) ==
    [i \in DOMAIN ps |-> IF ps[i].to = Open /\ ps[i].resource = r THEN [ps[i] EXCEPT !.to = d] ELSE ps[i]]

Month(d) == (d - 1) \div DaysPerMonth
RetentionCutoff(d) == (Month(d) - (Retention - 1)) * DaysPerMonth + 1

\* the periods at the positions in keep, in their order
Rank(keep, i) == Cardinality({j \in keep : j < i})
Nth(keep, k) == CHOOSE i \in keep : Rank(keep, i) = k - 1
Kept(ps, keep) == [k \in 1 .. Cardinality(keep) |-> ps[Nth(keep, k)]]

Trim(ps, cutoff) == Kept(ps, {i \in DOMAIN ps : ps[i].to >= cutoff})
Expired(ps, cutoff) == ps # NoRecord /\ ps # <<>> /\ Trim(ps, cutoff) = <<>>

BillingInit ==
    /\ today = 1 /\ calls = {} /\ billed = {} /\ candidates = {} /\ split \in BOOLEAN
    /\ \E r \in Resources :    \* no user, one made by hand, or one stamped before periods existed
         owners \in [Emails -> {NoRecord, <<>>, <<[resource |-> r, from |-> Always, to |-> Open]>>}]

(***************************************************************************)
(* Members come and go (backend.py).                                       *)
(***************************************************************************)
\* refused while another resource holds the address; the write trims the record
EnsureLiteLLMUser(r, e) ==
    LET ps == IF owners[e] = NoRecord THEN <<>> ELSE Trim(owners[e], RetentionCutoff(today))
    IN  /\ CurrentOwner(ps) \in {"nobody", r} /\ Len(ps) < MaxPeriods
        /\ owners' = [owners EXCEPT ![e] = Claim(ps, r, today)]
        /\ UNCHANGED <<today, calls, split, candidates, billed>>

ReleaseLiteLLMUser(r, e) ==
    /\ owners[e] # NoRecord /\ CurrentOwner(owners[e]) = r
    /\ owners' = [owners EXCEPT ![e] = Release(Trim(@, RetentionCutoff(today)), r, today)]
    /\ UNCHANGED <<today, calls, split, candidates, billed>>

\* the resource goes: every member it holds is released, those that fail are not
RemoveAllUsers(r) ==
    \E gone \in SUBSET {e \in Emails : owners[e] # NoRecord /\ CurrentOwner(owners[e]) = r} :
        /\ gone # {}
        /\ owners' = [e \in Emails |-> IF e \in gone
                         THEN Release(Trim(owners[e], RetentionCutoff(today)), r, today) ELSE owners[e]]
        /\ UNCHANGED <<today, calls, split, candidates, billed>>

\* a listing finds the expired records
ManagedUsers ==
    /\ candidates' = {e \in Emails : Expired(owners[e], RetentionCutoff(today))}
    /\ UNCHANGED <<today, owners, calls, split, billed>>

\* each candidate is read again and deleted when it is still expired
PruneExpiredUsers ==
    /\ candidates # {}
    /\ owners' = [e \in Emails |-> IF e \in candidates /\ Expired(owners[e], RetentionCutoff(today))
                                   THEN NoRecord ELSE owners[e]]
    /\ candidates' = {}
    /\ UNCHANGED <<today, calls, split, billed>>

(***************************************************************************)
(* Usage and reports (reporting.py).                                       *)
(***************************************************************************)
\* a row of a person's usage that may have been served on a minted key
BilledByAlias(q) ==
    IF split THEN q.alias # Shared ELSE \E o \in calls : o.day = q.day /\ o.alias # Shared

\* the requests a report of the resource counts: by alias, and by address and day
ResourceRows(r) ==
    {q \in calls : q.alias = r}
    \cup {q \in calls : /\ owners[q.email] # NoRecord
                        /\ OwnerOn(owners[q.email], q.day) = r
                        /\ ~BilledByAlias(q)}

\* a pass reports every month of the window, each recomputed
GetUsageReportForPeriod(r) ==
    /\ billed' = billed \cup (ResourceRows(r) \X {r})
    /\ UNCHANGED <<today, owners, calls, split, candidates>>

\* the proxy serves a request; the address is whatever its header says
Served(alias, e) ==
    /\ Cardinality(calls) < MaxCalls
    /\ calls' = calls \cup {[day |-> today, alias |-> alias, email |-> e]}
    /\ UNCHANGED <<today, owners, split, candidates, billed>>

\* requests of months no report may ask about any more are forgotten
NextDay ==
    /\ today < MaxDay /\ today' = today + 1
    /\ calls' = {q \in calls : q.day >= RetentionCutoff(today')}
    /\ billed' = {b \in billed : b[1] \in calls'}
    /\ UNCHANGED <<owners, split, candidates>>

BillingNext ==
    \/ \E r \in Resources, e \in Emails : EnsureLiteLLMUser(r, e) \/ ReleaseLiteLLMUser(r, e)
    \/ \E r \in Resources : RemoveAllUsers(r) \/ GetUsageReportForPeriod(r)
    \/ \E a \in Alias, e \in Emails : Served(a, e)
    \/ ManagedUsers \/ PruneExpiredUsers \/ NextDay

(***************************************************************************)
(* Properties.                                                             *)
(***************************************************************************)
\* owner_on and trim: where the proxy splits usage by key, a request once
\* reported for a resource is still in that resource's report of the month,
\* however its person was moved, removed or pruned since.
ReportedStays == split => \A b \in billed : b[1] \in ResourceRows(b[2])

\* _resource_rows: over all reports ever made no request bills to two resources,
\* and one served on a minted key bills to the key's resource only.
BilledOnce ==
    \A b \in billed : /\ \A c \in billed : b[1] = c[1] => b[2] = c[2]
                      /\ b[1].alias = Shared \/ b[1].alias = b[2]

(***************************************************************************)
(* Inductive invariant, for the proofs: what bills by address is owned, on *)
(* its day, by the resource it was reported for, and no request is older   *)
(* than the periods that are kept.                                         *)
(***************************************************************************)
OwnedInv ==
    /\ \A q \in calls : q.day >= RetentionCutoff(today) /\ q.day <= today
    /\ \A b \in billed :
          IF b[1].alias = Shared
          THEN /\ owners[b[1].email] # NoRecord
               /\ OwnerOn(owners[b[1].email], b[1].day) = b[2]
          ELSE b[1].alias = b[2]
=============================================================================
