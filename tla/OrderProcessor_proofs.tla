------------------------ MODULE OrderProcessor_proofs ------------------------
(***************************************************************************)
(* Proofs about OrderProcessor, for any number of threads, names, attempts *)
(* and failures.                                                           *)
(***************************************************************************)
EXTENDS OrderProcessor, TLAPS

\* What a thread's record is after one of its fields moved.
LEMMA ProcUpdate ==
    ASSUME proc \in [Procs -> ProcStates], NEW p \in Procs
    PROVE  /\ Idle \in ProcStates
           /\ \A pc \in Pcs : pc # "refetch" \/ proc[p].attempt < RetryCount
                => [proc EXCEPT ![p].pc = pc] \in [Procs -> ProcStates]
           /\ [proc EXCEPT ![p] = Idle] \in [Procs -> ProcStates]
<1>1. Idle \in ProcStates
  BY OrderAssumption DEF Idle, ProcStates, Pcs, NoName
<1>2. ASSUME NEW pc \in Pcs, pc # "refetch" \/ proc[p].attempt < RetryCount
      PROVE  [proc[p] EXCEPT !.pc = pc] \in ProcStates
  BY <1>2 DEF ProcStates
<1> QED BY <1>1, <1>2

\* Every thread starts from the beginning, so the initial state is well typed.
LEMMA InitTypeOK == OrderInit => OrderTypeOK
  BY OrderAssumption
  DEF OrderInit, OrderTypeOK, Idle, ProcStates, Pcs, Names, NoName, Active, Terminal, Types

\* A step of a thread that takes the order up with attempt n.
LEMMA DispatchType ==
    ASSUME OrderTypeOK, NEW p \in Procs, NEW n \in 0..RetryCount, Dispatch(p, n)
    PROVE  proc' \in [Procs -> ProcStates]
<1>1. [Idle EXCEPT !.attempt = n,
                   !.pc = IF state = "PENDING_PROVIDER" THEN "evaluate" ELSE "provision"]
        \in ProcStates
  BY DEF Idle, ProcStates, Pcs, NoName
<1> QED BY <1>1 DEF OrderTypeOK, Dispatch

\* Every action keeps the variables in their types.
LEMMA NextTypeOK == OrderTypeOK /\ [OrderNext]_orderVars => OrderTypeOK'
<1> SUFFICES ASSUME OrderTypeOK, [OrderNext]_orderVars PROVE OrderTypeOK'
  OBVIOUS
<1> USE OrderAssumption
<1>1. ASSUME NEW p \in Procs, NEW pc \in Pcs, Goto(p, pc),
             pc # "refetch" \/ proc[p].attempt < RetryCount
      PROVE  proc' \in [Procs -> ProcStates]
  BY <1>1, ProcUpdate DEF Goto, OrderTypeOK
<1>2. ASSUME NEW p \in Procs, Stop(p)
      PROVE  proc' \in [Procs -> ProcStates]
  BY <1>2, ProcUpdate DEF Stop, OrderTypeOK
<1>3. ASSUME Glitch \/ Fault \/ UNCHANGED counters
      PROVE  hiccups' \in Nat /\ faults' \in Nat /\ crashes' \in Nat /\ cancels' \in Nat
  BY <1>3 DEF Glitch, Fault, counters, OrderTypeOK
<1>4. ASSUME NEW p \in Procs, Retry(p)
      PROVE  proc' \in [Procs -> ProcStates]
  BY <1>1, <1>2, <1>4 DEF Retry, Pcs
<1>5. ASSUME NEW p \in Procs, Work(p) PROVE OrderTypeOK'
  <2>1. CASE Start(p)
    BY <2>1, <1>3, DispatchType DEF Start, OrderTypeOK, world
  <2>2. CASE Refetch(p)
    <3>1. proc' \in [Procs -> ProcStates]
      <4>1. CASE Dispatch(p, proc[p].attempt + 1)
        <5>1. proc[p].attempt + 1 \in 0..RetryCount
          BY <2>2 DEF Refetch, At, OrderTypeOK, ProcStates
        <5> QED BY <4>1, <5>1, DispatchType
      <4>2. ASSUME proc[p].attempt + 1 < RetryCount
            PROVE  [proc EXCEPT ![p].attempt = @ + 1] \in [Procs -> ProcStates]
        <5>1. proc[p].attempt + 1 \in 0..RetryCount
          BY <4>2 DEF OrderTypeOK, ProcStates
        <5>2. [proc[p] EXCEPT !.attempt = @ + 1] \in ProcStates
          BY <4>2, <5>1 DEF OrderTypeOK, ProcStates
        <5> QED BY <5>2 DEF OrderTypeOK
      <4> QED BY <2>2, <4>1, <4>2, <1>2 DEF Refetch
    <3> QED BY <2>2, <3>1, <1>3 DEF Refetch, OrderTypeOK, world
  <2>3. CASE Evaluate(p)
    BY <2>3, <1>1, <1>2, <1>3, <1>4 DEF Evaluate, Hiccup, OrderTypeOK, world, Pcs
  <2>4. CASE Approve(p)
    BY <2>4, <1>1, <1>2, <1>3, <1>4 DEF Approve, Hiccup, OrderTypeOK, Pcs, Active
  <2>5. CASE Refresh(p)
    BY <2>5, <1>1, <1>3, <1>4 DEF Refresh, Hiccup, OrderTypeOK, world, Pcs
  <2>6. CASE Reject(p)
    BY <2>6, <1>1, <1>2, <1>3, <1>4 DEF Reject, Hiccup, OrderTypeOK, Terminal
  <2>7. CASE ReadResource(p)
    <3> DEFINE next == [proc[p] EXCEPT !.name = IF backendId = NoName THEN 1 ELSE backendId,
                                       !.reuse = backendId # NoName,
                                       !.pc = IF backendId = NoName THEN "create" ELSE "pull"]
    <3>1. next \in ProcStates
      <4>1. proc[p] \in ProcStates /\ backendId \in Names \cup {NoName}
        BY DEF OrderTypeOK
      <4>2. (IF backendId = NoName THEN 1 ELSE backendId) \in Names
        BY <4>1 DEF Names, NoName
      <4>3. (IF backendId = NoName THEN "create" ELSE "pull") \in Pcs \ {"refetch"}
        BY DEF Pcs
      <4>4. (backendId # NoName) \in BOOLEAN
        OBVIOUS
      <4> HIDE DEF Pcs, Names
      <4> QED BY <4>1, <4>2, <4>3, <4>4 DEF ProcStates
    <3>2. proc' \in [Procs -> ProcStates]
      <4>1. CASE Retry(p)
        BY <4>1, <1>4
      <4>2. CASE proc' = [proc EXCEPT ![p] = next]
        BY <4>2, <3>1 DEF OrderTypeOK
      <4> QED BY <2>7, <4>1, <4>2 DEF ReadResource, Hiccup
    <3> QED BY <2>7, <3>2, <1>3 DEF ReadResource, Hiccup, OrderTypeOK, world
  <2>8. CASE Pull(p)
    BY <2>8, <1>1, <1>3 DEF Pull, OrderTypeOK, world, Pcs
  <2>9. CASE CreateCheck(p)
    <3>1. ASSUME proc[p].name # NameTries
          PROVE  [proc EXCEPT ![p].name = @ + 1] \in [Procs -> ProcStates]
      <4>1. proc[p].name + 1 \in Names
        BY <3>1 DEF OrderTypeOK, ProcStates, Names, NoName
      <4>2. [proc[p] EXCEPT !.name = @ + 1] \in ProcStates
        BY <4>1 DEF OrderTypeOK, ProcStates
      <4> QED BY <4>2 DEF OrderTypeOK
    <3>2. proc' \in [Procs -> ProcStates]
      BY <2>9, <3>1, <1>1, <1>2 DEF CreateCheck, Pcs
    <3> QED BY <2>9, <3>2, <1>3 DEF CreateCheck, OrderTypeOK, world
  <2>10. CASE CreateDo(p)
    BY <2>10, <1>1, <1>3 DEF CreateDo, OrderTypeOK, Pcs
  <2>11. CASE Setup(p)
    BY <2>11, <1>1, <1>3 DEF Setup, OrderTypeOK, Pcs
  <2>12. CASE SetBackendId(p)
    BY <2>12, <1>1, <1>3, <1>4 DEF SetBackendId, Hiccup, OrderTypeOK, Pcs, ProcStates
  <2>13. CASE SetLimits(p)
    BY <2>13, <1>1, <1>3, <1>4 DEF SetLimits, Hiccup, OrderTypeOK, world, Pcs
  <2>14. CASE Update(p)
    BY <2>14, <1>1, <1>3, <1>4 DEF Update, Hiccup, OrderTypeOK, Pcs
  <2>15. CASE Terminate(p)
    BY <2>15, <1>1, <1>2, <1>3, <1>4 DEF Terminate, Hiccup, OrderTypeOK, Pcs
  <2>16. CASE FinishRead(p)
    BY <2>16, <1>1, <1>2, <1>3, <1>4 DEF FinishRead, Hiccup, OrderTypeOK, world, Pcs
  <2>17. CASE SetDone(p)
    BY <2>17, <1>1, <1>2, <1>3, <1>4 DEF SetDone, Hiccup, OrderTypeOK, Pcs, Terminal
  <2>18. CASE ErrRead(p)
    BY <2>18, <1>1, <1>2, <1>3 DEF ErrRead, OrderTypeOK, world, Pcs
  <2>19. CASE SetErred(p)
    BY <2>19, <1>2, <1>3 DEF SetErred, OrderTypeOK, Terminal
  <2> QED
    BY <1>5, <2>1, <2>2, <2>3, <2>4, <2>5, <2>6, <2>7, <2>8, <2>9, <2>10, <2>11, <2>12,
       <2>13, <2>14, <2>15, <2>16, <2>17, <2>18, <2>19 DEF Work
<1>6. CASE Cancel
  BY <1>6 DEF Cancel, OrderTypeOK, Terminal
<1>7. CASE Crash
  BY <1>7 DEF Crash, OrderTypeOK, world, Idle, ProcStates, Pcs, NoName
<1>8. CASE Finished \/ UNCHANGED orderVars
  BY <1>8 DEF Finished, OrderTypeOK, orderVars, world, counters
<1> QED BY <1>5, <1>6, <1>7, <1>8 DEF OrderNext

\* The processor is type correct.
THEOREM TypeCorrect == OrderSpec => []OrderTypeOK
  BY InitTypeOK, NextTypeOK, PTL DEF OrderSpec

-----------------------------------------------------------------------------
\* How the pc of a thread changes, and that the other threads stay.
LEMMA ProcStep ==
    ASSUME OrderTypeOK, NEW p \in Procs
    PROVE  /\ \A pc \in Pcs : Goto(p, pc) =>
                proc'[p].pc = pc /\ \A q \in Procs \ {p} : proc'[q] = proc[q]
           /\ \A pc \in Pcs : Goto(p, pc) =>
                proc'[p].name = proc[p].name /\ proc'[p].reuse = proc[p].reuse
           /\ Stop(p) => proc'[p].pc = "idle" /\ \A q \in Procs \ {p} : proc'[q] = proc[q]
           /\ Retry(p) => /\ proc'[p].pc \in {"idle", "refetch"}
                          /\ \A q \in Procs \ {p} : proc'[q] = proc[q]
           /\ proc' = [proc EXCEPT ![p].attempt = @ + 1] => proc'[p].pc = proc[p].pc
  BY DEF OrderTypeOK, ProcStates, Goto, Stop, Retry, Idle, Pcs

\* An order that is worked on stays approved.
LEMMA NextApproved == OrderTypeOK /\ ApprovedInv /\ [OrderNext]_orderVars => ApprovedInv'
<1> SUFFICES ASSUME OrderTypeOK, ApprovedInv, [OrderNext]_orderVars PROVE ApprovedInv'
  OBVIOUS
<1>1. ASSUME NEW p \in Procs, Work(p) PROVE ApprovedInv'
  <2> DEFINE Others == \A q \in Procs \ {p} : proc'[q] = proc[q]
  <2>1. state # "PENDING_PROVIDER" => state' # "PENDING_PROVIDER"
    BY <1>1 DEF Work, Start, Refetch, Evaluate, Approve, Refresh, Reject, ReadResource, Pull,
       CreateCheck, CreateDo, Setup, SetBackendId, SetLimits, Update, Terminate, FinishRead,
       SetDone, ErrRead, SetErred, world, Active
  <2>2. Others
    <3>1. ASSUME NEW n, Dispatch(p, n) PROVE Others
      BY <3>1 DEF Dispatch, OrderTypeOK
    <3> QED
      BY <1>1, <3>1, ProcStep
      DEF Work, Start, Refetch, Evaluate, Approve, Refresh, Reject, ReadResource, Pull,
          CreateCheck, CreateDo, Setup, SetBackendId, SetLimits, Update, Terminate, FinishRead,
          SetDone, ErrRead, SetErred, Hiccup, Pcs, OrderTypeOK
  <2>3. proc'[p].pc \notin BeforeApproval => state' # "PENDING_PROVIDER"
    <3>1. ASSUME NEW n, Dispatch(p, n), UNCHANGED state
          PROVE  proc'[p].pc \notin BeforeApproval => state' # "PENDING_PROVIDER"
      BY <3>1 DEF Dispatch, OrderTypeOK, BeforeApproval, Idle
    <3>2. CASE Start(p) \/ Refetch(p)
      BY <3>1, <3>2, ProcStep DEF Start, Refetch, At, BeforeApproval, world
    <3>3. CASE Evaluate(p) \/ Approve(p) \/ Reject(p)
      BY <3>3, ProcStep DEF Evaluate, Approve, Reject, Hiccup, BeforeApproval, Pcs
    <3>4. CASE proc[p].pc \notin BeforeApproval
      BY <2>1, <3>4 DEF ApprovedInv
    <3> QED
      BY <1>1, <3>2, <3>3, <3>4
      DEF Work, Refresh, ReadResource, Pull, CreateCheck, CreateDo, Setup, SetBackendId,
          SetLimits, Update, Terminate, FinishRead, SetDone, ErrRead, SetErred, At,
          BeforeApproval
  <2> QED BY <2>1, <2>2, <2>3 DEF ApprovedInv
<1>2. CASE Cancel
  BY <1>2 DEF Cancel, ApprovedInv
<1>3. CASE Crash
  BY <1>3 DEF Crash, ApprovedInv, Idle, BeforeApproval
<1>4. CASE Finished \/ UNCHANGED orderVars
  BY <1>4 DEF Finished, ApprovedInv, orderVars, world
<1> QED BY <1>1, <1>2, <1>3, <1>4 DEF OrderNext

\* The approval invariant, of every behaviour.
LEMMA Approved == OrderSpec => []ApprovedInv
<1>1. OrderInit => ApprovedInv
  BY DEF OrderInit, ApprovedInv, Idle, BeforeApproval
<1> QED BY <1>1, TypeCorrect, NextApproved, PTL DEF OrderSpec

\* A pending order is never erred: only a thread past the approval sets it so.
THEOREM PendingKept == OrderSpec => PendingNeverErred
<1>1. ApprovedInv /\ [OrderNext]_orderVars => [state = "PENDING_PROVIDER" => state' # "ERRED"]_orderVars
  <2> SUFFICES ASSUME ApprovedInv, OrderNext, state = "PENDING_PROVIDER" PROVE state' # "ERRED"
    OBVIOUS
  <2>1. ASSUME NEW p \in Procs, SetErred(p) PROVE FALSE
    BY <2>1 DEF SetErred, At, ApprovedInv, BeforeApproval
  <2> QED
    BY <2>1 DEF OrderNext, Work, Start, Refetch, Evaluate, Approve, Refresh, Reject, ReadResource,
       Pull, CreateCheck, CreateDo, Setup, SetBackendId, SetLimits, Update, Terminate,
       FinishRead, SetDone, ErrRead, Cancel, Crash, Finished, orderVars, world
<1> QED BY <1>1, Approved, PTL DEF OrderSpec, PendingNeverErred

-----------------------------------------------------------------------------
\* What no step undoes at the backend, as long as no resource is re-created
\* under a backend_id that Waldur already has.
Kept ==
    /\ type' = type
    /\ backendId # NoName => backendId' # NoName
    /\ type = "CREATE" => \A n \in Names : account[n] = "ready" => account'[n] = "ready"
    /\ type = "CREATE" /\ backendId' # NoName => account'[backendId'] = "ready"
    /\ limits = "new" => limits' = "new"
    /\ type = "TERMINATE" =>
          /\ backendId' = backendId
          /\ \A n \in Names : account[n] = "absent" => account'[n] = "absent"

\* Every step of a thread keeps it: an account is created only where there is
\* none, and a backend_id is recorded only for an account that is set up.
LEMMA WorkKeeps ==
    ASSUME OrderTypeOK, DoneInv, NEW p \in Procs, Work(p)
    PROVE  Kept
<1>1. CASE UNCHANGED <<type, backendId, account, limits>>
  BY <1>1 DEF Kept, DoneInv
<1>2. CASE CreateDo(p)
  BY <1>2 DEF CreateDo, Kept, DoneInv, CreatorInv, Creating, At, OrderTypeOK
<1>3. CASE Setup(p)
  BY <1>3 DEF Setup, Kept, DoneInv, CreatorInv, Creating, At, OrderTypeOK
<1>4. CASE SetBackendId(p)
  BY <1>4 DEF SetBackendId, Kept, DoneInv, CreatorInv, Creating, At, OrderTypeOK, Names, NoName
<1>5. CASE Update(p)
  BY <1>5 DEF Update, Kept, DoneInv
<1>6. CASE Terminate(p)
  BY <1>6 DEF Terminate, Kept, OrderTypeOK
<1> QED
  BY <1>1, <1>2, <1>3, <1>4, <1>5, <1>6
  DEF Work, Start, Refetch, Evaluate, Approve, Refresh, Reject, ReadResource, Pull,
      CreateCheck, SetLimits, FinishRead, SetDone, ErrRead, SetErred, world

\* So what an order asked for stays provisioned.
LEMMA KeptProvisioned ==
    ASSUME OrderTypeOK, type \in {"CREATE", "UPDATE", "TERMINATE"}, Kept
    PROVE  Provisioned => Provisioned'
  BY DEF Kept, Provisioned, OrderTypeOK

\* So does what another thread knows of the resource it creates.
LEMMA KeptCreator ==
    ASSUME OrderTypeOK, Kept, NEW q \in Procs, CreatorInv(q), proc'[q] = proc[q]
    PROVE  CreatorInv(q)'
  BY DEF Kept, CreatorInv

\* A thread reaches "finish" only when the backend holds what was asked for.
LEMMA WorkDone ==
    ASSUME OrderTypeOK, DoneInv, type \in {"CREATE", "UPDATE", "TERMINATE"},
           NEW p \in Procs, Work(p)
    PROVE  DoneInv'
<1> USE OrderAssumption
<1>0. Kept
  BY WorkKeeps
<1>1. Provisioned => Provisioned'
  BY <1>0, KeptProvisioned
<1>2. type' = "CREATE" /\ backendId' # NoName => account'[backendId'] = "ready"
  BY <1>0 DEF Kept
<1>3. state' = "DONE" => Provisioned'
  <2>1. CASE SetDone(p)
    BY <2>1, <1>1 DEF SetDone, DoneInv, At
  <2>2. CASE state' # "DONE" \/ state' = state
    BY <2>2, <1>1 DEF DoneInv
  <2> QED
    BY <2>1, <2>2 DEF Work, Start, Refetch, Evaluate, Approve, Refresh, Reject, ReadResource,
       Pull, CreateCheck, CreateDo, Setup, SetBackendId, SetLimits, Update, Terminate,
       FinishRead, ErrRead, SetErred, world
<1>4. ASSUME NEW q \in Procs \ {p}
      PROVE  /\ proc'[q].pc \in Creating => CreatorInv(q)'
             /\ proc'[q].pc \in {"finish", "setdone"} => Provisioned'
  <2>1. proc'[q] = proc[q]
    <3>1. ASSUME NEW n, Dispatch(p, n) PROVE proc'[q] = proc[q]
      BY <3>1 DEF Dispatch, OrderTypeOK
    <3> QED
      BY <3>1, ProcStep
      DEF Work, Start, Refetch, Evaluate, Approve, Refresh, Reject, ReadResource, Pull,
          CreateCheck, CreateDo, Setup, SetBackendId, SetLimits, Update, Terminate, FinishRead,
          SetDone, ErrRead, SetErred, Hiccup, Pcs, OrderTypeOK
  <2> QED BY <2>1, <1>0, <1>1, KeptCreator DEF DoneInv
<1>5. /\ proc'[p].pc \in Creating => CreatorInv(p)'
      /\ proc'[p].pc \in {"finish", "setdone"} => Provisioned'
  <2>0. proc[p].pc \in Creating => CreatorInv(p)
    BY DEF DoneInv
  <2>1. ASSUME NEW n, Dispatch(p, n) PROVE proc'[p].pc \notin Creating \cup {"finish", "setdone"}
    BY <2>1 DEF Dispatch, OrderTypeOK, Idle, Creating
  <2>2. CASE Start(p) \/ Refetch(p)
    BY <2>1, <2>2, ProcStep DEF Start, Refetch, At, Creating
  <2>3. CASE Evaluate(p) \/ Approve(p) \/ Refresh(p) \/ Reject(p) \/ ErrRead(p) \/ SetErred(p)
    BY <2>3, ProcStep
    DEF Evaluate, Approve, Refresh, Reject, ErrRead, SetErred, Hiccup, Creating, Pcs
  <2>4. CASE ReadResource(p)
    <3>1. CASE Retry(p)
      BY <3>1, ProcStep DEF Creating
    <3>2. CASE ~Retry(p)
      BY <2>4, <3>2
      DEF ReadResource, Hiccup, Creating, CreatorInv, OrderTypeOK, ProcStates, Names, NoName, world
    <3> QED BY <3>1, <3>2
  <2>5. CASE Pull(p)
    BY <2>5, <2>0, ProcStep, <1>0
    DEF Pull, At, Creating, CreatorInv, Pcs, world, Provisioned, DoneInv
  <2>6. CASE CreateCheck(p)
    <3>1. CASE Stop(p) \/ Goto(p, "error") \/ Goto(p, "creating")
      BY <2>6, <3>1, <2>0, ProcStep DEF CreateCheck, At, Creating, CreatorInv, Pcs, world
    <3>2. CASE proc' = [proc EXCEPT ![p].name = @ + 1] /\ proc[p].name # NameTries
      BY <2>6, <3>2, <2>0
      DEF CreateCheck, At, Creating, CreatorInv, world, OrderTypeOK, ProcStates, Names, NoName
    <3> QED BY <2>6, <3>1, <3>2 DEF CreateCheck
  <2>7. CASE CreateDo(p)
    BY <2>7, <2>0, ProcStep DEF CreateDo, At, Creating, CreatorInv, Pcs
  <2>8. CASE Setup(p)
    BY <2>8, <2>0, ProcStep, <1>2
    DEF Setup, At, Creating, CreatorInv, Pcs, Provisioned, OrderTypeOK
  <2>9. CASE SetBackendId(p)
    BY <2>9, <2>0, ProcStep
    DEF SetBackendId, Hiccup, At, Creating, CreatorInv, Pcs, Names, NoName
  <2>10. CASE SetLimits(p)
    BY <2>10, <2>0, ProcStep, <1>2
    DEF SetLimits, Hiccup, At, Creating, CreatorInv, Pcs, world, Provisioned
  <2>11. CASE Update(p)
    BY <2>11, ProcStep DEF Update, Hiccup, Creating, Pcs, Provisioned
  <2>12. CASE Terminate(p)
    BY <2>12, ProcStep DEF Terminate, Hiccup, Creating, Pcs, Provisioned, OrderTypeOK, NoName
  <2>13. CASE FinishRead(p) \/ SetDone(p)
    BY <2>13, ProcStep, <1>1 DEF FinishRead, SetDone, Hiccup, At, Creating, Pcs, DoneInv
  <2> QED
    BY <2>2, <2>3, <2>4, <2>5, <2>6, <2>7, <2>8, <2>9, <2>10, <2>11, <2>12, <2>13 DEF Work
<1> QED BY <1>2, <1>3, <1>4, <1>5 DEF DoneInv

\* The environment and the end of the process disturb nothing of it.
LEMMA NextDone ==
    ASSUME OrderTypes \subseteq {"CREATE", "UPDATE", "TERMINATE"}
    PROVE  OrderTypeOK /\ DoneInv /\ [OrderNext]_orderVars => DoneInv'
<1> SUFFICES ASSUME OrderTypeOK, DoneInv, [OrderNext]_orderVars PROVE DoneInv'
  OBVIOUS
<1>1. type \in {"CREATE", "UPDATE", "TERMINATE"}
  BY DEF OrderTypeOK
<1>2. CASE \E p \in Procs : Work(p)
  BY <1>1, <1>2, WorkDone
<1>3. CASE Cancel
  BY <1>3 DEF Cancel, DoneInv, CreatorInv, Provisioned
<1>4. CASE Crash
  BY <1>4 DEF Crash, world, DoneInv, Creating, Idle, Provisioned
<1>5. CASE Finished \/ UNCHANGED orderVars
  BY <1>5 DEF Finished, orderVars, world, DoneInv, CreatorInv, Provisioned
<1> QED BY <1>2, <1>3, <1>4, <1>5 DEF OrderNext

\* The inductive invariant, of every behaviour.
LEMMA DoneInvariant ==
    ASSUME OrderTypes \subseteq {"CREATE", "UPDATE", "TERMINATE"}
    PROVE  OrderSpec => []DoneInv
<1>1. OrderInit => DoneInv
  BY DEF OrderInit, DoneInv, Idle, Creating
<1> QED BY <1>1, TypeCorrect, NextDone, PTL DEF OrderSpec

\* An order to create, to update with its own limits or to terminate is marked
\* done only when the backend holds what it asked for, for any number of
\* threads, attempts, transient errors, faults and crashes.
THEOREM DoneProvisioned ==
    ASSUME OrderTypes \subseteq {"CREATE", "UPDATE", "TERMINATE"}
    PROVE  OrderSpec => []DoneIsProvisioned
<1>1. DoneInv => DoneIsProvisioned
  BY DEF DoneInv, DoneIsProvisioned
<1> QED BY <1>1, DoneInvariant, PTL

\* For these orders the processor implements OrderLifecycle.
THEOREM ImplementsLifecycle ==
    ASSUME OrderTypes \subseteq {"CREATE", "UPDATE", "TERMINATE"}
    PROVE  OrderSpec => LifecycleSpec
<1>1. OrderInit => Lifecycle!Init
  BY DEF OrderInit, Lifecycle!Init, Provisioned
<1>2. OrderTypeOK /\ DoneInv /\ ApprovedInv /\ [OrderNext]_orderVars => [Lifecycle!Next]_(Lifecycle!vars)
  <2> SUFFICES ASSUME OrderTypeOK, DoneInv, ApprovedInv, [OrderNext]_orderVars
               PROVE  [Lifecycle!Next]_(Lifecycle!vars)
    OBVIOUS
  <2> USE DEF Lifecycle!Next, Lifecycle!vars
  <2>1. ASSUME NEW p \in Procs, Work(p) PROVE [Lifecycle!Next]_(Lifecycle!vars)
    <3>1. Provisioned => Provisioned'
      <4>1. type \in {"CREATE", "UPDATE", "TERMINATE"}
        BY DEF OrderTypeOK
      <4> QED BY <2>1, <4>1, WorkKeeps, KeptProvisioned
    <3>2. CASE UNCHANGED state
      <4>1. Provisioned' \/ (Provisioned' = Provisioned)
        BY <3>1 DEF Provisioned
      <4> QED BY <3>2, <4>1 DEF Lifecycle!Provision
    <3>3. CASE UNCHANGED <<type, backendId, account, limits>> /\ ~UNCHANGED state
      <4>1. Provisioned' = Provisioned
        BY <3>3 DEF Provisioned
      <4>2. CASE Approve(p) \/ Reject(p)
        BY <3>3, <4>1, <4>2 DEF Approve, Reject, Lifecycle!Approve, Lifecycle!Reject
      <4>3. CASE SetDone(p)
        BY <3>3, <4>1, <4>3 DEF SetDone, At, DoneInv, Lifecycle!MarkDone
      <4>4. CASE SetErred(p)
        BY <3>3, <4>1, <4>4
        DEF SetErred, At, ApprovedInv, BeforeApproval, Active, Lifecycle!MarkErred
      <4> QED
        BY <2>1, <3>3, <4>2, <4>3, <4>4
        DEF Work, Start, Refetch, Evaluate, Refresh, ReadResource, Pull, CreateCheck, CreateDo,
            Setup, SetBackendId, SetLimits, Update, Terminate, FinishRead, ErrRead, world
    <3> QED
      BY <2>1, <3>2, <3>3
      DEF Work, Start, Refetch, Evaluate, Approve, Refresh, Reject, ReadResource, Pull,
          CreateCheck, CreateDo, Setup, SetBackendId, SetLimits, Update, Terminate, FinishRead,
          SetDone, ErrRead, SetErred, world
  <2>2. CASE Cancel
    <3>1. Provisioned' = Provisioned
      BY <2>2 DEF Cancel, Provisioned
    <3> QED BY <2>2, <3>1 DEF Cancel, Active, Lifecycle!Cancel
  <2>3. CASE Crash \/ Finished \/ UNCHANGED orderVars
    <3>1. UNCHANGED world
      BY <2>3 DEF Crash, Finished, orderVars
    <3> QED BY <3>1 DEF world, Provisioned
  <2> QED BY <2>1, <2>2, <2>3 DEF OrderNext
<1> QED
  BY <1>1, <1>2, TypeCorrect, DoneInvariant, Approved, PTL
  DEF OrderSpec, LifecycleSpec, Lifecycle!Spec
=============================================================================
