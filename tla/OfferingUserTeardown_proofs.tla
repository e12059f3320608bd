-------------------- MODULE OfferingUserTeardown_proofs --------------------
(***************************************************************************)
(* Proofs about OfferingUserTeardown for every number of resources and     *)
(* threads.  CleanInv is inductive as long as roles change one at a time:  *)
(* only a grant adds associations, and it meets no teardown.               *)
(***************************************************************************)
EXTENDS OfferingUserTeardown, TLAPS

\* What a thread's record is after it moved on, rested, or read or dealt with
\* one resource.
LEMMA ThreadUpdate ==
    ASSUME thread \in [Threads -> ThreadStates], NEW t \in Threads
    PROVE  /\ Resting \in ThreadStates
           /\ userState \in States => [thread EXCEPT ![t] = Opened] \in [Threads -> ThreadStates]
           /\ [thread EXCEPT ![t] = Resting] \in [Threads -> ThreadStates]
           /\ thread[t].todo = {} => \A pc \in {"claim", "remove", "check", "release",
                                                "markerror", "complete"} :
                  [thread EXCEPT ![t].pc = pc] \in [Threads -> ThreadStates]
           /\ \A r \in thread[t].report :
                  [thread EXCEPT ![t].report = @ \ {r}] \in [Threads -> ThreadStates]
<1>1. Resting \in ThreadStates
  BY DEF Resting, ThreadStates, States
<1>2. ASSUME thread[t].todo = {},
             NEW pc \in {"claim", "remove", "check", "release", "markerror", "complete"}
      PROVE  [thread[t] EXCEPT !.pc = pc] \in ThreadStates
  BY <1>2 DEF ThreadStates
<1>3. ASSUME NEW r \in thread[t].report
      PROVE  [thread[t] EXCEPT !.report = @ \ {r}] \in ThreadStates
  BY <1>3 DEF ThreadStates
<1>4. userState \in States => Opened \in ThreadStates
  BY DEF Opened, ThreadStates
<1> QED BY <1>1, <1>2, <1>3, <1>4

\* The initial state, a member with an account, is type correct.
LEMMA InitTypeOK == TeardownInit => TeardownTypeOK
BY DEF TeardownInit, TeardownTypeOK, States, Departed, ThreadStates, HandlerStates, Resting, Waiting

\* A step of a teardown keeps the types: it leaves the pull with nothing unread.
LEMMA TeardownKeepsTypes ==
    ASSUME TeardownTypeOK, NEW t \in Threads, Teardown(t)
    PROVE  TeardownTypeOK'
<1>1. ASSUME TeardownFault \/ TeardownHiccup \/ UNCHANGED troubles
      PROVE  grants' \in Nat /\ updates' \in Nat /\ userFaults' \in Nat
                /\ userHiccups' \in Nat /\ userCrashes' \in Nat
  BY <1>1 DEF TeardownFault, TeardownHiccup, troubles, TeardownTypeOK
<1>2. ASSUME Rest(t) PROVE thread' \in [Threads -> ThreadStates]
  BY <1>2, ThreadUpdate DEF Rest, TeardownTypeOK
<1>3. ASSUME NEW pc \in {"claim", "remove", "check", "release", "markerror", "complete"},
             thread[t].todo = {}, ThreadGoto(t, pc)
      PROVE  thread' \in [Threads -> ThreadStates]
  BY <1>3, ThreadUpdate DEF ThreadGoto, TeardownTypeOK
<1>4. thread[t].pc # "pull" => thread[t].todo = {}
  BY DEF TeardownTypeOK, ThreadStates
<1>6. CASE PullResources(t)
  <2>1. ASSUME NEW r \in thread[t].todo
        PROVE  [thread EXCEPT ![t].todo = @ \ {r}, ![t].report = @ \cup (assoc \cap {r})]
                 \in [Threads -> ThreadStates]
    <3>1. [thread[t] EXCEPT !.todo = @ \ {r}, !.report = @ \cup (assoc \cap {r})] \in ThreadStates
      BY DEF TeardownTypeOK, ThreadStates
    <3> QED BY <3>1 DEF TeardownTypeOK
  <2>2. thread' \in [Threads -> ThreadStates]
    BY <1>6, <2>1, <1>2, <1>3 DEF PullResources
  <2> QED BY <1>6, <2>2, <1>1 DEF PullResources, TeardownTypeOK, surroundings, cluster
<1>7. CASE Claim(t)
  <2>1. thread' \in [Threads -> ThreadStates]
    BY <1>7, <1>2, <1>3, <1>4 DEF Claim, ThreadAt
  <2>2. userState' \in States
    BY <1>7 DEF Claim, TeardownTypeOK, States, Departed
  <2> QED BY <1>7, <2>1, <2>2, <1>1 DEF Claim, TeardownTypeOK, cluster
<1>8. CASE Remove(t)
  <2>1. thread \in [Threads -> ThreadStates]
    BY DEF TeardownTypeOK
  <2>2. thread[t].todo = {}
    BY <1>8, <1>4 DEF Remove, ThreadAt
  <2>3. ASSUME ThreadGoto(t, "check") \/ ThreadGoto(t, "markerror")
        PROVE  thread' \in [Threads -> ThreadStates]
    BY <1>3, <2>2, <2>3
  <2>4. ASSUME NEW r \in thread[t].report, thread' = [thread EXCEPT ![t].report = @ \ {r}]
        PROVE  thread' \in [Threads -> ThreadStates]
    BY <2>1, <2>4, ThreadUpdate
  <2>5. thread' \in [Threads -> ThreadStates]
    BY <1>8, <2>3, <2>4 DEF Remove
  <2> QED BY <1>8, <2>5, <1>1 DEF Remove, TeardownTypeOK
<1>9. CASE Check(t)
  <2>1. thread' \in [Threads -> ThreadStates]
    BY <1>9, <1>3, <1>4 DEF Check, ThreadAt
  <2> QED BY <1>9, <2>1, <1>1 DEF Check, TeardownTypeOK, surroundings, cluster
<1>10. CASE Release(t)
  <2>1. thread' \in [Threads -> ThreadStates]
    BY <1>10, <1>3, <1>4 DEF Release, ThreadAt
  <2> QED BY <1>10, <2>1, <1>1 DEF Release, TeardownTypeOK
<1>11. CASE MarkError(t)
  BY <1>11, <1>1, <1>2 DEF MarkError, TeardownTypeOK, cluster, States, Departed
<1>12. CASE Complete(t)
  BY <1>12, <1>1, <1>2 DEF Complete, TeardownTypeOK, cluster, States, Departed
<1> QED
  BY <1>6, <1>7, <1>8, <1>9, <1>10, <1>11, <1>12 DEF Teardown

\* A step of the role worker keeps the types.
LEMMA HandleMessagesKeepsTypes ==
    ASSUME TeardownTypeOK, HandleMessages
    PROVE  TeardownTypeOK'
<1>1. ASSUME TeardownFault \/ TeardownHiccup \/ UNCHANGED troubles
      PROVE  grants' \in Nat /\ updates' \in Nat /\ userFaults' \in Nat
                /\ userHiccups' \in Nat /\ userCrashes' \in Nat
  BY <1>1 DEF TeardownFault, TeardownHiccup, troubles, TeardownTypeOK
<1>2. ASSUME Acked, inbox # <<>> PROVE eventTask' \in HandlerStates /\ inbox' \in Seq(Messages)
  BY <1>2 DEF Acked, Waiting, HandlerStates, TeardownTypeOK
<1>3. ASSUME NEW r \in Resources
      PROVE  /\ eventTask.pc = "change" => [eventTask EXCEPT !.todo = @ \ {r}] \in HandlerStates
             /\ eventTask.pc = "change" =>
                   [eventTask EXCEPT !.todo = @ \ {r}, !.failed = TRUE] \in HandlerStates
  BY <1>3 DEF TeardownTypeOK, HandlerStates
<1>4. ASSUME NEW pc \in {"pull", "check", "release", "teardown"}, eventTask.todo = {}
      PROVE  [eventTask EXCEPT !.pc = pc] \in HandlerStates
  BY <1>4 DEF TeardownTypeOK, HandlerStates
<1>5. eventTask.pc # "change" => eventTask.todo = {}
  BY DEF TeardownTypeOK, HandlerStates
<1>6. CASE TakeRoleChange
  BY <1>6, <1>1, <1>4, <1>5 DEF TakeRoleChange, Handling, WorkerAt, TeardownTypeOK, surroundings, cluster
<1>15. CASE TakeUpdate
  <2>1. thread' \in [Threads -> ThreadStates]
    <3>1. thread \in [Threads -> ThreadStates] /\ Events \in Threads /\ userState \in States
      BY DEF TeardownTypeOK, Threads
    <3> QED BY <1>15, <3>1, ThreadUpdate DEF TakeUpdate
  <2>2. CASE Acked
    BY <1>15, <2>1, <2>2, <1>1, <1>2
    DEF TakeUpdate, Handling, TeardownTypeOK, cluster, Acked, Waiting
  <2>3. CASE ~Acked
    BY <1>15, <2>1, <2>3, <1>1, <1>4, <1>5 DEF TakeUpdate, Handling, WorkerAt, TeardownTypeOK, cluster
  <2> QED BY <2>2, <2>3
<1>16. CASE UpdateHandled
  BY <1>16, <1>1, <1>2 DEF UpdateHandled, WorkerAt, TeardownTypeOK, cluster, Acked, Waiting
<1>7. CASE HandlerFails
  BY <1>7, <1>1, <1>2 DEF HandlerFails, WorkerAt, TeardownTypeOK, cluster, Acked, Waiting
<1>8. CASE WorkerPull
  <2>1. \A R \in SUBSET Resources, f \in BOOLEAN :
           [pc |-> "change", todo |-> R, failed |-> f] \in HandlerStates
    BY DEF HandlerStates
  <2>2. eventTask' \in HandlerStates
    BY <1>8, <2>1 DEF WorkerPull
  <2> QED BY <1>8, <2>2, <1>1 DEF WorkerPull, WorkerAt, TeardownTypeOK, surroundings, cluster
<1>9. ASSUME NEW r \in Resources, AddUser(r) PROVE TeardownTypeOK'
  BY <1>9, <1>1, <1>3 DEF AddUser, WorkerAt, TeardownTypeOK
<1>10. ASSUME NEW r \in Resources, RemoveUser(r) PROVE TeardownTypeOK'
  BY <1>10, <1>1, <1>3 DEF RemoveUser, WorkerAt, TeardownTypeOK
<1>11. CASE WorkerEnds
  BY <1>11, <1>1, <1>2 DEF WorkerEnds, WorkerAt, TeardownTypeOK, cluster, Acked, Waiting
<1>12. CASE WorkerGoesOn
  BY <1>12, <1>1, <1>4 DEF WorkerGoesOn, WorkerAt, TeardownTypeOK, surroundings, cluster
<1>13. CASE WorkerCheck
  <2>1. CASE Acked
    BY <1>13, <2>1, <1>1, <1>2 DEF WorkerCheck, WorkerAt, TeardownTypeOK, cluster, Acked, Waiting
  <2>2. CASE ~Acked
    BY <1>13, <2>2, <1>1, <1>4, <1>5 DEF WorkerCheck, WorkerAt, TeardownTypeOK, cluster
  <2> QED BY <2>1, <2>2
<1>14. CASE WorkerRelease
  BY <1>14, <1>1, <1>2 DEF WorkerRelease, WorkerAt, TeardownTypeOK, Acked, Waiting
<1> QED
  BY <1>6, <1>7, <1>8, <1>9, <1>10, <1>11, <1>12, <1>13, <1>14, <1>15, <1>16
  DEF HandleMessages

\* What appending a message does to the inbox.
LEMMA AppendMessage ==
    ASSUME NEW s \in Seq(Messages), NEW m \in Messages
    PROVE  /\ Append(s, m) \in Seq(Messages)
           /\ Append(s, m) # <<>>
           /\ \A i \in 1..Len(Append(s, m)) :
                 Append(s, m)[i] = IF i \in 1..Len(s) THEN s[i] ELSE m
<1>1. Len(Append(s, m)) = Len(s) + 1 /\ Len(s) \in Nat
  OBVIOUS
<1>2. Len(<<>>) = 0
  OBVIOUS
<1> QED BY <1>1, <1>2

\* Every step keeps the types.
LEMMA NextTypeOK == TeardownTypeOK /\ [TeardownNext]_teardownVars => TeardownTypeOK'
<1> SUFFICES ASSUME TeardownTypeOK, [TeardownNext]_teardownVars PROVE TeardownTypeOK'
  OBVIOUS
<1>1. CASE Waldur
  <2>1. inbox' \in Seq(Messages) /\ (inbox' = inbox \/ inbox' # <<>>)
    <3>1. "granted" \in Messages /\ "revoked" \in Messages /\ "departed" \in Messages
      BY DEF Messages
    <3>2. inbox \in Seq(Messages)
      BY DEF TeardownTypeOK
    <3>3. \A x \in Messages : Append(inbox, x) \in Seq(Messages) /\ Append(inbox, x) # <<>>
      BY <3>2, AppendMessage
    <3>4. inbox' = inbox \/ \E x \in Messages : inbox' = Append(inbox, x)
      BY <1>1, <3>1 DEF Waldur, Revoke, Grant, RequestDeletion, Notify
    <3> QED BY <3>2, <3>3, <3>4
  <2>2. CASE Revoke
    BY <2>1, <2>2 DEF Revoke, TeardownTypeOK, cluster, troubles
  <2>3. CASE Grant
    <3>1. role' \in BOOLEAN /\ userState' \in States
      BY <2>3, Zenon DEF Grant, States
    <3>2. grants' \in Nat /\ updates' \in Nat /\ userFaults' \in Nat
                /\ userHiccups' \in Nat /\ userCrashes' \in Nat
      BY <2>3 DEF Grant, TeardownTypeOK
    <3>3. eventTask' = eventTask /\ thread' = thread /\ assoc' = assoc /\ userAccount' = userAccount
          /\ inbox' # <<>>
      BY <2>3, AppendMessage DEF Grant, cluster, TeardownTypeOK, Messages
    <3> QED BY <2>1, <3>1, <3>2, <3>3 DEF TeardownTypeOK
  <2>4. CASE RequestDeletion
    BY <2>4 DEF RequestDeletion, TeardownTypeOK, States, Departed, cluster, troubles
  <2>5. CASE Notify
    BY <2>1, <2>5 DEF Notify, TeardownTypeOK, cluster
  <2> QED BY <1>1, <2>2, <2>3, <2>4, <2>5 DEF Waldur
<1>2. CASE SyncProfiles
  BY <1>2 DEF SyncProfiles, TeardownTypeOK, troubles
<1>3. CASE AgentEnds
  BY <1>3 DEF AgentEnds, Resting, Waiting, ThreadStates, HandlerStates, States,
     TeardownTypeOK, surroundings, cluster
<1>4. CASE UNCHANGED teardownVars
  BY <1>4 DEF teardownVars, TeardownTypeOK, surroundings, cluster, troubles
<1>5. CASE Begin
  <2>1. thread \in [Threads -> ThreadStates] /\ Sweeper \in Threads /\ userState \in States
    BY DEF TeardownTypeOK, Threads
  <2>2. thread' \in [Threads -> ThreadStates]
    BY <1>5, <2>1, ThreadUpdate DEF Begin
  <2> QED BY <1>5, <2>2 DEF Begin, TeardownTypeOK, surroundings, cluster, troubles
<1> QED
  BY <1>1, <1>2, <1>3, <1>4, <1>5, TeardownKeepsTypes, HandleMessagesKeepsTypes DEF TeardownNext

\* The model of the teardown is type correct for any resources and any number
\* of grants, messages and failures.
THEOREM TypeCorrect == TeardownSpec => []TeardownTypeOK
BY InitTypeOK, NextTypeOK, PTL DEF TeardownSpec

-----------------------------------------------------------------------------
(* No association outlives its person's account or row.                      *)

\* At the start no thread is under way and the account is there.
LEMMA InitCleanInv == TeardownInit => CleanInv
BY DEF TeardownInit, CleanInv, NoGrant, ThreadCovers, WorkerCovers, ThreadAt, WorkerAt, Resting, Waiting

\* A step of a teardown never loses an association it did not deal with.
LEMMA TeardownClean ==
    ASSUME TeardownTypeOK, NoGrant, NEW t \in Threads, Teardown(t)
    PROVE  NoGrant'
<1> DEFINE Frame == inbox' = inbox /\ eventTask' = eventTask
<1>1. Frame
  BY DEF Teardown, PullResources, Claim, Remove, Check, Release, MarkError, Complete, surroundings
<1>2. assoc' \subseteq assoc
  BY DEF Teardown, PullResources, Claim, Remove, Check, Release, MarkError, Complete, surroundings, cluster
<1>3. WorkerCovers'
  BY <1>1, <1>2 DEF NoGrant, WorkerCovers, WorkerAt
<1>4. \A u \in Threads \ {t} : thread'[u] = thread[u]
  BY DEF Teardown, PullResources, Claim, Remove, Check, Release, MarkError, Complete, ThreadGoto, Rest,
         TeardownTypeOK
<1>5. \A u \in Threads \ {t} : ThreadCovers(u)'
  BY <1>2, <1>4 DEF NoGrant, ThreadCovers, ThreadAt
<1>6. ThreadCovers(t)
  BY DEF NoGrant
<1>7. ThreadCovers(t)'
  <2> USE <1>6 DEF ThreadCovers, ThreadAt, ThreadGoto, Rest, Resting, TeardownTypeOK
  <2>2. CASE PullResources(t)
    <3>1. assoc' = assoc /\ userAccount' = userAccount
      BY <2>2 DEF PullResources, surroundings, cluster
    <3>2. CASE thread[t].todo = {} /\ ThreadGoto(t, "claim")
      BY <2>2, <3>1, <3>2 DEF PullResources
    <3>3. ASSUME NEW r \in thread[t].todo,
                 thread' = [thread EXCEPT ![t].todo = @ \ {r},
                                          ![t].report = @ \cup (assoc \cap {r})]
          PROVE  ThreadCovers(t)'
      <4>1. /\ thread'[t].pc = thread[t].pc
            /\ thread'[t].todo = thread[t].todo \ {r}
            /\ thread'[t].report = thread[t].report \cup (assoc \cap {r})
        BY <3>3 DEF ThreadStates
      <4> QED BY <2>2, <3>1, <4>1 DEF PullResources
    <3>4. CASE Rest(t)
      BY <3>1, <3>4
    <3> QED BY <2>2, <3>1, <3>2, <3>3, <3>4 DEF PullResources
  <2>3. CASE Claim(t)
    <3>1. assoc' = assoc /\ userAccount' = userAccount /\ assoc \subseteq thread[t].report
      BY <2>3 DEF Claim, cluster
    <3>2. CASE ThreadGoto(t, "remove")
      <4>1. thread'[t].pc = "remove" /\ thread'[t].report = thread[t].report
        BY <3>2 DEF ThreadStates
      <4> QED BY <3>1, <4>1
    <3>3. CASE Rest(t)
      BY <3>1, <3>3
    <3> QED BY <2>3, <3>2, <3>3 DEF Claim
  <2>4. CASE Remove(t)
    <3>1. userAccount' = userAccount /\ assoc' \subseteq assoc
      BY <2>4, <1>2 DEF Remove
    <3>2. CASE thread[t].report = {} /\ ThreadGoto(t, "check")
      BY <2>4, <3>1, <3>2 DEF Remove
    <3>3. ASSUME NEW r \in thread[t].report,
                 thread' = [thread EXCEPT ![t].report = @ \ {r}], assoc' = assoc \ {r}
          PROVE  ThreadCovers(t)'
      <4>1. thread'[t].pc = thread[t].pc /\ thread'[t].report = thread[t].report \ {r}
        BY <3>3 DEF ThreadStates
      <4> QED BY <2>4, <3>3, <4>1 DEF Remove
    <3>4. CASE ThreadGoto(t, "markerror") /\ assoc' = assoc
      BY <3>1, <3>4 DEF ThreadStates
    <3> QED BY <2>4, <3>1, <3>2, <3>3, <3>4 DEF Remove
  <2>5. CASE Check(t)
    BY <2>5 DEF Check, surroundings, cluster
  <2>6. CASE Release(t)
    BY <2>6 DEF Release
  <2>7. CASE MarkError(t)
    BY <2>7 DEF MarkError, cluster
  <2>8. CASE Complete(t)
    BY <2>8 DEF Complete, cluster
  <2> QED BY <2>2, <2>3, <2>4, <2>5, <2>6, <2>7, <2>8 DEF Teardown
<1> QED BY <1>1, <1>3, <1>5, <1>7 DEF NoGrant

\* The same for the role worker while its messages are not grants.
LEMMA HandleMessagesClean ==
    ASSUME TeardownTypeOK, NoGrant, HandleMessages
    PROVE  NoGrant'
<1>1. thread' = thread \/ thread' = [thread EXCEPT ![Events] = Opened]
  BY DEF HandleMessages, TakeUpdate, UpdateHandled, TakeRoleChange, HandlerFails, WorkerPull,
         AddUser, RemoveUser, WorkerEnds, WorkerGoesOn, WorkerCheck, WorkerRelease
<1>2. eventTask.pc # "idle" => inbox # <<>> /\ Head(inbox) # "granted"
  <2> SUFFICES ASSUME eventTask.pc # "idle" PROVE inbox # <<>> /\ Head(inbox) # "granted"
    OBVIOUS
  <2>1. inbox \in Seq(Messages) /\ inbox # <<>>
    BY DEF TeardownTypeOK
  <2>2. 1 \in 1..Len(inbox) /\ Head(inbox) = inbox[1]
    BY <2>1
  <2> QED BY <2>1, <2>2 DEF NoGrant
<1>3. assoc' \subseteq assoc
  BY <1>2 DEF HandleMessages, TakeUpdate, UpdateHandled, TakeRoleChange, HandlerFails, WorkerPull, AddUser, RemoveUser, WorkerEnds,
         WorkerGoesOn, WorkerCheck, WorkerRelease, WorkerAt, surroundings, cluster
<1>4. \A t \in Threads : ThreadCovers(t)'
  <2>1. \A t \in Threads : thread'[t] = thread[t] \/ thread'[t] = Opened
    BY <1>1 DEF TeardownTypeOK
  <2>2. ASSUME NEW t \in Threads, thread'[t] = Opened PROVE ThreadCovers(t)'
    BY <1>3, <2>2 DEF Opened, ThreadCovers, ThreadAt, TeardownTypeOK
  <2> QED BY <1>3, <2>1, <2>2 DEF NoGrant, ThreadCovers, ThreadAt
<1>5. \A i \in 1..Len(inbox') : inbox'[i] # "granted"
  <2>1. CASE inbox' = inbox
    BY <2>1 DEF NoGrant
  <2>2. CASE inbox # <<>> /\ inbox' = Tail(inbox)
    <3>1. \A i \in 1..Len(Tail(inbox)) : i + 1 \in 1..Len(inbox) /\ Tail(inbox)[i] = inbox[i + 1]
      BY <2>2 DEF TeardownTypeOK
    <3> QED BY <2>2, <3>1 DEF NoGrant
  <2> QED
    BY <2>1, <2>2, <1>2 DEF Handling, HandleMessages, TakeUpdate, UpdateHandled, TakeRoleChange, HandlerFails, WorkerPull, AddUser, RemoveUser,
         WorkerEnds, WorkerGoesOn, WorkerCheck, WorkerRelease, WorkerAt, Acked, surroundings
<1>6. WorkerCovers'
  <2>1. WorkerCovers /\ eventTask \in HandlerStates /\ assoc \subseteq Resources
    BY DEF NoGrant, TeardownTypeOK
  <2>2. CASE TakeRoleChange
    BY <2>1, <2>2 DEF TakeRoleChange, WorkerCovers, WorkerAt, surroundings, cluster,
                      HandlerStates
  <2>11. CASE TakeUpdate
    BY <2>1, <2>11 DEF TakeUpdate, Acked, Waiting, WorkerCovers, WorkerAt, cluster,
                       HandlerStates
  <2>12. CASE UpdateHandled
    BY <2>1, <2>12 DEF UpdateHandled, Acked, Waiting, WorkerCovers, WorkerAt, cluster
  <2>3. CASE HandlerFails
    BY <2>1, <2>3 DEF HandlerFails, Acked, Waiting, WorkerCovers, WorkerAt, cluster
  <2>4. CASE WorkerPull
    <3>1. Head(inbox) # "granted" /\ assoc' = assoc /\ userAccount' = userAccount
      BY <2>4, <1>2 DEF WorkerPull, WorkerAt, surroundings, cluster
    <3>2. \E f \in BOOLEAN : eventTask' = [pc |-> "change", todo |-> Resources, failed |-> f]
      BY <2>4, <3>1, Zenon DEF WorkerPull
    <3>3. eventTask'.pc = "change" /\ eventTask'.todo = Resources
      BY <3>2
    <3> QED BY <2>1, <3>1, <3>3 DEF WorkerCovers, WorkerAt
  <2>5. ASSUME NEW r \in Resources, AddUser(r) PROVE FALSE
    BY <2>5, <1>2 DEF AddUser, WorkerAt
  <2>6. ASSUME NEW r \in Resources, RemoveUser(r) PROVE WorkerCovers'
    <3>1. eventTask'.pc = "change" /\ eventTask'.todo = eventTask.todo \ {r}
      BY <2>1, <2>6 DEF RemoveUser, WorkerAt, HandlerStates
    <3>2. ~eventTask'.failed => ~eventTask.failed /\ assoc' = assoc \ {r}
      BY <2>1, <2>6 DEF RemoveUser, WorkerAt, HandlerStates
    <3> QED BY <2>1, <2>6, <3>1, <3>2, <1>3 DEF RemoveUser, WorkerCovers, WorkerAt
  <2>7. CASE WorkerEnds
    BY <2>1, <2>7 DEF WorkerEnds, Acked, Waiting, WorkerCovers, WorkerAt, cluster
  <2>8. CASE WorkerGoesOn
    BY <2>1, <2>8 DEF WorkerGoesOn, WorkerCovers, WorkerAt, surroundings, cluster, HandlerStates
  <2>9. CASE WorkerCheck
    BY <2>1, <2>9 DEF WorkerCheck, Acked, Waiting, WorkerCovers, WorkerAt, cluster,
                      HandlerStates
  <2>10. CASE WorkerRelease
    BY <2>1, <2>10 DEF WorkerRelease, Acked, Waiting, WorkerCovers, WorkerAt
  <2> QED
    BY <2>2, <2>3, <2>4, <2>5, <2>6, <2>7, <2>8, <2>9, <2>10, <2>11, <2>12 DEF HandleMessages
<1> QED BY <1>4, <1>5, <1>6 DEF NoGrant

\* A grant is handled with no teardown beside it.
LEMMA RestoreAlone ==
    ASSUME TeardownTypeOK, Restoring, GrantAlone, [TeardownNext]_teardownVars, OneAtATime
    PROVE  CleanInv'
<1>1. inbox # <<>> /\ Head(inbox) = "granted" /\ Tail(inbox) = <<>>
  BY DEF Restoring
<1>2. ~Revoke /\ ~Grant
  BY <1>1 DEF Revoke, Grant, Timely
<1>3. ~Notify /\ ~Begin
  BY DEF GrantAlone, Notify, Begin, Departed
<1>4. ASSUME NEW t \in Threads PROVE ~Teardown(t)
  BY <1>4 DEF GrantAlone, Teardown, PullResources, Claim, Remove, Check, Release, MarkError, Complete, ThreadAt
<1>5. ASSUME userState' = userState, role' = role, thread' = thread, inbox' = inbox,
             eventTask'.pc \in {"idle", "pull", "change"}
      PROVE  CleanInv'
  BY <1>5 DEF CleanInv, Restoring, GrantAlone, ThreadAt
<1>6. ASSUME thread' = thread, inbox' = <<>>, eventTask' = Waiting
      PROVE  CleanInv'
  BY <1>6 DEF CleanInv, NoGrant, GrantAlone, ThreadCovers, WorkerCovers, ThreadAt, WorkerAt, Waiting
<1>7. CASE HandleMessages
  <2>1. eventTask \in HandlerStates /\ eventTask.pc \in {"idle", "pull", "change"}
    BY DEF TeardownTypeOK, GrantAlone
  <2>2. ~TakeUpdate /\ ~UpdateHandled /\ ~WorkerGoesOn /\ ~WorkerCheck /\ ~WorkerRelease
    BY <1>1, <2>1 DEF TakeUpdate, Handling, UpdateHandled, WorkerGoesOn, WorkerCheck,
                      WorkerRelease, WorkerAt
  <2>3. CASE TakeRoleChange
    BY <1>5, <2>1, <2>3 DEF TakeRoleChange, HandlerStates, surroundings
  <2>4. CASE HandlerFails
    BY <1>1, <1>6, <2>4 DEF HandlerFails, Acked
  <2>5. CASE WorkerPull
    <3>1. eventTask'.pc = "change"
      <4>1. \E R \in SUBSET Resources, f \in BOOLEAN :
               eventTask' = [pc |-> "change", todo |-> R, failed |-> f]
        BY <2>5, Zenon DEF WorkerPull
      <4> QED BY <4>1
    <3> QED BY <1>5, <2>5, <3>1 DEF WorkerPull, surroundings
  <2>6. ASSUME NEW r \in Resources, AddUser(r) PROVE CleanInv'
    BY <1>5, <2>1, <2>6 DEF AddUser, WorkerAt, HandlerStates
  <2>7. ASSUME NEW r \in Resources PROVE ~RemoveUser(r)
    BY <1>1 DEF RemoveUser
  <2>8. CASE WorkerEnds
    BY <1>1, <1>6, <2>8 DEF WorkerEnds, Acked
  <2> QED
    BY <1>7, <2>2, <2>3, <2>4, <2>5, <2>6, <2>7, <2>8 DEF HandleMessages
<1>8. CASE RequestDeletion
  BY <1>8 DEF RequestDeletion, GrantAlone
<1>9. CASE SyncProfiles
  BY <1>5, <1>9 DEF SyncProfiles, GrantAlone
<1>10. CASE AgentEnds
  BY <1>10 DEF AgentEnds, CleanInv, Restoring, GrantAlone, ThreadAt, Resting, Waiting, surroundings
<1>11. CASE UNCHANGED teardownVars
  BY <1>5, <1>11 DEF teardownVars, surroundings, GrantAlone
<1> QED
  BY <1>2, <1>3, <1>4, <1>7, <1>8, <1>9, <1>10, <1>11 DEF TeardownNext, Waldur

\* With role changes one at a time every step keeps CleanInv.
LEMMA NextCleanInv ==
    OneAtATime /\ TeardownTypeOK /\ CleanInv /\ [TeardownNext]_teardownVars => CleanInv'
<1> SUFFICES ASSUME OneAtATime, TeardownTypeOK, NoGrant, [TeardownNext]_teardownVars PROVE CleanInv'
  BY RestoreAlone DEF CleanInv
<1>1. CASE Revoke
  <2>1. \A i \in 1..Len(inbox') : inbox'[i] # "granted"
    BY <1>1, AppendMessage DEF Revoke, NoGrant, TeardownTypeOK, Messages
  <2> QED
    BY <1>1, <2>1 DEF Revoke, CleanInv, NoGrant, ThreadCovers, WorkerCovers, ThreadAt, WorkerAt, cluster
<1>2. CASE Grant
  <2>1. inbox = <<>> /\ \A t \in Threads : ThreadAt(t, "idle")
    BY <1>2 DEF Grant, Timely, ThreadAt
  <2>2. eventTask.pc = "idle"
    BY <2>1 DEF TeardownTypeOK
  <2>3. inbox' = <<"granted">>
    BY <1>2, <2>1 DEF Grant
  <2> QED BY <1>2, <2>1, <2>2, <2>3 DEF Grant, CleanInv, Restoring, GrantAlone, ThreadAt
<1>3. CASE RequestDeletion
  BY <1>3 DEF RequestDeletion, CleanInv, NoGrant, ThreadCovers, WorkerCovers, ThreadAt, WorkerAt, cluster
<1>4. CASE Notify
  <2>1. \A i \in 1..Len(inbox') : inbox'[i] # "granted"
    BY <1>4, AppendMessage DEF Notify, NoGrant, TeardownTypeOK, Messages
  <2> QED
    BY <1>4, <2>1 DEF Notify, CleanInv, NoGrant, ThreadCovers, WorkerCovers, ThreadAt, WorkerAt, cluster
<1>5. CASE Begin
  <2>1. \A t \in Threads : thread'[t] = thread[t] \/ thread'[t] = Opened
    BY <1>5 DEF Begin, TeardownTypeOK
  <2>2. UNCHANGED <<inbox, assoc, userAccount, eventTask>>
    BY <1>5 DEF Begin, surroundings, cluster
  <2>3. ASSUME NEW t \in Threads, thread'[t] = Opened PROVE ThreadCovers(t)'
    BY <2>2, <2>3 DEF Opened, ThreadCovers, ThreadAt, TeardownTypeOK
  <2>4. \A t \in Threads : ThreadCovers(t)'
    BY <2>1, <2>2, <2>3 DEF NoGrant, ThreadCovers, ThreadAt
  <2> QED BY <2>2, <2>4 DEF CleanInv, NoGrant, WorkerCovers, WorkerAt
<1>6. CASE SyncProfiles
  BY <1>6 DEF SyncProfiles, CleanInv, NoGrant, ThreadCovers, WorkerCovers, ThreadAt, WorkerAt
<1>7. CASE AgentEnds
  BY <1>7 DEF AgentEnds, Resting, Waiting, CleanInv, NoGrant, ThreadCovers, WorkerCovers, ThreadAt,
              WorkerAt, surroundings, cluster
<1>8. CASE UNCHANGED teardownVars
  BY <1>8 DEF teardownVars, surroundings, cluster, CleanInv, NoGrant, ThreadCovers, WorkerCovers, ThreadAt, WorkerAt
<1>9. (\E t \in Threads : Teardown(t)) \/ HandleMessages => CleanInv'
  BY TeardownClean, HandleMessagesClean DEF CleanInv
<1> QED
  BY <1>1, <1>2, <1>3, <1>4, <1>5, <1>6, <1>7, <1>8, <1>9 DEF TeardownNext, Waldur

\* A step that marks the offering user deleted is a thread's set_deleted, taken
\* with every association gone.
LEMMA MarkedClean ==
    CleanInv /\ [TeardownNext]_teardownVars => (userState # "DELETED" /\ userState' = "DELETED" => assoc = {})
<1> SUFFICES ASSUME CleanInv, [TeardownNext]_teardownVars, userState # "DELETED",
                    userState' = "DELETED"
             PROVE assoc = {}
  OBVIOUS
<1>1. ASSUME NEW t \in Threads, Teardown(t) PROVE assoc = {}
  <2>1. Complete(t)
    BY <1>1 DEF Teardown, PullResources, Claim, Remove, Check, Release, MarkError, surroundings
  <2> QED BY <2>1 DEF Complete, CleanInv, GrantAlone, NoGrant, ThreadCovers, ThreadAt
<1>2. ~Begin /\ ~HandleMessages /\ ~SyncProfiles /\ ~Waldur /\ ~AgentEnds /\ ~(UNCHANGED teardownVars)
  BY DEF HandleMessages, TakeUpdate, UpdateHandled, TakeRoleChange, HandlerFails, WorkerPull, AddUser, RemoveUser, WorkerEnds,
         WorkerGoesOn, WorkerCheck, WorkerRelease, SyncProfiles, Waldur, Revoke, Grant,
         RequestDeletion, Notify, Begin, AgentEnds, teardownVars, surroundings
<1> QED BY <1>1, <1>2 DEF TeardownNext

\* A step that takes the account is release_users of a teardown or of the worker,
\* taken with every association gone.
LEMMA ReleasedClean ==
    CleanInv /\ [TeardownNext]_teardownVars => (userAccount /\ ~userAccount' => assoc = {})
<1> SUFFICES ASSUME CleanInv, [TeardownNext]_teardownVars, userAccount, ~userAccount' PROVE assoc = {}
  OBVIOUS
<1>1. ASSUME NEW t \in Threads, Teardown(t) PROVE assoc = {}
  <2>1. Release(t)
    BY <1>1 DEF Teardown, PullResources, Claim, Remove, Check, MarkError, Complete, surroundings, cluster
  <2> QED BY <2>1 DEF Release, CleanInv, GrantAlone, NoGrant, ThreadCovers, ThreadAt
<1>2. CASE HandleMessages
  <2>1. WorkerRelease
    BY <1>2 DEF HandleMessages, TakeUpdate, UpdateHandled, TakeRoleChange, HandlerFails, WorkerPull,
                AddUser, RemoveUser, WorkerEnds, WorkerGoesOn, WorkerCheck, surroundings, cluster
  <2> QED BY <2>1 DEF WorkerRelease, WorkerAt, CleanInv, GrantAlone, NoGrant, WorkerCovers
<1>3. ~Begin /\ ~SyncProfiles /\ ~Waldur /\ ~AgentEnds /\ ~(UNCHANGED teardownVars)
  BY DEF SyncProfiles, Waldur, Revoke, Grant, RequestDeletion, Notify, Begin, AgentEnds, teardownVars, surroundings,
         cluster
<1> QED BY <1>1, <1>2, <1>3 DEF TeardownNext

\* With role changes one at a time, the account is released only after the last
\* association is gone: by the sweep and the worker at once, for any resources
\* and any number of grants, with failed pulls, failed removals, lost replies
\* and crashes.
THEOREM ReleasedAfterAssociations == OneAtATime => (TeardownSpec => ReleasedLast)
<1> SUFFICES ASSUME OneAtATime PROVE TeardownSpec => ReleasedLast
  OBVIOUS
<1>1. TeardownTypeOK /\ CleanInv /\ [TeardownNext]_teardownVars => CleanInv'
  BY NextCleanInv
<1>2. CleanInv /\ [TeardownNext]_teardownVars => [userAccount /\ ~userAccount' => assoc = {}]_teardownVars
  BY ReleasedClean
<1> QED
  BY <1>1, <1>2, InitCleanInv, TypeCorrect, PTL DEF TeardownSpec, ReleasedLast

\* With role changes one at a time, set_deleted takes effect only when nothing on
\* the cluster refers to the person, however often roles come and go.
THEOREM DeletedWhenClean == OneAtATime => (TeardownSpec => DeletedIsClean)
<1> SUFFICES ASSUME OneAtATime PROVE TeardownSpec => DeletedIsClean
  OBVIOUS
<1>1. TeardownTypeOK /\ CleanInv /\ [TeardownNext]_teardownVars => CleanInv'
  BY NextCleanInv
<1>2. CleanInv /\ [TeardownNext]_teardownVars => 
         [userState # "DELETED" /\ userState' = "DELETED" => assoc = {}]_teardownVars
  BY MarkedClean
<1> QED
  BY <1>1, <1>2, InitCleanInv, TypeCorrect, PTL DEF TeardownSpec, DeletedIsClean
============================================================================
