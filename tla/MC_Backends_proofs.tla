------------------------- MODULE MC_Backends_proofs -------------------------
(***************************************************************************)
(* The safety promises of MC_Backends, for every value of its constants:   *)
(* how many resources, people, names, subnets, orders and failures there   *)
(* may be. The backends come first, one after the other, then the promises *)
(* they make together.                                                     *)
(***************************************************************************)
EXTENDS MC_Backends, Sequences, WellFoundedInduction, TLAPS

-----------------------------------------------------------------------------
(* The orders of a federated resource.                                       *)

\* What a step may make of Waldur B: nothing is lost, an order that ended stays as it is,
\* and so does a resource that is TERMINATED.
Grown(b) ==
    /\ b \in Orders!Remotes /\ Orders!InRange(b) /\ Orders!Consistent(b)
    /\ Len(remote.res) <= Len(b.res) /\ Len(remote.orders) <= Len(b.orders)
    /\ \A i \in 1 .. Len(remote.orders) :
          /\ b.orders[i].type = remote.orders[i].type
          /\ b.orders[i].res = remote.orders[i].res
          /\ b.orders[i].limit = remote.orders[i].limit
          /\ remote.orders[i].state # "executing"
                => b.orders[i].state = remote.orders[i].state
    /\ \A r \in 1 .. Len(remote.res) : remote.res[r].state = "TERMINATED"
          => b.res[r] = remote.res[r]

\* Nothing is ordered when the agent starts.
LEMMA OrdersBegin == Orders!OrdersInit => Orders!OrdersInv
<1> SUFFICES ASSUME Orders!OrdersInit PROVE Orders!OrdersInv
  OBVIOUS
<1>1. remote.res = <<>> /\ remote.orders = <<>> /\ remote \in Orders!Remotes
  BY DEF Orders!OrdersInit, Orders!Remotes
<1>2. Orders!Accounted
  BY <1>1 DEF Orders!OrdersInit, Orders!Accounted, Orders!InRange, Orders!Ends
<1>3. Orders!Consistent(remote) /\ Orders!TargetFits /\ Orders!UpdatesKnown
         /\ Orders!SlipsKnown
  BY <1>1 DEF Orders!OrdersInit, Orders!Consistent, Orders!TargetFits, Orders!UpdatesKnown,
     Orders!SlipsKnown
<1>4. Orders!NothingLeftBehind /\ Orders!DoneIsDone
  BY DEF Orders!OrdersInit, Orders!NothingLeftBehind, Orders!DoneIsDone
<1> QED BY <1>2, <1>3, <1>4 DEF Orders!OrdersInv

\* The parts of a state of B.
LEMMA RemoteParts ==
    ASSUME NEW b \in Orders!Remotes
    PROVE  /\ b.projects \in Nat /\ b.res \in Seq(Orders!TargetResources)
           /\ b.orders \in Seq(Orders!TargetOrders)
           /\ Len(b.res) \in Nat /\ Len(b.orders) \in Nat
           /\ DOMAIN b.res = 1 .. Len(b.res) /\ DOMAIN b.orders = 1 .. Len(b.orders)
           /\ \A i \in 1 .. Len(b.orders) : b.orders[i] \in Orders!TargetOrders
           /\ \A r \in 1 .. Len(b.res) : b.res[r] \in Orders!TargetResources
<1>1. b.projects \in Nat /\ b.res \in Seq(Orders!TargetResources)
         /\ b.orders \in Seq(Orders!TargetOrders)
  BY DEF Orders!Remotes
<1> QED BY <1>1

\* An order more.
LEMMA OrderMore ==
    ASSUME NEW b \in Orders!Remotes, NEW ty \in {"create", "update", "terminate"},
           NEW r \in Nat, NEW limit \in Nat
    PROVE  LET c == Orders!NewOrder(b, ty, r, limit) n == Len(b.orders) IN
           /\ c \in Orders!Remotes /\ c.res = b.res /\ Len(c.orders) = n + 1
           /\ c.orders[n + 1] = [type |-> ty, res |-> r, state |-> "executing",
               limit |-> limit]
           /\ \A i \in 1 .. n : c.orders[i] = b.orders[i]
<1> DEFINE o == [type |-> ty, res |-> r, state |-> "executing", limit |-> limit]
           s == Append(b.orders, o)
           c == Orders!NewOrder(b, ty, r, limit)
<1>1. o \in Orders!TargetOrders
  BY DEF Orders!TargetOrders
<1>2. c = [b EXCEPT !.orders = s]
  BY DEF Orders!NewOrder
<1>3. b.orders \in Seq(Orders!TargetOrders)
  BY RemoteParts
<1> HIDE DEF o, c
<1>4. s \in Seq(Orders!TargetOrders) /\ Len(s) = Len(b.orders) + 1 /\ s[Len(b.orders) + 1] = o
      /\ \A i \in 1 .. Len(b.orders) : s[i] = b.orders[i]
  BY <1>1, <1>3
<1> HIDE DEF s
<1>5. c \in Orders!Remotes /\ c.res = b.res /\ c.orders = s
  BY <1>2, <1>4 DEF Orders!Remotes
<1> QED BY <1>4, <1>5 DEF o, c

\* An update or a termination that B accepts.
LEMMA OrderAccepted ==
    ASSUME remote \in Orders!Remotes, Orders!InRange(remote), Orders!Consistent(remote),
           NEW ty \in {"update", "terminate"},
           NEW r \in 1 .. Len(remote.res), NEW limit \in Nat, Orders!Accepts(r),
           ty = "update" => remote.res[r].limit # limit
    PROVE  LET c == Orders!CreateOrder(remote, ty, r, limit) n == Len(remote.orders) IN
           /\ Grown(c) /\ Len(c.res) = Len(remote.res) /\ Len(c.orders) = n + 1
           /\ c.orders[n + 1] = [type |-> ty, res |-> r, state |-> "executing",
               limit |-> limit]
           /\ \A q \in 1 .. Len(remote.res) : c.res[q].limit = remote.res[q].limit
<1> DEFINE c == Orders!CreateOrder(remote, ty, r, limit)
           n == Len(remote.orders)
           row == [remote.res[r] EXCEPT !.state = Orders!Busy(ty)]
           rs == [remote.res EXCEPT ![r] = row]
           b == [remote EXCEPT !.res = rs]
<1>1. /\ remote.res \in Seq(Orders!TargetResources)
      /\ remote.res[r] \in Orders!TargetResources
      /\ n \in Nat /\ Len(remote.res) \in Nat /\ r \in Nat
  BY RemoteParts
<1>2. row \in Orders!TargetResources /\ row.state = Orders!Busy(ty)
         /\ row.limit = remote.res[r].limit
  BY <1>1 DEF Orders!TargetResources, Orders!Busy
<1>3. c = Orders!NewOrder(b, ty, r, limit)
  BY <1>1 DEF Orders!CreateOrder, Orders!Busy
<1> HIDE DEF row
<1>4. /\ rs \in Seq(Orders!TargetResources) /\ Len(rs) = Len(remote.res) /\ rs[r] = row
      /\ \A q \in 1 .. Len(remote.res) : q # r => rs[q] = remote.res[q]
  BY <1>1, <1>2
<1> HIDE DEF rs
<1>5. b \in Orders!Remotes /\ b.res = rs /\ b.orders = remote.orders
  BY <1>4 DEF Orders!Remotes
<1> HIDE DEF b, c
<1>6. /\ c \in Orders!Remotes /\ c.res = rs /\ Len(c.orders) = n + 1
      /\ c.orders[n + 1] = [type |-> ty, res |-> r, state |-> "executing", limit |-> limit]
      /\ \A i \in 1 .. n : c.orders[i] = remote.orders[i]
  <2>1. ty \in {"create", "update", "terminate"}
    OBVIOUS
  <2> HIDE DEF n
  <2>2. n = Len(b.orders)
    BY <1>5 DEF n
  <2> DEFINE e == Orders!NewOrder(b, ty, r, limit)
  <2>3. /\ e \in Orders!Remotes /\ e.res = b.res /\ Len(e.orders) = Len(b.orders) + 1
        /\ e.orders[Len(b.orders) + 1] = [type |-> ty, res |-> r, state |-> "executing",
            limit |-> limit]
        /\ \A i \in 1 .. Len(b.orders) : e.orders[i] = b.orders[i]
    BY <1>1, <1>5, <2>1, OrderMore
  <2> HIDE DEF e
  <2>4. c = e
    BY <1>3 DEF e
  <2> QED BY <1>5, <2>2, <2>3, <2>4
<1> HIDE DEF n
<1>7. Orders!InRange(c)
  <2> SUFFICES ASSUME NEW i \in 1 .. (n + 1) PROVE c.orders[i].res \in 1 .. Len(c.res)
    BY <1>6 DEF Orders!InRange
  <2>1. CASE i = n + 1
    BY <1>4, <1>6, <2>1
  <2>2. CASE i # n + 1
    <3>1. i \in 1 .. n
      BY <1>1, <2>2
    <3> QED BY <1>4, <1>6, <3>1 DEF Orders!InRange, n
  <2> QED BY <2>1, <2>2
<1>8. ASSUME NEW i \in 1 .. n, Orders!InFlight(remote, i) PROVE remote.orders[i].res # r
  <2>1. Orders!BusyWith(remote, i)
    BY <1>8 DEF Orders!Consistent, n
  <2> QED BY <2>1 DEF Orders!BusyWith, Orders!Busy, Orders!Accepts
<1>9. /\ c.orders[n + 1].type = ty /\ c.orders[n + 1].res = r
      /\ c.orders[n + 1].state = "executing" /\ c.orders[n + 1].limit = limit
  BY <1>6
<1>10. ASSUME NEW i \in 1 .. (n + 1), Orders!InFlight(c, i) PROVE Orders!BusyWith(c, i)
  <2>1. CASE i = n + 1
    <3>1. c.res[r].state = Orders!Busy(ty) /\ c.res[r].limit = remote.res[r].limit
      BY <1>2, <1>4, <1>6
    <3> QED BY <1>9, <2>1, <3>1 DEF Orders!BusyWith
  <2>2. CASE i # n + 1
    <3>1. i \in 1 .. n
      BY <1>1, <2>2
    <3>2. c.orders[i] = remote.orders[i] /\ Orders!InFlight(remote, i)
      BY <1>6, <1>10, <3>1 DEF Orders!InFlight
    <3>3. Orders!BusyWith(remote, i) /\ remote.orders[i].res \in 1 .. Len(remote.res)
      BY <3>1, <3>2 DEF Orders!Consistent, Orders!InRange, n
    <3>4. c.res[remote.orders[i].res] = remote.res[remote.orders[i].res]
      BY <1>4, <1>6, <1>8, <3>1, <3>2, <3>3
    <3> QED BY <3>2, <3>3, <3>4 DEF Orders!BusyWith
  <2> QED BY <2>1, <2>2
<1>11. ASSUME NEW i \in 1 .. (n + 1),
              NEW j \in 1 .. (n + 1), Orders!InFlight(c, i), Orders!InFlight(c, j),
              c.orders[j].res = c.orders[i].res
       PROVE  j = i
  <2>1. ASSUME NEW k \in 1 .. (n + 1), Orders!InFlight(c, k), k # n + 1
        PROVE  k \in 1 .. n /\ c.orders[k] = remote.orders[k]
                  /\ Orders!InFlight(remote, k) /\ c.orders[k].res # r
    <3>1. k \in 1 .. n
      BY <1>1, <2>1
    <3> QED BY <1>6, <1>8, <2>1, <3>1 DEF Orders!InFlight
  <2>2. CASE i = n + 1 \/ j = n + 1
    BY <1>9, <1>11, <2>1, <2>2
  <2>3. CASE i # n + 1 /\ j # n + 1
    BY <1>11, <2>1, <2>3 DEF Orders!Consistent, n
  <2> QED BY <2>2, <2>3
<1>12. ASSUME NEW i \in 1 .. (n + 1), c.orders[i].state = "done",
              c.orders[i].type = "terminate"
       PROVE  c.res[c.orders[i].res].state = "TERMINATED"
  <2>1. i \in 1 .. n
    BY <1>1, <1>9, <1>12
  <2>2. c.orders[i] = remote.orders[i] /\ remote.orders[i].res \in 1 .. Len(remote.res)
    BY <1>6, <2>1 DEF Orders!InRange, n
  <2>3. remote.res[remote.orders[i].res].state = "TERMINATED"
    BY <1>12, <2>1, <2>2 DEF Orders!Consistent, n
  <2> QED BY <1>4, <1>6, <2>2, <2>3 DEF Orders!Accepts
<1>13. Orders!Consistent(c)
  BY <1>6, <1>10, <1>11, <1>12 DEF Orders!Consistent
<1>14. \A q \in 1 .. Len(remote.res) : remote.res[q].state = "TERMINATED"
          => c.res[q] = remote.res[q]
  BY <1>4, <1>6 DEF Orders!Accepts
<1>15. Grown(c)
  BY <1>1, <1>4, <1>6, <1>7, <1>13, <1>14 DEF Grown, n
<1>16. \A q \in 1 .. Len(remote.res) : c.res[q].limit = remote.res[q].limit
  BY <1>2, <1>4, <1>6
<1> QED BY <1>4, <1>6, <1>15, <1>16 DEF c, n

\* The project of a new resource.
LEMMA ProjectFound ==
    ASSUME remote \in Orders!Remotes, Orders!InRange(remote), Orders!Consistent(remote),
           NEW found \in BOOLEAN
    PROVE  LET b == Orders!FindOrCreateProject(remote, found) IN
           Grown(b) /\ b.res = remote.res /\ b.orders = remote.orders
<1> DEFINE k == IF found /\ remote.projects > 0 THEN remote.projects ELSE remote.projects + 1
           b == Orders!FindOrCreateProject(remote, found)
<1>1. k \in Nat
  BY RemoteParts
<1>2. b = [remote EXCEPT !.projects = k]
  BY DEF Orders!FindOrCreateProject
<1> HIDE DEF k, b
<1>3. b \in Orders!Remotes /\ b.res = remote.res /\ b.orders = remote.orders
  BY <1>1, <1>2 DEF Orders!Remotes
<1>4. Grown(b)
  BY <1>3, RemoteParts DEF Grown, Orders!InRange, Orders!Consistent, Orders!InFlight,
     Orders!BusyWith
<1> QED BY <1>3, <1>4 DEF b

\* A new resource and the order that makes it.
LEMMA OrderSubmitted ==
    ASSUME remote \in Orders!Remotes, Orders!InRange(remote), Orders!Consistent(remote),
           NEW found \in BOOLEAN, source.limit \in Nat
    PROVE  LET c == Orders!Submit(Orders!FindOrCreateProject(remote,
               found)) n == Len(remote.orders) m == Len(remote.res) IN
           /\ Grown(c) /\ Len(c.res) = m + 1 /\ Len(c.orders) = n + 1
           /\ c.orders[n + 1] = [type |-> "create", res |-> m + 1, state |-> "executing",
               limit |-> source.limit]
<1> DEFINE b == Orders!FindOrCreateProject(remote, found)
           c == Orders!Submit(b)
           n == Len(remote.orders)
           m == Len(remote.res)
           row == [state |-> "CREATING", limit |-> 0]
           rs == Append(b.res, row)
           d == [b EXCEPT !.res = rs]
<1>1. b \in Orders!Remotes /\ b.res = remote.res /\ b.orders = remote.orders
  BY ProjectFound DEF Grown
<1>2. row \in Orders!TargetResources /\ row.state = "CREATING" /\ row.limit = 0
  BY DEF Orders!TargetResources
<1>3. c = Orders!NewOrder(d, "create", Len(b.res) + 1, source.limit)
  BY DEF Orders!Submit
<1> HIDE DEF b, row
<1>4. n \in Nat /\ m \in Nat /\ b.res \in Seq(Orders!TargetResources) /\ Len(b.res) = m
  BY <1>1, RemoteParts
<1>5. /\ rs \in Seq(Orders!TargetResources) /\ Len(rs) = m + 1 /\ rs[m + 1] = row
      /\ \A q \in 1 .. m : rs[q] = remote.res[q]
  BY <1>1, <1>2, <1>4
<1> HIDE DEF rs
<1>6. d \in Orders!Remotes /\ d.res = rs /\ d.orders = remote.orders
  BY <1>1, <1>5 DEF Orders!Remotes
<1> HIDE DEF d, c
<1>7. /\ c \in Orders!Remotes /\ c.res = rs /\ Len(c.orders) = n + 1
      /\ c.orders[n + 1] = [type |-> "create", res |-> m + 1, state |-> "executing",
          limit |-> source.limit]
      /\ \A i \in 1 .. n : c.orders[i] = remote.orders[i]
  <2>1. m + 1 \in Nat
    BY <1>4
  <2> DEFINE e == Orders!NewOrder(d, "create", m + 1, source.limit)
  <2>2. /\ e \in Orders!Remotes /\ e.res = d.res /\ Len(e.orders) = Len(d.orders) + 1
        /\ e.orders[Len(d.orders) + 1] = [type |-> "create", res |-> m + 1,
            state |-> "executing", limit |-> source.limit]
        /\ \A i \in 1 .. Len(d.orders) : e.orders[i] = d.orders[i]
    <3> HIDE DEF m
    <3> QED BY <1>6, <2>1, OrderMore
  <2> HIDE DEF e
  <2>3. c = e
    BY <1>3, <1>4 DEF e
  <2> QED BY <1>6, <2>2, <2>3
<1> HIDE DEF n, m
<1>8. Orders!InRange(c)
  <2> SUFFICES ASSUME NEW i \in 1 .. (n + 1) PROVE c.orders[i].res \in 1 .. (m + 1)
    BY <1>5, <1>7 DEF Orders!InRange
  <2>1. CASE i = n + 1
    BY <1>4, <1>7, <2>1
  <2>2. CASE i # n + 1
    <3>1. i \in 1 .. n
      BY <1>4, <2>2
    <3>2. remote.orders[i].res \in 1 .. m
      BY <3>1 DEF Orders!InRange, n, m
    <3> QED BY <1>4, <1>7, <3>1, <3>2
  <2> QED BY <2>1, <2>2
<1>9. /\ c.orders[n + 1].type = "create" /\ c.orders[n + 1].res = m + 1
      /\ c.orders[n + 1].state = "executing" /\ c.res[m + 1].state = "CREATING"
      /\ c.res[m + 1].limit = 0
  BY <1>2, <1>5, <1>7
<1>10. ASSUME NEW i \in 1 .. (n + 1), i # n + 1
       PROVE  /\ i \in 1 .. n /\ c.orders[i] = remote.orders[i] /\ c.orders[i].res # m + 1
              /\ c.res[c.orders[i].res] = remote.res[remote.orders[i].res]
  <2>1. i \in 1 .. n
    BY <1>4, <1>10
  <2>2. remote.orders[i].res \in 1 .. m
    BY <2>1 DEF Orders!InRange, n, m
  <2>3. remote.orders[i].res # m + 1
    BY <1>4, <2>2
  <2> QED BY <1>5, <1>7, <2>1, <2>2, <2>3
<1>11. ASSUME NEW i \in 1 .. (n + 1), Orders!InFlight(c, i) PROVE Orders!BusyWith(c, i)
  <2>1. CASE i = n + 1
    BY <1>9, <2>1 DEF Orders!BusyWith, Orders!Busy
  <2>2. CASE i # n + 1
    <3>1. Orders!InFlight(remote, i) /\ i \in 1 .. n
      BY <1>10, <1>11, <2>2 DEF Orders!InFlight
    <3>2. Orders!BusyWith(remote, i)
      BY <3>1 DEF Orders!Consistent, n
    <3> QED BY <1>10, <2>2, <3>2 DEF Orders!BusyWith
  <2> QED BY <2>1, <2>2
<1>12. ASSUME NEW i \in 1 .. (n + 1),
              NEW j \in 1 .. (n + 1), Orders!InFlight(c, i), Orders!InFlight(c, j),
              c.orders[j].res = c.orders[i].res
       PROVE  j = i
  <2>1. CASE i = n + 1 \/ j = n + 1
    BY <1>9, <1>10, <1>12, <2>1
  <2>2. CASE i # n + 1 /\ j # n + 1
    <3>1. i \in 1 .. n /\ j \in 1 .. n /\ Orders!InFlight(remote, i)
             /\ Orders!InFlight(remote, j)
          /\ remote.orders[j].res = remote.orders[i].res
      BY <1>10, <1>12, <2>2 DEF Orders!InFlight
    <3> QED BY <3>1 DEF Orders!Consistent, n
  <2> QED BY <2>1, <2>2
<1>13. ASSUME NEW i \in 1 .. (n + 1), c.orders[i].state = "done",
              c.orders[i].type = "terminate"
       PROVE  c.res[c.orders[i].res].state = "TERMINATED"
  <2>1. i # n + 1
    BY <1>9, <1>13
  <2> QED BY <1>10, <1>13, <2>1 DEF Orders!Consistent, n
<1>14. Orders!Consistent(c)
  BY <1>7, <1>11, <1>12, <1>13 DEF Orders!Consistent
<1>15. Grown(c)
  BY <1>4, <1>5, <1>7, <1>8, <1>14 DEF Grown, n, m
<1> QED BY <1>5, <1>7, <1>15 DEF n, m, b, c

\* B's provider ends an order: only a creation or an update changes the limits.
LEMMA OrderFinished ==
    ASSUME remote \in Orders!Remotes, Orders!InRange(remote), Orders!Consistent(remote),
           NEW i \in 1 .. Len(remote.orders),
           Orders!FinishTarget(i)
    PROVE  /\ Grown(remote') /\ Len(remote'.res) = Len(remote.res)
           /\ Len(remote'.orders) = Len(remote.orders)
           /\ \A q \in 1 .. Len(remote.res) :
                 \/ remote'.res[q].limit = remote.res[q].limit
                 \/ q = remote.orders[i].res /\ remote.orders[i].type # "terminate"
<1>1. remote.orders[i].state = "executing"
  BY DEF Orders!FinishTarget
<1> DEFINE o == remote.orders[i]
           n == Len(remote.orders)
           m == Len(remote.res)
           r == remote.orders[i].res
<1>2. PICK end \in Orders!Ends :
        LET rs == IF end = "erred" THEN "ERRED" ELSE IF o.type = "terminate"
           THEN "TERMINATED" ELSE "OK"
        IN  remote' = [remote EXCEPT !.orders[i].state = end,
              !.res[o.res] = [state |-> rs,
                  limit |-> IF end = "done"
                     /\ o.type # "terminate" THEN o.limit ELSE @.limit]]
  BY DEF Orders!FinishTarget
<1>3. /\ n \in Nat /\ m \in Nat /\ r \in 1 .. m /\ remote.res[r] \in Orders!TargetResources
      /\ remote.res \in Seq(Orders!TargetResources)
      /\ remote.orders \in Seq(Orders!TargetOrders)
      /\ remote.orders[i] \in Orders!TargetOrders
  BY RemoteParts DEF Orders!InRange
<1> DEFINE rs == IF end = "erred" THEN "ERRED" ELSE IF o.type = "terminate"
       THEN "TERMINATED" ELSE "OK"
           l == IF end = "done" /\ o.type # "terminate" THEN o.limit ELSE remote.res[r].limit
           row == [state |-> rs, limit |-> l]
           ord == [remote.orders[i] EXCEPT !.state = end]
           res2 == [remote.res EXCEPT ![r] = row]
           ord2 == [remote.orders EXCEPT ![i] = ord]
<1>4. remote' = [remote EXCEPT !.orders = ord2, !.res = res2]
  BY <1>2, <1>3 DEF Orders!Remotes
<1>5. /\ row \in Orders!TargetResources /\ row.state = rs /\ row.limit = l
      /\ ord \in Orders!TargetOrders /\ ord.type = o.type /\ ord.res = r
      /\ ord.limit = o.limit /\ ord.state = end
  BY <1>3 DEF Orders!TargetResources, Orders!TargetOrders, Orders!Ends
<1> HIDE DEF row, ord
<1>6. /\ res2 \in Seq(Orders!TargetResources) /\ Len(res2) = m /\ res2[r] = row
      /\ \A q \in 1 .. m : q # r => res2[q] = remote.res[q]
      /\ ord2 \in Seq(Orders!TargetOrders) /\ Len(ord2) = n /\ ord2[i] = ord
      /\ \A j \in 1 .. n : j # i => ord2[j] = remote.orders[j]
  BY <1>3, <1>5
<1> HIDE DEF res2, ord2
<1>7. remote' \in Orders!Remotes /\ remote'.res = res2 /\ remote'.orders = ord2
  BY <1>4, <1>6 DEF Orders!Remotes
<1>8. \A j \in 1 .. n :
         /\ ord2[j].type = remote.orders[j].type /\ ord2[j].res = remote.orders[j].res
         /\ ord2[j].limit = remote.orders[j].limit
         /\ remote.orders[j].state # "executing" => ord2[j].state = remote.orders[j].state
  BY <1>1, <1>5, <1>6
<1>9. Orders!InRange(remote')
  BY <1>6, <1>7, <1>8 DEF Orders!InRange
<1>10. Orders!BusyWith(remote, i) /\ remote.res[r].state # "TERMINATED"
  <2>1. Orders!BusyWith(remote, i)
    BY <1>1 DEF Orders!Consistent, Orders!InFlight
  <2> QED BY <2>1 DEF Orders!BusyWith, Orders!Busy
<1>11. ASSUME NEW j \in 1 .. n, Orders!InFlight(remote', j)
       PROVE  /\ j # i /\ Orders!InFlight(remote, j) /\ remote.orders[j].res # r
              /\ ord2[j] = remote.orders[j]
              /\ remote.orders[j].res \in 1 .. m
              /\ res2[remote.orders[j].res] = remote.res[remote.orders[j].res]
  <2>1. j # i
    BY <1>5, <1>6, <1>7, <1>11 DEF Orders!InFlight, Orders!Ends
  <2>2. ord2[j] = remote.orders[j] /\ Orders!InFlight(remote, j)
    BY <1>6, <1>7, <1>11, <2>1 DEF Orders!InFlight
  <2>3. remote.orders[j].res # r
    BY <1>1, <2>1, <2>2 DEF Orders!Consistent, Orders!InFlight
  <2>4. remote.orders[j].res \in 1 .. m
    BY DEF Orders!InRange
  <2> HIDE DEF r, m
  <2> QED BY <1>6, <2>1, <2>2, <2>3, <2>4
<1>12. ASSUME NEW j \in 1 .. n, Orders!InFlight(remote', j) PROVE Orders!BusyWith(remote', j)
  <2>1. Orders!BusyWith(remote, j)
    BY <1>11, <1>12 DEF Orders!Consistent
  <2> QED BY <1>7, <1>11, <1>12, <2>1 DEF Orders!BusyWith
<1>13. ASSUME NEW j \in 1 .. n,
              NEW k \in 1 .. n, Orders!InFlight(remote', j), Orders!InFlight(remote', k),
              remote'.orders[k].res = remote'.orders[j].res
       PROVE  k = j
  <2>1. Orders!InFlight(remote, j) /\ Orders!InFlight(remote, k)
           /\ remote.orders[k].res = remote.orders[j].res
    BY <1>7, <1>11, <1>13
  <2> QED BY <2>1 DEF Orders!Consistent
<1>14. ASSUME NEW j \in 1 .. n, ord2[j].state = "done", ord2[j].type = "terminate"
       PROVE  res2[ord2[j].res].state = "TERMINATED"
  <2>1. CASE j = i
    <3>1. ord2[j].state = end /\ ord2[j].type = o.type /\ ord2[j].res = r
      BY <1>5, <1>6, <2>1
    <3>2. end = "done" /\ o.type = "terminate" => rs = "TERMINATED"
      OBVIOUS
    <3> QED BY <1>5, <1>6, <1>14, <3>1, <3>2
  <2>2. CASE j # i
    <3>1. ord2[j] = remote.orders[j] /\ remote.orders[j].res \in 1 .. m
      BY <1>6, <2>2 DEF Orders!InRange
    <3>2. remote.res[remote.orders[j].res].state = "TERMINATED"
      BY <1>14, <3>1 DEF Orders!Consistent
    <3>3. remote.orders[j].res # r
      BY <1>10, <3>2
    <3> HIDE DEF r, m
    <3> QED BY <1>6, <3>1, <3>2, <3>3
  <2> QED BY <2>1, <2>2
<1>15. Len(remote'.res) = m /\ Len(remote'.orders) = n
  BY <1>6, <1>7
<1>16. Orders!Consistent(remote')
  <2> HIDE DEF n, m, o, r, l
  <2> QED BY <1>7, <1>12, <1>13, <1>14, <1>15 DEF Orders!Consistent
<1>17. \A q \in 1 .. m : remote.res[q].state = "TERMINATED" => remote'.res[q] = remote.res[q]
  BY <1>6, <1>7, <1>10
<1>18. Grown(remote')
  BY <1>3, <1>7, <1>8, <1>9, <1>15, <1>16, <1>17 DEF Grown
<1>19. ASSUME NEW q \in 1 .. m
       PROVE  remote'.res[q].limit = remote.res[q].limit \/ (q = r /\ o.type # "terminate")
  <2>1. CASE q # r
    BY <1>6, <1>7, <2>1
  <2>2. CASE q = r /\ o.type = "terminate"
    <3>1. l = remote.res[r].limit
      BY <2>2
    <3> HIDE DEF l
    <3> QED BY <1>5, <1>6, <1>7, <2>2, <3>1
  <2> QED BY <2>1, <2>2
<1> QED BY <1>15, <1>18, <1>19


\* The order of Waldur A, with at most n orders at B to point to.
Sources(n) ==
    [type : {"none", "create", "update", "terminate"},
     state : {"none", "executing"} \cup Orders!Ends,
     target : 0 .. n, limit : Nat]

\* The parts of the invariant, and B as it is counts as grown.
LEMMA StillGrown ==
    ASSUME Orders!OrdersInv
    PROVE  /\ Grown(remote) /\ Orders!Accounted /\ remote \in Orders!Remotes
           /\ Orders!InRange(remote) /\ Orders!Consistent(remote)
           /\ Orders!TargetFits /\ Orders!UpdatesKnown /\ Orders!SlipsKnown
           /\ source \in Sources(Len(remote.orders))
           /\ Len(remote.res) \in Nat /\ Len(remote.orders) \in Nat
           /\ bid \in 0 .. Len(remote.res)
           /\ DOMAIN remote.res = 1 .. Len(remote.res)
           /\ DOMAIN remote.orders = 1 .. Len(remote.orders)
<1>1. /\ Orders!Accounted /\ remote \in Orders!Remotes /\ Orders!InRange(remote)
      /\ Orders!Consistent(remote) /\ bid \in 0 .. Len(remote.res)
      /\ Orders!TargetFits /\ Orders!UpdatesKnown /\ Orders!SlipsKnown
      /\ source \in Sources(Len(remote.orders))
  BY DEF Orders!OrdersInv, Orders!Accounted, Sources
<1> QED BY <1>1, RemoteParts DEF Grown

\* What a grown B is like.
LEMMA GrownParts ==
    ASSUME Grown(remote')
    PROVE  /\ remote' \in Orders!Remotes /\ Orders!InRange(remote')
           /\ Orders!Consistent(remote')
           /\ Len(remote'.res) \in Nat /\ Len(remote'.orders) \in Nat
           /\ Len(remote.res) <= Len(remote'.res) /\ Len(remote.orders) <= Len(remote'.orders)
           /\ DOMAIN remote'.res = 1 .. Len(remote'.res)
           /\ DOMAIN remote'.orders = 1 .. Len(remote'.orders)
BY RemoteParts DEF Grown

\* An order of B that is in flight after a step was in flight before it, or is new.
LEMMA FlightsBefore ==
    ASSUME Grown(remote'), remote \in Orders!Remotes,
           NEW i \in 1 .. Len(remote'.orders), Orders!InFlight(remote', i),
           i <= Len(remote.orders)
    PROVE  /\ i \in 1 .. Len(remote.orders) /\ Orders!InFlight(remote, i)
           /\ remote'.orders[i].type = remote.orders[i].type
           /\ remote'.orders[i].res = remote.orders[i].res
           /\ remote'.orders[i].limit = remote.orders[i].limit
<1>1. i \in 1 .. Len(remote.orders)
  BY RemoteParts
<1> QED BY <1>1 DEF Grown, Orders!InFlight

\* The books of A after a step on its order.
LEMMA StaysAccounted ==
    ASSUME Orders!Accounted, Grown(remote'), bid' \in 0 .. Len(remote'.res), bid # 0
       => bid' # 0,
           source' \in Sources(Len(remote'.orders)), source'.type = source.type,
               source'.limit = source.limit,
           \/ /\ source'.state = source.state /\ alive' = alive
              /\ source.state = "executing" \/ bid' = bid
           \/ /\ source.state = "executing" /\ source'.state \in Orders!Ends
              /\ alive' \in {"OK", "ERRED", "TERMINATED"} /\ (alive' = "OK" => bid' # 0)
              /\ source.type \in {"create", "update"} /\ source'.state = "done"
                    => alive' = "OK",
           source'.target # 0 => bid' # 0
    PROVE  Orders!Accounted'
<1>1. source'.state = "executing" => source.state = "executing" /\ alive' = alive
  BY DEF Orders!Ends
<1>2. alive' \in {"none", "OK", "ERRED", "TERMINATED"} /\ (alive' = "OK" => bid' # 0)
  BY DEF Orders!Accounted
<1>3. remote' \in Orders!Remotes /\ Orders!InRange(remote')
  BY DEF Grown
<1>4. source'.state = "executing" =>
          /\ alive' # "TERMINATED" /\ source'.type # "none"
          /\ source'.type = "create" => alive' = "none"
          /\ source'.type = "update" => alive' = "OK"
  BY <1>1 DEF Orders!Accounted
<1>5. source'.type \in {"create", "update"}
         => source'.limit # 0 /\ (source'.state = "done" => alive' = "OK")
  BY DEF Orders!Accounted, Orders!Ends
<1>6. alive' = "none" /\ bid' # 0 => source'.state = "executing"
  BY DEF Orders!Accounted
<1> QED BY <1>2, <1>3, <1>4, <1>5, <1>6 DEF Orders!Accounted, Sources

\* What an end makes of A.
LEMMA EndOf ==
    ASSUME Orders!OrdersInv, NEW end \in Orders!Ends, Orders!End(end)
    PROVE  /\ source'.type = source.type /\ source'.limit = source.limit
           /\ source'.target = source.target
           /\ source'.state = end /\ \A n \in Nat : Len(remote.orders) <= n
                 => source' \in Sources(n)
           /\ alive' \in {"OK", "ERRED", "TERMINATED"}
           /\ alive' = "OK" <=> end = "done" /\ source.type # "terminate"
           /\ alive' = "TERMINATED" <=> end = "done" /\ source.type = "terminate"
<1>1. source' = [source EXCEPT !.state = end] /\ source \in Sources(Len(remote.orders))
  BY StillGrown DEF Orders!End
<1>2. /\ source'.type = source.type /\ source'.limit = source.limit
      /\ source'.target = source.target
      /\ source'.state = end /\ source' \in Sources(Len(remote.orders))
  BY <1>1 DEF Sources
<1>3. ASSUME NEW n \in Nat, Len(remote.orders) <= n PROVE source' \in Sources(n)
  <2>1. 0 .. Len(remote.orders) \subseteq 0 .. n
    BY <1>3, StillGrown
  <2> QED BY <1>2, <2>1 DEF Sources
<1>4. /\ alive' \in {"OK", "ERRED", "TERMINATED"}
      /\ alive' = "OK" <=> end = "done" /\ source.type # "terminate"
      /\ alive' = "TERMINATED" <=> end = "done" /\ source.type = "terminate"
  BY DEF Orders!End, Orders!Ends
<1> QED BY <1>2, <1>3, <1>4

\* An order of A ends, and B is left alone.
LEMMA OrderEnds ==
    ASSUME Orders!OrdersInv, source.state = "executing",
           NEW end \in Orders!Ends, Orders!End(end), UNCHANGED <<bid, remote>>,
           slips \subseteq slips',
           source.type = "create" /\ end = "done" => bid # 0,
           end = "done" /\ source.type = "terminate" =>
              bid = 0 \/ remote.res[bid].state = "TERMINATED" \/ "unread" \in slips',
           end = "done" /\ source.target # 0 => remote.orders[source.target].state = "done",
           end = "done" /\ source.target = 0 /\ source.type = "update"
              => remote.res[bid].limit = source.limit
    PROVE  Orders!OrdersInv'
<1>1. /\ Orders!Accounted /\ Grown(remote) /\ remote \in Orders!Remotes
      /\ Orders!Consistent(remote) /\ Orders!TargetFits
      /\ Orders!UpdatesKnown /\ Orders!SlipsKnown
      /\ source \in Sources(Len(remote.orders)) /\ bid \in 0 .. Len(remote.res)
      /\ DOMAIN remote.res = 1 .. Len(remote.res) /\ Len(remote.orders) \in Nat
  BY StillGrown
<1>2. /\ source'.type = source.type /\ source'.limit = source.limit
      /\ source'.target = source.target
      /\ source'.state = end /\ source' \in Sources(Len(remote.orders))
      /\ alive' \in {"OK", "ERRED", "TERMINATED"}
      /\ alive' = "OK" <=> end = "done" /\ source.type # "terminate"
      /\ alive' = "TERMINATED" <=> end = "done" /\ source.type = "terminate"
  BY <1>1, EndOf
<1>3. /\ source.type \in {"create", "update", "terminate"}
      /\ (source.type = "update" => alive = "OK" /\ bid # 0)
      /\ (source.type = "create" => alive = "none") /\ alive # "TERMINATED"
            /\ (source.target # 0 => bid # 0)
  BY <1>1 DEF Orders!Accounted
<1>4. Grown(remote') /\ Orders!Consistent(remote')
  BY <1>1 DEF Grown, Orders!InRange, Orders!Consistent, Orders!InFlight, Orders!BusyWith
<1>5. Orders!Accounted'
  BY <1>1, <1>2, <1>3, <1>4, StaysAccounted
<1>6. Orders!TargetFits'
  BY <1>1, <1>2 DEF Orders!TargetFits
<1>7. Orders!UpdatesKnown'
  <2> SUFFICES ASSUME NEW i \in 1 .. Len(remote.orders), Orders!InFlight(remote, i),
                      remote.orders[i].type = "update",
                      remote.orders[i].res = bid, end = "done", source.type # "terminate"
               PROVE  FALSE
    BY <1>2 DEF Orders!UpdatesKnown, Orders!InFlight, Orders!Ends
  <2>1. source.type = "update" /\ source.target \in {0, i}
           /\ remote.orders[i].limit = source.limit
    BY <1>1, <1>3 DEF Orders!UpdatesKnown
  <2>2. Orders!BusyWith(remote, i) /\ remote.orders[i].state = "executing"
    BY <1>1 DEF Orders!Consistent, Orders!InFlight
  <2>3. i # 0
    BY <1>1
  <2>4. CASE source.target = 0
    BY <2>1, <2>2, <2>4 DEF Orders!BusyWith
  <2>5. CASE source.target = i
    BY <2>2, <2>3, <2>5
  <2> QED BY <2>1, <2>4, <2>5
<1>8. Orders!SlipsKnown'
  BY <1>1, <1>2 DEF Orders!SlipsKnown, Orders!Ends
<1>9. Orders!NothingLeftBehind'
  <2> SUFFICES ASSUME end = "done", source.type = "terminate", "unread" \notin slips',
                      NEW r \in 1 .. Len(remote.res)
               PROVE  remote.res[r].state = "TERMINATED"
                         \/ (r # bid /\ slips' \cap {"unrecorded", "again"} # {})
    BY <1>1, <1>2 DEF Orders!NothingLeftBehind
  <2>1. CASE r # bid
    BY <1>1, <2>1 DEF Orders!SlipsKnown
  <2>2. CASE r = bid
    <3>1. bid # 0
      BY <1>1, <2>2
    <3> QED BY <2>2, <3>1
  <2> QED BY <2>1, <2>2
<1>10. Orders!DoneIsDone'
  <2> SUFFICES ASSUME end = "done", source.type \in {"create", "update"}
               PROVE  /\ bid # 0
                      /\ source.target # 0 =>
                            /\ remote.orders[source.target].type = source.type
                            /\ remote.orders[source.target].state = "done"
                            /\ remote.orders[source.target].limit = source.limit
                            /\ remote.orders[source.target].res = bid \/ "again" \in slips'
                      /\ source.target = 0 =>
                            IF source.type = "update"
                               THEN remote.res[bid].limit = source.limit
                            ELSE "untracked" \in slips'
    BY <1>2 DEF Orders!DoneIsDone
  <2>1. bid # 0
    BY <1>3
  <2>2. source.target # 0 =>
           /\ remote.orders[source.target].type = source.type
           /\ remote.orders[source.target].state = "done"
           /\ remote.orders[source.target].limit = source.limit
           /\ remote.orders[source.target].res = bid \/ "again" \in slips'
    BY <1>1 DEF Orders!TargetFits
  <2>3. source.target = 0 /\ source.type = "create" => "untracked" \in slips'
    BY <1>1, <2>1 DEF Orders!SlipsKnown
  <2> QED BY <2>1, <2>2, <2>3
<1> QED BY <1>4, <1>5, <1>6, <1>7, <1>8, <1>9, <1>10 DEF Orders!OrdersInv

\* Waldur A orders.
LEMMA IssueKeepsOrders == ASSUME Orders!OrdersInv, Orders!Issue PROVE Orders!OrdersInv'
<1>1. /\ bid' = bid /\ alive' = alive /\ remote' = remote /\ slips' = slips
      /\ source.state # "executing"
  BY DEF Orders!Issue
<1>2. PICK ty \in {"create", "update", "terminate"}, limit \in 1 .. 2 :
          /\ CASE ty = "create" -> alive = "none"
               [] ty = "update" -> alive = "OK"
               [] OTHER -> alive \in {"OK", "ERRED"}
          /\ source' = [type |-> ty, state |-> "executing", target |-> 0,
                        limit |-> IF ty = "terminate" THEN 0 ELSE limit]
  BY DEF Orders!Issue
<1>3. /\ ty = "create" => alive = "none"
      /\ ty = "update" => alive = "OK"
      /\ ty = "terminate" => alive \in {"OK", "ERRED"}
  BY <1>2
<1>4. /\ source' \in Sources(Len(remote.orders)) /\ source'.type = ty
      /\ source'.state = "executing"
      /\ source'.target = 0 /\ (ty # "terminate" => source'.limit # 0)
  BY <1>1, <1>2, StillGrown DEF Sources
<1>5. Orders!Accounted'
  <2>0. Orders!Accounted
    BY StillGrown
  <2>1. source'.state = "executing" =>
          /\ alive' # "TERMINATED" /\ source'.type # "none"
          /\ source'.type = "create" => alive' = "none"
          /\ source'.type = "update" => alive' = "OK"
    BY <1>1, <1>3, <1>4
  <2>2. source'.type \in {"create", "update"}
           => source'.limit # 0 /\ (source'.state = "done" => alive' = "OK")
    BY <1>4
  <2>3. alive' = "OK" \/ source'.target # 0 => bid' # 0
    BY <1>1, <1>4, <2>0 DEF Orders!Accounted
  <2> QED BY <1>1, <1>4, <2>0, <2>1, <2>2, <2>3 DEF Orders!Accounted, Sources, Orders!InRange
<1>6. Orders!Consistent(remote')
  BY <1>1, StillGrown DEF Orders!Consistent, Orders!InFlight, Orders!BusyWith
<1>7. Orders!TargetFits' /\ Orders!SlipsKnown'
  <2>1. ty = "create" => bid = 0
    BY <1>1, <1>3, StillGrown DEF Orders!Accounted
  <2> QED BY <1>1, <1>4, <2>1, StillGrown DEF Orders!TargetFits, Orders!SlipsKnown
<1>8. Orders!UpdatesKnown'
  BY <1>1, StillGrown DEF Orders!UpdatesKnown, Orders!InFlight
<1>9. Orders!NothingLeftBehind' /\ Orders!DoneIsDone'
  BY <1>1, <1>3, <1>4 DEF Orders!NothingLeftBehind, Orders!DoneIsDone
<1> QED BY <1>5, <1>6, <1>7, <1>8, <1>9 DEF Orders!OrdersInv

\* A step of B on its own.
LEMMA RemoteSteps ==
    ASSUME Orders!OrdersInv, UNCHANGED <<source, bid, alive, slips>>, Grown(remote'),
           Len(remote'.res) = Len(remote.res),
           \A i \in 1 .. Len(remote'.orders) : i <= Len(remote.orders)
              \/ remote'.orders[i].type # "update",
           source.type = "update" /\ source.state = "done" /\ source.target = 0 =>
              remote'.res[bid].limit = remote.res[bid].limit
    PROVE  Orders!OrdersInv'
<1>1. /\ Orders!Accounted /\ remote \in Orders!Remotes
      /\ source \in Sources(Len(remote.orders)) /\ bid \in 0 .. Len(remote.res)
      /\ (source.target # 0 => bid # 0) /\ Orders!TargetFits /\ Orders!UpdatesKnown
            /\ Orders!SlipsKnown
      /\ Orders!NothingLeftBehind /\ Orders!DoneIsDone /\ Len(remote.orders) \in Nat
      /\ DOMAIN remote.res = 1 .. Len(remote.res)
  BY StillGrown DEF Orders!OrdersInv, Orders!Accounted
<1>2. /\ Orders!Consistent(remote') /\ Len(remote'.orders) \in Nat
      /\ Len(remote.orders) <= Len(remote'.orders)
      /\ DOMAIN remote'.res = 1 .. Len(remote'.res)
  BY GrownParts
<1>3. source' \in Sources(Len(remote'.orders))
  <2>1. 0 .. Len(remote.orders) \subseteq 0 .. Len(remote'.orders)
    BY <1>1, <1>2
  <2> QED BY <1>1, <2>1 DEF Sources
<1>4. Orders!Accounted'
  BY <1>1, <1>3, StaysAccounted
<1>5. ASSUME source.target # 0
      PROVE  LET o == remote.orders[source.target] p == remote'.orders[source.target] IN
             /\ p.type = o.type /\ p.res = o.res /\ p.limit = o.limit
             /\ o.state # "executing" => p.state = o.state
  <2>1. source.target \in 1 .. Len(remote.orders)
    BY <1>1, <1>5 DEF Sources
  <2> QED BY <2>1 DEF Grown
<1>6. Orders!TargetFits'
  BY <1>1, <1>5 DEF Orders!TargetFits
<1>7. Orders!UpdatesKnown'
  <2> SUFFICES ASSUME NEW i \in 1 .. Len(remote'.orders), Orders!InFlight(remote', i),
                      remote'.orders[i].type = "update",
                      remote'.orders[i].res = bid
               PROVE  \/ alive \in {"ERRED", "TERMINATED"}
                      \/ /\ source.type = "update" /\ source.state = "executing"
                         /\ source.target \in {0, i}
                         /\ remote'.orders[i].limit = source.limit
    BY DEF Orders!UpdatesKnown
  <2>1. /\ i \in 1 .. Len(remote.orders) /\ Orders!InFlight(remote, i)
        /\ remote.orders[i].type = "update"
        /\ remote.orders[i].res = bid /\ remote'.orders[i].limit = remote.orders[i].limit
    BY <1>1, FlightsBefore
  <2> QED BY <1>1, <2>1 DEF Orders!UpdatesKnown
<1>8. Orders!SlipsKnown'
  BY <1>1 DEF Orders!SlipsKnown
<1>9. Orders!NothingLeftBehind'
  <2> SUFFICES ASSUME alive = "TERMINATED", "unread" \notin slips,
                      NEW r \in 1 .. Len(remote.res)
               PROVE  remote'.res[r].state = "TERMINATED"
                         \/ (r # bid /\ slips \cap {"unrecorded", "again"} # {})
    BY <1>2 DEF Orders!NothingLeftBehind
  <2> QED BY <1>1 DEF Orders!NothingLeftBehind, Grown
<1>10. Orders!DoneIsDone'
  <2> SUFFICES ASSUME source.state = "done", source.type \in {"create", "update"}
               PROVE  /\ bid # 0
                      /\ source.target # 0 =>
                            /\ remote'.orders[source.target].type = source.type
                            /\ remote'.orders[source.target].state = "done"
                            /\ remote'.orders[source.target].limit = source.limit
                            /\ remote'.orders[source.target].res = bid \/ "again" \in slips
                      /\ source.target = 0 =>
                            IF source.type = "update"
                               THEN remote'.res[bid].limit = source.limit
                            ELSE "untracked" \in slips
    BY DEF Orders!DoneIsDone
  <2>1. bid # 0
    BY <1>1 DEF Orders!DoneIsDone
  <2>2. source.target # 0 =>
           /\ remote.orders[source.target].type = source.type
           /\ remote.orders[source.target].state = "done"
           /\ remote.orders[source.target].limit = source.limit
           /\ remote.orders[source.target].res = bid \/ "again" \in slips
    BY <1>1 DEF Orders!DoneIsDone
  <2>3. source.target = 0 =>
           IF source.type = "update"
              THEN remote.res[bid].limit = source.limit ELSE "untracked" \in slips
    BY <1>1 DEF Orders!DoneIsDone
  <2> QED BY <1>5, <2>1, <2>2, <2>3
<1> QED BY <1>2, <1>4, <1>6, <1>7, <1>8, <1>9, <1>10 DEF Orders!OrdersInv

\* B's provider ends an order.
LEMMA FinishKeepsOrders ==
    ASSUME Orders!OrdersInv, NEW i \in DOMAIN remote.orders, Orders!FinishTarget(i)
    PROVE  Orders!OrdersInv'
<1>1. /\ remote \in Orders!Remotes /\ Orders!InRange(remote) /\ Orders!Consistent(remote)
      /\ i \in 1 .. Len(remote.orders)
      /\ bid \in 0 .. Len(remote.res) /\ Orders!UpdatesKnown /\ Orders!Accounted
      /\ Len(remote.res) \in Nat
  BY StillGrown
<1>2. /\ Grown(remote') /\ Len(remote'.res) = Len(remote.res)
      /\ Len(remote'.orders) = Len(remote.orders)
      /\ \A q \in 1 .. Len(remote.res) :
            \/ remote'.res[q].limit = remote.res[q].limit
            \/ q = remote.orders[i].res /\ remote.orders[i].type # "terminate"
  BY <1>1, OrderFinished
<1>3. ASSUME source.type = "update", source.state = "done", source.target = 0
      PROVE  remote'.res[bid].limit = remote.res[bid].limit
  <2>1. bid # 0 /\ remote.res[bid].limit = source.limit /\ source.limit # 0 /\ alive = "OK"
    BY <1>1, <1>3 DEF Orders!OrdersInv, Orders!DoneIsDone, Orders!Accounted
  <2>2. bid \in 1 .. Len(remote.res)
    BY <1>1, <2>1
  <2>3. Orders!InFlight(remote, i)
    BY DEF Orders!FinishTarget, Orders!InFlight
  <2>4. Orders!BusyWith(remote, i) /\ remote.orders[i] \in Orders!TargetOrders
    BY <1>1, <2>3, RemoteParts DEF Orders!Consistent
  <2>5. ~(remote.orders[i].res = bid /\ remote.orders[i].type = "create")
    BY <2>1, <2>4 DEF Orders!BusyWith
  <2>6. ~(remote.orders[i].res = bid /\ remote.orders[i].type = "update")
    BY <1>1, <1>3, <2>1, <2>3 DEF Orders!UpdatesKnown
  <2>7. remote.orders[i].type \in {"create", "update", "terminate"}
    BY <2>4 DEF Orders!TargetOrders
  <2> QED BY <1>2, <2>2, <2>5, <2>6, <2>7
<1>4. \A k \in 1 .. Len(remote'.orders) : k <= Len(remote.orders)
  BY <1>1, <1>2, StillGrown
<1> QED BY <1>2, <1>3, <1>4, RemoteSteps DEF Orders!FinishTarget

\* The owner of the project on B terminates the resource.
LEMMA RemoteTerminateKeepsOrders ==
    ASSUME Orders!OrdersInv, NEW r \in DOMAIN remote.res, Orders!RemoteTerminate(r)
    PROVE  Orders!OrdersInv'
<1>1. /\ remote \in Orders!Remotes /\ Orders!InRange(remote) /\ Orders!Consistent(remote)
      /\ r \in 1 .. Len(remote.res)
      /\ bid \in 0 .. Len(remote.res) /\ Len(remote.res) \in Nat /\ Len(remote.orders) \in Nat
  BY StillGrown
<1>2. Orders!Accepts(r) /\ remote' = Orders!CreateOrder(remote, "terminate", r, 0)
  BY DEF Orders!RemoteTerminate
<1> DEFINE n == Len(remote.orders)
<1>3. /\ Grown(remote') /\ Len(remote'.res) = Len(remote.res) /\ Len(remote'.orders) = n + 1
      /\ remote'.orders[n + 1] = [type |-> "terminate", res |-> r, state |-> "executing",
          limit |-> 0]
      /\ \A q \in 1 .. Len(remote.res) : remote'.res[q].limit = remote.res[q].limit
  BY <1>1, <1>2, OrderAccepted
<1>4. \A i \in 1 .. Len(remote'.orders) : i <= Len(remote.orders)
         \/ remote'.orders[i].type # "update"
  <2> SUFFICES ASSUME NEW i \in 1 .. Len(remote'.orders), ~(i <= Len(remote.orders))
               PROVE  remote'.orders[i].type # "update"
    OBVIOUS
  <2>1. i = n + 1
    BY <1>1, <1>3
  <2> HIDE DEF n
  <2> QED BY <1>3, <2>1
<1>5. source.type = "update" /\ source.state = "done" /\ source.target = 0 =>
        remote'.res[bid].limit = remote.res[bid].limit
  <2>1. source.type = "update" /\ source.state = "done" => bid # 0
    BY DEF Orders!OrdersInv, Orders!DoneIsDone
  <2> QED BY <1>1, <1>3, <2>1
<1> QED BY <1>3, <1>4, <1>5, RemoteSteps DEF Orders!RemoteTerminate

\* The target order ended.
LEMMA PollKeepsOrders == ASSUME Orders!OrdersInv, Orders!PollAsyncTargetOrder
                         PROVE  Orders!OrdersInv'
<1>1. source.state = "executing" /\ source.target # 0 /\ bid' = bid /\ remote' = remote
         /\ slips' = slips
  BY DEF Orders!PollAsyncTargetOrder, Orders!Polled
<1>2. PICK end \in Orders!Ends : remote.orders[source.target].state = end /\ Orders!End(end)
  BY DEF Orders!PollAsyncTargetOrder, Orders!CheckPendingOrder
<1>3. bid # 0 /\ source.target \in 1 .. Len(remote.orders) /\ Orders!Consistent(remote)
         /\ Orders!TargetFits
  BY <1>1, StillGrown DEF Orders!Accounted, Sources
<1>4. ASSUME end = "done", source.type = "terminate"
      PROVE  remote.res[bid].state = "TERMINATED"
  <2>1. remote.orders[source.target].type = "terminate"
           /\ remote.orders[source.target].res = bid
    BY <1>1, <1>3, <1>4 DEF Orders!TargetFits
  <2> QED BY <1>2, <1>3, <1>4, <2>1 DEF Orders!Consistent
<1> QED BY <1>1, <1>2, <1>3, <1>4, OrderEnds

\* An update that is in flight stays the one A waits for.
LEMMA UpdatesStay ==
    ASSUME Orders!OrdersInv, source.state = "executing", Grown(remote'), alive' = alive,
           source'.type = source.type, source'.state = source.state,
               source'.limit = source.limit,
           bid' = bid \/ bid' = Len(remote.res) + 1,
           \A i \in 1 .. Len(remote.orders) :
              Orders!InFlight(remote, i) /\ remote.orders[i].type = "update"
                 /\ remote.orders[i].res = bid
                 /\ source.type = "update" => source'.target = source.target,
           \A i \in 1 .. Len(remote'.orders) :
              ~(i <= Len(remote.orders)) /\ remote'.orders[i].type = "update" =>
                 source.type = "update" /\ remote'.orders[i].limit = source.limit
                    /\ source'.target \in {0, i}
    PROVE  Orders!UpdatesKnown'
<1>1. /\ remote \in Orders!Remotes /\ Orders!InRange(remote) /\ Orders!UpdatesKnown
      /\ Len(remote.res) \in Nat
  BY StillGrown
<1> SUFFICES ASSUME NEW i \in 1 .. Len(remote'.orders), Orders!InFlight(remote', i),
                    remote'.orders[i].type = "update",
                    remote'.orders[i].res = bid'
             PROVE  \/ alive \in {"ERRED", "TERMINATED"}
                    \/ /\ source.type = "update" /\ source'.target \in {0, i}
                       /\ remote'.orders[i].limit = source.limit
  BY DEF Orders!UpdatesKnown
<1>2. CASE ~(i <= Len(remote.orders))
  BY <1>2
<1>3. CASE i <= Len(remote.orders)
  <2>1. /\ i \in 1 .. Len(remote.orders) /\ Orders!InFlight(remote, i)
        /\ remote.orders[i].type = "update"
        /\ remote.orders[i].res = bid' /\ remote'.orders[i].limit = remote.orders[i].limit
    BY <1>1, <1>3, FlightsBefore
  <2>2. bid' = bid
    <3>1. remote.orders[i].res \in 1 .. Len(remote.res)
      BY <1>1, <2>1 DEF Orders!InRange
    <3> QED BY <1>1, <2>1, <3>1
  <2> QED BY <1>1, <2>1, <2>2 DEF Orders!UpdatesKnown
<1> QED BY <1>2, <1>3

\* A call fails: the order of A ends, or is tried again.
LEMMA FailKeepsOrders ==
    ASSUME Orders!OrdersInv, source.state = "executing", source.target = 0, Orders!Fail,
           Grown(remote'), slips \subseteq slips',
           bid' \in 0 .. Len(remote'.res), bid' = bid
              \/ (bid = 0 /\ bid' = Len(remote.res) + 1),
           \A r \in 1 .. Len(remote'.res) : r # bid'
              => slips' \cap {"unrecorded", "again"} # {},
           source.type = "create" /\ bid' # 0 => "untracked" \in slips',
           \A i \in 1 .. Len(remote'.orders) :
              ~(i <= Len(remote.orders)) /\ remote'.orders[i].type = "update" =>
                 source.type = "update" /\ remote'.orders[i].limit = source.limit
    PROVE  Orders!OrdersInv'
<1>1. /\ Orders!Accounted /\ source \in Sources(Len(remote.orders)) /\ alive # "TERMINATED"
      /\ Len(remote.orders) \in Nat /\ Len(remote.res) \in Nat /\ bid # 0 => bid' # 0
  BY StillGrown DEF Orders!Accounted
<1>2. Orders!Consistent(remote') /\ Len(remote'.orders) \in Nat
         /\ Len(remote.orders) <= Len(remote'.orders)
  BY GrownParts
<1>3. CASE Orders!End("erred")
  <2>0. "erred" \in Orders!Ends
    BY DEF Orders!Ends
  <2>1. /\ source'.type = source.type /\ source'.limit = source.limit
        /\ source'.target = source.target
        /\ source'.state = "erred" /\ source' \in Sources(Len(remote'.orders))
        /\ alive' \in {"OK", "ERRED", "TERMINATED"} /\ alive' # "OK" /\ alive' # "TERMINATED"
    BY <1>2, <1>3, <2>0, EndOf
  <2>2. Orders!Accounted'
    BY <1>1, <2>0, <2>1, StaysAccounted
  <2>3. Orders!TargetFits' /\ Orders!SlipsKnown'
    BY <2>1 DEF Orders!TargetFits, Orders!SlipsKnown
  <2>4. Orders!UpdatesKnown' /\ Orders!NothingLeftBehind' /\ Orders!DoneIsDone'
    BY <2>1 DEF Orders!UpdatesKnown, Orders!NothingLeftBehind, Orders!DoneIsDone
  <2> QED BY <1>2, <2>2, <2>3, <2>4 DEF Orders!OrdersInv
<1>4. CASE UNCHANGED <<source, alive>>
  <2>1. source' \in Sources(Len(remote'.orders))
    <3>1. 0 .. Len(remote.orders) \subseteq 0 .. Len(remote'.orders)
      BY <1>1, <1>2
    <3> QED BY <1>1, <1>4, <3>1 DEF Sources
  <2>2. Orders!Accounted'
    BY <1>1, <1>4, <2>1, StaysAccounted
  <2>3. Orders!TargetFits' /\ Orders!SlipsKnown'
    BY <1>4 DEF Orders!TargetFits, Orders!SlipsKnown
  <2>4. Orders!UpdatesKnown'
    BY <1>4, UpdatesStay
  <2>5. Orders!NothingLeftBehind' /\ Orders!DoneIsDone'
    BY <1>1, <1>4 DEF Orders!NothingLeftBehind, Orders!DoneIsDone
  <2> QED BY <1>2, <2>2, <2>3, <2>4, <2>5 DEF Orders!OrdersInv
<1> QED BY <1>3, <1>4 DEF Orders!Fail

\* The target of an order is recorded.
LEMMA TargetRecorded ==
    ASSUME Orders!OrdersInv, source.state = "executing", Grown(remote'),
           slips \subseteq slips',
           bid' \in 0 .. Len(remote'.res), bid' # 0, Orders!UpdatesKnown',
           NEW t \in 1 .. Len(remote'.orders), source' = [source EXCEPT !.target = t],
               alive' = alive,
           \A r \in 1 .. Len(remote'.res) : r # bid'
              => slips' \cap {"unrecorded", "again"} # {},
           remote'.orders[t].type = source.type,
           source.type # "terminate" => remote'.orders[t].limit = source.limit,
           remote'.orders[t].res = bid' \/ (source.type = "create" /\ "again" \in slips')
    PROVE  Orders!OrdersInv'
<1>1. Orders!Accounted /\ source \in Sources(Len(remote.orders)) /\ alive # "TERMINATED"
  BY StillGrown DEF Orders!Accounted
<1>2. Orders!Consistent(remote') /\ Len(remote'.orders) \in Nat
  BY GrownParts
<1>3. /\ source' \in Sources(Len(remote'.orders)) /\ source'.type = source.type
      /\ source'.limit = source.limit
      /\ source'.state = "executing" /\ source'.target = t /\ t # 0
  BY <1>1, <1>2 DEF Sources
<1>4. Orders!Accounted'
  BY <1>1, <1>3, StaysAccounted
<1>5. Orders!TargetFits' /\ Orders!SlipsKnown'
  BY <1>3 DEF Orders!TargetFits, Orders!SlipsKnown
<1>6. Orders!NothingLeftBehind' /\ Orders!DoneIsDone'
  BY <1>1, <1>3 DEF Orders!NothingLeftBehind, Orders!DoneIsDone
<1> QED BY <1>2, <1>4, <1>5, <1>6 DEF Orders!OrdersInv

\* A create order is taken up.
LEMMA CreateKeepsOrders == ASSUME Orders!OrdersInv, Orders!ProcessCreateOrder
                           PROVE  Orders!OrdersInv'
<1>1. source.type = "create" /\ source.state = "executing" /\ source.target = 0
  BY DEF Orders!ProcessCreateOrder
<1>2. /\ Orders!Accounted /\ remote \in Orders!Remotes /\ Orders!InRange(remote)
      /\ Orders!Consistent(remote) /\ source.limit \in Nat
      /\ bid \in 0 .. Len(remote.res) /\ Orders!SlipsKnown /\ Grown(remote)
      /\ Len(remote.orders) \in Nat /\ Len(remote.res) \in Nat
      /\ source \in Sources(Len(remote.orders))
  BY <1>1, StillGrown DEF Orders!Accounted
<1>3. CASE bid # 0 /\ Orders!End("done") /\ UNCHANGED <<bid, remote, slips, foHiccups>>
  BY <1>1, <1>3, OrderEnds DEF Orders!Ends
<1>4. ASSUME NEW found \in BOOLEAN, Orders!CreateResource(found) PROVE Orders!OrdersInv'
  <2> DEFINE b1 == Orders!FindOrCreateProject(remote, found)
             b2 == Orders!Submit(b1)
             n == Len(remote.orders)
             m == Len(remote.res)
             again == IF bid = 0 THEN {} ELSE {"again"}
  <2>1. Grown(b1) /\ b1.res = remote.res /\ b1.orders = remote.orders
    BY <1>2, ProjectFound
  <2>2. /\ Grown(b2) /\ Len(b2.res) = m + 1 /\ Len(b2.orders) = n + 1
        /\ b2.orders[n + 1].type = "create" /\ b2.orders[n + 1].res = m + 1
        /\ b2.orders[n + 1].limit = source.limit
    BY <1>2, OrderSubmitted
  <2>3. \/ /\ remote' = b2 /\ Orders!SetBackendId(Len(b2.res)) /\ Orders!Slip(again)
           /\ source' = [source EXCEPT !.target = Len(b2.orders)]
           /\ UNCHANGED alive
        \/ Orders!Fail /\ remote' \in {remote, b1} /\ UNCHANGED <<bid, slips>>
        \/ Orders!Fail /\ remote' = b2 /\ UNCHANGED bid /\ Orders!Slip({"unrecorded"})
        \/ Orders!Fail /\ remote' = b2 /\ Orders!SetBackendId(Len(b2.res))
           /\ Orders!Slip(again \cup {"untracked"})
    BY <1>4 DEF Orders!CreateResource
  <2> HIDE DEF b1, b2
  <2>4. ASSUME NEW i \in 1 .. Len(b2.orders), ~(i <= Len(remote.orders))
        PROVE  b2.orders[i].type # "update"
    <3>1. i = n + 1
      BY <1>2, <2>2, <2>4
    <3> HIDE DEF n
    <3> QED BY <2>2, <3>1
  <2>5. ASSUME NEW r \in 1 .. Len(b2.res)
        PROVE  \/ r = (IF bid = 0 THEN m + 1 ELSE bid)
               \/ (slips \cup again) \cap {"unrecorded", "again"} # {}
    <3>1. CASE bid # 0
      BY <3>1
    <3>2. CASE bid = 0 /\ r # m + 1
      <4>1. r \in 1 .. m /\ r # bid
        BY <1>2, <2>2, <3>2
      <4> QED BY <1>2, <4>1 DEF Orders!SlipsKnown
    <3> QED BY <3>1, <3>2
  <2>6. CASE /\ remote' = b2 /\ Orders!SetBackendId(Len(b2.res)) /\ Orders!Slip(again)
             /\ source' = [source EXCEPT !.target = Len(b2.orders)]
             /\ UNCHANGED alive
    <3>1. bid' = (IF bid = 0 THEN m + 1 ELSE bid) /\ bid' \in 0 .. Len(remote'.res)
             /\ bid' # 0
      BY <1>2, <2>2, <2>6 DEF Orders!SetBackendId
    <3>2. slips' = slips \cup again
      BY <2>6 DEF Orders!Slip
    <3>3. n + 1 \in 1 .. Len(remote'.orders) /\ source' = [source EXCEPT !.target = n + 1]
      BY <1>2, <2>2, <2>6
    <3>4. Orders!UpdatesKnown'
      <4>1. source'.type = source.type /\ source'.state = source.state
               /\ source'.limit = source.limit
        BY <1>2, <3>3 DEF Sources
      <4>2. bid' = bid \/ bid' = Len(remote.res) + 1
        BY <3>1
      <4> HIDE DEF n, m
      <4> QED BY <1>1, <2>2, <2>4, <2>6, <4>1, <4>2, UpdatesStay
    <3>5. remote'.orders[n + 1].res = bid' \/ "again" \in slips'
      BY <2>2, <2>6, <3>1, <3>2
    <3>6. \A r \in 1 .. Len(remote'.res) : r # bid'
             => slips' \cap {"unrecorded", "again"} # {}
      BY <2>5, <2>6, <3>1, <3>2
    <3> HIDE DEF n, m, again
    <3> QED BY <1>1, <2>2, <2>6, <3>1, <3>2, <3>3, <3>4, <3>5, <3>6, TargetRecorded
  <2>7. CASE Orders!Fail /\ remote' \in {remote, b1} /\ UNCHANGED <<bid, slips>>
    <3>1. Grown(remote') /\ Len(remote'.res) = m /\ Len(remote'.orders) = n
      BY <1>2, <2>1, <2>7
    <3>2. \A i \in 1 .. Len(remote'.orders) : i <= Len(remote.orders)
      BY <1>2, <3>1
    <3> QED BY <1>1, <1>2, <2>7, <3>1, <3>2, FailKeepsOrders DEF Orders!SlipsKnown
  <2>8. CASE Orders!Fail /\ remote' = b2 /\ UNCHANGED bid /\ Orders!Slip({"unrecorded"})
    <3>1. slips' = slips \cup {"unrecorded"}
      BY <2>8 DEF Orders!Slip
    <3>2. bid' \in 0 .. Len(remote'.res) /\ bid' = bid
      BY <1>2, <2>2, <2>8
    <3>3. source.type = "create" /\ bid' # 0 => "untracked" \in slips'
      BY <1>1, <1>2, <3>1, <3>2 DEF Orders!SlipsKnown
    <3> QED BY <1>1, <2>2, <2>4, <2>8, <3>1, <3>2, <3>3, FailKeepsOrders
  <2>9. CASE Orders!Fail /\ remote' = b2 /\ Orders!SetBackendId(Len(b2.res))
           /\ Orders!Slip(again \cup {"untracked"})
    <3>1. slips' = slips \cup (again \cup {"untracked"})
      BY <2>9 DEF Orders!Slip
    <3>2. bid' = (IF bid = 0 THEN m + 1 ELSE bid) /\ bid' \in 0 .. Len(remote'.res)
      BY <1>2, <2>2, <2>9 DEF Orders!SetBackendId
    <3>3. \A r \in 1 .. Len(remote'.res) : r # bid'
             => slips' \cap {"unrecorded", "again"} # {}
      BY <2>5, <2>9, <3>1, <3>2
    <3>4. bid' = bid \/ (bid = 0 /\ bid' = Len(remote.res) + 1)
      BY <3>2
    <3> HIDE DEF n, m, again
    <3> QED BY <1>1, <2>2, <2>4, <2>9, <3>1, <3>2, <3>3, <3>4, FailKeepsOrders
  <2> QED BY <2>3, <2>6, <2>7, <2>8, <2>9
<1> QED BY <1>3, <1>4 DEF Orders!ProcessCreateOrder

\* An order that B accepts.
LEMMA SubmitKeepsOrders ==
    ASSUME Orders!OrdersInv, source.state = "executing", source.target = 0,
           NEW ty \in {"update", "terminate"},
           source.type = ty, bid # 0, Orders!Accepts(bid), Orders!SubmitAsyncTargetOrder(ty),
               bid' = bid, slips' = slips,
           ty = "update" => remote.res[bid].limit # source.limit
    PROVE  Orders!OrdersInv'
<1>1. /\ remote \in Orders!Remotes /\ Orders!InRange(remote) /\ Orders!Consistent(remote)
      /\ source.limit \in Nat /\ Grown(remote)
      /\ bid \in 1 .. Len(remote.res) /\ Len(remote.orders) \in Nat /\ Len(remote.res) \in Nat
      /\ Orders!SlipsKnown /\ source \in Sources(Len(remote.orders))
  BY StillGrown DEF Sources
<1> DEFINE b == Orders!CreateOrder(remote, ty, bid, source.limit)
           n == Len(remote.orders)
<1>2. /\ Grown(b) /\ Len(b.res) = Len(remote.res) /\ Len(b.orders) = n + 1
      /\ b.orders[n + 1].type = ty /\ b.orders[n + 1].res = bid
      /\ b.orders[n + 1].limit = source.limit
  <2>1. /\ Grown(b) /\ Len(b.res) = Len(remote.res) /\ Len(b.orders) = n + 1
        /\ b.orders[n + 1] = [type |-> ty, res |-> bid, state |-> "executing",
            limit |-> source.limit]
    BY <1>1, OrderAccepted
  <2> HIDE DEF b, n
  <2> QED BY <2>1
<1>3. \/ remote' = b /\ source' = [source EXCEPT !.target = Len(b.orders)]
         /\ UNCHANGED <<alive, foHiccups>>
      \/ Orders!Fail /\ remote' \in {remote, b}
  BY DEF Orders!SubmitAsyncTargetOrder
<1> HIDE DEF b
<1>4. ASSUME NEW i \in 1 .. Len(b.orders), ~(i <= Len(remote.orders)) PROVE i = n + 1
  BY <1>1, <1>2, <1>4
<1>5. ASSUME NEW i \in 1 .. Len(remote.orders), Orders!InFlight(remote, i)
      PROVE  remote.orders[i].res # bid
  <2>1. Orders!BusyWith(remote, i)
    BY <1>1, <1>5 DEF Orders!Consistent
  <2> QED BY <2>1 DEF Orders!BusyWith, Orders!Busy, Orders!Accepts
<1>6. CASE remote' = b /\ source' = [source EXCEPT !.target = Len(b.orders)]
         /\ UNCHANGED <<alive, foHiccups>>
  <2>1. n + 1 \in 1 .. Len(remote'.orders) /\ source' = [source EXCEPT !.target = n + 1]
        /\ bid' \in 0 .. Len(remote'.res)
    BY <1>1, <1>2, <1>6
  <2>2. /\ source'.type = source.type /\ source'.state = source.state
        /\ source'.limit = source.limit
        /\ source'.target = n + 1
    BY <1>1, <2>1 DEF Sources
  <2> HIDE DEF n
  <2>3. Orders!UpdatesKnown'
    BY <1>2, <1>4, <1>5, <1>6, <2>2, UpdatesStay
  <2>4. \A r \in 1 .. Len(remote'.res) : r # bid' => slips' \cap {"unrecorded", "again"} # {}
    BY <1>1, <1>2, <1>6 DEF Orders!SlipsKnown
  <2> QED BY <1>1, <1>2, <1>6, <2>1, <2>3, <2>4, TargetRecorded
<1>7. CASE Orders!Fail /\ remote' \in {remote, b}
  <2>1. Grown(remote') /\ bid' \in 0 .. Len(remote'.res) /\ Len(remote'.res) = Len(remote.res)
    BY <1>1, <1>2, <1>7
  <2>2. ASSUME NEW i \in 1 .. Len(remote'.orders), ~(i <= Len(remote.orders)),
               remote'.orders[i].type = "update"
        PROVE  source.type = "update" /\ remote'.orders[i].limit = source.limit
    <3>1. remote' = b
      BY <1>1, <1>7, <2>2
    <3>2. i = n + 1
      BY <1>4, <2>2, <3>1
    <3> HIDE DEF n
    <3> QED BY <1>2, <2>2, <3>1, <3>2
  <2>3. \A r \in 1 .. Len(remote'.res) : r # bid' => slips' \cap {"unrecorded", "again"} # {}
    BY <1>1, <2>1 DEF Orders!SlipsKnown
  <2> QED BY <1>7, <2>1, <2>2, <2>3, FailKeepsOrders
<1> QED BY <1>3, <1>6, <1>7

\* An update order is taken up.
LEMMA UpdateKeepsOrders == ASSUME Orders!OrdersInv, Orders!ProcessUpdateOrder
                           PROVE  Orders!OrdersInv'
<1>1. source.type = "update" /\ source.state = "executing" /\ source.target = 0
         /\ bid' = bid /\ slips' = slips
  BY DEF Orders!ProcessUpdateOrder
<1>2. bid # 0 /\ "done" \in Orders!Ends /\ "erred" \in Orders!Ends
  BY <1>1, StillGrown DEF Orders!Accounted, Orders!Ends
<1>3. CASE remote.res[bid].limit = source.limit /\ Orders!End("done")
         /\ UNCHANGED <<remote, foHiccups>>
  BY <1>1, <1>2, <1>3, OrderEnds
<1>4. CASE remote.res[bid].limit # source.limit /\ Orders!Accepts(bid)
         /\ Orders!SubmitAsyncTargetOrder("update")
  BY <1>1, <1>2, <1>4, SubmitKeepsOrders
<1>5. CASE Orders!End("erred") /\ UNCHANGED <<remote, foHiccups>>
  BY <1>1, <1>2, <1>5, OrderEnds
<1> QED BY <1>3, <1>4, <1>5 DEF Orders!ProcessUpdateOrder

\* A termination is taken up.
LEMMA TerminateKeepsOrders == ASSUME Orders!OrdersInv, Orders!ProcessTerminateOrder
                              PROVE  Orders!OrdersInv'
<1>1. source.type = "terminate" /\ source.state = "executing" /\ source.target = 0
         /\ bid' = bid /\ "done" \in Orders!Ends
  BY DEF Orders!ProcessTerminateOrder, Orders!Ends
<1>2. /\ remote \in Orders!Remotes /\ bid \in 0 .. Len(remote.res) /\ Grown(remote)
      /\ Orders!SlipsKnown /\ Orders!Consistent(remote)
      /\ Len(remote.orders) \in Nat /\ Len(remote.res) \in Nat
      /\ source \in Sources(Len(remote.orders))
      /\ DOMAIN remote.orders = 1 .. Len(remote.orders)
  BY StillGrown
<1>3. CASE (bid = 0 \/ remote.res[bid].state = "TERMINATED") /\ Orders!End("done")
         /\ UNCHANGED <<remote, slips, foHiccups>>
  BY <1>1, <1>3, OrderEnds
<1>4. CASE bid # 0 /\ Orders!Hiccup /\ Orders!End("done") /\ Orders!Slip({"unread"})
         /\ UNCHANGED remote
  <2>1. slips \subseteq slips' /\ "unread" \in slips'
    BY <1>4 DEF Orders!Slip
  <2> QED BY <1>1, <1>4, <2>1, OrderEnds
<1>5. CASE bid # 0 /\ Orders!AdoptInFlightTerminateOrder
         /\ UNCHANGED <<remote, slips, foHiccups>>
  <2>1. PICK t \in 1 .. Len(remote.orders) :
          /\ remote.orders[t] = [type |-> "terminate", res |-> bid, state |-> "executing",
              limit |-> 0]
          /\ source' = [source EXCEPT !.target = t]
    BY <1>2, <1>5 DEF Orders!AdoptInFlightTerminateOrder
  <2>2. Grown(remote') /\ alive' = alive
    <3>1. alive' = alive
      BY <1>5 DEF Orders!AdoptInFlightTerminateOrder
    <3> QED BY <1>2, <1>5, <3>1 DEF Grown, Orders!InRange, Orders!Consistent,
           Orders!InFlight, Orders!BusyWith
  <2>3. remote.orders[t].type = "terminate" /\ remote.orders[t].res = bid
    BY <2>1
  <2>4. source'.type = source.type /\ source'.state = source.state
           /\ source'.limit = source.limit
    BY <1>2, <2>1 DEF Sources
  <2>5. Orders!UpdatesKnown'
    <3>1. \A i \in 1 .. Len(remote'.orders) : i <= Len(remote.orders)
      BY <1>2, <1>5
    <3> QED BY <1>1, <1>5, <2>2, <2>4, <3>1, UpdatesStay
  <2> QED BY <1>1, <1>2, <1>5, <2>1, <2>2, <2>3, <2>5, TargetRecorded DEF Orders!SlipsKnown
<1>6. CASE bid # 0 /\ Orders!Accepts(bid) /\ Orders!SubmitAsyncTargetOrder("terminate")
         /\ UNCHANGED slips
  BY <1>1, <1>6, SubmitKeepsOrders
<1> QED BY <1>3, <1>4, <1>5, <1>6 DEF Orders!ProcessTerminateOrder

\* Every step of the federated orders keeps the invariant.
LEMMA OrdersStepsKeep == ASSUME Orders!OrdersInv, [Orders!OrdersNext]_(Orders!ovars)
                         PROVE  Orders!OrdersInv'
<1>1. ASSUME UNCHANGED <<source, bid, alive, remote, slips>> PROVE Orders!OrdersInv'
  <2>1. Orders!Accounted' /\ Orders!Consistent(remote') /\ Orders!TargetFits'
           /\ Orders!UpdatesKnown' /\ Orders!SlipsKnown'
    BY <1>1 DEF Orders!OrdersInv, Orders!Accounted, Orders!InRange, Orders!Consistent,
       Orders!InFlight, Orders!BusyWith, Orders!TargetFits, Orders!UpdatesKnown,
           Orders!SlipsKnown
  <2> QED BY <1>1, <2>1 DEF Orders!OrdersInv, Orders!NothingLeftBehind, Orders!DoneIsDone
<1>2. CASE \E i \in DOMAIN remote.orders : Orders!TargetRouter(i)
  BY <1>1, <1>2 DEF Orders!TargetRouter
<1>3. CASE UNCHANGED Orders!ovars
  BY <1>1, <1>3 DEF Orders!ovars
<1> QED BY <1>2, <1>3, IssueKeepsOrders, PollKeepsOrders, CreateKeepsOrders,
       UpdateKeepsOrders, TerminateKeepsOrders, FinishKeepsOrders,
           RemoteTerminateKeepsOrders DEF Orders!OrdersNext

-----------------------------------------------------------------------------
(* The allocations of a MUP project.                                         *)

\* A set of natural numbers has a least one.
LEMMA Least ==
    ASSUME NEW T, T \subseteq Nat, T # {}
    PROVE  Mup!Min(T) \in T
<1>1. PICK x \in T : \A y \in T : ~(<<y, x>> \in OpToRel(<, Nat))
  BY NatLessThanWellFounded, WFMin
<1>2. ASSUME NEW y \in T PROVE x =< y
  <2>1. x \in Nat /\ y \in Nat
    OBVIOUS
  <2>2. <<y, x>> \notin OpToRel(<, Nat)
    BY <1>1
  <2>3. ~(y < x)
    BY <2>1, <2>2 DEF OpToRel
  <2> QED BY <2>1, <2>3
<1>3. \E z \in T : \A y \in T : z =< y
  BY <1>2
<1> QED BY <1>3 DEF Mup!Min

\* No resource is there when the agent starts.
LEMMA MupBegins == Mup!MupParameters /\ Mup!MupInit => Mup!MupInv
<1> SUFFICES ASSUME Mup!MupParameters, Mup!MupInit PROVE Mup!MupInv
  OBVIOUS
<1>1. mup \in Mup!MupStates
  BY DEF Mup!MupInit, Mup!MupStates, Mup!MupParameters
<1>2. /\ wanted \in [MupGrants -> [Components -> Nat]]
      /\ orders \in [MupGrants -> {"none", "creating", "OK", "ERRED", "TERMINATED"}]
      /\ primary \in [MupGrants -> Components \cup {0}]
      /\ \A r \in MupGrants : orders[r] = "none"
  BY DEF Mup!MupInit
<1>3. mupTeam \subseteq MupPeople /\ approved \subseteq MupPeople
  BY DEF Mup!MupInit
<1> QED BY <1>1, <1>2, <1>3 DEF Mup!MupInv

\* Members are added to a state of MUP.
LEMMA AddsMembers ==
    ASSUME NEW m \in Mup!MupStates, NEW ps \in SUBSET MupPeople
    PROVE  Mup!AddProjectMember(m, ps) \in Mup!MupStates
              /\ Mup!AddProjectMember(m, ps).size = m.size
<1>1. /\ m.member \in [MupPeople -> {"none", "active", "inactive"}]
      /\ m.known \subseteq MupPeople
      /\ m.project \in {"none", "inactive", "active"}
      /\ m.size \in [MupGrants -> [Components -> Int]]
  BY DEF Mup!MupStates
<1> DEFINE mem == [p \in MupPeople |-> IF p \in ps /\ m.member[p] = "none"
       THEN "active" ELSE m.member[p]]
           kn == m.known \cup ps
<1>2. mem \in [MupPeople -> {"none", "active", "inactive"}] /\ kn \subseteq MupPeople
  BY <1>1
<1>3. Mup!AddProjectMember(m, ps) = [m EXCEPT !.member = mem, !.known = kn]
  BY DEF Mup!AddProjectMember
<1> HIDE DEF mem, kn
<1> QED BY <1>1, <1>2, <1>3 DEF Mup!MupStates

\* The project and its people are there; the allocations are as they were.
LEMMA PreCreates ==
    ASSUME Mup!MupParameters, Mup!MupInv, NEW a \in BOOLEAN, NEW f
    PROVE  Mup!PreCreateResource(a, f) \in Mup!MupStates
              /\ Mup!PreCreateResource(a, f).size = mup.size
<1> DEFINE m1 == IF mup.project # "none"
       THEN mup ELSE [Mup!GetOrCreateUser(mup, PI) EXCEPT !.project = "inactive"]
           m2 == IF a THEN [m1 EXCEPT !.project = "active"] ELSE m1
<1>1. mup \in Mup!MupStates
  BY DEF Mup!MupInv
<1>2. m1 \in Mup!MupStates /\ m1.size = mup.size
  BY <1>1 DEF Mup!MupStates, Mup!MupParameters, Mup!GetOrCreateUser
<1> HIDE DEF m1
<1>3. m2 \in Mup!MupStates /\ m2.size = mup.size
  BY <1>2 DEF Mup!MupStates
<1>4. Mup!PreCreateResource(a, f) = Mup!AddProjectMember(m2, (mupTeam \cap approved) \ f)
  BY DEF Mup!PreCreateResource, Mup!CreateAndAddUsersFromContext, m1
<1> HIDE DEF m2
<1>5. (mupTeam \cap approved) \ f \in SUBSET MupPeople
  BY DEF Mup!MupInv
<1> QED BY <1>3, <1>4, <1>5, AddsMembers

\* Waldur's own changes.
LEMMA EditKeepsMup == ASSUME Mup!MupParameters, Mup!MupInv, Mup!EditWaldur PROVE Mup!MupInv'
<1>1. mup' = mup /\ wanted' = wanted /\ primary' = primary
  BY DEF Mup!EditWaldur
<1>2. /\ orders' \in [MupGrants -> {"none", "creating", "OK", "ERRED", "TERMINATED"}]
      /\ \A r \in MupGrants : orders'[r] = "OK" => orders[r] = "OK"
  BY DEF Mup!EditWaldur, Mup!MupInv
<1>3. mupTeam' \subseteq MupPeople /\ approved' \subseteq MupPeople
  BY DEF Mup!EditWaldur, Mup!MupInv
<1> QED BY <1>1, <1>2, <1>3 DEF Mup!MupInv

\* The allocations of a resource are made.
LEMMA CreateKeepsMup ==
    ASSUME Mup!MupParameters, Mup!MupInv, NEW r \in MupGrants, Mup!CreateResource(r)
    PROVE  Mup!MupInv'
<1>1. PICK f \in Mup!Failing(MupPeople \cup {"activate"}), g \in Mup!Failing(Components) :
         Mup!PostCreateResource(Mup!PreCreateResource("activate" \notin f, f), r, g)
  BY DEF Mup!CreateResource
<1>2. g \subseteq Components
  BY DEF Mup!Failing
<1> DEFINE m == Mup!PreCreateResource("activate" \notin f, f)
<1>3. m \in Mup!MupStates /\ m.size = mup.size
  BY PreCreates
<1> HIDE DEF m
<1>4. /\ mup' = [m EXCEPT !.size[r] = [c \in Components |-> IF c \in g
            THEN -1 ELSE wanted[r][c]]]
      /\ orders' = [orders EXCEPT ![r] = IF g = Components THEN "ERRED" ELSE "OK"]
      /\ primary' = [primary EXCEPT ![r] = IF g = Components
            THEN 0 ELSE Mup!Min(Components \ g)]
  BY <1>1 DEF Mup!PostCreateResource, m
<1>5. wanted' = wanted /\ mupTeam' = mupTeam /\ approved' = approved
  BY DEF Mup!CreateResource, Mup!inWaldur
<1> DEFINE made == [c \in Components |-> IF c \in g THEN -1 ELSE wanted[r][c]]
<1>6. made \in [Components -> Int]
  BY DEF Mup!MupInv
<1>7. m.size \in [MupGrants -> [Components -> Int]]
  BY <1>3 DEF Mup!MupStates
<1>8. mup' \in Mup!MupStates /\ mup'.size = [m.size EXCEPT ![r] = made]
  <2>1. mup' = [m EXCEPT !.size = [m.size EXCEPT ![r] = made]]
    BY <1>4
  <2> DEFINE sz == [m.size EXCEPT ![r] = made]
  <2>2. sz \in [MupGrants -> [Components -> Int]]
    BY <1>6, <1>7
  <2> HIDE DEF sz
  <2>3. mup' = [m EXCEPT !.size = sz]
    BY <2>1 DEF sz
  <2>4. mup' \in Mup!MupStates /\ mup'.size = sz
    BY <1>3, <2>2, <2>3 DEF Mup!MupStates
  <2> QED BY <2>4 DEF sz
<1>9. g # Components => Mup!Min(Components \ g) \in Components \ g
  BY <1>2, Least DEF Mup!MupParameters
<1>10. /\ orders' \in [MupGrants -> {"none", "creating", "OK", "ERRED", "TERMINATED"}]
       /\ primary' \in [MupGrants -> Components \cup {0}]
  BY <1>4, <1>9 DEF Mup!MupInv
<1>11. ASSUME NEW q \in MupGrants, orders'[q] = "OK"
       PROVE  primary'[q] \in Components
                 /\ mup'.size[q][primary'[q]] = wanted'[q][primary'[q]]
  <2>1. CASE q = r
    <3>1. g # Components /\ primary'[r] = Mup!Min(Components \ g)
      BY <1>4, <1>11, <2>1 DEF Mup!MupInv
    <3>2. primary'[r] \in Components \ g
      BY <1>9, <3>1
    <3>3. mup'.size[r] = made
      BY <1>7, <1>8
    <3>4. made[primary'[r]] = wanted[r][primary'[r]]
      BY <3>2
    <3> QED BY <1>5, <2>1, <3>2, <3>3, <3>4
  <2>2. CASE q # r
    <3>1. orders[q] = "OK" /\ primary'[q] = primary[q] /\ mup'.size[q] = mup.size[q]
      BY <1>3, <1>4, <1>7, <1>8, <1>11, <2>2 DEF Mup!MupInv
    <3> QED BY <1>5, <3>1 DEF Mup!MupInv
  <2> QED BY <2>1, <2>2
<1> QED BY <1>5, <1>8, <1>10, <1>11 DEF Mup!MupInv

\* A creation that fails ends the order.
LEMMA CreateFailsKeepsMup ==
    ASSUME Mup!MupParameters, Mup!MupInv, NEW r \in MupGrants, Mup!CreateResourceFails(r)
    PROVE  Mup!MupInv'
<1>1. /\ wanted' = wanted /\ primary' = primary /\ mupTeam' = mupTeam /\ approved' = approved
      /\ orders' = [orders EXCEPT ![r] = "ERRED"]
  BY DEF Mup!CreateResourceFails, Mup!inWaldur
<1>2. mup' \in Mup!MupStates /\ mup'.size = mup.size
  BY DEF Mup!CreateResourceFails, Mup!GetOrCreateUser, Mup!MupInv, Mup!MupStates,
     Mup!MupParameters
<1>3. /\ orders' \in [MupGrants -> {"none", "creating", "OK", "ERRED", "TERMINATED"}]
      /\ \A q \in MupGrants : orders'[q] = "OK" => orders[q] = "OK"
  BY <1>1 DEF Mup!MupInv
<1> QED BY <1>1, <1>2, <1>3 DEF Mup!MupInv

\* An update resizes the allocation that names the resource.
LEMMA LimitsKeepMup ==
    ASSUME Mup!MupParameters, Mup!MupInv, NEW r \in MupGrants, Mup!SetResourceLimits(r)
    PROVE  Mup!MupInv'
<1>1. /\ orders[r] = "OK" /\ orders' = orders /\ primary' = primary
      /\ mupTeam' = mupTeam /\ approved' = approved
  BY DEF Mup!SetResourceLimits
<1>2. /\ primary[r] \in Components /\ mup \in Mup!MupStates
      /\ mup.size \in [MupGrants -> [Components -> Int]]
      /\ mup.size[r] \in [Components -> Int]
  BY <1>1 DEF Mup!MupInv, Mup!MupStates
<1>3. CASE \E w \in [Components -> 1 .. 2] :
               /\ wanted' = [wanted EXCEPT ![r] = w]
               /\ mup' = [mup EXCEPT !.size[r][primary[r]] = w[primary[r]]]
  <2>1. PICK w \in [Components -> 1 .. 2] :
               /\ wanted' = [wanted EXCEPT ![r] = w]
               /\ mup' = [mup EXCEPT !.size[r][primary[r]] = w[primary[r]]]
    BY <1>3
  <2> DEFINE row == [mup.size[r] EXCEPT ![primary[r]] = w[primary[r]]]
             sz == [mup.size EXCEPT ![r] = row]
  <2>2. row \in [Components -> Int] /\ row[primary[r]] = w[primary[r]]
    BY <1>2
  <2>3. mup' = [mup EXCEPT !.size = sz]
    BY <2>1
  <2> HIDE DEF row
  <2>4. sz \in [MupGrants -> [Components -> Int]] /\ sz[r] = row
           /\ \A q \in MupGrants \ {r} : sz[q] = mup.size[q]
    BY <1>2, <2>2
  <2> HIDE DEF sz
  <2>5. mup' \in Mup!MupStates /\ mup'.size = sz
    BY <1>2, <2>3, <2>4 DEF Mup!MupStates
  <2>6. /\ wanted' \in [MupGrants -> [Components -> Nat]] /\ wanted'[r] = w
        /\ \A q \in MupGrants \ {r} : wanted'[q] = wanted[q]
    BY <2>1 DEF Mup!MupInv
  <2>7. ASSUME NEW q \in MupGrants, orders'[q] = "OK"
        PROVE  primary'[q] \in Components
                  /\ mup'.size[q][primary'[q]] = wanted'[q][primary'[q]]
    <3>1. CASE q = r
      BY <1>1, <1>2, <2>2, <2>4, <2>5, <2>6, <3>1
    <3>2. CASE q # r
      BY <1>1, <2>4, <2>5, <2>6, <2>7, <3>2 DEF Mup!MupInv
    <3> QED BY <3>1, <3>2
  <2> QED BY <1>1, <2>5, <2>6, <2>7 DEF Mup!MupInv
<1>4. CASE mup' = mup /\ wanted' = wanted
  BY <1>1, <1>4 DEF Mup!MupInv
<1> QED BY <1>3, <1>4 DEF Mup!SetResourceLimits

\* A resource is terminated: MUP is left alone.
LEMMA DeleteKeepsMup ==
    ASSUME Mup!MupParameters, Mup!MupInv, NEW r \in MupGrants, Mup!DeleteResource(r)
    PROVE  Mup!MupInv'
<1>1. /\ mup' = mup /\ wanted' = wanted /\ primary' = primary /\ mupTeam' = mupTeam
      /\ approved' = approved /\ orders' = [orders EXCEPT ![r] = "TERMINATED"]
  BY DEF Mup!DeleteResource
<1>2. /\ orders' \in [MupGrants -> {"none", "creating", "OK", "ERRED", "TERMINATED"}]
      /\ \A q \in MupGrants : orders'[q] = "OK" => orders[q] = "OK"
  BY <1>1 DEF Mup!MupInv
<1> QED BY <1>1, <1>2 DEF Mup!MupInv

\* A membership pass: no allocation changes.
LEMMA SyncKeepsMup ==
    ASSUME Mup!MupParameters, Mup!MupInv, NEW r \in MupGrants, Mup!SyncMembers(r)
    PROVE  Mup!MupInv'
<1>1. /\ orders' = orders /\ wanted' = wanted /\ primary' = primary /\ mupTeam' = mupTeam
      /\ approved' = approved
  BY DEF Mup!SyncMembers, Mup!inWaldur
<1>2. \E new \in SUBSET MupPeople : \E stale, f :
         mup' = Mup!RemoveUsersFromResource(Mup!AddUsersToResource(mup, new, f), stale, f)
  <2>1. mupTeam \ (Mup!PullBackendResource \ foreign) \in SUBSET MupPeople
    BY DEF Mup!MupInv
  <2> QED BY <2>1 DEF Mup!SyncMembers
<1>a. PICK new \in SUBSET MupPeople : \E stale, f :
         mup' = Mup!RemoveUsersFromResource(Mup!AddUsersToResource(mup, new, f), stale, f)
  BY <1>2
<1>3. PICK stale, f :
         mup' = Mup!RemoveUsersFromResource(Mup!AddUsersToResource(mup, new, f), stale, f)
  BY <1>a
<1> DEFINE m == Mup!AddUsersToResource(mup, new, f)
<1>4. m \in Mup!MupStates /\ m.size = mup.size
  <2> DEFINE ps == {p \in new : p \in mup.known \/ p \in approved} \ f
  <2>1. ps \in SUBSET MupPeople
    OBVIOUS
  <2>2. m = Mup!AddProjectMember(mup, ps)
    BY DEF Mup!AddUsersToResource
  <2> HIDE DEF m, ps
  <2>3. mup \in Mup!MupStates
    BY DEF Mup!MupInv
  <2> QED BY <2>1, <2>2, <2>3, AddsMembers
<1> HIDE DEF m
<1> DEFINE mem == [p \in MupPeople |-> IF p \in stale \ f /\ m.member[p] # "none"
                                     THEN "inactive" ELSE m.member[p]]
<1>5. mem \in [MupPeople -> {"none", "active", "inactive"}]
  BY <1>4 DEF Mup!MupStates
<1>6. mup' = [m EXCEPT !.member = mem]
  BY <1>3 DEF Mup!RemoveUsersFromResource, m
<1> HIDE DEF mem
<1>7. mup' \in Mup!MupStates /\ mup'.size = mup.size
  BY <1>4, <1>5, <1>6 DEF Mup!MupStates
<1> QED BY <1>1, <1>7 DEF Mup!MupInv

\* Every step of the MUP part keeps the invariant.
LEMMA MupStepsKeep == ASSUME Mup!MupParameters, Mup!MupInv, [Mup!MupNext]_(Mup!pvars)
                      PROVE  Mup!MupInv'
<1>1. CASE Mup!MupNext
  BY <1>1, EditKeepsMup, CreateKeepsMup, CreateFailsKeepsMup, LimitsKeepMup, DeleteKeepsMup,
     SyncKeepsMup
     DEF Mup!MupNext
<1>2. CASE UNCHANGED Mup!pvars
  BY <1>2 DEF Mup!pvars, Mup!MupInv
<1> QED BY <1>1, <1>2

\* What the invariant says of the resources that are OK.
LEMMA MupFollows == Mup!MupParameters /\ Mup!MupInv => Mup!PrimaryFollows
BY DEF Mup!MupParameters, Mup!MupInv, Mup!PrimaryFollows

-----------------------------------------------------------------------------
(* The networks of OpenNebula.                                               *)

\* The stages of a deletion, one by one.
LEMMA OneThreeTwo ==
    ASSUME NEW a, NEW b, NEW c, NEW d, NEW e, NEW f
    PROVE  LET s == <<a>> \o <<b, c, d>> \o <<e, f>>
           IN s[1] = a /\ s[2] = b /\ s[3] = c /\ s[4] = d /\ s[5] = e /\ s[6] = f
OBVIOUS

\* The fields of what OpenNebula holds.
LEMMA HoldingsFields ==
    ASSUME NEW c \in One!Holdings
    PROVE  /\ c.group \subseteq VDCs /\ c.vdc \subseteq VDCs /\ c.router \subseteq VDCs
           /\ c.sg \subseteq VDCs /\ c.kc \subseteq VDCs /\ c.saml \subseteq VDCs
           /\ c.member \subseteq VDCs
           /\ c.vnet \in [VDCs -> Nat]
           /\ c.quota \in [VDCs -> Int] /\ c.pool \subseteq Nat \ {0}
BY DEF One!Holdings

\* d has the network of c, but for one VDC.
Beside(c, d, v) ==
    \A w \in VDCs : w # v =>
       /\ d.vnet[w] = c.vnet[w]
       /\ w \in d.router <=> w \in c.router
       /\ w \in d.sg <=> w \in c.sg
       /\ w \in d.vdc <=> w \in c.vdc

\* What a step on one VDC may do with its network.
LEMMA OneVdcAtATime ==
    ASSUME One!OneInv, NEW v \in VDCs, NEW c \in One!Holdings, one' = c, Beside(one, c, v),
           NEW o \in One!Lives, vdcOrder' = [vdcOrder EXCEPT ![v] = o],
           making' \in [VDCs -> One!Makings], named' \subseteq VDCs,
               finished' \subseteq named',
           \A w \in VDCs : w # v =>
              /\ w \in finished' <=> w \in finished
              /\ w \in loose' <=> w \in loose
              /\ making'[w].at = making[w].at /\ making'[w].given = making[w].given
              /\ making'[w].subnet = making[w].subnet
              /\ (making[w].stale => making'[w].stale),
           \/ c.vnet[v] = 0
           \/ c.vnet[v] = one.vnet[v] /\ (v \in loose => v \in loose')
           \/ v \in loose'
           \/ \A w \in VDCs : w # v => c.vnet[w] # c.vnet[v],
           \/ c.vnet[v] \in {0, one.vnet[v]}
           \/ \A w \in VDCs : w # v /\ making'[w].at = "net" => making'[w].stale,
           making'[v].at = "net" /\ ~making'[v].given /\ ~making'[v].stale =>
              making'[v].subnet # 0 /\ \A w \in VDCs : c.vnet[w] # making'[v].subnet,
           v \in finished' =>
              /\ o \in {"OK", "terminating", "TERMINATED"}
              /\ (o = "TERMINATED" => v \notin c.vdc)
              /\ v \notin c.vdc => c.vnet[v] = 0 /\ v \notin c.router \cup c.sg,
           making'[v].at = "net" => o = "creating" /\ v \in c.vdc
    PROVE  One!OneInv'
<1>1. vdcOrder \in [VDCs -> One!Lives] /\ vdcOrder' \in [VDCs -> One!Lives]
         /\ finished \subseteq VDCs
  BY DEF One!OneInv
<1>2. \A w \in VDCs : vdcOrder'[w] = IF w = v THEN o ELSE vdcOrder[w]
  BY <1>1
<1>3. One!SubnetsDisjoint'
  <2> SUFFICES ASSUME NEW u \in VDCs,
                      NEW w \in VDCs, u # w, c.vnet[u] # 0, c.vnet[u] = c.vnet[w]
               PROVE  u \in loose' \/ w \in loose'
    BY DEF One!SubnetsDisjoint
  <2>1. CASE u # v /\ w # v
    BY <2>1 DEF One!OneInv, One!SubnetsDisjoint, Beside
  <2>2. ASSUME NEW x \in VDCs, x # v, c.vnet[v] # 0, c.vnet[v] = c.vnet[x]
        PROVE  v \in loose' \/ x \in loose'
    BY <2>2 DEF One!OneInv, One!SubnetsDisjoint, Beside
  <2> QED BY <2>1, <2>2
<1>4. One!ChosenIsFree'
  <2> SUFFICES ASSUME NEW u \in VDCs, making'[u].at = "net", ~making'[u].given,
                      ~making'[u].stale
               PROVE  making'[u].subnet # 0 /\ \A w \in VDCs : c.vnet[w] # making'[u].subnet
    BY DEF One!ChosenIsFree
  <2>1. CASE u = v
    BY <2>1
  <2>2. CASE u # v
    <3>1. making[u].subnet # 0 /\ \A w \in VDCs : one.vnet[w] # making[u].subnet
      BY <2>2 DEF One!OneInv, One!ChosenIsFree
    <3> QED BY <2>2, <3>1 DEF Beside
  <2> QED BY <2>1, <2>2
<1>5. ASSUME NEW w \in finished' PROVE
        /\ w \notin c.vdc => One!Unnetworked(w)'
        /\ vdcOrder'[w] \in {"OK", "terminating", "TERMINATED"}
        /\ vdcOrder'[w] = "TERMINATED" => w \notin c.vdc
  <2>0. w \in VDCs
    OBVIOUS
  <2>1. CASE w = v
    BY <1>2, <1>5, <2>1 DEF One!Unnetworked
  <2>2. CASE w # v
    BY <1>2, <1>5, <2>0, <2>2 DEF One!OneInv, One!Unnetworked, Beside
  <2> QED BY <2>1, <2>2
<1>6. ASSUME NEW w \in VDCs, making'[w].at = "net"
      PROVE  vdcOrder'[w] = "creating" /\ w \in c.vdc
  BY <1>2, <1>6 DEF One!OneInv, Beside
<1> QED BY <1>1, <1>3, <1>4, <1>5, <1>6 DEF One!OneInv

\* A step that leaves the networks and the creations alone, but for the life of one VDC.
LEMMA LifeChanges ==
    ASSUME One!OneInv, NEW v \in VDCs, UNCHANGED <<one, making, loose>>, NEW o \in One!Lives,
           vdcOrder' = [vdcOrder EXCEPT ![v] = o], named' = named, making[v].at # "net",
           finished' \in {finished, finished \ {v}},
           v \in finished'
              => o \in {"OK", "terminating", "TERMINATED"}
                 /\ (o = "TERMINATED" => v \notin one.vdc)
    PROVE  One!OneInv'
<1>1. /\ one \in One!Holdings /\ making \in [VDCs -> One!Makings] /\ named \subseteq VDCs
      /\ finished \subseteq named
      /\ \A w \in finished : w \notin one.vdc
            => one.vnet[w] = 0 /\ w \notin one.router \cup one.sg
  BY DEF One!OneInv, One!Unnetworked
<1>2. Beside(one, one, v)
  BY DEF Beside
<1>3. named' \subseteq VDCs /\ finished' \subseteq named' /\ \A w \in VDCs : w # v
         => (w \in finished' <=> w \in finished)
  BY <1>1
<1>4. one.vnet[v] \in {0, one.vnet[v]} /\ (v \in finished' => v \in finished)
  OBVIOUS
<1> QED BY <1>1, <1>2, <1>3, <1>4, OneVdcAtATime

\* Other steps.
LEMMA NetworksAlone ==
    ASSUME One!OneInv, NEW c \in One!Holdings, one' = c, UNCHANGED <<vdcOrder, One!created>>,
           c.vnet = one.vnet, c.router = one.router, c.sg = one.sg, c.vdc = one.vdc
    PROVE  One!OneInv'
BY DEF One!OneInv, One!SubnetsDisjoint, One!ChosenIsFree, One!Unnetworked, One!created

\* What a rollback could not delete stays; nothing is new (_rollback_create).
LEMMA RolledBack ==
    ASSUME NEW c0, NEW c \in One!Holdings, NEW v \in VDCs, Beside(c0, c, v), NEW stays,
           NEW d, d = One!Rollback(c, v, stays)
    PROVE  d \in One!Holdings /\ Beside(c0, d, v) /\ d.vnet[v] \in {0, c.vnet[v]}
<1> DEFINE x == IF "vnet" \in stays THEN c.vnet[v] ELSE 0
           n == [c.vnet EXCEPT ![v] = x]
           a == IF "sg" \in stays THEN c.sg ELSE c.sg \ {v}
           b == IF "router" \in stays THEN c.router ELSE c.router \ {v}
           e == IF "vdc" \in stays THEN c.vdc ELSE c.vdc \ {v}
           g == IF {"vdc", "group"} \cap stays # {} THEN c.group ELSE c.group \ {v}
<1>1. x \in {0, c.vnet[v]} /\ x \in Nat /\ c.vnet \in [VDCs -> Nat]
  BY HoldingsFields
<1>2. d = [c EXCEPT !.sg = a, !.router = b, !.vnet = n, !.vdc = e, !.group = g]
  BY DEF One!Rollback
<1>3. /\ a \subseteq VDCs /\ b \subseteq VDCs /\ e \subseteq VDCs /\ g \subseteq VDCs
      /\ \A w \in VDCs : w # v
            => (w \in a <=> w \in c.sg) /\ (w \in b <=> w \in c.router)
               /\ (w \in e <=> w \in c.vdc)
  BY HoldingsFields
<1> HIDE DEF x, a, b, e, g
<1>4. n \in [VDCs -> Nat] /\ n[v] = x /\ \A w \in VDCs : w # v => n[w] = c.vnet[w]
  BY <1>1
<1> HIDE DEF n
<1>5. d \in One!Holdings
  <2> DEFINE d1 == [c EXCEPT !.sg = a, !.router = b, !.vnet = n]
  <2>1. d1 \in One!Holdings
    BY <1>3, <1>4 DEF One!Holdings
  <2>2. d = [d1 EXCEPT !.vdc = e, !.group = g]
    BY <1>2
  <2> HIDE DEF d1
  <2> QED BY <1>3, <2>1, <2>2 DEF One!Holdings
<1>6. d.sg = a /\ d.router = b /\ d.vnet = n /\ d.vdc = e
  BY <1>2 DEF One!Holdings
<1> QED BY <1>1, <1>3, <1>4, <1>5, <1>6 DEF Beside

\* A creation that fails keeps a network at most that was there.
LEMMA CreationFailed ==
    ASSUME NEW c0, NEW c \in One!Holdings,
           NEW v \in VDCs, Beside(c0, c, v), One!CreationFails(c, v)
    PROVE  /\ one' \in One!Holdings /\ Beside(c0, one', v) /\ one'.vnet[v] \in {0, c.vnet[v]}
           /\ vdcOrder' = [vdcOrder EXCEPT ![v] = "ERRED"]
<1>1. PICK stays \in {{}, IF v \in c.router
         THEN {"vnet"} ELSE {}} \cup SUBSET {"sg", "router", "vnet", "vdc", "group"} :
         one' = One!Rollback(c, v, stays)
  BY DEF One!CreationFails
<1>2. vdcOrder' = [vdcOrder EXCEPT ![v] = "ERRED"]
  BY DEF One!CreationFails
<1> QED BY <1>1, <1>2, RolledBack

\* The group and the VDC are no networks.
LEMMA VdcStarted ==
    ASSUME NEW c0 \in One!Holdings, NEW v \in VDCs
    PROVE  LET c1 == [c0 EXCEPT !.group = @ \cup {v}]
               c2 == [c1 EXCEPT !.vdc = @ \cup {v}]
           IN  /\ c1 \in One!Holdings /\ Beside(c0, c1, v) /\ c1.vnet = c0.vnet
               /\ c2 \in One!Holdings /\ Beside(c0, c2, v) /\ c2.vnet = c0.vnet
               /\ v \in c2.vdc
<1> DEFINE c1 == [c0 EXCEPT !.group = @ \cup {v}]
           c2 == [c1 EXCEPT !.vdc = @ \cup {v}]
<1>1. c1 \in One!Holdings /\ Beside(c0, c1, v) /\ c1.vnet = c0.vnet
  BY DEF One!Holdings, Beside
<1>2. c2 \in One!Holdings /\ Beside(c0, c2, v) /\ c2.vnet = c0.vnet /\ v \in c2.vdc
  <2> HIDE DEF c1
  <2> QED BY <1>1 DEF One!Holdings, Beside
<1> QED BY <1>1, <1>2

\* A creation starts: it chooses a subnet nobody has, or the user did, or it fails.
LEMMA StartKeeps ==
    ASSUME One!OneInv, NEW v \in VDCs, One!StartVdc(v) PROVE One!OneInv'
<1> DEFINE c1 == [one EXCEPT !.group = @ \cup {v}]
           c2 == [c1 EXCEPT !.vdc = @ \cup {v}]
<1>1. /\ one \in One!Holdings /\ vdcOrder \in [VDCs -> One!Lives]
      /\ making \in [VDCs -> One!Makings]
      /\ named \subseteq VDCs /\ finished \subseteq named /\ one.pool \subseteq Nat \ {0}
  BY HoldingsFields DEF One!OneInv
<1>2. /\ vdcOrder[v] = "creating" /\ making[v] = One!NotMaking /\ named' = named
      /\ finished' = finished /\ loose' = loose
  BY DEF One!StartVdc
<1>3. v \notin finished /\ making[v].at # "net"
  BY <1>2 DEF One!OneInv, One!NotMaking
<1>4. /\ c1 \in One!Holdings /\ Beside(one, c1, v) /\ c1.vnet = one.vnet
      /\ c2 \in One!Holdings /\ Beside(one, c2, v) /\ c2.vnet = one.vnet /\ v \in c2.vdc
  BY <1>1, VdcStarted
<1>5. \/ \E s \in one.pool, given \in BOOLEAN :
            /\ One!ChooseSubnet(s, given) /\ one' = c2
            /\ making' = [making EXCEPT ![v] = [at |-> "net", subnet |-> s, given |-> given,
                stale |-> FALSE]]
            /\ UNCHANGED <<vdcOrder, oneFaults>>
      \/ \E c \in {one, c1, c2} : One!CreationFails(c, v) /\ UNCHANGED making
      \/ /\ vdcOrder' = [vdcOrder EXCEPT ![v] = "ERRED"] /\ one' = One!Rollback(c2, v, {})
         /\ UNCHANGED <<making, oneFaults>>
  BY DEF One!StartVdc
<1> HIDE DEF c1, c2
<1>6. Beside(one, one, v)
  BY DEF Beside
<1>7. ASSUME NEW s \in one.pool, NEW given \in BOOLEAN, One!ChooseSubnet(s, given), one' = c2,
             making' = [making EXCEPT ![v] = [at |-> "net", subnet |-> s, given |-> given,
                 stale |-> FALSE]],
             UNCHANGED vdcOrder
      PROVE  One!OneInv'
  <2> DEFINE w == [at |-> "net", subnet |-> s, given |-> given, stale |-> FALSE]
  <2>1. w \in One!Makings /\ w.at = "net" /\ w.subnet = s /\ w.given = given /\ s # 0
    BY <1>1 DEF One!Makings
  <2>2. ~given => \A u \in VDCs : c2.vnet[u] # s
    BY <1>4, <1>7 DEF One!ChooseSubnet, One!AllocateNextSubnet
  <2>3. making' = [making EXCEPT ![v] = w]
    BY <1>7
  <2> HIDE DEF w
  <2>4. making' \in [VDCs -> One!Makings] /\ making'[v] = w /\ \A u \in VDCs : u # v
           => making'[u] = making[u]
    BY <1>1, <2>1, <2>3
  <2>5. vdcOrder' = [vdcOrder EXCEPT ![v] = "creating"] /\ "creating" \in One!Lives
    BY <1>1, <1>2, <1>7 DEF One!Lives
  <2>6. c2.vnet[v] = one.vnet[v] /\ c2.vnet[v] \in {0, one.vnet[v]}
           /\ (v \in loose => v \in loose')
    BY <1>2, <1>4
  <2>7. \A u \in VDCs : u # v =>
           /\ u \in finished' <=> u \in finished
           /\ u \in loose' <=> u \in loose
           /\ making'[u].at = making[u].at /\ making'[u].given = making[u].given
           /\ making'[u].subnet = making[u].subnet /\ (making[u].stale => making'[u].stale)
    BY <1>2, <2>4
  <2>8. making'[v].at = "net" /\ ~making'[v].given /\ ~making'[v].stale =>
          making'[v].subnet # 0 /\ \A u \in VDCs : c2.vnet[u] # making'[v].subnet
    BY <2>1, <2>2, <2>4
  <2>9. named' \subseteq VDCs /\ finished' \subseteq named' /\ v \notin finished'
    BY <1>1, <1>2, <1>3
  <2>10. one' = c2 /\ c2 \in One!Holdings /\ Beside(one, c2, v) /\ v \in c2.vdc
            /\ making' \in [VDCs -> One!Makings]
    BY <1>4, <1>7, <2>4
  <2> QED BY <2>5, <2>6, <2>7, <2>8, <2>9, <2>10, OneVdcAtATime
<1>8. ASSUME NEW d \in One!Holdings, one' = d, Beside(one, d, v), d.vnet[v] \in {0,
             one.vnet[v]},
             vdcOrder' = [vdcOrder EXCEPT ![v] = "ERRED"], UNCHANGED making
      PROVE  One!OneInv'
  <2>1. "ERRED" \in One!Lives
    BY DEF One!Lives
  <2> QED BY <1>1, <1>2, <1>3, <1>8, <2>1, OneVdcAtATime
<1>9. ASSUME NEW c \in {one, c1, c2}, One!CreationFails(c, v), UNCHANGED making
      PROVE  One!OneInv'
  <2>1. c \in One!Holdings /\ Beside(one, c, v) /\ c.vnet = one.vnet
    BY <1>1, <1>4, <1>6
  <2>2. /\ one' \in One!Holdings /\ Beside(one, one', v) /\ one'.vnet[v] \in {0, c.vnet[v]}
        /\ vdcOrder' = [vdcOrder EXCEPT ![v] = "ERRED"]
    BY <1>9, <2>1, CreationFailed
  <2> QED BY <1>8, <1>9, <2>1, <2>2
<1>10. ASSUME vdcOrder' = [vdcOrder EXCEPT ![v] = "ERRED"], one' = One!Rollback(c2, v, {}),
              UNCHANGED making
       PROVE  One!OneInv'
  <2>1. one' \in One!Holdings /\ Beside(one, one', v) /\ one'.vnet[v] \in {0, c2.vnet[v]}
    BY <1>4, <1>10, RolledBack
  <2> QED BY <1>4, <1>8, <1>10, <2>1
<1> QED BY <1>5, <1>7, <1>9, <1>10

\* The stages of the networking of a new VDC.
LEMMA NetworkStages ==
    ASSUME NEW c0 \in One!Holdings, NEW v \in VDCs, NEW s \in Nat, NEW k \in 1 .. 3, NEW c,
           c = One!SetupNetworking(c0, v, s)[k]
    PROVE  /\ c \in One!Holdings /\ Beside(c0, c, v) /\ c.vdc = c0.vdc
           /\ c.vnet[v] = IF c0.vnet[v] = 0 THEN s ELSE c0.vnet[v]
<1> DEFINE x == IF c0.vnet[v] = 0 THEN s ELSE c0.vnet[v]
           n == [c0.vnet EXCEPT ![v] = x]
           c1 == [c0 EXCEPT !.vnet = n]
           c2 == [c1 EXCEPT !.router = @ \cup {v}]
           c3 == [c2 EXCEPT !.sg = @ \cup {v}]
<1>1. c0.vnet \in [VDCs -> Nat] /\ x \in Nat
  BY HoldingsFields
<1>2. One!SetupNetworking(c0, v, s) = <<c1, c2, c3>>
  <2>1. One!CreateVxlanNetwork(c0, v, s) = c1
    BY <1>1 DEF One!CreateVxlanNetwork
  <2> QED BY <2>1 DEF One!SetupNetworking
<1> HIDE DEF x
<1>3. n \in [VDCs -> Nat] /\ n[v] = x /\ \A w \in VDCs : w # v => n[w] = c0.vnet[w]
  BY <1>1
<1> HIDE DEF n
<1>4. c1 \in One!Holdings /\ Beside(c0, c1, v) /\ c1.vnet = n /\ c1.vdc = c0.vdc
  BY <1>3 DEF One!Holdings, Beside
<1> HIDE DEF c1
<1>5. c2 \in One!Holdings /\ Beside(c0, c2, v) /\ c2.vnet = n /\ c2.vdc = c0.vdc
  BY <1>4 DEF One!Holdings, Beside
<1> HIDE DEF c2
<1>6. c3 \in One!Holdings /\ Beside(c0, c3, v) /\ c3.vnet = n /\ c3.vdc = c0.vdc
  BY <1>5 DEF One!Holdings, Beside
<1> HIDE DEF c3
<1>7. c \in {c1, c2, c3}
  BY <1>2
<1> QED BY <1>3, <1>4, <1>5, <1>6, <1>7 DEF x

\* The SAML groups are no networks.
LEMMA WithKeycloak ==
    ASSUME NEW c \in One!Holdings, NEW v \in VDCs, NEW d \in One!KeycloakSetup(c, v)
    PROVE  LET e == [d EXCEPT !.quota[v] = 1]
           IN  /\ e \in One!Holdings /\ e.vnet = c.vnet
               /\ e.router = c.router /\ e.sg = c.sg /\ e.vdc = c.vdc
<1>1. /\ d \in One!Holdings /\ d.vnet = c.vnet /\ d.router = c.router /\ d.sg = c.sg
      /\ d.vdc = c.vdc
  <2>1. CASE d = c
    BY <2>1
  <2>2. CASE d = [c EXCEPT !.kc = @ \cup {v}]
    BY <2>2 DEF One!Holdings
  <2>3. CASE d = [c EXCEPT !.kc = @ \cup {v}, !.saml = @ \cup {v}]
    BY <2>3 DEF One!Holdings
  <2> QED BY <2>1, <2>2, <2>3 DEF One!KeycloakSetup
<1> QED BY <1>1 DEF One!Holdings

\* What a creation makes of OpenNebula, and of the VDC in Waldur: its network is the one
\* that was there, or has the subnet it chose.
LEMMA CreationOutcome ==
    ASSUME One!OneInv, NEW v \in VDCs, One!CreateVdcResource(v)
    PROVE  \E o \in {"OK", "ERRED"} :
             /\ vdcOrder' = [vdcOrder EXCEPT ![v] = o]
             /\ one' \in One!Holdings /\ Beside(one, one', v)
             /\ one'.vnet[v] \in {0, one.vnet[v], making[v].subnet}
             /\ \/ o = "OK" /\ v \in one'.vdc /\ named' = named \cup {v}
                   /\ finished' = finished \cup {v}
                \/ o = "ERRED" /\ named' = named /\ finished' = finished
<1> DEFINE s == making[v].subnet
           stages == One!SetupNetworking(one, v, s)
           reused == one.vnet[v] \notin {0, s}
<1>1. /\ one \in One!Holdings /\ making[v] \in One!Makings /\ s \in Nat
      /\ making[v].at = "net"
  BY DEF One!OneInv, One!Makings, One!CreateVdcResource
<1>2. v \in one.vdc /\ Beside(one, one, v)
  BY <1>1 DEF One!OneInv, Beside
<1>3. ASSUME NEW k \in 1 .. 3
      PROVE  /\ stages[k] \in One!Holdings /\ Beside(one, stages[k], v)
             /\ stages[k].vdc = one.vdc
             /\ stages[k].vnet[v] \in {one.vnet[v], s}
  BY <1>1, NetworkStages
<1>4. \/ /\ \E c \in One!KeycloakSetup(stages[3], v) : one' = [c EXCEPT !.quota[v] = 1]
         /\ vdcOrder' = [vdcOrder EXCEPT ![v] = "OK"]
         /\ named' = named \cup {v} /\ finished' = finished \cup {v}
      \/ /\ UNCHANGED <<named, finished>>
         /\ vdcOrder' = [vdcOrder EXCEPT ![v] = "ERRED"]
         /\ one' = [stages[3] EXCEPT !.kc = @ \cup {v}, !.saml = @ \cup {v}]
      \/ /\ UNCHANGED <<named, finished>>
         /\ \/ One!CreationFails(one, v)
            \/ \E k \in 1 .. 3 : One!CreationFails(stages[k], v)
      \/ /\ UNCHANGED <<named, finished>>
         /\ vdcOrder' = [vdcOrder EXCEPT ![v] = "ERRED"]
         /\ one' = One!Rollback(stages[2], v, {})
  <2>1. (1 .. IF reused THEN 1 ELSE 3) \subseteq 1 .. 3
    OBVIOUS
  <2> QED BY <2>1 DEF One!CreateVdcResource
<1> HIDE DEF stages, reused
<1>5. CASE /\ \E c \in One!KeycloakSetup(stages[3], v) : one' = [c EXCEPT !.quota[v] = 1]
           /\ vdcOrder' = [vdcOrder EXCEPT ![v] = "OK"]
           /\ named' = named \cup {v} /\ finished' = finished \cup {v}
  <2> DEFINE c3 == stages[3]
  <2>1. c3 \in One!Holdings /\ Beside(one, c3, v) /\ c3.vdc = one.vdc
           /\ c3.vnet[v] \in {one.vnet[v], s}
    BY <1>3
  <2>2. PICK c \in One!KeycloakSetup(c3, v) : one' = [c EXCEPT !.quota[v] = 1]
    BY <1>5
  <2> HIDE DEF c3
  <2> DEFINE e == [c EXCEPT !.quota[v] = 1]
  <2>3. e \in One!Holdings /\ e.vnet = c3.vnet /\ e.router = c3.router /\ e.sg = c3.sg
           /\ e.vdc = c3.vdc
    BY <2>1, WithKeycloak
  <2>4. one' = e
    BY <2>2
  <2> HIDE DEF e
  <2>5. Beside(one, e, v)
    BY <2>1, <2>3 DEF Beside
  <2> QED BY <1>2, <1>5, <2>1, <2>3, <2>4, <2>5
<1>6. CASE /\ UNCHANGED <<named, finished>>
           /\ vdcOrder' = [vdcOrder EXCEPT ![v] = "ERRED"]
           /\ one' = [stages[3] EXCEPT !.kc = @ \cup {v}, !.saml = @ \cup {v}]
  <2> DEFINE c3 == stages[3]
  <2>1. c3 \in One!Holdings /\ Beside(one, c3, v) /\ c3.vnet[v] \in {one.vnet[v], s}
    BY <1>3
  <2>2. one' = [c3 EXCEPT !.kc = @ \cup {v}, !.saml = @ \cup {v}]
    BY <1>6
  <2> HIDE DEF c3
  <2>3. one' \in One!Holdings /\ Beside(one, one', v) /\ one'.vnet = c3.vnet
    BY <2>1, <2>2 DEF One!Holdings, Beside
  <2> QED BY <1>6, <2>1, <2>3
<1>7. CASE /\ UNCHANGED <<named, finished>>
           /\ \/ One!CreationFails(one, v)
              \/ \E k \in 1 .. 3 : One!CreationFails(stages[k], v)
  <2>1. PICK c \in One!Holdings : /\ Beside(one, c, v) /\ c.vnet[v] \in {one.vnet[v], s}
           /\ One!CreationFails(c, v)
    BY <1>1, <1>2, <1>3, <1>7
  <2>2. /\ one' \in One!Holdings /\ Beside(one, one', v) /\ one'.vnet[v] \in {0, c.vnet[v]}
        /\ vdcOrder' = [vdcOrder EXCEPT ![v] = "ERRED"]
    BY <2>1, CreationFailed
  <2> QED BY <1>7, <2>1, <2>2
<1>8. CASE /\ UNCHANGED <<named, finished>>
           /\ vdcOrder' = [vdcOrder EXCEPT ![v] = "ERRED"]
           /\ one' = One!Rollback(stages[2], v, {})
  <2>1. stages[2] \in One!Holdings /\ Beside(one, stages[2], v)
           /\ stages[2].vnet[v] \in {one.vnet[v], s}
    BY <1>3
  <2>2. one' \in One!Holdings /\ Beside(one, one', v)
           /\ one'.vnet[v] \in {0, stages[2].vnet[v]}
    BY <1>8, <2>1, RolledBack
  <2> QED BY <1>8, <2>1, <2>2
<1> QED BY <1>4, <1>5, <1>6, <1>7, <1>8

\* A creation takes the subnet it chose, or none, and then the choices of others are stale.
LEMMA CreationKeeps ==
    ASSUME One!OneInv, NEW v \in VDCs, One!CreateVdcResource(v)
    PROVE  One!OneInv'
<1>1. PICK o \in {"OK", "ERRED"} :
         /\ vdcOrder' = [vdcOrder EXCEPT ![v] = o]
         /\ one' \in One!Holdings /\ Beside(one, one', v)
         /\ one'.vnet[v] \in {0, one.vnet[v], making[v].subnet}
         /\ \/ o = "OK" /\ v \in one'.vdc /\ named' = named \cup {v}
               /\ finished' = finished \cup {v}
            \/ o = "ERRED" /\ named' = named /\ finished' = finished
  BY CreationOutcome
<1> DEFINE x == making[v]
           taken == one'.vnet[v] # one.vnet[v]
           mark(w) == IF w = v THEN One!NotMaking
                      ELSE IF taken
                         /\ making[w] # One!NotMaking THEN [making[w] EXCEPT !.stale = TRUE]
                      ELSE making[w]
<1>2. /\ making' = [w \in VDCs |-> mark(w)]
      /\ loose' = IF ~taken THEN loose ELSE IF x.given
            \/ x.stale THEN loose \cup {v} ELSE loose \ {v}
      /\ x.at = "net"
  BY DEF One!CreateVdcResource
<1>3. /\ making \in [VDCs -> One!Makings] /\ named \subseteq VDCs
      /\ finished \subseteq named /\ v \notin finished
      /\ One!ChosenIsFree
  BY <1>2 DEF One!OneInv
<1>4. ASSUME NEW w \in VDCs
      PROVE  /\ mark(w) \in One!Makings
             /\ w # v => /\ mark(w).at = making[w].at /\ mark(w).given = making[w].given
                         /\ mark(w).subnet = making[w].subnet
                         /\ (making[w].stale => mark(w).stale)
                         /\ taken /\ mark(w).at = "net" => mark(w).stale
             /\ w = v => mark(w).at = "off"
  <2>1. One!NotMaking \in One!Makings /\ One!NotMaking.at = "off"
    BY DEF One!NotMaking, One!Makings
  <2>2. making[w] \in One!Makings
    BY <1>3
  <2> DEFINE m == [making[w] EXCEPT !.stale = TRUE]
  <2>3. /\ m \in One!Makings /\ m.at = making[w].at /\ m.given = making[w].given
        /\ m.subnet = making[w].subnet
        /\ m.stale = TRUE
    BY <2>2 DEF One!Makings
  <2> HIDE DEF m
  <2>4. mark(w) = IF w = v THEN One!NotMaking ELSE IF taken
           /\ making[w] # One!NotMaking THEN m ELSE making[w]
    BY DEF m
  <2> HIDE DEF mark, taken
  <2> QED BY <2>1, <2>2, <2>3, <2>4
<1>5. making' \in [VDCs -> One!Makings] /\ \A w \in VDCs : making'[w] = mark(w)
  <2> HIDE DEF mark
  <2> QED BY <1>2, <1>4
<1> HIDE DEF mark
<1>6. \/ one'.vnet[v] = 0
      \/ one'.vnet[v] = one.vnet[v] /\ loose' = loose
      \/ v \in loose'
      \/ \A w \in VDCs : w # v => one'.vnet[w] # one'.vnet[v]
  <2>1. CASE ~taken
    BY <1>2, <2>1
  <2>2. CASE taken /\ (x.given \/ x.stale)
    BY <1>2, <2>2
  <2>3. CASE taken /\ ~x.given /\ ~x.stale
    <3>1. \A w \in VDCs : one.vnet[w] # x.subnet
      BY <1>2, <1>3, <2>3 DEF One!ChosenIsFree
    <3>2. one'.vnet[v] \in {0, x.subnet}
      BY <1>1, <2>3
    <3> QED BY <1>1, <3>1, <3>2 DEF Beside
  <2> QED BY <2>1, <2>2, <2>3
<1>7. /\ \A w \in VDCs : w # v
            => (w \in finished' <=> w \in finished) /\ (w \in loose' <=> w \in loose)
      /\ named' \subseteq VDCs /\ finished' \subseteq named'
  BY <1>1, <1>2, <1>3
<1>8. \/ one'.vnet[v] \in {0, one.vnet[v]}
      \/ \A w \in VDCs : w # v /\ making'[w].at = "net" => making'[w].stale
  BY <1>4, <1>5
<1>9. making'[v].at # "net" /\ o \in One!Lives /\ (v \in finished' => o = "OK" /\ v \in one'.vdc)
  BY <1>1, <1>3, <1>4, <1>5 DEF One!Lives
<1>10. \A w \in VDCs : w # v =>
          /\ making'[w].at = making[w].at /\ making'[w].given = making[w].given
          /\ making'[w].subnet = making[w].subnet /\ (making[w].stale => making'[w].stale)
  BY <1>4, <1>5
<1> HIDE DEF taken, x
<1> QED BY <1>1, <1>5, <1>6, <1>7, <1>8, <1>9, <1>10, OneVdcAtATime

\* The stages of a deletion: the VDC is the last to go.
LEMMA DeletionStages ==
    ASSUME NEW c0 \in One!Holdings, NEW v \in VDCs, NEW k \in 1..6,
           NEW c, c = One!DeleteResource(c0, v)[k]
    PROVE  /\ c \in One!Holdings /\ Beside(c0, c, v) /\ c.vnet[v] \in {0, c0.vnet[v]}
           /\ v \in c0.vdc /\ v \notin c.vdc => c.vnet[v] = 0 /\ v \notin c.router \cup c.sg
           /\ k = 6 => v \notin c.vdc /\ c.vnet[v] = 0 /\ v \notin c.router \cup c.sg
<1> DEFINE c1 == [c0 EXCEPT !.router = @ \ {v}]
           c2 == [c1 EXCEPT !.vnet[v] = 0]
           c3 == [c2 EXCEPT !.sg = @ \ {v}]
           c4 == [c3 EXCEPT !.vdc = @ \ {v}]
           c5 == [c4 EXCEPT !.group = @ \ {v}]
<1>0. One!DeleteResource(c0, v) = <<c0>> \o <<c1, c2, c3>> \o <<c4, c5>>
  <2>1. One!TeardownNetworking(c0, v) = <<c1, c2, c3>>
    BY DEF One!TeardownNetworking
  <2>2. One!TeardownNetworking(c0, v)[3] = c3
    <3> HIDE DEF c1, c2, c3
    <3> QED BY <2>1
  <2> QED BY <2>1, <2>2 DEF One!DeleteResource
<1>1. /\ c1 \in One!Holdings /\ Beside(c0, c1, v) /\ c1.vnet = c0.vnet /\ v \notin c1.router
      /\ c1.vdc = c0.vdc
  BY DEF One!Holdings, Beside
<1>2. /\ c2 \in One!Holdings /\ Beside(c0, c2, v) /\ c2.vnet[v] = 0 /\ v \notin c2.router
      /\ c2.vdc = c0.vdc
  <2> HIDE DEF c1
  <2> QED BY <1>1 DEF One!Holdings, Beside
<1>3. /\ c3 \in One!Holdings /\ Beside(c0, c3, v) /\ c3.vnet[v] = 0 /\ v \notin c3.router
      /\ v \notin c3.sg /\ c3.vdc = c0.vdc
  <2> HIDE DEF c2
  <2> QED BY <1>2 DEF One!Holdings, Beside
<1>4. /\ c4 \in One!Holdings /\ Beside(c0, c4, v) /\ c4.vnet[v] = 0 /\ v \notin c4.router
      /\ v \notin c4.sg /\ v \notin c4.vdc
  <2> HIDE DEF c3
  <2> QED BY <1>3 DEF One!Holdings, Beside
<1>5. /\ c5 \in One!Holdings /\ Beside(c0, c5, v) /\ c5.vnet[v] = 0 /\ v \notin c5.router
      /\ v \notin c5.sg /\ v \notin c5.vdc
  <2> HIDE DEF c4
  <2> QED BY <1>4 DEF One!Holdings, Beside
<1>6. Beside(c0, c0, v)
  BY DEF Beside
<1> HIDE DEF c1, c2, c3, c4, c5
<1>7. c \in {c0, c1, c2, c3, c4, c5} /\ (k = 6 => c = c5)
  <2> DEFINE q == <<c0>> \o <<c1, c2, c3>> \o <<c4, c5>>
  <2>1. q[1] = c0 /\ q[2] = c1 /\ q[3] = c2 /\ q[4] = c3 /\ q[5] = c4 /\ q[6] = c5
    BY OneThreeTwo
  <2>2. c = q[k]
    BY <1>0
  <2> HIDE DEF q
  <2> QED BY <2>1, <2>2
<1> QED BY <1>1, <1>2, <1>3, <1>4, <1>5, <1>6, <1>7

\* What pre_delete_resource touches is not the network.
LEMMA PreDeleted ==
    ASSUME NEW c0 \in One!Holdings, NEW v \in VDCs, NEW c \in One!PreDeleteResource(c0, v)
    PROVE  /\ c \in One!Holdings /\ c.vnet = c0.vnet
           /\ c.router = c0.router /\ c.sg = c0.sg /\ c.vdc = c0.vdc
<1>1. CASE c = c0
  BY <1>1
<1>2. CASE c = [c0 EXCEPT !.kc = @ \ {v}, !.saml = @ \ {v}, !.member = @ \ {v}]
  BY <1>2 DEF One!Holdings
<1> QED BY <1>1, <1>2 DEF One!PreDeleteResource

\* A deletion that stops leaves the VDC, or nothing of its network.
LEMMA DeletionKeeps ==
    ASSUME One!OneInv, NEW v \in VDCs, One!DeleteVdcResource(v)
    PROVE  One!OneInv'
<1>1. /\ one \in One!Holdings /\ vdcOrder[v] = "terminating"
      /\ UNCHANGED <<making, named, finished, loose>>
      /\ making \in [VDCs -> One!Makings] /\ named \subseteq VDCs /\ finished \subseteq named
      /\ vdcOrder \in [VDCs -> One!Lives]
  BY DEF One!OneInv, One!DeleteVdcResource, One!created
<1>2. making[v].at # "net"
  BY <1>1 DEF One!OneInv
<1>3. CASE v \notin named \/ v \notin one.vdc
  <2>1. one' = one /\ vdcOrder' = [vdcOrder EXCEPT ![v] = "TERMINATED"]
    BY <1>3 DEF One!DeleteVdcResource
  <2>2. v \in finished => v \notin one.vdc
    BY <1>1, <1>3
  <2>3. "TERMINATED" \in One!Lives
    BY DEF One!Lives
  <2> QED BY <1>1, <1>2, <2>1, <2>2, <2>3, LifeChanges
<1>4. CASE v \in named /\ v \in one.vdc
  <2>1. PICK c0 \in One!PreDeleteResource(one, v) :
          \/ one' = One!DeleteResource(c0, v)[6]
             /\ vdcOrder' = [vdcOrder EXCEPT ![v] = "TERMINATED"]
          \/ (\E k \in 1 .. 5 : one' = One!DeleteResource(c0, v)[k]) /\ UNCHANGED vdcOrder
    BY <1>4 DEF One!DeleteVdcResource
  <2>2. /\ c0 \in One!Holdings /\ c0.vnet = one.vnet
        /\ c0.router = one.router /\ c0.sg = one.sg /\ c0.vdc = one.vdc
    BY <1>1, PreDeleted
  <2>3. PICK k \in 1 .. 6, o \in {"terminating", "TERMINATED"} :
          /\ one' = One!DeleteResource(c0, v)[k] /\ vdcOrder' = [vdcOrder EXCEPT ![v] = o]
          /\ o = "TERMINATED" => k = 6
    <3>1. CASE one' = One!DeleteResource(c0, v)[6]
             /\ vdcOrder' = [vdcOrder EXCEPT ![v] = "TERMINATED"]
      BY <3>1
    <3>2. CASE (\E k \in 1 .. 5 : one' = One!DeleteResource(c0, v)[k]) /\ UNCHANGED vdcOrder
      <4>1. PICK k \in 1 .. 5 : one' = One!DeleteResource(c0, v)[k]
        BY <3>2
      <4>2. vdcOrder' = [vdcOrder EXCEPT ![v] = "terminating"]
        BY <1>1, <3>2
      <4>3. k \in 1 .. 6
        OBVIOUS
      <4> QED BY <4>1, <4>2, <4>3
    <3> QED BY <2>1, <3>1, <3>2
  <2> DEFINE c == One!DeleteResource(c0, v)[k]
  <2>4. /\ c \in One!Holdings /\ Beside(c0, c, v) /\ c.vnet[v] \in {0, c0.vnet[v]}
        /\ v \in c0.vdc /\ v \notin c.vdc => c.vnet[v] = 0 /\ v \notin c.router \cup c.sg
        /\ k = 6 => v \notin c.vdc /\ c.vnet[v] = 0 /\ v \notin c.router \cup c.sg
    BY <2>2, DeletionStages
  <2>5. one' = c
    BY <2>3
  <2> HIDE DEF c
  <2>6. Beside(one, c, v) /\ c.vnet[v] \in {0, one.vnet[v]} /\ o \in One!Lives
    BY <2>2, <2>4 DEF Beside, One!Lives
  <2> QED BY <1>1, <1>2, <1>4, <2>2, <2>3, <2>4, <2>5, <2>6, OneVdcAtATime
<1> QED BY <1>3, <1>4

\* A step keeps the networks apart and the terminated VDCs without.
LEMMA OneStepsKeep == One!OneInv /\ [One!OneNext]_(One!nvars) => One!OneInv'
<1> SUFFICES ASSUME One!OneInv, [One!OneNext]_(One!nvars) PROVE One!OneInv'
  OBVIOUS
<1>0. one \in One!Holdings
  BY DEF One!OneInv
<1>1. ASSUME UNCHANGED <<one, vdcOrder, One!created>> PROVE One!OneInv'
  BY <1>0, <1>1, NetworksAlone
<1>2. ASSUME NEW v \in VDCs, One!OrderVdc(v) \/ One!RefuseVdc(v) \/ One!TerminateVdc(v)
      PROVE  One!OneInv'
  <2>1. UNCHANGED <<one, making, loose, named>> /\ finished' \in {finished, finished \ {v}}
    BY <1>2 DEF One!OrderVdc, One!RefuseVdc, One!TerminateVdc, One!created
  <2>2. PICK o \in {"creating", "ERRED", "terminating"} :
          /\ vdcOrder' = [vdcOrder EXCEPT ![v] = o]
          /\ o = "creating" => vdcOrder[v] \in {"none", "TERMINATED"} /\ v \notin finished'
          /\ o = "ERRED" => vdcOrder[v] = "creating" /\ making[v] = One!NotMaking
          /\ o = "terminating" => vdcOrder[v] \in {"OK", "ERRED"}
    BY <1>2 DEF One!OrderVdc, One!RefuseVdc, One!TerminateVdc
  <2>3. making[v].at # "net"
    BY <2>2 DEF One!OneInv, One!NotMaking
  <2>4. v \in finished' => o = "terminating"
    BY <2>1, <2>2 DEF One!OneInv
  <2> QED BY <2>1, <2>2, <2>3, <2>4, LifeChanges DEF One!Lives
<1>3. ASSUME NEW v \in VDCs, One!SetQuota(v) \/ One!AddUser(v) \/ One!RemoveUser(v)
      PROVE  One!OneInv'
  <2>0. UNCHANGED <<vdcOrder, One!created>>
    BY <1>3 DEF One!SetQuota, One!AddUser, One!RemoveUser
  <2>1. CASE One!SetQuota(v)
    <3> DEFINE c == [one EXCEPT !.quota[v] = 3 - @]
    <3>1. c \in One!Holdings /\ c.vnet = one.vnet /\ c.router = one.router
             /\ c.sg = one.sg /\ c.vdc = one.vdc
      BY <1>0 DEF One!Holdings
    <3>2. one' = c
      BY <2>1 DEF One!SetQuota
    <3> HIDE DEF c
    <3> QED BY <2>0, <3>1, <3>2, NetworksAlone
  <2>2. CASE One!AddUser(v)
    <3> DEFINE c1 == [one EXCEPT !.kc = @ \cup {v}]
               c == [c1 EXCEPT !.member = @ \cup {v}]
    <3>1. c \in One!Holdings /\ c.vnet = one.vnet /\ c.router = one.router
             /\ c.sg = one.sg /\ c.vdc = one.vdc
      BY <1>0 DEF One!Holdings
    <3>2. one' = c
      BY <2>2 DEF One!AddUser, One!FindVdcRoleGroup
    <3> HIDE DEF c
    <3> QED BY <2>0, <3>1, <3>2, NetworksAlone
  <2>3. CASE One!RemoveUser(v)
    <3> DEFINE c == [one EXCEPT !.member = @ \ {v}]
    <3>1. c \in One!Holdings /\ c.vnet = one.vnet /\ c.router = one.router
             /\ c.sg = one.sg /\ c.vdc = one.vdc
      BY <1>0 DEF One!Holdings
    <3>2. one' = c \/ one' = one
      BY <2>3 DEF One!RemoveUser
    <3> HIDE DEF c
    <3> QED BY <1>1, <2>0, <3>1, <3>2, NetworksAlone
  <2> QED BY <1>3, <2>1, <2>2, <2>3
<1>4. CASE \E v \in VDCs : One!EditTeam(v)
  BY <1>1, <1>4 DEF One!EditTeam
<1>5. CASE One!OrderVm \/ One!CreateVm \/ One!ResizeVm \/ One!StartVm \/ One!DeleteVm
  BY <1>1, <1>5 DEF One!OrderVm, One!CreateVm, One!ResizeVm, One!StartVm, One!DeleteVm
<1>6. CASE UNCHANGED One!nvars
  BY <1>1, <1>6 DEF One!nvars, One!created
<1> QED BY <1>2, <1>3, <1>4, <1>5, <1>6, StartKeeps, CreationKeeps,
       DeletionKeeps DEF One!OneNext

\* No VDC has a network at first.
LEMMA OneBegins == One!OneParameters /\ One!OneInit => One!OneInv
<1> SUFFICES ASSUME One!OneParameters, One!OneInit PROVE One!OneInv
  OBVIOUS
<1>1. PICK pool \in Pools :
          one = [group |-> {}, vdc |-> {}, vnet |-> [v \in VDCs |-> 0],
                 router |-> {}, sg |-> {}, kc |-> {}, saml |-> {}, member |-> {},
                 quota |-> [v \in VDCs |-> 0], pool |-> pool]
  BY DEF One!OneInit
<1>2. pool \subseteq Nat \ {0}
  BY DEF One!OneParameters
<1>3. one \in One!Holdings /\ vdcOrder \in [VDCs -> One!Lives]
  BY <1>1, <1>2 DEF One!Holdings, One!OneInit, One!Lives
<1>4. making \in [VDCs -> One!Makings] /\ \A v \in VDCs : making[v].at # "net"
  BY DEF One!OneInit, One!NotMaking, One!Makings
<1>5. One!SubnetsDisjoint /\ One!ChosenIsFree
  BY <1>1, <1>4 DEF One!SubnetsDisjoint, One!ChosenIsFree
<1> QED BY <1>3, <1>4, <1>5 DEF One!OneInit, One!OneInv

\* What the invariant says of subnets, and of the network of a terminated VDC.
LEMMA OneKeepsApart == One!OneInv => One!SubnetsDisjoint /\ One!NetworkGone
<1> SUFFICES ASSUME One!OneInv, NEW v \in finished, vdcOrder[v] = "TERMINATED"
             PROVE  one.vnet[v] = 0 /\ v \notin one.router \cup one.sg \cup one.vdc
  BY DEF One!OneInv, One!NetworkGone
<1> QED BY DEF One!OneInv, One!Unnetworked

-----------------------------------------------------------------------------
(* The groups of a Rancher project.                                          *)

\* There is no group at first.
LEMMA RancherBegins == Rancher!RancherInit => Rancher!RancherInv
<1> SUFFICES ASSUME Rancher!RancherInit PROVE Rancher!RancherInv
  OBVIOUS
<1>1. group \in [exists : BOOLEAN, members : SUBSET Members] /\ rFaults \in Nat
         /\ rTeam \subseteq Members
  BY DEF Rancher!RancherInit, Rancher!NoGroup
<1>2. sweep \in [SharedClusters -> Rancher!Sweeps] /\ Rancher!SawNobody
  BY DEF Rancher!RancherInit, Rancher!Sweeps, Rancher!SawNobody
<1> QED BY <1>1, <1>2 DEF Rancher!RancherInit, Rancher!RancherInv

\* Where a pass is after it has dealt with a person.
LEMMA ResumeIn ==
    ASSUME Rancher!RancherInv, NEW r \in SharedClusters,
           NEW stale \in SUBSET Members, Rancher!Resume(r, stale)
    PROVE  sweep' \in [SharedClusters -> Rancher!Sweeps] /\ Rancher!SawNobody'
<1> DEFINE w == [at |-> IF stale = {}
       THEN "idle" ELSE "remove", stale |-> stale, saw |-> {}, same |-> FALSE]
<1>1. w \in Rancher!Sweeps /\ w.at \notin {"unbind", "delete"}
  BY DEF Rancher!Sweeps
<1>2. sweep' = [sweep EXCEPT ![r] = w]
  BY DEF Rancher!Resume
<1> HIDE DEF w
<1>3. /\ sweep' \in [SharedClusters -> Rancher!Sweeps] /\ sweep'[r] = w
      /\ \A q \in SharedClusters : q # r => sweep'[q] = sweep[q]
  BY <1>1, <1>2 DEF Rancher!RancherInv
<1> QED BY <1>1, <1>3 DEF Rancher!SawNobody, Rancher!RancherInv

\* A pass moves to a step after which it has not listed members yet, or has moved on.
LEMMA MoveIn ==
    ASSUME Rancher!RancherInv, NEW r \in SharedClusters,
           NEW w \in Rancher!Sweeps, sweep' = [sweep EXCEPT ![r] = w],
           w.at \in {"unbind", "delete"} => w.saw = {}
    PROVE  sweep' \in [SharedClusters -> Rancher!Sweeps] /\ Rancher!SawNobody'
<1>1. /\ sweep' \in [SharedClusters -> Rancher!Sweeps] /\ sweep'[r] = w
      /\ \A q \in SharedClusters : q # r => sweep'[q] = sweep[q]
  BY DEF Rancher!RancherInv
<1> QED BY <1>1 DEF Rancher!SawNobody, Rancher!RancherInv

\* The group is gone for every pass.
LEMMA GoneIn ==
    ASSUME Rancher!RancherInv, Rancher!GroupGone
    PROVE  sweep' \in [SharedClusters -> Rancher!Sweeps] /\ Rancher!SawNobody'
<1>1. sweep' = [r \in SharedClusters |-> [sweep[r] EXCEPT !.same = FALSE]]
  BY DEF Rancher!GroupGone
<1>2. ASSUME NEW r \in SharedClusters
      PROVE  sweep'[r] \in Rancher!Sweeps /\ sweep'[r].at = sweep[r].at
                /\ sweep'[r].saw = sweep[r].saw
  <2>1. sweep[r] \in Rancher!Sweeps /\ sweep'[r] = [sweep[r] EXCEPT !.same = FALSE]
    BY <1>1 DEF Rancher!RancherInv
  <2> QED BY <2>1 DEF Rancher!Sweeps
<1>3. sweep' \in [SharedClusters -> Rancher!Sweeps]
  BY <1>1, <1>2
<1> QED BY <1>2, <1>3 DEF Rancher!SawNobody, Rancher!RancherInv

\* A step keeps the types, and takes nobody out of the group who stays in the team.
LEMMA RancherStepsKeep ==
    Rancher!RancherInv /\ [Rancher!RancherNext]_(Rancher!rvars)
       => Rancher!RancherInv' /\ Rancher!GroupKeepsTeam
<1> SUFFICES ASSUME Rancher!RancherInv, [Rancher!RancherNext]_(Rancher!rvars)
             PROVE  Rancher!RancherInv' /\ Rancher!GroupKeepsTeam
  OBVIOUS
<1> DEFINE Lives == {"none", "creating", "OK", "ERRED", "terminating", "TERMINATED"}
           Groups == [exists : BOOLEAN, members : SUBSET Members]
<1>0. /\ rFaults \in Nat /\ rTeam \subseteq Members /\ group \in Groups
      /\ rLife \in [SharedClusters -> Lives]
      /\ sweep \in [SharedClusters -> Rancher!Sweeps] /\ Rancher!SawNobody
  BY DEF Rancher!RancherInv
<1>1. ASSUME group' \in Groups, rFaults' \in Nat, rTeam' \subseteq Members,
             rLife' \in [SharedClusters -> Lives],
             sweep' \in [SharedClusters -> Rancher!Sweeps], Rancher!SawNobody'
      PROVE  Rancher!RancherInv'
  BY <1>1 DEF Rancher!RancherInv
<1>2. Rancher!NoGroup \in Groups /\ Rancher!CreateKeycloakGroups(group) \in Groups
      /\ Rancher!CreateKeycloakGroups(group).members = group.members
  BY <1>0 DEF Rancher!NoGroup, Rancher!CreateKeycloakGroups
<1>s. ASSUME sweep' = sweep
      PROVE  sweep' \in [SharedClusters -> Rancher!Sweeps] /\ Rancher!SawNobody'
  BY <1>0, <1>s DEF Rancher!SawNobody
<1>3. CASE Rancher!OrderOrTeam
  <2>1. group' = group /\ rFaults' = rFaults /\ sweep' = sweep
    BY <1>3 DEF Rancher!OrderOrTeam
  <2>2. rTeam' \subseteq Members
    BY <1>0, <1>3 DEF Rancher!OrderOrTeam
  <2>3. rLife' \in [SharedClusters -> Lives]
    BY <1>0, <1>3 DEF Rancher!OrderOrTeam
  <2> QED BY <1>0, <1>1, <1>s, <2>1, <2>2, <2>3 DEF Rancher!GroupKeepsTeam
<1>4. ASSUME NEW r \in SharedClusters, Rancher!CreateResourceWithId(r)
      PROVE  Rancher!RancherInv' /\ Rancher!GroupKeepsTeam
  <2>1. group' \in {group, Rancher!CreateKeycloakGroups(group)} /\ rFaults' \in Nat
        /\ rTeam' = rTeam /\ sweep' = sweep
    BY <1>0, <1>4 DEF Rancher!CreateResourceWithId, Rancher!Broken, Rancher!Sound,
       Rancher!waldurSide
  <2>2. rLife' \in [SharedClusters -> Lives]
    BY <1>0, <1>4 DEF Rancher!CreateResourceWithId
  <2> QED BY <1>0, <1>1, <1>2, <1>s, <2>1, <2>2 DEF Rancher!GroupKeepsTeam
<1>5. ASSUME NEW r \in SharedClusters, Rancher!SetResourceLimits(r)
      PROVE  Rancher!RancherInv' /\ Rancher!GroupKeepsTeam
  <2>1. group' = group /\ rFaults' \in Nat /\ rTeam' = rTeam /\ rLife' = rLife
           /\ sweep' = sweep
    BY <1>0, <1>5 DEF Rancher!SetResourceLimits, Rancher!Broken, Rancher!Sound
  <2> QED BY <1>0, <1>1, <1>s, <2>1 DEF Rancher!GroupKeepsTeam
<1>6. ASSUME NEW r \in SharedClusters, Rancher!DeleteResource(r)
      PROVE  Rancher!RancherInv' /\ Rancher!GroupKeepsTeam
  <2>1. rLife[r] = "terminating" /\ rFaults' \in Nat /\ rTeam' = rTeam
    BY <1>0, <1>6 DEF Rancher!DeleteResource, Rancher!Broken, Rancher!Sound,
       Rancher!waldurSide
  <2>2. \/ group' = Rancher!NoGroup /\ rLife' = [rLife EXCEPT ![r] = "TERMINATED"]
           /\ Rancher!GroupGone
        \/ /\ group' = group /\ sweep' = sweep
           /\ rLife' \in {[rLife EXCEPT ![r] = "TERMINATED"], [rLife EXCEPT ![r] = "ERRED"]}
    BY <1>6 DEF Rancher!DeleteResource
  <2>3. rLife' \in [SharedClusters -> Lives] /\ (group' # group => rLife'[r] = "TERMINATED")
    BY <1>0, <2>2
  <2>4. group' \in Groups /\ sweep' \in [SharedClusters -> Rancher!Sweeps]
           /\ Rancher!SawNobody'
    BY <1>0, <1>2, <1>s, <2>2, GoneIn
  <2>5. Rancher!RancherInv'
    BY <1>0, <1>1, <2>1, <2>3, <2>4
  <2>6. CASE group' = group
    <3>1. \A p \in group.members : p \in group'.members
      BY <2>6
    <3> QED BY <2>5, <3>1 DEF Rancher!GroupKeepsTeam
  <2>7. CASE rLife'[r] = "TERMINATED"
    <3>1. rLife[r] = "terminating" /\ rLife'[r] = "TERMINATED"
      BY <2>1, <2>7
    <3> QED BY <2>5, <3>1 DEF Rancher!GroupKeepsTeam
  <2> QED BY <2>3, <2>5, <2>6, <2>7
<1>7. ASSUME NEW r \in SharedClusters, NEW p \in Members, Rancher!AddUser(r, p)
      PROVE  Rancher!RancherInv' /\ Rancher!GroupKeepsTeam
  <2> DEFINE g == Rancher!CreateKeycloakGroups(group)
  <2>1. group' = [g EXCEPT !.members = @ \cup {p}] /\ rTeam' = rTeam /\ rLife' = rLife
           /\ sweep' = sweep
    BY <1>7 DEF Rancher!AddUser, Rancher!waldurSide
  <2>2. rFaults' \in Nat
    BY <1>0, <1>7 DEF Rancher!AddUser, Rancher!GetOrCreateKeycloakChildGroup, Rancher!Broken,
       Rancher!Sound
  <2>3. g \in Groups /\ g.members = group.members
    BY <1>2
  <2> HIDE DEF g
  <2>4. group' \in Groups /\ group'.members = group.members \cup {p}
    BY <2>1, <2>3
  <2> QED BY <1>0, <1>1, <1>s, <2>1, <2>2, <2>4 DEF Rancher!GroupKeepsTeam
<1>8. ASSUME NEW r \in SharedClusters, NEW p \in Members, Rancher!RemoveUser(r, p)
      PROVE  Rancher!RancherInv' /\ Rancher!GroupKeepsTeam
  <2>0. sweep[r] \in Rancher!Sweeps /\ sweep[r].stale \in SUBSET Members
    BY <1>0 DEF Rancher!Sweeps
  <2>1. /\ sweep[r].at = "remove" /\ p \in sweep[r].stale /\ rTeam' = rTeam /\ rLife' = rLife
        /\ rFaults' \in Nat /\ group' \in {group, [group EXCEPT !.members = @ \ {p}]}
    BY <1>0, <1>8 DEF Rancher!RemoveUser, Rancher!waldurSide, Rancher!Broken, Rancher!Sound
  <2>2. group' \in Groups /\ group.members \ {p} \subseteq group'.members
    BY <1>0, <2>1
  <2>3. sweep' \in [SharedClusters -> Rancher!Sweeps] /\ Rancher!SawNobody'
    <3>1. CASE Rancher!Resume(r, sweep[r].stale \ {p})
      BY <2>0, <3>1, ResumeIn
    <3>2. CASE sweep' = [sweep EXCEPT ![r].at = "list", ![r].stale = @ \ {p}]
      <4> DEFINE w == [sweep[r] EXCEPT !.at = "list", !.stale = @ \ {p}]
      <4>1. w \in Rancher!Sweeps /\ w.at = "list"
        BY <2>0 DEF Rancher!Sweeps
      <4>2. sweep' = [sweep EXCEPT ![r] = w]
        BY <1>0, <3>2 DEF Rancher!Sweeps
      <4> HIDE DEF w
      <4> QED BY <4>1, <4>2, MoveIn
    <3> QED BY <1>8, <3>1, <3>2 DEF Rancher!RemoveUser
  <2>4. Rancher!RancherInv'
    BY <1>0, <1>1, <2>1, <2>2, <2>3
  <2> QED BY <2>1, <2>2, <2>4 DEF Rancher!GroupKeepsTeam
<1>9. ASSUME NEW p \in Members, Rancher!ReleaseUser(p)
      PROVE  Rancher!RancherInv' /\ Rancher!GroupKeepsTeam
  <2>1. p \notin rTeam /\ rTeam' = rTeam /\ rLife' = rLife
    BY <1>9 DEF Rancher!ReleaseUser, Rancher!waldurSide
  <2>2. CASE group' = group /\ rFaults' \in {rFaults, rFaults + 1} /\ sweep' = sweep
    BY <1>0, <1>1, <1>s, <2>1, <2>2 DEF Rancher!GroupKeepsTeam
  <2>3. ASSUME NEW r \in SharedClusters, group' = [group EXCEPT !.members = @ \ {p}],
               rFaults' = rFaults,
               sweep' = [sweep EXCEPT ![r].at = "list"]
        PROVE  Rancher!RancherInv' /\ Rancher!GroupKeepsTeam
    <3>1. group' \in Groups /\ group'.members = group.members \ {p}
      BY <1>0, <2>3
    <3> DEFINE w == [sweep[r] EXCEPT !.at = "list"]
    <3>2. w \in Rancher!Sweeps /\ w.at = "list"
      BY <1>0 DEF Rancher!Sweeps
    <3>3. sweep' = [sweep EXCEPT ![r] = w]
      BY <1>0, <2>3 DEF Rancher!Sweeps
    <3> HIDE DEF w
    <3>4. sweep' \in [SharedClusters -> Rancher!Sweeps] /\ Rancher!SawNobody'
      BY <3>2, <3>3, MoveIn
    <3> QED BY <1>0, <1>1, <2>1, <2>3, <3>1, <3>4 DEF Rancher!GroupKeepsTeam
  <2> QED BY <1>9, <2>2, <2>3 DEF Rancher!ReleaseUser, Rancher!Broken, Rancher!Sound
<1>10. CASE UNCHANGED Rancher!rvars
  <2>1. group' = group /\ rFaults' = rFaults /\ rTeam' = rTeam /\ rLife' = rLife
           /\ sweep' = sweep
    BY <1>10 DEF Rancher!rvars
  <2> QED BY <1>0, <1>1, <1>s, <2>1 DEF Rancher!GroupKeepsTeam
<1>11. ASSUME NEW r \in SharedClusters, Rancher!PullResource(r)
       PROVE  Rancher!RancherInv' /\ Rancher!GroupKeepsTeam
  <2>1. group' = group /\ rFaults' = rFaults /\ rTeam' = rTeam /\ rLife' = rLife
    BY <1>11 DEF Rancher!PullResource, Rancher!waldurSide
  <2> DEFINE w == [sweep[r] EXCEPT !.at = "remove", !.stale = group.members \ rTeam]
  <2>2. w \in Rancher!Sweeps /\ w.at = "remove"
    BY <1>0 DEF Rancher!Sweeps
  <2>3. sweep' = [sweep EXCEPT ![r] = w]
    BY <1>0, <1>11 DEF Rancher!PullResource, Rancher!Sweeps
  <2> HIDE DEF w
  <2>4. sweep' \in [SharedClusters -> Rancher!Sweeps] /\ Rancher!SawNobody'
    BY <2>2, <2>3, MoveIn
  <2> QED BY <1>0, <1>1, <2>1, <2>4 DEF Rancher!GroupKeepsTeam
<1>12. ASSUME NEW r \in SharedClusters, Rancher!ListGroupMembers(r)
       PROVE  Rancher!RancherInv' /\ Rancher!GroupKeepsTeam
  <2>0. sweep[r] \in Rancher!Sweeps /\ sweep[r].stale \in SUBSET Members
    BY <1>0 DEF Rancher!Sweeps
  <2>1. group' = group /\ rTeam' = rTeam /\ rLife' = rLife
    BY <1>12 DEF Rancher!ListGroupMembers, Rancher!waldurSide
  <2>2. rFaults' \in Nat
    BY <1>0, <1>12 DEF Rancher!ListGroupMembers, Rancher!Broken, Rancher!Sound
  <2>3. sweep' \in [SharedClusters -> Rancher!Sweeps] /\ Rancher!SawNobody'
    <3>1. CASE Rancher!Resume(r, sweep[r].stale)
      BY <2>0, <3>1, ResumeIn
    <3>2. ASSUME NEW saw, saw = {}, sweep' = [sweep EXCEPT ![r].at = "unbind",
                 ![r].saw = saw, ![r].same = TRUE]
          PROVE  sweep' \in [SharedClusters -> Rancher!Sweeps] /\ Rancher!SawNobody'
      <4> DEFINE w == [sweep[r] EXCEPT !.at = "unbind", !.saw = saw, !.same = TRUE]
      <4>1. w \in Rancher!Sweeps /\ w.saw = {}
        BY <2>0, <3>2 DEF Rancher!Sweeps
      <4>2. sweep' = [sweep EXCEPT ![r] = w]
        BY <1>0, <3>2 DEF Rancher!Sweeps
      <4> HIDE DEF w
      <4> QED BY <4>1, <4>2, MoveIn
    <3> QED BY <1>12, <3>1, <3>2 DEF Rancher!ListGroupMembers, Rancher!EmptyGroup
  <2> QED BY <1>0, <1>1, <2>1, <2>2, <2>3 DEF Rancher!GroupKeepsTeam
<1>13. ASSUME NEW r \in SharedClusters, Rancher!DeleteProjectGroupRole(r)
       PROVE  Rancher!RancherInv' /\ Rancher!GroupKeepsTeam
  <2>1. group' = group /\ rTeam' = rTeam /\ rLife' = rLife /\ sweep[r].at = "unbind"
    BY <1>13 DEF Rancher!DeleteProjectGroupRole, Rancher!waldurSide
  <2>2. rFaults' \in Nat
    BY <1>0, <1>13 DEF Rancher!DeleteProjectGroupRole, Rancher!Broken, Rancher!Sound
  <2> DEFINE w == [sweep[r] EXCEPT !.at = "delete"]
  <2>3. sweep[r].saw = {}
    BY <1>0, <2>1 DEF Rancher!SawNobody
  <2>4. w \in Rancher!Sweeps /\ w.saw = {}
    BY <1>0, <2>3 DEF Rancher!Sweeps
  <2>5. sweep' = [sweep EXCEPT ![r] = w]
    BY <1>0, <1>13 DEF Rancher!DeleteProjectGroupRole, Rancher!Sweeps
  <2> HIDE DEF w
  <2>6. sweep' \in [SharedClusters -> Rancher!Sweeps] /\ Rancher!SawNobody'
    BY <2>4, <2>5, MoveIn
  <2> QED BY <1>0, <1>1, <2>1, <2>2, <2>6 DEF Rancher!GroupKeepsTeam
<1>14. ASSUME NEW r \in SharedClusters, Rancher!DeleteGroup(r)
       PROVE  Rancher!RancherInv' /\ Rancher!GroupKeepsTeam
  <2>0. sweep[r] \in Rancher!Sweeps /\ sweep[r].stale \in SUBSET Members
    BY <1>0 DEF Rancher!Sweeps
  <2>1. /\ group' \in {group, Rancher!NoGroup} /\ rTeam' = rTeam /\ rLife' = rLife
        /\ sweep[r].at = "delete"
        /\ rFaults' \in Nat
    BY <1>0, <1>14 DEF Rancher!DeleteGroup, Rancher!waldurSide, Rancher!Broken, Rancher!Sound
  <2>2. sweep[r].saw = {}
    BY <1>0, <2>1 DEF Rancher!SawNobody
  <2>3. sweep' \in [SharedClusters -> Rancher!Sweeps] /\ Rancher!SawNobody'
    <3>1. CASE Rancher!Resume(r, sweep[r].stale)
      BY <2>0, <3>1, ResumeIn
    <3> DEFINE w == [at |-> IF sweep[r].stale = {}
           THEN "idle" ELSE "remove", stale |-> sweep[r].stale,
                     saw |-> {}, same |-> FALSE]
    <3>2. CASE sweep' = [q \in SharedClusters |-> IF q # r
             THEN [sweep[q] EXCEPT !.same = FALSE] ELSE w]
      <4>1. w \in Rancher!Sweeps /\ w.saw = {}
        BY <2>0 DEF Rancher!Sweeps
      <4> HIDE DEF w
      <4>2. ASSUME NEW q \in SharedClusters
            PROVE  sweep'[q] \in Rancher!Sweeps
                      /\ (sweep'[q].at \in {"unbind", "delete"} => sweep'[q].saw = {})
        <5>1. CASE q = r
          BY <3>2, <4>1, <5>1
        <5>2. CASE q # r
          <6>1. sweep[q] \in Rancher!Sweeps /\ sweep'[q] = [sweep[q] EXCEPT !.same = FALSE]
            BY <1>0, <3>2, <5>2
          <6>2. sweep'[q] \in Rancher!Sweeps /\ sweep'[q].at = sweep[q].at
                   /\ sweep'[q].saw = sweep[q].saw
            BY <6>1 DEF Rancher!Sweeps
          <6> QED BY <1>0, <6>2 DEF Rancher!SawNobody
        <5> QED BY <5>1, <5>2
      <4>3. sweep' \in [SharedClusters -> Rancher!Sweeps]
        BY <3>2, <4>2
      <4> QED BY <4>2, <4>3 DEF Rancher!SawNobody
    <3> QED BY <1>14, <3>1, <3>2 DEF Rancher!DeleteGroup
  <2>4. Rancher!RancherInv'
    BY <1>0, <1>1, <1>2, <2>1, <2>3
  <2> QED BY <2>1, <2>2, <2>4 DEF Rancher!GroupKeepsTeam
<1> QED BY <1>3, <1>4, <1>5, <1>6, <1>7, <1>8, <1>9, <1>10, <1>11, <1>12, <1>13,
       <1>14 DEF Rancher!RancherNext

-----------------------------------------------------------------------------
(* The import of Rancher projects.                                           *)

\* Nothing is imported when the agent starts.
LEMMA ImportBegins == Import!ImportParameters /\ Import!ImportInit => Import!ImportInv
<1> SUFFICES ASSUME Import!ImportParameters, Import!ImportInit PROVE Import!ImportInv
  OBVIOUS
<1>1. /\ ranch \in [Projects -> [name : Titles \cup {"-"}, people : SUBSET Holders]]
      /\ inventory = ranch
  BY DEF Import!ImportInit, Import!NoProject
<1>2. imported = <<>> /\ listing = <<>> /\ todo = {}
  BY DEF Import!ImportInit
<1>3. imported \in Seq(Import!ResourceProjects)
         /\ listing \in Seq(Import!ResourceProjects) /\ Import!NoTwins
  BY <1>2 DEF Import!NoTwins
<1> QED BY <1>1, <1>2, <1>3 DEF Import!ImportInv

\* Two ResourceProjects differ, by index.
LEMMA TwinsByIndex ==
    ASSUME Import!ImportInv
    PROVE  /\ DOMAIN imported = 1 .. Len(imported) /\ DOMAIN listing = 1 .. Len(listing)
           /\ Len(imported) \in Nat /\ Len(listing) \in Nat
           /\ \A k \in 1 .. Len(imported) : imported[k] \in Import!ResourceProjects
           /\ \A k \in 1 .. Len(listing) : listing[k] \in Import!ResourceProjects
BY DEF Import!ImportInv

\* What is looked up has the Rancher project, or its name while nothing has the project.
LEMMA LooksUp ==
    ASSUME Import!ImportInv, NEW p \in Projects
    PROVE  /\ Import!Lookup(p) \subseteq 1 .. Len(listing)
           /\ \A k \in Import!Lookup(p) : listing[k].link = p
                 \/ (\A j \in 1 .. Len(listing) : listing[j].link # p)
           /\ Import!Lookup(p) = {} => \A j \in 1 .. Len(listing) :
                listing[j].link # p /\ listing[j].name # inventory[p].name
<1>1. DOMAIN listing = 1 .. Len(listing)
  BY TwinsByIndex
<1> DEFINE linked == {k \in 1 .. Len(listing) : listing[k].link = p}
           byName == {k \in 1 .. Len(listing) : listing[k].name = inventory[p].name}
<1>2. Import!Lookup(p) = IF linked # {} THEN linked ELSE byName
  BY <1>1 DEF Import!Lookup
<1> QED BY <1>2

\* What the steps do to a ResourceProject: the name stays, nobody loses a role, and the
\* link of the project is recorded where there was none.
Imports(x, y, p) ==
    /\ y \in Import!ResourceProjects /\ y.name = x.name /\ x.team \subseteq y.team
    /\ y.link = x.link \/ (x.link = "-" /\ y.link = p)

\* The two calls on a ResourceProject that is there, or was just made.
LEMMA CallsImport ==
    ASSUME Import!ImportInv, NEW p \in Projects, NEW x \in Import!ResourceProjects,
           NEW done \in SUBSET Import!Grants(p)
    PROVE  /\ Imports(x, Import!ApplyGrants(x, p, done), p)
           /\ Imports(x, Import!ApplyGrants(Import!RecordBackendId(x, p), p, done), p)
<1>1. done \subseteq Holders
  BY DEF Import!Grants, Import!ImportInv
<1>2. x.team \subseteq Holders /\ x.link \in Projects \cup {"-"} /\ x.name \in Titles
  BY DEF Import!ResourceProjects
<1> DEFINE y == [x EXCEPT !.link = IF x.link = "-" THEN p ELSE x.link]
<1>3. y \in Import!ResourceProjects /\ y.name = x.name /\ y.team = x.team
      /\ (y.link = x.link \/ (x.link = "-" /\ y.link = p))
  BY <1>2 DEF Import!ResourceProjects
<1>4. Import!RecordBackendId(x, p) = y
  BY DEF Import!RecordBackendId
<1> HIDE DEF y
<1>5. Imports(x, Import!ApplyGrants(y, p, done), p)
  BY <1>1, <1>3 DEF Imports, Import!ApplyGrants, Import!ResourceProjects
<1>6. Imports(x, Import!ApplyGrants(x, p, done), p)
  BY <1>1 DEF Imports, Import!ApplyGrants, Import!ResourceProjects
<1> QED BY <1>4, <1>5, <1>6

\* The end of the work on one project, whatever became of it.
LEMMA ProjectIsDone ==
    ASSUME Import!ImportInv,
           NEW p \in todo, todo' = todo \ {p}, UNCHANGED <<ranch, inventory, listing>>,
           imported' = imported
    PROVE  Import!ImportInv' /\ Import!ImportKeeps
<1>1. todo # {} /\ Import!Underway
  BY DEF Import!ImportInv
<1>2. Import!Underway'
  BY <1>1 DEF Import!Underway, Import!DuplicateName
<1>3. Import!ImportKeeps
  BY DEF Import!ImportKeeps
<1> QED BY <1>2, <1>3 DEF Import!ImportInv, Import!NoTwins

\* A project whose ResourceProject is there.
LEMMA ExistingKeepsImport ==
    ASSUME Import!ImportParameters, Import!ImportInv,
           NEW p \in Projects, Import!ImportExisting(p)
    PROVE  Import!ImportInv' /\ Import!ImportKeeps
<1>1. /\ p \in todo /\ todo' = todo \ {p} /\ ~Import!DuplicateName(p) /\ Import!Underway
      /\ ranch' = ranch /\ inventory' = inventory /\ listing' = listing
  BY DEF Import!ImportExisting, Import!ImportInv
<1>2. PICK k \in Import!Lookup(p) :
        /\ listing[k].name = inventory[p].name
        /\ \/ imported' = [imported EXCEPT ![k] = Import!ApplyGrants(Import!RecordBackendId(imported[k], p), p, Import!Grants(p))]
           \/ \E done \in SUBSET Import!Grants(p), linked \in BOOLEAN :
                 imported' = [imported EXCEPT ![k] = Import!ApplyGrants(IF linked
                    THEN Import!RecordBackendId(imported[k], p) ELSE imported[k], p, done)]
  BY DEF Import!ImportExisting
<1>3. k \in 1 .. Len(listing) /\ k \in 1 .. Len(imported)
         /\ imported[k] \in Import!ResourceProjects
      /\ Len(imported) \in Nat /\ Len(listing) \in Nat
  <2>1. k \in 1 .. Len(listing)
    BY LooksUp
  <2>2. Len(listing) <= Len(imported)
    BY <1>1 DEF Import!Underway
  <2> QED BY <2>1, <2>2, TwinsByIndex
<1>4. PICK y : Imports(imported[k], y, p) /\ imported' = [imported EXCEPT ![k] = y]
  <2>1. CASE imported' = [imported EXCEPT ![k] = Import!ApplyGrants(Import!RecordBackendId(imported[k], p), p, Import!Grants(p))]
    BY <1>3, <2>1, CallsImport
  <2>2. CASE \E done \in SUBSET Import!Grants(p), linked \in BOOLEAN :
                 imported' = [imported EXCEPT ![k] = Import!ApplyGrants(IF linked
                    THEN Import!RecordBackendId(imported[k], p) ELSE imported[k], p, done)]
    <3>1. PICK done \in SUBSET Import!Grants(p), linked \in BOOLEAN :
                 imported' = [imported EXCEPT ![k] = Import!ApplyGrants(IF linked
                    THEN Import!RecordBackendId(imported[k], p) ELSE imported[k], p, done)]
      BY <2>2
    <3>2. /\ Imports(imported[k], Import!ApplyGrants(imported[k], p, done), p)
          /\ Imports(imported[k], Import!ApplyGrants(Import!RecordBackendId(imported[k], p),
              p, done), p)
      BY <1>3, CallsImport
    <3>3. CASE linked
      BY <3>1, <3>2, <3>3
    <3>4. CASE ~linked
      BY <3>1, <3>2, <3>4
    <3> QED BY <3>3, <3>4
  <2> QED BY <1>2, <2>1, <2>2
<1>5. /\ imported' \in Seq(Import!ResourceProjects) /\ Len(imported') = Len(imported)
      /\ imported'[k] = y /\ \A j \in 1 .. Len(imported) : j # k => imported'[j] = imported[j]
  <2>1. imported \in Seq(Import!ResourceProjects) /\ y \in Import!ResourceProjects
    BY <1>4 DEF Import!ImportInv, Imports
  <2> QED BY <1>3, <1>4, <2>1
<1>6. \A j \in 1 .. Len(imported) : imported[j].link = p => j = k /\ listing[k].link = p
  <2> SUFFICES ASSUME NEW j \in 1 .. Len(imported), imported[j].link = p
               PROVE  j = k /\ listing[k].link = p
    OBVIOUS
  <2>1. j \in 1 .. Len(listing) /\ listing[j].link = p
    BY <1>1, <1>3 DEF Import!Underway
  <2>2. listing[k].link = p
    BY <2>1, LooksUp
  <2>3. imported[k].link = p
    BY <1>1, <1>3, <2>2 DEF Import!Underway, Import!ImportParameters
  <2>4. j = k
    BY <1>3, <2>3, TwinsByIndex DEF Import!ImportInv, Import!NoTwins, Import!ImportParameters
  <2> QED BY <2>2, <2>4
<1>7. Import!NoTwins'
  <2>1. DOMAIN imported' = 1 .. Len(imported)
    BY <1>5
  <2>2. ASSUME NEW i \in 1 .. Len(imported), NEW j \in 1 .. Len(imported), i # j
        PROVE  imported'[i].name # imported'[j].name
                  /\ (imported'[i].link # "-" => imported'[i].link # imported'[j].link)
    <3>1. /\ imported[i].name # imported[j].name
          /\ imported[i].link # "-" => imported[i].link # imported[j].link
          /\ imported[j].link # "-" => imported[i].link # imported[j].link
      BY <2>2, TwinsByIndex DEF Import!ImportInv, Import!NoTwins
    <3>2. CASE i = k
      <4>1. imported'[i] = y /\ imported'[j] = imported[j] /\ imported[j].link # p
        BY <1>5, <1>6, <2>2, <3>2
      <4> QED BY <1>4, <3>1, <3>2, <4>1 DEF Imports
    <3>3. CASE j = k
      <4>1. imported'[j] = y /\ imported'[i] = imported[i] /\ imported[i].link # p
        BY <1>5, <1>6, <2>2, <3>3
      <4> QED BY <1>4, <3>1, <3>3, <4>1 DEF Imports
    <3>4. CASE i # k /\ j # k
      BY <1>5, <3>1, <3>4
    <3> QED BY <3>2, <3>3, <3>4
  <2> QED BY <2>1, <2>2 DEF Import!NoTwins
<1>8. Import!Underway'
  <2>1. Len(listing') <= Len(imported')
    BY <1>1, <1>5 DEF Import!Underway
  <2>2. ASSUME NEW j \in 1 .. Len(listing)
        PROVE  /\ imported'[j].name = listing[j].name
               /\ listing[j].link # "-" => imported'[j].link = listing[j].link
    <3>1. /\ imported[j].name = listing[j].name /\ j \in 1 .. Len(imported)
          /\ listing[j].link # "-" => imported[j].link = listing[j].link
      BY <1>1, <1>3 DEF Import!Underway
    <3>2. CASE j = k
      BY <1>4, <1>5, <3>1, <3>2 DEF Imports
    <3>3. CASE j # k
      BY <1>5, <3>1, <3>3
    <3> QED BY <3>2, <3>3
  <2>3. ASSUME NEW j \in 1 .. Len(imported), imported'[j].link \in todo'
        PROVE  j <= Len(listing) /\ listing[j].link = imported'[j].link
    <3>1. imported'[j].link # p /\ imported'[j].link \in todo
      BY <1>1, <2>3
    <3>2. imported'[j].link = imported[j].link
      BY <1>4, <1>5, <3>1 DEF Imports
    <3> QED BY <1>1, <3>1, <3>2 DEF Import!Underway
  <2>4. ASSUME NEW j \in (Len(listing) + 1) .. Len(imported)
        PROVE  \E q \in Projects \ todo' : ~Import!DuplicateName(q)'
                  /\ imported'[j].name = inventory'[q].name
    <3>1. PICK q \in Projects \ todo : ~Import!DuplicateName(q)
             /\ imported[j].name = inventory[q].name
      BY <1>1 DEF Import!Underway
    <3>2. j \in 1 .. Len(imported) /\ j # k
      BY <1>3
    <3>3. imported'[j] = imported[j] /\ q \in Projects \ todo' /\ ~Import!DuplicateName(q)'
      BY <1>1, <1>5, <3>1, <3>2 DEF Import!DuplicateName
    <3> QED BY <1>1, <3>1, <3>3
  <2> QED BY <1>1, <1>5, <2>1, <2>2, <2>3, <2>4 DEF Import!Underway
<1>9. Import!ImportKeeps
  <2> SUFFICES ASSUME NEW j \in 1 .. Len(imported)
               PROVE  /\ imported[j].link # "-" => imported'[j].link = imported[j].link
                      /\ imported[j].team \subseteq imported'[j].team
    BY TwinsByIndex DEF Import!ImportKeeps
  <2>1. CASE j = k
    BY <1>4, <1>5, <2>1 DEF Imports
  <2>2. CASE j # k
    BY <1>5, <2>2
  <2> QED BY <2>1, <2>2
<1> QED BY <1>1, <1>5, <1>7, <1>8, <1>9 DEF Import!ImportInv

\* A project whose ResourceProject is made.
LEMMA CreateKeepsImport ==
    ASSUME Import!ImportParameters, Import!ImportInv,
           NEW p \in Projects, Import!CreateProject(p)
    PROVE  Import!ImportInv' /\ Import!ImportKeeps
<1>1. /\ p \in todo /\ todo' = todo \ {p} /\ ~Import!DuplicateName(p) /\ Import!Underway
      /\ Import!Lookup(p) = {}
      /\ ranch' = ranch /\ inventory' = inventory /\ listing' = listing
  BY DEF Import!CreateProject, Import!ImportInv
<1> DEFINE new == [name |-> inventory[p].name, link |-> "-", team |-> {}]
<1>2. new \in Import!ResourceProjects /\ new.name = inventory[p].name /\ new.link = "-"
  BY <1>1 DEF Import!ImportInv, Import!ResourceProjects
<1>3. CASE imported' = imported
  BY <1>1, <1>3, ProjectIsDone
<1>4. CASE \E y : Imports(new, y, p) /\ imported' = Append(imported, y)
  <2>1. PICK y : Imports(new, y, p) /\ imported' = Append(imported, y)
    BY <1>4
  <2>2. y \in Import!ResourceProjects /\ y.name = inventory[p].name /\ y.link \in {"-", p}
    BY <1>2, <2>1 DEF Imports
  <2> HIDE DEF new
  <2> DEFINE n == Len(imported)
  <2>3. n \in Nat /\ Len(listing) \in Nat /\ Len(listing) <= n
    BY <1>1, TwinsByIndex DEF Import!Underway
  <2>4. /\ imported' \in Seq(Import!ResourceProjects) /\ Len(imported') = n + 1
        /\ imported'[n + 1] = y /\ \A j \in 1 .. n : imported'[j] = imported[j]
    <3>1. imported \in Seq(Import!ResourceProjects)
      BY DEF Import!ImportInv
    <3> QED BY <2>1, <2>2, <3>1
  <2>5. \A j \in 1 .. n : imported[j].name # y.name /\ imported[j].link # p
    <3> SUFFICES ASSUME NEW j \in 1 .. n
                 PROVE  imported[j].name # y.name /\ imported[j].link # p
      OBVIOUS
    <3>1. imported[j].link # p
      <4>1. imported[j].link = p => j \in 1 .. Len(listing) /\ listing[j].link = p
        BY <1>1, <2>3 DEF Import!Underway
      <4> QED BY <1>1, <4>1, LooksUp
    <3>2. CASE j <= Len(listing)
      <4>1. j \in 1 .. Len(listing)
        BY <2>3, <3>2
      <4>2. imported[j].name = listing[j].name
        BY <1>1, <4>1 DEF Import!Underway
      <4> QED BY <1>1, <2>2, <3>1, <4>1, <4>2, LooksUp
    <3>3. CASE ~(j <= Len(listing))
      <4>1. j \in (Len(listing) + 1) .. n
        BY <2>3, <3>3
      <4>2. PICK q \in Projects \ todo : ~Import!DuplicateName(q)
               /\ imported[j].name = inventory[q].name
        BY <1>1, <4>1 DEF Import!Underway
      <4>3. q # p
        BY <1>1, <4>2
      <4>4. inventory[p].name # inventory[q].name
        BY <4>2, <4>3 DEF Import!DuplicateName
      <4> QED BY <2>2, <3>1, <4>2, <4>4
    <3> QED BY <3>2, <3>3
  <2>6. Import!NoTwins'
    <3>1. DOMAIN imported' = 1 .. (n + 1)
      BY <2>4
    <3>2. ASSUME NEW i \in 1 .. (n + 1), NEW j \in 1 .. (n + 1), i # j
          PROVE  imported'[i].name # imported'[j].name
                    /\ (imported'[i].link # "-" => imported'[i].link # imported'[j].link)
      <4>1. CASE i = n + 1
        <5>1. j \in 1 .. n /\ imported'[i] = y /\ imported'[j] = imported[j]
          BY <2>3, <2>4, <3>2, <4>1
        <5> QED BY <2>2, <2>5, <5>1
      <4>2. CASE j = n + 1
        <5>1. i \in 1 .. n /\ imported'[j] = y /\ imported'[i] = imported[i]
          BY <2>3, <2>4, <3>2, <4>2
        <5> QED BY <2>2, <2>5, <5>1
      <4>3. CASE i # n + 1 /\ j # n + 1
        <5>1. i \in 1 .. n /\ j \in 1 .. n
          BY <2>3, <3>2, <4>3
        <5>2. imported'[i] = imported[i] /\ imported'[j] = imported[j]
          BY <2>4, <5>1
        <5> QED BY <3>2, <5>1, <5>2, TwinsByIndex DEF Import!ImportInv, Import!NoTwins
      <4> QED BY <4>1, <4>2, <4>3
    <3> HIDE DEF n
    <3> QED BY <3>1, <3>2 DEF Import!NoTwins
  <2>7. Import!Underway'
    <3>1. Len(listing') <= Len(imported')
      BY <1>1, <2>3, <2>4
    <3>2. ASSUME NEW j \in 1 .. Len(listing)
          PROVE  /\ imported'[j].name = listing[j].name
                 /\ listing[j].link # "-" => imported'[j].link = listing[j].link
      <4>1. j \in 1 .. n
        BY <2>3
      <4> QED BY <1>1, <2>4, <4>1 DEF Import!Underway
    <3>3. ASSUME NEW j \in 1 .. (n + 1), imported'[j].link \in todo'
          PROVE  j <= Len(listing) /\ listing[j].link = imported'[j].link
      <4>1. j # n + 1
        BY <1>1, <2>2, <2>4, <3>3 DEF Import!ImportInv, Import!ImportParameters
      <4>2. j \in 1 .. n
        BY <2>3, <4>1
      <4> QED BY <1>1, <2>4, <3>3, <4>2 DEF Import!Underway
    <3>4. ASSUME NEW j \in (Len(listing) + 1) .. (n + 1)
          PROVE  \E q \in Projects \ todo' : ~Import!DuplicateName(q)'
                    /\ imported'[j].name = inventory'[q].name
      <4>1. CASE j = n + 1
        <5>1. p \in Projects \ todo' /\ ~Import!DuplicateName(p)'
                 /\ imported'[j].name = inventory'[p].name
          BY <1>1, <2>2, <2>4, <4>1 DEF Import!DuplicateName
        <5> QED BY <5>1
      <4>2. CASE j # n + 1
        <5>1. j \in (Len(listing) + 1) .. n /\ j \in 1 .. n
          BY <2>3, <4>2
        <5>2. PICK q \in Projects \ todo : ~Import!DuplicateName(q)
                 /\ imported[j].name = inventory[q].name
          BY <1>1, <5>1 DEF Import!Underway
        <5>3. imported'[j] = imported[j] /\ q \in Projects \ todo'
                 /\ ~Import!DuplicateName(q)'
          BY <1>1, <2>4, <5>1, <5>2 DEF Import!DuplicateName
        <5> QED BY <1>1, <5>2, <5>3
      <4> QED BY <4>1, <4>2
    <3> HIDE DEF n
    <3> QED BY <1>1, <2>4, <3>1, <3>2, <3>3, <3>4 DEF Import!Underway
  <2>8. Import!ImportKeeps
    BY <2>4, TwinsByIndex DEF Import!ImportKeeps
  <2> QED BY <1>1, <2>4, <2>6, <2>7, <2>8 DEF Import!ImportInv
<1>5. CASE imported' = Append(imported, Import!ApplyGrants(Import!RecordBackendId(new, p), p,
          Import!Grants(p)))
  <2>1. Imports(new, Import!ApplyGrants(Import!RecordBackendId(new, p), p, Import!Grants(p)),
            p)
    BY <1>2, CallsImport
  <2> QED BY <1>4, <1>5, <2>1
<1>6. CASE \E done \in SUBSET Import!Grants(p), linked \in BOOLEAN :
              imported' = Append(imported, Import!ApplyGrants(IF linked
                 THEN Import!RecordBackendId(new, p) ELSE new, p, done))
  <2>1. PICK done \in SUBSET Import!Grants(p), linked \in BOOLEAN :
              imported' = Append(imported, Import!ApplyGrants(IF linked
                 THEN Import!RecordBackendId(new, p) ELSE new, p, done))
    BY <1>6
  <2>2. /\ Imports(new, Import!ApplyGrants(new, p, done), p)
        /\ Imports(new, Import!ApplyGrants(Import!RecordBackendId(new, p), p, done), p)
    BY <1>2, CallsImport
  <2>3. CASE linked
    BY <1>4, <2>1, <2>2, <2>3
  <2>4. CASE ~linked
    BY <1>4, <2>1, <2>2, <2>4
  <2> QED BY <2>3, <2>4
<1> HIDE DEF new
<1>7. \/ imported' = imported
      \/ imported' = Append(imported, Import!ApplyGrants(Import!RecordBackendId(new, p), p,
          Import!Grants(p)))
      \/ \E done \in SUBSET Import!Grants(p), linked \in BOOLEAN :
              imported' = Append(imported, Import!ApplyGrants(IF linked
                 THEN Import!RecordBackendId(new, p) ELSE new, p, done))
  BY DEF Import!CreateProject, new
<1> QED BY <1>3, <1>5, <1>6, <1>7

\* Every step of the import keeps the invariant, and what earlier runs recorded.
LEMMA ImportStepsKeep ==
    ASSUME Import!ImportParameters, Import!ImportInv, [Import!ImportNext]_(Import!ivars)
    PROVE  Import!ImportInv' /\ Import!ImportKeeps
<1>1. CASE Import!RancherEdit
  <2>1. imported' = imported /\ inventory' = inventory /\ listing' = listing /\ todo' = todo
    BY <1>1 DEF Import!RancherEdit
  <2>2. ranch' \in [Projects -> [name : Titles \cup {"-"}, people : SUBSET Holders]]
    BY <1>1 DEF Import!RancherEdit, Import!ImportInv
  <2>3. (todo # {} => Import!Underway)' /\ Import!NoTwins'
    BY <2>1 DEF Import!ImportInv, Import!Underway, Import!DuplicateName, Import!NoTwins
  <2> QED BY <2>1, <2>2, <2>3 DEF Import!ImportInv, Import!ImportKeeps
<1>2. CASE Import!CmdInventory
  BY <1>2 DEF Import!CmdInventory, Import!ImportInv, Import!NoTwins, Import!ImportKeeps
<1>3. CASE Import!CmdApply
  <2>1. /\ imported' = imported /\ inventory' = inventory /\ listing' = imported
        /\ ranch' = ranch
        /\ todo' = {p \in Projects : inventory[p].name # "-"}
    BY <1>3 DEF Import!CmdApply
  <2>2. Import!Underway'
    BY <2>1, TwinsByIndex DEF Import!Underway
  <2> QED BY <2>1, <2>2 DEF Import!ImportInv, Import!NoTwins, Import!ImportKeeps
<1>4. CASE Import!ImportStep
  <2>1. PICK p \in Projects : Import!ImportExisting(p) \/ Import!CreateProject(p)
           \/ Import!SkipProject(p)
    BY <1>4 DEF Import!ImportStep
  <2>2. CASE Import!SkipProject(p)
    BY <2>2, ProjectIsDone DEF Import!SkipProject
  <2> QED BY <2>1, <2>2, ExistingKeepsImport, CreateKeepsImport
<1>5. CASE Import!Interrupted
  BY <1>5 DEF Import!Interrupted, Import!ImportInv, Import!NoTwins, Import!ImportKeeps
<1>6. CASE UNCHANGED Import!ivars
  BY <1>6 DEF Import!ivars, Import!ImportInv, Import!Underway, Import!DuplicateName,
     Import!NoTwins, Import!ImportKeeps
<1> QED BY <1>1, <1>2, <1>3, <1>4, <1>5, <1>6 DEF Import!ImportNext

-----------------------------------------------------------------------------
(* The managed namespace.                                                    *)

\* What a deletion leaves: no custom resource, and the groups it had to keep.
LEMMA DeletionLeaves ==
    ASSUME Ns!NsInv, Ns!DeleteResource, nsLife' = "TERMINATED", nsNamed'
    PROVE  ~ns'.exists /\ \A r \in NsRoles : kc'.exists[r] => r \in undeleted'
<1>1. nsNamed /\ nsLife = "terminating"
  BY DEF Ns!DeleteResource
<1>2. PICK stay \in SUBSET NsRoles : kc' = Ns!DeleteKeycloakGroups(kc, stay)
         /\ undeleted' = stay
  BY <1>1 DEF Ns!DeleteResource
<1>3. ns' = Ns!NoNamespace
  BY <1>1 DEF Ns!DeleteResource
<1>4. \A r \in NsRoles : kc'.exists[r] => r \in stay
  BY <1>2 DEF Ns!DeleteKeycloakGroups
<1> QED BY <1>2, <1>3, <1>4 DEF Ns!NoNamespace

\* No step but a deletion leads to a terminated namespace, and none leads back.
LEMMA NsStepsKeep == Ns!NsInv /\ [Ns!NsNext]_(Ns!nsvars) => Ns!NsInv'
<1> SUFFICES ASSUME Ns!NsInv, [Ns!NsNext]_(Ns!nsvars) PROVE Ns!NsInv'
  OBVIOUS
<1> USE DEF Ns!NsNext, Ns!nsvars, Ns!NsEdit, Ns!SetResourceLimits, Ns!ReadsStatus,
        Ns!AppliesStatus, Ns!SyncsEmptyTeam,
     Ns!AddUsersToResource, Ns!RemovesStale, Ns!RoleEvent, Ns!nsRecord
<1>1. CASE Ns!DeleteResource
  <2>1. Ns!NamespaceGone'
    BY <1>1, DeletionLeaves DEF Ns!NamespaceGone
  <2>2. nsLife' \in {"TERMINATED", "ERRED"}
    BY <1>1 DEF Ns!DeleteResource
  <2> QED BY <2>1, <2>2 DEF Ns!NsInv
<1>2. CASE Ns!CreateResourceWithId
  BY <1>2 DEF Ns!CreateResourceWithId, Ns!NsInv, Ns!NamespaceGone
<1>3. CASE ~Ns!DeleteResource /\ ~Ns!CreateResourceWithId
  <2>1. nsNamed' = nsNamed /\ undeleted' = undeleted
    BY <1>3
  <2>2. /\ nsLife' \in {"none", "creating", "OK", "ERRED", "terminating", "TERMINATED"}
        /\ nsLife' \in {"OK", "TERMINATED"} => nsLife' = nsLife
    BY <1>3 DEF Ns!NsInv
  <2>3. ASSUME nsLife = "TERMINATED", nsNamed PROVE ns' = ns /\ kc' = kc
    <3>1. ~ns.exists
      BY <2>3 DEF Ns!NsInv, Ns!NamespaceGone
    <3> QED BY <1>3, <2>3, <3>1 DEF Ns!PauseResource, Ns!DownscaleResource
  <2> QED BY <2>1, <2>2, <2>3 DEF Ns!NsInv, Ns!NamespaceGone
<1> QED BY <1>1, <1>2, <1>3

\* There is no namespace at first.
LEMMA NsBegins == Ns!NsInit => Ns!NsInv
BY DEF Ns!NsInit, Ns!NsInv, Ns!NamespaceGone

\* What the invariant says of a terminated namespace.
LEMMA NsLeavesNothing == Ns!NsInv => Ns!NamespaceGone
BY DEF Ns!NsInv

-----------------------------------------------------------------------------
(* The team folders of Nextcloud.                                            *)

\* There is no folder at first.
LEMMA NcBegins == Cloud!NcParameters /\ Cloud!NcInit => Cloud!NcInv
<1> SUFFICES ASSUME Cloud!NcParameters, Cloud!NcInit PROVE Cloud!NcInv
  OBVIOUS
<1>1. Cloud!Empty \in Cloud!Folders
  BY DEF Cloud!Empty, Cloud!Folders
<1> QED BY <1>1 DEF Cloud!NcInit, Cloud!NcInv

\* A step on one share that leaves it linked, or not made.
LEMMA OneShare ==
    ASSUME Cloud!NcInv, NEW r \in Shares,
           NEW c \in Cloud!Folders, cloud' = [cloud EXCEPT ![r] = c],
           NEW l \in {"creating", "made", "ok", "terminating", "gone", "erred"},
           ncLife' = [ncLife EXCEPT ![r] = l], l \in {"made", "ok"} => c.group /\ c.linked,
           ncRow' \in [Shares -> Cloud!Row],
           ncSeen' \in [Shares -> {Cloud!Unread} \cup [step : {"users", "status", "limits"},
               row : Cloud!Row]]
    PROVE  Cloud!NcInv'
<1>1. \A q \in Shares :
         /\ cloud'[q] = IF q = r THEN c ELSE cloud[q]
         /\ ncLife'[q] = IF q = r THEN l ELSE ncLife[q]
  BY DEF Cloud!NcInv
<1> QED BY <1>1 DEF Cloud!NcInv

\* A row that was read is one.
LEMMA RowRead ==
    ASSUME Cloud!NcInv, NEW r \in Shares, ncSeen[r].step \in {"users", "status", "limits"}
    PROVE  /\ ncSeen[r] \in [step : {"users", "status", "limits"}, row : Cloud!Row]
           /\ ncSeen[r].row \in Cloud!Row /\ ncSeen[r].row.limit \in Sizes
           /\ ncSeen[r].row.team \subseteq Guests
<1>1. ncSeen[r] # Cloud!Unread
  BY DEF Cloud!Unread
<1>2. ncSeen[r] \in [step : {"users", "status", "limits"}, row : Cloud!Row]
  BY <1>1 DEF Cloud!NcInv
<1>3. ncSeen[r].row \in Cloud!Row
  BY <1>2
<1> QED BY <1>2, <1>3 DEF Cloud!Row

\* The last action of a pass on one share.
LEMMA StepTypes ==
    ASSUME Cloud!NcInv, NEW r \in Shares, ncSeen[r].step \in {"users", "status", "limits"},
           NEW next \in {"status", "limits", "none"}, Cloud!AfterStep(r, next)
    PROVE  ncSeen' \in [Shares -> {Cloud!Unread} \cup [step : {"users", "status", "limits"},
               row : Cloud!Row]]
<1>1. ncSeen[r] \in [step : {"users", "status", "limits"}, row : Cloud!Row]
  BY RowRead
<1>2. next # "none"
         => [ncSeen[r] EXCEPT !.step = next] \in [step : {"users", "status", "limits"},
             row : Cloud!Row]
  BY <1>1
<1>3. ncSeen \in [Shares -> {Cloud!Unread} \cup [step : {"users", "status", "limits"},
          row : Cloud!Row]]
  BY DEF Cloud!NcInv
<1> DEFINE x == IF next = "none" THEN Cloud!Unread ELSE [ncSeen[r] EXCEPT !.step = next]
<1>4. x \in {Cloud!Unread} \cup [step : {"users", "status", "limits"}, row : Cloud!Row]
  BY <1>2
<1>5. ncSeen' = [ncSeen EXCEPT ![r] = x]
  BY DEF Cloud!AfterStep
<1> HIDE DEF x
<1> QED BY <1>3, <1>4, <1>5

\* A creation links the folder to its group.
LEMMA StepsOfFolder ==
    ASSUME Cloud!NcInv, NEW r \in Shares, NEW k \in 1..3
    PROVE  /\ Cloud!FolderSteps(r, k) \in Cloud!Folders
           /\ Cloud!FolderSteps(r, k).members = cloud[r].members
           /\ k = 3 => Cloud!FolderSteps(r, k).group /\ Cloud!FolderSteps(r, k).linked
<1>1. PICK c \in Cloud!Folders : cloud[r] = c
  BY DEF Cloud!NcInv
<1> DEFINE c1 == [c EXCEPT !.group = TRUE]
           c2 == [c EXCEPT !.group = TRUE, !.folder = TRUE]
           c3 == [c1 EXCEPT !.folder = TRUE, !.linked = TRUE]
<1>5. c1 \in Cloud!Folders /\ c1.members = c.members /\ c1.group
  BY DEF Cloud!Folders
<1>6. c2 \in Cloud!Folders /\ c2.members = c.members
  BY DEF Cloud!Folders
<1>7. c3 \in Cloud!Folders /\ c3.members = c.members /\ c3.group /\ c3.linked
  <2> HIDE DEF c1
  <2> QED BY <1>5 DEF Cloud!Folders
<1>2. CASE k = 1
  <2>1. Cloud!FolderSteps(r, k) = c1
    BY <1>1, <1>2 DEF Cloud!FolderSteps
  <2> HIDE DEF c1
  <2> QED BY <1>1, <1>2, <1>5, <2>1
<1>3. CASE k = 2
  <2>1. Cloud!FolderSteps(r, k) = c2
    BY <1>1, <1>3 DEF Cloud!FolderSteps
  <2> HIDE DEF c2
  <2> QED BY <1>1, <1>3, <1>6, <2>1
<1>4. CASE k = 3
  <2>1. Cloud!FolderSteps(r, k) = c3
    BY <1>1, <1>4 DEF Cloud!FolderSteps, Cloud!GroupToFolder
  <2> HIDE DEF c3
  <2> QED BY <1>1, <1>7, <2>1
<1> QED BY <1>2, <1>3, <1>4

\* A step keeps what is made linked.
LEMMA NcStepsKeep ==
    Cloud!NcParameters /\ Cloud!NcInv /\ [Cloud!NcNext]_(Cloud!ncvars) => Cloud!NcInv'
<1> SUFFICES ASSUME Cloud!NcParameters, Cloud!NcInv, [Cloud!NcNext]_(Cloud!ncvars) PROVE Cloud!NcInv'
  OBVIOUS
<1> DEFINE Lives == {"creating", "made", "ok", "terminating", "gone", "erred"}
           Seen == {Cloud!Unread} \cup [step : {"users", "status", "limits"}, row : Cloud!Row]
<1>0. /\ cloud \in [Shares -> Cloud!Folders] /\ ncRow \in [Shares -> Cloud!Row]
      /\ ncLife \in [Shares -> Lives]
      /\ ncSeen \in [Shares -> Seen]
      /\ \A r \in Shares : ncLife[r] \in {"made", "ok"} => cloud[r].group /\ cloud[r].linked
  BY DEF Cloud!NcInv
<1>s. Sizes \subseteq Int
  BY DEF Cloud!NcParameters
<1>1. ASSUME UNCHANGED <<cloud, ncLife>>, ncRow' \in [Shares -> Cloud!Row],
             ncSeen' \in [Shares -> Seen]
      PROVE  Cloud!NcInv'
  BY <1>0, <1>1 DEF Cloud!NcInv
<1>2. ASSUME NEW r \in Shares, UNCHANGED ncLife,
             NEW c \in Cloud!Folders, c.group = cloud[r].group,
             c.linked = cloud[r].linked, cloud' = [cloud EXCEPT ![r] = c],
             ncRow' \in [Shares -> Cloud!Row], ncSeen' \in [Shares -> Seen]
      PROVE  Cloud!NcInv'
  <2>1. \A q \in Shares : cloud'[q] = IF q = r THEN c ELSE cloud[q]
    BY <1>0, <1>2
  <2>2. cloud' \in [Shares -> Cloud!Folders]
    BY <1>0, <1>2
  <2> QED BY <1>0, <1>2, <2>1, <2>2 DEF Cloud!NcInv
<1>3. CASE Cloud!NcEdit
  <2>1. PICK r \in Shares :
          \/ ncLife[r] = "ok" /\ ncLife' = [ncLife EXCEPT ![r] = "terminating"]
             /\ UNCHANGED ncRow
          \/ /\ \E w \in {[ncRow[r] EXCEPT !.paused = ~@], [ncRow[r] EXCEPT !.down = ~@]}
                      \cup {[ncRow[r] EXCEPT !.team = t] : t \in SUBSET Guests} : ncRow' = [ncRow EXCEPT ![r] = w]
             /\ UNCHANGED ncLife
    BY <1>3 DEF Cloud!NcEdit
  <2>2. UNCHANGED <<cloud, ncSeen>>
    BY <1>3 DEF Cloud!NcEdit
  <2>3. CASE ncLife' = [ncLife EXCEPT ![r] = "terminating"] /\ UNCHANGED ncRow
    <3>1. cloud' = [cloud EXCEPT ![r] = cloud[r]] /\ cloud[r] \in Cloud!Folders
      BY <1>0, <2>2
    <3> QED BY <1>0, <2>2, <2>3, <3>1, OneShare
  <2>4. CASE /\ \E w \in {[ncRow[r] EXCEPT !.paused = ~@], [ncRow[r] EXCEPT !.down = ~@]}
                      \cup {[ncRow[r] EXCEPT !.team = t] : t \in SUBSET Guests} : ncRow' = [ncRow EXCEPT ![r] = w]
             /\ UNCHANGED ncLife
    <3>1. PICK w \in {[ncRow[r] EXCEPT !.paused = ~@], [ncRow[r] EXCEPT !.down = ~@]}
                      \cup {[ncRow[r] EXCEPT !.team = t] : t \in SUBSET Guests} : ncRow' = [ncRow EXCEPT ![r] = w]
      BY <2>4
    <3>2. PICK v \in Cloud!Row : v = ncRow[r]
      BY <1>0
    <3>3. w \in Cloud!Row
      BY <3>1, <3>2 DEF Cloud!Row
    <3>4. ncRow' \in [Shares -> Cloud!Row]
      BY <1>0, <3>1, <3>3
    <3> QED BY <1>0, <1>1, <2>2, <2>4, <3>4
  <2> QED BY <2>1, <2>3, <2>4
<1>4. ASSUME NEW r \in Shares, Cloud!DuplicateFound(r) PROVE Cloud!NcInv'
  <2>1. /\ cloud' = [cloud EXCEPT ![r] = cloud[r]] /\ cloud[r] \in Cloud!Folders
        /\ ncLife' = [ncLife EXCEPT ![r] = "erred"] /\ UNCHANGED <<ncRow, ncSeen>>
    BY <1>0, <1>4 DEF Cloud!DuplicateFound
  <2> QED BY <1>0, <2>1, OneShare
<1>5. ASSUME NEW r \in Shares, Cloud!CreateStops(r) PROVE Cloud!NcInv'
  <2>1. PICK k \in 1 .. 2 : cloud' = [cloud EXCEPT ![r] = Cloud!FolderSteps(r, k)]
    BY <1>5 DEF Cloud!CreateStops
  <2>2. PICK l \in {"creating", "erred"} : ncLife' = [ncLife EXCEPT ![r] = l]
    BY <1>0, <1>5 DEF Cloud!CreateStops
  <2>3. k \in 1 .. 3
    OBVIOUS
  <2>4. PICK c \in Cloud!Folders : c = Cloud!FolderSteps(r, k)
    BY <2>3, StepsOfFolder
  <2> QED BY <1>0, <1>5, <2>1, <2>2, <2>4, OneShare DEF Cloud!CreateStops
<1>6. ASSUME NEW r \in Shares, Cloud!CreateResource(r) PROVE Cloud!NcInv'
  <2>1. PICK c \in Cloud!Folders : c = Cloud!FolderSteps(r, 3) /\ c.group /\ c.linked
    BY StepsOfFolder
  <2>2. PICK w \in Cloud!Row : w = ncRow[r]
    BY <1>0
  <2>3. w.limit \in Int /\ w.team \subseteq Guests
    BY <2>2, <1>s DEF Cloud!Row
  <2>4. \/ cloud' = [cloud EXCEPT ![r] = [c EXCEPT !.quota = w.limit,
            !.members = @ \cup w.team]]
        \/ cloud' = [cloud EXCEPT ![r] = [c EXCEPT !.members = @ \cup w.team]]
        \/ \E m \in SUBSET w.team : cloud' = [cloud EXCEPT ![r] = [c EXCEPT !.quota = w.limit, !.members = @ \cup m]]
    BY <1>6, <2>1, <2>2 DEF Cloud!CreateResource
  <2>5. PICK d \in Cloud!Folders : cloud' = [cloud EXCEPT ![r] = d] /\ d.group /\ d.linked
    <3>1. [c EXCEPT !.members = @ \cup w.team] \in Cloud!Folders
      BY <2>3 DEF Cloud!Folders
    <3>2. ASSUME NEW m \in SUBSET w.team
          PROVE  [c EXCEPT !.quota = w.limit, !.members = @ \cup m] \in Cloud!Folders
      BY <2>3 DEF Cloud!Folders
    <3>3. ASSUME NEW m PROVE /\ [c EXCEPT !.quota = w.limit, !.members = @ \cup m].group
                             /\ [c EXCEPT !.quota = w.limit, !.members = @ \cup m].linked
                             /\ [c EXCEPT !.members = @ \cup m].group
                             /\ [c EXCEPT !.members = @ \cup m].linked
      BY <2>1 DEF Cloud!Folders
    <3> QED BY <2>4, <3>1, <3>2, <3>3
  <2>6. ncLife' = [ncLife EXCEPT ![r] = "made"] /\ UNCHANGED <<ncRow, ncSeen>>
    BY <1>6 DEF Cloud!CreateResource
  <2> QED BY <1>0, <2>5, <2>6, OneShare
<1>7. ASSUME NEW r \in Shares, Cloud!RecordFolder(r) PROVE Cloud!NcInv'
  <2>1. PICK l \in {"ok", "creating"} : ncLife' = [ncLife EXCEPT ![r] = l]
    BY <1>7 DEF Cloud!RecordFolder
  <2>2. /\ cloud' = [cloud EXCEPT ![r] = cloud[r]] /\ cloud[r] \in Cloud!Folders
        /\ cloud[r].group /\ cloud[r].linked /\ UNCHANGED <<ncRow, ncSeen>>
    BY <1>0, <1>7 DEF Cloud!RecordFolder
  <2> QED BY <1>0, <2>1, <2>2, OneShare
<1>8. ASSUME NEW r \in Shares, Cloud!DeleteFolder(r) PROVE Cloud!NcInv'
  <2>1. PICK c \in Cloud!Folders : c = cloud[r]
    BY <1>0
  <2>2. \/ cloud' = [cloud EXCEPT ![r] = Cloud!Empty]
        \/ cloud' = [cloud EXCEPT ![r] = [Cloud!Empty EXCEPT !.group = TRUE,
            !.members = c.members]]
        \/ cloud' = [cloud EXCEPT ![r].group = FALSE, ![r].linked = FALSE, ![r].members = {}]
    BY <1>8, <2>1 DEF Cloud!DeleteFolder
  <2>0. Cloud!Empty \in Cloud!Folders
    BY DEF Cloud!Empty, Cloud!Folders
  <2>3. [Cloud!Empty EXCEPT !.group = TRUE, !.members = c.members] \in Cloud!Folders
    BY <2>0, <2>1 DEF Cloud!Folders
  <2>4. [c EXCEPT !.group = FALSE, !.linked = FALSE, !.members = {}] \in Cloud!Folders
    BY <2>1 DEF Cloud!Folders
  <2>5. cloud' = [cloud EXCEPT ![r].group = FALSE, ![r].linked = FALSE, ![r].members = {}]
        => cloud' = [cloud EXCEPT ![r] = [c EXCEPT !.group = FALSE, !.linked = FALSE,
            !.members = {}]]
    BY <1>0, <2>1
  <2>6. PICK d \in Cloud!Folders : cloud' = [cloud EXCEPT ![r] = d]
    BY <2>0, <2>2, <2>3, <2>4, <2>5
  <2>7. ncLife' = [ncLife EXCEPT ![r] = "gone"] /\ UNCHANGED <<ncRow, ncSeen>>
    BY <1>8 DEF Cloud!DeleteFolder
  <2> QED BY <1>0, <2>6, <2>7, OneShare
<1>9. ASSUME NEW r \in Shares, Cloud!UpdateQuota(r) PROVE Cloud!NcInv'
  <2>1. PICK q \in Sizes : ncRow' = [ncRow EXCEPT ![r].limit = q]
           /\ cloud' = [cloud EXCEPT ![r].quota = q]
    BY <1>9 DEF Cloud!UpdateQuota
  <2>2. ncRow' \in [Shares -> Cloud!Row]
    <3>1. PICK w \in Cloud!Row : w = ncRow[r]
      BY <1>0
    <3>2. [w EXCEPT !.limit = q] \in Cloud!Row
      BY DEF Cloud!Row
    <3> QED BY <1>0, <2>1, <3>1, <3>2
  <2>3. PICK c \in Cloud!Folders : c = cloud[r]
    BY <1>0
  <2> DEFINE d == [c EXCEPT !.quota = q]
  <2>4. d \in Cloud!Folders /\ d.group = cloud[r].group /\ d.linked = cloud[r].linked
    BY <1>s, <2>3 DEF Cloud!Folders
  <2>5. cloud' = [cloud EXCEPT ![r] = d]
    BY <2>1, <2>3
  <2> HIDE DEF d
  <2> QED BY <1>0, <1>2, <1>9, <2>2, <2>4, <2>5 DEF Cloud!UpdateQuota
<1>10. ASSUME NEW r \in Shares, Cloud!ReadShare(r) PROVE Cloud!NcInv'
  <2>1. ncRow[r] \in Cloud!Row
    BY <1>0
  <2>2. [step |-> "users", row |-> ncRow[r]] \in Seen
    BY <2>1
  <2>3. ncSeen' \in [Shares -> Seen]
    BY <1>0, <1>10, <2>2 DEF Cloud!ReadShare
  <2> QED BY <1>0, <1>1, <1>10, <2>3 DEF Cloud!ReadShare
<1>11. ASSUME NEW r \in Shares, Cloud!SyncUsers(r) PROVE Cloud!NcInv'
  <2>1. ncSeen[r].step \in {"users", "status", "limits"} /\ Cloud!AfterStep(r, "status")
    BY <1>11 DEF Cloud!SyncUsers
  <2>2. ncSeen' \in [Shares -> Seen]
    BY <2>1, StepTypes
  <2>3. PICK t \in SUBSET Guests : t = ncSeen[r].row.team
    BY <2>1, RowRead
  <2>4. PICK c \in Cloud!Folders : c = cloud[r]
    BY <1>0
  <2>5. c.members \subseteq Guests
    BY DEF Cloud!Folders
  <2>6. UNCHANGED cloud \/ \E m \in SUBSET Guests : cloud' = [cloud EXCEPT ![r].members = m]
    BY <1>11, <2>3, <2>4, <2>5 DEF Cloud!SyncUsers, Cloud!NewMembers
  <2>7. CASE UNCHANGED cloud
    BY <1>0, <1>1, <1>11, <2>2, <2>7 DEF Cloud!SyncUsers
  <2>8. CASE \E m \in SUBSET Guests : cloud' = [cloud EXCEPT ![r].members = m]
    <3>1. PICK m \in SUBSET Guests : cloud' = [cloud EXCEPT ![r].members = m]
      BY <2>8
    <3> DEFINE d == [c EXCEPT !.members = m]
    <3>2. d \in Cloud!Folders /\ d.group = cloud[r].group /\ d.linked = cloud[r].linked
      BY <2>4 DEF Cloud!Folders
    <3>3. cloud' = [cloud EXCEPT ![r] = d]
      BY <3>1, <2>4
    <3> HIDE DEF d
    <3> QED BY <1>0, <1>2, <1>11, <2>2, <3>2, <3>3 DEF Cloud!SyncUsers
  <2> QED BY <2>6, <2>7, <2>8
<1>12. ASSUME NEW r \in Shares, Cloud!SyncStatus(r) \/ Cloud!SyncLimits(r) PROVE Cloud!NcInv'
  <2>1. /\ ncSeen[r].step \in {"users", "status", "limits"}
        /\ Cloud!AfterStep(r, "limits") \/ Cloud!AfterStep(r, "none")
        /\ UNCHANGED <<ncLife, ncRow>>
    BY <1>12 DEF Cloud!SyncStatus, Cloud!SyncLimits
  <2>2. ncSeen' \in [Shares -> Seen]
    BY <2>1, StepTypes
  <2>3. PICK c \in Cloud!Folders : c = cloud[r]
    BY <1>0
  <2>4. ncSeen[r].row.limit \in Int /\ c.quota \in Int
    BY <1>s, <2>1, RowRead DEF Cloud!Folders
  <2>5. UNCHANGED cloud \/ \E q \in Int : cloud' = [cloud EXCEPT ![r].quota = q]
    <3>1. Cloud!StatusQuota(ncSeen[r].row, c.quota) \in Int
      BY <2>4 DEF Cloud!StatusQuota
    <3>2. cloud' = [cloud EXCEPT ![r].quota = Cloud!StatusQuota(ncSeen[r].row, @)]
          => cloud' = [cloud EXCEPT ![r].quota = Cloud!StatusQuota(ncSeen[r].row, c.quota)]
      BY <2>3
    <3> QED BY <1>12, <2>4, <3>1, <3>2 DEF Cloud!SyncStatus, Cloud!SyncLimits
  <2>6. CASE UNCHANGED cloud
    BY <1>0, <1>1, <2>1, <2>2, <2>6
  <2>7. CASE \E q \in Int : cloud' = [cloud EXCEPT ![r].quota = q]
    <3>1. PICK q \in Int : cloud' = [cloud EXCEPT ![r].quota = q]
      BY <2>7
    <3> DEFINE d == [c EXCEPT !.quota = q]
    <3>2. d \in Cloud!Folders /\ d.group = cloud[r].group /\ d.linked = cloud[r].linked
      BY <2>3 DEF Cloud!Folders
    <3>3. cloud' = [cloud EXCEPT ![r] = d]
      BY <3>1, <2>3
    <3> HIDE DEF d
    <3> QED BY <1>0, <1>2, <2>1, <2>2, <3>2, <3>3
  <2> QED BY <2>5, <2>6, <2>7
<1>13. CASE UNCHANGED Cloud!ncvars
  BY <1>0, <1>1, <1>13 DEF Cloud!ncvars
<1> QED
  BY <1>3, <1>4, <1>5, <1>6, <1>7, <1>8, <1>9, <1>10, <1>11, <1>12, <1>13 DEF Cloud!NcNext,
     Cloud!NcPass

\* What the invariant says of the folders of the shares that are OK.
LEMMA NcLinked == Cloud!NcInv => Cloud!OkIsLinked
BY DEF Cloud!NcInv, Cloud!OkIsLinked

-----------------------------------------------------------------------------
(* The projects of Harbor.                                                   *)

\* There is a name to try.
LEMMA FirstName ==
    ASSUME Harbor!HarborParameters PROVE Len(Candidates) \in Nat /\ 1 \in 1 .. Len(Candidates)
BY DEF Harbor!HarborParameters

\* The name tried next is one.
LEMMA NameTried ==
    ASSUME Harbor!HarborParameters, Harbor!HarborInv, NEW r \in Registries
    PROVE  Harbor!At(r) \in Harbor!HarborNames
<1>1. hTry[r] \in 1 .. Len(Candidates)
  BY DEF Harbor!HarborInv
<1>2. DOMAIN Candidates = 1 .. Len(Candidates)
  BY DEF Harbor!HarborParameters
<1> QED BY <1>1, <1>2 DEF Harbor!At, Harbor!HarborNames

\* At first Harbor has no project of a resource, and perhaps one of the site.
LEMMA HarborBegins == Harbor!HarborParameters /\ Harbor!HarborInit => Harbor!HarborInv
<1> SUFFICES ASSUME Harbor!HarborParameters, Harbor!HarborInit PROVE Harbor!HarborInv
  OBVIOUS
<1>1. /\ Harbor!NoProject \in Harbor!RegistryProjects
      /\ Harbor!Site \in Harbor!RegistryProjects
      /\ Harbor!NoProject.label = "none" /\ Harbor!Site.label = "none"
  BY DEF Harbor!NoProject, Harbor!Site, Harbor!RegistryProjects
<1>2. /\ harbor \in [Harbor!HarborNames -> Harbor!RegistryProjects]
      /\ \A n \in Harbor!HarborNames : harbor[n] \in {Harbor!NoProject, Harbor!Site}
  BY <1>1 DEF Harbor!HarborInit
<1>3. \A n \in Harbor!HarborNames : harbor[n].label \in {"none", harbor[n].by}
  BY <1>1, <1>2
<1>4. 1 \in 1 .. Len(Candidates)
  BY DEF Harbor!HarborParameters
<1>5. /\ hLife \in [Registries -> {"new", "creating", "made", "ok", "terminating", "gone",
          "erred"}]
      /\ hTry \in [Registries -> 1 .. Len(Candidates)]
      /\ hId \in [Registries -> Harbor!HarborNames \cup {""}]
      /\ hLimit \in [Registries -> Nat]
  BY <1>4 DEF Harbor!HarborInit, Harbor!HarborParameters
<1>6. \A r \in Registries : Harbor!Owns(r)
  BY DEF Harbor!Owns, Harbor!HarborInit
<1> QED BY <1>2, <1>3, <1>5, <1>6 DEF Harbor!HarborInv

\* What one resource does to a project of its own, or to a free name, leaves the others
\* and the site theirs.
LEMMA OthersOwn ==
    ASSUME Harbor!HarborParameters, Harbor!HarborInv, NEW r \in Registries,
           NEW n \in Harbor!HarborNames,
           NEW p \in Harbor!RegistryProjects, harbor' = [harbor EXCEPT ![n] = p],
           harbor[n].by \in {r, "nobody"}, p.label \in {"none", p.by},
           NEW q \in Registries, q # r, hLife'[q] = hLife[q], hTry'[q] = hTry[q],
               hId'[q] = hId[q]
    PROVE  Harbor!Owns(q)'
<1>1. Harbor!Owns(q) /\ Harbor!At(q) \in Harbor!HarborNames
         /\ Harbor!At(q)' = Harbor!At(q) /\ harbor[n].by # q
  BY NameTried DEF Harbor!HarborInv, Harbor!HarborParameters, Harbor!At
<1>2. \A m \in Harbor!HarborNames : m # n => harbor'[m] = harbor[m]
  BY DEF Harbor!HarborInv
<1> QED BY <1>1, <1>2 DEF Harbor!Owns

\* The invariant after a step of one resource.
LEMMA OneRegistry ==
    ASSUME Harbor!HarborParameters, Harbor!HarborInv, NEW r \in Registries,
           NEW n \in Harbor!HarborNames,
           NEW p \in Harbor!RegistryProjects, harbor' = [harbor EXCEPT ![n] = p],
           harbor[n].by \in {r, "nobody"}, p.label \in {"none", p.by},
           NEW l \in {"new", "creating", "made", "ok", "terminating", "gone", "erred"},
           hLife' = [hLife EXCEPT ![r] = l],
           NEW t \in 1 .. Len(Candidates), hTry' = [hTry EXCEPT ![r] = t],
           NEW i \in Harbor!HarborNames \cup {""}, hId' = [hId EXCEPT ![r] = i],
           hLimit' \in [Registries -> Nat], Harbor!Owns(r)'
    PROVE  Harbor!HarborInv' /\ Harbor!SiteProjectsKept
<1>1. /\ harbor' \in [Harbor!HarborNames -> Harbor!RegistryProjects]
      /\ hLife' \in [Registries -> {"new", "creating", "made", "ok", "terminating", "gone",
          "erred"}]
      /\ hTry' \in [Registries -> 1 .. Len(Candidates)]
      /\ hId' \in [Registries -> Harbor!HarborNames \cup {""}]
  BY DEF Harbor!HarborInv
<1>2. ASSUME NEW m \in Harbor!HarborNames PROVE harbor'[m].label \in {"none", harbor'[m].by}
  BY DEF Harbor!HarborInv
<1>3. ASSUME NEW q \in Registries PROVE Harbor!Owns(q)'
  <2>1. CASE q = r
    BY <2>1
  <2>2. CASE q # r
    <3>1. hLife'[q] = hLife[q] /\ hTry'[q] = hTry[q] /\ hId'[q] = hId[q]
      BY <2>2 DEF Harbor!HarborInv
    <3> QED BY <2>2, <3>1, OthersOwn
  <2> QED BY <2>1, <2>2
<1>4. Harbor!SiteProjectsKept
  BY DEF Harbor!HarborInv, Harbor!HarborParameters, Harbor!SiteProjectsKept
<1> QED BY <1>1, <1>2, <1>3, <1>4 DEF Harbor!HarborInv

\* The same when Harbor is left alone.
LEMMA NothingInHarbor ==
    ASSUME Harbor!HarborParameters, Harbor!HarborInv, NEW r \in Registries, UNCHANGED harbor,
           NEW l \in {"new", "creating", "made", "ok", "terminating", "gone", "erred"},
           hLife' = [hLife EXCEPT ![r] = l],
           NEW t \in 1 .. Len(Candidates), hTry' = [hTry EXCEPT ![r] = t],
           NEW i \in Harbor!HarborNames \cup {""}, hId' = [hId EXCEPT ![r] = i],
           hLimit' \in [Registries -> Nat], Harbor!Owns(r)'
    PROVE  Harbor!HarborInv' /\ Harbor!SiteProjectsKept
<1>1. /\ harbor' \in [Harbor!HarborNames -> Harbor!RegistryProjects]
      /\ hLife' \in [Registries -> {"new", "creating", "made", "ok", "terminating", "gone",
          "erred"}]
      /\ hTry' \in [Registries -> 1 .. Len(Candidates)]
      /\ hId' \in [Registries -> Harbor!HarborNames \cup {""}]
      /\ \A m \in Harbor!HarborNames : harbor'[m].label \in {"none", harbor'[m].by}
  BY DEF Harbor!HarborInv
<1>2. ASSUME NEW q \in Registries, q # r PROVE Harbor!Owns(q)'
  <2>1. hLife'[q] = hLife[q] /\ hTry'[q] = hTry[q] /\ hId'[q] = hId[q] /\ Harbor!Owns(q)
    BY <1>2 DEF Harbor!HarborInv
  <2>2. Harbor!At(q)' = Harbor!At(q)
    BY <2>1 DEF Harbor!At
  <2> QED BY <2>1, <2>2 DEF Harbor!Owns
<1> QED BY <1>1, <1>2 DEF Harbor!HarborInv, Harbor!SiteProjectsKept

\* The fields of a project that a creation leaves behind, and of one that is adopted.
LEMMA MadeProjects ==
    ASSUME Harbor!HarborParameters, Harbor!HarborInv, NEW r \in Registries, NEW b \in BOOLEAN
    PROVE  /\ \A k \in 1 .. 4 :
              /\ Harbor!Created(r, k, b) \in Harbor!RegistryProjects
              /\ Harbor!Created(r, k, b).by = r
              /\ Harbor!Created(r, k, b).label \in {"none", r}
           /\ Harbor!Created(r, 4, b).group
<1>1. hLimit[r] \in Nat
  BY DEF Harbor!HarborInv
<1>2. ASSUME NEW k \in 1 .. 4
      PROVE  /\ Harbor!Created(r, k, b) \in Harbor!RegistryProjects
             /\ Harbor!Created(r, k, b).by = r
             /\ Harbor!Created(r, k, b).label \in {"none", r}
  BY <1>1 DEF Harbor!Created, Harbor!RegistryProjects, Harbor!StorageQuota, Harbor!Marked
<1>3. Harbor!Created(r, 4, b).group
  <2>1. (4 >= 4) = TRUE
    OBVIOUS
  <2>2. Harbor!Created(r, 4, b).group = (4 >= 4)
    BY Zenon DEF Harbor!Created
  <2> QED BY <2>1, <2>2
<1> QED BY <1>2, <1>3

\* A project keeps its owner, its label and its group when its quota is set.
LEMMA QuotaOnly ==
    ASSUME Harbor!HarborInv, NEW n \in Harbor!HarborNames, NEW v \in Nat
    PROVE  \E p \in Harbor!RegistryProjects :
              /\ Harbor!WithQuota(n, v) = [harbor EXCEPT ![n] = p]
              /\ p.by = harbor[n].by /\ p.label = harbor[n].label /\ p.group = harbor[n].group
              /\ p.quota = v
<1> DEFINE p == [harbor[n] EXCEPT !.quota = v]
<1>1. harbor[n] \in Harbor!RegistryProjects
  BY DEF Harbor!HarborInv
<1>2. /\ p \in Harbor!RegistryProjects /\ p.by = harbor[n].by /\ p.label = harbor[n].label
      /\ p.group = harbor[n].group /\ p.quota = v
  BY <1>1 DEF Harbor!RegistryProjects
<1>3. Harbor!WithQuota(n, v) = [harbor EXCEPT ![n] = p]
  BY <1>1 DEF Harbor!WithQuota, Harbor!HarborInv
<1> QED BY <1>2, <1>3

\* An order that fails, and one that goes on with the next name.
LEMMA OrderMoves ==
    ASSUME Harbor!HarborParameters, Harbor!HarborInv,
           NEW r \in Registries, hLife[r] = "creating",
           Harbor!AttemptFails(r) \/ Harbor!NextName(r)
    PROVE  \E l \in {"creating", "erred"} : \E t \in 1 .. Len(Candidates) :
              hLife' = [hLife EXCEPT ![r] = l] /\ hTry' = [hTry EXCEPT ![r] = t]
<1>1. hLife = [hLife EXCEPT ![r] = "creating"] /\ hTry = [hTry EXCEPT ![r] = hTry[r]]
  BY DEF Harbor!HarborInv
<1>2. Len(Candidates) \in Nat /\ 1 \in 1 .. Len(Candidates)
         /\ hTry[r] \in 1 .. Len(Candidates)
  BY FirstName DEF Harbor!HarborInv
<1>3. CASE Harbor!AttemptFails(r)
  BY <1>1, <1>2, <1>3 DEF Harbor!AttemptFails
<1>4. CASE Harbor!NextName(r) /\ hTry[r] < Len(Candidates)
  <2>1. hTry[r] + 1 \in 1 .. Len(Candidates)
    BY <1>2, <1>4
  <2>2. hTry' = [hTry EXCEPT ![r] = hTry[r] + 1] /\ hLife' = hLife
    BY <1>4 DEF Harbor!NextName
  <2> QED BY <1>1, <2>1, <2>2
<1>5. CASE Harbor!NextName(r) /\ ~(hTry[r] < Len(Candidates))
  BY <1>1, <1>2, <1>5 DEF Harbor!NextName
<1> QED BY <1>3, <1>4, <1>5

\* Users order, terminate and downscale.
LEMMA EditKeepsHarbor ==
    ASSUME Harbor!HarborParameters, Harbor!HarborInv, Harbor!HarborEdit
    PROVE  Harbor!HarborInv' /\ Harbor!SiteProjectsKept
<1>1. /\ harbor' = harbor /\ hTry' = hTry /\ hId' = hId /\ hLimit' = hLimit
  BY DEF Harbor!HarborEdit
<1>2. PICK r \in Registries :
         \/ hLife[r] = "new" /\ hLife' = [hLife EXCEPT ![r] = "creating"] /\ UNCHANGED hDown
         \/ hLife[r] = "ok" /\ hLife' = [hLife EXCEPT ![r] = "terminating"] /\ UNCHANGED hDown
         \/ hLife[r] = "ok" /\ hDown' = [hDown EXCEPT ![r] = ~@] /\ UNCHANGED hLife
  BY DEF Harbor!HarborEdit
<1>3. hTry' = [hTry EXCEPT ![r] = hTry[r]] /\ hId' = [hId EXCEPT ![r] = hId[r]]
      /\ hTry[r] \in 1 .. Len(Candidates) /\ hId[r] \in Harbor!HarborNames \cup {""}
      /\ hLimit' \in [Registries -> Nat]
  BY <1>1 DEF Harbor!HarborInv
<1>4. Harbor!Owns(r) /\ Harbor!At(r)' = Harbor!At(r)
  BY <1>1 DEF Harbor!HarborInv, Harbor!At
<1>5. PICK l \in {"creating", "terminating", "ok"} :
         hLife' = [hLife EXCEPT ![r] = l] /\ (hLife[r] = "ok" \/ l = "creating")
  BY <1>2 DEF Harbor!HarborInv
<1>6. hLife'[r] = l
  BY <1>5 DEF Harbor!HarborInv
<1>7. Harbor!Owns(r)'
  BY <1>1, <1>4, <1>5, <1>6 DEF Harbor!Owns
<1> QED BY <1>1, <1>3, <1>5, <1>7, NothingInHarbor

\* A project is created, or part of it.
LEMMA CreateKeepsHarbor ==
    ASSUME Harbor!HarborParameters, Harbor!HarborInv,
           NEW r \in Registries, Harbor!CreateProject(r)
    PROVE  Harbor!HarborInv' /\ Harbor!SiteProjectsKept
<1>1. Harbor!At(r) \in Harbor!HarborNames /\ hLife[r] = "creating"
         /\ harbor[Harbor!At(r)].by = "nobody"
  BY NameTried DEF Harbor!CreateProject, Harbor!Exists, Harbor!NoProject
<1>2. /\ hId' = [hId EXCEPT ![r] = hId[r]] /\ hId[r] \in Harbor!HarborNames \cup {""}
      /\ hLimit' \in [Registries -> Nat]
      /\ hTry = [hTry EXCEPT ![r] = hTry[r]] /\ hTry[r] \in 1 .. Len(Candidates)
  BY DEF Harbor!CreateProject, Harbor!HarborInv
<1>3. CASE \E b \in BOOLEAN : harbor' = [harbor EXCEPT ![Harbor!At(r)] = Harbor!Created(r, 4,
          b)] /\ Harbor!AttemptDone(r)
  <2>1. PICK b \in BOOLEAN : harbor' = [harbor EXCEPT ![Harbor!At(r)] = Harbor!Created(r, 4,
            b)] /\ Harbor!AttemptDone(r)
    BY <1>3
  <2>2. /\ Harbor!Created(r, 4, b) \in Harbor!RegistryProjects
        /\ Harbor!Created(r, 4, b).by = r
        /\ Harbor!Created(r, 4, b).label \in {"none", r} /\ Harbor!Created(r, 4, b).group
    BY MadeProjects
  <2>3. hLife' = [hLife EXCEPT ![r] = "made"] /\ hTry' = [hTry EXCEPT ![r] = hTry[r]]
    BY <2>1, <1>2 DEF Harbor!AttemptDone
  <2>4. hLife'[r] = "made" /\ Harbor!At(r)' = Harbor!At(r)
           /\ harbor'[Harbor!At(r)] = Harbor!Created(r, 4, b)
    BY <1>1, <1>2, <2>1, <2>3 DEF Harbor!HarborInv, Harbor!At
  <2>5. Harbor!Owns(r)'
    BY <2>2, <2>4 DEF Harbor!Owns
  <2> QED BY <1>1, <1>2, <2>1, <2>2, <2>3, <2>5, OneRegistry
<1>4. CASE \E k \in 1 .. 3 : harbor' = [harbor EXCEPT ![Harbor!At(r)] = Harbor!Created(r, k,
          TRUE)] /\ Harbor!AttemptFails(r)
  <2>1. PICK k \in 1 .. 3 : harbor' = [harbor EXCEPT ![Harbor!At(r)] = Harbor!Created(r, k,
            TRUE)] /\ Harbor!AttemptFails(r)
    BY <1>4
  <2>2. /\ Harbor!Created(r, k, TRUE) \in Harbor!RegistryProjects
        /\ Harbor!Created(r, k, TRUE).by = r
        /\ Harbor!Created(r, k, TRUE).label \in {"none", r}
    <3>1. k \in 1 .. 4
      OBVIOUS
    <3> QED BY <3>1, MadeProjects
  <2>3. PICK l \in {"creating", "erred"} : \E t \in 1 .. Len(Candidates) :
              hLife' = [hLife EXCEPT ![r] = l] /\ hTry' = [hTry EXCEPT ![r] = t]
    BY <1>1, <2>1, OrderMoves
  <2>4. PICK t \in 1 .. Len(Candidates) :
              hLife' = [hLife EXCEPT ![r] = l] /\ hTry' = [hTry EXCEPT ![r] = t]
    BY <2>3
  <2>5. Harbor!Owns(r)'
    BY <2>4 DEF Harbor!Owns, Harbor!HarborInv
  <2> QED BY <1>1, <1>2, <2>1, <2>2, <2>4, <2>5, OneRegistry
<1>5. CASE Harbor!AttemptFails(r) /\ UNCHANGED harbor
  <2>3. PICK l \in {"creating", "erred"} : \E t \in 1 .. Len(Candidates) :
              hLife' = [hLife EXCEPT ![r] = l] /\ hTry' = [hTry EXCEPT ![r] = t]
    BY <1>1, <1>5, OrderMoves
  <2>4. PICK t \in 1 .. Len(Candidates) :
              hLife' = [hLife EXCEPT ![r] = l] /\ hTry' = [hTry EXCEPT ![r] = t]
    BY <2>3
  <2>5. Harbor!Owns(r)'
    BY <2>4 DEF Harbor!Owns, Harbor!HarborInv
  <2> QED BY <1>2, <1>5, <2>4, <2>5, NothingInHarbor
<1> QED BY <1>3, <1>4, <1>5 DEF Harbor!CreateProject

\* A name that is taken: the project is adopted, or the next name tried.
LEMMA MeetKeepsHarbor ==
    ASSUME Harbor!HarborParameters, Harbor!HarborInv,
           NEW r \in Registries, Harbor!MeetProject(r)
    PROVE  Harbor!HarborInv' /\ Harbor!SiteProjectsKept
<1>1. Harbor!At(r) \in Harbor!HarborNames /\ hLife[r] = "creating"
         /\ harbor[Harbor!At(r)] \in Harbor!RegistryProjects
  BY NameTried DEF Harbor!MeetProject, Harbor!HarborInv
<1>2. /\ hId' = [hId EXCEPT ![r] = hId[r]] /\ hId[r] \in Harbor!HarborNames \cup {""}
      /\ hLimit' \in [Registries -> Nat] /\ hLimit[r] \in Nat
      /\ hTry = [hTry EXCEPT ![r] = hTry[r]] /\ hTry[r] \in 1 .. Len(Candidates)
  BY DEF Harbor!MeetProject, Harbor!HarborInv
<1>3. CASE /\ Harbor!IsMarkedFor(r, Harbor!At(r))
         /\ harbor' = [harbor EXCEPT ![Harbor!At(r)] = Harbor!Adopted(r, Harbor!At(r))]
           /\ Harbor!AttemptDone(r)
  <2>1. harbor[Harbor!At(r)].by = r /\ harbor[Harbor!At(r)].label = r
    BY <1>1, <1>3 DEF Harbor!IsMarkedFor, Harbor!HarborInv, Harbor!HarborParameters
  <2>2. /\ Harbor!Adopted(r, Harbor!At(r)) \in Harbor!RegistryProjects
        /\ Harbor!Adopted(r, Harbor!At(r)).by = r
        /\ Harbor!Adopted(r, Harbor!At(r)).label = r /\ Harbor!Adopted(r, Harbor!At(r)).group
    BY <1>1, <1>2, <2>1 DEF Harbor!Adopted, Harbor!RegistryProjects, Harbor!StorageQuota
  <2>3. hLife' = [hLife EXCEPT ![r] = "made"] /\ hTry' = [hTry EXCEPT ![r] = hTry[r]]
    BY <1>2, <1>3 DEF Harbor!AttemptDone
  <2>4. hLife'[r] = "made" /\ Harbor!At(r)' = Harbor!At(r)
           /\ harbor'[Harbor!At(r)] = Harbor!Adopted(r, Harbor!At(r))
    BY <1>1, <1>2, <1>3, <2>3 DEF Harbor!HarborInv, Harbor!At
  <2>5. Harbor!Owns(r)'
    BY <2>2, <2>4 DEF Harbor!Owns
  <2> QED BY <1>1, <1>2, <1>3, <2>1, <2>2, <2>3, <2>5, OneRegistry
<1>4. CASE (Harbor!AttemptFails(r) \/ Harbor!NextName(r)) /\ UNCHANGED harbor
  <2>3. PICK l \in {"creating", "erred"} : \E t \in 1 .. Len(Candidates) :
              hLife' = [hLife EXCEPT ![r] = l] /\ hTry' = [hTry EXCEPT ![r] = t]
    BY <1>1, <1>4, OrderMoves
  <2>4. PICK t \in 1 .. Len(Candidates) :
              hLife' = [hLife EXCEPT ![r] = l] /\ hTry' = [hTry EXCEPT ![r] = t]
    BY <2>3
  <2>5. Harbor!Owns(r)'
    BY <2>4 DEF Harbor!Owns, Harbor!HarborInv
  <2> QED BY <1>2, <1>4, <2>4, <2>5, NothingInHarbor
<1> QED BY <1>3, <1>4 DEF Harbor!MeetProject

\* The name of the project reaches Waldur, or the order starts over.
LEMMA RecordKeepsHarbor ==
    ASSUME Harbor!HarborParameters, Harbor!HarborInv,
           NEW r \in Registries, Harbor!RecordProject(r)
    PROVE  Harbor!HarborInv' /\ Harbor!SiteProjectsKept
<1>1. /\ Harbor!At(r) \in Harbor!HarborNames /\ hLife[r] = "made" /\ harbor' = harbor
      /\ harbor[Harbor!At(r)].by = r /\ harbor[Harbor!At(r)].group
  BY NameTried DEF Harbor!RecordProject, Harbor!HarborInv, Harbor!Owns
<1>2. /\ hLimit' \in [Registries -> Nat] /\ 1 \in 1 .. Len(Candidates)
      /\ hTry = [hTry EXCEPT ![r] = hTry[r]] /\ hTry[r] \in 1 .. Len(Candidates)
      /\ hId = [hId EXCEPT ![r] = hId[r]] /\ hId[r] \in Harbor!HarborNames \cup {""}
  BY FirstName DEF Harbor!RecordProject, Harbor!HarborInv
<1>3. CASE hLife' = [hLife EXCEPT ![r] = "ok"] /\ hId' = [hId EXCEPT ![r] = Harbor!At(r)]
         /\ hTry' = hTry
  <2>1. hLife'[r] = "ok" /\ hId'[r] = Harbor!At(r)
    BY <1>3 DEF Harbor!HarborInv
  <2>2. Harbor!Owns(r)'
    BY <1>1, <2>1 DEF Harbor!Owns
  <2> QED BY <1>1, <1>2, <1>3, <2>2, NothingInHarbor
<1>4. CASE hLife' = [hLife EXCEPT ![r] = "creating"] /\ hTry' = [hTry EXCEPT ![r] = 1]
         /\ hId' = hId
  <2>1. Harbor!Owns(r)'
    BY <1>4 DEF Harbor!Owns, Harbor!HarborInv
  <2> QED BY <1>1, <1>2, <1>4, <2>1, NothingInHarbor
<1> QED BY <1>3, <1>4 DEF Harbor!RecordProject

\* A termination takes the project of its own resource.
LEMMA DeleteKeepsHarbor ==
    ASSUME Harbor!HarborParameters, Harbor!HarborInv,
           NEW r \in Registries, Harbor!DeleteResource(r)
    PROVE  Harbor!HarborInv' /\ Harbor!SiteProjectsKept
<1>1. /\ hId[r] \in Harbor!HarborNames /\ harbor[hId[r]].by = r
      /\ hLife' = [hLife EXCEPT ![r] = "gone"]
  BY DEF Harbor!DeleteResource, Harbor!HarborInv, Harbor!Owns
<1>2. /\ hLimit' \in [Registries -> Nat]
      /\ hTry' = [hTry EXCEPT ![r] = hTry[r]] /\ hTry[r] \in 1 .. Len(Candidates)
      /\ hId' = [hId EXCEPT ![r] = hId[r]]
  BY DEF Harbor!DeleteResource, Harbor!HarborInv
<1>3. Harbor!Owns(r)'
  BY <1>1 DEF Harbor!Owns, Harbor!HarborInv
<1>4. Harbor!NoProject \in Harbor!RegistryProjects /\ Harbor!NoProject.label = "none"
  BY DEF Harbor!NoProject, Harbor!RegistryProjects
<1>5. CASE harbor' = [harbor EXCEPT ![hId[r]] = Harbor!NoProject]
  BY <1>1, <1>2, <1>3, <1>4, <1>5, OneRegistry
<1>6. CASE UNCHANGED harbor
  BY <1>1, <1>2, <1>3, <1>6, NothingInHarbor
<1> QED BY <1>5, <1>6 DEF Harbor!DeleteResource

\* The quota of a resource that is OK is set, or reported.
LEMMA QuotaKeepsHarbor ==
    ASSUME Harbor!HarborParameters, Harbor!HarborInv, NEW r \in Registries,
           Harbor!SetResourceLimits(r) \/ Harbor!SyncStatus(r) \/ Harbor!SyncResourceLimits(r)
    PROVE  Harbor!HarborInv' /\ Harbor!SiteProjectsKept
<1>1. /\ hLife[r] = "ok" /\ hId[r] \in Harbor!HarborNames /\ harbor[hId[r]].by = r
      /\ harbor[hId[r]].group
      /\ harbor[hId[r]] \in Harbor!RegistryProjects /\ harbor[hId[r]].label \in {"none", r}
  BY DEF Harbor!SetResourceLimits, Harbor!SyncStatus, Harbor!SyncResourceLimits,
     Harbor!HarborInv, Harbor!Owns
<1>2. /\ hTry' = [hTry EXCEPT ![r] = hTry[r]] /\ hTry[r] \in 1 .. Len(Candidates)
      /\ hId' = [hId EXCEPT ![r] = hId[r]] /\ hLife' = [hLife EXCEPT ![r] = "ok"]
      /\ hId'[r] = hId[r] /\ hLife'[r] = "ok"
  BY <1>1 DEF Harbor!SetResourceLimits, Harbor!SyncStatus, Harbor!SyncResourceLimits,
     Harbor!HarborInv
<1>3. harbor[hId[r]].quota \in Nat
  BY <1>1 DEF Harbor!RegistryProjects
<1>4. hLimit' \in [Registries -> Nat]
  BY <1>3 DEF Harbor!SetResourceLimits, Harbor!SyncStatus, Harbor!SyncResourceLimits,
     Harbor!HarborInv, Harbor!HarborParameters
<1>5. (\E v \in Nat : harbor' = Harbor!WithQuota(hId[r], v)) \/ harbor' = harbor
  BY DEF Harbor!SetResourceLimits, Harbor!SyncStatus, Harbor!SyncResourceLimits,
     Harbor!HarborParameters
<1>6. CASE \E v \in Nat : harbor' = Harbor!WithQuota(hId[r], v)
  <2>1. PICK v \in Nat : harbor' = Harbor!WithQuota(hId[r], v)
    BY <1>6
  <2>2. PICK p \in Harbor!RegistryProjects :
              /\ Harbor!WithQuota(hId[r], v) = [harbor EXCEPT ![hId[r]] = p]
              /\ p.by = harbor[hId[r]].by /\ p.label = harbor[hId[r]].label
              /\ p.group = harbor[hId[r]].group
              /\ p.quota = v
    BY <1>1, QuotaOnly
  <2>3. harbor'[hId[r]] = p
    BY <1>1, <2>1, <2>2 DEF Harbor!HarborInv
  <2>4. Harbor!Owns(r)'
    BY <1>1, <1>2, <2>2, <2>3 DEF Harbor!Owns
  <2>5. harbor' = [harbor EXCEPT ![hId[r]] = p] /\ p.label \in {"none", p.by}
    BY <1>1, <2>1, <2>2
  <2> QED BY <1>1, <1>2, <1>4, <2>4, <2>5, OneRegistry
<1>7. CASE harbor' = harbor
  <2>1. Harbor!Owns(r)'
    BY <1>1, <1>2, <1>7 DEF Harbor!Owns
  <2> QED BY <1>1, <1>2, <1>4, <1>7, <2>1, NothingInHarbor
<1> QED BY <1>5, <1>6, <1>7

\* Every step of the Harbor part keeps the invariant, and the site its projects.
LEMMA HarborStepsKeep ==
    ASSUME Harbor!HarborParameters, Harbor!HarborInv, [Harbor!HarborNext]_(Harbor!hvars)
    PROVE  Harbor!HarborInv' /\ Harbor!SiteProjectsKept
<1>1. CASE Harbor!HarborNext
  BY <1>1, EditKeepsHarbor, CreateKeepsHarbor, MeetKeepsHarbor, RecordKeepsHarbor,
     DeleteKeepsHarbor,
     QuotaKeepsHarbor DEF Harbor!HarborNext
<1>2. CASE UNCHANGED Harbor!hvars
  BY <1>2 DEF Harbor!hvars, Harbor!HarborInv, Harbor!Owns, Harbor!At, Harbor!SiteProjectsKept
<1> QED BY <1>1, <1>2

\* What the invariant says of the resources that are OK.
LEMMA HarborOwns == Harbor!HarborInv => Harbor!OkHasProject
BY DEF Harbor!HarborInv, Harbor!Owns, Harbor!OkHasProject

-----------------------------------------------------------------------------
(* The promises the backends make together.                                  *)

\* A behaviour about a backend starts as the backend does.
LEMMA AboutInit ==
    ASSUME Init
    PROVE  /\ part = "orders" => Orders!OrdersInit
           /\ part = "mup" => Mup!MupInit
           /\ part = "one" => One!OneInit
           /\ part = "rancher" => Rancher!RancherInit
           /\ part = "import" => Import!ImportInit
           /\ part = "namespace" => Ns!NsInit
           /\ part = "nextcloud" => Cloud!NcInit
           /\ part = "harbor" => Harbor!HarborInit
BY DEF Init

\* It takes the steps of that backend only, and stays about it.
LEMMA AboutNext ==
    ASSUME [Next]_vars
    PROVE  /\ part' = part
           /\ part = "orders" => [Orders!OrdersNext]_(Orders!ovars)
           /\ part = "mup" => [Mup!MupNext]_(Mup!pvars)
           /\ part = "one" => [One!OneNext]_(One!nvars)
           /\ part = "rancher" => [Rancher!RancherNext]_(Rancher!rvars)
           /\ part = "import" => [Import!ImportNext]_(Import!ivars)
           /\ part = "namespace" => [Ns!NsNext]_(Ns!nsvars)
           /\ part = "nextcloud" => [Cloud!NcNext]_(Cloud!ncvars)
           /\ part = "harbor" => [Harbor!HarborNext]_(Harbor!hvars)
<1>1. part' = part
  BY DEF Next, Step, vars
<1>2. part = "orders" => [Orders!OrdersNext]_(Orders!ovars)
  BY DEF Next, Step, vars, OrdersVars, Orders!ovars
<1>3. part = "mup" => [Mup!MupNext]_(Mup!pvars)
  BY DEF Next, Step, vars, MupVars, Mup!pvars
<1>4. part = "one" => [One!OneNext]_(One!nvars)
  BY DEF Next, Step, vars, OneVars, One!nvars
<1>5. part = "rancher" => [Rancher!RancherNext]_(Rancher!rvars)
  BY DEF Next, Step, vars, RancherVars, Rancher!rvars
<1>6. part = "import" => [Import!ImportNext]_(Import!ivars)
  BY DEF Next, Step, vars, ImportVars, Import!ivars
<1>7. part = "namespace" => [Ns!NsNext]_(Ns!nsvars)
  BY DEF Next, Step, vars, NsVars, Ns!nsvars
<1>8. part = "nextcloud" => [Cloud!NcNext]_(Cloud!ncvars)
  BY DEF Next, Step, vars, CloudVars, Cloud!ncvars
<1>9. part = "harbor" => [Harbor!HarborNext]_(Harbor!hvars)
  BY DEF Next, Step, vars, HarborVars, Harbor!hvars
<1> QED BY <1>1, <1>2, <1>3, <1>4, <1>5, <1>6, <1>7, <1>8, <1>9

\* The invariant of the backend a behaviour is about.
BackendInv ==
    /\ part = "orders" => Orders!OrdersInv
    /\ part = "mup" => Mup!MupInv
    /\ part = "one" => One!OneInv
    /\ part = "rancher" => Rancher!RancherInv
    /\ part = "import" => Import!ImportInv
    /\ part = "namespace" => Ns!NsInv
    /\ part = "nextcloud" => Cloud!NcInv
    /\ part = "harbor" => Harbor!HarborInv

\* What a step may never take.
StepKeeps ==
    /\ part = "harbor" => Harbor!SiteProjectsKept
    /\ part = "import" => Import!ImportKeeps
    /\ part = "rancher" => Rancher!GroupKeepsTeam

\* The invariant holds at first.
LEMMA BackendsBegin == Init => BackendInv
<1> SUFFICES ASSUME Init PROVE BackendInv
  OBVIOUS
<1>1. part = "orders" => Orders!OrdersInv
  BY AboutInit, OrdersBegin
<1>2. part = "mup" => Mup!MupInv
  BY AboutInit, Parameters, MupBegins
<1>3. part = "one" => One!OneInv
  BY AboutInit, Parameters, OneBegins
<1>4. part = "rancher" => Rancher!RancherInv
  BY AboutInit, RancherBegins
<1>5. part = "import" => Import!ImportInv
  BY AboutInit, Parameters, ImportBegins
<1>6. part = "namespace" => Ns!NsInv
  BY AboutInit, NsBegins
<1>7. part = "nextcloud" => Cloud!NcInv
  BY AboutInit, Parameters, NcBegins
<1>8. part = "harbor" => Harbor!HarborInv
  BY AboutInit, Parameters, HarborBegins
<1> QED BY <1>1, <1>2, <1>3, <1>4, <1>5, <1>6, <1>7, <1>8 DEF BackendInv

\* Every step keeps it, and takes nothing that is not the resource's own.
LEMMA BackendsGoOn == BackendInv /\ [Next]_vars => BackendInv' /\ StepKeeps
<1> SUFFICES ASSUME BackendInv, [Next]_vars PROVE BackendInv' /\ StepKeeps
  OBVIOUS
<1>1. part' = part
  BY AboutNext
<1>2. part = "orders" => Orders!OrdersInv'
  BY AboutNext, OrdersStepsKeep DEF BackendInv
<1>3. part = "mup" => Mup!MupInv'
  BY AboutNext, Parameters, MupStepsKeep DEF BackendInv
<1>4. part = "one" => One!OneInv'
  BY AboutNext, OneStepsKeep DEF BackendInv
<1>5. part = "rancher" => Rancher!RancherInv' /\ Rancher!GroupKeepsTeam
  BY AboutNext, RancherStepsKeep DEF BackendInv
<1>6. part = "import" => Import!ImportInv' /\ Import!ImportKeeps
  BY AboutNext, Parameters, ImportStepsKeep DEF BackendInv
<1>7. part = "namespace" => Ns!NsInv'
  BY AboutNext, NsStepsKeep DEF BackendInv
<1>8. part = "nextcloud" => Cloud!NcInv'
  BY AboutNext, Parameters, NcStepsKeep DEF BackendInv
<1>9. part = "harbor" => Harbor!HarborInv' /\ Harbor!SiteProjectsKept
  BY AboutNext, Parameters, HarborStepsKeep DEF BackendInv
<1> QED BY <1>1, <1>2, <1>3, <1>4, <1>5, <1>6, <1>7, <1>8, <1>9 DEF BackendInv, StepKeeps

\* What Waldur shows as done is there and is the resource's own: the target order, the
\* allocation, the folder, the project, the subnet and the ResourceProject, whichever
\* calls fail, but for the slips and the unseen subnets that DoneIsDone and
\* SubnetsDisjoint name (check_pending_order, post_create_resource, _is_marked_for,
\* _allocate_next_subnet, import_cluster).
THEOREM OkHasItsOwnHere == Spec => []OkHasItsOwn
<1>1. BackendInv => OkHasItsOwn
  <2> SUFFICES ASSUME BackendInv PROVE OkHasItsOwn
    OBVIOUS
  <2>1. part = "orders" => Orders!DoneIsDone
    BY DEF BackendInv, Orders!OrdersInv
  <2>2. part = "mup" => Mup!PrimaryFollows
    BY Parameters, MupFollows DEF BackendInv
  <2>3. part = "nextcloud" => Cloud!OkIsLinked
    BY NcLinked DEF BackendInv
  <2>4. part = "harbor" => Harbor!OkHasProject
    BY HarborOwns DEF BackendInv
  <2>5. part = "one" => One!SubnetsDisjoint
    BY OneKeepsApart DEF BackendInv
  <2>6. part = "import" => Import!NoTwins
    BY DEF BackendInv, Import!ImportInv
  <2> QED BY <2>1, <2>2, <2>3, <2>4, <2>5, <2>6 DEF OkHasItsOwn
<1> QED BY <1>1, BackendsBegin, BackendsGoOn, PTL DEF Spec

\* A terminated resource leaves nothing behind: no resource at the target, no network
\* and no namespace, though orders are in flight and calls fail, but for a lookup that
\* failed and for what A, or Waldur, has no id of (delete_resource,
\* _adopt_in_flight_terminate_order).
THEOREM NothingLeftBehindHere == Spec => []NothingLeftBehind
<1>1. BackendInv => NothingLeftBehind
  <2> SUFFICES ASSUME BackendInv PROVE NothingLeftBehind
    OBVIOUS
  <2>1. part = "orders" => Orders!NothingLeftBehind
    BY DEF BackendInv, Orders!OrdersInv
  <2>2. part = "one" => One!NetworkGone
    BY OneKeepsApart DEF BackendInv
  <2>3. part = "namespace" => Ns!NamespaceGone
    BY NsLeavesNothing DEF BackendInv
  <2> QED BY <2>1, <2>2, <2>3 DEF NothingLeftBehind
<1> QED BY <1>1, BackendsBegin, BackendsGoOn, PTL DEF Spec

\* A step never takes a project of the site, what an earlier import recorded, or a
\* member of the team from the group two resources share, but for the member whom the
\* clean-up's listing was too early to show (create_resource_with_id,
\* _record_backend_id, _apply_grants, _cleanup_empty_keycloak_groups).
THEOREM OthersKeptHere == Spec => OthersKept
<1>1. Spec => [][StepKeeps]_vars
  BY BackendsBegin, BackendsGoOn, PTL DEF Spec
<1> QED BY <1>1 DEF OthersKept, StepKeeps
=============================================================================
