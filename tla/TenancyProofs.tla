--------------------------- MODULE TenancyProofs ----------------------------
(***************************************************************************)
(* Proofs about Tenancy, for any number of shops, plans, users and         *)
(* requests.                                                               *)
(***************************************************************************)
EXTENDS Tenancy, FiniteSetTheorems, TLAPS

\* What a slot holds points at rows.
SlotPoints(r) ==
    /\ req[r].pc \in {"shop", "plan", "count", "insert", "blind"} =>
          req[r].tenant \in Tenants /\ shop[req[r].tenant] # None
    /\ At(r, "plan") => req[r].plan \in held[req[r].tenant]
    /\ At(r, "count") =>
          req[r].limit \in Limits /\ req[r].limit \in LimitsOf(req[r].tenant)
    /\ At(r, "plan") \/ At(r, "save") => req[r].plan \in Plans
    /\ At(r, "save") => req[r].limit \in AnyLimit

\* What the rows and requests point at.
PointsAtRows ==
    /\ \A p \in Plans : plan[p] # None => plan[p] \in given[p]
    /\ \A t \in Tenants : shop[t] \in Plans => shop[t] \in held[t]
    /\ \A t \in Tenants, n \in Names : shop[t] = None => user[t][n] = "none"
    /\ \A r \in Requests : SlotPoints(r)

IInv == TypeOK /\ PointsAtRows /\ UsersWithinPlan

\* The limits a shop ever had are only added to.
Grows == \A t \in Tenants : LimitsOf(t) \subseteq LimitsOf(t)'
----------------------------------------------------------------------------
\* The sets that are counted are finite.
LEMMA Counted ==
  ASSUME NEW t
  PROVE  /\ IsFiniteSet(ActiveUsers(t)) /\ Cardinality(ActiveUsers(t)) \in Nat
         /\ IsFiniteSet(Admitted(t)) /\ Cardinality(Admitted(t)) \in Nat
         /\ Cardinality(Admitted(t)) <= Cardinality(Requests)
         /\ Cardinality(Requests) \in Nat /\ Cardinality(Requests) >= 1
  <1>1. ActiveUsers(t) \subseteq Names /\ Admitted(t) \subseteq Requests
    BY DEF ActiveUsers, Admitted
  <1>2. Cardinality(Requests) # 0
    BY TenancyAssumption, FS_EmptySet
  <1> QED
    BY <1>1, <1>2, FS_Subset, FS_CardinalityType, TenancyAssumption

\* The same after a step.
LEMMA CountedNext ==
  ASSUME NEW t
  PROVE  /\ IsFiniteSet(ActiveUsers(t)') /\ Cardinality(ActiveUsers(t)') \in Nat
         /\ IsFiniteSet(Admitted(t)') /\ Cardinality(Admitted(t)') \in Nat
         /\ Cardinality(Admitted(t)') <= Cardinality(Requests)
  <1>1. ActiveUsers(t)' \subseteq Names /\ Admitted(t)' \subseteq Requests
    BY DEF ActiveUsers, Admitted
  <1> QED
    BY <1>1, FS_Subset, FS_CardinalityType, TenancyAssumption

\* A step that adds to the active and admitted users of a shop no more than to
\* its unseen ones keeps it within its plan.
LEMMA KeepsWithin ==
  ASSUME TypeOK, TypeOK', NEW t \in Tenants, Within(t), shop[t] # None,
         LimitsOf(t) \subseteq LimitsOf(t)',
         Cardinality(ActiveUsers(t)') + Cardinality(Admitted(t)') + unseen[t]
            <= Cardinality(ActiveUsers(t)) + Cardinality(Admitted(t)) + unseen'[t]
  PROVE  Within(t)'
  <1>1. CASE NoLimit \in LimitsOf(t)
    BY <1>1 DEF Within
  <1>2. CASE NoLimit \notin LimitsOf(t)
    <2>1. PICK m \in LimitsOf(t) :
             Cardinality(ActiveUsers(t)) + Cardinality(Admitted(t)) + 1
                <= (IF m = 0 THEN 1 ELSE m) + Cardinality(Requests) + unseen[t]
      BY <1>2 DEF Within
    <2>2. m \in Nat
      <3>1. PICK p \in held[t] : m \in given[p]
        BY DEF LimitsOf
      <3>2. p \in Plans /\ m # NoLimit
        BY <1>2 DEF TypeOK
      <3> QED
        BY <3>1, <3>2, TenancyAssumption DEF TypeOK, AnyLimit
    <2>3. unseen[t] \in Nat /\ unseen'[t] \in Nat
      BY DEF TypeOK
    <2>4. Cardinality(ActiveUsers(t)') + Cardinality(Admitted(t)') + 1
             <= (IF m = 0 THEN 1 ELSE m) + Cardinality(Requests) + unseen'[t]
      BY <2>1, <2>2, <2>3, Counted, CountedNext
    <2> QED
      BY <2>1, <2>4 DEF Within
  <1> QED
    BY <1>1, <1>2

\* A shop whose users, requests and unseen users are what they were stays
\* within its plan.
LEMMA SameWithin ==
  ASSUME TypeOK, TypeOK', NEW t \in Tenants, Within(t), shop[t] # None,
         LimitsOf(t) \subseteq LimitsOf(t)',
         ActiveUsers(t)' \subseteq ActiveUsers(t), Admitted(t)' \subseteq Admitted(t),
         unseen'[t] = unseen[t]
  PROVE  Within(t)'
  <1>1. Cardinality(ActiveUsers(t)') <= Cardinality(ActiveUsers(t))
    BY Counted, FS_Subset
  <1>2. Cardinality(Admitted(t)') <= Cardinality(Admitted(t))
    BY Counted, FS_Subset
  <1>3. unseen[t] \in Nat
    BY DEF TypeOK
  <1> QED
    BY <1>1, <1>2, <1>3, Counted, CountedNext, KeepsWithin
----------------------------------------------------------------------------
LEMMA InitInv == Init => IInv
  <1> SUFFICES ASSUME Init PROVE IInv
    OBVIOUS
  <1> USE TenancyAssumption DEF Init, Idle, At
  <1>1. TypeOK
    BY DEF TypeOK, Request, Points, AnyLimit
  <1>2. PointsAtRows
    BY DEF PointsAtRows, SlotPoints
  <1>3. UsersWithinPlan
    BY DEF UsersWithinPlan, Within
  <1> QED
    BY <1>1, <1>2, <1>3 DEF IInv

\* What End and Go do to the slots.
LEMMA EndSlot ==
  ASSUME TypeOK, NEW r \in Requests, End(r)
  PROVE  /\ req' \in [Requests -> Request]
         /\ req'[r].pc = "idle" /\ req'[r].plan = None
         /\ \A s \in Requests : s # r => req'[s] = req[s]
  BY TenancyAssumption DEF TypeOK, End, Idle, Request, Points

LEMMA GoSlot ==
  ASSUME TypeOK, NEW r \in Requests, NEW pc \in Points, NEW p \in Plans \cup {None},
         NEW m \in AnyLimit \cup {None}, Go(r, pc, p, m)
  PROVE  /\ req' \in [Requests -> Request]
         /\ req'[r].pc = pc /\ req'[r].plan = p /\ req'[r].limit = m
         /\ req'[r].tenant = req[r].tenant
         /\ \A s \in Requests : s # r => req'[s] = req[s]
  <1>1. req[r] \in Request
    BY DEF TypeOK
  <1>2. req' = [req EXCEPT ![r] = [req[r] EXCEPT !.pc = pc, !.plan = p, !.limit = m]]
    BY DEF Go
  <1>3. [req[r] EXCEPT !.pc = pc, !.plan = p, !.limit = m] \in Request
    BY <1>1 DEF Request
  <1>4. /\ req' \in [Requests -> Request]
        /\ req'[r] = [req[r] EXCEPT !.pc = pc, !.plan = p, !.limit = m]
    BY <1>2, <1>3 DEF TypeOK
  <1>5. \A s \in Requests : s # r => req'[s] = req[s]
    BY <1>2 DEF TypeOK
  <1> QED
    BY <1>1, <1>4, <1>5 DEF Request

LEMMA GoType ==
  ASSUME TypeOK, NEW r \in Requests, NEW pc \in Points, NEW p \in Plans \cup {None},
         NEW m \in AnyLimit \cup {None}, Go(r, pc, p, m), p \in Plans => plan[p] # None,
         UNCHANGED <<plan, shop, user, held, given, unseen>>
  PROVE  TypeOK'
  <1>1. req' \in [Requests -> Request]
    BY GoSlot
  <1>2. ASSUME NEW s \in Requests, req'[s].plan \in Plans
        PROVE  plan[req'[s].plan] # None
    <2>1. CASE s = r
      BY <1>2, <2>1, GoSlot
    <2>2. CASE s # r
      BY <1>2, <2>2, GoSlot DEF TypeOK
    <2> QED
      BY <2>1, <2>2
  <1> QED
    BY <1>1, <1>2 DEF TypeOK

LEMMA TypeInv == TypeOK /\ PointsAtRows /\ [Next]_vars => TypeOK'
  <1> SUFFICES ASSUME TypeOK, PointsAtRows, [Next]_vars PROVE TypeOK'
    OBVIOUS
  <1> USE TenancyAssumption DEF TypeOK, AnyLimit
  <1>1. ASSUME NEW p \in Plans, NEW m \in AnyLimit, CreatePlan(p, m) PROVE TypeOK'
    BY <1>1 DEF CreatePlan, Write, Known
  <1>2. ASSUME NEW r \in Requests, NEW p \in Plans, NEW m \in AnyLimit, ReadRow(r, p, m)
        PROVE TypeOK'
    BY <1>2 DEF ReadRow, Known, Idle, Request, Points
  <1>3. ASSUME NEW t \in Tenants, NEW p \in Plans, CreateTenant(t, p) PROVE TypeOK'
    BY <1>3 DEF CreateTenant, Open, Known
  <1>4. ASSUME NEW t \in Tenants, NEW p \in Plans \cup {NoPlan}, MoveTenant(t, p)
        PROVE TypeOK'
    BY <1>4 DEF MoveTenant, Move, Known
  <1>5. ASSUME NEW r \in Requests, NEW t \in Tenants, NEW n \in Names, Submit(r, t, n)
        PROVE TypeOK'
    BY <1>5 DEF Submit, Idle, Request, Points
  <1>6. ASSUME NEW r \in Requests, SaveRow(r) PROVE TypeOK'
    <2>1. End(r) /\ req[r].plan \in Plans /\ req[r].limit \in AnyLimit
      BY <1>6 DEF SaveRow, Write, PointsAtRows, SlotPoints
    <2>2. \A m \in AnyLimit : m # None
      OBVIOUS
    <2> QED
      BY <1>6, <2>1, <2>2, EndSlot DEF SaveRow, Write
  <1>7. ASSUME NEW r \in Requests, ReadShop(r) PROVE TypeOK'
    <2>1. req[r].tenant \in Tenants
      BY <1>7 DEF ReadShop, PointsAtRows, SlotPoints, At
    <2>2. PICK pc \in Points, p \in Plans \cup {None} :
             Go(r, pc, p, None) /\ (p \in Plans => plan[p] # None)
      BY <1>7, <2>1 DEF ReadShop, Unchecked, Points
    <2>3. UNCHANGED <<plan, shop, user, held, given, unseen>>
      BY <1>7 DEF ReadShop
    <2> QED
      BY <2>2, <2>3, GoType
  <1>8. ASSUME NEW r \in Requests, ReadPlan(r) PROVE TypeOK'
    <2>1. req[r].plan \in Plans /\ plan[req[r].plan] \in AnyLimit
      BY <1>8 DEF ReadPlan, PointsAtRows, SlotPoints
    <2>2. PICK pc \in Points, m \in AnyLimit \cup {None} : Go(r, pc, None, m)
      BY <1>8, <2>1 DEF ReadPlan, Unchecked, Points
    <2> QED
      BY <1>8, <2>2, GoType DEF ReadPlan
  <1>9. ASSUME NEW r \in Requests, Count(r) PROVE TypeOK'
    <2>1. CASE End(r)
      BY <1>9, <2>1, EndSlot DEF Count
    <2>2. ASSUME NEW pc \in Points, Go(r, pc, None, None) PROVE TypeOK'
      BY <1>9, <2>2, GoType DEF Count
    <2> QED
      BY <1>9, <2>1, <2>2 DEF Count, Unchecked, Points
  <1>10. ASSUME NEW r \in Requests, Insert(r) PROVE TypeOK'
    <2>1. req[r].tenant \in Tenants /\ req[r].name \in Names
      BY <1>10 DEF Insert, AddUser, PointsAtRows, SlotPoints, At, Request
    <2>2. End(r)
      BY <1>10 DEF Insert, AddUser
    <2>3. req'[r].plan \notin Plans
      BY <2>2, EndSlot
    <2>4. user' \in [Tenants -> [Names -> {"none", "active", "inactive"}]]
      <3>1. \/ UNCHANGED user
            \/ user' = [user EXCEPT ![req[r].tenant][req[r].name] = "active"]
        BY <1>10 DEF Insert, AddUser
      <3> QED
        BY <2>1, <3>1
    <2>5. unseen' \in [Tenants -> Nat]
      <3>1. \/ UNCHANGED unseen
            \/ unseen' = [unseen EXCEPT ![req[r].tenant] = @ + 1]
            \/ unseen' = [unseen EXCEPT ![req[r].tenant] = @ + 0]
        BY <1>10 DEF Insert, AddUser
      <3> QED
        BY <2>1, <3>1
    <2> QED
      BY <1>10, <2>2, <2>3, <2>4, <2>5, EndSlot DEF Insert, AddUser
  <1>11. ASSUME NEW t \in Tenants, NEW n \in Names, DeactivateUser(t, n) PROVE TypeOK'
    BY <1>11 DEF DeactivateUser
  <1>12. CASE Crash
    BY <1>12 DEF Crash, Idle, Request, Points
  <1>13. CASE UNCHANGED vars
    BY <1>13 DEF vars
  <1> QED
    BY <1>1, <1>2, <1>3, <1>4, <1>5, <1>6, <1>7, <1>8, <1>9, <1>10, <1>11, <1>12, <1>13
    DEF Next

----------------------------------------------------------------------------
\* No step takes a limit back from a shop's history.
LEMMA HistoryGrows == TypeOK /\ PointsAtRows /\ [Next]_vars => Grows
  <1> SUFFICES ASSUME TypeOK, PointsAtRows, [Next]_vars,
                      NEW t \in Tenants, NEW m \in LimitsOf(t)
               PROVE  m \in LimitsOf(t)'
    BY DEF Grows
  <1>1. PICK p \in held[t] : m \in given[p]
    BY DEF LimitsOf
  <1>2. p \in Plans
    BY DEF TypeOK
  <1>3. p \in held'[t]
    <2>1. ASSUME NEW s \in Tenants, NEW q, held' = [held EXCEPT ![s] = @ \cup q]
          PROVE  p \in held'[t]
      BY <1>1, <2>1 DEF TypeOK
    <2>2. UNCHANGED held => p \in held'[t]
      BY <1>1
    <2> QED
      BY <2>1, <2>2 DEF Next, vars, CreatePlan, Write, ReadRow, SaveRow, CreateTenant, Open,
         MoveTenant, Move, Submit, ReadShop, ReadPlan, Count, Insert, AddUser, DeactivateUser,
         Crash
  <1>4. m \in given'[p]
    <2>1. ASSUME NEW s, NEW q, given' = [given EXCEPT ![s] = @ \cup q]
          PROVE  m \in given'[p]
      BY <1>1, <1>2, <2>1 DEF TypeOK
    <2>2. UNCHANGED given => m \in given'[p]
      BY <1>1
    <2> QED
      BY <2>1, <2>2 DEF Next, vars, CreatePlan, Write, ReadRow, SaveRow, CreateTenant, Open,
         MoveTenant, Move, Submit, ReadShop, ReadPlan, Count, Insert, AddUser, DeactivateUser,
         Crash
  <1> QED
    BY <1>3, <1>4 DEF LimitsOf

\* A slot that is not touched goes on pointing at rows.
LEMMA SlotStays ==
  ASSUME TypeOK, Grows, NEW r \in Requests, SlotPoints(r), req'[r] = req[r],
         \A t \in Tenants : shop[t] # None => shop'[t] # None,
         \A t \in Tenants : held[t] \subseteq held'[t]
  PROVE  SlotPoints(r)'
  BY DEF SlotPoints, Grows, At

\* Every slot but one is as it was.
Others(r) == \A s \in Requests : s # r => req'[s] = req[s]

LEMMA PointsInv == TypeOK /\ TypeOK' /\ PointsAtRows /\ [Next]_vars => PointsAtRows'
  <1> SUFFICES ASSUME TypeOK, TypeOK', PointsAtRows, [Next]_vars PROVE PointsAtRows'
    OBVIOUS
  <1> USE TenancyAssumption
  <1>g. Grows
    BY HistoryGrows
  <1>1. ASSUME NEW p \in Plans, NEW m \in AnyLimit, CreatePlan(p, m) PROVE PointsAtRows'
    <2>1. \A r \in Requests : SlotPoints(r)'
      BY <1>1, <1>g, SlotStays DEF CreatePlan, Write, PointsAtRows
    <2>2. \A q \in Plans : plan'[q] # None => plan'[q] \in given'[q]
      BY <1>1 DEF CreatePlan, Write, PointsAtRows, TypeOK
    <2> QED
      BY <1>1, <2>1, <2>2 DEF CreatePlan, Write, PointsAtRows
  <1>2. ASSUME NEW r \in Requests, NEW p \in Plans, NEW m \in AnyLimit, ReadRow(r, p, m)
        PROVE PointsAtRows'
    <2>1. req'[r].pc = "save" /\ req'[r].plan = p /\ req'[r].limit = m /\ Others(r)
      BY <1>2 DEF ReadRow, TypeOK, Idle, Others
    <2>2. SlotPoints(r)'
      BY <2>1 DEF SlotPoints, At
    <2>3. \A s \in Requests : s # r => SlotPoints(s)'
      BY <1>2, <1>g, <2>1, SlotStays DEF ReadRow, PointsAtRows, Others
    <2> QED
      BY <1>2, <2>2, <2>3 DEF ReadRow, PointsAtRows
  <1>3. ASSUME NEW t \in Tenants, NEW p \in Plans, CreateTenant(t, p) PROVE PointsAtRows'
    <2>1. /\ \A s \in Tenants : shop[s] # None => shop'[s] # None
          /\ \A s \in Tenants : held[s] \subseteq held'[s]
      BY <1>3 DEF CreateTenant, Open, TypeOK
    <2>2. \A r \in Requests : SlotPoints(r)'
      BY <1>3, <1>g, <2>1, SlotStays DEF CreateTenant, Open, PointsAtRows
    <2>3. \A s \in Tenants : shop'[s] \in Plans => shop'[s] \in held'[s]
      BY <1>3 DEF CreateTenant, Open, PointsAtRows, TypeOK
    <2>4. \A s \in Tenants, n \in Names : shop'[s] = None => user'[s][n] = "none"
      BY <1>3 DEF CreateTenant, Open, PointsAtRows, TypeOK
    <2> QED
      BY <1>3, <2>2, <2>3, <2>4 DEF CreateTenant, Open, PointsAtRows
  <1>4. ASSUME NEW t \in Tenants, NEW p \in Plans \cup {NoPlan}, MoveTenant(t, p)
        PROVE PointsAtRows'
    <2>1. /\ \A s \in Tenants : shop[s] # None <=> shop'[s] # None
          /\ \A s \in Tenants : held[s] \subseteq held'[s]
      BY <1>4 DEF MoveTenant, Move, TypeOK
    <2>2. \A r \in Requests : SlotPoints(r)'
      BY <1>4, <1>g, <2>1, SlotStays DEF MoveTenant, Move, PointsAtRows
    <2>3. \A s \in Tenants : shop'[s] \in Plans => shop'[s] \in held'[s]
      BY <1>4 DEF MoveTenant, Move, PointsAtRows, TypeOK
    <2> QED
      BY <1>4, <2>1, <2>2, <2>3 DEF MoveTenant, Move, PointsAtRows
  <1>5. ASSUME NEW r \in Requests, NEW t \in Tenants, NEW n \in Names, Submit(r, t, n)
        PROVE PointsAtRows'
    <2>1. req'[r].pc = "shop" /\ req'[r].tenant = t /\ Others(r) /\ shop[t] # None
      BY <1>5 DEF Submit, TypeOK, Idle, Others
    <2>2. SlotPoints(r)'
      BY <1>5, <2>1 DEF SlotPoints, At, Submit
    <2>3. \A s \in Requests : s # r => SlotPoints(s)'
      BY <1>5, <1>g, <2>1, SlotStays DEF Submit, PointsAtRows, Others
    <2> QED
      BY <1>5, <2>2, <2>3 DEF Submit, PointsAtRows
  <1>6. ASSUME NEW r \in Requests, SaveRow(r) PROVE PointsAtRows'
    <2>1. req'[r].pc = "idle" /\ Others(r)
      BY <1>6, EndSlot DEF SaveRow, Write, Others
    <2>2. SlotPoints(r)'
      BY <2>1 DEF SlotPoints, At
    <2>3. \A s \in Requests : s # r => SlotPoints(s)'
      BY <1>6, <1>g, <2>1, SlotStays DEF SaveRow, Write, PointsAtRows, Others
    <2>4. \A q \in Plans : plan'[q] # None => plan'[q] \in given'[q]
      BY <1>6 DEF SaveRow, Write, PointsAtRows, TypeOK
    <2> QED
      BY <1>6, <2>2, <2>3, <2>4 DEF SaveRow, Write, PointsAtRows
  <1>7. ASSUME NEW r \in Requests, ReadShop(r) PROVE PointsAtRows'
    <2>1. /\ req[r].tenant \in Tenants /\ shop[req[r].tenant] # None
          /\ UNCHANGED <<plan, shop, user, held, given>>
      BY <1>7 DEF ReadShop, PointsAtRows, SlotPoints, At
    <2>2. PICK pc \in {"blind", "plan"}, p \in Plans \cup {None} :
             Go(r, pc, p, None) /\ (pc = "plan" => p \in Plans /\ p = shop[req[r].tenant])
      BY <1>7 DEF ReadShop, Unchecked
    <2>3. /\ req'[r].pc = pc /\ req'[r].plan = p /\ req'[r].tenant = req[r].tenant
          /\ Others(r)
      BY <2>2, GoSlot DEF Points, Others
    <2>4. SlotPoints(r)'
      BY <2>1, <2>2, <2>3 DEF SlotPoints, At, PointsAtRows
    <2>5. \A s \in Requests : s # r => SlotPoints(s)'
      BY <2>1, <1>g, <2>3, SlotStays DEF PointsAtRows, Others
    <2> QED
      BY <2>1, <2>4, <2>5 DEF PointsAtRows
  <1>8. ASSUME NEW r \in Requests, ReadPlan(r) PROVE PointsAtRows'
    <2>1. /\ req[r].tenant \in Tenants /\ shop[req[r].tenant] # None
          /\ req[r].plan \in Plans /\ req[r].plan \in held[req[r].tenant]
          /\ UNCHANGED <<plan, shop, user, held, given>>
      BY <1>8 DEF ReadPlan, PointsAtRows, SlotPoints, At
    <2>2. plan[req[r].plan] \in AnyLimit /\ plan[req[r].plan] \in given[req[r].plan]
      BY <2>1 DEF TypeOK, PointsAtRows
    <2>3. PICK pc \in {"blind", "insert", "count"}, m \in AnyLimit \cup {None} :
             /\ Go(r, pc, None, m)
             /\ pc = "count" => m = plan[req[r].plan] /\ m # NoLimit
      BY <1>8, <2>2 DEF ReadPlan, Unchecked
    <2>4. /\ req'[r].pc = pc /\ req'[r].limit = m /\ req'[r].tenant = req[r].tenant
          /\ Others(r)
      BY <2>3, GoSlot DEF Points, Others
    <2>5. pc = "count" => m \in Limits /\ m \in LimitsOf(req[r].tenant)
      BY <2>1, <2>2, <2>3 DEF AnyLimit, LimitsOf
    <2>7. SlotPoints(r)'
      BY <2>1, <2>3, <2>4, <2>5 DEF SlotPoints, At, LimitsOf
    <2>8. \A s \in Requests : s # r => SlotPoints(s)'
      BY <2>1, <1>g, <2>4, SlotStays DEF PointsAtRows, Others
    <2> QED
      BY <2>1, <2>7, <2>8 DEF PointsAtRows
  <1>9. ASSUME NEW r \in Requests, Count(r) PROVE PointsAtRows'
    <2>1. UNCHANGED <<plan, shop, user, held, given>>
      BY <1>9 DEF Count
    <2>2. req[r].tenant \in Tenants /\ shop[req[r].tenant] # None
      BY <1>9 DEF Count, PointsAtRows, SlotPoints, At
    <2>3. /\ req'[r].pc \in {"idle", "insert", "blind"}
          /\ req'[r].pc # "idle" => req'[r].tenant = req[r].tenant
          /\ Others(r)
      <3>1. CASE End(r)
        BY <3>1, EndSlot DEF Others
      <3>2. ASSUME NEW pc \in {"insert", "blind"}, Go(r, pc, None, None)
            PROVE  <2>3!1 /\ <2>3!2 /\ <2>3!3
        BY <3>2, GoSlot DEF Others, Points
      <3> QED
        BY <1>9, <3>1, <3>2 DEF Count, Unchecked
    <2>4. SlotPoints(r)'
      BY <2>1, <2>2, <2>3 DEF SlotPoints, At
    <2>5. \A s \in Requests : s # r => SlotPoints(s)'
      BY <2>1, <1>g, <2>3, SlotStays DEF PointsAtRows, Others
    <2> QED
      BY <2>1, <2>4, <2>5 DEF PointsAtRows
  <1>10. ASSUME NEW r \in Requests, Insert(r) PROVE PointsAtRows'
    <2>1. req'[r].pc = "idle" /\ Others(r) /\ UNCHANGED <<plan, shop, held, given>>
      BY <1>10, EndSlot DEF Insert, AddUser, Others
    <2>2. req[r].tenant \in Tenants /\ shop[req[r].tenant] # None
      BY <1>10 DEF Insert, AddUser, PointsAtRows, SlotPoints, At
    <2>3. SlotPoints(r)'
      BY <2>1 DEF SlotPoints, At
    <2>4. \A s \in Requests : s # r => SlotPoints(s)'
      BY <1>g, <2>1, SlotStays DEF PointsAtRows, Others
    <2>5. \A t \in Tenants : t # req[r].tenant => user'[t] = user[t]
      BY <1>10, <2>2 DEF Insert, AddUser, TypeOK
    <2> QED
      BY <2>1, <2>2, <2>3, <2>4, <2>5 DEF PointsAtRows
  <1>11. ASSUME NEW t \in Tenants, NEW n \in Names, DeactivateUser(t, n) PROVE PointsAtRows'
    <2>1. \A r \in Requests : SlotPoints(r)'
      BY <1>11, <1>g, SlotStays DEF DeactivateUser, PointsAtRows
    <2>2. \A s \in Tenants, k \in Names : shop'[s] = None => user'[s][k] = "none"
      BY <1>11 DEF DeactivateUser, PointsAtRows, TypeOK
    <2> QED
      BY <1>11, <2>1, <2>2 DEF DeactivateUser, PointsAtRows
  <1>12. CASE Crash
    <2>1. \A r \in Requests : req'[r].pc = "idle"
      BY <1>12 DEF Crash, Idle
    <2>2. \A r \in Requests : SlotPoints(r)'
      BY <2>1 DEF SlotPoints, At
    <2> QED
      BY <1>12, <2>2 DEF Crash, PointsAtRows
  <1>13. CASE UNCHANGED vars
    <2>1. \A r \in Requests : SlotPoints(r)'
      BY <1>13, <1>g, SlotStays DEF vars, PointsAtRows
    <2> QED
      BY <1>13, <2>1 DEF vars, PointsAtRows
  <1> QED
    BY <1>1, <1>2, <1>3, <1>4, <1>5, <1>6, <1>7, <1>8, <1>9, <1>10, <1>11, <1>12, <1>13
    DEF Next

----------------------------------------------------------------------------
\* A step that changes no user, no unseen user and only frees slots, or moves
\* them short of "insert", keeps every shop within its plan.
LEMMA QuietWithin ==
  ASSUME TypeOK, TypeOK', UsersWithinPlan, Grows, UNCHANGED <<user, unseen>>,
         \A t \in Tenants : shop'[t] # None => shop[t] # None,
         \A r \in Requests : req'[r].pc = "insert" => req'[r] = req[r]
  PROVE  UsersWithinPlan'
  <1> SUFFICES ASSUME NEW t \in Tenants, shop'[t] # None PROVE Within(t)'
    BY DEF UsersWithinPlan, Within
  <1>1. Within(t) /\ shop[t] # None /\ LimitsOf(t) \subseteq LimitsOf(t)'
    BY DEF UsersWithinPlan, Grows
  <1>2. ActiveUsers(t)' \subseteq ActiveUsers(t)
    BY DEF ActiveUsers
  <1>3. Admitted(t)' \subseteq Admitted(t)
    BY DEF Admitted, At
  <1> QED
    BY <1>1, <1>2, <1>3, SameWithin

\* A new shop has its owner, and no request of its own.
LEMMA OpeningWithin ==
  ASSUME IInv, TypeOK', Grows, NEW t \in Tenants, NEW p \in Plans, CreateTenant(t, p)
  PROVE  UsersWithinPlan'
  <1> USE TenancyAssumption
  <1>1. ASSUME NEW s \in Tenants, s # t, shop'[s] # None PROVE Within(s)'
    <2>1. shop[s] # None /\ Within(s) /\ LimitsOf(s) \subseteq LimitsOf(s)'
      BY <1>1 DEF IInv, UsersWithinPlan, Grows, CreateTenant, Open, TypeOK
    <2>2. ActiveUsers(s)' \subseteq ActiveUsers(s)
      BY <1>1 DEF CreateTenant, Open, ActiveUsers, IInv, TypeOK
    <2>3. Admitted(s)' \subseteq Admitted(s) /\ unseen'[s] = unseen[s]
      BY DEF CreateTenant, Open, Admitted, At
    <2> QED
      BY <2>1, <2>2, <2>3, SameWithin DEF IInv
  <1>2. Within(t)'
    <2>1. shop[t] = None /\ plan[p] # None /\ plan[p] \in given[p]
      BY DEF CreateTenant, Open, Known, IInv, PointsAtRows
    <2>2. p \in held'[t] /\ UNCHANGED <<req, given, unseen>>
      BY DEF CreateTenant, Open, IInv, TypeOK
    <2>3. plan[p] \in LimitsOf(t)'
      BY <2>1, <2>2 DEF LimitsOf
    <2>4. Admitted(t)' = {}
      BY <2>1, <2>2 DEF Admitted, At, IInv, PointsAtRows, SlotPoints
    <2>5. ActiveUsers(t)' = {Owner}
      BY <2>1 DEF ActiveUsers, CreateTenant, Open, IInv, PointsAtRows, TypeOK
    <2>6. Cardinality(Admitted(t)') = 0 /\ Cardinality(ActiveUsers(t)') = 1
      BY <2>4, <2>5, FS_EmptySet, FS_Singleton
    <2>7. plan[p] \in Nat \/ plan[p] = NoLimit
      BY <2>1 DEF IInv, TypeOK, AnyLimit
    <2>8. unseen'[t] \in Nat
      BY DEF TypeOK
    <2>9. CASE plan[p] \in Nat
      <3>1. Cardinality(ActiveUsers(t)') + Cardinality(Admitted(t)') + 1
               <= (IF plan[p] = 0 THEN 1 ELSE plan[p]) + Cardinality(Requests) + unseen'[t]
        BY <2>6, <2>8, <2>9, Counted
      <3> QED
        BY <2>3, <3>1 DEF Within
    <2> QED
      BY <2>3, <2>7, <2>9 DEF Within
  <1> QED
    BY <1>1, <1>2 DEF UsersWithinPlan, Within

\* A request that finds room is one of all requests that may use it: the users
\* it has counted are below the limit.
LEMMA CountWithin ==
  ASSUME IInv, TypeOK', Grows, NEW r \in Requests, Count(r)
  PROVE  UsersWithinPlan'
  <1> USE TenancyAssumption
  <1>1. UNCHANGED <<shop, user, held, given, unseen>> /\ At(r, "count")
    BY DEF Count
  <1>2. CASE End(r)
    <2>1. \A s \in Requests : req'[s].pc = "insert" => req'[s] = req[s]
      BY <1>2, EndSlot DEF IInv
    <2> QED
      BY <1>1, <2>1, QuietWithin DEF IInv
  <1>3. CASE Unchecked(r)
    <2>1. \A s \in Requests : req'[s].pc = "insert" => req'[s] = req[s]
      BY <1>3, GoSlot DEF IInv, Unchecked, Points
    <2> QED
      BY <1>1, <2>1, QuietWithin DEF IInv
  <1>4. CASE Room(r) /\ Go(r, "insert", None, None)
    <2> DEFINE u == req[r].tenant
    <2> SUFFICES ASSUME NEW t \in Tenants, shop'[t] # None PROVE Within(t)'
      BY DEF UsersWithinPlan, Within
    <2>1. /\ req'[r].tenant = u /\ req'[r].pc = "insert"
          /\ \A s \in Requests : s # r => req'[s] = req[s]
      BY <1>4, GoSlot DEF IInv, Points
    <2>2. ActiveUsers(t)' = ActiveUsers(t)
      BY <1>1 DEF ActiveUsers
    <2>3. CASE t # u
      <3>1. Admitted(t)' \subseteq Admitted(t)
        BY <2>1, <2>3 DEF Admitted, At
      <3>2. Within(t) /\ LimitsOf(t) \subseteq LimitsOf(t)' /\ shop[t] # None
        BY <1>1 DEF IInv, UsersWithinPlan, Grows
      <3> QED
        BY <1>1, <2>2, <3>1, <3>2, SameWithin DEF IInv
    <2>4. CASE t = u
      <3> DEFINE m == req[r].limit
      <3>1. m \in Limits /\ m \in LimitsOf(t)
        BY <1>1, <2>4 DEF IInv, PointsAtRows, SlotPoints, At
      <3>2. m \in LimitsOf(t)'
        BY <3>1 DEF Grows
      <3>3. Cardinality(ActiveUsers(t)') < m
        BY <1>4, <2>2, <2>4 DEF Room
      <3>4. m \in Nat /\ unseen'[t] \in Nat
        BY <3>1 DEF TypeOK
      <3>5. Cardinality(ActiveUsers(t)') + Cardinality(Admitted(t)') + 1
               <= (IF m = 0 THEN 1 ELSE m) + Cardinality(Requests) + unseen'[t]
        BY <3>3, <3>4, CountedNext, Counted
      <3> QED
        BY <3>2, <3>5 DEF Within
    <2> QED
      BY <2>3, <2>4
  <1> QED
    BY <1>2, <1>3, <1>4 DEF Count

\* A request finds no limit only in a shop that has one without.
LEMMA ReadPlanWithin ==
  ASSUME IInv, TypeOK', Grows, NEW r \in Requests, ReadPlan(r)
  PROVE  UsersWithinPlan'
  <1> DEFINE u == req[r].tenant
             m == plan[req[r].plan]
  <1>1. UNCHANGED <<shop, user, held, given, unseen>> /\ At(r, "plan")
    BY DEF ReadPlan
  <1>2. m \in AnyLimit /\ m \in LimitsOf(u)
    <2>1. req[r].plan \in Plans /\ req[r].plan \in held[u]
      BY <1>1 DEF IInv, PointsAtRows, SlotPoints
    <2> QED
      BY <2>1 DEF IInv, TypeOK, PointsAtRows, LimitsOf
  <1>3. ASSUME NEW pc \in {"blind", "count"}, NEW k \in AnyLimit \cup {None}, Go(r, pc, None, k)
        PROVE  UsersWithinPlan'
    <2>1. \A s \in Requests : req'[s].pc = "insert" => req'[s] = req[s]
      BY <1>3, GoSlot DEF IInv, Points
    <2> QED
      BY <1>1, <2>1, QuietWithin DEF IInv
  <1>4. CASE m = NoLimit /\ Go(r, "insert", None, None)
    <2> SUFFICES ASSUME NEW t \in Tenants, shop'[t] # None PROVE Within(t)'
      BY DEF UsersWithinPlan, Within
    <2>1. Within(t) /\ LimitsOf(t) \subseteq LimitsOf(t)' /\ shop[t] # None
      BY <1>1 DEF IInv, UsersWithinPlan, Grows
    <2>2. CASE t = u
      <3>1. NoLimit \in LimitsOf(t)'
        BY <1>2, <1>4, <2>1, <2>2
      <3> QED
        BY <3>1 DEF Within
    <2>3. CASE t # u
      <3>1. /\ req'[r].tenant = u
            /\ \A s \in Requests : s # r => req'[s] = req[s]
        BY <1>4, GoSlot DEF IInv, Points
      <3>2. ActiveUsers(t)' \subseteq ActiveUsers(t) /\ Admitted(t)' \subseteq Admitted(t)
        BY <1>1, <2>3, <3>1 DEF ActiveUsers, Admitted, At
      <3> QED
        BY <1>1, <2>1, <3>2, SameWithin DEF IInv
    <2> QED
      BY <2>2, <2>3
  <1> QED
    BY <1>2, <1>3, <1>4 DEF ReadPlan, Unchecked

\* An insertion uses the room its request has found, or is an unseen one.
LEMMA InsertWithin ==
  ASSUME IInv, TypeOK', Grows, NEW r \in Requests, Insert(r)
  PROVE  UsersWithinPlan'
  <1> USE TenancyAssumption
  <1> DEFINE u == req[r].tenant
             n == req[r].name
  <1>1. UNCHANGED <<plan, shop, held, given>> /\ End(r)
    BY DEF Insert, AddUser
  <1>2. req'[r].pc = "idle" /\ \A s \in Requests : s # r => req'[s] = req[s]
    BY <1>1, EndSlot DEF IInv
  <1>3. CASE UNCHANGED <<user, unseen>>
    BY <1>1, <1>2, <1>3, QuietWithin DEF IInv
  <1>4. CASE /\ user' = [user EXCEPT ![u][n] = "active"]
             /\ unseen' = [unseen EXCEPT ![u] = @ + IF At(r, "blind") THEN 1 ELSE 0]
    <2> SUFFICES ASSUME NEW t \in Tenants, shop'[t] # None PROVE Within(t)'
      BY DEF UsersWithinPlan, Within
    <2>1. shop[t] # None /\ Within(t) /\ LimitsOf(t) \subseteq LimitsOf(t)'
      BY <1>1 DEF IInv, UsersWithinPlan, Grows
    <2>2. /\ u \in Tenants /\ unseen \in [Tenants -> Nat]
          /\ user[u] \in [Names -> {"none", "active", "inactive"}]
      BY DEF Insert, AddUser, IInv, TypeOK, PointsAtRows, SlotPoints, At
    <2>3. CASE t # u
      <3>1. user'[t] = user[t]
        BY <1>4, <2>3 DEF IInv, TypeOK
      <3>2. unseen'[t] = unseen[t]
        BY <1>4, <2>3 DEF IInv, TypeOK
      <3>3. ActiveUsers(t)' \subseteq ActiveUsers(t) /\ Admitted(t)' \subseteq Admitted(t)
        BY <1>2, <3>1 DEF ActiveUsers, Admitted, At
      <3> QED
        BY <2>1, <3>2, <3>3, SameWithin DEF IInv
    <2>4. CASE t = u
      <3>1. ActiveUsers(t)' \subseteq ActiveUsers(t) \cup {n}
        BY <1>4, <2>2, <2>4 DEF ActiveUsers, IInv, TypeOK
      <3>2. Cardinality(ActiveUsers(t)') <= Cardinality(ActiveUsers(t)) + 1
        <4>1. Cardinality(ActiveUsers(t) \cup {n}) <= Cardinality(ActiveUsers(t)) + 1
              /\ IsFiniteSet(ActiveUsers(t) \cup {n})
          <5>1. IsFiniteSet(ActiveUsers(t)) /\ Cardinality(ActiveUsers(t)) \in Nat
            BY Counted
          <5>2. /\ IsFiniteSet(ActiveUsers(t) \cup {n})
                /\ \/ Cardinality(ActiveUsers(t) \cup {n}) = Cardinality(ActiveUsers(t))
                   \/ Cardinality(ActiveUsers(t) \cup {n}) = Cardinality(ActiveUsers(t)) + 1
            BY <5>1, FS_AddElement
          <5> QED
            BY <5>1, <5>2
        <4>2. Cardinality(ActiveUsers(t)') <= Cardinality(ActiveUsers(t) \cup {n})
          BY <3>1, <4>1, FS_Subset
        <4> QED
          BY <4>1, <4>2, Counted, CountedNext, FS_CardinalityType
      <3>3. CASE At(r, "blind")
        <4>1. unseen'[t] = unseen[t] + 1
          BY <1>4, <2>2, <2>4, <3>3
        <4>2. Admitted(t)' \subseteq Admitted(t)
          BY <1>2 DEF Admitted, At
        <4>3. Cardinality(Admitted(t)') <= Cardinality(Admitted(t))
          BY <4>2, Counted, FS_Subset
        <4>4. Cardinality(ActiveUsers(t)') + Cardinality(Admitted(t)') + unseen[t]
                 <= Cardinality(ActiveUsers(t)) + Cardinality(Admitted(t)) + unseen'[t]
          BY <2>2, <3>2, <4>1, <4>3, Counted, CountedNext
        <4> QED
          BY <2>1, <4>4, KeepsWithin DEF IInv
      <3>4. CASE At(r, "insert")
        <4>1. unseen'[t] = unseen[t]
          BY <1>4, <2>2, <2>4, <3>4 DEF At
        <4>2. r \in Admitted(t) /\ Admitted(t)' \subseteq Admitted(t) \ {r}
          BY <1>2, <2>4, <3>4 DEF Admitted, At
        <4>3. Cardinality(Admitted(t)') <= Cardinality(Admitted(t)) - 1
          <5>1. Cardinality(Admitted(t) \ {r}) = Cardinality(Admitted(t)) - 1
                /\ IsFiniteSet(Admitted(t) \ {r})
            BY <4>2, Counted, FS_RemoveElement
          <5> QED
            BY <4>2, <5>1, FS_Subset
        <4>4. Cardinality(ActiveUsers(t)') + Cardinality(Admitted(t)') + unseen[t]
                 <= Cardinality(ActiveUsers(t)) + Cardinality(Admitted(t)) + unseen'[t]
          BY <2>2, <3>2, <4>1, <4>3, Counted, CountedNext
        <4> QED
          BY <2>1, <4>4, KeepsWithin DEF IInv
      <3> QED
        BY <3>3, <3>4 DEF Insert, AddUser
    <2> QED
      BY <2>3, <2>4
  <1> QED
    BY <1>3, <1>4 DEF Insert, AddUser

LEMMA WithinInv == IInv /\ TypeOK' /\ [Next]_vars => UsersWithinPlan'
  <1> SUFFICES ASSUME IInv, TypeOK', [Next]_vars PROVE UsersWithinPlan'
    OBVIOUS
  <1> USE TenancyAssumption
  <1>g. Grows
    BY HistoryGrows DEF IInv
  <1>1. ASSUME NEW p \in Plans, NEW m \in AnyLimit, CreatePlan(p, m) PROVE UsersWithinPlan'
    BY <1>1, <1>g, QuietWithin DEF CreatePlan, Write, IInv
  <1>2. ASSUME NEW r \in Requests, NEW p \in Plans, NEW m \in AnyLimit, ReadRow(r, p, m)
        PROVE UsersWithinPlan'
    <2>1. \A s \in Requests : req'[s].pc = "insert" => req'[s] = req[s]
      BY <1>2 DEF ReadRow, IInv, TypeOK, Idle
    <2> QED
      BY <1>2, <1>g, <2>1, QuietWithin DEF ReadRow, IInv
  <1>3. ASSUME NEW t \in Tenants, NEW p \in Plans, CreateTenant(t, p)
        PROVE UsersWithinPlan'
    BY <1>3, <1>g, OpeningWithin
  <1>4. ASSUME NEW t \in Tenants, NEW p \in Plans \cup {NoPlan}, MoveTenant(t, p)
        PROVE UsersWithinPlan'
    <2>1. \A s \in Tenants : shop'[s] # None => shop[s] # None
      BY <1>4 DEF MoveTenant, Move, IInv, TypeOK
    <2> QED
      BY <1>4, <1>g, <2>1, QuietWithin DEF MoveTenant, Move, IInv
  <1>5. ASSUME NEW r \in Requests, NEW t \in Tenants, NEW n \in Names, Submit(r, t, n)
        PROVE UsersWithinPlan'
    <2>1. \A s \in Requests : req'[s].pc = "insert" => req'[s] = req[s]
      BY <1>5 DEF Submit, IInv, TypeOK, Idle
    <2> QED
      BY <1>5, <1>g, <2>1, QuietWithin DEF Submit, IInv
  <1>6. ASSUME NEW r \in Requests, SaveRow(r) PROVE UsersWithinPlan'
    <2>1. \A s \in Requests : req'[s].pc = "insert" => req'[s] = req[s]
      BY <1>6, EndSlot DEF SaveRow, Write, IInv
    <2> QED
      BY <1>6, <1>g, <2>1, QuietWithin DEF SaveRow, Write, IInv
  <1>7. ASSUME NEW r \in Requests, ReadShop(r) PROVE UsersWithinPlan'
    <2>1. PICK pc \in {"blind", "plan"}, p \in Plans \cup {None} : Go(r, pc, p, None)
      BY <1>7 DEF ReadShop, Unchecked
    <2>2. \A s \in Requests : req'[s].pc = "insert" => req'[s] = req[s]
      BY <2>1, GoSlot DEF IInv, Points
    <2> QED
      BY <1>7, <1>g, <2>2, QuietWithin DEF ReadShop, IInv
  <1>8. ASSUME NEW r \in Requests, ReadPlan(r) PROVE UsersWithinPlan'
    BY <1>8, <1>g, ReadPlanWithin
  <1>9. ASSUME NEW r \in Requests, Count(r) PROVE UsersWithinPlan'
    BY <1>9, <1>g, CountWithin
  <1>10. ASSUME NEW r \in Requests, Insert(r) PROVE UsersWithinPlan'
    BY <1>10, <1>g, InsertWithin
  <1>11. ASSUME NEW t \in Tenants, NEW n \in Names, DeactivateUser(t, n)
         PROVE UsersWithinPlan'
    <2> SUFFICES ASSUME NEW s \in Tenants, shop'[s] # None PROVE Within(s)'
      BY DEF UsersWithinPlan, Within
    <2>1. ActiveUsers(s)' \subseteq ActiveUsers(s) /\ Admitted(s)' \subseteq Admitted(s)
      BY <1>11 DEF DeactivateUser, ActiveUsers, Admitted, At, IInv, TypeOK
    <2>2. /\ shop[s] # None /\ Within(s)
          /\ LimitsOf(s) \subseteq LimitsOf(s)' /\ unseen'[s] = unseen[s]
      BY <1>11, <1>g DEF DeactivateUser, IInv, UsersWithinPlan, Grows
    <2> QED
      BY <2>1, <2>2, SameWithin DEF IInv
  <1>12. CASE Crash
    <2>1. \A s \in Requests : req'[s].pc = "insert" => req'[s] = req[s]
      BY <1>12 DEF Crash, Idle
    <2> QED
      BY <1>12, <1>g, <2>1, QuietWithin DEF Crash, IInv
  <1>13. CASE UNCHANGED vars
    BY <1>13, <1>g, QuietWithin DEF vars, IInv
  <1> QED
    BY <1>1, <1>2, <1>3, <1>4, <1>5, <1>6, <1>7, <1>8, <1>9, <1>10, <1>11, <1>12, <1>13
    DEF Next

LEMMA StepInv == IInv /\ [Next]_vars => IInv'
  BY TypeInv, PointsInv, WithinInv DEF IInv
----------------------------------------------------------------------------
\* The rows and requests are well-formed in every state, and every plan they
\* refer to exists.
THEOREM Typed == Spec => []TypeOK
  <1>1. IInv => TypeOK
    BY DEF IInv
  <1> QED
    BY InitInv, StepInv, <1>1, PTL DEF Spec

\* For any number of requests at once, shops and plans: a shop outgrows the widest
\* limit it ever had by less than the number of requests, apart from users that
\* were added unseen.
THEOREM Within_Plan == Spec => []UsersWithinPlan
  <1>1. IInv => UsersWithinPlan
    BY DEF IInv
  <1> QED
    BY InitInv, StepInv, <1>1, PTL DEF Spec

\* A deactivated account is not brought back by any step.
THEOREM GoneForGood == Spec => GoneStaysGone
  <1>1. ASSUME IInv, [Next]_vars, NEW t \in Tenants, NEW n \in Names, user[t][n] = "inactive"
        PROVE  user'[t][n] = "inactive"
    <2>1. ASSUME NEW s \in Tenants, NEW k \in Names,
                 user[s][k] = "none", user' = [user EXCEPT ![s][k] = "active"]
          PROVE  user'[t][n] = "inactive"
      BY <1>1, <2>1 DEF IInv, TypeOK
    <2>2. ASSUME NEW s \in Tenants, NEW p \in Plans, CreateTenant(s, p)
          PROVE  user'[t][n] = "inactive"
      <3>1. user[s][Owner] = "none" /\ user' = [user EXCEPT ![s][Owner] = "active"]
        <4>1. shop[s] = None /\ Owner \in Names
          BY <2>2, TenancyAssumption DEF CreateTenant, Open
        <4>2. user[s][Owner] = "none"
          BY <1>1, <4>1 DEF IInv, PointsAtRows
        <4> QED
          BY <2>2, <4>2 DEF CreateTenant, Open
      <3> QED
        BY <2>1, <3>1, TenancyAssumption
    <2>3. ASSUME NEW r \in Requests, Insert(r) PROVE user'[t][n] = "inactive"
      <3>1. req[r].tenant \in Tenants /\ req[r].name \in Names
        <4>1. req[r].tenant \in Tenants
          BY <1>1, <2>3 DEF Insert, AddUser, IInv, PointsAtRows, SlotPoints, At
        <4>2. req[r].name \in Names
          BY <1>1 DEF IInv, TypeOK, Request
        <4> QED
          BY <4>1, <4>2
      <3>2. CASE UNCHANGED user
        BY <1>1, <3>2
      <3>3. CASE /\ user[req[r].tenant][req[r].name] = "none"
                 /\ user' = [user EXCEPT ![req[r].tenant][req[r].name] = "active"]
        BY <2>1, <3>1, <3>3
      <3> QED
        BY <2>3, <3>2, <3>3 DEF Insert, AddUser, Free
    <2>4. ASSUME NEW s \in Tenants, NEW k \in Names, DeactivateUser(s, k)
          PROVE  user'[t][n] = "inactive"
      BY <1>1, <2>4 DEF DeactivateUser, IInv, TypeOK
    <2>5. UNCHANGED user => user'[t][n] = "inactive"
      BY <1>1
    <2> QED
      BY <1>1, <2>2, <2>3, <2>4, <2>5 DEF Next, vars, CreatePlan, Write, ReadRow, SaveRow,
         MoveTenant, Move, Submit, ReadShop, ReadPlan, Count, Crash
  <1>2. IInv /\ [Next]_vars =>
           [\A t \in Tenants, n \in Names :
               user[t][n] = "inactive" => user'[t][n] = "inactive"]_vars
    BY <1>1
  <1> QED
    BY InitInv, StepInv, <1>2, PTL DEF Spec, GoneStaysGone
=============================================================================
