---------------------------- MODULE LoginProofs -----------------------------
(***************************************************************************)
(* Proofs about Login, for any number of logins at once and of attempts,   *)
(* and any number of lost statements.                                      *)
(***************************************************************************)
EXTENDS Login, FiniteSetTheorems, TLAPS

\* A login that grants a token to a device that is revoked by then knows no
\* better.
LateGrants ==
    \A r \in Requests : At(r, "grant") /\ req[r].device \in Devices
                           /\ device[req[r].device] = "revoked" => req[r].late

DInv == TypeOK /\ LateGrants /\ RevokedIsTrue
----------------------------------------------------------------------------
LEMMA PinExists == AnyPin \in Pins
  BY LoginAssumption DEF AnyPin

LEMMA Bounds ==
  /\ Cardinality(Requests) \in Nat /\ Cardinality(Requests) >= 1
  /\ MostWrong \in Nat /\ MaxAttempts \in Nat /\ MaxAttempts >= 1 /\ MaxLost \in Nat
  <1>1. Cardinality(Requests) \in Nat
    BY LoginAssumption, FS_CardinalityType
  <1>2. Cardinality(Requests) # 0
    BY LoginAssumption, FS_EmptySet
  <1> QED
    BY <1>1, <1>2, LoginAssumption DEF MostWrong

\* A slot that is well-formed may be put anywhere.
LEMMA PutSlot ==
  ASSUME TypeOK, NEW r \in Requests, NEW pc \in Points, NEW p \in Pins,
         NEW d \in Devices \cup {NoDevice}, NEW n \in 0 .. MaxAttempts, NEW late \in BOOLEAN,
         req' = [req EXCEPT ![r] = Slot(pc, p, d, n, late)]
  PROVE  /\ req' \in [Requests -> Request]
         /\ req'[r].pc = pc /\ req'[r].device = d /\ req'[r].attempts = n
         /\ req'[r].late = late
         /\ \A s \in Requests : s # r => req'[s] = req[s]
  BY DEF TypeOK, Slot, Request

LEMMA GoSlot ==
  ASSUME TypeOK, NEW r \in Requests, NEW pc \in Points, Go(r, pc)
  PROVE  /\ req' \in [Requests -> Request]
         /\ req'[r].pc = pc /\ req'[r].device = req[r].device /\ ~req'[r].late
         /\ \A s \in Requests : s # r => req'[s] = req[s]
  <1>1. req[r].device \in Devices \cup {NoDevice}
    BY DEF TypeOK, Request
  <1>2. 0 \in 0 .. MaxAttempts
    BY Bounds
  <1> QED
    BY <1>1, <1>2, PutSlot, PinExists DEF Go

LEMMA EndSlot ==
  ASSUME TypeOK, NEW r \in Requests, End(r)
  PROVE  /\ req' \in [Requests -> Request]
         /\ req'[r].pc = "idle"
         /\ \A s \in Requests : s # r => req'[s] = req[s]
  <1>1. 0 \in 0 .. MaxAttempts
    BY Bounds
  <1> QED
    BY <1>1, PutSlot, PinExists DEF End, Idle, Points

LEMMA UpType == ASSUME NEW most \in Nat, NEW n \in 0 .. most PROVE Up(n, most) \in 0 .. most
  BY DEF Up
----------------------------------------------------------------------------
LEMMA InitInv == Init => DInv
  <1> SUFFICES ASSUME Init PROVE DInv
    OBVIOUS
  <1>1. Idle \in Request
    BY PinExists, Bounds DEF Idle, Slot, Request, Points
  <1>2. TypeOK
    BY <1>1, Bounds DEF Init, TypeOK
  <1>3. \A r \in Requests : req[r].pc = "idle"
    BY DEF Init, Idle, Slot
  <1> QED
    BY <1>2, <1>3 DEF Init, DInv, LateGrants, RevokedIsTrue, At

\* What a step of the lock does to the account.
LEMMA EffectType ==
  ASSUME TypeOK, NEW u \in User, Effect(u)
  PROVE  user' \in User /\ lost' \in 0 .. MaxLost
  BY Bounds DEF Effect, TypeOK

LEMMA TypeInv == TypeOK /\ [Next]_vars => TypeOK'
  <1> SUFFICES ASSUME TypeOK, [Next]_vars PROVE TypeOK'
    OBVIOUS
  <1> USE LoginAssumption
  <1>1. ASSUME NEW r \in Requests, NEW p \in Pins, NEW d \in Devices \cup {NoDevice},
               Submit(r, p, d)
        PROVE  TypeOK'
    <2>1. 0 \in 0 .. MaxAttempts /\ "read" \in Points /\ FALSE \in BOOLEAN
      BY Bounds DEF Points
    <2>2. req' = [req EXCEPT ![r] = Slot("read", p, d, 0, FALSE)]
      BY <1>1 DEF Submit
    <2>3. req' \in [Requests -> Request]
      BY <2>1, <2>2, PutSlot
    <2> QED
      BY <1>1, <2>3 DEF Submit, TypeOK
  <1>2. ASSUME NEW r \in Requests, Read(r) PROVE TypeOK'
    <2>1. UNCHANGED <<open, user, device, lost, sessions>>
      BY <1>2 DEF Read
    <2>2. CASE (End(r) \/ Go(r, "reset")) /\ UNCHANGED wrong
      BY <2>1, <2>2, EndSlot, GoSlot DEF TypeOK, Points
    <2>3. CASE /\ req' = [req EXCEPT ![r] = Slot("count", AnyPin, NoDevice, user.attempts, FALSE)]
               /\ wrong' = Up(wrong, MostWrong)
      <3>1. user.attempts \in 0 .. MaxAttempts
        BY DEF TypeOK, User
      <3>2. req' \in [Requests -> Request]
        BY <2>3, <3>1, PutSlot, PinExists DEF Points
      <3>3. wrong' \in 0 .. MostWrong
        BY <2>3, UpType, Bounds DEF TypeOK
      <3> QED
        BY <2>1, <3>2, <3>3 DEF TypeOK
    <2> QED
      BY <1>2, <2>2, <2>3 DEF Read
  <1>3. ASSUME NEW r \in Requests, ReadFails(r) PROVE TypeOK'
    BY <1>3, EndSlot DEF ReadFails, TypeOK
  <1>4. ASSUME NEW r \in Requests, Count(r) PROVE TypeOK'
    <2>1. user \in User /\ user.attempts \in 0 .. MaxAttempts
      BY DEF TypeOK, User
    <2>2. Up(user.attempts, MaxAttempts) \in 0 .. MaxAttempts
      BY <2>1, UpType, Bounds
    <2>3. [user EXCEPT !.attempts = Up(user.attempts, MaxAttempts)] \in User
      BY <2>1, <2>2 DEF User
    <2>4. user' \in User /\ lost' \in 0 .. MaxLost
      BY <1>4, <2>3, EffectType DEF Count, IncrementFailedAttempts
    <2>5. req' \in [Requests -> Request]
      BY <1>4, EndSlot, GoSlot DEF Count, IncrementFailedAttempts, Points
    <2> QED
      BY <1>4, <2>4, <2>5 DEF Count, IncrementFailedAttempts, TypeOK
  <1>5. ASSUME NEW r \in Requests, Lock(r) PROVE TypeOK'
    <2>1. [user EXCEPT !.locked = LockUntil] \in User
      BY DEF TypeOK, User, LockUntil
    <2>2. user' \in User /\ lost' \in 0 .. MaxLost
      BY <1>5, <2>1, EffectType DEF Lock, LockUser
    <2> QED
      BY <1>5, <2>2, EndSlot DEF Lock, LockUser, TypeOK
  <1>6. ASSUME NEW r \in Requests, Reset(r) PROVE TypeOK'
    <2>1. user' \in User /\ wrong' \in 0 .. MostWrong
      <3>1. [user EXCEPT !.attempts = 0, !.locked = 0] \in User
        <4>1. user \in User /\ 0 \in 0 .. MaxAttempts /\ 0 \in 0 .. LockFor
          BY Bounds DEF TypeOK
        <4>2. \A u \in User : [u EXCEPT !.attempts = 0] \in User
          BY <4>1 DEF User
        <4>3. \A u \in User : [u EXCEPT !.locked = 0] \in User
          BY <4>1 DEF User
        <4> QED
          BY <4>1, <4>2, <4>3
      <3> QED
        BY <1>6, <3>1, Bounds DEF Reset, ResetFailedAttempts, TypeOK
    <2>2. req' \in [Requests -> Request]
      BY <1>6, GoSlot DEF Reset, ResetFailedAttempts, Points
    <2> QED
      BY <1>6, <2>1, <2>2 DEF Reset, ResetFailedAttempts, TypeOK
  <1>7. ASSUME NEW r \in Requests, LookUp(r) PROVE TypeOK'
    BY <1>7, GoSlot DEF LookUp, TypeOK, Points
  <1>8. ASSUME NEW r \in Requests, Register(r) PROVE TypeOK'
    <2>1. req[r].device \in Devices \cup {NoDevice} /\ 0 \in 0 .. MaxAttempts
      BY Bounds DEF TypeOK, Request
    <2>2. req' \in [Requests -> Request]
      BY <1>8, <2>1, GoSlot, PutSlot, PinExists DEF Register, Points
    <2>3. device' \in [Devices -> {"unknown", "registered", "revoked"}]
      BY <1>8 DEF Register, Upsert, TypeOK
    <2> QED
      BY <1>8, <2>2, <2>3 DEF Register, TypeOK
  <1>9. ASSUME NEW r \in Requests, Grant(r) PROVE TypeOK'
    <2>1. sessions' \in [Devices -> SUBSET Ages]
      BY <1>9 DEF Grant, Granted, TypeOK, Ages
    <2> QED
      BY <1>9, <2>1, EndSlot DEF Grant, Granted, TypeOK
  <1>10. ASSUME NEW d \in Devices, RegisterDevice(d) PROVE TypeOK'
    BY <1>10 DEF RegisterDevice, Upsert, TypeOK
  <1>11. ASSUME NEW d \in Devices, RevokeDevice(d) PROVE TypeOK'
    <2>1. ASSUME NEW r \in Requests, NEW b \in BOOLEAN
          PROVE  [req[r] EXCEPT !.late = b] \in Request
      BY DEF TypeOK, Request
    <2>2. req' \in [Requests -> Request]
      <3>1. ASSUME NEW r \in Requests
            PROVE  (req[r].late \/ (req[r].pc = "grant" /\ req[r].device = d)) \in BOOLEAN
        OBVIOUS
      <3> QED
        BY <1>11, <2>1, <3>1 DEF RevokeDevice, Revoke
    <2>3. sessions' \in [Devices -> SUBSET Ages]
      BY <1>11 DEF RevokeDevice, TypeOK, Ages
    <2> QED
      BY <1>11, <2>2, <2>3 DEF RevokeDevice, Revoke, TypeOK
  <1>12. CASE SuspendTenant \/ ReopenTenant
    BY <1>12 DEF SuspendTenant, ReopenTenant, TypeOK
  <1>13. ASSUME NEW p \in Pins, ChangePIN(p) PROVE TypeOK'
    BY <1>13 DEF ChangePIN, TypeOK, User
  <1>14. CASE DeactivateUser
    BY <1>14 DEF DeactivateUser, TypeOK, User
  <1>15. CASE Tick
    <2>1. user.locked \in 1 .. LockFor
      BY <1>15 DEF Tick, TypeOK, User
    <2>2. user' \in User
      BY <1>15, <2>1 DEF Tick, TypeOK, User
    <2>3. wrong' \in 0 .. MostWrong
      BY <1>15, Bounds DEF Tick, TypeOK
    <2> QED
      BY <1>15, <2>2, <2>3 DEF Tick, TypeOK
  <1>16. CASE Crash
    <2>1. lost' \in 0 .. MaxLost
      <3>1. Cardinality(Pending) \in Nat
        BY FS_Subset, FS_CardinalityType DEF Pending
      <3> QED
        BY <1>16, <3>1, Bounds DEF Crash, TypeOK
    <2>2. Idle \in Request
      BY PinExists, Bounds DEF Idle, Slot, Request, Points
    <2> QED
      BY <1>16, <2>1, <2>2 DEF Crash, TypeOK
  <1>17. CASE UNCHANGED vars
    BY <1>17 DEF vars, TypeOK
  <1>18. ASSUME NEW d \in Devices, NEW age \in Ages, Refresh(d, age) \/ Logout(d, age)
         PROVE  TypeOK'
    BY <1>18 DEF Refresh, Logout, Granted, EndSession, TypeOK
  <1> QED
    BY <1>1, <1>2, <1>3, <1>4, <1>5, <1>6, <1>7, <1>8, <1>9, <1>10, <1>11, <1>12, <1>13,
       <1>14, <1>15, <1>16, <1>17, <1>18 DEF Next, Step

----------------------------------------------------------------------------
\* A step that leaves the devices as they are keeps what the slots know of them,
\* if it puts no slot at "grant" with a revoked device.
LEMMA SlotsLate ==
  ASSUME TypeOK, LateGrants, UNCHANGED device, NEW r \in Requests,
         \A s \in Requests : s # r => req'[s] = req[s],
         req'[r].pc = "grant" /\ req'[r].device \in Devices
            /\ device[req'[r].device] = "revoked" => req'[r].late
  PROVE  LateGrants'
  BY DEF LateGrants, At

LEMMA LateInv == DInv /\ TypeOK' /\ [Next]_vars => LateGrants'
  <1> SUFFICES ASSUME DInv, TypeOK', [Next]_vars PROVE LateGrants'
    OBVIOUS
  <1> USE LoginAssumption DEF DInv
  <1>1. ASSUME NEW r \in Requests, NEW pc \in Points, Go(r, pc), UNCHANGED device,
               pc = "grant" => req[r].device \notin Devices \/ device[req[r].device] # "revoked"
        PROVE  LateGrants'
    <2>1. /\ req'[r].pc = pc /\ req'[r].device = req[r].device
          /\ \A s \in Requests : s # r => req'[s] = req[s]
      BY <1>1, GoSlot
    <2> QED
      BY <1>1, <2>1, SlotsLate
  <1>2. ASSUME NEW r \in Requests, End(r), UNCHANGED device PROVE LateGrants'
    <2>1. req'[r].pc = "idle" /\ \A s \in Requests : s # r => req'[s] = req[s]
      BY <1>2, EndSlot
    <2> QED
      BY <1>2, <2>1, SlotsLate
  <1>3. ASSUME NEW r \in Requests, NEW pc \in Points, NEW p \in Pins,
               NEW d \in Devices \cup {NoDevice}, NEW n \in 0 .. MaxAttempts,
               NEW late \in BOOLEAN, pc # "grant" \/ late, UNCHANGED device,
               req' = [req EXCEPT ![r] = Slot(pc, p, d, n, late)]
        PROVE  LateGrants'
    <2>1. /\ req'[r].pc = pc /\ req'[r].late = late
          /\ \A s \in Requests : s # r => req'[s] = req[s]
      BY <1>3, PutSlot
    <2> QED
      BY <1>3, <2>1, SlotsLate
  <1>4. 0 \in 0 .. MaxAttempts
    BY Bounds
  <1>5. ASSUME NEW d \in Devices, Upsert(d), NEW r \in Requests,
               \A s \in Requests : s # r => req'[s] = req[s],
               req'[r] = req[r] \/ req'[r].device = d
        PROVE  LateGrants'
    BY <1>5 DEF LateGrants, Upsert, At, TypeOK
  <1>6. ASSUME NEW r \in Requests, NEW p \in Pins, NEW d \in Devices \cup {NoDevice},
               Submit(r, p, d)
        PROVE  LateGrants'
    BY <1>3, <1>4, <1>6 DEF Submit, Points
  <1>7. ASSUME NEW r \in Requests, Read(r) PROVE LateGrants'
    <2>1. CASE /\ req' = [req EXCEPT ![r] = Slot("count", AnyPin, NoDevice, user.attempts, FALSE)]
      <3>1. user.attempts \in 0 .. MaxAttempts
        BY DEF TypeOK, User
      <3> QED
        BY <1>3, <1>7, <2>1, <3>1, PinExists DEF Read, Points
    <2> QED
      BY <1>1, <1>2, <1>7, <2>1 DEF Read, Points
  <1>8. ASSUME NEW r \in Requests, ReadFails(r) \/ Count(r) \/ Lock(r) \/ Grant(r)
        PROVE  LateGrants'
    BY <1>1, <1>2, <1>8 DEF ReadFails, Count, IncrementFailedAttempts, Lock, LockUser, Grant,
       Points
  <1>9. ASSUME NEW r \in Requests, Reset(r) PROVE LateGrants'
    BY <1>1, <1>9 DEF Reset, ResetFailedAttempts, Points
  <1>10. ASSUME NEW r \in Requests, LookUp(r) PROVE LateGrants'
    BY <1>1, <1>10 DEF LookUp, IsRegistered, Points
  <1>11. ASSUME NEW r \in Requests, Register(r) PROVE LateGrants'
    <2>1. CASE Upsert(req[r].device) /\ Go(r, "grant")
      <3>1. /\ req'[r].device = req[r].device
            /\ \A s \in Requests : s # r => req'[s] = req[s]
        BY <2>1, GoSlot DEF Points
      <3>2. req[r].device \in Devices \cup {NoDevice}
        BY DEF TypeOK, Request
      <3>3. CASE req[r].device \in Devices
        BY <1>5, <2>1, <3>1, <3>3
      <3>4. CASE req[r].device = NoDevice
        <4>1. device' = device
          BY <2>1, <3>4 DEF Upsert, TypeOK
        <4> QED
          BY <1>1, <2>1, <3>4, <4>1 DEF Points
      <3> QED
        BY <3>2, <3>3, <3>4
    <2>2. CASE /\ req' = [req EXCEPT ![r] = Slot("grant", AnyPin, req[r].device, 0, TRUE)]
               /\ UNCHANGED device
      <3>1. req[r].device \in Devices \cup {NoDevice}
        BY DEF TypeOK, Request
      <3> QED
        BY <1>3, <1>4, <2>2, <3>1, PinExists DEF Points
    <2> QED
      BY <1>11, <2>1, <2>2 DEF Register
  <1>12. ASSUME NEW d \in Devices, RegisterDevice(d) PROVE LateGrants'
    BY <1>12 DEF RegisterDevice, Upsert, LateGrants, At, TypeOK
  <1>13. ASSUME NEW d \in Devices, RevokeDevice(d) PROVE LateGrants'
    <2>1. ASSUME NEW r \in Requests
          PROVE  /\ req'[r].pc = req[r].pc /\ req'[r].device = req[r].device
                 /\ req'[r].late <=> req[r].late \/ (req[r].pc = "grant" /\ req[r].device = d)
      BY <1>13 DEF RevokeDevice, Revoke, TypeOK, Request
    <2>2. \A e \in Devices : e # d => device'[e] = device[e]
      BY <1>13 DEF RevokeDevice, Revoke, TypeOK
    <2> QED
      BY <2>1, <2>2 DEF LateGrants, At
  <1>14. CASE \/ SuspendTenant \/ ReopenTenant \/ DeactivateUser \/ Tick
              \/ \E p \in Pins : ChangePIN(p)
              \/ \E d \in Devices, age \in Ages : Refresh(d, age) \/ Logout(d, age)
              \/ UNCHANGED vars
    BY <1>14 DEF SuspendTenant, ReopenTenant, DeactivateUser, Tick, ChangePIN, Refresh,
       Logout, vars, LateGrants, At
  <1>15. CASE Crash
    BY <1>15 DEF Crash, Idle, Slot, LateGrants, At
  <1> QED
    BY <1>6, <1>7, <1>8, <1>9, <1>10, <1>11, <1>12, <1>13, <1>14, <1>15 DEF Next, Step

LEMMA RevokedInv == DInv /\ [Next]_vars => RevokedIsTrue'
  <1> SUFFICES ASSUME DInv, [Next]_vars PROVE RevokedIsTrue'
    OBVIOUS
  <1> USE LoginAssumption DEF DInv
  <1>1. CASE UNCHANGED <<device, sessions>>
    BY <1>1 DEF RevokedIsTrue
  <1>2. ASSUME NEW d, Upsert(d), UNCHANGED sessions PROVE RevokedIsTrue'
    BY <1>2 DEF RevokedIsTrue, Upsert, TypeOK
  <1>3. ASSUME NEW r \in Requests, Grant(r) PROVE RevokedIsTrue'
    <2>1. CASE req[r].device = NoDevice
      BY <1>3, <2>1 DEF Grant, Granted, RevokedIsTrue
    <2>2. CASE req[r].device \in Devices
      <3>1. device[req[r].device] = "revoked" => req[r].late
        BY <1>3, <2>2 DEF Grant, Granted, LateGrants
      <3> QED
        BY <1>3, <2>2, <3>1 DEF Grant, Granted, RevokedIsTrue, TypeOK
    <2> QED
      BY <2>1, <2>2 DEF TypeOK, Request
  <1>4. ASSUME NEW d \in Devices, RevokeDevice(d) PROVE RevokedIsTrue'
    BY <1>4 DEF RevokeDevice, Revoke, RevokedIsTrue, TypeOK
  <1>5. ASSUME NEW d \in Devices, NEW age \in Ages, Refresh(d, age) \/ Logout(d, age)
        PROVE  RevokedIsTrue'
    BY <1>5 DEF Refresh, Logout, Granted, EndSession, RevokedIsTrue, TypeOK
  <1> QED
    BY <1>1, <1>2, <1>3, <1>4, <1>5 DEF Next, Step, vars, Submit, Read, ReadFails, Count,
       IncrementFailedAttempts, Lock, LockUser, Reset, ResetFailedAttempts, LookUp, Register,
       RegisterDevice, SuspendTenant, ReopenTenant, ChangePIN, DeactivateUser, Tick, Crash
----------------------------------------------------------------------------
(***************************************************************************)
(* How many wrong PINs can be tried.  Until the attempts in the row are    *)
(* one short of the lock, every wrong PIN is in the row, still to be added *)
(* to it, or lost.  From then on a login that types a wrong PIN will lock  *)
(* the account, and keeps its slot until it has.                           *)
(***************************************************************************)
Counting == {r \in Requests : At(r, "count")}
Locking == {r \in Requests : At(r, "lock") \/ (At(r, "count") /\ Reached(r))}

GInv ==
    /\ user.locked = 0 /\ user.attempts + 1 < MaxAttempts =>
          wrong <= user.attempts + Cardinality(Counting) + lost
    /\ user.locked = 0 /\ user.attempts + 1 >= MaxAttempts =>
          wrong + 2 <= MaxAttempts + Cardinality(Requests) + Cardinality(Locking) + lost
    /\ GuessesBounded

LEMMA Sets ==
  /\ Counting \subseteq Pending /\ Locking \subseteq Pending /\ Pending \subseteq Requests
  /\ IsFiniteSet(Counting) /\ IsFiniteSet(Locking) /\ IsFiniteSet(Pending)
  /\ Cardinality(Counting) \in Nat /\ Cardinality(Locking) \in Nat
  /\ Cardinality(Pending) \in Nat
  /\ Cardinality(Counting) <= Cardinality(Pending)
  /\ Cardinality(Locking) <= Cardinality(Pending)
  /\ Cardinality(Pending) <= Cardinality(Requests)
  <1>1. Counting \subseteq Pending /\ Locking \subseteq Pending /\ Pending \subseteq Requests
    BY DEF Counting, Locking, Pending, At
  <1>2. IsFiniteSet(Pending) /\ Cardinality(Pending) <= Cardinality(Requests)
    BY <1>1, FS_Subset, LoginAssumption
  <1>3. IsFiniteSet(Counting) /\ Cardinality(Counting) <= Cardinality(Pending)
    BY <1>1, <1>2, FS_Subset
  <1>4. IsFiniteSet(Locking) /\ Cardinality(Locking) <= Cardinality(Pending)
    BY <1>1, <1>2, FS_Subset
  <1> QED
    BY <1>1, <1>2, <1>3, <1>4, FS_CardinalityType

\* The same after a step.
LEMMA SetsNext ==
  /\ IsFiniteSet(Counting') /\ IsFiniteSet(Locking')
  /\ Cardinality(Counting') \in Nat /\ Cardinality(Locking') \in Nat
  /\ Cardinality(Counting') <= Cardinality(Requests)
  /\ Cardinality(Locking') <= Cardinality(Requests)
  <1>1. Counting' \subseteq Requests /\ Locking' \subseteq Requests
    BY DEF Counting, Locking
  <1> QED
    BY <1>1, FS_Subset, FS_CardinalityType, LoginAssumption

\* The numbers the invariant is about.
LEMMA Numbers ==
  ASSUME TypeOK
  PROVE  /\ user.locked \in Nat /\ user.attempts \in Nat /\ user.attempts <= MaxAttempts
         /\ wrong \in Nat /\ lost \in Nat
  BY Bounds, LoginAssumption DEF TypeOK, User

LEMMA NumbersNext ==
  ASSUME TypeOK'
  PROVE  /\ user'.locked \in Nat /\ user'.attempts \in Nat /\ user'.attempts <= MaxAttempts
         /\ wrong' \in Nat /\ lost' \in Nat
  BY Bounds, LoginAssumption DEF TypeOK, User

\* While the account is open the first two parts give the third.
LEMMA OpenBounded ==
  ASSUME TypeOK', user'.locked = 0,
         user'.attempts + 1 < MaxAttempts =>
            wrong' <= user'.attempts + Cardinality(Counting') + lost',
         user'.attempts + 1 >= MaxAttempts =>
            wrong' + 2 <= MaxAttempts + Cardinality(Requests) + Cardinality(Locking') + lost'
  PROVE  GInv'
  BY Bounds, NumbersNext, SetsNext DEF GInv, GuessesBounded

\* A step that starts the count again keeps the invariant.
LEMMA ZeroKeeps == ASSUME TypeOK', wrong' = 0 PROVE GInv'
  BY Bounds, NumbersNext, SetsNext DEF GInv, GuessesBounded

\* So does one that counts nothing and takes no slot from the two sets.
LEMMA QuietKeeps ==
  ASSUME TypeOK, TypeOK', GInv, UNCHANGED <<wrong, lost>>,
         user'.attempts = user.attempts, user'.locked = user.locked,
         Counting \subseteq Counting', Locking \subseteq Locking'
  PROVE  GInv'
  <1>1. /\ Cardinality(Counting) <= Cardinality(Counting')
        /\ Cardinality(Locking) <= Cardinality(Locking')
    BY SetsNext, FS_Subset
  <1> QED
    BY <1>1, Bounds, Numbers, Sets, SetsNext DEF GInv, GuessesBounded

\* What the sets become when one slot moves and the others stay.
LEMMA OneSlot ==
  ASSUME NEW r \in Requests, \A s \in Requests : s # r => req'[s] = req[s]
  PROVE  /\ Counting' = (Counting \ {r}) \cup (IF At(r, "count")' THEN {r} ELSE {})
         /\ Locking' = (Locking \ {r}) \cup
               (IF At(r, "lock")' \/ (At(r, "count")' /\ Reached(r)') THEN {r} ELSE {})
  BY DEF Counting, Locking, At, Reached

\* A step that moves a slot outside the two sets.
LEMMA OutsideKeeps ==
  ASSUME TypeOK, TypeOK', GInv, UNCHANGED <<wrong, lost>>,
         user'.attempts = user.attempts, user'.locked = user.locked,
         NEW r \in Requests, \A s \in Requests : s # r => req'[s] = req[s],
         ~At(r, "count"), ~At(r, "lock")
  PROVE  GInv'
  <1>1. r \notin Counting /\ r \notin Locking
    BY DEF Counting, Locking
  <1>2. Counting \subseteq Counting' /\ Locking \subseteq Locking'
    BY <1>1, OneSlot
  <1> QED
    BY <1>2, QuietKeeps

LEMMA WrongKeeps ==
  ASSUME TypeOK, TypeOK', GInv, NEW r \in Requests, At(r, "read"), ~Refused,
         req' = [req EXCEPT ![r] = Slot("count", AnyPin, NoDevice, user.attempts, FALSE)],
         wrong' = Up(wrong, MostWrong), UNCHANGED <<user, lost>>
  PROVE  GInv'
  <1>1. user.locked = 0
    BY Numbers DEF Refused
  <1>2. user.attempts \in 0 .. MaxAttempts
    BY DEF TypeOK, User
  <1>3. /\ req'[r].pc = "count" /\ req'[r].attempts = user.attempts
        /\ \A s \in Requests : s # r => req'[s] = req[s]
    BY DEF Slot, TypeOK
  <1>4. r \notin Counting /\ r \notin Locking
    BY DEF Counting, Locking, At
  <1>5. Counting' = Counting \cup {r}
    BY <1>3, <1>4, OneSlot DEF At
  <1>6. Cardinality(Counting') = Cardinality(Counting) + 1
    BY <1>4, <1>5, Sets, FS_AddElement
  <1>7. ASSUME user.attempts + 1 >= MaxAttempts
        PROVE  Cardinality(Locking') = Cardinality(Locking) + 1
    <2>1. Locking' = Locking \cup {r}
      BY <1>3, <1>4, <1>7, OneSlot DEF At, Reached
    <2> QED
      BY <1>4, <2>1, Sets, FS_AddElement
  <1>8. wrong' <= wrong + 1
    BY Bounds, Numbers DEF Up, TypeOK
  <1>9. user.attempts + 1 < MaxAttempts =>
           wrong' <= user.attempts + Cardinality(Counting') + lost
    BY <1>1, <1>6, <1>8, Bounds, Numbers, NumbersNext, Sets, SetsNext DEF GInv
  <1>10. user.attempts + 1 >= MaxAttempts =>
           wrong' + 2 <= MaxAttempts + Cardinality(Requests) + Cardinality(Locking') + lost
    BY <1>1, <1>7, <1>8, Bounds, Numbers, NumbersNext, Sets, SetsNext DEF GInv
  <1> QED
    BY <1>1, <1>9, <1>10, OpenBounded

LEMMA CountKeeps ==
  ASSUME TypeOK, TypeOK', GInv, NEW r \in Requests, Count(r)
  PROVE  GInv'
  <1>1. /\ At(r, "count") /\ UNCHANGED wrong
        /\ \A s \in Requests : s # r => req'[s] = req[s]
        /\ req'[r].pc = IF Reached(r) THEN "lock" ELSE "idle"
    BY GoSlot, EndSlot DEF Count, IncrementFailedAttempts, Points
  <1>2. Counting' = Counting \ {r} /\ r \in Counting
    BY <1>1, OneSlot DEF At, Counting
  <1>3. Cardinality(Counting') = Cardinality(Counting) - 1
    BY <1>2, Sets, FS_RemoveElement
  <1>4. Locking' = Locking
    <2>1. CASE Reached(r)
      BY <1>1, <2>1, OneSlot DEF Locking, At
    <2>2. CASE ~Reached(r)
      <3>1. r \notin Locking /\ ~At(r, "count")' /\ ~At(r, "lock")'
        BY <1>1, <2>2 DEF Locking, At
      <3> QED
        BY <1>1, <3>1, OneSlot
    <2> QED
      BY <2>1, <2>2
  <1>5. CASE user' = [user EXCEPT !.attempts = Up(@, MaxAttempts)] /\ UNCHANGED lost
    <2>1. user'.locked = user.locked /\ user'.attempts = Up(user.attempts, MaxAttempts)
      BY <1>5 DEF TypeOK, User
    <2>2. CASE user.locked # 0
      BY <1>1, <1>5, <2>1, <2>2 DEF GInv, GuessesBounded
    <2>3. CASE user.locked = 0 /\ user.attempts + 1 < MaxAttempts
      <3>1. /\ user'.attempts = user.attempts + 1
            /\ wrong <= user.attempts + Cardinality(Counting) + lost
        BY <2>1, <2>3, Bounds, Numbers DEF Up, GInv
      <3> QED
        BY <1>1, <1>3, <1>5, <2>1, <2>3, <3>1, Bounds, Numbers, Sets, SetsNext, OpenBounded
    <2>4. CASE user.locked = 0 /\ user.attempts + 1 >= MaxAttempts
      <3>1. /\ user'.attempts + 1 >= MaxAttempts
            /\ wrong + 2 <= MaxAttempts + Cardinality(Requests) + Cardinality(Locking) + lost
        BY <2>1, <2>4, Bounds, Numbers DEF Up, GInv
      <3> QED
        BY <1>1, <1>4, <1>5, <2>1, <2>4, <3>1, Bounds, NumbersNext, OpenBounded
    <2> QED
      BY <2>2, <2>3, <2>4, Bounds, Numbers
  <1>6. CASE lost' = lost + 1 /\ UNCHANGED user
    BY <1>1, <1>3, <1>4, <1>6, Bounds, Numbers, Sets, SetsNext DEF GInv, GuessesBounded
  <1> QED
    BY <1>5, <1>6 DEF Count, IncrementFailedAttempts, Effect

LEMMA LockKeeps ==
  ASSUME TypeOK, TypeOK', GInv, NEW r \in Requests, Lock(r)
  PROVE  GInv'
  <1>1. /\ At(r, "lock") /\ UNCHANGED wrong /\ req'[r].pc = "idle"
        /\ \A s \in Requests : s # r => req'[s] = req[s]
    BY EndSlot DEF Lock, LockUser
  <1>2. Counting' = Counting /\ Locking' = Locking \ {r} /\ r \in Locking
    BY <1>1, OneSlot DEF At, Counting, Locking
  <1>3. Cardinality(Locking') = Cardinality(Locking) - 1
    BY <1>2, Sets, FS_RemoveElement
  <1>4. CASE user' = [user EXCEPT !.locked = LockUntil] /\ UNCHANGED lost
    <2>1. user'.locked # 0
      BY <1>4, LoginAssumption DEF TypeOK, User, LockUntil
    <2> QED
      BY <1>1, <1>4, <2>1 DEF GInv, GuessesBounded
  <1>5. CASE lost' = lost + 1 /\ UNCHANGED user
    BY <1>1, <1>2, <1>3, <1>5, Bounds, Numbers, Sets, SetsNext DEF GInv, GuessesBounded
  <1> QED
    BY <1>4, <1>5 DEF Lock, LockUser, Effect

LEMMA CrashKeeps == ASSUME TypeOK, TypeOK', GInv, Crash PROVE GInv'
  <1>1. UNCHANGED <<user, wrong>> /\ lost' = lost + Cardinality(Pending)
    BY DEF Crash
  <1>2. Counting' = {} /\ Locking' = {}
    BY DEF Crash, Idle, Slot, Counting, Locking, At
  <1>3. Cardinality(Counting') = 0 /\ Cardinality(Locking') = 0
    BY <1>2, FS_EmptySet
  <1> QED
    BY <1>1, <1>3, Bounds, Numbers, Sets DEF GInv, GuessesBounded

LEMMA GInit == Init => GInv
  <1> SUFFICES ASSUME Init PROVE GInv
    OBVIOUS
  <1>1. TypeOK
    BY InitInv DEF DInv
  <1> QED
    BY <1>1, Bounds, Numbers, Sets DEF Init, GInv, GuessesBounded

LEMMA GStep == TypeOK /\ GInv /\ [Next]_vars => GInv'
  <1> SUFFICES ASSUME TypeOK, GInv, [Next]_vars PROVE GInv'
    OBVIOUS
  <1>t. TypeOK'
    BY TypeInv
  <1>1. ASSUME NEW r \in Requests, NEW p \in Pins, NEW d \in Devices \cup {NoDevice},
               Submit(r, p, d)
        PROVE  GInv'
    <2>1. \A s \in Requests : s # r => req'[s] = req[s]
      BY <1>1 DEF Submit, TypeOK
    <2> QED
      BY <1>t, <1>1, <2>1, OutsideKeeps DEF Submit, At
  <1>2. ASSUME NEW r \in Requests, Read(r) PROVE GInv'
    <2>1. CASE (End(r) \/ Go(r, "reset")) /\ UNCHANGED wrong
      <3>1. \A s \in Requests : s # r => req'[s] = req[s]
        BY <2>1, EndSlot, GoSlot DEF Points
      <3> QED
        BY <1>t, <1>2, <2>1, <3>1, OutsideKeeps DEF Read, At
    <2>2. CASE /\ ~Refused
               /\ req' = [req EXCEPT ![r] = Slot("count", AnyPin, NoDevice, user.attempts, FALSE)]
               /\ wrong' = Up(wrong, MostWrong)
      BY <1>t, <1>2, <2>2, WrongKeeps DEF Read
    <2> QED
      BY <1>2, <2>1, <2>2 DEF Read
  <1>3. ASSUME NEW r \in Requests, ReadFails(r) \/ Grant(r) PROVE GInv'
    <2>1. \A s \in Requests : s # r => req'[s] = req[s]
      BY <1>3, EndSlot DEF ReadFails, Grant
    <2> QED
      BY <1>t, <1>3, <2>1, OutsideKeeps DEF ReadFails, Grant, At
  <1>4. ASSUME NEW r \in Requests, Count(r) PROVE GInv'
    BY <1>t, <1>4, CountKeeps
  <1>5. ASSUME NEW r \in Requests, Lock(r) PROVE GInv'
    BY <1>t, <1>5, LockKeeps
  <1>6. ASSUME NEW r \in Requests, Reset(r) PROVE GInv'
    <2>1. CASE wrong' = 0
      BY <1>t, <2>1, ZeroKeeps
    <2>2. CASE UNCHANGED <<user, wrong>>
      <3>1. \A s \in Requests : s # r => req'[s] = req[s]
        BY <1>6, GoSlot DEF Reset, ResetFailedAttempts, Points
      <3> QED
        BY <1>t, <1>6, <2>2, <3>1, OutsideKeeps DEF Reset, ResetFailedAttempts, At
    <2> QED
      BY <1>6, <2>1, <2>2 DEF Reset, ResetFailedAttempts
  <1>7. ASSUME NEW r \in Requests, LookUp(r) PROVE GInv'
    <2>1. \A s \in Requests : s # r => req'[s] = req[s]
      BY <1>7, GoSlot DEF LookUp, Points
    <2> QED
      BY <1>t, <1>7, <2>1, OutsideKeeps DEF LookUp, At
  <1>8. ASSUME NEW r \in Requests, Register(r) PROVE GInv'
    <2>1. \A s \in Requests : s # r => req'[s] = req[s]
      BY <1>8 DEF Register, Go, TypeOK
    <2> QED
      BY <1>t, <1>8, <2>1, OutsideKeeps DEF Register, At
  <1>9. ASSUME NEW d \in Devices, RevokeDevice(d) PROVE GInv'
    <2>1. \A s \in Requests : req'[s].pc = req[s].pc /\ req'[s].attempts = req[s].attempts
      BY <1>9 DEF RevokeDevice, Revoke, TypeOK, Request
    <2>2. Counting \subseteq Counting' /\ Locking \subseteq Locking'
      BY <2>1 DEF Counting, Locking, At, Reached
    <2> QED
      BY <1>t, <1>9, <2>2, QuietKeeps DEF RevokeDevice, Revoke
  <1>10. ASSUME UNCHANGED <<req, wrong, lost>>, user'.attempts = user.attempts,
                user'.locked = user.locked
         PROVE  GInv'
    <2>1. Counting' = Counting /\ Locking' = Locking
      BY <1>10 DEF Counting, Locking, At, Reached
    <2> QED
      BY <1>t, <1>10, <2>1, QuietKeeps
  <1>11. CASE \/ SuspendTenant \/ ReopenTenant \/ UNCHANGED vars
              \/ \E d \in Devices : RegisterDevice(d)
              \/ \E d \in Devices, age \in Ages : Refresh(d, age) \/ Logout(d, age)
    BY <1>10, <1>11 DEF SuspendTenant, ReopenTenant, vars, RegisterDevice, Refresh, Logout
  <1>12. CASE DeactivateUser \/ \E p \in Pins : ChangePIN(p)
    BY <1>10, <1>12 DEF DeactivateUser, ChangePIN, TypeOK, User
  <1>13. CASE Tick
    <2>1. CASE wrong' = 0
      BY <1>t, <2>1, ZeroKeeps
    <2>2. CASE user.locked # 1
      <3>1. user'.locked # 0 /\ UNCHANGED <<wrong, lost>>
        BY <1>13, <2>2, Numbers DEF Tick, TypeOK, User
      <3> QED
        BY <3>1 DEF GInv, GuessesBounded
    <2> QED
      BY <1>13, <2>1, <2>2 DEF Tick
  <1>14. CASE Crash
    BY <1>t, <1>14, CrashKeeps
  <1> QED
    BY <1>1, <1>2, <1>3, <1>4, <1>5, <1>6, <1>7, <1>8, <1>9, <1>11, <1>12, <1>13, <1>14
    DEF Next, Step
----------------------------------------------------------------------------
\* Every state is well-formed: no slot, row or count leaves its range, and a lock
\* is never longer than LockFor.
THEOREM Typed == Spec => []TypeOK
  <1>1. DInv /\ [Next]_vars => DInv'
    BY TypeInv, LateInv, RevokedInv DEF DInv
  <1>2. DInv => TypeOK
    BY DEF DInv
  <1> QED
    BY InitInv, <1>1, <1>2, PTL DEF Spec

\* No session has begun on a device shown as revoked since it was, but by a login
\* that was past its look at the devices; whatever Refresh grants it since then
\* renews one that is older, or that such a login began.
THEOREM Revoked_Is_True == Spec => []RevokedIsTrue
  <1>1. DInv /\ [Next]_vars => DInv'
    BY TypeInv, LateInv, RevokedInv DEF DInv
  <1>2. DInv => RevokedIsTrue
    BY DEF DInv
  <1> QED
    BY InitInv, <1>1, <1>2, PTL DEF Spec

\* For any number of logins at once: no more wrong PINs are compared than
\* MaxAttempts, two for each further login and one for each lost statement.
THEOREM Guesses_Bounded == Spec => []GuessesBounded
  <1>1. TypeOK /\ GInv /\ [Next]_vars => (TypeOK /\ GInv)'
    BY TypeInv, GStep
  <1>2. Init => TypeOK /\ GInv
    BY InitInv, GInit DEF DInv
  <1>3. GInv => GuessesBounded
    BY DEF GInv
  <1> QED
    BY <1>1, <1>2, <1>3, PTL DEF Spec
=============================================================================
