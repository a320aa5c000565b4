-------------------------------- MODULE Login -------------------------------
(***************************************************************************)
(* Signing in to one account: Login, RegisterDevice and RevokeDevice of    *)
(* internal/auth/handler.go with the statements of auth/repository.go, and *)
(* the handlers of internal/tenant that change what a login looks at.      *)
(*                                                                         *)
(* A login reads the account once and runs each later statement on its     *)
(* own: how many wrong PINs there were when it started decides whether it  *)
(* locks the account when it ends.  The errors of these statements are     *)
(* ignored by the handler, so each may be without effect.                  *)
(*                                                                         *)
(* A session begins with a login and goes on with Refresh, which looks at  *)
(* the token only: neither at the account nor at the device.               *)
(*                                                                         *)
(* A definition named X_Y is X with the bug Y; no action uses it.          *)
(***************************************************************************)
EXTENDS Naturals, FiniteSets

CONSTANTS
    Requests,    \* logins the server may be running at once
    Devices,     \* device_id of the tablets
    NoDevice,    \* a login without a device_id
    Pins,        \* PINs that are typed or set
    MaxAttempts, \* wrong PINs that lock the account (5)
    LockFor,     \* how long it is locked (15 min)
    MaxLost      \* bound: statements of the lock that fail

ASSUME LoginAssumption ==
    /\ IsFiniteSet(Requests) /\ Requests # {}
    /\ NoDevice \notin Devices
    /\ Pins # {}
    /\ MaxAttempts \in Nat \ {0}
    /\ LockFor \in Nat \ {0}
    /\ MaxLost \in Nat

VARIABLES
    open,     \* the shop is neither suspended nor expired
    user,     \* the row of users
    device,   \* device_registrations: device -> state of its row
    req,      \* slot -> the login it runs
    wrong,    \* wrong PINs compared since the last success or expired lock
    lost,     \* statements of the lock that had no effect
    sessions  \* device -> ages of the sessions it has been granted a token of

vars == <<open, user, device, req, wrong, lost, sessions>>

\* A session is new if it began since its device was last revoked, by a login
\* that knew of that.
Ages == {"new", "old"}

\* A lock is kept as the time that is left of it.  The code asks of the attempts
\* only whether they reach MaxAttempts, so they are counted no further.
User == [active: BOOLEAN, pin: Pins, attempts: 0 .. MaxAttempts, locked: 0 .. LockFor]

\* No more wrong PINs are counted than this: it is above GuessesBounded.
MostWrong == MaxAttempts + 2 * Cardinality(Requests) + MaxLost

Up(n, most) == IF n < most THEN n + 1 ELSE most

(***************************************************************************)
(* Where a login stands: the statement it runs next.                       *)
(*   read      GetUserByUsername, after the tenant was found in order      *)
(*   count     IncrementFailedAttempts     lock      LockUser              *)
(*   reset     ResetFailedAttempts         lookup    IsDeviceRegistered    *)
(*   register  RegisterDevice              grant     StoreRefreshToken     *)
(* late: the device was revoked, or not registered, behind its back.       *)
(***************************************************************************)
Points == {"idle", "read", "count", "lock", "reset", "lookup", "register", "grant"}
Request == [pc: Points, pin: Pins, device: Devices \cup {NoDevice},
            attempts: 0 .. MaxAttempts, late: BOOLEAN]
AnyPin == CHOOSE p \in Pins : TRUE
Slot(pc, p, d, n, late) ==
    [pc |-> pc, pin |-> p, device |-> d, attempts |-> n, late |-> late]
Idle == Slot("idle", AnyPin, NoDevice, 0, FALSE)

\* What a step no longer needs it forgets.
At(r, pc) == req[r].pc = pc
Go(r, pc) == req' = [req EXCEPT ![r] = Slot(pc, AnyPin, req[r].device, 0, FALSE)]
End(r) == req' = [req EXCEPT ![r] = Idle]

Init ==
    /\ open = TRUE
    /\ user \in {u \in User : u.active /\ u.attempts = 0 /\ u.locked = 0}
    /\ device = [d \in Devices |-> "unknown"]
    /\ req = [r \in Requests |-> Idle]
    /\ wrong = 0
    /\ lost = 0
    /\ sessions = [d \in Devices |-> {}]
----------------------------------------------------------------------------
(* Login. *)

\* GetTenantByID finds the tenant in order.
Submit(r, p, d) ==
    /\ At(r, "idle")
    /\ open
    /\ req' = [req EXCEPT ![r] = Slot("read", p, d, 0, FALSE)]
    /\ UNCHANGED <<open, user, device, wrong, lost, sessions>>

\* No such active user, or its lock has not run out.
Refused_Never == FALSE
Refused == ~user.active \/ user.locked > 0

Read(r) ==
    /\ At(r, "read")
    /\ CASE Refused -> End(r) /\ UNCHANGED wrong
         [] ~Refused /\ req[r].pin = user.pin -> Go(r, "reset") /\ UNCHANGED wrong
         [] OTHER -> /\ req' = [req EXCEPT ![r] =
                            Slot("count", AnyPin, NoDevice, user.attempts, FALSE)]
                     /\ wrong' = Up(wrong, MostWrong)
    /\ UNCHANGED <<open, user, device, lost, sessions>>

\* GetTenantByID or GetUserByUsername failed.
ReadFails(r) ==
    /\ At(r, "read")
    /\ End(r)
    /\ UNCHANGED <<open, user, device, wrong, lost, sessions>>

\* A statement of the lock takes effect, or fails unnoticed.
Effect(u) ==
    \/ user' = u /\ UNCHANGED lost
    \/ lost < MaxLost /\ lost' = lost + 1 /\ UNCHANGED user

\* SET failed_pin_attempts = failed_pin_attempts + 1
IncrementFailedAttempts == [user EXCEPT !.attempts = Up(@, MaxAttempts)]

\* The attempts that decide about the lock are those read before the increment.
Reached_Beyond(r) == req[r].attempts >= MaxAttempts
Reached(r) == req[r].attempts + 1 >= MaxAttempts

Count(r) ==
    /\ At(r, "count")
    /\ Effect(IncrementFailedAttempts)
    /\ IF Reached(r) THEN Go(r, "lock") ELSE End(r)
    /\ UNCHANGED <<open, device, wrong, sessions>>

\* The lock is set to a point of time, not prolonged.
LockUntil == LockFor
LockUser == [user EXCEPT !.locked = LockUntil]

Lock(r) ==
    /\ At(r, "lock")
    /\ Effect(LockUser)
    /\ End(r)
    /\ UNCHANGED <<open, device, wrong, sessions>>

ResetFailedAttempts == [user EXCEPT !.attempts = 0, !.locked = 0]

Reset(r) ==
    /\ At(r, "reset")
    /\ \/ /\ user' = ResetFailedAttempts
          /\ wrong' = 0
       \/ UNCHANGED <<user, wrong>>
    /\ Go(r, IF req[r].device = NoDevice THEN "grant" ELSE "lookup")
    /\ UNCHANGED <<open, device, lost, sessions>>

\* SELECT COUNT( * ) .. AND is_revoked=false
IsRegistered_AnyRow(d) == device[d] # "unknown"
IsRegistered(d) == device[d] = "registered"

\* An error of the query counts as "not registered".
LookUp(r) ==
    /\ At(r, "lookup")
    /\ \/ IsRegistered(req[r].device) /\ Go(r, "grant")
       \/ Go(r, "register")
    /\ UNCHANGED <<open, user, device, wrong, lost, sessions>>

\* INSERT .. ON CONFLICT DO UPDATE SET is_revoked=false
Upsert(d) == device' = [device EXCEPT ![d] = "registered"]

Register(r) ==
    /\ At(r, "register")
    /\ \/ Upsert(req[r].device) /\ Go(r, "grant")
       \/ /\ req' = [req EXCEPT ![r] = Slot("grant", AnyPin, req[r].device, 0, TRUE)]
          /\ UNCHANGED device
    /\ UNCHANGED <<open, user, wrong, lost, sessions>>

\* A device is granted a token of a session of this age.
Granted(d, age) ==
    sessions' = [e \in Devices |-> IF e = d THEN sessions[e] \cup {age} ELSE sessions[e]]

\* The pair is answered whether or not the refresh token could be stored.
Grant(r) ==
    /\ At(r, "grant")
    /\ Granted(req[r].device, IF req[r].late THEN "old" ELSE "new")
    /\ End(r)
    /\ UNCHANGED <<open, user, device, wrong, lost>>
----------------------------------------------------------------------------
(* Refresh and Logout, by a device that has a session of this age. *)

EndSession(d, age) == sessions' = [sessions EXCEPT ![d] = @ \ {age}]

\* The device of the new pair is the one named in the old token, and nothing else
\* is asked of it.  The session ends with this pair if the old token was revoked
\* and the new one could not be stored.
Refresh(d, age) ==
    /\ age \in sessions[d]
    /\ Granted(d, age) \/ EndSession(d, age)
    /\ UNCHANGED <<open, user, device, req, wrong, lost>>

\* So it does when its refresh token expires, or if the first was not stored.
Logout(d, age) ==
    /\ age \in sessions[d]
    /\ EndSession(d, age)
    /\ UNCHANGED <<open, user, device, req, wrong, lost>>
----------------------------------------------------------------------------
(* What else happens to the rows a login reads. *)

\* POST /auth/device/register
RegisterDevice(d) ==
    /\ Upsert(d)
    /\ UNCHANGED <<open, user, req, wrong, lost, sessions>>

\* An UPDATE, without a row it has no effect.
Revoke(d) ==
    /\ device[d] # "unknown"
    /\ device' = [device EXCEPT ![d] = "revoked"]

\* DELETE /auth/device/{id}
RevokeDevice(d) ==
    /\ Revoke(d)
    /\ sessions' = [sessions EXCEPT ![d] = {"old" : age \in @}]
    /\ req' = [r \in Requests |-> [req[r] EXCEPT !.late =
                  @ \/ (req[r].pc = "grant" /\ req[r].device = d)]]
    /\ UNCHANGED <<open, user, wrong, lost>>

SuspendTenant ==
    /\ open' = FALSE
    /\ UNCHANGED <<user, device, req, wrong, lost, sessions>>

\* ActivateTenant or a new expires_at: the tenant may still be expired, or still
\* be suspended.
ReopenTenant ==
    /\ open' \in BOOLEAN
    /\ UNCHANGED <<user, device, req, wrong, lost, sessions>>

ChangePIN(p) ==
    /\ user' = [user EXCEPT !.pin = p]
    /\ UNCHANGED <<open, device, req, wrong, lost, sessions>>

DeactivateUser ==
    /\ user' = [user EXCEPT !.active = FALSE]
    /\ UNCHANGED <<open, device, req, wrong, lost, sessions>>

\* Time passes.  A lock that runs out starts a new count of wrong PINs, but
\* leaves the attempts in the row.
Tick ==
    /\ user.locked > 0
    /\ user' = [user EXCEPT !.locked = @ - 1]
    /\ wrong' = IF user.locked = 1 THEN 0 ELSE wrong
    /\ UNCHANGED <<open, device, req, lost, sessions>>

\* The process ends, and with it the logins under way.
Pending == {r \in Requests : req[r].pc \in {"count", "lock"}}
Crash ==
    /\ lost + Cardinality(Pending) <= MaxLost
    /\ lost' = lost + Cardinality(Pending)
    /\ req' = [r \in Requests |-> Idle]
    /\ UNCHANGED <<open, user, device, wrong, sessions>>

Step(r) ==
    \/ Read(r) \/ ReadFails(r) \/ Count(r) \/ Lock(r) \/ Reset(r)
    \/ LookUp(r) \/ Register(r) \/ Grant(r)

Next ==
    \/ \E r \in Requests :
          \/ \E p \in Pins, d \in Devices \cup {NoDevice} : Submit(r, p, d)
          \/ Step(r)
    \/ \E d \in Devices : RegisterDevice(d) \/ RevokeDevice(d)
    \/ \E d \in Devices, age \in Ages : Refresh(d, age) \/ Logout(d, age)
    \/ SuspendTenant \/ ReopenTenant
    \/ \E p \in Pins : ChangePIN(p)
    \/ DeactivateUser
    \/ Tick
    \/ Crash

\* Time passes and a handler that runs goes on.  Nobody has to sign in.
Spec == Init /\ [][Next]_vars
FairSpec == Spec /\ WF_vars(Tick) /\ \A r \in Requests : WF_vars(Step(r))
----------------------------------------------------------------------------
(* Properties. *)

TypeOK ==
    /\ open \in BOOLEAN
    /\ user \in User
    /\ device \in [Devices -> {"unknown", "registered", "revoked"}]
    /\ req \in [Requests -> Request]
    /\ wrong \in 0 .. MostWrong
    /\ lost \in 0 .. MaxLost
    /\ sessions \in [Devices -> SUBSET Ages]

\* However many logins run at once, and whichever of their statements fail, only
\* so many PINs can be tried before the lock holds: MaxAttempts one after the
\* other, two more for each further login that runs beside them, and one more
\* for each statement of the lock that was lost.
GuessesBounded ==
    wrong + 2 <= MaxAttempts + 2 * Cardinality(Requests) + lost

\* The list of devices tells no more of a revoked one than this: since it was
\* revoked, no session has begun on it, except by a login that had already looked
\* it up, or whose registration was lost.  Every token it is still granted renews
\* such a session, or one that is older than the revocation.
RevokedIsTrue ==
    \A d \in Devices : device[d] = "revoked" => "new" \notin sessions[d]

\* A lock ends, whatever is typed while it holds: a login that is refused does
\* not lock the account again.
LockEnds == user.locked > 0 ~> user.locked = 0
=============================================================================
