------------------------------- MODULE Session ------------------------------
(***************************************************************************)
(* The tokens of one tablet: what core/auth/auth_provider.dart and the     *)
(* interceptor of core/network/api_client.dart keep in secure storage, and *)
(* the refresh_tokens table behind Login, Refresh and Logout of            *)
(* internal/auth/handler.go.                                               *)
(*                                                                         *)
(* Every read and write of the storage is awaited, and so is every request *)
(* to the server; Refresh runs three statements of its own.  Calls of the  *)
(* screens, a login and a logout go on between any two of them.            *)
(*                                                                         *)
(* A definition named X_Y is X with the bug Y; no action uses it.          *)
(***************************************************************************)
EXTENDS Naturals, FiniteSets

CONSTANTS
    Users,      \* who signs in at the tablet
    Requests,   \* calls of the screens that may be under way at once
    Ui,         \* the sign-in or sign-out under way
    None,       \* a key that is not stored, nobody signed in
    AccessTTL,  \* how long an access token is good for (1 h)
    RefreshTTL, \* how long a refresh token is good for (30 d)
    MaxTime,    \* bound on the clock
    MaxMishaps  \* bound on the kinds of accidents in one history

ASSUME SessionAssumption ==
    /\ Ui \notin Requests
    /\ None \notin Users \cup [user: Users, at: Nat]
    /\ AccessTTL \in Nat \ {0}
    /\ RefreshTTL \in Nat \ {0}
    /\ MaxTime \in Nat
    /\ MaxMishaps \in Nat

VARIABLES
    now,        \* the clock, in the seconds of the tokens' claims
    rows,       \* refresh_tokens
    store,      \* secure storage: access_token, refresh_token, user_data
    shown,      \* who the screens show as signed in
    call,       \* slot -> the call it runs
    handed,     \* tokens the server ever handed out
    mishap      \* which accidents have happened so far

vars == <<now, rows, store, shown, call, handed, mishap>>

Slots == Requests \cup {Ui}

\* A pair is signed over the user and the second it is issued in, and nothing
\* else that changes: two pairs of one user and second are the same text.
Token == [user: Users, at: 0 .. MaxTime]
Stored == [access: Token \cup {None}, refresh: Token \cup {None}, data: Users \cup {None}]
Cleared == [access |-> None, refresh |-> None, data |-> None]

(***************************************************************************)
(* Where a call stands.                                                    *)
(*   attach    its token is about to be read from storage                  *)
(*   sent      the server has it                                           *)
(*   denied    it was answered with 401                                    *)
(*   check, revoke, store    the server runs Refresh for it                *)
(*   answer, keep    the new pair is to be written: both, the second       *)
(*   granted, half, last    the same for the three writes of a login       *)
(*   clear     the storage is about to be wiped by a logout                *)
(***************************************************************************)
Points == {"idle", "attach", "sent", "denied", "check", "revoke", "store",
           "answer", "keep", "granted", "half", "last", "clear"}
Call == [kind: {"api", "login", "logout"}, pc: Points, user: Users \cup {None},
         access: Token \cup {None}, refresh: Token \cup {None}]
Idle == [kind |-> "api", pc |-> "idle", user |-> None, access |-> None, refresh |-> None]

At(s, pc) == call[s].pc = pc
Busy(s) == ~At(s, "idle")
Set(s, c) == call' = [call EXCEPT ![s] = c]
Go(s, pc) == call' = [call EXCEPT ![s].pc = pc]
End(s) == call' = [call EXCEPT ![s] = Idle]

Init ==
    /\ now = 0
    /\ rows = {}
    /\ store = Cleared
    /\ shown = None
    /\ call = [s \in Slots |-> Idle]
    /\ handed = {}
    /\ mishap = {}

(***************************************************************************)
(* The accidents the properties tell apart:                                *)
(*   overlap   a sign-in or sign-out ran while another call was under way  *)
(*   twins     two calls came to hold the same refresh token               *)
(*   lost      a call broke off after the server had changed the table     *)
(*   crash     the app was ended while a call was under way                *)
(*   fault     a statement failed, which Refresh, Login and Logout ignore  *)
(***************************************************************************)
Mishaps == {"overlap", "twins", "lost", "crash", "fault"}
Noted(m, happened) == IF happened THEN {m} ELSE {}
Note(new) ==
    /\ mishap' = mishap \cup new
    /\ Cardinality(mishap') <= MaxMishaps
----------------------------------------------------------------------------
(* Calls of the screens, and the interceptor around every call. *)

Ask(r) ==
    /\ r \in Requests /\ ~Busy(r)
    /\ shown # None
    /\ Set(r, [Idle EXCEPT !.pc = "attach", !.user = shown])
    /\ Note(Noted("overlap", Busy(Ui)))
    /\ UNCHANGED <<now, rows, store, shown, handed>>

\* onRequest, for a retried call once more: it already carries the new token, which
\* it keeps if the storage has been wiped since.
Attach(r) ==
    /\ At(r, "attach")
    /\ Set(r, [call[r] EXCEPT !.pc = "sent",
                              !.access = IF store.access = None THEN @ ELSE store.access])
    /\ UNCHANGED <<now, rows, store, shown, handed, mishap>>

Good(tok) == tok # None /\ now < tok.at + AccessTTL

\* The server runs the request, or answers 401.
Accept(r) ==
    /\ At(r, "sent") /\ call[r].kind = "api"
    /\ Good(call[r].access)
    /\ End(r)
    /\ UNCHANGED <<now, rows, store, shown, handed, mishap>>

Deny(r) ==
    /\ At(r, "sent") /\ call[r].kind = "api"
    /\ ~Good(call[r].access)
    /\ Go(r, "denied")
    /\ UNCHANGED <<now, rows, store, shown, handed, mishap>>

\* onError: without a refresh token the 401 is the answer.
ReadRefresh(s) ==
    /\ At(s, "denied")
    /\ IF store.refresh = None
       THEN End(s)
       ELSE Set(s, [call[s] EXCEPT !.pc = "check", !.refresh = store.refresh])
    /\ UNCHANGED <<now, rows, store, shown, handed, mishap>>

\* The answer of Refresh is written, key by key, and the call sent again.  A
\* screen's call reads its token again, a login needs none.
KeepAccess(s) ==
    /\ At(s, "answer")
    /\ store' = [store EXCEPT !.access = call[s].access]
    /\ Go(s, "keep")
    /\ UNCHANGED <<now, rows, shown, handed, mishap>>

WriteRefresh_Skip(s) == UNCHANGED store
WriteRefresh(s) == store' = [store EXCEPT !.refresh = call[s].refresh]

KeepRefresh(s) ==
    /\ At(s, "keep")
    /\ WriteRefresh(s)
    /\ Go(s, IF call[s].kind = "login" THEN "sent" ELSE "attach")
    /\ UNCHANGED <<now, rows, shown, handed, mishap>>
----------------------------------------------------------------------------
(* Refresh of handler.go, statement by statement. *)

Valid(tok) == tok \in rows /\ now < tok.at + RefreshTTL

\* Calls that were let in with this token and have not revoked it yet.
LetIn(tok) == {s \in Slots : At(s, "revoke") /\ call[s].refresh = tok}

Check(s) ==
    LET tok == call[s].refresh IN
    /\ At(s, "check")
    /\ IF Valid(tok)
       THEN Go(s, "revoke") /\ Note(Noted("twins", LetIn(tok) # {}))
       ELSE End(s) /\ UNCHANGED mishap
    /\ UNCHANGED <<now, rows, store, shown, handed>>

Delete_Nothing(tok) == UNCHANGED rows
Delete(tok) == rows' = rows \ {tok}

Revoke(s) ==
    /\ At(s, "revoke")
    /\ \/ Delete(call[s].refresh) /\ UNCHANGED mishap
       \/ UNCHANGED rows /\ Note({"fault"})
    /\ Go(s, "store")
    /\ UNCHANGED <<now, store, shown, handed>>

\* GenerateTokenPair and StoreRefreshToken, which ignores a token it has.
Issue(s, u, pc) ==
    LET tok == [user |-> u, at |-> now] IN
    /\ handed' = handed \cup {tok}
    /\ Set(s, [call[s] EXCEPT !.pc = pc, !.access = tok, !.refresh = tok])
    /\ \/ rows' = rows \cup {tok} /\ Note(Noted("twins", tok \in handed))
       \/ UNCHANGED rows /\ Note(Noted("twins", tok \in handed) \cup {"fault"})

StoreNew(s) ==
    /\ At(s, "store")
    /\ Issue(s, call[s].refresh.user, "answer")
    /\ UNCHANGED <<now, store, shown>>
----------------------------------------------------------------------------
(* Signing in and out. *)

Others == \E r \in Requests : Busy(r)

Login(u) ==
    /\ ~Busy(Ui)
    /\ shown = None
    /\ Set(Ui, [Idle EXCEPT !.kind = "login", !.pc = "sent", !.user = u])
    /\ Note(Noted("overlap", Others))
    /\ UNCHANGED <<now, rows, store, shown, handed>>

Grant ==
    /\ At(Ui, "sent") /\ call[Ui].kind = "login"
    /\ Issue(Ui, call[Ui].user, "granted")
    /\ UNCHANGED <<now, store, shown>>

\* A wrong PIN is answered with 401 as well.
WrongPin ==
    /\ At(Ui, "sent") /\ call[Ui].kind = "login"
    /\ Go(Ui, "denied")
    /\ UNCHANGED <<now, rows, store, shown, handed, mishap>>

SignIn ==
    \/ /\ At(Ui, "granted")
       /\ store' = [store EXCEPT !.access = call[Ui].access]
       /\ Go(Ui, "half")
       /\ UNCHANGED <<now, rows, shown, handed, mishap>>
    \/ /\ At(Ui, "half")
       /\ store' = [store EXCEPT !.refresh = call[Ui].refresh]
       /\ Go(Ui, "last")
       /\ UNCHANGED <<now, rows, shown, handed, mishap>>
    \/ /\ At(Ui, "last")
       /\ store' = [store EXCEPT !.data = call[Ui].user]
       /\ shown' = call[Ui].user
       /\ End(Ui)
       /\ UNCHANGED <<now, rows, handed, mishap>>

Logout ==
    /\ ~Busy(Ui)
    /\ shown # None
    /\ Set(Ui, [Idle EXCEPT !.kind = "logout", !.user = shown, !.refresh = store.refresh,
                            !.pc = IF store.refresh = None THEN "clear" ELSE "sent"])
    /\ Note(Noted("overlap", Others))
    /\ UNCHANGED <<now, rows, store, shown, handed>>

LogoutServed ==
    /\ At(Ui, "sent") /\ call[Ui].kind = "logout"
    /\ \/ Delete(call[Ui].refresh) /\ UNCHANGED mishap
       \/ UNCHANGED rows /\ Note({"fault"})
    /\ Go(Ui, "clear")
    /\ UNCHANGED <<now, store, shown, handed>>

\* Whatever the server answered, if it did.
Wipe_KeepRefresh == store' = [store EXCEPT !.access = None, !.data = None]
Wipe == store' = Cleared

Clear ==
    /\ At(Ui, "clear")
    /\ Wipe
    /\ shown' = None
    /\ End(Ui)
    /\ UNCHANGED <<now, rows, handed, mishap>>
----------------------------------------------------------------------------
(* The network, the operating system and the clock. *)

\* The connection breaks or the call times out; the server stops with it, at
\* the statement it has come to.
Lose(s) ==
    /\ call[s].pc \in {"sent", "check", "revoke", "store", "answer", "granted"}
    /\ IF call[s].kind = "logout" THEN Go(s, "clear") ELSE End(s)
    /\ Note(Noted("lost", \/ call[s].pc \in {"store", "answer", "granted"}
                          \/ call[s].kind = "logout"))
    /\ UNCHANGED <<now, rows, store, shown, handed>>

\* _restoreSession: the access token and the user's data make a session.
Restored_ByToken == IF store.data = None THEN None ELSE store.access
Restored == IF store.access = None THEN None ELSE store.data

Restart ==
    /\ call' = [s \in Slots |-> Idle]
    /\ shown' = Restored
    /\ Note(Noted("crash", \E s \in Slots : Busy(s)))
    /\ UNCHANGED <<now, rows, store, handed>>

Tick ==
    /\ now < MaxTime
    /\ now' = now + 1
    /\ UNCHANGED <<rows, store, shown, call, handed, mishap>>

Next ==
    \/ \E r \in Requests : Ask(r) \/ Attach(r) \/ Accept(r) \/ Deny(r)
    \/ \E s \in Slots :
          \/ ReadRefresh(s) \/ KeepAccess(s) \/ KeepRefresh(s)
          \/ Check(s) \/ Revoke(s) \/ StoreNew(s) \/ Lose(s)
    \/ \E u \in Users : Login(u)
    \/ Grant \/ WrongPin \/ SignIn \/ Logout \/ LogoutServed \/ Clear
    \/ Restart \/ Tick

Spec == Init /\ [][Next]_vars
----------------------------------------------------------------------------
(* Properties. *)

TypeOK ==
    /\ now \in 0 .. MaxTime
    /\ rows \subseteq Token
    /\ store \in Stored
    /\ shown \in Users \cup {None}
    /\ call \in [Slots -> Call]
    /\ handed \subseteq Token
    /\ mishap \subseteq Mishaps

\* The stored refresh token was revoked by the call that is to replace it, or
\* by the logout that is to wipe it.
BeingReplaced ==
    \/ \E s \in Slots :
          \/ At(s, "store") /\ call[s].refresh = store.refresh
          \/ call[s].pc \in {"answer", "keep"} /\ call[s].refresh \in rows
    \/ At(Ui, "clear")

\* The refresh token in storage is one the server knows: the session goes on
\* when the access token expires.  Two calls refreshing at once, a call that
\* broke off, a crash or a failed statement can lose it; nothing else can, not
\* even a sign-out in the middle of a refresh.
SessionKept ==
    mishap \subseteq {"overlap"} =>
       \/ store.refresh \in rows \cup {None}
       \/ BeingReplaced

\* Rotation and logout leave no other token behind: what the server still takes
\* is in storage, or on its way there.
NothingElseIsLive ==
    mishap = {} =>
       rows \subseteq {store.refresh} \cup {call[s].refresh : s \in {t \in Slots :
                          call[t].pc \in {"answer", "keep", "granted", "half"}}}

\* Nothing of one user's session is left when the next one signs in: tokens in
\* storage and in calls are those of the user whom the screens show.
OneUserAtATime ==
    mishap \cap {"overlap", "crash"} = {} =>
       LET held == {store.access, store.refresh} \cup
                   UNION {{call[s].access, call[s].refresh} : s \in Slots}
       IN \A tok \in held \ {None} :
             tok.user \in {shown, IF At(Ui, "idle") THEN None ELSE call[Ui].user}

\* A wrong PIN is answered to the user, and not sent again with a refreshed
\* token: no refresh token is stored while the sign-in screen is up.
WrongPinIsAnswered ==
    mishap \cap {"overlap", "crash"} = {} =>
       (At(Ui, "denied") => store.refresh = None)
============================================================================
