------------------------------- MODULE Tenancy ------------------------------
(***************************************************************************)
(* Shops, their plans and their users: internal/tenant, the handlers with  *)
(* the statements of repository.go.                                        *)
(*                                                                         *)
(* A user is added in four statements that no transaction holds together:  *)
(* the plan of the shop, the limit of that plan, the number of active      *)
(* users, the new row.  In between others add users, and the administrator *)
(* moves the shop to another plan or changes the plan.                     *)
(*                                                                         *)
(* Of a plan the model keeps max_users.  The other columns matter to an    *)
(* update in that it may leave max_users as it was read.                   *)
(*                                                                         *)
(* A definition named X_Y is X with the bug Y; no action uses it.          *)
(***************************************************************************)
EXTENDS Naturals, FiniteSets

CONSTANTS
    Tenants,   \* shops that may be opened
    Plans,     \* ids of subscription_plans
    Names,     \* usernames
    Owner,     \* the username of the account a shop is opened with
    Limits,    \* values of max_users
    NoLimit,   \* max_users is NULL
    NoPlan,    \* plan_id is NULL
    None,      \* no such row
    Requests   \* requests the server may be running at once

ASSUME TenancyAssumption ==
    /\ IsFiniteSet(Requests) /\ Requests # {}
    /\ IsFiniteSet(Names)
    /\ Owner \in Names
    /\ Limits \subseteq Nat
    /\ NoLimit \notin Nat
    /\ None \notin Nat \cup {NoLimit}
    /\ NoPlan \notin Plans
    /\ None \notin Plans \cup {NoPlan}

VARIABLES
    plan,     \* subscription_plans: id -> max_users
    shop,     \* tenants: id -> plan_id
    user,     \* users: tenant -> username -> state of the row
    req,      \* slot -> the request it runs
    held,     \* tenant -> plans it has ever been on
    given,    \* plan -> limits it has ever had
    unseen    \* tenant -> users added by requests that could not check the plan

vars == <<plan, shop, user, req, held, given, unseen>>

AnyLimit == Limits \cup {NoLimit}

(***************************************************************************)
(* Where a request stands: the statement it runs next.                     *)
(*   shop    the plan_id of the tenant       plan    that plan's limit     *)
(*   count   CountActiveUsers                insert  CreateUser            *)
(*   blind   CreateUser, after a check that could not be made              *)
(*   save    UpdatePlan, after GetPlan                                     *)
(***************************************************************************)
Points == {"idle", "shop", "plan", "count", "insert", "blind", "save"}
Request == [pc: Points, tenant: Tenants \cup {None}, name: Names,
            plan: Plans \cup {None}, limit: AnyLimit \cup {None}]
Idle == [pc |-> "idle", tenant |-> None, name |-> Owner, plan |-> None, limit |-> None]

At(r, pc) == req[r].pc = pc
End(r) == req' = [req EXCEPT ![r] = Idle]

\* GetPlan finds the plan; so does the foreign key tenants.plan_id.
Known(p) == plan[p] # None

ActiveUsers(t) == {n \in Names : user[t][n] = "active"}

Init ==
    /\ plan = [p \in Plans |-> None]
    /\ shop = [t \in Tenants |-> None]
    /\ user = [t \in Tenants |-> [n \in Names |-> "none"]]
    /\ req = [r \in Requests |-> Idle]
    /\ held = [t \in Tenants |-> {}]
    /\ given = [p \in Plans |-> {}]
    /\ unseen = [t \in Tenants |-> 0]
----------------------------------------------------------------------------
(* The administrator. *)

Write(p, m) ==
    /\ plan' = [plan EXCEPT ![p] = m]
    /\ given' = [given EXCEPT ![p] = @ \cup {m}]

CreatePlan(p, m) ==
    /\ ~Known(p)
    /\ Write(p, m)
    /\ UNCHANGED <<shop, user, req, held, unseen>>

\* UpdatePlan lays the request over the row it reads, so that m is the limit
\* asked for, or the one that was read ..
ReadRow(r, p, m) ==
    /\ At(r, "idle")
    /\ Known(p)
    /\ req' = [req EXCEPT ![r] = [Idle EXCEPT !.pc = "save", !.plan = p, !.limit = m]]
    /\ UNCHANGED <<plan, shop, user, held, given, unseen>>

\* .. and writes all of it back.
SaveRow(r) ==
    /\ At(r, "save")
    /\ Write(req[r].plan, req[r].limit)
    /\ End(r)
    /\ UNCHANGED <<shop, user, held, unseen>>

\* One transaction: the shop and its owner.
Open(t, p) ==
    /\ shop' = [shop EXCEPT ![t] = p]
    /\ held' = [held EXCEPT ![t] = @ \cup {p}]
    /\ user' = [user EXCEPT ![t][Owner] = "active"]

CreateTenant(t, p) ==
    /\ shop[t] = None
    /\ Known(p)
    /\ Open(t, p)
    /\ UNCHANGED <<plan, req, given, unseen>>

\* UPDATE tenants SET plan_id
Move(t, p) ==
    /\ shop' = [shop EXCEPT ![t] = p]
    /\ held' = [held EXCEPT ![t] = @ \cup ({p} \ {NoPlan})]

\* UpdateTenant with a plan_id, which may be null.
MoveTenant(t, p) ==
    /\ shop[t] # None
    /\ p \in Plans => Known(p)
    /\ Move(t, p)
    /\ UNCHANGED <<plan, user, req, given, unseen>>
----------------------------------------------------------------------------
(* CreateUser, for a request that is well-formed. *)

Submit(r, t, n) ==
    /\ At(r, "idle")
    /\ shop[t] # None
    /\ req' = [req EXCEPT ![r] = [Idle EXCEPT !.pc = "shop", !.tenant = t, !.name = n]]
    /\ UNCHANGED <<plan, shop, user, held, given, unseen>>

Go(r, pc, p, m) == req' = [req EXCEPT ![r].pc = pc, ![r].plan = p, ![r].limit = m]

\* The plan cannot be read, or the users cannot be counted: the user is added
\* without a check.
Unchecked(r) == Go(r, "blind", None, None)

ReadShop(r) ==
    /\ At(r, "shop")
    /\ \/ Unchecked(r)
       \/ shop[req[r].tenant] \in Plans /\ Go(r, "plan", shop[req[r].tenant], None)
    /\ UNCHANGED <<plan, shop, user, held, given, unseen>>

ReadPlan(r) ==
    LET m == plan[req[r].plan] IN
    /\ At(r, "plan")
    /\ \/ Unchecked(r)
       \/ m = NoLimit /\ Go(r, "insert", None, None)
       \/ m # NoLimit /\ Go(r, "count", None, m)
    /\ UNCHANGED <<plan, shop, user, held, given, unseen>>

\* count >= *plan.MaxUsers refuses
Room_OffByOne(r) == Cardinality(ActiveUsers(req[r].tenant)) <= req[r].limit
Room(r) == Cardinality(ActiveUsers(req[r].tenant)) < req[r].limit

Count(r) ==
    /\ At(r, "count")
    /\ \/ Room(r) /\ Go(r, "insert", None, None)
       \/ ~Room(r) /\ End(r)
       \/ Unchecked(r)
    /\ UNCHANGED <<plan, shop, user, held, given, unseen>>

\* UNIQUE (tenant_id, username), also among the users that were deactivated.
Free_Upsert(t, n) == user[t][n] # "active"
Free(t, n) == user[t][n] = "none"

AddUser(t, n) ==
    /\ Free(t, n)
    /\ user' = [user EXCEPT ![t][n] = "active"]

Insert(r) ==
    LET t == req[r].tenant IN
    /\ At(r, "insert") \/ At(r, "blind")
    /\ \/ /\ AddUser(t, req[r].name)
          /\ unseen' = [unseen EXCEPT ![t] = @ + IF At(r, "blind") THEN 1 ELSE 0]
       \/ UNCHANGED <<user, unseen>>
    /\ End(r)
    /\ UNCHANGED <<plan, shop, held, given>>

DeactivateUser(t, n) ==
    /\ user[t][n] # "none"
    /\ user' = [user EXCEPT ![t][n] = "inactive"]
    /\ UNCHANGED <<plan, shop, req, held, given, unseen>>

\* The process ends, and with it the requests under way.
Crash ==
    /\ req' = [r \in Requests |-> Idle]
    /\ UNCHANGED <<plan, shop, user, held, given, unseen>>

Next ==
    \/ \E p \in Plans, m \in AnyLimit : CreatePlan(p, m)
    \/ \E r \in Requests, p \in Plans, m \in AnyLimit : ReadRow(r, p, m)
    \/ \E t \in Tenants, p \in Plans : CreateTenant(t, p)
    \/ \E t \in Tenants, p \in Plans \cup {NoPlan} : MoveTenant(t, p)
    \/ \E r \in Requests, t \in Tenants, n \in Names : Submit(r, t, n)
    \/ \E r \in Requests :
          SaveRow(r) \/ ReadShop(r) \/ ReadPlan(r) \/ Count(r) \/ Insert(r)
    \/ \E t \in Tenants, n \in Names : DeactivateUser(t, n)
    \/ Crash

Spec == Init /\ [][Next]_vars
----------------------------------------------------------------------------
(* Properties. *)

\* The rows and requests are well-formed, and every plan they refer to exists.
TypeOK ==
    /\ plan \in [Plans -> AnyLimit \cup {None}]
    /\ shop \in [Tenants -> Plans \cup {NoPlan, None}]
    /\ user \in [Tenants -> [Names -> {"none", "active", "inactive"}]]
    /\ req \in [Requests -> Request]
    /\ held \in [Tenants -> SUBSET Plans]
    /\ given \in [Plans -> SUBSET AnyLimit]
    /\ unseen \in [Tenants -> Nat]
    /\ \A t \in Tenants : shop[t] \in Plans => plan[shop[t]] # None
    /\ \A r \in Requests : req[r].plan \in Plans => plan[req[r].plan] # None

\* Every limit a plan of this shop has ever had.
LimitsOf(t) == UNION {given[p] : p \in held[t]}

\* Requests that have found room in this shop and not yet used it.
Admitted(t) == {r \in Requests : At(r, "insert") /\ req[r].tenant = t}

Within(t) ==
    \/ shop[t] = None
    \/ NoLimit \in LimitsOf(t)
    \/ \E m \in LimitsOf(t) :
          Cardinality(ActiveUsers(t)) + Cardinality(Admitted(t)) + 1
              <= (IF m = 0 THEN 1 ELSE m) + Cardinality(Requests) + unseen[t]

\* However the steps of the server's requests interleave, and whatever happens to
\* the plans meanwhile, a shop outgrows the widest limit it ever had by no more
\* than one user for each request that runs beside another, and the users that
\* were added without a check.  The owner is there whatever the plan allows.
UsersWithinPlan == \A t \in Tenants : Within(t)

\* A user who was deactivated stays so: no request under way, and none that
\* reuses the name, brings the account back.
GoneStaysGone ==
    [][\A t \in Tenants, n \in Names : user[t][n] = "inactive" => user'[t][n] = "inactive"]_vars
=============================================================================
