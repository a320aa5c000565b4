# SOKDEE POS: specification and verification

SOKDEE POS is a multi-tenant point of sale: a Go backend (`src/backend`) with a
PostgreSQL database, and a Flutter app (`src/sokdee_pos`) on the cashiers'
tablets and on the kitchen's screens. This directory holds TLA+ models of its
core logic, the TLC configurations that check them on small instances, and
proofs, checked by TLAPS, that the most important properties hold for every
instance.

## 1. The system

| Component | State | Operations | What is hard | What makes it correct |
|---|---|---|---|---|
| Orders and payments (`internal/pos/handler.go`, `pg_repository.go`) | `orders`, `payments`, `void_logs`, `refunds` | CreateOrder, ProcessPayment, VoidOrder, RefundOrder | each handler checks in one query and writes in a later one; many requests run at once; a request can end at any point | a paid order is covered by a payment, money goes back only for a paid order, status and log tables agree, voids are attributed |
| Shifts (`shift_handler.go`) | `shifts` | OpenShift, CloseShift, GetShiftSummary | check then insert without a unique index; the summary joins tables that other requests write | one active shift per cashier, takings that stand for what was sold |
| Exchange rates (`exchange_rate_handler.go`) | `exchange_rates` | SetRate, the lookup of a payment | a rate changes while a payment is being checked | no payment without a rate |
| Kitchen hub (`internal/kds/hub.go`, `handler.go`) | rooms of clients, a buffered channel each | Register, Unregister, Broadcast, two goroutines per client | map and channels shared by goroutines, close against send, slow clients | a message reaches its tenant's clients only; nobody sends on a closed channel |
| Kitchen screen (`kds_provider.dart`) | list of orders with items | new_order, add_items, item_ready, order_ready, markItemDone | several screens act at once, their messages cross | screens agree; a finished order leaves them all |
| Offline sync, client (`sync_engine.dart`, `sync_dao.dart`) | `sync_queue`, `conflict_logs` | enqueue, flush, cleanup | lost answers, overlapping flushes, partial results | every operation reaches the server once |
| Offline sync, server (`internal/sync/handler.go`) | idempotency keys, entities | Push, Pull, ResolveConflict | key check, apply and mark are three calls | an operation is applied once |
| Login and tokens (`internal/auth`) | `users.failed_attempts`, `locked_until`, `refresh_tokens`, `device_registrations` | Login, Refresh, Logout, RegisterDevice, RevokeDevice | counters read before they are incremented; rotation of a token in three statements | lock after five failures; a refresh token is used once |
| API client (`api_client.dart`, `auth_provider.dart`) | stored tokens | the 401 interceptor, login, logout | several requests fail with 401 at once | a valid session is not lost |
| Tenant isolation and pool (`middleware/tenant.go`, `database.go`) | 25 connections | Acquire for the request, Acquire for each query | every request needs a second connection while it holds one | requests finish |
| Plan limits (`inventory/handler.go`, `tenant/user_handler.go`) | `products`, `users`, plan | CreateProduct, ImportCSV, CreateUser, deactivate | count then insert | the plan's limits hold |
| Stock (`inventory`) | `stock_transactions` | StockIn, StockAdjust | stock is the sum of signed rows; sales do not reach it | stock equals what came in minus what was sold |
| Cart (`cart_model.dart`, `cart_provider.dart`, `payment_screen.dart`) | lines, discounts, order id | add, update, remove, discount, pay | retry after an error | totals are consistent; one sale makes one order |
| Tenants and plans (`internal/tenant`) | `tenants`, `subscription_plans`, subscriptions | create, update, suspend, activate | status is checked at login only | a suspended tenant is shut out |
| Tables, discounts, reports, notifications | none yet: routes answer 501, repositories are interfaces | - | - | - |
| Printing, scanning, setup, settings and other screens | device I/O and forms | - | - | - |

The handlers of the backend share nothing in memory but the connection pool and
the kitchen hub. They meet in the database, where each SQL statement outside a
transaction is atomic, and each `BEGIN .. COMMIT` block is read committed. The
app talks to the backend over HTTP through one client with an interceptor, and
to the hub over a WebSocket. Row-level security is enabled but not forced, and
the repositories filter by `tenant_id` themselves, so one tenant's rows are
modelled at a time.

## 2. Modules

| Module | Models | Depends on |
|---|---|---|
| `OrderBook` | what the order endpoints promise of one order (abstract) | - |
| `PosOrders` | orders, payments, voids, refunds, shifts, rates of one tenant, and the requests in flight | instantiates `OrderBook` |
| `ShiftSummary` | the SQL of GetShiftSummary as operators on the tables | extends `PosOrders` |
| `MCPosOrders`, `PosClaims` | payment requests for TLC; a claim of design.md about the summary | extend `ShiftSummary` |
| `PosOrdersProofs` | the inductive invariant and its consequences, the refinement of `OrderBook`, sums and the figures of a shift | extends `ShiftSummary` |
| `KdsHub` | rooms, channels and goroutines of the kitchen hub | - |
| `MCKdsHub`, `KdsClaims` | devices for TLC; a claim of hub.go | extend `KdsHub` |
| `KdsHubProofs` | type correctness, isolation, rooms, no gaps | extends `KdsHub` |
| `ConnPool` | database connections, transactions, the queue of the pool | - |
| `MCConnPool`, `PoolClaims` | requests for TLC; a claim of tenant.go | extend `ConnPool` |
| `ConnPoolProofs` | types, nothing left behind, one connection for each use, an ample pool never locks up | extends `ConnPool` |
| `Session` | the tokens of a tablet and the refresh_tokens table | - |
| `MCSession`, `SessionProofs` | users and calls for TLC; types, the session is kept, nothing else is live, one user at a time | extend `Session` |
| `Login` | logins of one account, its lock, the devices of the tenant | - |
| `MCLogin`, `LoginProofs` | instances for TLC; types, guesses, revoked devices | extend `Login` |
| `Tenancy` | plans, shops and their users, the limit of users | - |
| `MCTenancy`, `TenancyProofs` | plans for TLC; types, the limit, deactivation | extend `Tenancy` |
| `Catalog` | the products of a shop, their limit, the import | - |
| `MCCatalog`, `CatalogProofs` | products for TLC; types, the limit, updates, deletion, the import | extend `Catalog` |
| `Outbox` | what the offline queue and the server promise of an operation (abstract) | - |
| `SyncQueue` | the offline queue of a tablet and the server's Push | instantiates `Outbox` |
| `MCSyncQueue`, `SyncProofs` | operations for TLC; types, how often and in which order operations are applied, nothing lost, the refinement of `Outbox` | extend `SyncQueue` |

In every module a definition named `X_Y` is `X` with a plausible bug `Y`. No
action uses it: it is there to show that a property notices the bug when `X` is
replaced by it.

## 3. How the models correspond to the code

### Orders, payments, shifts, rates (`PosOrders`, `ShiftSummary`)

The tables are variables: `orders` and `shifts` are functions from the ids that
were inserted to rows; `payments`, `voidLogs` and `refunds` are the rows per
order, payments in batches, one batch for each committed request. `rates` is
0 where there is no row, and where a rate was so small that NUMERIC(10,4) keeps
nothing of it: `SetRate` takes what the column stores. `req[h]` is what the
goroutine `h` has read so far.

Each handler is cut where it runs a database statement of its own:

| Handler | Actions |
|---|---|
| CreateOrder | `CreateOrderRead` (active shift), `CreateOrderInsert` |
| ProcessPayment | `PayRead` (order, status), `PayRate` (one query for each line), `PayCommit` (transaction) |
| VoidOrder | `VoidRead` (order, active shift), `VoidCommit` (transaction) |
| RefundOrder | `RefundRead` (order, status), `RefundCommit` (transaction) |
| OpenShift, CloseShift | `OpenShiftRead`, `OpenShiftInsert`; `CloseShift` |
| SetRate | `SetRate` |

`Abort` is every way a request can end without writing: a failed check, a
database error, the 60 s timeout, a client that went away, a crash. A lookup of
the active shift that fails answers with an error the handlers notice, and is
an `Abort` too. A `BEGIN .. COMMIT` block is one step because its UPDATE locks
the order's row and nothing in it reads what another request can change.

Nothing about an amount is checked: totals and payment lines may be 0 or less,
a list of lines may be empty (`InsertRows` then writes no row, and the order is paid
all the same if its total is 0 or less), and a method may be any text. Amounts are
integers in the unit of a rate's last digit times the smallest fraction a client
sends, `Cent` of which make a cent; `CoversTotal` compares them exactly, and
`InCents` is the rounding of each row by NUMERIC(15,2). What a float64 loses in
between is not modelled. The items of an order never reach
`order_items` (nothing calls AddOrderItems), so the loops over them that write
stock rows see none in any state the program reaches, and are left out.

`ShiftSummary` turns the SQL into sets: `Joined(s)` is the set of rows of the
LEFT JOIN, and each figure is a sum over it. `Columns` are the three methods the
summary has a figure for; `Unlisted` and `Rounding` are what its takings may lack.

### Kitchen hub (`KdsHub`)

`Register` and `Unregister` hold the lock and are one step. `Broadcast` holds it
only to fetch the room: `Hear` fetches it, `Walk` picks the next client, `Send`
or `Drop` finishes with it, and anything can happen in between. A Go map that is
written while it is walked over is undefined behaviour: the walk may or may not
come to a new entry, or the runtime ends the process (`MapRace`). A room is
deleted with its last client, and the next client gets a new map: `live` says
whether a walk is over the hub's present map. `fate` records how the process
ended: a map race, a send on a closed channel, a second close. `Disconnect` is
the network, `Write` and `WriterStop` are the writer.

### Connections (`ConnPool`)

A connection is held for a request (TenantIsolation), for a transaction or for a
statement; `owner` says by whom and for what, `waiting` is the pool's queue of
blocked Acquires. `Arrive`, `Statement`, `Answer`, `Begin`, `EndTx` and `Finish`
are the steps of a request, `Grant` is the pool, and `Expire` is the end of the
request's context with everything that is deferred. `Kind` gives each request
its shape: login and refresh run before the middleware, an import runs its rows
outside the transaction it opened (`BulkCreateProducts`), and a new product looks up
the plan first, in two statements under `context.Background()` (main.go:53-59).
`Outlast` is the end of the context during that lookup: the request is `late`, keeps
its connections and its place in the queue, and ends once the lookup was served.
`Keeps` is what a request
of each kind holds while it waits for the last connection it needs.

### Session (`Session`)

`store` is the secure storage with its three keys, `rows` the table of refresh
tokens. A call of a screen, a login and a logout each go through the interceptor
of api_client.dart; every await is a step. `Check`, `Revoke` and `StoreNew` are
the three statements of the handler Refresh. A token is its user and the second
it was issued in, since nothing else in its claims changes. `Lose` is a broken
connection or a timeout at any point, `Restart` the app's end and
`_restoreSession`, and a statement may fail without anyone noticing, as the
handlers ignore the error.

`handed` and `mishap` are history: the tokens ever handed out, and the kinds of
accident that have happened. The properties say which accidents can do harm, and
that nothing else can.

### Login (`Login`)

One account and the devices of its tenant. `Submit` finds the tenant in order,
`Read` reads the user and compares the PIN; then each statement of the handler is
a step: `Count` and `Lock` after a wrong PIN, `Reset`, `LookUp`, `Register` and
`Grant` after a right one. The handler ignores the errors of all of these, so
each may have no effect (`Effect`). A lock is the time that is left of it and
`Tick` is the clock. Suspending and expiring tenants, new PINs and deactivated
users are steps of others that may come at any point.

`sessions` has the sessions of each device: a login begins one, `Refresh` goes on with
it and looks at nothing but the token, `Logout` or the expiry of the token ends it.
Sessions are told apart by their age only, new or old: a new one began since the
device was last revoked, by a login that knew of that. `Refresh` is one step here,
as its interleavings are those of `Session` and a session that is renewed while its
device is being revoked is an old one in either order.

`wrong` counts the PINs tried since the last success or expired lock, `lost` the
statements of the lock that failed. The properties are about these two and about
`sessions`: the code asks only whether the attempts reach five, and keeps no such
history.

### Shops, plans and users (`Tenancy`)

`plan`, `shop` and `user` are the three tables. CreateUser is `Submit`,
`ReadShop`, `ReadPlan`, `Count`, `Insert`; where an error of a read makes the
handler go on, the request turns `blind`. UpdatePlan is `ReadRow` and `SaveRow`,
with the limit it will write; CreateTenant is a transaction and one step. `held`,
`given` and `unseen` remember the plans of a shop, the limits of a plan, and how
many users came in without a check.

### Products (`Catalog`)

`row` has a product's price and whether it is on sale. `ReadLimit`, `Count` and
`Insert` are CreateProduct; `ReadRow` and `SaveRow` are UpdateProduct, whose
request names some of the columns and writes all of them; `Upload`, `ImportRow`
and `Imported` are ImportCSV, whose rows are inserted one by one. `asked` is what
the row would be if each request had set just the columns it names, unless a
request wrote between its read and its write (`late`); `copies`, `tries` and
`whole` count what came of the file.

### The offline queue (`SyncQueue`)

`status` is the table sync_queue, in the order the operations were queued, `keys`
the idempotency keys of the server, `applied` how often it applied each
operation. A flush is `Reconnect` (the timer), `Send`, `Receive` and then one
statement at a time (`MarkSynced`, `InsertConflict`, `MarkFailed`, `Cleanup`; an
UPDATE of a row that another flush has deleted changes nothing, see `Marked`);
`Quit` is everything that ends it early. A request is `LookUp`, `Conflict`,
`Apply` or `ApplyFails`, and `StoreKey` for each operation. Nothing keeps two
flushes or two requests apart. A request whose client is gone runs on
(`Orphaned`), until `Drop` or `Cut`.

The server's repository is an interface: whether it finds a conflict or can apply
an operation is left open, and each of its calls may fail. The application does
not call `enqueue` yet and the route answers 501, so this is what the two ends do
once they are connected. Rows queued in the same second are taken in the order
they were inserted. Operations that failed are never tried again, and a conflict
that is resolved writes its log only: both are in the code and in the model.

## 4. What the runs check

| Run | Properties | Shows |
|---|---|---|
| `orders` | IInv, PaidIsCovered, RefundIsBacked, StatusIsLogged, VoidIsAttributed, ForeignIsConfigured, TakingsCoverSales, VoidCountsAgree, ImplementsBook, RowsAreKept | two overlapping requests of two cashiers on an order and two shifts keep the tables consistent with each other, and the figures of the summary with the tables, in every state |
| `kds_rooms` | OwnTenantOnly, RoomIsOpen, NoGap | two shops, a device that sends three messages into buffers of one |
| `kds_live` | LostIsRemoved, BroadcastEnds | broadcasts end, lost connections leave their room |
| `pool` | TypeOK, NothingLeftBehind, OnePerUse, AmpleIsEnough, EveryRequestEnds | a new product, a payment and an import on one connection more than they can hold back |
| `session` | TypeOK, SessionKept, NothingElseIsLive, OneUserAtATime, WrongPinIsAnswered | two cashiers share a tablet with two calls under way at once |
| `login` | GuessesBounded, RevokedIsTrue, LockEnds | two logins of one account at once on one tablet, statements that fail, restarts |
| `tenancy` | UsersWithinPlan, GoneStaysGone | two requests add users while the shop's plan and the plan's limit change |
| `catalog` | TypeOK, ProductsWithinPlan, AsAsked, ImportedInOrder, GoneUnlessUndone | two requests add, change, delete and import three products |
| `sync` | AppliedFewTimes, InOrder, NothingDisappears, ImplementsOutbox | operations in two flushes and two requests at once, with lost answers and restarts on both sides |
| `claim_sales` | TotalSalesAreTotals | violated: a payment in three lines counts its order three times in total_sales (design property 22) |
| `claim_closed_twice` | SlowClientIsOnlyRemoved | violated: a client that was dropped closes its channel again, and the server ends |
| `claim_gridlock` | RequestsDoNotBlockEachOther | violated: as many requests as connections stop each other, until a timeout, or for good if all are new products in their plan lookup |

The type invariants of `PosOrders`, `KdsHub`, `Login`, `Tenancy` and `SyncQueue` are
proved (section 5) and not run a second time; `IInv` of `orders` contains that of
`PosOrders`.

Further disagreements, met while modelling and not run: two payments of one order
both commit (handler.go:104); a refunded order is voided (handler.go:170); an
order of total 0 is paid by an empty list of lines and leaves no payments row
(handler.go:131); the takings of a method that is neither cash, qr nor transfer are
in no figure (pg_repository.go:343); a device that was revoked goes on renewing the
sessions it has (auth/handler.go:226, requirement 14.9), as does a user who was
deactivated; a refresh that is answered after a logout stores its tokens again
(api_client.dart:95); two OpenShift requests of a cashier both succeed
(shift_handler.go:62, requirement 17.6); two refunds both commit (handler.go:201);
a void passes while its shift is being closed (handler.go:169, design property
26); a rate set between two lines of a payment converts them differently
(handler.go:118, requirement 11.6); a broadcast sends on the channel of a client
that has left (hub.go:84); two pushes of an operation both apply it
(sync/handler.go:65, design property 16). The properties of the passing runs say
what holds in spite of these: how far a limit can be passed, how often an
operation can be applied, which accident can do which harm.

### Bounds

- Two requests in flight are enough for every race of a check and a write: a
  property of `PosOrders` relates one order's rows, and a stale read needs one
  other request. `MaxRows` bounds the rows of each log per order; 2 lets every
  write happen twice. Two shifts and two cashiers let a void come from another
  shift and another person.
- The order has a total of two cents or of nothing. Six units make a cent and the
  rate of LAK is 4, that of the baht 2, so a line may be worth a fraction of a cent:
  three lines pay the two cents exactly and the columns keep one of them, one line
  is of a method without a figure, another payment gives change in a line below 0,
  and a third has no lines. A rate that was set may round to nothing again. Ids of
  shifts and requests are symmetric. One order is enough for the invariants, each of
  which speaks of one order's rows; that the figures add up over any number of orders
  is proved.
- Buffers of one message are full as soon as the writer is slow once; three
  messages fill, overflow and come after the overflow. Two devices of a shop and
  one of another give a room that empties while it is walked over, and a room
  that must not be reached.
- The pool needs a request of each kind that keeps connections in another way, once:
  a new product (two statements of the lookup and one more), a payment and an
  import. A public request holds one connection at a time and a plain one is a new
  product without its lookup. The bound of `AmpleIsEnough` is computed from the
  requests.
- A clock of three ticks gives a token that is issued, expires, is replaced and
  expires again. `MaxMishaps` = 1 lets one kind of accident happen, any number of
  times, in one history; that is every history in which `SessionKept` and
  `NothingElseIsLive` say something. `OneUserAtATime` and `WrongPinIsAnswered`
  also speak of histories with several kinds of accidents at once, which are not
  explored.
- `login` runs two requests, so that two counts and two locks overlap, with a
  right and a wrong PIN. The lock comes after three attempts instead of five, and
  is over after two ticks instead of fifteen minutes: long enough for a login that
  read it to be overtaken by its end. One lost statement shows what each loss
  adds to the bound. One tablet is registered, revoked, renewed and granted again.
- `tenancy` has one shop, as shops share nothing but plans, two plans with a limit
  of 1, 2 or none, the owner and two more users: a limit of 1 is reached by the
  owner alone, and two requests pass it by one.
- `catalog` has three products, two prices and a limit of one or none. A file of
  two rows that is uploaded twice breaks off before, between and after its rows.
- `sync` queues two operations about one product, so that the conflict of one
  keeps the other from being marked failed. Two flushes and two requests send and
  apply the same operation twice; two lost statements let each of them do so again.

### Fairness and deadlock

`PosOrders`, `Session`, `Tenancy`, `Catalog` and `SyncQueue` have safety
properties only, and no fairness: a request may stop anywhere. `KdsHub!FairSpec` schedules each pump: a goroutine
that can go on does, as Go's scheduler and the deadlines of handler.go see to.
Nobody has to connect, say anything or disconnect. `ConnPool!FairSpec` schedules the goroutines, the database and
the pool, and does not rely on timeouts. `Login!FairSpec` lets time pass and a
handler that runs go on; nobody has to sign in. Deadlock is not checked where the
system really stops: all devices have disconnected or the process has ended
(`KdsHub`), all requests are done (`ConnPool`), and where the bound on accidents
stops a history (`Session`).

## 5. What is proved

All theorems hold for every value of the constants that satisfies the named
assumption of the module (`PosAssumption`, `HubAssumption`, `PoolAssumption`,
`SessionAssumption`, `LoginAssumption`, `TenancyAssumption`, `CatalogAssumption`,
`SyncAssumption`). The assumptions say that stored rates are positive, totals whole cents of either
sign, limits, lifetimes and capacities naturals, that the requests that run at once and the
connections of the pool are finitely many, and that the markers for "none" are
neither ids nor tokens.

**PosOrders.** None of the safety invariants is inductive: a request that was let
in by its first query commits much later, so the invariants need what it still
knows. `IInv` adds `ReadsStillHold` (for each request in flight, what it read of
total, shift and cashier still is what the row says; a refund in flight has an
order that was covered once; a rated line has a rate that was set),
`OrderIsSellers` (an order
of a shift belongs to the cashier of the shift), `PaymentsCover` (every payment that
left rows covers the total on its own, a second one included), `NoOrphans` (ids not
handed out have no rows). These survive other requests' steps because rows are only added
and the fields that were read are never written again, which is `Keeps`: it is
proved for every step first (`RowsKept`) and then does the work for all requests
that did not take the step. `Invariance` gives `TypeCorrect`, `PaymentCovers`,
`RefundBacked`, `StatusLogged`, `VoidAttributed` and `ForeignConfigured`.

**Refinement.** `Refinement` of `PosOrdersProofs`: under the invariant, each step of
`PosOrders` maps to one step of `OrderBook` on the order it writes, or to a
stutter; the reads and `Abort` stutter, `PayCommit` settles, a second
`PayCommit` settles again, and so on.

**ShiftSummary.** The figures are folds over sets of rows, and folding is recursion
on the size of the set. Nothing can be instantiated with a predicate here, so
induction takes the form of a set: `GrowingSubset` says that a set of subsets of S
which has {} and lets any element join has S, and it follows from a minimal
counterexample, which the well-founded order of finite subsets provides. With it
`SomeAdds` gives a function that satisfies the equation of SumFunctionOnSet, so that
the CHOOSE in it is that function; any element can be taken out of a sum, not only
the one CHOOSE picks (`SumTakesOut`); and then sums can be split, compared, added,
renamed and put together from groups without looking at the fold. `TakingsFigure` groups the joined rows by
payment: the sum over the columns of sums over rows, together with what has no
column, is the sum over rows of what each keeps (`SumOfColumns`). A payment keeps at
least what it was worth less half a cent a row (`InCentsLoses`, `BatchIsPaid`), and
was worth the total by `PaymentsCover`, so an order's rows, of however many payments,
keep its total less the rounding (`BatchesCover`, `RowsCover`); a paid order without
rows has nothing to be paid by `StatusIsLogged`. `VoidsFigure` needs
`VoidIsAttributed` and `NoOrphans` for each row of the log. That the sums are over
finite sets is `FinitelyMany`: orders are inserted one at a time.

**KdsHub.** The invariant adds that a goroutine's walk holds clients of its own
tenant that are connected, and ties the room to the open channels. From it
follow `TypeCorrect` (buffers never exceed their capacity), `Isolation` and
`Rooms`. `NoGaps` is about the stream of a peer, what it was sent followed by what
is queued for it. `GInv` says that the stream has no gaps, and that while the peer's
writer runs the last message in it of a device is the newest of that device, or the
one before that where the broadcast that walks the room has yet to come to the
peer. The second half is what the next message needs: a peer whose buffer has no
room for a message counts as still to come until its channel is closed, and nothing
is queued for it afterwards.

**ConnPool.** What a request holds and what it asks for go together (`InOrder`): it
asks for the connection of the request while it has none, for that of a transaction
before it has one, for that of a statement last, and while a transaction is open
only an import asks for anything; a late request is a new product that has the
connection of the request and needs another one only for the lookup. One lemma for each way the pool and its queue
change (`GrantGives`, `ReturnFrees`, `ForgetLeaves`, ...) says what becomes of both
for every request, and `OnePerUse` is part of the invariant because a grant gives
away the head of the queue: were it there twice, or held already, the request would
own two connections. `NoGridlock` counts: in a gridlock each connection is held by a
request that waits, for one of the uses that `Keeps` names, and by `OnePerUse` no
two connections for the same one, so the connections are no more than `HeldBack`.

**Session.** The properties say what an accident-free history guarantees, so the
invariant is a set of implications from `mishap`, which only grows. Without an
overlap and a crash the tablet is in one of four states (`InTurn`): signed out,
signing in, signed in, signing out; each but the first has one user, who owns every
token in storage and in calls, and only a signed-in tablet has calls of screens.
`KeptInv` tolerates overlaps: a token that was just handed out has its row, is not
in storage, and no other call holds it (`FreshIsNew`), so no other call deletes the
row before the token is stored. That it is new when it is handed out needs
`Known`: tokens anywhere on the tablet were handed out before. Without any accident
`OneLive` adds that one call at most is past the check of Refresh or carries a new
pair, since the check of a second one would find the token gone, or still held by the
first, which is the accident `twins`. Here the three parts come together: that no
sign-in is under way then is `InTurn`, and that the token which passes the check is
the stored one is `FreshIsNew`.

**Login.** A session may begin on a device shown as revoked, by a login that
had looked it up before the revocation. The model marks such a login `late`, and
`LateGrants` says that every login about to grant a token to a revoked device is
marked; what `Refresh` grants keeps its session's age, and a revocation makes every
session of the device an old one. `GuessesBounded` is a count (`GInv`): until the attempts in the row are one
short of the lock, every wrong PIN is in the row, still to be added to it by a login
that runs (`Counting`), or lost. From then on a login with a wrong PIN will lock the
account and keeps its slot until it has (`Locking`), so that there are at most two
more for each further login that runs at once.

**Tenancy.** `Within` bounds the active users and the requests that were let in,
together: a request that counts adds itself to the second, and one that inserts
moves from the second to the first, so the sum only grows where `Room` was found.
The widest limit is taken over all plans the shop had and all limits these had
(`LimitsOf`), which only grow; `PointsAtRows` says that every plan a shop or a
request refers to exists, so that the limit a request read is among them.

**Catalog.** The limit is counted like that of the users. `NothingUndone` is what
`AsAsked` needs: an update that was not overtaken writes the row as it is now,
with the columns it was asked for laid over it. For the import, `RowsAreCounted`
ties the copies of each row to the uploads that got so far: those that are past
the row (`Beyond`), those that are not (`UpTo`), and those between two rows
(`Between`).

**SyncQueue.** `QueueIsTrue` says that what is synced or deleted was applied, and
what failed was refused; `FlushIsTrue` says the same of what a flush has yet to
mark, and `RequestIsTrue` of what a request will answer, and that it leaves behind
only operations that are settled, in the order they were queued. `OneRequest`: a
flush waits for one request. `Counted` bounds the applications of an operation:
until its key is stored, each belongs to a request that is about to store it or
to a statement that was lost, and afterwards only a request that looked the key up
before can apply it once more. `Refinement` maps the table, the count and the
refusals to one entry for each operation in `Outbox`: `Apply`, `Conflict` and
`ApplyFails` find the operation at its turn by `RequestIsTrue` (`ItsTurn`),
`MarkSynced` and `MarkFailed` write what `FlushIsTrue` says the server did, or
nothing where the row is gone, `Cleanup` clears rows that show synced, and all that
the flushes and requests do between is a stutter.

Every safety property of the runs is proved, invariants and action properties
alike. Model-checked only: liveness (`LostIsRemoved`, `BroadcastEnds`,
`EveryRequestEnds`, `LockEnds`), as fairness and ENABLED are beyond the prover, and
the claims, which are refuted by a counterexample.

## 6. Plan

Done: orders, payments and shifts, the kitchen hub, the pool, the session; then
the login, the limits of the plans, products and imports, and the offline queue,
each with its proofs. Left, in this order:

1. `Checkout`: the retry of payment_screen.dart over the endpoints of `PosOrders`,
   with the cart that is cleared after it.
2. `KdsDisplays`: order lists of two screens over an ordered, lossy broadcast, once
   the server announces orders (nothing calls BroadcastNewOrder yet).
3. The balance of a shift and its cash difference; stock, once sales reach it.

## 7. Not modelled, and why

Routes that answer 501 (tables, discounts, reports, notifications) have no
behaviour, the one of sync has a handler, which is modelled with the interface it
is written against; printing, scanning, navigation and forms are device I/O; the schema,
generated code and deployment are context. The audit log and the plan feature
gate of the middleware are called by no route. The list with reasons is under
"components" in `PROJECT.json`.
