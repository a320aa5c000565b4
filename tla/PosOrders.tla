----------------------------- MODULE PosOrders -----------------------------
(***************************************************************************)
(* Orders, payments, voids, refunds, shifts and exchange rates of one      *)
(* tenant: the HTTP handlers of src/backend/internal/pos and the rows they *)
(* read and write through pg_repository.go.                                *)
(*                                                                         *)
(* A request is served by one goroutine.  It runs a few separate database  *)
(* statements, and what it read in an early one decides what it writes in  *)
(* a late one, with other requests in between.  Each statement, and each   *)
(* BEGIN .. COMMIT block, is one action: the blocks lock the order's row   *)
(* with their UPDATE and no statement in them reads a row that can change, *)
(* so they take effect as one step at COMMIT.                              *)
(*                                                                         *)
(* Money is counted in the unit of an amount times a rate, of which Cent   *)
(* make the cent that the columns keep: a client may send any fraction.    *)
(*                                                                         *)
(* A definition named X_Y is X with the bug Y.  No action uses it; putting *)
(* it in the place of X shows that a property would notice the bug.        *)
(***************************************************************************)
EXTENDS Integers, Sequences, FiniteSets, Functions

CONSTANTS
    Cashiers,   \* users that hold shifts
    Orders,     \* ids the orders table can hand out
    Shifts,     \* ids the shifts table can hand out
    Handlers,   \* requests the server runs at the same time
    Totals,     \* totals an order may be created with, none is refused
    Methods,    \* payment methods a client may name, none is refused
    Foreign,    \* currencies that need an exchange rate (THB, USD)
    Rates,      \* rates the owner may configure
    One,        \* the rate of LAK: 1 in units of the last digit of a rate
    Half,       \* half a cent
    Tenders,    \* lists of payment lines a client may send
    NoShift,    \* shift_id IS NULL
    NoOrder,    \* a request that carries no order id
    MaxRows     \* bound: rows of each log kept per order

\* The columns keep whole cents.
Cent == 2 * Half

Line == [method: Methods, currency: {"LAK"} \cup Foreign, amount: Int]
RatedLine == [line: Line, rate: Nat]

ASSUME PosAssumption ==
    /\ Cashiers # {}
    /\ NoShift \notin Shifts
    /\ NoOrder \notin Orders
    /\ Half \in Nat \ {0} /\ One \in Nat \ {0}
    /\ Totals \subseteq {t \in Int : t % Cent = 0}
    /\ Rates \subseteq Nat \ {0}
    /\ "LAK" \notin Foreign
    /\ Tenders \subseteq Seq(Line)
    /\ MaxRows \in Nat

VARIABLES
    orders,     \* id -> row, for the ids already inserted
    payments,   \* order id -> batches of payments rows, one per pay that wrote any
    voidLogs,   \* order id -> void_logs rows
    refunds,    \* order id -> refunds rows (the amount given back)
    shifts,     \* id -> row, for the ids already inserted
    rates,      \* exchange_rates: currency -> rate, 0 also when there is no row
    req         \* handler -> the request it is serving

tables == <<orders, payments, voidLogs, refunds, shifts, rates>>
vars == <<orders, payments, voidLogs, refunds, shifts, rates, req>>

OrderStatus == {"open", "paid", "voided", "refunded"}
OrderRow == [status: OrderStatus, cashier: Cashiers,
             shift: Shifts \cup {NoShift}, total: Totals]
ShiftRow == [status: {"open", "closed"}, cashier: Cashiers]
VoidRow == [by: Cashiers, shift: Shifts]

(***************************************************************************)
(* A request: where it stands, who sent it, and what it has read so far.   *)
(*   create  GetActiveShiftID answered, INSERT INTO orders to come         *)
(*   pay     order read as open; due lines still need a rate               *)
(*   void    order read and found in the caller's active shift             *)
(*   refund  order read as paid                                            *)
(*   open    no active shift found, INSERT INTO shifts to come             *)
(***************************************************************************)
Request == [pc: {"idle", "create", "pay", "void", "refund", "open"},
            cashier: Cashiers,
            order: Orders \cup {NoOrder},
            shift: Shifts \cup {NoShift},
            total: Totals \cup {0},
            due: Seq(Line),
            rated: Seq(RatedLine)]

Idle == [pc |-> "idle", cashier |-> CHOOSE c \in Cashiers : TRUE,
         order |-> NoOrder, shift |-> NoShift, total |-> 0,
         due |-> <<>>, rated |-> <<>>]

Serve(h, r) == req' = [req EXCEPT ![h] = r]
Finish(h) == req' = [req EXCEPT ![h] = Idle]
IsIdle(h) == req[h].pc = "idle"

Init ==
    /\ orders = [o \in {} |-> {}]
    /\ payments = [o \in Orders |-> <<>>]
    /\ voidLogs = [o \in Orders |-> <<>>]
    /\ refunds = [o \in Orders |-> <<>>]
    /\ shifts = [s \in {} |-> {}]
    /\ rates = [c \in Foreign |-> 0]
    /\ req = [h \in Handlers |-> Idle]
----------------------------------------------------------------------------
(* Reads. *)

\* Open shifts of a cashier; the query takes any one of them (LIMIT 1, no
\* ORDER BY).
ActiveShifts_OfAnyone(c) == {s \in DOMAIN shifts : shifts[s].status = "open"}
ActiveShifts(c) ==
    {s \in DOMAIN shifts : shifts[s].status = "open" /\ shifts[s].cashier = c}

\* What GetActiveShiftID may answer.
ActiveShiftID(c) ==
    IF ActiveShifts(c) = {} THEN {NoShift} ELSE ActiveShifts(c)

\* GetOrder finds the order.
Known(o) == o \in DOMAIN orders

\* What a list of rated lines is worth in LAK.
Paid(lines) ==
    SumFunction([i \in DOMAIN lines |-> lines[i].line.amount * lines[i].rate])

RateOf_DefaultOne(currency) ==
    IF currency = "LAK" \/ rates[currency] = 0 THEN One ELSE rates[currency]
RateOf(currency) == IF currency = "LAK" THEN One ELSE rates[currency]

SetStatus_Lost(o, st) == UNCHANGED orders
SetStatus(o, st) == orders' = [orders EXCEPT ![o].status = st]
AddRow(log, o, row) == [log EXCEPT ![o] = Append(@, row)]
HasRoom(log, o) == Len(log[o]) < MaxRows
----------------------------------------------------------------------------
(* POST /orders. *)

CreateOrderRead(h, c, t) ==
    /\ IsIdle(h)
    /\ \E s \in ActiveShiftID(c) :
          Serve(h, [Idle EXCEPT !.pc = "create", !.cashier = c,
                                !.shift = s, !.total = t])
    /\ UNCHANGED tables

\* The database generates the id, so the INSERT never hits an existing row.
NewOrder_Upsert(o) == TRUE
NewOrder(o) == o \notin DOMAIN orders

\* The INSERT names the shift that was read, whatever became of it since.  The
\* items of the request body are not written: nothing calls AddOrderItems.
InsertedOrder(h) ==
    [status |-> "open", cashier |-> req[h].cashier,
     shift |-> req[h].shift, total |-> req[h].total]

CreateOrderInsert(h, o) ==
    /\ req[h].pc = "create"
    /\ NewOrder(o)
    /\ orders' = [x \in DOMAIN orders \cup {o} |->
                     IF x = o THEN InsertedOrder(h) ELSE orders[x]]
    /\ Finish(h)
    /\ UNCHANGED <<payments, voidLogs, refunds, shifts, rates>>
----------------------------------------------------------------------------
(* POST /orders/{id}/pay. *)

PayRead(h, o, lines) ==
    /\ IsIdle(h)
    /\ Known(o)
    /\ orders[o].status = "open"
    /\ Serve(h, [Idle EXCEPT !.pc = "pay", !.order = o,
                             !.total = orders[o].total, !.due = lines])
    /\ UNCHANGED tables

\* One line of the request gets its rate, in a query of its own.  A currency
\* without a rate ends the request.
PayRate(h) ==
    /\ req[h].pc = "pay"
    /\ req[h].due # <<>>
    /\ LET line == Head(req[h].due)
           rate == RateOf(line.currency)
       IN IF rate = 0
          THEN Finish(h)
          ELSE Serve(h, [req[h] EXCEPT
                            !.due = Tail(@),
                            !.rated = Append(@, [line |-> line, rate |-> rate])])
    /\ UNCHANGED tables

\* The lines are compared with the total that was read at the start.
CoversTotal_IfAnything(h) == Paid(req[h].rated) > 0
CoversTotal(h) == Paid(req[h].rated) >= req[h].total

\* One row for each line: a payment without lines writes none.
InsertRows(o, lines) ==
    IF lines = <<>>
    THEN UNCHANGED payments
    ELSE HasRoom(payments, o) /\ payments' = AddRow(payments, o, lines)

\* The transaction of PgRepository.ProcessPayment.  The UPDATE has no status
\* guard, and it does not ask whether a row was written.
PayCommit(h) ==
    LET o == req[h].order IN
    /\ req[h].pc = "pay"
    /\ req[h].due = <<>>
    /\ CoversTotal(h)
    /\ InsertRows(o, req[h].rated)
    /\ SetStatus(o, "paid")
    /\ Finish(h)
    /\ UNCHANGED <<voidLogs, refunds, shifts, rates>>
----------------------------------------------------------------------------
(* POST /orders/{id}/void. *)

\* GetOrder and GetActiveShiftID are two queries, but the only field of the
\* order that is used, shift_id, is written once, so reading both here is the
\* same.  The order's status is not looked at.
VoidRead(h, c, o) ==
    /\ IsIdle(h)
    /\ Known(o)
    /\ orders[o].shift # NoShift
    /\ orders[o].shift \in ActiveShiftID(c)
    /\ Serve(h, [Idle EXCEPT !.pc = "void", !.cashier = c, !.order = o,
                             !.shift = orders[o].shift])
    /\ UNCHANGED tables

VoidCommit(h) ==
    LET o == req[h].order IN
    /\ req[h].pc = "void"
    /\ HasRoom(voidLogs, o)
    /\ voidLogs' = AddRow(voidLogs, o, [by |-> req[h].cashier, shift |-> req[h].shift])
    /\ SetStatus(o, "voided")
    /\ Finish(h)
    /\ UNCHANGED <<payments, refunds, shifts, rates>>
----------------------------------------------------------------------------
(* POST /orders/{id}/refund. *)

Refundable_UnlessVoided(o) == orders[o].status # "voided"
Refundable(o) == orders[o].status = "paid"

RefundRead(h, o) ==
    /\ IsIdle(h)
    /\ Known(o)
    /\ Refundable(o)
    /\ Serve(h, [Idle EXCEPT !.pc = "refund", !.order = o])
    /\ UNCHANGED tables

\* The amount is read again inside the transaction; the items the request lists
\* are ignored, the whole total goes back.
RefundCommit(h) ==
    LET o == req[h].order IN
    /\ req[h].pc = "refund"
    /\ HasRoom(refunds, o)
    /\ refunds' = AddRow(refunds, o, orders[o].total)
    /\ SetStatus(o, "refunded")
    /\ Finish(h)
    /\ UNCHANGED <<payments, voidLogs, shifts, rates>>
----------------------------------------------------------------------------
(* POST /shifts/open and /shifts/{id}/close. *)

OpenShiftRead(h, c) ==
    /\ IsIdle(h)
    /\ ActiveShifts(c) = {}
    /\ Serve(h, [Idle EXCEPT !.pc = "open", !.cashier = c])
    /\ UNCHANGED tables

InsertedShift(h) == [status |-> "open", cashier |-> req[h].cashier]

OpenShiftInsert(h, s) ==
    /\ req[h].pc = "open"
    /\ s \notin DOMAIN shifts
    /\ shifts' = [x \in DOMAIN shifts \cup {s} |->
                     IF x = s THEN InsertedShift(h) ELSE shifts[x]]
    /\ Finish(h)
    /\ UNCHANGED <<orders, payments, voidLogs, refunds, rates>>

\* One UPDATE by id: neither the caller nor the present status is checked.
Close(s) ==
    /\ s \in DOMAIN shifts
    /\ shifts' = [shifts EXCEPT ![s].status = "closed"]

\* The summary that follows only reads.
CloseShift(s) ==
    /\ Close(s)
    /\ UNCHANGED <<orders, payments, voidLogs, refunds, rates, req>>
----------------------------------------------------------------------------
\* INSERT .. ON CONFLICT (tenant_id, currency) DO UPDATE
SetExchangeRate(c, r) == rates' = [rates EXCEPT ![c] = r]

\* POST /settings/exchange-rates, with a positive rate: r is what NUMERIC(10,4)
\* keeps of it, 0 of one that is small enough.
SetRate(c, r) ==
    /\ SetExchangeRate(c, r)
    /\ UNCHANGED <<orders, payments, voidLogs, refunds, shifts, req>>

\* A request ends without writing: a failed check, a database error, the 60 s
\* request timeout, a client that went away, or a server crash.
Abort(h) ==
    /\ ~IsIdle(h)
    /\ Finish(h)
    /\ UNCHANGED tables

Next ==
    \/ \E h \in Handlers :
          \/ \E c \in Cashiers, t \in Totals : CreateOrderRead(h, c, t)
          \/ \E o \in Orders : CreateOrderInsert(h, o)
          \/ \E o \in Orders, lines \in Tenders : PayRead(h, o, lines)
          \/ PayRate(h)
          \/ PayCommit(h)
          \/ \E c \in Cashiers, o \in Orders : VoidRead(h, c, o)
          \/ VoidCommit(h)
          \/ \E o \in Orders : RefundRead(h, o)
          \/ RefundCommit(h)
          \/ \E c \in Cashiers : OpenShiftRead(h, c)
          \/ \E s \in Shifts : OpenShiftInsert(h, s)
          \/ Abort(h)
    \/ \E s \in Shifts : CloseShift(s)
    \/ \E c \in Foreign, r \in Rates \cup {0} : SetRate(c, r)

Spec == Init /\ [][Next]_vars
----------------------------------------------------------------------------
(* Properties. *)

\* Every table and every request in flight holds values of its type.
TypeOK ==
    /\ DOMAIN orders \subseteq Orders
    /\ orders \in [DOMAIN orders -> OrderRow]
    /\ payments \in [Orders -> Seq(Seq(RatedLine))]
    /\ voidLogs \in [Orders -> Seq(VoidRow)]
    /\ refunds \in [Orders -> Seq(Totals)]
    /\ DOMAIN shifts \subseteq Shifts
    /\ shifts \in [DOMAIN shifts -> ShiftRow]
    /\ rates \in [Foreign -> Rates \cup {0}]
    /\ req \in [Handlers -> Request]

\* One committed payment alone covers the order's total, or there is nothing to
\* be paid: a total is not checked, it may be 0 or less.
Covered(o) ==
    \/ orders[o].total <= 0
    \/ \E i \in DOMAIN payments[o] : Paid(payments[o][i]) >= orders[o].total

\* An order marked paid, or refunded, has a committed payment that covers its
\* total at the rates it was taken at, however pay, void and refund requests
\* interleave: the total that PayCommit compares was read in another query.
PaidIsCovered ==
    \A o \in DOMAIN orders : orders[o].status \in {"paid", "refunded"} => Covered(o)

\* Money goes back only for an order that was once paid in full, and each refund
\* row gives back exactly the order's total: RefundCommit writes unguarded what
\* RefundRead allowed.
RefundIsBacked ==
    \A o \in DOMAIN orders :
       refunds[o] # <<>> =>
          /\ Covered(o)
          /\ \A i \in DOMAIN refunds[o] : refunds[o][i] = orders[o].total

\* The status column and the log tables agree: nothing was logged for an order
\* that is open, and the log of the status it has otherwise has a row, but for an
\* order marked paid that has nothing to be paid: the empty payment that does it
\* leaves no row.
StatusIsLogged ==
    \A o \in DOMAIN orders :
       LET st == orders[o].status IN
       /\ st = "open" => payments[o] = <<>> /\ voidLogs[o] = <<>> /\ refunds[o] = <<>>
       /\ st = "paid" => payments[o] # <<>> \/ orders[o].total <= 0
       /\ st = "voided" => voidLogs[o] # <<>>
       /\ st = "refunded" => refunds[o] # <<>>

\* A void is logged under the shift the order was sold in and by the cashier who
\* sold it and holds that shift, although VoidOrder never compares cashiers:
\* it follows from whose active shift CreateOrder and VoidOrder look up.
VoidIsAttributed ==
    \A o \in DOMAIN orders : \A i \in DOMAIN voidLogs[o] :
       LET row == voidLogs[o][i] IN
       /\ row.shift = orders[o].shift
       /\ row.by = orders[o].cashier
       /\ row.shift \in DOMAIN shifts
       /\ shifts[row.shift].cashier = row.by

\* The rate a line was converted at is one that was set, or that of LAK.
IsConfigured(row) ==
    row.rate \in IF row.line.currency \in Foreign THEN Rates ELSE {One}

\* No payment is ever recorded in a currency without an exchange rate, although
\* rates are looked up line by line while they are set: neither a line that was
\* looked up before the first rate, nor one whose rate was rounded to nothing.
ForeignIsConfigured ==
    \A o \in Orders : \A b \in DOMAIN payments[o] : \A i \in DOMAIN payments[o][b] :
       IsConfigured(payments[o][b][i])

\* Nothing is taken back: an order keeps its total, shift and cashier, a shift
\* its cashier, and a covering payment stays.  The handlers rely on it, as they
\* act on rows they read some queries ago.
Keeps ==
    /\ \A o \in DOMAIN orders :
          /\ o \in DOMAIN orders'
          /\ orders'[o].total = orders[o].total
          /\ orders'[o].shift = orders[o].shift
          /\ orders'[o].cashier = orders[o].cashier
          /\ orders'[o].status = "open" => orders[o].status = "open"
          /\ Covered(o) => Covered(o)'
    /\ \A s \in DOMAIN shifts :
          /\ s \in DOMAIN shifts'
          /\ shifts'[s].cashier = shifts[s].cashier
          /\ shifts'[s].status = "open" => shifts[s].status = "open"

\* An order that was read stays what it was, but for its status, which never
\* returns to open; a closed shift is never open again.
RowsAreKept == [][Keeps]_vars
----------------------------------------------------------------------------
(* The strengthening that makes the invariants inductive. *)

\* What a request in flight still knows to be true of the tables.
StillTrue(r) ==
    /\ r.pc = "create" =>
          /\ r.total \in Totals
          /\ r.shift # NoShift =>
                /\ r.shift \in DOMAIN shifts
                /\ r.cashier = shifts[r.shift].cashier
    /\ r.pc = "pay" =>
          /\ r.order \in DOMAIN orders
          /\ r.total = orders[r.order].total
          /\ \A i \in DOMAIN r.rated : IsConfigured(r.rated[i])
    /\ r.pc = "void" =>
          /\ r.order \in DOMAIN orders
          /\ r.shift = orders[r.order].shift
          /\ r.shift \in DOMAIN shifts
          /\ r.cashier = shifts[r.shift].cashier
    /\ r.pc = "refund" =>
          /\ r.order \in DOMAIN orders
          /\ Covered(r.order)

ReadsStillHold == \A h \in Handlers : StillTrue(req[h])

\* An order sold in a shift was sold by the cashier who holds the shift.
OrderIsSellers ==
    \A o \in DOMAIN orders :
       orders[o].shift # NoShift =>
          /\ orders[o].shift \in DOMAIN shifts
          /\ orders[o].cashier = shifts[orders[o].shift].cashier

\* Every payment that left rows covers the total on its own, the second one of an
\* order that two requests paid included.
PaymentsCover ==
    \A o \in DOMAIN orders : \A b \in DOMAIN payments[o] :
       Paid(payments[o][b]) >= orders[o].total

\* Ids that were not handed out yet have no rows.
NoOrphans ==
    \A o \in Orders \ DOMAIN orders :
       payments[o] = <<>> /\ voidLogs[o] = <<>> /\ refunds[o] = <<>>

IInv ==
    /\ TypeOK
    /\ NoOrphans
    /\ OrderIsSellers
    /\ ReadsStillHold
    /\ PaymentsCover
    /\ PaidIsCovered
    /\ RefundIsBacked
    /\ StatusIsLogged
    /\ VoidIsAttributed
    /\ ForeignIsConfigured
----------------------------------------------------------------------------
(* What the requests amount to, one order at a time. *)

EntryOf(o) ==
    IF o \in DOMAIN orders
    THEN [phase |-> orders[o].status, settled |-> Covered(o),
          voids |-> Len(voidLogs[o]), givenBack |-> Len(refunds[o])]
    ELSE [phase |-> "none", settled |-> FALSE, voids |-> 0, givenBack |-> 0]

book == [o \in Orders |-> EntryOf(o)]

Book == INSTANCE OrderBook WITH book <- book

\* The split, interleaved requests implement a book in which every order is
\* placed, settled, voided and refunded in single steps, and refunded only
\* after it was settled.
ImplementsBook == Book!Spec
============================================================================
