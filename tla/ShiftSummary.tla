---------------------------- MODULE ShiftSummary ----------------------------
(***************************************************************************)
(* The end-of-shift figures that PgShiftRepository.GetShiftSummary computes*)
(* in one SQL statement from orders LEFT JOIN payments, compared with what *)
(* they stand for.  A summary can be asked for at any moment, so its       *)
(* figures are judged in every reachable state.                            *)
(***************************************************************************)
EXTENDS PosOrders

NoPayment == <<0, 0>>   \* the NULLs of an order without payments rows

\* WHERE o.shift_id = s AND o.status = 'paid'
PaidOrders(s) ==
    {o \in DOMAIN orders : orders[o].shift = s /\ orders[o].status = "paid"}

\* The payments rows of an order, by batch and line.
PaymentRows(o) ==
    UNION {{b} \X DOMAIN payments[o][b] : b \in DOMAIN payments[o]}

\* LEFT JOIN payments: an order appears once for every row it has.
Joined_OncePerOrder(s) ==
    {<<o, <<1, 1>>>> : o \in {x \in PaidOrders(s) : PaymentRows(x) # {}}}
Joined(s) ==
    UNION {{o} \X (IF PaymentRows(o) = {} THEN {NoPayment} ELSE PaymentRows(o))
             : o \in PaidOrders(s)}

\* What a NUMERIC(15,2) column keeps: the nearest whole cent, half a cent away
\* from 0.
InCents(x) ==
    IF x >= 0 THEN Cent * ((x + Half) \div Cent) ELSE -(Cent * ((Half - x) \div Cent))

\* amount_lak of a row: each row is rounded, after the handler compared the sum
\* of what is not.
AmountLAK(o, row) ==
    LET p == payments[o][row[1]][row[2]] IN InCents(p.line.amount * p.rate)

\* SUM(o.total) over the joined rows.
TotalSales(s) == SumFunction([r \in Joined(s) |-> orders[r[1]].total])

\* The methods that the summary has a figure for.
Columns == {"cash", "qr", "transfer"}

\* SUM(CASE WHEN p.method = m THEN p.amount_lak ELSE 0 END)
PaidBy(m, o, row) ==
    row # NoPayment /\ payments[o][row[1]][row[2]].line.method = m
MethodTotal(s, m) ==
    SumFunction([r \in Joined(s) |->
                   IF PaidBy(m, r[1], r[2]) THEN AmountLAK(r[1], r[2]) ELSE 0])

\* The rows of void_logs, by order and position.
VoidRows == UNION {{o} \X DOMAIN voidLogs[o] : o \in Orders}

\* (SELECT COUNT( * ) FROM void_logs WHERE shift_id = s)
VoidCount_OfTenant(s) == Cardinality(VoidRows)
VoidCount(s) == Cardinality({r \in VoidRows : voidLogs[r[1]][r[2]].shift = s})
----------------------------------------------------------------------------
\* What the sales of a shift are: the totals of its paid orders, each once.
SalesOf(s) == SumFunction([o \in PaidOrders(s) |-> orders[o].total])

\* What was paid by methods without a figure, which the summary shows nowhere.
Unlisted(s) ==
    SumFunction([r \in Joined(s) |->
                   IF r[2] # NoPayment /\ \A m \in Columns : ~PaidBy(m, r[1], r[2])
                   THEN AmountLAK(r[1], r[2]) ELSE 0])

\* Half a cent for each payments row.
Rounding(s) == SumFunction([r \in Joined(s) |-> IF r[2] = NoPayment THEN 0 ELSE Half])

\* If no paid order of a shift has a total below 0, what the takings by method
\* lack of its sales is no more than was paid by methods without a figure and
\* half a cent a row: no paid order's money is missing for another reason,
\* although pay, void and refund set the status and the payments rows from
\* requests that overlap, and an order that was paid twice has two payments.
TakingsCoverSales ==
    \A s \in DOMAIN shifts :
       (\A o \in PaidOrders(s) : orders[o].total >= 0) =>
          SumFunction([m \in Columns |-> MethodTotal(s, m)]) + Unlisted(s) + Rounding(s)
             >= SalesOf(s)

\* Counting voids by the shift in the void log gives the voids of the orders of
\* that shift: the log's shift_id comes from the voiding request, not from the
\* order.
VoidCountsAgree ==
    \A s \in DOMAIN shifts :
       VoidCount(s) =
          Cardinality({r \in VoidRows : r[1] \in DOMAIN orders /\ orders[r[1]].shift = s})
============================================================================
