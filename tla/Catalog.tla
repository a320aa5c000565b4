------------------------------- MODULE Catalog ------------------------------
(***************************************************************************)
(* The products of one shop: internal/inventory/handler.go with the        *)
(* statements of pg_repository.go.                                         *)
(*                                                                         *)
(* The server runs several requests at once and each statement on its own. *)
(* A product is added after its plan's limit and the number of products    *)
(* were read; it is changed by laying the request over the row that was    *)
(* read and writing every column back; a file is imported row by row,      *)
(* outside the transaction the import opens.                               *)
(*                                                                         *)
(* The limit is what GetTenantPlan answers; Tenancy has the steps in which *)
(* it is read and changed.  Of a product the model keeps whether it is on  *)
(* sale and one more column, the price.                                    *)
(*                                                                         *)
(* A definition named X_Y is X with the bug Y; no action uses it.          *)
(***************************************************************************)
EXTENDS Naturals, FiniteSets

CONSTANTS
    Products,  \* ids the database may give out
    Prices,    \* values of sell_price
    Limits,    \* values of max_products
    NoLimit,   \* max_products is NULL
    None,      \* no value: a field that a request leaves out
    FileRows,  \* rows of the file that is imported
    Requests,  \* requests the server may be running at once
    MaxTries   \* bound: uploads of the file

ASSUME CatalogAssumption ==
    /\ IsFiniteSet(Products)
    /\ IsFiniteSet(Requests) /\ Requests # {}
    /\ None \notin Prices /\ None \notin Products
    /\ Limits \subseteq Nat /\ NoLimit \notin Nat
    /\ FileRows \in Nat
    /\ MaxTries \in Nat

VARIABLES
    row,     \* products: id -> row
    limit,   \* max_products of the shop's plan now
    req,     \* slot -> the request it runs
    given,   \* limits the shop has had
    unseen,  \* products on sale that were put there without a look at the limit
    asked,   \* id -> the row its requests ask for, in the order they are written
    copies,  \* row of the file -> products made from it
    tries,   \* uploads of the file that were begun
    whole    \* uploads that were answered with success

vars == <<row, limit, req, given, unseen, asked, copies, tries, whole>>

AnyLimit == Limits \cup {NoLimit}
NoRow == [sale |-> "none", price |-> None]
Row == [sale: {"on", "off"}, price: Prices] \cup {NoRow}
Edit == [sale: {"on", "off", None}, price: Prices \cup {None}]

(***************************************************************************)
(* Where a request stands.                                                 *)
(*   count   CountProducts, after the limit   insert  CreateProduct        *)
(*   blind   CreateProduct, after a check that could not be made           *)
(*   save    UpdateProduct, after GetProduct  rows    BulkCreateProducts   *)
(* copy, edit: what is written back, and what was asked for; late: the row *)
(* was written since it was read, and edit no longer matters; next: the    *)
(* row of the file to insert.                                              *)
(***************************************************************************)
Points == {"idle", "count", "insert", "blind", "save", "rows"}
Request == [pc: Points, limit: AnyLimit, product: Products \cup {None}, copy: Row, edit: Edit,
            late: BOOLEAN, next: 1 .. FileRows + 1]
NoEdit == [sale |-> None, price |-> None]
Slot(pc, m, p, c, e, n) ==
    [pc |-> pc, limit |-> m, product |-> p, copy |-> c, edit |-> e, late |-> FALSE, next |-> n]
Idle == Slot("idle", NoLimit, None, NoRow, NoEdit, 1)

At(r, pc) == req[r].pc = pc
Go(r, pc, m) == req' = [req EXCEPT ![r] = Slot(pc, m, None, NoRow, NoEdit, 1)]
End(r) == Go(r, "idle", NoLimit)

OnSale == {p \in Products : row[p].sale = "on"}

Init ==
    /\ row = [p \in Products |-> NoRow]
    /\ limit \in AnyLimit
    /\ req = [r \in Requests |-> Idle]
    /\ given = {limit}
    /\ unseen = {}
    /\ asked = row
    /\ copies = [k \in 1 .. FileRows |-> 0]
    /\ tries = 0
    /\ whole = 0
----------------------------------------------------------------------------
\* The administrator changes the plan, or moves the shop to another.
ChangeLimit(m) ==
    /\ limit' = m
    /\ given' = given \cup {m}
    /\ UNCHANGED <<row, req, unseen, asked, copies, tries, whole>>

\* GetProduct finds a product, on sale or not.
Found_Unchecked(p) == TRUE
Found(p) == row[p] # NoRow

\* INSERT: an id that is new, on sale.
Added(p, c) ==
    /\ row[p] = NoRow
    /\ row' = [row EXCEPT ![p] = [sale |-> "on", price |-> c]]
    /\ asked' = [asked EXCEPT ![p] = [sale |-> "on", price |-> c]]
----------------------------------------------------------------------------
(* CreateProduct *)

\* An error of GetTenantPlan counts as "no limit".
ReadLimit(r) ==
    /\ At(r, "idle")
    /\ \/ limit = NoLimit /\ Go(r, "insert", NoLimit)
       \/ limit # NoLimit /\ Go(r, "count", limit)
       \/ Go(r, "blind", NoLimit)
    /\ UNCHANGED <<row, limit, given, unseen, asked, copies, tries, whole>>

\* count >= *maxPtr refuses; an error of CountProducts counts as "no products".
Room_AtMost(r) == Cardinality(OnSale) <= req[r].limit
Room(r) == Cardinality(OnSale) < req[r].limit

Count(r) ==
    /\ At(r, "count")
    /\ \/ Room(r) /\ Go(r, "insert", NoLimit)
       \/ ~Room(r) /\ End(r)
       \/ req[r].limit > 0 /\ Go(r, "blind", NoLimit)
    /\ UNCHANGED <<row, limit, given, unseen, asked, copies, tries, whole>>

Insert(r, p, c) ==
    /\ At(r, "insert") \/ At(r, "blind")
    /\ Added(p, c)
    /\ unseen' = IF At(r, "blind") THEN unseen \cup {p} ELSE unseen
    /\ End(r)
    /\ UNCHANGED <<limit, given, copies, tries, whole>>

\* The body is refused, or a statement fails: the request is answered with an
\* error and leaves things as they are.
Fails(r) ==
    /\ ~At(r, "idle")
    /\ End(r)
    /\ UNCHANGED <<row, limit, given, unseen, asked, copies, tries, whole>>
----------------------------------------------------------------------------
(* UpdateProduct and DeleteProduct *)

\* Decoding the body into the row that was read.
Overlay_Blank(c, e) ==
    [sale  |-> IF e.sale = None THEN "on" ELSE e.sale,
     price |-> IF e.price = None THEN c.price ELSE e.price]

Overlay(c, e) ==
    [sale  |-> IF e.sale = None THEN c.sale ELSE e.sale,
     price |-> IF e.price = None THEN c.price ELSE e.price]

ReadRow(r, p, e) ==
    /\ At(r, "idle")
    /\ Found(p)
    /\ req' = [req EXCEPT ![r] = Slot("save", NoLimit, p, Overlay(row[p], e), e, 1)]
    /\ UNCHANGED <<row, limit, given, unseen, asked, copies, tries, whole>>

\* The updates of a product that have read what is no longer there.
Overtaken(s, p) == At(s, "save") /\ req[s].product = p
Late(s, p) == IF Overtaken(s, p) THEN [req[s] EXCEPT !.late = TRUE, !.edit = NoEdit] ELSE req[s]

\* Every column, is_active too.
Saved_Active(r) == [req[r].copy EXCEPT !.sale = "on"]
Saved(r) == req[r].copy

SaveRow(r) ==
    LET p == req[r].product IN
    /\ At(r, "save")
    /\ row' = [row EXCEPT ![p] = Saved(r)]
    /\ asked' = [asked EXCEPT ![p] = IF req[r].late THEN req[r].copy ELSE Overlay(@, req[r].edit)]
    /\ unseen' = CASE req[r].copy.sale = "off" -> unseen \ {p}
                   [] row[p].sale = "off" /\ req[r].copy.sale = "on" -> unseen \cup {p}
                   [] OTHER -> unseen
    /\ req' = [s \in Requests |-> IF s = r THEN Idle ELSE Late(s, p)]
    /\ UNCHANGED <<limit, given, copies, tries, whole>>

\* UPDATE .. SET is_active=false
Deleted(p) == row' = [row EXCEPT ![p].sale = "off"]

DeleteProduct(p) ==
    /\ Found(p)
    /\ Deleted(p)
    /\ asked' = [asked EXCEPT ![p].sale = "off"]
    /\ unseen' = unseen \ {p}
    /\ req' = [s \in Requests |-> Late(s, p)]
    /\ UNCHANGED <<limit, given, copies, tries, whole>>
----------------------------------------------------------------------------
(* ImportCSV *)

Upload(r) ==
    /\ At(r, "idle")
    /\ tries < MaxTries
    /\ tries' = tries + 1
    /\ Go(r, "rows", NoLimit)
    /\ UNCHANGED <<row, limit, given, unseen, asked, copies, whole>>

\* The next row goes in by itself; one that fails ends the import (Fails), and
\* those before it stay.
ImportRow(r, p, c) ==
    LET k == req[r].next IN
    /\ At(r, "rows")
    /\ k <= FileRows
    /\ Added(p, c)
    /\ unseen' = unseen \cup {p}
    /\ copies' = [copies EXCEPT ![k] = @ + 1]
    /\ req' = [req EXCEPT ![r].next = k + 1]
    /\ UNCHANGED <<limit, given, tries, whole>>

\* Commit, of a transaction without a statement.
Done_Early(r) == req[r].next >= FileRows
Done(r) == req[r].next > FileRows

Imported(r) ==
    /\ At(r, "rows")
    /\ Done(r)
    /\ whole' = whole + 1
    /\ End(r)
    /\ UNCHANGED <<row, limit, given, unseen, asked, copies, tries>>

\* The process ends, and with it the requests under way.
Crash ==
    /\ req' = [r \in Requests |-> Idle]
    /\ UNCHANGED <<row, limit, given, unseen, asked, copies, tries, whole>>

Next ==
    \/ \E m \in AnyLimit : ChangeLimit(m)
    \/ \E r \in Requests :
          \/ ReadLimit(r) \/ Count(r) \/ Fails(r) \/ SaveRow(r) \/ Upload(r) \/ Imported(r)
          \/ \E p \in Products, c \in Prices : Insert(r, p, c) \/ ImportRow(r, p, c)
          \/ \E p \in Products, e \in Edit : ReadRow(r, p, e)
    \/ \E p \in Products : DeleteProduct(p)
    \/ Crash

Spec == Init /\ [][Next]_vars
----------------------------------------------------------------------------
(* Properties. *)

TypeOK ==
    /\ row \in [Products -> Row] /\ asked \in [Products -> Row]
    /\ limit \in AnyLimit /\ given \subseteq AnyLimit /\ limit \in given
    /\ req \in [Requests -> Request]
    /\ unseen \subseteq Products /\ whole \in Nat /\ tries \in 0 .. MaxTries
    /\ copies \in [1 .. FileRows -> Nat]
    /\ \A r \in Requests : At(r, "save") =>
          req[r].product \in Products /\ row[req[r].product] # NoRow

\* Requests that have found room and not yet used it.
Admitted == {r \in Requests : At(r, "insert")}

\* However many products are added at once, a shop outgrows the widest limit it
\* ever had by less than the number of requests that run together, apart from
\* what never looks at the limit: imports, products taken back on sale, and
\* requests that could not read it.
ProductsWithinPlan ==
    \/ NoLimit \in given
    \/ \E m \in given :
          Cardinality(OnSale \ unseen) + Cardinality(Admitted) + 1 <= m + Cardinality(Requests)

\* Every product is what its requests ask for, in the order they are written.
\* Only an update that was overtaken by another, between its read and its write,
\* sets columns that it was not asked to set.
AsAsked == row = asked

\* A deleted product comes back on sale only by an update that names is_active,
\* or one that had read the row before the deletion.
GoneUnlessUndone ==
    [][\A p \in Products : row[p].sale = "off" /\ row'[p].sale = "on" =>
          \E r \in Requests : /\ At(r, "save") /\ req[r].product = p
                              /\ req[r].edit.sale = "on" \/ req[r].late]_vars

\* A file that is uploaded again after an import broke off repeats the rows that
\* went in: each row is there once for every upload that got so far, at least
\* once for every success and at most once for every try, and no row is there
\* more often than one before it.
ImportedInOrder ==
    \A k \in 1 .. FileRows :
        /\ whole <= copies[k] /\ copies[k] <= tries
        /\ \A j \in 1 .. k : copies[k] <= copies[j]
=============================================================================
